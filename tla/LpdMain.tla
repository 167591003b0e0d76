------------------------------ MODULE LpdMain ------------------------------
(***************************************************************************)
(* The main process of lpd (lpd.c): its loop of reaping, restarting the    *)
(* logger, polling the queues, starting queue processes and waiting in     *)
(* select(), with the processes it forks.                                  *)
(*                                                                         *)
(* lpd never blocks SIGCHLD.  The signal does something only while the     *)
(* handler of Setup_waitpid_break is installed, that is from the step Wait *)
(* until select() returns; a child that ends before is a zombie nobody     *)
(* announces.  pc names the places of the loop at which it matters whether *)
(* another process has taken a step: before children are collected, before *)
(* a queue process is started or the wait begins, in select(), and before  *)
(* what is readable is read.  The calls between two of these look at       *)
(* nothing that another process changes, so they are one step.             *)
(*                                                                         *)
(* Processes of one kind differ in nothing but what they are about to do,  *)
(* so they are counted; there is at most one logger and one poll process.  *)
(*                                                                         *)
(* Abstractions: one listening socket; a logger destination is configured; *)
(* time is two flags, set when Poll_time or Poll_start_interval has passed;*)
(* the kernel does not give a reaped pid out again before lpd has counted  *)
(* its children once more (Countpid drops it from Process_list).           *)
(***************************************************************************)
EXTENDS Naturals, Sequences, SequencesExt

CONSTANTS Queues,             \* queues of the printcap
          MaxServers,         \* Get_max_servers()
          Reserve,            \* the 4 of "max_servers-4"
          PollServersStarted, \* Poll_servers_started_DYN
          StartInterval,      \* whether Poll_start_interval_DYN is not zero
          ForcePoll,          \* Force_poll_DYN
          MaxConns,           \* bound: connections of clients
          MaxFaults           \* bound: forks that fail, children that are
                              \* killed and SIGHUPs, all together

ASSUME LimitAssumption ==
    /\ MaxServers \in Nat
    /\ Reserve \in Nat
    /\ Reserve < MaxServers
    /\ PollServersStarted \in Nat
ASSUME SwitchAssumption == StartInterval \in BOOLEAN /\ ForcePoll \in BOOLEAN
ASSUME BoundAssumption == MaxConns \in Nat /\ MaxFaults \in Nat

VARIABLES
    \* variables of main()
    pc,            \* the place in the loop
    startFd,       \* start_fd is open
    forkFailed,    \* last_fork_pid_value < 0
    list,          \* Servers_line_list
    startedServer, \* Started_server
    timer,         \* select() will get a timeout
    accepting,     \* the listening socket is in readfds
    ready,         \* what select() found readable
    loop,          \* number_of_servers, server_processes_started,
                   \* forced_start and whether elapsed_time is long enough
    rereadConfig,  \* Reread_config
    interrupted,   \* a handler ran during select()
    stale,         \* Process_list has a pid that was reaped
    \* time
    pollDue,       \* Poll_time has passed since last_time
    startDue,      \* Poll_start_interval has passed since server_started_time
    \* pipes and sockets
    requestPipe,   \* names in the request pipe
    wake,          \* the line feed of sigchld_handler is in the request pipe
    pollPipe,      \* names in the pipe of the poll process
    backlog,       \* connections that wait to be accepted
    \* processes
    logger,        \* the process with logger_process_pid
    poll,          \* the process with start_pid
    todo,          \* queues the poll process has still to look at
    talking,       \* processes in Service_connection
    spooled,       \* the queues of those that have put a job in a queue
    serving,       \* the queues of the processes in Service_queue
    zombies,       \* other children that ended and were not waited for
    \* spool directories
    needy,         \* queues with a printable job and nobody looking at it
    \* bounds
    conns, faults

waitVars  == <<timer, accepting, ready, interrupted>>
timeVars  == <<pollDue, startDue>>
pipeVars  == <<requestPipe, wake, pollPipe, backlog>>
connVars  == <<talking, spooled>>
procVars  == <<logger, poll, todo, connVars, serving, zombies>>
boundVars == <<conns, faults>>
mainVars  == <<startFd, forkFailed, list, startedServer, loop, rereadConfig, stale>>
vars == <<pc, mainVars, waitVars, timeVars, pipeVars, procVars, needy, boundVars>>

Location == {"reap", "start", "select", "handle"}
Source   == {"socket", "request", "report"}

\* "none": start_pid or logger_process_pid is not positive.  "leave": the
\* process has closed its pipes and is about to exit.
Phase == {"none", "run", "leave", "zombie"}

\* A name in Servers_line_list: one found by a poll begins with a dot.
Entry == [queue : Queues, polled : BOOLEAN]

\* The variables of the loop that starts queue processes, outside of it.
NoLoop == [servers |-> 0, started |-> 0, forced |-> FALSE, elapsed |-> FALSE]

LpdTypeOK ==
    /\ pc \in Location
    /\ startFd \in BOOLEAN /\ forkFailed \in BOOLEAN /\ startedServer \in BOOLEAN
    /\ list \in Seq(Entry) /\ requestPipe \in Seq(Entry) /\ pollPipe \in Seq(Entry)
    /\ timer \in BOOLEAN /\ accepting \in BOOLEAN /\ interrupted \in BOOLEAN
    /\ rereadConfig \in BOOLEAN /\ wake \in BOOLEAN
    /\ pollDue \in BOOLEAN /\ startDue \in BOOLEAN
    /\ ready \subseteq Source
    /\ loop \in [servers : Nat, started : Nat, forced : BOOLEAN, elapsed : BOOLEAN]
    /\ logger \in Phase /\ poll \in Phase
    /\ todo \subseteq Queues
    /\ spooled \in Seq(Queues) /\ serving \in Seq(Queues)
    /\ talking \in Nat /\ zombies \in Nat /\ stale \in BOOLEAN /\ backlog \in Nat
    /\ needy \subseteq Queues
    /\ conns \in Nat /\ faults \in Nat

-----------------------------------------------------------------------------
(* Process_list and forking.                                               *)

One(phase) == IF phase = "none" THEN 0 ELSE 1

\* Countpid(): every child that was not waited for, zombies included, because
\* kill(pid,0) finds them as well.
Countpid == talking + Len(spooled) + Len(serving) + zombies + One(logger) + One(poll)

\* The poll process has closed its end of the pipe: it is at end of file.
PollEof == poll # "run"

Readable ==
    {s \in Source : \/ s = "socket" /\ accepting /\ backlog > 0
                    \/ s = "request" /\ (requestPipe # <<>> \/ wake)
                    \/ s = "report" /\ startFd /\ (pollPipe # <<>> \/ PollEof)}

\* A signal ends select() with EINTR only when it has nothing to report.
Interrupt == interrupted' = (interrupted \/ (pc = "select" /\ Readable = {}))

\* fork() fails now and then.  (dofork() enters the child in Process_list, so
\* the counters of the kinds are the list, together with stale.)
Fault ==
    /\ faults < MaxFaults
    /\ faults' = faults + 1

\* main() before the loop: the logger was started, and Start_all() as well
\* unless its fork failed.
LpdInit ==
    /\ pc = "reap"
    /\ logger = "run"
    /\ poll \in {"none", "run"}
    /\ todo = IF poll = "run" THEN Queues ELSE {}
    /\ startFd = (poll = "run")
    /\ forkFailed = (poll = "none")
    /\ stale = FALSE
    /\ list = <<>>
    /\ startedServer = FALSE
    /\ timer = FALSE
    /\ accepting = FALSE
    /\ ready = {}
    /\ loop = NoLoop
    /\ rereadConfig = FALSE
    /\ interrupted = FALSE
    /\ pollDue = FALSE
    /\ startDue = TRUE
    /\ requestPipe = <<>>
    /\ wake = FALSE
    /\ pollPipe = <<>>
    /\ backlog = 0
    /\ talking = 0
    /\ spooled = <<>>
    /\ serving = <<>>
    /\ zombies = 0
    /\ needy \in SUBSET Queues
    /\ conns = 0
    /\ faults = 0

-----------------------------------------------------------------------------
(* The loop of main(), up to the wait.                                     *)

Goto(l) == pc' = l

Reaped(phase) == IF phase = "zombie" THEN "none" ELSE phase

\* The loop over plp_waitpid(-1, ..., WNOHANG).  plp_waitpid asks
\* forget_child() to forget the pid -1, so Process_list keeps the children.
Collected == zombies > 0 \/ logger = "zombie" \/ poll = "zombie"

Reap ==
    /\ pc = "reap"
    /\ zombies' = 0

\* A logger that died is restarted.
LoggerUp ==
    /\ logger' = IF Reaped(logger) = "none" THEN "run" ELSE Reaped(logger)

Polled(l) == \E i \in DOMAIN l : l[i].polled
Forced(l) == \E i \in DOMAIN l : ~l[i].polled

\* The check for a new scan: not before Poll_time, nor with a poll process,
\* nor with names of the last poll still to be started, nor, without
\* force_poll, when nothing happened since.
MayPoll  == Reaped(poll) = "none" /\ pollDue
PollNow  == MayPoll /\ ~Polled(list) /\ (startedServer \/ ForcePoll)
PollWait == Reaped(poll) = "none" /\ ~pollDue

\* Start_all() opens a new pipe: what is left in the last one is lost with it.
StartAll ==
    /\ PollNow
    /\ poll' = "run"
    /\ todo' = Queues
    /\ pollPipe' = <<>>
    /\ startFd' = TRUE
    /\ startedServer' = FALSE
    /\ pollDue' = FALSE
    /\ UNCHANGED timer

NoScan ==
    /\ ~PollNow
    /\ poll' = Reaped(poll)
    /\ timer' = PollWait
    /\ UNCHANGED <<todo, pollPipe, startFd, startedServer, pollDue>>

\* Before the loop that starts queue processes: Countpid(), and whether there
\* is a name without a dot.
CountServers ==
    IF list = <<>>
    THEN loop' = NoLoop /\ stale' = (stale \/ Collected)
    ELSE /\ stale' = FALSE
         /\ loop' = [servers |-> Countpid', started |-> 0,
                     forced |-> Forced(list), elapsed |-> startDue]

\* With a failed fork on record lpd only waits, until a child has ended or the
\* wait has timed out.
BeginPass ==
    /\ Reap
    /\ ~forkFailed \/ Collected
    /\ LoggerUp
    /\ StartAll \/ NoScan
    /\ UNCHANGED <<list, rereadConfig, accepting, ready, interrupted, startDue,
                   requestPipe, wake, backlog, connVars, serving, needy, boundVars>>
    /\ CountServers
    /\ forkFailed' = FALSE
    /\ Goto("start")

\* The pass ends early: no process, or none for the logger or the poll.
NoFork ==
    /\ Reap
    /\ forkFailed' = TRUE
    /\ stale' = (stale \/ Collected)
    /\ \/ /\ forkFailed /\ ~Collected
          /\ UNCHANGED <<logger, poll, startFd, pollPipe, faults>>
       \/ /\ ~forkFailed \/ Collected
          /\ Reaped(logger) = "none"
          /\ Fault
          /\ logger' = "none"
          /\ poll' = Reaped(poll)
          /\ UNCHANGED <<startFd, pollPipe>>
       \/ /\ ~forkFailed \/ Collected
          /\ LoggerUp
          /\ PollNow
          /\ Fault
          /\ poll' = "none"
          /\ startFd' = FALSE
          /\ pollPipe' = <<>>
    /\ loop' = NoLoop
    /\ Goto("start")
    /\ UNCHANGED <<list, startedServer, rereadConfig, waitVars, timeVars, requestPipe,
                   wake, backlog, todo, connVars, serving, needy, conns>>

\* Mutant of MayStart: one process too many.
MayStartOneMore ==
    /\ ~forkFailed
    /\ loop.elapsed \/ loop.forced
    /\ list # <<>>
    /\ loop.started < PollServersStarted
    /\ loop.servers + loop.started + Reserve <= MaxServers

MayStart ==
    /\ ~forkFailed
    /\ loop.elapsed \/ loop.forced
    /\ list # <<>>
    /\ loop.started < PollServersStarted
    /\ loop.servers + loop.started + Reserve < MaxServers

\* The first name without a dot, or else the first name.
NextToStart ==
    IF Forced(list)
    THEN CHOOSE i \in DOMAIN list :
           ~list[i].polled /\ \A k \in 1 .. (i - 1) : list[k].polled
    ELSE 1

Forked ==
    /\ serving' = Append(serving, list[NextToStart].queue)
    /\ list' = RemoveAt(list, NextToStart)
    /\ startedServer' = TRUE
    /\ LET forced == Forced(list)
       IN  loop' = [servers |-> IF forced THEN loop.servers + 1 ELSE loop.servers,
                    started |-> IF forced THEN loop.started ELSE loop.started + 1,
                    forced  |-> forced,
                    elapsed |-> loop.elapsed]
    /\ UNCHANGED <<forkFailed, faults>>

NotForked ==
    /\ Fault
    /\ forkFailed' = TRUE
    /\ loop' = NoLoop
    /\ UNCHANGED <<list, startedServer, serving>>

\* One round of the loop: the name leaves the list if the fork succeeds.
StartServer ==
    /\ pc = "start"
    /\ MayStart
    /\ startDue' = FALSE
    /\ Forked \/ NotForked
    /\ UNCHANGED <<pc, startFd, rereadConfig, stale, waitVars, pollDue, pipeVars, logger,
                   poll, todo, connVars, zombies, needy, conns>>

-----------------------------------------------------------------------------
(* Waiting, and what select() reports.                                     *)

\* Mutant of Timeout: names in the list do not count.
TimeoutForPoll == timer' = (timer \/ ~accepting')

\* With names left there is a timeout, unless Poll_start_interval is 0.  No
\* connections are taken without room for a child.
Timeout == timer' = (timer \/ ~accepting' \/ (list # <<>> /\ StartInterval))

\* To the place where lpd waits: Setup_waitpid_break().
Wait ==
    /\ pc = "start"
    /\ ~MayStart
    /\ stale' = FALSE
    /\ accepting' = (Countpid < MaxServers /\ ~forkFailed)
    /\ Timeout
    /\ loop' = NoLoop
    /\ Goto("select")
    /\ UNCHANGED <<startFd, forkFailed, list, startedServer, rereadConfig, ready,
                   interrupted, timeVars, pipeVars, procVars, needy, boundVars>>

\* SIGHUP was caught: the logger is stopped, to be started with the new
\* configuration.
Reread ==
    /\ rereadConfig' = FALSE
    /\ logger' = IF rereadConfig /\ logger = "run" THEN "leave" ELSE logger

SelectReturns ==
    /\ pc = "select"
    /\ Reread
    /\ \/ /\ interrupted                                     \* EINTR
          /\ Goto("reap")
          /\ UNCHANGED <<ready, forkFailed>>
       \/ /\ ~interrupted /\ Readable # {}
          /\ ready' = Readable
          /\ Goto("handle")
          /\ UNCHANGED forkFailed
       \/ /\ ~interrupted /\ Readable = {} /\ timer          \* timed out
          /\ forkFailed' = FALSE
          /\ Goto("reap")
          /\ UNCHANGED ready
    /\ interrupted' = FALSE
    /\ timer' = FALSE
    /\ accepting' = FALSE
    /\ UNCHANGED <<startFd, list, startedServer, loop, stale, timeVars, pipeVars,
                   poll, todo, connVars, serving, zombies, needy, boundVars>>

\* Accept_connection(): a fork that fails closes the connection, nothing else.
Accept ==
    IF "socket" \notin ready
    THEN UNCHANGED <<backlog, talking, faults>>
    ELSE /\ backlog' = backlog - 1
         /\ \/ talking' = talking + 1 /\ UNCHANGED faults
            \/ UNCHANGED talking /\ Fault

\* Read_server_status(): every name that is not in the list yet is added.
Added(l, names) ==
    FoldLeft(LAMBDA acc, e : IF Contains(acc, e) THEN acc ELSE Append(acc, e),
             l, names)

ReadOf(s, pipe) == IF s \in ready THEN pipe ELSE <<>>

\* The rest of the loop.  Nothing that happens to lpd between these calls shows
\* before the next Reap or select(), so they are one step.
HandleReady ==
    /\ pc = "handle"
    /\ Accept
    /\ LET requests == ReadOf("request", requestPipe)
           reports  == ReadOf("report", pollPipe)
       IN  /\ list' = Added(Added(list, requests), reports)
           /\ startedServer' = (startedServer \/ requests # <<>> \/ reports # <<>>)
    /\ requestPipe' = IF "request" \in ready THEN <<>> ELSE requestPipe
    /\ wake' = (wake /\ "request" \notin ready)
    /\ pollPipe' = IF "report" \in ready THEN <<>> ELSE pollPipe
    /\ startFd' = (startFd /\ ~("report" \in ready /\ PollEof))
    /\ ready' = {}
    /\ Goto("reap")
    /\ UNCHANGED <<forkFailed, loop, rereadConfig, stale, timer, accepting,
                   interrupted, timeVars, logger, poll, todo, spooled, serving,
                   zombies, needy, conns>>

-----------------------------------------------------------------------------
(* The processes lpd forks.                                                *)

\* The end of a child: sigchld_handler writes to the request pipe and select()
\* is interrupted, if lpd is there.
Sigchld ==
    /\ wake' = (wake \/ pc = "select")
    /\ Interrupt

endUnchanged == <<pc, mainVars, timer, accepting, ready, timeVars, pollPipe, backlog,
                  conns>>

\* Service_connection() and Dispatch_input(): a request that leaves a job in a
\* queue, or one that is refused or changes nothing here.
SpoolJob(q) ==
    /\ talking > 0
    /\ talking' = talking - 1
    /\ spooled' = Append(spooled, q)
    /\ needy' = needy \cup {q}
    /\ UNCHANGED <<pc, mainVars, waitVars, timeVars, pipeVars, logger, poll, todo,
                   serving, zombies, boundVars>>

ConnEnds ==
    /\ zombies' = zombies + 1
    /\ Sigchld
    /\ UNCHANGED <<endUnchanged, logger, poll, todo, serving, needy>>

Refuse ==
    /\ talking > 0
    /\ talking' = talking - 1
    /\ ConnEnds
    /\ UNCHANGED <<spooled, requestPipe, faults>>

\* The name of the queue is written to Lpd_request; the process is done.
TellLpd ==
    /\ \E i \in DOMAIN spooled :
         /\ spooled' = RemoveAt(spooled, i)
         /\ requestPipe' = Append(requestPipe, [queue |-> spooled[i], polled |-> FALSE])
    /\ ConnEnds
    /\ UNCHANGED <<talking, faults>>

\* Service_all(): one queue after the other; a name with a dot for a queue that
\* has something to do.  The end of the pass closes the pipe.
CheckQueue ==
    /\ poll = "run"
    /\ todo # {}
    /\ \E q \in todo :
         /\ todo' = todo \ {q}
         /\ pollPipe' = IF q \in needy
                        THEN Append(pollPipe, [queue |-> q, polled |-> TRUE])
                        ELSE pollPipe
    /\ UNCHANGED <<pc, mainVars, waitVars, timeVars, requestPipe, wake, backlog,
                   logger, poll, connVars, serving, zombies, needy, boundVars>>

EndPoll ==
    /\ poll = "run"
    /\ todo = {}
    /\ poll' = "leave"
    /\ UNCHANGED <<pc, mainVars, waitVars, timeVars, pipeVars, logger, todo, connVars,
                   serving, zombies, needy, boundVars>>

ExitPoll ==
    /\ poll = "leave"
    /\ poll' = "zombie"
    /\ Sigchld
    /\ UNCHANGED <<endUnchanged, logger, todo, connVars, serving, zombies, needy,
                   requestPipe, faults>>

ExitLogger ==
    /\ logger = "leave"
    /\ logger' = "zombie"
    /\ Sigchld
    /\ UNCHANGED <<endUnchanged, poll, todo, connVars, serving, zombies, needy,
                   requestPipe, faults>>

\* Service_queue(): what it does is the module QueueServer.
QueueEnds(i) ==
    /\ serving' = RemoveAt(serving, i)
    /\ zombies' = zombies + 1
    /\ Sigchld
    /\ UNCHANGED <<endUnchanged, logger, poll, todo, connVars, requestPipe>>

ServeQueue ==
    /\ \E i \in DOMAIN serving : needy' = needy \ {serving[i]} /\ QueueEnds(i)
    /\ UNCHANGED faults

\* SIGKILL, or any other end before its time.
Crash ==
    /\ Fault
    /\ \/ \E i \in DOMAIN serving : QueueEnds(i) /\ UNCHANGED needy
       \/ /\ \E i \in DOMAIN spooled : spooled' = RemoveAt(spooled, i)
          /\ ConnEnds
          /\ UNCHANGED <<talking, requestPipe>>
       \/ /\ poll = "run" /\ poll' = "zombie" /\ todo' = {}
          /\ Sigchld
          /\ UNCHANGED <<endUnchanged, logger, connVars, serving, zombies, needy,
                         requestPipe>>
       \/ /\ logger = "run" /\ logger' = "zombie"
          /\ Sigchld
          /\ UNCHANGED <<endUnchanged, poll, todo, connVars, serving, zombies,
                         needy, requestPipe>>

-----------------------------------------------------------------------------
(* Clients, the administrator and time.                                    *)

Connect ==
    /\ conns < MaxConns
    /\ conns' = conns + 1
    /\ backlog' = backlog + 1
    /\ UNCHANGED <<pc, mainVars, waitVars, timeVars, requestPipe, wake, pollPipe,
                   procVars, needy, faults>>

\* SIGHUP: Reinit() sets a flag; it interrupts select().
Hup ==
    /\ Fault
    /\ rereadConfig' = TRUE
    /\ Interrupt
    /\ UNCHANGED <<pc, startFd, forkFailed, list, startedServer, loop, stale, timer,
                   accepting, ready, timeVars, pipeVars, procVars, needy, conns>>

\* this_time is read once in a pass of the loop: time passes while lpd waits.
PollTimePasses ==
    /\ pc = "select"
    /\ ~pollDue
    /\ pollDue' = TRUE
    /\ UNCHANGED <<pc, mainVars, waitVars, startDue, pipeVars, procVars, needy,
                   boundVars>>

StartIntervalPasses ==
    /\ pc = "select"
    /\ ~startDue
    /\ startDue' = TRUE
    /\ UNCHANGED <<pc, mainVars, waitVars, pollDue, pipeVars, procVars, needy,
                   boundVars>>

LoopStep ==
    BeginPass \/ NoFork \/ StartServer \/ Wait \/ SelectReturns \/ HandleReady

LpdNext ==
    \/ LoopStep
    \/ \E q \in Queues : SpoolJob(q)
    \/ TellLpd \/ ServeQueue \/ Refuse \/ CheckQueue \/ EndPoll \/ ExitPoll \/ ExitLogger \/ Crash
    \/ Connect \/ Hup
    \/ PollTimePasses \/ StartIntervalPasses

\* lpd's loop goes on, its children do their work and end.  Time passes however
\* often lpd wakes up before it has: strong fairness.
LpdFairness ==
    /\ WF_vars(LoopStep)
    /\ WF_vars(TellLpd)
    /\ WF_vars(ServeQueue)
    /\ WF_vars(Refuse)
    /\ WF_vars(CheckQueue)
    /\ WF_vars(EndPoll)
    /\ WF_vars(ExitPoll)
    /\ WF_vars(ExitLogger)
    /\ SF_vars(PollTimePasses)
    /\ SF_vars(StartIntervalPasses)

LpdSpec == LpdInit /\ [][LpdNext]_vars /\ LpdFairness

-----------------------------------------------------------------------------
(* Properties.                                                             *)

\* Processes for queues never use the last of the processes lpd allows itself
\* (lpd.c:530): the reserve for connections and the poll is kept, and the logger
\* counts, whatever is forked, ends or fails between the count and the fork.
ServersBounded == Len(serving) + Reserve < MaxServers

\* Whatever was asked of lpd is started in the end: with requests arriving in
\* any order, failed forks, lost SIGCHLDs and the limit on processes.
Asked(q) == \E e \in ToSet(requestPipe) \cup ToSet(list) : e.queue = q
RequestsTaken == \A q \in Queues : Asked(q) ~> ~Asked(q)

\* lpd.n: lpd checks every poll_time for queues with jobs and nobody printing,
\* and starts printing.  With force_poll it does so whatever happened before.
\* A poll process that ends just before select() stops the polling.
PollFindsWork == \A q \in Queues : (q \in needy) ~> (q \notin needy)

\* The comment at child.c:38: the pid that was waited for is removed from
\* Process_list, so that lpd does not signal a process that has it afterwards.
\* The one that is forgotten is the pid asked for, -1.
WaitedForIsForgotten == ~stale
=============================================================================

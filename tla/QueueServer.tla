---------------------------- MODULE QueueServer ----------------------------
(***************************************************************************)
(* One print queue and the processes that come and go to serve it.         *)
(*                                                                         *)
(* lpd forks a "queue" process for every start request of the queue        *)
(* (lpd.c).  The process runs Do_queue_jobs (lpd_jobs.c): the one that     *)
(* gets the lock on the queue's lock file becomes the server, the others   *)
(* read the server's pid from the file, send it SIGUSR1 and exit.  The     *)
(* server prints through a worker process per job (Service_worker), and    *)
(* leaves when it finds nothing to do: it empties and closes the lock      *)
(* file, sleeps a moment, and goes round again if a SIGUSR1 came.          *)
(*                                                                         *)
(* A job is one member of Jobs; its ticket is either printable (in queue)  *)
(* or not there any more.  Processes are the members of Procs: a pid that  *)
(* was reaped may be used again by a later process.                        *)
(***************************************************************************)
EXTENDS Naturals

CONSTANTS Procs,          \* pids of the processes that run Do_queue_jobs
          Jobs,           \* jobs that users submit
          None,           \* "no pid": an empty lock file, no parent
          SendTry,        \* Send_try_DYN: attempts before a job is given up
          MaxCrashes,     \* bound: processes killed by SIGKILL
          MaxForkErrors,  \* bound: worker forks that fail
          MaxKicks,       \* bound: start requests without a new job
          Polling,        \* whether lpd scans the queues every Poll_time
          PromptSignals   \* the timing assumption of the comment in
                          \* Do_queue_jobs: a process that read a pid signals
                          \* it before that process has left its last sleep

ASSUME NoneAssumption == None \notin Procs
ASSUME BoundsAssumption ==
    /\ SendTry \in Nat \ {0}
    /\ MaxCrashes \in Nat
    /\ MaxForkErrors \in Nat
    /\ MaxKicks \in Nat
ASSUME SwitchAssumption ==
    /\ Polling \in BOOLEAN
    /\ PromptSignals \in BOOLEAN

VARIABLES
    \* the spool directory
    fresh,       \* jobs nobody has submitted yet
    queue,       \* jobs with a ticket that is still to be printed
    server,      \* tickets whose SERVER field is set
    attempt,     \* the ATTEMPT field of each ticket
    lockHolder,  \* the process that has the lock on Queue_lock_file
    lockPid,     \* the pid written in Queue_lock_file
    \* lpd
    notify,      \* a job was spooled, its start request is not yet written
    request,     \* Servers_line_list or the request pipe names the queue
    \* the queue processes
    pc,          \* where each process is in Do_queue_jobs
    seen,        \* the pid it read from the lock file
    order,       \* Sort_order, the jobs of its last Scan_queue
    sigPending,  \* SIGUSR1 sent to it and blocked
    susr1,       \* its flag Susr1
    workers,     \* worker processes: parent, job and how far they are
    \* bounds
    crashes, forkErrors, kicks

spoolVars == <<fresh, queue, server, attempt>>
lockVars  == <<lockHolder, lockPid>>
lpdVars   == <<notify, request>>
boundVars == <<crashes, forkErrors, kicks>>
vars == <<spoolVars, lockVars, lpdVars, boundVars,
          pc, seen, order, sigPending, susr1, workers>>

Pid == Procs \cup {None}

\* "exit" is a process that blocked all signals in cleanup() or is a zombie:
\* kill() still finds it.  "dead" is a pid that is not in use.
Location == {"dead", "start", "lock", "readpid", "signal", "writepid", "scan",
             "main", "rescan", "pick", "wait", "pause",
             "truncate", "close", "unblock", "linger", "exit"}

\* "succ" and "fail" are the exit status of a worker nobody waited for yet.
Running  == {"forked", "printing"}
Exited   == {"succ", "fail"}
Worker   == [parent : Pid, job : Jobs, phase : Running \cup Exited]

\* The processes that have the lock and have not given it up.
Serving == {"main", "rescan", "pick", "wait", "pause"}
Owning  == {"writepid", "scan", "truncate", "close"} \cup Serving

Alive(p) == pc[p] # "dead"

ChildrenOf(p) == {w \in workers : w.parent = p}
Runs(w)       == w.phase \in Running

TypeOK ==
    /\ fresh \subseteq Jobs
    /\ queue \subseteq Jobs
    /\ server \subseteq Jobs
    /\ attempt \in [Jobs -> Nat]
    /\ lockHolder \in Pid
    /\ lockPid \in Pid
    /\ notify \in BOOLEAN
    /\ request \in BOOLEAN
    /\ pc \in [Procs -> Location]
    /\ seen \in [Procs -> Pid]
    /\ order \in [Procs -> SUBSET Jobs]
    /\ sigPending \in [Procs -> BOOLEAN]
    /\ susr1 \in [Procs -> BOOLEAN]
    /\ workers \subseteq Worker
    /\ crashes \in Nat
    /\ forkErrors \in Nat
    /\ kicks \in Nat

Init ==
    /\ fresh = Jobs
    /\ queue = {}
    /\ server = {}
    /\ attempt = [j \in Jobs |-> 0]
    /\ lockHolder = None
    /\ lockPid = None
    /\ notify = FALSE
    /\ request = FALSE
    /\ pc = [p \in Procs |-> "dead"]
    /\ seen = [p \in Procs |-> None]
    /\ order = [p \in Procs |-> {}]
    /\ sigPending = [p \in Procs |-> FALSE]
    /\ susr1 = [p \in Procs |-> FALSE]
    /\ workers = {}
    /\ crashes = 0
    /\ forkErrors = 0
    /\ kicks = 0

Goto(p, l) == pc' = [pc EXCEPT ![p] = l]

-----------------------------------------------------------------------------
(* Users and lpd.                                                          *)

\* A receiving process has put the job's ticket in the spool directory.
Submit(j) ==
    /\ j \in fresh
    /\ fresh' = fresh \ {j}
    /\ queue' = queue \cup {j}
    /\ notify' = TRUE
    /\ UNCHANGED <<server, attempt, lockVars, request, boundVars,
                   pc, seen, order, sigPending, susr1, workers>>

\* ... and then writes the queue's name on the request pipe; lpd adds it to
\* Servers_line_list unless it is there.
Notify ==
    /\ notify
    /\ notify' = FALSE
    /\ request' = TRUE
    /\ UNCHANGED <<spoolVars, lockVars, boundVars,
                   pc, seen, order, sigPending, susr1, workers>>

\* lpc start, release or redo, or a job moved here: lpd is asked to start the
\* queue though no job was spooled.
Kick ==
    /\ kicks < MaxKicks
    /\ kicks' = kicks + 1
    /\ request' = TRUE
    /\ UNCHANGED <<spoolVars, lockVars, notify, crashes, forkErrors,
                   pc, seen, order, sigPending, susr1, workers>>

\* A user removes the job; its worker, if it has one, is left to the signals
\* lprm sends it and may still finish.
Remove(j) ==
    /\ j \in queue
    /\ queue' = queue \ {j}
    /\ server' = server \ {j}
    /\ UNCHANGED <<fresh, attempt, lockVars, lpdVars, boundVars,
                   pc, seen, order, sigPending, susr1, workers>>

\* Service_all, every Poll_time: a queue that has a printable job gets a start
\* request.  Its check for a live server reads the pid from another file than
\* the one the server writes, and so never skips the queue.  Poll_time is long
\* compared with a scan: a poll finds every process settled.
Poll ==
    /\ Polling
    /\ ~request
    /\ queue # {}
    /\ \A p \in Procs : pc[p] \in {"dead", "pause"}
    /\ request' = TRUE
    /\ UNCHANGED <<spoolVars, lockVars, notify, boundVars,
                   pc, seen, order, sigPending, susr1, workers>>

\* lpd takes the queue from Servers_line_list and forks a process for it.
StartServer(p) ==
    /\ request
    /\ pc[p] = "dead"
    /\ request' = FALSE
    /\ Goto(p, "start")
    /\ UNCHANGED <<spoolVars, lockVars, notify, boundVars,
                   seen, order, sigPending, susr1, workers>>

\* lpd collects the exited process: its pid is free.
Reaped(p) ==
    /\ pc[p] = "exit"
    /\ Goto(p, "dead")
    /\ order' = [order EXCEPT ![p] = {}]
    /\ UNCHANGED <<spoolVars, lockVars, lpdVars, boundVars,
                   seen, sigPending, susr1, workers>>

-----------------------------------------------------------------------------
(* Do_queue_jobs: who serves the queue.                                    *)

\* again: block SIGUSR1, install the handler, Susr1 = 0, open the lock file.
\* lpd ignores SIGUSR1, so nothing is pending from before.
Begin(p) ==
    /\ pc[p] = "start"
    /\ susr1' = [susr1 EXCEPT ![p] = FALSE]
    /\ Goto(p, "lock")
    /\ UNCHANGED <<spoolVars, lockVars, lpdVars, boundVars,
                   seen, order, sigPending, workers>>

\* Mutant of TryLock: the result of Do_lock is not looked at.
TryLockUnchecked(p) ==
    /\ pc[p] = "lock"
    /\ lockHolder' = p
    /\ Goto(p, "writepid")
    /\ UNCHANGED <<spoolVars, lockPid, lpdVars, boundVars,
                   seen, order, sigPending, susr1, workers>>

TryLock(p) ==
    /\ pc[p] = "lock"
    /\ IF lockHolder = None
       THEN lockHolder' = p /\ Goto(p, "writepid")
       ELSE UNCHANGED lockHolder /\ Goto(p, "readpid")
    /\ UNCHANGED <<spoolVars, lockPid, lpdVars, boundVars,
                   seen, order, sigPending, susr1, workers>>

\* An empty file makes the process sleep a moment and try the lock again.
ReadPid(p) ==
    /\ pc[p] = "readpid"
    /\ seen' = [seen EXCEPT ![p] = lockPid]
    /\ Goto(p, IF lockPid = None THEN "lock" ELSE "signal")
    /\ UNCHANGED <<spoolVars, lockVars, lpdVars, boundVars,
                   order, sigPending, susr1, workers>>

\* What SIGUSR1 does to a process that exists: ignored before the handler is
\* installed and in cleanup(), handled at once where signals are not blocked,
\* pending everywhere else.
Deliver(q) ==
    /\ susr1' = [susr1 EXCEPT ![q] = @ \/ pc[q] = "linger"]
    /\ sigPending' = [sigPending EXCEPT
                        ![q] = @ \/ pc[q] \notin {"start", "linger", "exit"}]

\* kill(pid, SIGUSR1): it fails if there is no such process.
Signal(p) ==
    /\ pc[p] = "signal"
    /\ IF Alive(seen[p])
       THEN Deliver(seen[p]) /\ Goto(p, "exit")
       ELSE UNCHANGED <<sigPending, susr1>> /\ Goto(p, "lock")
    /\ seen' = [seen EXCEPT ![p] = None]
    /\ UNCHANGED <<spoolVars, lockVars, lpdVars, boundVars, order, workers>>

WritePid(p) ==
    /\ pc[p] = "writepid"
    /\ lockPid' = p
    /\ Goto(p, "scan")
    /\ UNCHANGED <<spoolVars, lockHolder, lpdVars, boundVars,
                   seen, order, sigPending, susr1, workers>>

\* Mutant of Scan: SERVER is left in the tickets.
ScanKeepingServer(p) ==
    /\ pc[p] = "scan"
    /\ order' = [order EXCEPT ![p] = queue]
    /\ Goto(p, "main")
    /\ UNCHANGED <<spoolVars, lockVars, lpdVars, boundVars,
                   seen, sigPending, susr1, workers>>

\* The first Scan_queue, and SERVER cleared in every ticket it found.
Scan(p) ==
    /\ pc[p] = "scan"
    /\ order' = [order EXCEPT ![p] = queue]
    /\ server' = server \ queue
    /\ Goto(p, "main")
    /\ UNCHANGED <<fresh, queue, attempt, lockVars, lpdVars, boundVars,
                   seen, sigPending, susr1, workers>>

-----------------------------------------------------------------------------
(* Do_queue_jobs: the main loop.                                           *)

\* Signals are let through for a moment; a SIGUSR1 asks for a new scan.
Main(p) ==
    /\ pc[p] = "main"
    /\ susr1' = [susr1 EXCEPT ![p] = @ \/ sigPending[p]]
    /\ sigPending' = [sigPending EXCEPT ![p] = FALSE]
    /\ Goto(p, IF susr1'[p] THEN "rescan" ELSE "pick")
    /\ UNCHANGED <<spoolVars, lockVars, lpdVars, boundVars,
                   seen, order, workers>>

\* while( Susr1 ): scan again, and look for signals again.
Rescan(p) ==
    /\ pc[p] = "rescan"
    /\ susr1' = [susr1 EXCEPT ![p] = FALSE]
    /\ order' = [order EXCEPT ![p] = queue]
    /\ Goto(p, "main")
    /\ UNCHANGED <<spoolVars, lockVars, lpdVars, boundVars,
                   seen, sigPending, workers>>

\* The jobs of the last scan whose ticket is still there and not active.
Candidates(p) == (order[p] \cap queue) \ server

\* The printer's SERVER entry: a worker was forked and not waited for.
Working(p) == ChildrenOf(p) # {}

\* Mutant of PickJob: the printer's SERVER entry is not looked at.
PickJobAnyway(p) ==
    /\ pc[p] = "pick"
    /\ \E j \in Candidates(p) :
         /\ server' = server \cup {j}
         /\ workers' = workers \cup
              {[parent |-> p, job |-> j, phase |-> "forked"]}
    /\ Goto(p, "main")
    /\ UNCHANGED <<fresh, queue, attempt, lockVars, lpdVars, boundVars,
                   seen, order, sigPending, susr1>>

\* A job is chosen: SERVER goes into its ticket, then the worker is forked.
\* If that fails the process sleeps and goes on, and the ticket keeps SERVER.
PickJob(p) ==
    /\ pc[p] = "pick"
    /\ ~Working(p)
    /\ \E j \in Candidates(p) :
         /\ server' = server \cup {j}
         /\ \/ /\ workers' = workers \cup
                    {[parent |-> p, job |-> j, phase |-> "forked"]}
               /\ UNCHANGED forkErrors
            \/ /\ forkErrors < MaxForkErrors
               /\ forkErrors' = forkErrors + 1
               /\ UNCHANGED workers
    /\ Goto(p, "main")
    /\ UNCHANGED <<fresh, queue, attempt, lockVars, lpdVars, crashes, kicks,
                   seen, order, sigPending, susr1>>

\* The printer is busy: Wait_for_subserver.
PickWait(p) ==
    /\ pc[p] = "pick"
    /\ Working(p)
    /\ Goto(p, "wait")
    /\ UNCHANGED <<spoolVars, lockVars, lpdVars, boundVars,
                   seen, order, sigPending, susr1, workers>>

\* Nothing to do and nobody at work: leave the main loop.
PickNothing(p) ==
    /\ pc[p] = "pick"
    /\ ~Working(p)
    /\ Candidates(p) = {}
    /\ Goto(p, "truncate")
    /\ UNCHANGED <<spoolVars, lockVars, lpdVars, boundVars,
                   seen, order, sigPending, susr1, workers>>

\* Mutant of UpdateStatus: a printed job is not taken out of the queue.
UpdateStatusKeeping(w) ==
    /\ server' = server \ {w.job}
    /\ UNCHANGED <<queue, attempt>>

\* Update_status on the exit status of a worker.  A failed job is tried again
\* until it has had Send_try attempts; then it is removed, which is the
\* default action of Decode_transfer_failure.
UpdateStatus(w) ==
    LET j == w.job
        given_up == w.phase = "succ" \/ attempt[j] + 1 >= SendTry
    IN  /\ queue' = IF given_up THEN queue \ {j} ELSE queue
        /\ server' = server \ {j}
        /\ attempt' = IF w.phase = "fail" /\ j \in queue
                      THEN [attempt EXCEPT ![j] = @ + 1] ELSE attempt

\* waitpid() finds an exited worker; a ticket that was removed is left alone.
WaitReap(p) ==
    /\ pc[p] = "wait"
    /\ \E w \in ChildrenOf(p) :
         /\ w.phase \in Exited
         /\ workers' = workers \ {w}
         /\ UpdateStatus(w)
    /\ Goto(p, "main")
    /\ UNCHANGED <<fresh, lockVars, lpdVars, boundVars,
                   seen, order, sigPending, susr1>>

WaitPause(p) ==
    /\ pc[p] = "wait"
    /\ \A w \in ChildrenOf(p) : Runs(w)
    /\ Goto(p, "pause")
    /\ UNCHANGED <<spoolVars, lockVars, lpdVars, boundVars,
                   seen, order, sigPending, susr1, workers>>

\* sigpause(): woken by SIGCHLD, which sends it back to waitpid(), by SIGUSR1,
\* which sends it back to the main loop, or by both.
Pause(p) ==
    LET chld == \E w \in ChildrenOf(p) : w.phase \in Exited
    IN  /\ pc[p] = "pause"
        /\ chld \/ sigPending[p]
        /\ susr1' = [susr1 EXCEPT ![p] = @ \/ sigPending[p]]
        /\ sigPending' = [sigPending EXCEPT ![p] = FALSE]
        /\ Goto(p, IF chld THEN "wait" ELSE "main")
        /\ UNCHANGED <<spoolVars, lockVars, lpdVars, boundVars,
                       seen, order, workers>>

-----------------------------------------------------------------------------
(* Do_queue_jobs: the way out.                                             *)

\* Mutant of Truncate: a zero is written instead of emptying the file.
TruncateToZero(p) ==
    /\ pc[p] = "truncate"
    /\ lockPid' = 0
    /\ Goto(p, "close")
    /\ UNCHANGED <<spoolVars, lockHolder, lpdVars, boundVars,
                   seen, order, sigPending, susr1, workers>>

Truncate(p) ==
    /\ pc[p] = "truncate"
    /\ lockPid' = None
    /\ Goto(p, "close")
    /\ UNCHANGED <<spoolVars, lockHolder, lpdVars, boundVars,
                   seen, order, sigPending, susr1, workers>>

\* Closing the only descriptor of the file gives up the lock.
Close(p) ==
    /\ pc[p] = "close"
    /\ lockHolder' = None
    /\ Goto(p, "unblock")
    /\ UNCHANGED <<spoolVars, lockPid, lpdVars, boundVars,
                   seen, order, sigPending, susr1, workers>>

\* Mutant of Unblock: the file is emptied when the lock is already gone.
UnblockTruncating(p) ==
    /\ pc[p] = "unblock"
    /\ lockPid' = None
    /\ Goto(p, "linger")
    /\ UNCHANGED <<spoolVars, lockHolder, lpdVars, boundVars,
                   seen, order, sigPending, susr1, workers>>

Unblock(p) ==
    /\ pc[p] = "unblock"
    /\ susr1' = [susr1 EXCEPT ![p] = @ \/ sigPending[p]]
    /\ sigPending' = [sigPending EXCEPT ![p] = FALSE]
    /\ Goto(p, "linger")
    /\ UNCHANGED <<spoolVars, lockVars, lpdVars, boundVars,
                   seen, order, workers>>

\* Mutant of Linger: cleanup(0) whatever Susr1 says.
LingerDeaf(p) ==
    /\ pc[p] = "linger"
    /\ PromptSignals =>
         ~ \E q \in Procs : pc[q] = "signal" /\ seen[q] = p
    /\ Goto(p, "exit")
    /\ UNCHANGED <<spoolVars, lockVars, lpdVars, boundVars,
                   seen, order, sigPending, susr1, workers>>

\* The sleep is over.  if( Susr1 ) goto again; else cleanup(0), where a later
\* SIGUSR1 is blocked for good.  PromptSignals keeps a process here while
\* another one is about to signal it.
Linger(p) ==
    /\ pc[p] = "linger"
    /\ PromptSignals =>
         ~ \E q \in Procs : pc[q] = "signal" /\ seen[q] = p
    /\ susr1' = [susr1 EXCEPT ![p] = FALSE]
    /\ Goto(p, IF susr1[p] THEN "lock" ELSE "exit")
    /\ UNCHANGED <<spoolVars, lockVars, lpdVars, boundVars,
                   seen, order, sigPending, workers>>

\* Mutant of Crash: a dead process keeps its lock.
CrashWithLock(p) ==
    /\ pc[p] \notin {"dead", "exit"}
    /\ crashes < MaxCrashes
    /\ crashes' = crashes + 1
    /\ workers' = {w \in workers : w.parent # p}
    /\ Goto(p, "exit")
    /\ UNCHANGED <<spoolVars, lockVars, lpdVars, forkErrors, kicks,
                   seen, order, sigPending, susr1>>

\* SIGKILL: the lock goes, the lock file and the tickets stay as they are, and
\* the workers go on without a parent.  Make_lpd_call closed the lock file in
\* them, so they do not keep the lock.
Crash(p) ==
    /\ pc[p] \notin {"dead", "exit"}
    /\ crashes < MaxCrashes
    /\ crashes' = crashes + 1
    /\ lockHolder' = IF lockHolder = p THEN None ELSE lockHolder
    /\ sigPending' = [sigPending EXCEPT ![p] = FALSE]
    /\ susr1' = [susr1 EXCEPT ![p] = FALSE]
    /\ seen' = [seen EXCEPT ![p] = None]
    /\ workers' = (workers \ ChildrenOf(p)) \cup
                  {[w EXCEPT !.parent = None] : w \in {v \in ChildrenOf(p) : Runs(v)}}
    /\ Goto(p, "exit")
    /\ UNCHANGED <<spoolVars, lockPid, lpdVars, forkErrors, kicks, order>>

-----------------------------------------------------------------------------
(* Service_worker.                                                         *)

BecomePhase(w, ph) == workers' = (workers \ {w}) \cup {[w EXCEPT !.phase = ph]}

\* A worker whose parent is gone is collected by init.
ExitWith(w, ph) ==
    IF w.parent = None THEN workers' = workers \ {w} ELSE BecomePhase(w, ph)

\* The worker reads the ticket again.  If it was removed there is nothing to
\* do; else the worker puts its own pid in SERVER.
WorkerStart(w) ==
    /\ w.phase = "forked"
    /\ IF w.job \in queue
       THEN server' = server \cup {w.job} /\ BecomePhase(w, "printing")
       ELSE UNCHANGED server /\ ExitWith(w, "succ")
    /\ UNCHANGED <<fresh, queue, attempt, lockVars, lpdVars, boundVars,
                   pc, seen, order, sigPending, susr1>>

WorkerExit(w) ==
    /\ w.phase = "printing"
    /\ \E ph \in Exited : ExitWith(w, ph)
    /\ UNCHANGED <<spoolVars, lockVars, lpdVars, boundVars,
                   pc, seen, order, sigPending, susr1>>

-----------------------------------------------------------------------------

ServerStep(p) ==
    \/ Begin(p) \/ TryLock(p) \/ ReadPid(p) \/ Signal(p) \/ WritePid(p)
    \/ Scan(p) \/ Main(p) \/ Rescan(p)
    \/ PickJob(p) \/ PickWait(p) \/ PickNothing(p)
    \/ WaitReap(p) \/ WaitPause(p) \/ Pause(p)
    \/ Truncate(p) \/ Close(p) \/ Unblock(p) \/ Linger(p)

WorkerStep == \E w \in workers : WorkerStart(w) \/ WorkerExit(w)

Next ==
    \/ \E j \in Jobs : Submit(j) \/ Remove(j)
    \/ Notify \/ Kick \/ Poll
    \/ \E p \in Procs : StartServer(p) \/ Reaped(p) \/ ServerStep(p) \/ Crash(p)
    \/ WorkerStep

Spec == Init /\ [][Next]_vars

\* The kernel runs every process that can run; lpd's loop and its poll go on
\* for ever; a worker stops at some time, if only by its timeouts.
Fairness ==
    /\ WF_vars(Notify) /\ WF_vars(Poll) /\ WF_vars(WorkerStep)
    /\ WF_vars(\E p \in Procs : StartServer(p))
    /\ \A p \in Procs : WF_vars(ServerStep(p)) /\ WF_vars(Reaped(p))

FairSpec == Spec /\ Fairness

-----------------------------------------------------------------------------
(* Properties.                                                             *)

\* The process that goes through the serving part of Do_queue_jobs is the one
\* that has the lock on the lock file, so there is one at a time.
ServerHasLock ==
    \A p \in Procs : pc[p] \in Owning <=> lockHolder = p

\* From its first scan until it empties the file the server's own pid is in
\* the lock file: that is where starters, lpc and lprm find whom to signal.
LockFileNamesServer ==
    \A p \in Procs : pc[p] \in Serving \cup {"scan", "truncate"} => lockPid = p

\* Only the server in its main loop has workers to wait for, and never two of
\* them: no process leaves the loop, or the lock, with a worker behind it.
WorkersOfServer ==
    /\ \A w \in workers : w.parent # None => pc[w.parent] \in Serving
    /\ \A v, w \in workers : v.parent = w.parent /\ v.parent # None => v = w

\* p will look at job j: it has not scanned yet, or j is among the jobs of its
\* last scan, or a SIGUSR1 that it will see makes it scan again.
WillLookAt(p, j) ==
    \/ pc[p] \in {"start", "lock", "readpid", "signal",
                  "writepid", "scan", "rescan"}
    \/ pc[p] \in Serving /\ j \in order[p]
    \/ pc[p] \in Serving \cup {"truncate", "close", "unblock", "linger"}
         /\ (sigPending[p] \/ susr1[p])

\* No job is stranded: a printable job has a worker whose end the server will
\* see, or a process that will look at it, or a start request on its way.
\* This is what the handshake over the lock file and SIGUSR1 is for.
NoLostWork ==
    \A j \in queue :
        \/ notify \/ request
        \/ \E w \in workers : w.job = j /\ w.parent # None
        \/ j \notin server /\ \E p \in Procs : WillLookAt(p, j)

\* The queue is a PrintQueue: one job at a time, none after it was printed.
RunningJobs == {w.job : w \in {v \in workers : Runs(v)}}

Abstract == INSTANCE PrintQueue WITH
    Idle    <- None,
    waiting <- queue,
    press   <- IF RunningJobs = {} THEN None
                                   ELSE CHOOSE j \in Jobs : j \in RunningJobs,
    over    <- (Jobs \ (fresh \cup queue))
                 \cup {w.job : w \in {v \in workers : v.phase = "succ"}}

ImplementsPrintQueue == Abstract!Spec

\* Every job that entered the queue leaves it, whatever crashes, fork errors
\* and late signals there were: lpd's poll finds what the handshake lost.
JobsLeaveQueue == \A j \in Jobs : j \in queue ~> j \notin queue

\* A process that finds the lock taken does not try for ever.
StartersSettle ==
    \A p \in Procs : pc[p] = "lock" ~> pc[p] \in Owning \cup {"exit"}

\* The comment on the slave processes (lpd_jobs.c): a new server cannot start
\* serving the queue until all workers of the dead one are gone.  It can: the
\* workers do not keep the lock file open.
NewServerWaitsForWorkers ==
    \A p \in Procs : pc[p] \in Serving => \A w \in workers : w.parent # None

\* The comment on the lock file (lpd_jobs.c): a process that read the pid
\* before the file was emptied signals a process that still sees the signal.
\* The sleep that is to ensure it is too short: without PromptSignals it may not.
SignalIsSeen ==
    [][\A p \in Procs :
         pc[p] = "signal" /\ pc'[p] = "exit" => pc[seen[p]] # "exit"]_vars
=============================================================================

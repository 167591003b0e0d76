---------------------------- MODULE QueueControl ----------------------------
(***************************************************************************)
(* The settings of one print queue and everyone who changes them.          *)
(*                                                                         *)
(* The queue's control file says whether printing is stopped or aborted    *)
(* and whether spooling is disabled.  lpc, the processes that receive jobs *)
(* and the queue server each read the whole file into Spool_control,       *)
(* change a flag and later write the whole file back (Set_spool_control);  *)
(* nothing locks the file in between.  The server decides with two cached  *)
(* copies, Spool_control and its entry in the list of servers, and learns  *)
(* of a change from the SIGUSR1 that follows it.                           *)
(*                                                                         *)
(* A copy of the file is the set of the flags that are set in it.  One     *)
(* process at a time runs Do_queue_jobs with the lock, which QueueServer   *)
(* shows; a process that finds the lock taken signals the one that has it, *)
(* and is one step here.  So is reading a pid and signalling it: what may  *)
(* happen in between is QueueServer's matter too, and so are jobs that     *)
(* fail or are removed.                                                    *)
(***************************************************************************)
EXTENDS Naturals

CONSTANTS Lpcs,         \* processes of lpd that run Job_control for an lpc
          Jobs,         \* jobs that users submit, each with a receiver
          None,
          Commands,     \* the lpc commands that are given
          StopOnAbort,  \* Stop_on_abort_DYN
          ForcePoll,    \* Force_poll_DYN
          MaxCommands   \* bound: lpc commands that are given

Flags == {"stopped", "aborted", "closed", "change"}

Command == {"stop", "start", "disable", "enable", "abort", "kill",
            "up", "down", "release", "hold", "msg"}

ASSUME NoneAssumption == None \notin Jobs
ASSUME CommandsAssumption == Commands \subseteq Command /\ MaxCommands \in Nat
ASSUME SwitchAssumption == StopOnAbort \in BOOLEAN /\ ForcePoll \in BOOLEAN

VARIABLES
    \* the spool directory
    control,   \* the flags set in Queue_control_file
    queue,     \* jobs with a ticket that is still to be printed
    held,      \* jobs with a HOLD_TIME
    lockPid,   \* whose pid is in Queue_lock_file: nobody's, the server's or
               \* that of a process that is dead
    \* lpd
    request,   \* the request pipe or Servers_line_list names the queue
    started,   \* Started_server
    \* the queue server
    pc,        \* where it is in Do_queue_jobs
    mem,       \* its Spool_control
    sp,        \* its servers.list[0], where printing is decided
    order,     \* its Sort_order
    sig,       \* a SIGUSR1 that it has not answered with a scan
    worker,    \* its worker: the job and how far it is
    \* lpc and the receivers
    lpc,       \* each lpc: step, command, its Spool_control, pid found
    rcv,       \* each receiver: step and its Spool_control
    commands   \* bound: commands given so far

spoolVars == <<control, queue, held, lockPid>>
lpdVars   == <<request, started>>
serverVars == <<pc, mem, sp, order, sig, worker>>
vars == <<spoolVars, lpdVars, serverVars, lpc, rcv, commands>>

Location == {"off", "lock", "writepid", "info", "writeback", "scan",
             "main", "rescan", "update", "pick", "wait", "truncate", "linger"}

\* Where the server's own pid is in the lock file.
Named == Location \ {"off", "lock", "writepid", "linger"}
Phase    == {"idle", "printing", "succ", "abort"}

LpcStep == {"idle", "loaded", "edited", "stored", "signalled"}
RcvStep == {"new", "accepted", "spooled", "loaded", "stored", "done"}

LpcState == [at : LpcStep, cmd : Command,
             mem : SUBSET Flags, seen : BOOLEAN]

IdleLpc == [at |-> "idle", cmd |-> "msg", mem |-> {}, seen |-> FALSE]
NoWork  == [job |-> None, phase |-> "idle"]

TypeOK ==
    /\ control \subseteq Flags
    /\ queue \subseteq Jobs /\ held \subseteq Jobs
    /\ lockPid \in {"none", "server", "dead"}
    /\ request \in BOOLEAN /\ started \in BOOLEAN
    /\ pc \in Location
    /\ mem \in SUBSET Flags
    /\ sp \in SUBSET Flags
    /\ order \in SUBSET Jobs
    /\ sig \in BOOLEAN
    /\ worker \in [job : Jobs \cup {None}, phase : Phase]
    /\ lpc \in [Lpcs -> LpcState]
    /\ rcv \in [Jobs -> [at : RcvStep, mem : SUBSET Flags]]
    /\ commands \in Nat

Init ==
    /\ control = {} /\ queue = {} /\ held = {} /\ lockPid = "none"
    /\ request = FALSE /\ started = FALSE
    /\ pc = "off" /\ mem = {} /\ sp = {} /\ order = {}
    /\ sig = FALSE /\ worker = NoWork
    /\ lpc = [l \in Lpcs |-> IdleLpc]
    /\ rcv = [j \in Jobs |-> [at |-> "new", mem |-> {}]]
    /\ commands = 0

\* Pr_disabled and Pr_aborted; Sp_disabled besides.
Permits(c) == "stopped" \notin c /\ "aborted" \notin c
Open(c)    == "closed" \notin c

Goto(l) == pc' = l

\* A process that is gone has no memory.
Exit ==
    /\ Goto("off")
    /\ mem' = {} /\ sp' = {} /\ order' = {}
    /\ sig' = FALSE /\ worker' = NoWork

\* A name read from the request pipe goes to Servers_line_list and sets
\* Started_server.
AskForServer == request' = TRUE /\ started' = TRUE

-----------------------------------------------------------------------------
(* Receive_job: one receiver per job.                                      *)

\* Sp_disabled: the sender is told to try again later.
Accept(j) ==
    /\ rcv[j].at = "new"
    /\ Open(control)
    /\ rcv' = [rcv EXCEPT ![j].at = "accepted"]
    /\ UNCHANGED <<spoolVars, lpdVars, serverVars, lpc, commands>>

Spool(j) ==
    /\ rcv[j].at = "accepted"
    /\ queue' = queue \cup {j}
    /\ rcv' = [rcv EXCEPT ![j].at = "spooled"]
    /\ UNCHANGED <<control, held, lockPid, lpdVars, serverVars, lpc, commands>>

\* Get_spool_control, Set_flag_value( CHANGE ), Set_spool_control.
LoadSettings(j) ==
    /\ rcv[j].at = "spooled"
    /\ rcv' = [rcv EXCEPT ![j] = [at |-> "loaded", mem |-> control]]
    /\ UNCHANGED <<spoolVars, lpdVars, serverVars, lpc, commands>>

StoreChange(j) ==
    /\ rcv[j].at = "loaded"
    /\ control' = rcv[j].mem \cup {"change"}
    /\ rcv' = [rcv EXCEPT ![j] = [at |-> "stored", mem |-> {}]]
    /\ UNCHANGED <<queue, held, lockPid, lpdVars, serverVars, lpc, commands>>

RequestServer(j) ==
    /\ rcv[j].at = "stored"
    /\ rcv' = [rcv EXCEPT ![j].at = "done"]
    /\ AskForServer
    /\ UNCHANGED <<spoolVars, serverVars, lpc, commands>>

-----------------------------------------------------------------------------
(* Do_queue_control.  "release" stands for redo and topq too; "msg" for    *)
(* every command that changes none of the flags of this module.            *)

Sets(c) == CASE c = "stop"    -> {"stopped"}
             [] c = "disable" -> {"closed"}
             [] c = "abort"   -> {"aborted"}
             [] c = "down"    -> {"stopped", "closed"}
             [] OTHER         -> {}

Clears(c) == CASE c \in {"start", "release"} -> {"stopped", "aborted"}
               [] c = "enable"               -> {"closed"}
               [] c = "up"                   -> {"stopped", "aborted", "closed"}
               [] OTHER                      -> {}

Edited(c, m) == (m \ Clears(c)) \cup Sets(c)

\* Setup_printer reads the control file.
LpcLoad(l) ==
    /\ lpc[l].at = "idle"
    /\ commands < MaxCommands
    /\ commands' = commands + 1
    /\ \E c \in Commands :
         lpc' = [lpc EXCEPT ![l] = [at |-> "loaded", cmd |-> c,
                                    mem |-> control, seen |-> FALSE]]
    /\ UNCHANGED <<spoolVars, lpdVars, serverVars, rcv>>

\* The flags are changed in memory; hold and release also change the ticket
\* of a job, if one matches.
LpcEdit(l) ==
    LET c == lpc[l].cmd
    IN  /\ lpc[l].at = "loaded"
        /\ lpc' = [lpc EXCEPT ![l] = [@ EXCEPT !.at = "edited",
                                 !.mem = Edited(c, lpc[l].mem)]]
        /\ \/ UNCHANGED held
           \/ c = "hold" /\ \E j \in queue : held' = held \cup {j}
           \/ c = "release" /\ \E j \in queue : held' = held \ {j}
        /\ UNCHANGED <<control, queue, lockPid, lpdVars, serverVars,
                       rcv, commands>>

\* Set_spool_control writes the whole copy and renames it over the file.
LpcStore(l) ==
    /\ lpc[l].at = "edited"
    /\ control' = lpc[l].mem
    /\ lpc' = [lpc EXCEPT ![l] = [@ EXCEPT !.at = "stored", !.mem = {}]]
    /\ UNCHANGED <<queue, held, lockPid, lpdVars, serverVars, rcv, commands>>

\* The pid is read from the lock file.  SIGUSR1 asks the server to look again;
\* SIGINT ends it and, through its Killchildren, its worker: the lock file
\* keeps the pid and the job its ticket.  A dead pid still counts as seen.
LpcSignal(l) ==
    /\ lpc[l].at = "stored"
    /\ lpc' = [lpc EXCEPT ![l] = [@ EXCEPT !.at = "signalled",
                                           !.seen = lockPid # "none"]]
    /\ \/ lockPid # "server" /\ UNCHANGED <<serverVars, lockPid>>
       \/ /\ lockPid = "server" /\ lpc[l].cmd \in {"abort", "kill"}
          /\ lockPid' = "dead"
          /\ Exit
       \/ /\ lockPid = "server" /\ lpc[l].cmd \notin {"abort", "kill"}
          /\ sig' = TRUE
          /\ UNCHANGED <<lockPid, pc, mem, sp, order, worker>>
    /\ UNCHANGED <<control, queue, held, lpdVars, rcv, commands>>

\* "start the server if necessary": kill and start always ask for one, up and
\* release only if the lock file named nobody, the others never.
LpcRequest(l) ==
    /\ lpc[l].at = "signalled"
    /\ lpc' = [lpc EXCEPT ![l] = IdleLpc]
    /\ IF \/ lpc[l].cmd \in {"kill", "start"}
          \/ lpc[l].cmd \in {"up", "release"} /\ ~lpc[l].seen
       THEN AskForServer
       ELSE UNCHANGED lpdVars
    /\ UNCHANGED <<spoolVars, serverVars, rcv, commands>>

-----------------------------------------------------------------------------
(* lpd and the start of Do_queue_jobs.                                     *)

\* Service_queue and Setup_printer: the settings are read before the lock.
StartServer ==
    /\ request
    /\ pc = "off"
    /\ request' = FALSE
    /\ started' = TRUE
    /\ mem' = control
    /\ Goto("lock")
    /\ UNCHANGED <<spoolVars, sp, order, sig, worker, lpc, rcv, commands>>

\* The process that lpd starts finds the lock taken and the server's pid in
\* the file.  While the file is empty or names a dead process it waits.
SignalServer ==
    /\ request
    /\ lockPid = "server"
    /\ request' = FALSE
    /\ started' = TRUE
    /\ sig' = TRUE
    /\ UNCHANGED <<spoolVars, pc, mem, sp, order, worker, lpc, rcv, commands>>

\* Mutant of Poll: a queue with jobs but no CHANGE is passed over.
PollChangeOnly ==
    /\ started \/ ForcePoll
    /\ ~request
    /\ pc \in {"off", "wait"}
    /\ request' = ("change" \in control)
    /\ started' = request'
    /\ UNCHANGED <<spoolVars, serverVars, lpc, rcv, commands>>

\* Service_all: Started_server is cleared, and a name comes back if the queue
\* has something to do.  Poll_time is long: processes that run are waiting for
\* a worker.
Poll ==
    LET found == "change" \in control \/ (queue \ held # {} /\ Permits(control))
    IN  /\ started \/ ForcePoll
        /\ ~request
        /\ pc \in {"off", "wait"}
        /\ request' = found
        /\ started' = found
        /\ UNCHANGED <<spoolVars, serverVars, lpc, rcv, commands>>

\* Do_lock succeeds.  On the way through "again" the process comes with the
\* Spool_control it had, and with Susr1 cleared.
Lock ==
    /\ pc = "lock"
    /\ sig' = FALSE
    /\ Goto("writepid")
    /\ UNCHANGED <<spoolVars, lpdVars, mem, sp, order, worker,
                   lpc, rcv, commands>>

WritePid ==
    /\ pc = "writepid"
    /\ lockPid' = "server"
    /\ Goto("info")
    /\ UNCHANGED <<control, queue, held, lpdVars, mem, sp, order, sig, worker,
                   lpc, rcv, commands>>

\* Mutant of ReadInfo: the settings that Setup_printer read are used again.
ReadInfoCached ==
    /\ pc = "info"
    /\ sp' = mem
    /\ Goto(IF "change" \in mem THEN "writeback" ELSE "scan")
    /\ UNCHANGED <<spoolVars, lpdVars, mem, order, sig, worker,
                   lpc, rcv, commands>>

\* Update_spool_info for servers.list[0], from the file.
ReadInfo ==
    /\ pc = "info"
    /\ sp' = control
    /\ Goto(IF "change" \in mem THEN "writeback" ELSE "scan")
    /\ UNCHANGED <<spoolVars, lpdVars, mem, order, sig, worker,
                   lpc, rcv, commands>>

\* CHANGE is cleared by writing the whole of Spool_control back.
WriteBack ==
    /\ pc = "writeback"
    /\ mem' = mem \ {"change"}
    /\ control' = mem \ {"change"}
    /\ sp' = sp \ {"change"}
    /\ Goto("scan")
    /\ UNCHANGED <<queue, held, lockPid, lpdVars, order, sig, worker,
                   lpc, rcv, commands>>

Scan ==
    /\ pc = "scan"
    /\ order' = queue \ held
    /\ Goto("main")
    /\ UNCHANGED <<spoolVars, lpdVars, mem, sp, sig, worker, lpc, rcv, commands>>

-----------------------------------------------------------------------------
(* Do_queue_jobs: the main loop and the way out.                           *)

Main ==
    /\ pc = "main"
    /\ Goto(IF sig THEN "rescan" ELSE "pick")
    /\ UNCHANGED <<spoolVars, lpdVars, mem, sp, order, sig, worker,
                   lpc, rcv, commands>>

\* while( Susr1 ): Susr1 = 0, Get_spool_control, Scan_queue ...
Rescan ==
    /\ pc = "rescan"
    /\ sig' = FALSE
    /\ mem' = control
    /\ order' = queue \ held
    /\ Goto("update")
    /\ UNCHANGED <<spoolVars, lpdVars, sp, worker, lpc, rcv, commands>>

\* ... and Update_spool_info, before Susr1 is looked at again.
UpdateInfo ==
    /\ pc = "update"
    /\ sp' = control \ {"change"}
    /\ Goto("main")
    /\ UNCHANGED <<spoolVars, lpdVars, mem, order, sig, worker,
                   lpc, rcv, commands>>

\* printing_enabled, and a printer that is neither disabled nor aborted nor
\* closed for spooling.
MayPrint == Permits(mem) /\ Permits(sp) /\ Open(sp)

Choice == IF MayPrint THEN order \cap (queue \ held) ELSE {}

Busy == worker.phase # "idle"

\* The ticket is marked and a worker is forked.
PickJob ==
    /\ pc = "pick"
    /\ ~Busy
    /\ \E j \in Choice :
         worker' = [job |-> j, phase |-> "printing"]
    /\ Goto("main")
    /\ UNCHANGED <<spoolVars, lpdVars, mem, sp, order, sig, lpc, rcv, commands>>

PickWait ==
    /\ pc = "pick"
    /\ Busy
    /\ Goto("wait")
    /\ UNCHANGED <<spoolVars, lpdVars, mem, sp, order, sig, worker,
                   lpc, rcv, commands>>

PickNothing ==
    /\ pc = "pick"
    /\ ~Busy
    /\ Choice = {}
    /\ Goto("truncate")
    /\ UNCHANGED <<spoolVars, lpdVars, mem, sp, order, sig, worker,
                   lpc, rcv, commands>>

\* The worker exits with JSUCC or with JABORT.
WorkerExit ==
    /\ worker.phase = "printing"
    /\ \E e \in {"succ", "abort"} : worker' = [worker EXCEPT !.phase = e]
    /\ UNCHANGED <<spoolVars, lpdVars, pc, mem, sp, order, sig,
                   lpc, rcv, commands>>

Exited == worker.phase \in {"succ", "abort"}

\* Update_status removes the job; with Stop_on_abort an aborted one also
\* aborts the queue, by writing the server's copy to the file.  Then both
\* copies are read from the file.
WaitReap ==
    LET stops == worker.phase = "abort" /\ StopOnAbort
    IN  /\ pc = "wait"
        /\ Exited
        /\ queue' = queue \ {worker.job}
        /\ held' = held \ {worker.job}
        /\ control' = IF stops THEN mem \cup {"aborted"} ELSE control
        /\ mem' = control'
        /\ sp' = control'
        /\ worker' = NoWork
        /\ Goto("main")
        /\ UNCHANGED <<lockPid, lpdVars, order, sig, lpc, rcv, commands>>

\* sigpause() returns for a SIGUSR1.
WakeUp ==
    /\ pc = "wait"
    /\ ~Exited
    /\ sig
    /\ Goto("main")
    /\ UNCHANGED <<spoolVars, lpdVars, mem, sp, order, sig, worker,
                   lpc, rcv, commands>>

\* Mutant of Truncate: a zero is written instead of emptying the file.
TruncateToZero ==
    /\ pc = "truncate"
    /\ lockPid' = "zero"
    /\ Goto("linger")
    /\ sp' = {} /\ order' = {}
    /\ UNCHANGED <<control, queue, held, lpdVars, mem, sig, worker,
                   lpc, rcv, commands>>

\* The list of servers is freed, the lock file emptied and closed; the order
\* of jobs is of no use without another scan.
Truncate ==
    /\ pc = "truncate"
    /\ lockPid' = "none"
    /\ Goto("linger")
    /\ sp' = {} /\ order' = {}
    /\ UNCHANGED <<control, queue, held, lpdVars, mem, sig, worker,
                   lpc, rcv, commands>>

\* if( Susr1 ) goto again, with the Spool_control of before; else cleanup(0).
Linger ==
    /\ pc = "linger"
    /\ IF sig
       THEN /\ Goto("lock")
            /\ sig' = FALSE
            /\ UNCHANGED <<mem, sp, order, worker>>
       ELSE Exit
    /\ UNCHANGED <<spoolVars, lpdVars, lpc, rcv, commands>>

-----------------------------------------------------------------------------

ReceiverStep(j) == \/ Spool(j) \/ LoadSettings(j)
                   \/ StoreChange(j) \/ RequestServer(j)

LpcWork(l) == LpcEdit(l) \/ LpcStore(l) \/ LpcSignal(l) \/ LpcRequest(l)

ServerStep ==
    \/ Lock \/ WritePid
    \/ ReadInfo \/ WriteBack \/ Scan
    \/ Main \/ Rescan \/ UpdateInfo
    \/ PickJob \/ PickWait \/ PickNothing
    \/ WaitReap \/ WakeUp \/ Truncate \/ Linger

Next ==
    \/ \E j \in Jobs : Accept(j) \/ ReceiverStep(j)
    \/ \E l \in Lpcs : LpcLoad(l) \/ LpcWork(l)
    \/ Poll
    \/ StartServer \/ SignalServer \/ ServerStep \/ WorkerExit

Spec == Init /\ [][Next]_vars

\* The kernel runs every process that can run, lpd's loop and its poll go on
\* for ever, and a worker ends.  Nobody need give a command or submit a job.
Fairness ==
    /\ WF_vars(Poll) /\ WF_vars(StartServer \/ SignalServer)
    /\ \A j \in Jobs : WF_vars(ReceiverStep(j))
    /\ \A l \in Lpcs : WF_vars(LpcWork(l))
    /\ WF_vars(ServerStep) /\ WF_vars(WorkerExit)

FairSpec == Spec /\ Fairness

-----------------------------------------------------------------------------
(* Properties.                                                             *)

\* Somebody has yet to signal the server or to start a process that does.
SignalComing ==
    \/ request
    \/ \E j \in Jobs : rcv[j].at = "stored"
    \/ \E l \in Lpcs : lpc[l].at = "stored"

\* A server that is about to choose a job by copies that let it print, while
\* the file says stop or abort, will hear of it: its copies are never stale
\* for good.  For a command that fell between Setup_printer and Write_pid it
\* is the second copy, read when the pid can be found, that makes it so.
StaleSettingsSignalled ==
    /\ pc \in Named \ {"info"}
    /\ MayPrint
    /\ ~Permits(control)
    => sig \/ SignalComing

\* A queue that is allowed to print, and goes on being allowed, prints: no
\* spooled job that is not held stays in it for ever, whatever commands were
\* given before and whatever was lost between them.  force_poll is needed.
PrintsWhenPermitted ==
    \A j \in Jobs :
        ~ <>[](/\ j \in queue \ held
               /\ Permits(control) /\ Open(control))

\* CHANGES on stop_on_abort: "the abort condition is sticky, i.e. - it will
\* persist until action is taken to clear it" by the lpc commands that cause
\* printing to be restarted.  Only a write of such a command clears it.  An old
\* copy of the control file that is written back clears it too.
Restarts == {"start", "up", "kill", "release"}

AbortIsSticky ==
    [][ "aborted" \in control /\ "aborted" \notin control'
          => \E l \in Lpcs : lpc[l].cmd \in Restarts /\ LpcStore(l) ]_vars

\* The comment in Do_queue_control: "start the server if necessary".  When
\* lpc up or release has stored its settings and signalled, a job that may
\* be printed does not wait for ever.  It may: a dead server's pid in the lock
\* file counts as a server.
StartsServerIfNecessary ==
    \A l \in Lpcs, j \in Jobs :
        LET Ready == j \in queue \ held /\ Permits(control) /\ Open(control)
        IN  lpc[l].at = "signalled" /\ lpc[l].cmd \in {"up", "release"} /\ Ready
              ~> ~Ready \/ worker.job = j
=============================================================================

-------------------------- MODULE QueueServerProofs --------------------------
(***************************************************************************)
(* Theorems about QueueServer, for any number of processes and jobs: the   *)
(* lock file discipline of Do_queue_jobs with crashes, fork errors and     *)
(* late signals; the handshake that loses no job; and the refinement of    *)
(* PrintQueue.                                                             *)
(***************************************************************************)
EXTENDS QueueServer, TLAPS

-----------------------------------------------------------------------------
(* Type correctness.                                                       *)

\* The initial state of the spool directory, lpd and the processes has the
\* types of TypeOK.
LEMMA InitTypeOK == Init => TypeOK
<1> SUFFICES ASSUME Init PROVE TypeOK
  OBVIOUS
<1>1. sigPending \in [Procs -> BOOLEAN] /\ susr1 \in [Procs -> BOOLEAN]
  BY Zenon DEF Init
<1>2. attempt \in [Jobs -> Nat] /\ pc \in [Procs -> Location]
      /\ seen \in [Procs -> Pid] /\ order \in [Procs -> SUBSET Jobs]
  BY DEF Init, Location, Pid
<1> QED
  BY <1>1, <1>2 DEF Init, TypeOK, Pid, Worker

\* Every step of a user, lpd, a queue process or a worker keeps the types.
LEMMA NextTypeOK == TypeOK /\ [Next]_vars => TypeOK'
<1> SUFFICES ASSUME TypeOK, [Next]_vars PROVE TypeOK'
  OBVIOUS
<1> USE NoneAssumption
        DEF TypeOK, Pid, Location, Worker, Running, Exited, Goto,
            spoolVars, lockVars, lpdVars, boundVars
<1>1. ASSUME NEW j \in Jobs, Submit(j) \/ Remove(j) PROVE TypeOK'
  <2>1. CASE Submit(j)      BY <2>1 DEF Submit
  <2>2. CASE Remove(j)      BY <2>2 DEF Remove
  <2> QED                   BY <1>1, <2>1, <2>2
<1>2. CASE Notify \/ Kick \/ Poll
  <2>1. CASE Notify         BY <2>1 DEF Notify
  <2>2. CASE Kick           BY <2>2 DEF Kick
  <2>3. CASE Poll           BY <2>3 DEF Poll
  <2> QED                   BY <1>2, <2>1, <2>2, <2>3
<1>3. ASSUME NEW p \in Procs, StartServer(p) \/ Reaped(p) PROVE TypeOK'
  <2>1. CASE StartServer(p) BY <2>1 DEF StartServer
  <2>2. CASE Reaped(p)      BY <2>2 DEF Reaped
  <2> QED                   BY <1>3, <2>1, <2>2
<1>4. ASSUME NEW p \in Procs, Crash(p) PROVE TypeOK'
  <2>1. ASSUME NEW w \in ChildrenOf(p) PROVE [w EXCEPT !.parent = None] \in Worker
    BY DEF ChildrenOf
  <2>2. workers' \subseteq Worker
    <3> SUFFICES ASSUME NEW w \in workers' PROVE w \in Worker
      OBVIOUS
    <3>1. CASE w \in workers
      BY <3>1
    <3>2. CASE \E v \in ChildrenOf(p) : w = [v EXCEPT !.parent = None]
      BY <2>1, <3>2
    <3> QED
      BY <1>4, <3>1, <3>2 DEF Crash
  <2> QED
    BY <1>4, <2>2 DEF Crash
<1>5. ASSUME NEW p \in Procs, ServerStep(p) PROVE TypeOK'
  <2>1. CASE Begin(p)       BY <2>1 DEF Begin
  <2>2. CASE TryLock(p)     BY <2>2 DEF TryLock
  <2>3. CASE ReadPid(p)     BY <2>3 DEF ReadPid
  <2>4. CASE Signal(p)      BY <2>4 DEF Signal, Deliver
  <2>5. CASE WritePid(p)    BY <2>5 DEF WritePid
  <2>6. CASE Scan(p)        BY <2>6 DEF Scan
  <2>7. CASE Main(p)        BY <2>7 DEF Main
  <2>8. CASE Rescan(p)      BY <2>8 DEF Rescan
  <2>9. CASE PickJob(p)     BY <2>9 DEF PickJob, Candidates
  <2>10. CASE PickWait(p)   BY <2>10 DEF PickWait
  <2>11. CASE PickNothing(p) BY <2>11 DEF PickNothing
  <2>12. CASE WaitReap(p)   BY <2>12 DEF WaitReap, UpdateStatus, ChildrenOf
  <2>13. CASE WaitPause(p)  BY <2>13 DEF WaitPause
  <2>14. CASE Pause(p)      BY <2>14 DEF Pause
  <2>15. CASE Truncate(p)   BY <2>15 DEF Truncate
  <2>16. CASE Close(p)      BY <2>16 DEF Close
  <2>17. CASE Unblock(p)    BY <2>17 DEF Unblock
  <2>18. CASE Linger(p)     BY <2>18 DEF Linger
  <2> QED
    BY <1>5, <2>1, <2>2, <2>3, <2>4, <2>5, <2>6, <2>7, <2>8, <2>9, <2>10,
       <2>11, <2>12, <2>13, <2>14, <2>15, <2>16, <2>17, <2>18 DEF ServerStep
<1>6. ASSUME NEW w \in workers, WorkerStart(w) \/ WorkerExit(w) PROVE TypeOK'
  <2>1. CASE WorkerStart(w) BY <2>1 DEF WorkerStart, ExitWith, BecomePhase
  <2>2. CASE WorkerExit(w)  BY <2>2 DEF WorkerExit, ExitWith, BecomePhase
  <2> QED                   BY <1>6, <2>1, <2>2
<1>7. CASE UNCHANGED vars
  BY <1>7 DEF vars
<1> QED
  BY <1>1, <1>2, <1>3, <1>4, <1>5, <1>6, <1>7 DEF Next, WorkerStep

\* The tickets, the lock file, the request list and the processes always have
\* the types of TypeOK.
THEOREM TypeCorrect == Spec => []TypeOK
  BY InitTypeOK, NextTypeOK, PTL DEF Spec

-----------------------------------------------------------------------------
(* The server is the process that has the lock, its pid is in the file, and *)
(* the workers are its own.                                                 *)

LockInv == ServerHasLock /\ LockFileNamesServer /\ WorkersOfServer

\* Nobody has the lock when lpd starts.
LEMMA InitLockInv == Init => LockInv
  BY NoneAssumption
  DEF Init, LockInv, ServerHasLock, LockFileNamesServer, WorkersOfServer,
      Owning, Serving

\* A step that moves at most one process, and that one within the serving part
\* or outside it, and leaves the lock, the file and the workers alone.
LEMMA HarmlessStep ==
  ASSUME TypeOK, LockInv,
         NEW p \in Procs, NEW l \in Location,
         pc' = [pc EXCEPT ![p] = l],
         (pc[p] \in Owning <=> l \in Owning),
         (l \in Serving \cup {"scan", "truncate"}
            => pc[p] \in Serving \cup {"scan", "truncate"}),
         (pc[p] \in Serving => l \in Serving \/ ChildrenOf(p) = {}),
         UNCHANGED <<lockHolder, lockPid, workers>>
  PROVE  LockInv'
<1> USE DEF TypeOK
<1>1. ServerHasLock'
  BY DEF LockInv, ServerHasLock
<1>2. LockFileNamesServer'
  BY DEF LockInv, LockFileNamesServer
<1>3. WorkersOfServer'
  BY DEF LockInv, WorkersOfServer, ChildrenOf
<1> QED
  BY <1>1, <1>2, <1>3 DEF LockInv

\* Every step keeps the lock invariant.
LEMMA NextLockInv == TypeOK /\ LockInv /\ [Next]_vars => LockInv'
<1> SUFFICES ASSUME TypeOK, LockInv, [Next]_vars PROVE LockInv'
  OBVIOUS
<1> USE NoneAssumption DEF Owning, Serving
<1>1. ASSUME UNCHANGED <<pc, lockHolder, lockPid, workers>> PROVE LockInv'
  BY <1>1 DEF LockInv, ServerHasLock, LockFileNamesServer, WorkersOfServer
<1>2. ASSUME NEW j \in Jobs, Submit(j) \/ Remove(j) PROVE LockInv'
  BY <1>1, <1>2 DEF Submit, Remove, lockVars
<1>3. CASE Notify \/ Kick \/ Poll
  BY <1>1, <1>3 DEF Notify, Kick, Poll, lockVars
<1>4. ASSUME NEW p \in Procs, StartServer(p) \/ Reaped(p) PROVE LockInv'
  BY <1>4, HarmlessStep DEF StartServer, Reaped, Goto, lockVars, Location
<1>5. ASSUME NEW p \in Procs, Crash(p) PROVE LockInv'
  <2> USE DEF TypeOK, LockInv
  <2>1. ServerHasLock'
    BY <1>5 DEF ServerHasLock, Crash, Goto
  <2>2. LockFileNamesServer'
    BY <1>5 DEF LockFileNamesServer, Crash, Goto
  <2>3. ASSUME NEW w \in workers', w.parent # None
        PROVE  w \in workers /\ w.parent # p
    <3>1. ASSUME NEW v \in ChildrenOf(p), w = [v EXCEPT !.parent = None]
          PROVE  FALSE
      <4>1. v \in Worker
        BY DEF ChildrenOf
      <4> QED
        BY <2>3, <3>1, <4>1 DEF Worker
    <3>2. w \in workers \ ChildrenOf(p)
      BY <1>5, <3>1 DEF Crash
    <3> QED
      BY <3>2 DEF ChildrenOf
  <2>4. WorkersOfServer'
    BY <1>5, <2>3 DEF WorkersOfServer, Crash, Goto, Worker, Pid
  <2> QED
    BY <2>1, <2>2, <2>4
<1>6. ASSUME NEW p \in Procs, ServerStep(p) PROVE LockInv'
  <2> USE DEF Goto, lockVars
  <2>1. CASE Begin(p) \/ ReadPid(p) \/ PickWait(p) \/ WaitPause(p)
    BY <2>1, HarmlessStep DEF Begin, ReadPid, PickWait, WaitPause, Location
  <2>2. CASE Signal(p)
    BY <2>2, HarmlessStep DEF Signal, Location
  <2>3. CASE Scan(p) \/ Rescan(p)
    BY <2>3, HarmlessStep DEF Scan, Rescan, Location
  <2>4. CASE Main(p) \/ Pause(p)
    BY <2>4, HarmlessStep DEF Main, Pause, Location
  <2>5. CASE Unblock(p) \/ Linger(p)
    BY <2>5, HarmlessStep DEF Unblock, Linger, Location
  <2>6. CASE PickNothing(p)
    BY <2>6, HarmlessStep DEF PickNothing, Working, Location
  <2>7. CASE TryLock(p)
    <3>1. CASE lockHolder = None
      <4>1. ServerHasLock'
        BY <2>7, <3>1 DEF TryLock, LockInv, ServerHasLock, TypeOK
      <4>2. LockFileNamesServer'
        BY <2>7, <3>1 DEF TryLock, LockInv, LockFileNamesServer, TypeOK
      <4>3. WorkersOfServer'
        <5>1. \A w \in workers : w.parent # None => w.parent # p
          BY <2>7 DEF TryLock, LockInv, WorkersOfServer, TypeOK
        <5>2. workers' = workers /\ \A q \in Procs : q # p => pc'[q] = pc[q]
          BY <2>7 DEF TryLock, TypeOK
        <5> QED
          BY <5>1, <5>2 DEF LockInv, WorkersOfServer, TypeOK, Worker, Pid
      <4> QED
        BY <4>1, <4>2, <4>3 DEF LockInv
    <3>2. CASE lockHolder # None
      BY <2>7, <3>2, HarmlessStep DEF TryLock, Location
    <3> QED
      BY <3>1, <3>2
  <2>8. CASE WritePid(p)
    BY <2>8 DEF WritePid, LockInv, ServerHasLock, LockFileNamesServer,
                WorkersOfServer, TypeOK
  <2>9. CASE Truncate(p)
    BY <2>9 DEF Truncate, LockInv, ServerHasLock, LockFileNamesServer,
                WorkersOfServer, TypeOK
  <2>10. CASE Close(p)
    BY <2>10 DEF Close, LockInv, ServerHasLock, LockFileNamesServer,
                 WorkersOfServer, TypeOK
  <2>11. CASE PickJob(p)
    <3>1. ServerHasLock' /\ LockFileNamesServer'
      BY <2>11 DEF PickJob, LockInv, ServerHasLock, LockFileNamesServer, TypeOK
    <3>2. ASSUME NEW w \in workers', w \notin workers PROVE w.parent = p
      BY <2>11, <3>2 DEF PickJob
    <3>3. ASSUME NEW w \in workers' PROVE w \in workers => w.parent # p
      BY <2>11 DEF PickJob, Working, ChildrenOf
    <3>4. ASSUME NEW v \in workers', NEW w \in workers',
                 v \notin workers, w \notin workers
          PROVE  v = w
      BY <2>11, <3>4 DEF PickJob
    <3>5. pc'[p] \in Serving /\ \A q \in Procs : q # p => pc'[q] = pc[q]
      BY <2>11 DEF PickJob, TypeOK
    <3>6. WorkersOfServer'
      BY <3>2, <3>3, <3>4, <3>5
      DEF LockInv, WorkersOfServer, TypeOK, Worker, Pid
    <3> QED
      BY <3>1, <3>6 DEF LockInv
  <2>12. CASE WaitReap(p)
    <3>1. workers' \subseteq workers
      BY <2>12 DEF WaitReap
    <3>2. ServerHasLock' /\ LockFileNamesServer'
      BY <2>12 DEF WaitReap, LockInv, ServerHasLock, LockFileNamesServer, TypeOK
    <3>3. WorkersOfServer'
      BY <2>12, <3>1 DEF WaitReap, LockInv, WorkersOfServer, TypeOK, Worker, Pid
    <3> QED
      BY <3>2, <3>3 DEF LockInv
  <2> QED
    BY <1>6, <2>1, <2>2, <2>3, <2>4, <2>5, <2>6, <2>7, <2>8, <2>9, <2>10,
       <2>11, <2>12 DEF ServerStep
<1>7. ASSUME NEW w \in workers, WorkerStart(w) \/ WorkerExit(w) PROVE LockInv'
  <2>1. UNCHANGED <<pc, lockHolder, lockPid>>
    BY <1>7 DEF WorkerStart, WorkerExit, lockVars
  <2>2. \/ workers' = workers \ {w}
        \/ \E ph \in Running \cup Exited :
             workers' = (workers \ {w}) \cup {[w EXCEPT !.phase = ph]}
    BY <1>7 DEF WorkerStart, WorkerExit, ExitWith, BecomePhase, Running, Exited
  <2>3. ASSUME NEW ph PROVE [w EXCEPT !.phase = ph].parent = w.parent
    BY DEF TypeOK, Worker
  <2>4. WorkersOfServer'
    BY <2>1, <2>2, <2>3 DEF LockInv, WorkersOfServer
  <2>5. ServerHasLock' /\ LockFileNamesServer'
    BY <2>1 DEF LockInv, ServerHasLock, LockFileNamesServer
  <2> QED
    BY <2>4, <2>5 DEF LockInv
<1>8. CASE UNCHANGED vars
  BY <1>1, <1>8 DEF vars, lockVars
<1> QED
  BY <1>2, <1>3, <1>4, <1>5, <1>6, <1>7, <1>8 DEF Next, WorkerStep

LEMMA LockInvariant == Spec => []LockInv
  BY TypeCorrect, InitLockInv, NextLockInv, PTL DEF Spec

\* One process at a time goes through the serving part of Do_queue_jobs, and
\* it is the one that has the lock, whatever crashes there are.
THEOREM LockedServer == Spec => []ServerHasLock
  BY LockInvariant, PTL DEF LockInv

\* From its first scan to its truncation of the lock file the server is the
\* process whose pid a starter, lpc or lprm reads there.
THEOREM NamedServer == Spec => []LockFileNamesServer
  BY LockInvariant, PTL DEF LockInv

\* A worker that has a parent is the only child of a process that is in its
\* main loop and so has the lock.
THEOREM OwnedWorkers == Spec => []WorkersOfServer
  BY LockInvariant, PTL DEF LockInv

-----------------------------------------------------------------------------
(***************************************************************************)
(* The handshake of Do_queue_jobs loses no job: the lock file, the pid in  *)
(* it and SIGUSR1 are enough, for any number of processes, jobs and start  *)
(* requests, as long as no process is killed, no fork fails and a starter  *)
(* signals the process whose pid it read before that one has left its last *)
(* sleep.                                                                  *)
(*                                                                         *)
(* The argument follows a job that is printable and that no request names. *)
(* If SERVER is set in its ticket it has a worker; when that worker fails  *)
(* the job is still in the list of the server that waited for it.  If not, *)
(* somebody was to look at it, and stops to be that one only by looking,   *)
(* by handing the duty to the server with a signal that cannot be missed,  *)
(* or by finding nothing.                                                  *)
(***************************************************************************)


\* The processes the lock file may name, and those a starter may signal.
Named     == Serving \cup {"scan", "truncate"}
Reachable == Named \cup {"close", "unblock", "linger"}

\* Every worker has its server, which still has the worker's job in its list.
WorkersKnown ==
    \A w \in workers :
        /\ w.parent # None
        /\ w.job \notin fresh
        /\ w.job \in queue => w.job \in order[w.parent]

\* A ticket with SERVER set has a worker.
ServerMeansWorker == \A j \in server : \E w \in workers : w.job = j

\* The pid in the lock file is that of a process that serves the queue.
PidIsLive == lockPid # None => lockPid \in Procs /\ pc[lockPid] \in Named

\* A process that is about to be signalled has not left Do_queue_jobs.
SignalArrives ==
    \A p \in Procs : pc[p] = "signal" =>
        seen[p] \in Procs /\ pc[seen[p]] \in Reachable

\* In its last sleep a process has no SIGUSR1 pending: it was told at once.
SleepersKnow == \A p \in Procs : pc[p] = "linger" => ~sigPending[p]

DutyInv ==
    /\ WorkersKnown
    /\ ServerMeansWorker
    /\ fresh \cap queue = {}
    /\ PidIsLive
    /\ SignalArrives
    /\ SleepersKnow

-----------------------------------------------------------------------------
(* DutyInv.                                                                *)

\* At first there is no job, no process and no pid in the lock file.
LEMMA InitDutyInv == Init => DutyInv
  BY DEF Init, DutyInv, WorkersKnown, ServerMeansWorker, PidIsLive,
         SignalArrives, SleepersKnow

\* Steps that leave processes and workers alone and bring no job back.
LEMMA SpoolStep ==
  ASSUME DutyInv,
         UNCHANGED <<pc, seen, order, sigPending, lockPid, workers>>,
         fresh' \subseteq fresh,
         queue' \subseteq queue \cup (fresh \ fresh'),
         server' \subseteq server
  PROVE  DutyInv'
<1> USE DEF DutyInv
<1>1. WorkersKnown'
  BY DEF WorkersKnown
<1>2. ServerMeansWorker'
  BY DEF ServerMeansWorker
<1>3. PidIsLive' /\ SignalArrives' /\ SleepersKnow'
  BY DEF PidIsLive, SignalArrives, SleepersKnow
<1> QED
  BY <1>1, <1>2, <1>3

\* A step of one process that keeps its jobs, or takes all that are printable,
\* and leaves Named and Reachable no sooner than it may.
LEMMA ProcessStep ==
  ASSUME TypeOK, DutyInv,
         NEW p \in Procs, NEW l \in Location,
         pc' = [pc EXCEPT ![p] = l],
         UNCHANGED <<fresh, queue, workers, lockPid>>,
         server' \subseteq server,
         ChildrenOf(p) = {} \/ order'[p] \in {order[p], queue},
         \A q \in Procs : q # p => order'[q] = order[q],
         pc[p] \in Named => l \in Named,
         pc[p] \in Reachable /\ l \notin Reachable
           => ~ \E q \in Procs : pc[q] = "signal" /\ seen[q] = p,
         \A q \in Procs : pc'[q] = "signal" => pc[q] = "signal" /\ seen'[q] = seen[q],
         \A q \in Procs : pc'[q] = "linger" => ~sigPending'[q]
  PROVE  DutyInv'
<1> USE DEF DutyInv
<1>1. WorkersKnown'
  BY DEF WorkersKnown, ChildrenOf, TypeOK, Worker, Pid
<1>2. ServerMeansWorker'
  BY DEF ServerMeansWorker
<1>3. PidIsLive'
  BY DEF PidIsLive, TypeOK
<1>4. SignalArrives'
  BY DEF SignalArrives, TypeOK
<1>5. SleepersKnow'
  BY DEF SleepersKnow
<1> QED
  BY <1>1, <1>2, <1>3, <1>4, <1>5

\* Workers that end or begin to print: their jobs and parents stay.
LEMMA WorkerPhaseStep ==
  ASSUME TypeOK, DutyInv, NEW w \in workers, WorkerStart(w) \/ WorkerExit(w)
  PROVE  /\ DutyInv'
         /\ \E ph \in Running \cup Exited :
              workers' = (workers \ {w}) \cup {[w EXCEPT !.phase = ph]}
         /\ server' \subseteq server \cup {w.job}
         /\ UNCHANGED <<queue, lpdVars, pc, order, sigPending, susr1>>
<1> USE DEF DutyInv
<1>1. \E ph \in Running \cup Exited :
        workers' = (workers \ {w}) \cup {[w EXCEPT !.phase = ph]}
  BY DEF WorkersKnown, WorkerStart, WorkerExit, ExitWith, BecomePhase,
         Running, Exited
<1>2. /\ server' \subseteq server \cup {w.job}
      /\ UNCHANGED <<fresh, queue, lpdVars, lockPid, pc, seen, order, sigPending, susr1>>
  BY DEF WorkerStart, WorkerExit, spoolVars, lockVars
<1>3. ASSUME NEW ph
      PROVE  [w EXCEPT !.phase = ph].job = w.job
             /\ [w EXCEPT !.phase = ph].parent = w.parent
  BY DEF TypeOK, Worker
<1>4. WorkersKnown'
  BY <1>1, <1>2, <1>3 DEF WorkersKnown
<1>5. ServerMeansWorker'
  <2> SUFFICES ASSUME NEW j \in server' PROVE \E v \in workers' : v.job = j
    BY DEF ServerMeansWorker
  <2>1. PICK ph \in Running \cup Exited :
          workers' = (workers \ {w}) \cup {[w EXCEPT !.phase = ph]}
    BY <1>1
  <2>2. PICK v \in workers : v.job = j
    BY <1>2 DEF ServerMeansWorker
  <2>3. CASE v = w
    BY <1>3, <2>1, <2>2, <2>3
  <2>4. CASE v # w
    BY <2>1, <2>2, <2>4
  <2> QED
    BY <2>3, <2>4
<1>6. PidIsLive' /\ SignalArrives' /\ SleepersKnow'
  BY <1>2 DEF PidIsLive, SignalArrives, SleepersKnow
<1> QED
  BY <1>1, <1>2, <1>4, <1>5, <1>6

\* Without crashes and failed forks, and with prompt signals, every step keeps
\* DutyInv.
LEMMA NextDutyInv ==
  ASSUME MaxCrashes = 0, MaxForkErrors = 0, PromptSignals,
         TypeOK, LockInv, DutyInv, [Next]_vars
  PROVE  DutyInv'
<1> USE NoneAssumption DEF Goto, spoolVars, lockVars, lpdVars, boundVars
<1>1. ASSUME NEW j \in Jobs, Submit(j) \/ Remove(j) PROVE DutyInv'
  BY <1>1, SpoolStep DEF Submit, Remove
<1>2. CASE Notify \/ Kick \/ Poll
  BY <1>2, SpoolStep DEF Notify, Kick, Poll
<1>3. ASSUME NEW p \in Procs, StartServer(p) \/ Reaped(p) PROVE DutyInv'
  <2>1. CASE StartServer(p)
    BY <2>1, ProcessStep
    DEF StartServer, Location, Named, Reachable, Serving, TypeOK, DutyInv, SleepersKnow
  <2>2. CASE Reaped(p)
    <3>1. ChildrenOf(p) = {}
      BY <2>2 DEF Reaped, ChildrenOf, LockInv, WorkersOfServer, Serving
    <3> QED
      BY <2>2, <3>1, ProcessStep
      DEF Reaped, Location, Named, Reachable, Serving, TypeOK, DutyInv, SleepersKnow
  <2> QED
    BY <1>3, <2>1, <2>2
<1>4. ASSUME NEW p \in Procs, Crash(p) PROVE DutyInv'
  BY <1>4 DEF Crash, TypeOK
<1>5. ASSUME NEW p \in Procs, ServerStep(p) PROVE DutyInv'
  <2> USE DEF Location, Named, Reachable, Serving, TypeOK
  <2>1. CASE Begin(p)
    BY <2>1, ProcessStep DEF Begin, DutyInv, SleepersKnow
  <2>2. CASE TryLock(p)
    BY <2>2, ProcessStep DEF TryLock, DutyInv, SleepersKnow
  <2>3. CASE ReadPid(p)
    <3>1. WorkersKnown' /\ ServerMeansWorker' /\ fresh' \cap queue' = {}
      BY <2>3 DEF ReadPid, DutyInv, WorkersKnown, ServerMeansWorker
    <3>2. PidIsLive' /\ SignalArrives' /\ SleepersKnow'
      BY <2>3 DEF ReadPid, DutyInv, PidIsLive, SignalArrives, SleepersKnow
    <3> QED
      BY <3>1, <3>2 DEF DutyInv
  <2>4. CASE Signal(p)
    <3>1. WorkersKnown' /\ ServerMeansWorker' /\ fresh' \cap queue' = {}
      BY <2>4 DEF Signal, DutyInv, WorkersKnown, ServerMeansWorker
    <3>2. PidIsLive' /\ SignalArrives'
      BY <2>4 DEF Signal, DutyInv, PidIsLive, SignalArrives
    <3>3. SleepersKnow'
      BY <2>4 DEF Signal, Deliver, DutyInv, SleepersKnow
    <3> QED
      BY <3>1, <3>2, <3>3 DEF DutyInv
  <2>5. CASE WritePid(p)
    <3>1. WorkersKnown' /\ ServerMeansWorker' /\ fresh' \cap queue' = {}
      BY <2>5 DEF WritePid, DutyInv, WorkersKnown, ServerMeansWorker
    <3>2. PidIsLive' /\ SignalArrives' /\ SleepersKnow'
      BY <2>5 DEF WritePid, DutyInv, PidIsLive, SignalArrives, SleepersKnow
    <3> QED
      BY <3>1, <3>2 DEF DutyInv
  <2>6. CASE Scan(p)
    BY <2>6, ProcessStep DEF Scan, DutyInv, SleepersKnow
  <2>7. CASE Main(p)
    BY <2>7, ProcessStep DEF Main, DutyInv, SleepersKnow
  <2>8. CASE Rescan(p)
    BY <2>8, ProcessStep DEF Rescan, DutyInv, SleepersKnow
  <2>9. CASE PickJob(p)
    <3>1. PICK j \in Candidates(p) :
            /\ server' = server \cup {j}
            /\ workers' = workers \cup
                 {[parent |-> p, job |-> j, phase |-> "forked"]}
      BY <2>9 DEF PickJob
    <3>2. j \in queue /\ j \in order[p] /\ j \notin fresh
      BY <3>1 DEF Candidates, DutyInv
    <3>3. UNCHANGED <<fresh, queue, order>>
      BY <2>9 DEF PickJob
    <3>4. WorkersKnown'
      BY <3>1, <3>2, <3>3 DEF DutyInv, WorkersKnown
    <3>5. ServerMeansWorker'
      <4>1. ASSUME NEW i \in server PROVE \E w \in workers' : w.job = i
        BY <3>1 DEF DutyInv, ServerMeansWorker
      <4>2. \E w \in workers' : w.job = j
        <5>1. [parent |-> p, job |-> j, phase |-> "forked"] \in workers'
          BY <3>1
        <5> WITNESS [parent |-> p, job |-> j, phase |-> "forked"] \in workers'
        <5> QED
          OBVIOUS
      <4> QED
        BY <3>1, <4>1, <4>2 DEF ServerMeansWorker
    <3>6. PidIsLive' /\ SignalArrives' /\ SleepersKnow'
      BY <2>9 DEF PickJob, DutyInv, PidIsLive, SignalArrives, SleepersKnow
    <3> QED
      BY <3>3, <3>4, <3>5, <3>6 DEF DutyInv
  <2>10. CASE PickWait(p)
    BY <2>10, ProcessStep DEF PickWait, DutyInv, SleepersKnow
  <2>11. CASE PickNothing(p)
    BY <2>11, ProcessStep DEF PickNothing, DutyInv, SleepersKnow
  <2>12. CASE WaitReap(p)
    <3>1. PICK w \in ChildrenOf(p) : workers' = workers \ {w} /\ UpdateStatus(w)
      BY <2>12 DEF WaitReap
    <3>2. /\ server' = server \ {w.job}
          /\ queue' \subseteq queue
          /\ UNCHANGED <<fresh, order>>
      BY <2>12, <3>1 DEF WaitReap, UpdateStatus
    <3>3. WorkersKnown'
      BY <3>1, <3>2 DEF DutyInv, WorkersKnown
    <3>4. ServerMeansWorker'
      BY <3>1, <3>2 DEF DutyInv, ServerMeansWorker
    <3>5. PidIsLive' /\ SignalArrives' /\ SleepersKnow'
      BY <2>12 DEF WaitReap, DutyInv, PidIsLive, SignalArrives, SleepersKnow
    <3> QED
      BY <3>2, <3>3, <3>4, <3>5 DEF DutyInv
  <2>13. CASE WaitPause(p)
    BY <2>13, ProcessStep DEF WaitPause, DutyInv, SleepersKnow
  <2>14. CASE Pause(p)
    BY <2>14, ProcessStep DEF Pause, DutyInv, SleepersKnow
  <2>15. CASE Truncate(p)
    <3>1. WorkersKnown' /\ ServerMeansWorker' /\ fresh' \cap queue' = {}
      BY <2>15 DEF Truncate, DutyInv, WorkersKnown, ServerMeansWorker
    <3>2. PidIsLive' /\ SignalArrives' /\ SleepersKnow'
      BY <2>15 DEF Truncate, DutyInv, PidIsLive, SignalArrives, SleepersKnow
    <3> QED
      BY <3>1, <3>2 DEF DutyInv
  <2>16. CASE Close(p)
    BY <2>16, ProcessStep DEF Close, DutyInv, SleepersKnow
  <2>17. CASE Unblock(p)
    BY <2>17, ProcessStep DEF Unblock, DutyInv, SleepersKnow
  <2>18. CASE Linger(p)
    BY <2>18, ProcessStep DEF Linger, DutyInv, SleepersKnow
  <2> QED
    BY <1>5, <2>1, <2>2, <2>3, <2>4, <2>5, <2>6, <2>7, <2>8, <2>9, <2>10,
       <2>11, <2>12, <2>13, <2>14, <2>15, <2>16, <2>17, <2>18 DEF ServerStep
<1>6. ASSUME NEW w \in workers, WorkerStart(w) \/ WorkerExit(w) PROVE DutyInv'
  BY <1>6, WorkerPhaseStep
<1>7. CASE UNCHANGED vars
  BY <1>7, SpoolStep DEF vars
<1> QED
  BY <1>1, <1>2, <1>3, <1>4, <1>5, <1>6, <1>7 DEF Next, WorkerStep

-----------------------------------------------------------------------------
(* NoLostWork.                                                             *)

\* A step of one process that takes no job and no worker: it may pass on the
\* duty to look at a job, but not drop it.
LEMMA LookStep ==
  ASSUME TypeOK, NoLostWork, NEW p \in Procs, NEW l \in Location,
         pc' = [pc EXCEPT ![p] = l],
         UNCHANGED <<queue, notify, request, workers>>,
         server' \subseteq server,
         \A q \in Procs \ {p} :
            /\ order'[q] = order[q]
            /\ sigPending[q] \/ susr1[q] => sigPending'[q] \/ susr1'[q],
         \A j \in queue \ server :
            WillLookAt(p, j) => \E q \in Procs : WillLookAt(q, j)'
  PROVE  NoLostWork'
<1>1. ASSUME NEW q \in Procs \ {p}, NEW j \in queue, WillLookAt(q, j)
      PROVE  WillLookAt(q, j)'
  BY <1>1 DEF WillLookAt, TypeOK
<1>2. ASSUME NEW j \in queue \ server, NEW q \in Procs, WillLookAt(q, j)
      PROVE  \E r \in Procs : WillLookAt(r, j)'
  BY <1>1, <1>2
<1> QED
  BY <1>2 DEF NoLostWork

\* The same when the process goes on to look at what it was to look at.
LEMMA KeepLooking ==
  ASSUME TypeOK, NoLostWork, NEW p \in Procs, NEW l \in Location,
         pc' = [pc EXCEPT ![p] = l],
         UNCHANGED <<queue, notify, request, workers>>,
         server' \subseteq server,
         \A q \in Procs \ {p} :
            /\ order'[q] = order[q]
            /\ sigPending[q] \/ susr1[q] => sigPending'[q] \/ susr1'[q],
         \A j \in queue \ server : WillLookAt(p, j) => WillLookAt(p, j)'
  PROVE  NoLostWork'
  BY LookStep

\* Every step of a user, lpd, a queue process or a worker loses no work.
LEMMA NextNoLostWork ==
  ASSUME MaxCrashes = 0, MaxForkErrors = 0, PromptSignals,
         TypeOK, LockInv, DutyInv, NoLostWork, [Next]_vars
  PROVE  NoLostWork'
<1> USE NoneAssumption DEF Goto, spoolVars, lockVars, lpdVars, boundVars
<1>1. ASSUME NEW j \in Jobs, Submit(j) \/ Remove(j) PROVE NoLostWork'
  BY <1>1 DEF Submit, Remove, NoLostWork, WillLookAt
<1>2. CASE Notify \/ Kick \/ Poll
  BY <1>2 DEF Notify, Kick, Poll, NoLostWork
<1>3. ASSUME NEW p \in Procs, StartServer(p) PROVE NoLostWork'
  <2>1. ASSUME NEW j \in queue, j \in server
        PROVE  \E w \in workers : w.job = j /\ w.parent # None
    BY <2>1 DEF DutyInv, ServerMeansWorker, WorkersKnown
  <2>2. pc'[p] = "start" /\ UNCHANGED <<queue, server, workers>>
    BY <1>3 DEF StartServer, TypeOK
  <2>3. \A j \in queue : WillLookAt(p, j)'
    BY <2>2 DEF WillLookAt
  <2> QED
    BY <2>1, <2>2, <2>3 DEF NoLostWork
<1>4. ASSUME NEW p \in Procs, Reaped(p) PROVE NoLostWork'
  BY <1>4, KeepLooking DEF Reaped, Location, Serving, WillLookAt, TypeOK
<1>5. ASSUME NEW p \in Procs, Crash(p) PROVE NoLostWork'
  BY <1>5 DEF Crash, TypeOK
<1>6. ASSUME NEW p \in Procs, ServerStep(p) PROVE NoLostWork'
  <2> USE DEF Location, Serving, TypeOK
  <2>1. CASE Begin(p)
    BY <2>1, KeepLooking DEF Begin, WillLookAt
  <2>2. CASE TryLock(p)
    BY <2>2, KeepLooking DEF TryLock, WillLookAt
  <2>3. CASE ReadPid(p)
    BY <2>3, KeepLooking DEF ReadPid, WillLookAt
  <2>4. CASE Signal(p)
    <3>1. PICK q \in Procs \ {p} :
            /\ q = seen[p]
            /\ pc[q] \in Serving \cup
                 {"scan", "truncate", "close", "unblock", "linger"}
      BY <2>4 DEF Signal, DutyInv, SignalArrives, Reachable, Named
    <3>2. /\ pc' = [pc EXCEPT ![p] = "exit"]
          /\ sigPending'[q] \/ susr1'[q]
      BY <2>4, <3>1 DEF Signal, Alive, Deliver
    <3>3. \A r \in Procs \ {p} :
            sigPending[r] \/ susr1[r] => sigPending'[r] \/ susr1'[r]
      BY <2>4, <3>1 DEF Signal, Alive, Deliver
    <3>4. \A j \in queue : WillLookAt(q, j)'
      BY <3>1, <3>2 DEF WillLookAt
    <3>5. UNCHANGED <<queue, notify, request, workers, server, order>>
      BY <2>4 DEF Signal
    <3> QED
      BY <3>1, <3>2, <3>3, <3>4, <3>5, LookStep
  <2>5. CASE WritePid(p)
    BY <2>5, KeepLooking DEF WritePid, WillLookAt
  <2>6. CASE Scan(p)
    <3>1. pc' = [pc EXCEPT ![p] = "main"] /\ order'[p] = queue
      BY <2>6 DEF Scan
    <3>2. \A j \in queue : WillLookAt(p, j)'
      BY <3>1 DEF WillLookAt
    <3> QED
      BY <2>6, <3>1, <3>2, KeepLooking DEF Scan
  <2>7. CASE Main(p)
    BY <2>7, KeepLooking DEF Main, WillLookAt
  <2>8. CASE Rescan(p)
    <3>1. pc' = [pc EXCEPT ![p] = "main"] /\ order'[p] = queue
      BY <2>8 DEF Rescan
    <3>2. \A j \in queue : WillLookAt(p, j)'
      BY <3>1 DEF WillLookAt
    <3> QED
      BY <2>8, <3>1, <3>2, KeepLooking DEF Rescan
  <2>9. CASE PickJob(p)
    <3>1. PICK j \in Candidates(p) :
            /\ server' = server \cup {j}
            /\ workers' = workers \cup
                 {[parent |-> p, job |-> j, phase |-> "forked"]}
      BY <2>9 DEF PickJob
    <3>2. \E w \in workers' : w.job = j /\ w.parent # None
      <4>1. [parent |-> p, job |-> j, phase |-> "forked"] \in workers'
        BY <3>1
      <4> WITNESS [parent |-> p, job |-> j, phase |-> "forked"] \in workers'
      <4> QED
        OBVIOUS
    <3>3. ASSUME NEW i \in queue, NEW q \in Procs, WillLookAt(q, i)
          PROVE  WillLookAt(q, i)'
      BY <2>9, <3>3 DEF PickJob, WillLookAt
    <3>4. UNCHANGED <<queue, notify, request>> /\ workers \subseteq workers'
      BY <2>9, <3>1 DEF PickJob
    <3>5. ASSUME NEW i \in queue, i # j
          PROVE  \/ notify' \/ request'
                 \/ \E w \in workers' : w.job = i /\ w.parent # None
                 \/ i \notin server' /\ \E q \in Procs : WillLookAt(q, i)'
      BY <3>1, <3>3, <3>4, <3>5 DEF NoLostWork
    <3> QED
      BY <3>2, <3>4, <3>5 DEF NoLostWork
  <2>10. CASE PickWait(p)
    BY <2>10, KeepLooking DEF PickWait, WillLookAt
  <2>11. CASE PickNothing(p)
    BY <2>11, KeepLooking DEF PickNothing, Candidates, WillLookAt
  <2>12. CASE WaitReap(p)
    <3>1. PICK w \in ChildrenOf(p) : workers' = workers \ {w} /\ UpdateStatus(w)
      BY <2>12 DEF WaitReap
    <3>2. /\ server' = server \ {w.job}
          /\ queue' \subseteq queue
          /\ UNCHANGED <<notify, request, order>>
          /\ pc'[p] = "main"
      BY <2>12, <3>1 DEF WaitReap, UpdateStatus
    <3>3. ASSUME NEW j \in queue, NEW q \in Procs, WillLookAt(q, j)
          PROVE  WillLookAt(q, j)'
      BY <2>12, <3>3 DEF WaitReap, WillLookAt
    <3>4. ASSUME w.job \in queue' PROVE WillLookAt(p, w.job)'
      BY <3>1, <3>2, <3>4 DEF DutyInv, WorkersKnown, ChildrenOf, WillLookAt
    <3>5. ASSUME NEW j \in queue', j # w.job
          PROVE  \/ notify' \/ request'
                 \/ \E v \in workers' : v.job = j /\ v.parent # None
                 \/ j \notin server' /\ \E q \in Procs : WillLookAt(q, j)'
      BY <3>1, <3>2, <3>3, <3>5 DEF NoLostWork
    <3> QED
      BY <3>2, <3>4, <3>5 DEF NoLostWork
  <2>13. CASE WaitPause(p)
    BY <2>13, KeepLooking DEF WaitPause, WillLookAt
  <2>14. CASE Pause(p)
    BY <2>14, KeepLooking DEF Pause, WillLookAt
  <2>15. CASE Truncate(p)
    BY <2>15, KeepLooking DEF Truncate, WillLookAt
  <2>16. CASE Close(p)
    BY <2>16, KeepLooking DEF Close, WillLookAt
  <2>17. CASE Unblock(p)
    BY <2>17, KeepLooking DEF Unblock, WillLookAt
  <2>18. CASE Linger(p)
    <3>1. ~sigPending[p]
      BY <2>18 DEF Linger, DutyInv, SleepersKnow
    <3>2. ASSUME NEW j \in queue, WillLookAt(p, j) PROVE WillLookAt(p, j)'
      BY <2>18, <3>1, <3>2 DEF Linger, WillLookAt
    <3>3. PICK l \in {"lock", "exit"} : pc' = [pc EXCEPT ![p] = l]
      BY <2>18 DEF Linger
    <3> QED
      BY <2>18, <3>2, <3>3, KeepLooking DEF Linger
  <2> QED
    BY <1>6, <2>1, <2>2, <2>3, <2>4, <2>5, <2>6, <2>7, <2>8, <2>9, <2>10,
       <2>11, <2>12, <2>13, <2>14, <2>15, <2>16, <2>17, <2>18 DEF ServerStep
<1>7. ASSUME NEW w \in workers, WorkerStart(w) \/ WorkerExit(w)
      PROVE  NoLostWork'
  <2>1. /\ server' \subseteq server \cup {w.job}
        /\ UNCHANGED <<queue, lpdVars, pc, order, sigPending, susr1>>
    BY <1>7, WorkerPhaseStep
  <2>2. ASSUME NEW v \in workers
        PROVE  \E u \in workers' : u.job = v.job /\ u.parent = v.parent
    <3>1. PICK ph \in Running \cup Exited :
            workers' = (workers \ {w}) \cup {[w EXCEPT !.phase = ph]}
      BY <1>7, WorkerPhaseStep
    <3>2. [w EXCEPT !.phase = ph].job = w.job
          /\ [w EXCEPT !.phase = ph].parent = w.parent
      BY DEF TypeOK, Worker
    <3> QED
      BY <3>1, <3>2
  <2>3. ASSUME NEW j \in Jobs, NEW q \in Procs, WillLookAt(q, j)
        PROVE  WillLookAt(q, j)'
    BY <2>1, <2>3 DEF WillLookAt
  <2>4. w.parent # None
    BY DEF DutyInv, WorkersKnown
  <2> SUFFICES ASSUME NEW j \in queue,
                      ~ (notify \/ request),
                      ~ \E v \in workers : v.job = j /\ v.parent # None
               PROVE  j \notin server' /\ \E q \in Procs : WillLookAt(q, j)'
    BY <2>1, <2>2 DEF NoLostWork
  <2> QED
    BY <2>1, <2>3, <2>4 DEF NoLostWork, TypeOK
<1>8. CASE UNCHANGED vars
  BY <1>8 DEF vars, NoLostWork, WillLookAt
<1> QED
  BY <1>1, <1>2, <1>3, <1>4, <1>5, <1>6, <1>7, <1>8 DEF Next, WorkerStep

\* As long as no queue process is killed and no fork fails, and a starter
\* signals before the server has left its last sleep, Do_queue_jobs strands no
\* job, however many processes, jobs, start requests and removals there are.
THEOREM HandshakeLosesNothing ==
  ASSUME MaxCrashes = 0, MaxForkErrors = 0, PromptSignals
  PROVE  Spec => []NoLostWork
<1>1. Init => NoLostWork
  BY DEF Init, NoLostWork
<1>2. TypeOK /\ LockInv /\ DutyInv /\ [Next]_vars => DutyInv'
  BY NextDutyInv
<1>3. TypeOK /\ LockInv /\ DutyInv /\ NoLostWork /\ [Next]_vars => NoLostWork'
  BY NextNoLostWork
<1> QED
  BY <1>1, <1>2, <1>3, InitDutyInv, TypeCorrect, LockInvariant, PTL DEF Spec

-----------------------------------------------------------------------------
(***************************************************************************)
(* The processes of QueueServer implement PrintQueue, for any number of    *)
(* processes and jobs, fork errors, late signals and polls, as long as no  *)
(* process is killed: then every worker has its server, so there is at     *)
(* most one worker, and it is what PrintQueue calls the press.             *)
(***************************************************************************)


\* Every worker has its server, and no job that is printed is yet to come.
AttendedInv ==
    /\ \A w \in workers : w.parent # None /\ w.job \notin fresh
    /\ fresh \cap queue = {}

\* What the refinement mapping makes of a set W of workers, and of the jobs f
\* still to come and q in the queue.
JobsRun(W)      == {w.job : w \in {v \in W : Runs(v)}}
PressOf(W)      == IF JobsRun(W) = {} THEN None
                                      ELSE CHOOSE j \in Jobs : j \in JobsRun(W)
OverOf(f, q, W) == (Jobs \ (f \cup q))
                     \cup {w.job : w \in {v \in W : v.phase = "succ"}}

-----------------------------------------------------------------------------
(* The mapping.                                                            *)

\* Without a worker the press is idle.
LEMMA IdlePress ==
  /\ PressOf({}) = None
  /\ \A f, q : OverOf(f, q, {}) = Jobs \ (f \cup q)
  BY DEF PressOf, JobsRun, OverOf

\* With one worker its job is on the press as long as it runs, and over as soon
\* as it succeeded.
LEMMA OneOnPress ==
  ASSUME NEW w, w.job \in Jobs
  PROVE  /\ PressOf({w}) = IF Runs(w) THEN w.job ELSE None
         /\ \A f, q : OverOf(f, q, {w}) = (Jobs \ (f \cup q))
                        \cup IF w.phase = "succ" THEN {w.job} ELSE {}
<1>1. CASE Runs(w)
  <2>1. JobsRun({w}) = {w.job}
    BY <1>1 DEF JobsRun
  <2>2. (CHOOSE j \in Jobs : j \in JobsRun({w})) = w.job
    BY <2>1
  <2>3. PressOf({w}) = w.job
    BY <2>1, <2>2 DEF PressOf
  <2> QED
    BY <1>1, <2>3 DEF OverOf
<1>2. CASE ~Runs(w)
  <2>1. JobsRun({w}) = {}
    BY <1>2 DEF JobsRun
  <2> QED
    BY <1>2, <2>1 DEF PressOf, OverOf
<1> QED
  BY <1>1, <1>2

\* There is at most one worker.
LEMMA OneWorker ==
  ASSUME TypeOK, LockInv, AttendedInv
  PROVE  /\ workers = {} \/ \E w \in workers : workers = {w}
         /\ \A w \in workers : w.job \in Jobs /\ w.parent = lockHolder
<1>1. ASSUME NEW w \in workers
      PROVE  w.job \in Jobs /\ w.parent \in Procs /\ w.parent = lockHolder
  BY DEF TypeOK, Worker, Pid, AttendedInv, LockInv, WorkersOfServer,
         ServerHasLock, Owning
<1>2. ASSUME NEW v \in workers, NEW w \in workers PROVE v = w
  BY <1>1 DEF LockInv, WorkersOfServer, AttendedInv
<1> QED
  BY <1>1, <1>2

-----------------------------------------------------------------------------
(* AttendedInv.                                                            *)

\* At first nothing was submitted.
LEMMA InitAttendedInv == Init => AttendedInv
  BY DEF Init, AttendedInv

\* Without crashes every step keeps workers and their servers together.
LEMMA NextAttendedInv ==
  ASSUME MaxCrashes = 0, TypeOK, AttendedInv, [Next]_vars
  PROVE  AttendedInv'
<1> USE NoneAssumption DEF spoolVars, AttendedInv
<1>1. ASSUME UNCHANGED <<fresh, queue, workers>> PROVE AttendedInv'
  BY <1>1
<1>2. ASSUME NEW j \in Jobs, Submit(j) \/ Remove(j) PROVE AttendedInv'
  BY <1>2 DEF Submit, Remove
<1>3. CASE Notify \/ Kick \/ Poll
  BY <1>1, <1>3 DEF Notify, Kick, Poll
<1>4. ASSUME NEW p \in Procs, StartServer(p) \/ Reaped(p) PROVE AttendedInv'
  BY <1>1, <1>4 DEF StartServer, Reaped
<1>5. ASSUME NEW p \in Procs, Crash(p) PROVE AttendedInv'
  BY <1>5 DEF Crash, TypeOK
<1>6. ASSUME NEW p \in Procs, ServerStep(p) PROVE AttendedInv'
  <2>1. CASE PickJob(p)
    BY <2>1 DEF PickJob, Candidates
  <2>2. CASE WaitReap(p)
    BY <2>2 DEF WaitReap, UpdateStatus
  <2>3. CASE \/ Begin(p) \/ TryLock(p) \/ ReadPid(p) \/ Signal(p) \/ WritePid(p)
             \/ Scan(p) \/ Main(p) \/ Rescan(p)
    BY <1>1, <2>3 DEF Begin, TryLock, ReadPid, Signal, WritePid, Scan, Main, Rescan
  <2>4. CASE \/ PickWait(p) \/ PickNothing(p) \/ WaitPause(p) \/ Pause(p)
             \/ Truncate(p) \/ Close(p) \/ Unblock(p) \/ Linger(p)
    BY <1>1, <2>4
    DEF PickWait, PickNothing, WaitPause, Pause, Truncate, Close, Unblock, Linger
  <2> QED
    BY <1>6, <2>1, <2>2, <2>3, <2>4 DEF ServerStep
<1>7. ASSUME NEW w \in workers, WorkerStart(w) \/ WorkerExit(w)
      PROVE  AttendedInv'
  <2>1. UNCHANGED <<fresh, queue>>
    BY <1>7 DEF WorkerStart, WorkerExit
  <2>2. \E ph : workers' = (workers \ {w}) \cup {[w EXCEPT !.phase = ph]}
    BY <1>7 DEF WorkerStart, WorkerExit, ExitWith, BecomePhase
  <2>3. ASSUME NEW ph
        PROVE  [w EXCEPT !.phase = ph].parent = w.parent
               /\ [w EXCEPT !.phase = ph].job = w.job
    BY DEF TypeOK, Worker
  <2> QED
    BY <2>1, <2>2, <2>3
<1>8. CASE UNCHANGED vars
  BY <1>1, <1>8 DEF vars
<1> QED
  BY <1>2, <1>3, <1>4, <1>5, <1>6, <1>7, <1>8 DEF Next, WorkerStep

-----------------------------------------------------------------------------
(* The refinement.                                                         *)

\* The mapping in the words of PressOf and OverOf.
onPress == PressOf(workers)
done    == OverOf(fresh, queue, workers)

\* What the steps of PrintQueue say of the mapped variables.
LEMMA AbstractSteps ==
  /\ Abstract!Init <=> queue = {} /\ onPress = None /\ done = {}
  /\ UNCHANGED <<queue, onPress, done>> => [Abstract!Next]_<<queue, onPress, done>>
  /\ \A j \in Jobs :
       j \notin queue \cup done /\ queue' = queue \cup {j} /\ UNCHANGED <<onPress, done>>
         => Abstract!Enter(j)
  /\ \A j \in Jobs :
       onPress = None /\ j \in queue \ done /\ onPress' = j /\ UNCHANGED <<queue, done>>
         => Abstract!PutOnPress(j)
  /\ \A j \in Jobs :
       j \in queue /\ queue' = queue \ {j} /\ done' = done \cup {j} /\ UNCHANGED onPress
         => Abstract!Leave(j)
  /\ onPress # None /\ onPress' = None /\ done' \in {done, done \cup {onPress}}
     /\ UNCHANGED queue
         => Abstract!Finish
  BY DEF onPress, done, PressOf, JobsRun, OverOf, RunningJobs,
         Abstract!Init, Abstract!Enter, Abstract!PutOnPress, Abstract!Leave,
         Abstract!Finish

\* Every step of the processes is one of PrintQueue or changes nothing of it.
LEMMA NextPrintQueue ==
  ASSUME MaxCrashes = 0, None \notin Jobs,
         TypeOK, LockInv, AttendedInv, [Next]_vars,
         TypeOK', LockInv', AttendedInv'
  PROVE  [Abstract!Next]_<<queue, onPress, done>>
<1> USE NoneAssumption DEF spoolVars, AttendedInv
<1> DEFINE Step == [Abstract!Next]_<<queue, onPress, done>>
<1>0. /\ (\E j \in Jobs : Abstract!Enter(j) \/ Abstract!PutOnPress(j) \/ Abstract!Leave(j))
           => Step
      /\ Abstract!Finish => Step
  BY DEF Abstract!Next
<1>1. ASSUME UNCHANGED <<fresh, queue, workers>> PROVE Step
  BY <1>1, AbstractSteps DEF onPress, done
<1>2. ASSUME NEW j \in Jobs, Submit(j) PROVE Step
  <2>1. UNCHANGED <<onPress, done>>
    BY <1>2 DEF Submit, onPress, done, OverOf
  <2>2. j \notin queue \cup done /\ queue' = queue \cup {j}
    BY <1>2 DEF Submit, done, OverOf
  <2> QED
    BY <1>0, <2>1, <2>2, AbstractSteps
<1>3. ASSUME NEW j \in Jobs, Remove(j) PROVE Step
  <2>1. UNCHANGED onPress /\ done' = done \cup {j}
    BY <1>3 DEF Remove, onPress, done, OverOf
  <2> QED
    BY <1>0, <1>3, <2>1, AbstractSteps DEF Remove
<1>4. CASE Notify \/ Kick \/ Poll
  BY <1>1, <1>4 DEF Notify, Kick, Poll
<1>5. ASSUME NEW p \in Procs, StartServer(p) \/ Reaped(p) PROVE Step
  BY <1>1, <1>5 DEF StartServer, Reaped
<1>6. ASSUME NEW p \in Procs, Crash(p) PROVE Step
  BY <1>6 DEF Crash, TypeOK
<1>7. ASSUME NEW p \in Procs, PickJob(p) PROVE Step
  <2>1. workers = {} /\ UNCHANGED <<fresh, queue>>
    <3>1. lockHolder = p
      BY <1>7 DEF PickJob, LockInv, ServerHasLock, Owning, Serving
    <3> QED
      BY <1>7, <3>1, OneWorker DEF PickJob, Working, ChildrenOf
  <2>2. PICK j \in Candidates(p) :
          \/ workers' = workers \cup
               {[parent |-> p, job |-> j, phase |-> "forked"]}
          \/ workers' = workers
    BY <1>7 DEF PickJob
  <2>3. j \in queue /\ j \in Jobs
    BY DEF Candidates, TypeOK
  <2>4. CASE workers' = workers
    BY <1>1, <2>1, <2>4
  <2>5. CASE workers' = {[parent |-> p, job |-> j, phase |-> "forked"]}
    <3> DEFINE w == [parent |-> p, job |-> j, phase |-> "forked"]
    <3>1. w.job = j /\ Runs(w) /\ w.phase # "succ" /\ workers' = {w}
      BY <2>5 DEF Runs, Running
    <3> HIDE DEF w
    <3>2. PressOf({w}) = j /\ \A f, q : OverOf(f, q, {w}) = Jobs \ (f \cup q)
      BY <2>3, <3>1, OneOnPress
    <3>3. onPress' = j /\ done' = Jobs \ (fresh \cup queue)
      BY <2>1, <3>1, <3>2 DEF onPress, done
    <3>4. onPress = None /\ done = Jobs \ (fresh \cup queue)
      BY <2>1, IdlePress DEF onPress, done
    <3> QED
      BY <1>0, <2>1, <2>3, <3>3, <3>4, AbstractSteps
  <2> QED
    BY <2>1, <2>2, <2>4, <2>5
<1>8. ASSUME NEW p \in Procs, WaitReap(p) PROVE Step
  <2>1. PICK w \in workers : /\ w.phase \in Exited
                             /\ workers' = workers \ {w}
                             /\ UpdateStatus(w)
    BY <1>8 DEF WaitReap, ChildrenOf
  <2>2. /\ workers = {w} /\ workers' = {}
        /\ w.job \in Jobs \ fresh
        /\ UNCHANGED fresh
    BY <1>8, <2>1, OneWorker DEF WaitReap
  <2>3. onPress = None /\ onPress' = None
    BY <2>1, <2>2, IdlePress, OneOnPress DEF onPress, Runs, Running, Exited
  <2>4. /\ done = (Jobs \ (fresh \cup queue))
                    \cup IF w.phase = "succ" THEN {w.job} ELSE {}
        /\ done' = Jobs \ (fresh \cup queue')
    BY <2>2, IdlePress, OneOnPress DEF done
  <2>5. queue' = queue \/ queue' = queue \ {w.job}
    BY <2>1 DEF UpdateStatus
  <2>6. w.phase = "succ" => queue' = queue \ {w.job}
    BY <2>1 DEF UpdateStatus
  <2>7. CASE w.job \in queue /\ queue' = queue \ {w.job}
    <3>1. done' = done \cup {w.job}
      BY <2>2, <2>4, <2>7
    <3> QED
      BY <1>0, <2>2, <2>3, <2>7, <3>1, AbstractSteps
  <2>8. CASE queue' = queue
    <3>1. done' = done
      BY <2>2, <2>4, <2>6, <2>8
    <3> QED
      BY <2>3, <2>8, <3>1
  <2> QED
    BY <2>5, <2>7, <2>8
<1>9. ASSUME NEW p \in Procs, ServerStep(p), ~PickJob(p), ~WaitReap(p) PROVE Step
  <2>1. CASE \/ Begin(p) \/ TryLock(p) \/ ReadPid(p) \/ Signal(p) \/ WritePid(p)
             \/ Scan(p) \/ Main(p) \/ Rescan(p)
    BY <1>1, <2>1 DEF Begin, TryLock, ReadPid, Signal, WritePid, Scan, Main, Rescan
  <2>2. CASE \/ PickWait(p) \/ PickNothing(p) \/ WaitPause(p) \/ Pause(p)
             \/ Truncate(p) \/ Close(p) \/ Unblock(p) \/ Linger(p)
    BY <1>1, <2>2
    DEF PickWait, PickNothing, WaitPause, Pause, Truncate, Close, Unblock, Linger
  <2> QED
    BY <1>9, <2>1, <2>2 DEF ServerStep
<1>10. ASSUME NEW w \in workers, WorkerStart(w) \/ WorkerExit(w) PROVE Step
  <2>1. workers = {w} /\ w.job \in Jobs /\ w.parent # None /\ w \in Worker
    BY OneWorker DEF TypeOK
  <2>2. UNCHANGED <<fresh, queue>>
    BY <1>10 DEF WorkerStart, WorkerExit
  <2>3. PICK ph \in {"printing", "succ", "fail"} :
          workers' = {[w EXCEPT !.phase = ph]}
    BY <1>10, <2>1 DEF WorkerStart, WorkerExit, ExitWith, BecomePhase, Exited
  <2> DEFINE u == [w EXCEPT !.phase = ph]
  <2>4. u.job = w.job /\ u.phase = ph
    BY <2>1 DEF Worker
  <2>5. workers' = {u}
    BY <2>3
  <2> HIDE DEF u
  <2>6. /\ onPress' = IF Runs(u) THEN w.job ELSE None
        /\ done' = (Jobs \ (fresh \cup queue))
                     \cup IF ph = "succ" THEN {w.job} ELSE {}
    <3>1. /\ PressOf({u}) = IF Runs(u) THEN u.job ELSE None
          /\ \A f, q : OverOf(f, q, {u}) = (Jobs \ (f \cup q))
                         \cup IF u.phase = "succ" THEN {u.job} ELSE {}
      BY <2>1, <2>4, OneOnPress
    <3> QED
      BY <2>2, <2>4, <2>5, <3>1 DEF onPress, done
  <2>7. onPress = w.job /\ done = Jobs \ (fresh \cup queue)
    <3>1. Runs(w) /\ w.phase # "succ"
      BY <1>10 DEF WorkerStart, WorkerExit, Runs, Running
    <3> QED
      <4>1. /\ PressOf({w}) = w.job
            /\ \A f, q : OverOf(f, q, {w}) = Jobs \ (f \cup q)
        BY <2>1, <3>1, OneOnPress
      <4> QED
        BY <2>1, <4>1 DEF onPress, done
  <2>8. CASE ph = "printing"
    <3>1. UNCHANGED <<queue, onPress, done>>
      BY <2>2, <2>4, <2>6, <2>7, <2>8 DEF Runs, Running
    <3> QED
      BY <3>1
  <2>9. CASE ph # "printing"
    <3>1. onPress' = None /\ done' \in {done, done \cup {onPress}}
      BY <2>4, <2>6, <2>7, <2>9 DEF Runs, Running
    <3>2. onPress # None
      BY <2>1, <2>7
    <3> QED
      BY <1>0, <2>2, <3>1, <3>2, AbstractSteps
  <2> QED
    BY <2>8, <2>9
<1>11. CASE UNCHANGED vars
  BY <1>1, <1>11 DEF vars
<1> QED
  BY <1>2, <1>3, <1>4, <1>5, <1>6, <1>7, <1>8, <1>9, <1>10, <1>11
  DEF Next, WorkerStep

\* As long as no process is killed the queue is a PrintQueue: one job at a time
\* is on the printer, and none gets on it again that was printed or removed.
THEOREM QueueIsPrintQueue ==
  ASSUME MaxCrashes = 0, None \notin Jobs
  PROVE  Spec => ImplementsPrintQueue
<1>1. Init => Abstract!Init
  BY AbstractSteps, IdlePress DEF Init, onPress, done
<1>2. TypeOK /\ LockInv /\ AttendedInv /\ [Next]_vars => AttendedInv'
  BY NextAttendedInv
<1>3. TypeOK /\ LockInv /\ AttendedInv /\ [Next]_vars
        /\ TypeOK' /\ LockInv' /\ AttendedInv'
      => [Abstract!Next]_<<queue, onPress, done>>
  BY NextPrintQueue
<1> QED
  BY <1>1, <1>2, <1>3, InitAttendedInv, TypeCorrect, LockInvariant, PTL
  DEF Spec, ImplementsPrintQueue, Abstract!Spec, onPress, done, PressOf, OverOf,
      JobsRun, RunningJobs
=============================================================================

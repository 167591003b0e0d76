--------------------------- MODULE LoadBalanceProofs ---------------------------
(***************************************************************************)
(* Theorems about LoadBalance: a job of a load balance queue is printed    *)
(* once, and goes to the server queue that has been free longest, for any  *)
(* server queues, jobs, choosers, processes and events.                    *)
(***************************************************************************)
EXTENDS LoadBalance, TLAPS, FiniteSetTheorems, SequenceTheorems, WellFoundedInduction

USE NamesAssumption, ListAssumption, JobsAssumption

-----------------------------------------------------------------------------
(* Types.                                                                  *)

State == {"none", "ready", "held", "done", "failed"}
Place == {"none", "loop", "move", "moved", "fork", "wait"}
Task  == {"none", "start", "serve", "print", "ended"}

Proc == [at : Task, jobs : SUBSET Jobs, stopped : BOOLEAN, susr1 : BOOLEAN,
         job : Jobs \cup {0}]

\* The master, with the servers list l.
MasterWith(l) ==
    [at : Place, susr1 : BOOLEAN, sort : SUBSET Jobs, list : {l}, change : BOOLEAN,
     dnf : BOOLEAN, job : Jobs \cup {0}, to : Servers \cup {0}, reaped : BOOLEAN]

TypeInv ==
    /\ tickets \in [Queues -> [Jobs -> State]]
    /\ control \in [Servers -> [change : BOOLEAN, stopped : BOOLEAN]]
    /\ changed \in BOOLEAN
    /\ master \in MasterWith(master.list)
    /\ proc \in [Servers -> [Pids -> Proc]]
    /\ printed \in [Jobs -> Nat]

\* A process that has nothing, or is asked to start, or has ended.
LEMMA ProcTypes ==
    /\ NoProc \in Proc /\ [NoProc EXCEPT !.at = "start"] \in Proc
    /\ [NoProc EXCEPT !.at = "ended"] \in Proc
    /\ NoProc.at = "none" /\ [NoProc EXCEPT !.at = "start"].at = "start"
    /\ [NoProc EXCEPT !.at = "ended"].at = "ended"
BY DEF NoProc, Proc, Task

\* What remains of a process runs no more.
LEMMA GoneType ==
    ASSUME NEW s, NEW p
    PROVE  Gone(s, p) \in Proc /\ Gone(s, p).at \in {"none", "ended"}
BY ProcTypes DEF Gone

\* A new child was no process before; the others go on.
LEMMA ForkedShape ==
    ASSUME TypeInv, NEW which, \A s \in which : CanFork(s)
    PROVE  /\ Forked(which) \in [Servers -> [Pids -> Proc]]
           /\ \A s \in Servers, p \in Pids :
                 \/ Forked(which)[s][p] = proc[s][p]
                 \/ proc[s][p].at = "none" /\ Forked(which)[s][p].at = "start"
<1>1. ASSUME NEW s \in Servers
      PROVE  /\ Forked(which)[s] \in [Pids -> Proc]
             /\ \A p \in Pids :
                 \/ Forked(which)[s][p] = proc[s][p]
                 \/ proc[s][p].at = "none" /\ Forked(which)[s][p].at = "start"
  <2>1. proc[s] \in [Pids -> Proc]
    BY DEF TypeInv
  <2>2. CASE s \notin which
    BY <2>1, <2>2 DEF Forked
  <2>3. CASE s \in which
    <3>1. Spare(s) \in Pids /\ proc[s][Spare(s)].at = "none"
      BY <2>3 DEF CanFork, Spare
    <3>2. Forked(which)[s] = [proc[s] EXCEPT ![Spare(s)] = [NoProc EXCEPT !.at = "start"]]
      BY <2>3 DEF Forked
    <3> QED
      BY <2>1, <3>1, <3>2, ProcTypes
  <2> QED
    BY <2>2, <2>3
<1>2. Forked(which) = [s \in Servers |-> Forked(which)[s]]
  BY DEF Forked
<1> QED
  BY <1>1, <1>2

\* A signal changes no more than Susr1.
LEMMA SignalledShape ==
    ASSUME TypeInv, NEW s \in Servers
    PROVE  /\ Signalled(s) \in [Pids -> Proc]
           /\ \A p \in Pids : /\ Signalled(s)[p].at = proc[s][p].at
                              /\ Signalled(s)[p].job = proc[s][p].job
<1>1. ASSUME NEW p \in Pids
      PROVE  /\ Signalled(s)[p] \in Proc /\ Signalled(s)[p].at = proc[s][p].at
             /\ Signalled(s)[p].job = proc[s][p].job
  <2> DEFINE b == proc[s][p].susr1 \/ p \in Alive(s)
  <2>1. proc[s][p] \in Proc
    BY DEF TypeInv
  <2>2. b \in BOOLEAN
    OBVIOUS
  <2>3. Signalled(s)[p] = [proc[s][p] EXCEPT !.susr1 = b]
    BY DEF Signalled
  <2> HIDE DEF b
  <2> QED
    BY <2>1, <2>2, <2>3 DEF Proc
<1>2. Signalled(s) = [p \in Pids |-> Signalled(s)[p]]
  BY DEF Signalled
<1> QED
  BY <1>1, <1>2

\* A signal to the master changes no more than Susr1.
LEMMA WokenShape ==
    ASSUME TypeInv
    PROVE  /\ Woken \in MasterWith(Woken.list)
           /\ Woken.at = master.at /\ Woken.list = master.list
           /\ Woken.job = master.job /\ Woken.to = master.to
<1>1. master \in MasterWith(master.list)
  BY DEF TypeInv
<1>2. Woken = master \/ Woken = [master EXCEPT !.susr1 = TRUE]
  BY DEF Woken
<1> HIDE DEF Woken
<1> QED
  BY <1>1, <1>2 DEF MasterWith

LEMMA TypeInit == Init => TypeInv
<1> SUFFICES ASSUME Init PROVE TypeInv
  OBVIOUS
<1>1. NoMaster \in MasterWith(NoMaster.list)
  BY DEF NoMaster, MasterWith, Place
<1>2. /\ tickets = [q \in Queues |-> [j \in Jobs |-> "none"]]
      /\ control = [s \in Servers |-> [change |-> FALSE, stopped |-> s \in conf.stopped]]
      /\ changed = FALSE /\ master = NoMaster
      /\ proc = [s \in Servers |-> [p \in Pids |-> NoProc]]
      /\ printed = [j \in Jobs |-> 0]
  BY DEF Init
<1>3. proc \in [Servers -> [Pids -> Proc]]
  BY <1>2, ProcTypes
<1>4. tickets \in [Queues -> [Jobs -> State]] /\ printed \in [Jobs -> Nat]
  BY <1>2 DEF State
<1>5. control \in [Servers -> [change : BOOLEAN, stopped : BOOLEAN]]
  BY <1>2
<1> QED
  BY <1>1, <1>2, <1>3, <1>4, <1>5 DEF TypeInv

\* Jobs that are ready in a queue are jobs.
LEMMA InQueueType == \A q : InQueue(q) \in SUBSET Jobs
BY DEF InQueue

\* The least of a set of numbers.
LEMMA MinOfNats ==
    ASSUME NEW T, T \subseteq Nat, T # {}
    PROVE  Min(T) \in T /\ \A q \in T : Min(T) <= q
<1>1. \E r \in T : \A q \in T : ~(<<q, r>> \in OpToRel(<, Nat))
  BY NatLessThanWellFounded, WFMin, Zenon
<1>2. \E r \in T : \A q \in T : r <= q
  <2>1. PICK r \in T : \A q \in T : ~(<<q, r>> \in OpToRel(<, Nat))
    BY <1>1
  <2>2. ASSUME NEW q \in T PROVE r <= q
    <3>1. <<q, r>> \in Nat \X Nat
      OBVIOUS
    <3>2. ~(q < r)
      BY <2>1, <3>1 DEF OpToRel
    <3> QED
      BY <3>2
  <2> QED
    BY <2>2
<1> QED
  BY <1>2 DEF Min

\* The first of the jobs to print is one of them.
LEMMA ToPrintMin ==
    ASSUME NEW s \in Servers, NEW p \in Pids, ToPrint(s, p) # {}
    PROVE  /\ Min(ToPrint(s, p)) \in Jobs /\ Min(ToPrint(s, p)) \in ToPrint(s, p)
           /\ tickets[s][Min(ToPrint(s, p))] = "ready"
<1>1. ToPrint(s, p) \subseteq InQueue(s) /\ InQueue(s) \subseteq Jobs
  BY DEF ToPrint, InQueue
<1>2. Min(ToPrint(s, p)) \in ToPrint(s, p)
  BY <1>1, MinOfNats
<1> QED
  BY <1>1, <1>2 DEF InQueue, Waiting

LEMMA UserTypes ==
    ASSUME TypeInv,
           \/ \E q \in Queues, j \in Jobs : Arrive(q, j)
           \/ \E j \in Jobs : Announce(j)
           \/ \E s \in Servers : LpcSets(s)
           \/ Poll
    PROVE  TypeInv'
<1> USE DEF TypeInv
<1>1. ASSUME NEW q \in Queues, NEW j \in Jobs, Arrive(q, j) PROVE TypeInv'
  BY <1>1 DEF Arrive, State
<1>2. ASSUME NEW j \in Jobs, Announce(j) PROVE TypeInv'
  <2>1. control' = [s \in Servers |-> [control[s] EXCEPT !.change = @ \/ s = receiver[j].to]]
    BY <1>2 DEF Announce
  <2>2. control' \in [Servers -> [change : BOOLEAN, stopped : BOOLEAN]]
    <3>1. ASSUME NEW s \in Servers
          PROVE  [control[s] EXCEPT !.change = @ \/ s = receiver[j].to]
                    \in [change : BOOLEAN, stopped : BOOLEAN]
      <4> DEFINE b == control[s].change \/ s = receiver[j].to
      <4>1. b \in BOOLEAN /\ control[s] \in [change : BOOLEAN, stopped : BOOLEAN]
        OBVIOUS
      <4>2. [control[s] EXCEPT !.change = @ \/ s = receiver[j].to] = [control[s] EXCEPT !.change = b]
        OBVIOUS
      <4> HIDE DEF b
      <4> QED
        BY <4>1, <4>2
    <3> QED
      BY <2>1, <3>1
  <2>3. changed' \in BOOLEAN /\ UNCHANGED <<tickets, master, proc, printed>>
    BY <1>2 DEF Announce
  <2> QED
    BY <2>2, <2>3
<1>3. ASSUME NEW s \in Servers, LpcSets(s) PROVE TypeInv'
  <2>1. control' = [control EXCEPT ![s] = [change |-> TRUE, stopped |-> ~control[s].stopped]]
    BY <1>3 DEF LpcSets
  <2>2. control' \in [Servers -> [change : BOOLEAN, stopped : BOOLEAN]]
    BY <2>1
  <2>3. proc' = [proc EXCEPT ![s] = Signalled(s)]
    BY <1>3 DEF LpcSets
  <2>4. proc' \in [Servers -> [Pids -> Proc]]
    BY <2>3, SignalledShape
  <2>5. master' = Woken /\ UNCHANGED <<tickets, changed, printed>>
    BY <1>3 DEF LpcSets
  <2>6. master' \in MasterWith(master'.list)
    BY <2>5, WokenShape
  <2> QED
    BY <2>2, <2>4, <2>5, <2>6
<1>4. CASE Poll
  BY <1>4 DEF Poll
<1> QED
  BY <1>1, <1>2, <1>3, <1>4

\* A process that is started signals the master or becomes it.
LEMMA StarterShape ==
    ASSUME TypeInv, NEW n \in Starters, StarterStep(n)
    PROVE  /\ master' \in MasterWith(master'.list) /\ changed' \in BOOLEAN
           /\ \/ /\ master'.at = master.at /\ master'.list = master.list
                 /\ master'.job = master.job /\ master'.to = master.to
                 /\ proc' = proc
              \/ /\ Begin(n) /\ master.at = "none" /\ master'.at = "loop"
                 /\ \E which : (\A s \in which : CanFork(s)) /\ proc' = Forked(which)
           /\ UNCHANGED <<tickets, control, printed, cut>>
<1>1. CASE SetUp(n)
  BY <1>1 DEF SetUp, TypeInv
<1>2. CASE SignalMaster(n)
  <2>1. /\ master' = Woken /\ changed \in BOOLEAN
        /\ UNCHANGED <<proc, changed, tickets, control, printed, cut>>
    BY <1>2 DEF SignalMaster, TypeInv
  <2> QED
    BY <2>1, WokenShape
<1>3. CASE Begin(n)
  <2> DEFINE info == ServerInfo(starter[n].order)
             which == {e.pr : e \in {e \in ToSet(info) : NeedsStart(e)}}
             l == Known(info, which)
             q == InQueue(0)
             c == changed /\ ~starter[n].change
  <2>1. q \in SUBSET Jobs /\ c \in BOOLEAN
    BY InQueueType
  <2>2. /\ master' = [NoMaster EXCEPT !.at = "loop", !.sort = q, !.list = l, !.change = c]
        /\ changed' = c /\ master.at = "none"
        /\ (\A s \in which : CanFork(s)) /\ proc' = Forked(which)
        /\ UNCHANGED <<tickets, control, printed, cut>>
    BY <1>3 DEF Begin
  <2> HIDE DEF info, which, l, q, c
  <2>3. master' \in MasterWith(master'.list) /\ master'.at = "loop"
    BY <2>1, <2>2 DEF NoMaster, MasterWith, Place
  <2> QED
    BY <1>3, <2>1, <2>2, <2>3
<1> QED
  BY <1>1, <1>2, <1>3 DEF StarterStep

LEMMA StarterTypes ==
    ASSUME TypeInv, NEW n \in Starters, StarterStep(n)
    PROVE  TypeInv'
<1>1. proc' \in [Servers -> [Pids -> Proc]]
  <2>1. proc \in [Servers -> [Pids -> Proc]]
    BY DEF TypeInv
  <2> QED
    BY <2>1, StarterShape, ForkedShape
<1> QED
  BY <1>1, StarterShape DEF TypeInv

\* What a step of the master makes of it, and of where it is.
LEMMA MasterShape ==
    ASSUME TypeInv, MasterStep \/ CopyFails \/ MasterKilled
    PROVE  /\ master' \in MasterWith(master'.list)
           /\ master'.at = "moved" =>
                 \/ Copy
                 \/ master.at = "moved" /\ master'.job = master.job /\ master'.to = master.to
           /\ master'.at = "move" => Look
           /\ master.at = "moved" => MoveEnds \/ MasterKilled
<1> USE DEF TypeInv
<1>0. master \in MasterWith(master.list)
  OBVIOUS
<1>2. CASE Rescan
  <2> DEFINE u == Updated(master.list)
             l == Known(u, {e.pr : e \in {e \in ToSet(u) : e.change /\ e.server = 0}})
             q == InQueue(0)
  <2>1. q \in SUBSET Jobs
    BY InQueueType
  <2>2. /\ master' = [master EXCEPT !.susr1 = FALSE, !.sort = q, !.list = l,
                                    !.change = changed]
        /\ master.at = "loop" /\ changed \in BOOLEAN
    BY <1>2 DEF Rescan
  <2> HIDE DEF u, l, q
  <2>3. master' \in MasterWith(master'.list) /\ master'.at = "loop"
    BY <1>0, <2>1, <2>2 DEF MasterWith
  <2> QED
    BY <2>2, <2>3
<1>3. CASE Look
  <2>1. master.at = "loop"
    BY <1>3 DEF Look
  <2>2. PICK a \in Decisions : Assign(a) \/ Leave(a) \/ StartWaiting(a)
    BY <1>3 DEF Look
  <2>3. CASE Assign(a)
    <3>1. PICK j \in LookedAt(a) : a[j] \in Servers /\
             master' = [master EXCEPT !.at = "move", !.job = j, !.to = a[j]]
      BY <2>3 DEF Assign, Found
    <3>2. j \in Jobs
      BY <1>0 DEF LookedAt, Candidates, MasterWith
    <3>3. master' \in MasterWith(master'.list) /\ master'.at = "move"
      BY <1>0, <3>1, <3>2 DEF MasterWith, Place
    <3> QED
      BY <1>3, <2>1, <3>3
  <2>4. CASE Leave(a)
    BY <2>1, <2>4 DEF Leave, NoMaster, MasterWith, Place
  <2>5. CASE StartWaiting(a)
    <3> DEFINE d == \E j \in LookedAt(a) : Missed(a, j)
    <3>1. master' = [master EXCEPT !.at = "wait", !.dnf = d, !.reaped = FALSE]
      BY <2>5 DEF StartWaiting
    <3>2. d \in BOOLEAN
      OBVIOUS
    <3> HIDE DEF d
    <3>3. master' \in MasterWith(master'.list) /\ master'.at = "wait"
      BY <1>0, <3>1, <3>2 DEF MasterWith, Place
    <3> QED
      BY <2>1, <3>3
  <2> QED
    BY <2>2, <2>3, <2>4, <2>5
<1>4. CASE Copy
  <2>1. master.at = "move" /\ master' = [master EXCEPT !.at = "moved"]
    BY <1>4 DEF Copy
  <2> QED
    BY <1>0, <1>4, <2>1 DEF MasterWith, Place
<1>5. CASE MoveEnds
  <2>1. master.at = "moved" /\ master' = [master EXCEPT !.at = "fork"]
    BY <1>5 DEF MoveEnds
  <2> QED
    BY <1>0, <1>5, <2>1 DEF MasterWith, Place
<1>6. CASE ForkSubserver
  <2>1. PICK l : master' = [master EXCEPT !.at = "loop", !.job = 0, !.to = 0, !.list = l]
    BY <1>6 DEF ForkSubserver
  <2>2. master.at = "fork"
    BY <1>6 DEF ForkSubserver
  <2> QED
    BY <1>0, <2>1, <2>2 DEF MasterWith, Place
<1>7. ASSUME NEW i \in 1..Len(Server_names), NEW same \in BOOLEAN, Reap(i, same)
      PROVE  /\ master' \in MasterWith(master'.list)
             /\ master.at = "wait" /\ master'.at = "wait"
  <2>1. PICK l : master' = [master EXCEPT !.list = l, !.reaped = TRUE]
    BY <1>7 DEF Reap
  <2>2. master.at = "wait"
    BY <1>7 DEF Reap
  <2> QED
    BY <1>0, <2>1, <2>2 DEF MasterWith, Place
<1>8. CASE WaitEnds
  <2>1. /\ master' = [master EXCEPT !.at = "loop", !.dnf = FALSE, !.reaped = FALSE]
        /\ master.at = "wait"
    BY <1>8 DEF WaitEnds
  <2> QED
    BY <1>0, <2>1 DEF MasterWith, Place
<1>9. CASE CopyFails
  <2>1. /\ master' = [master EXCEPT !.at = "loop", !.job = 0, !.to = 0]
        /\ master.at = "move"
    BY <1>9 DEF CopyFails
  <2> QED
    BY <1>0, <2>1 DEF MasterWith, Place
<1>10. CASE MasterKilled
  BY <1>10 DEF MasterKilled, NoMaster, MasterWith, Place
<1> QED
  BY <1>2, <1>3, <1>4, <1>5, <1>6, <1>7, <1>8, <1>9, <1>10 DEF MasterStep

LEMMA MasterTypes ==
    ASSUME TypeInv, MasterStep \/ CopyFails \/ MasterKilled
    PROVE  TypeInv'
<1> USE DEF TypeInv
<1>1. master' \in MasterWith(master'.list)
  BY MasterShape
<1>2. control' = control /\ printed' = printed
  BY DEF MasterStep, Rescan, Look, Copy, MoveEnds, ForkSubserver, Reap,
     WaitEnds, CopyFails, MasterKilled
<1>3. tickets' \in [Queues -> [Jobs -> State]]
  <2>1. CASE Look
    <3>1. PICK a \in Decisions :
             tickets' = [tickets EXCEPT ![0] = [j \in Jobs |->
                   IF j \in LookedAt(a) /\ a[j] = Hold THEN "held" ELSE tickets[0][j]]]
      BY <2>1 DEF Look, HoldJobs
    <3>2. 0 \in Queues
      BY DEF Queues
    <3>3. [j \in Jobs |-> IF j \in LookedAt(a) /\ a[j] = Hold THEN "held"
                          ELSE tickets[0][j]] \in [Jobs -> State]
      BY <3>2 DEF State
    <3> QED
      BY <3>1, <3>3
  <2>2. CASE Copy \/ MoveEnds
    <3>1. \E q, j : \E v \in State : tickets' = [tickets EXCEPT ![q][j] = v]
      BY <2>2 DEF Copy, MoveEnds, State
    <3> PICK q, j : \E v \in State : tickets' = [tickets EXCEPT ![q][j] = v]
      BY <3>1
    <3> PICK v \in State : tickets' = [tickets EXCEPT ![q][j] = v]
      OBVIOUS
    <3>2. CASE q \in Queues
      <4>1. [tickets[q] EXCEPT ![j] = v] \in [Jobs -> State]
        BY <3>2
      <4> QED
        BY <4>1
    <3>3. CASE q \notin Queues
      BY <3>3
    <3> QED
      BY <3>2, <3>3
  <2>3. CASE ~Look /\ ~Copy /\ ~MoveEnds
    BY <2>3 DEF MasterStep, Rescan, ForkSubserver, Reap,
       WaitEnds, CopyFails, MasterKilled
  <2> QED
    BY <2>1, <2>2, <2>3
<1>4. proc' \in [Servers -> [Pids -> Proc]]
  <2>2. CASE Rescan
    <3>1. PICK which : (\A s \in which : CanFork(s)) /\ proc' = Forked(which)
      BY <2>2 DEF Rescan
    <3> QED
      BY <3>1, ForkedShape
  <2>3. CASE ForkSubserver
    <3>1. (\A s \in {master.to} : CanFork(s)) /\ proc' = Forked({master.to})
      BY <2>3 DEF ForkSubserver
    <3> QED
      BY <3>1, ForkedShape
  <2>4. ASSUME NEW i \in 1..Len(Server_names), NEW same \in BOOLEAN, Reap(i, same)
        PROVE  proc' \in [Servers -> [Pids -> Proc]]
    <3>1. PICK s, p : proc' = [proc EXCEPT ![s][p] = NoProc]
      BY <2>4 DEF Reap
    <3> QED
      BY <3>1, ProcTypes
  <2>5. CASE MasterKilled
    <3>1. proc' = [s \in Servers |-> [p \in Pids |->
                  IF proc[s][p].at = "ended" THEN NoProc ELSE proc[s][p]]]
      BY <2>5 DEF MasterKilled
    <3> QED
      BY <3>1, ProcTypes
  <2>6. CASE Look \/ Copy \/ MoveEnds \/ WaitEnds \/ CopyFails
    BY <2>6 DEF Look, Copy, MoveEnds, WaitEnds, CopyFails
  <2> QED
    BY <2>2, <2>3, <2>4, <2>5, <2>6 DEF MasterStep
<1>5. changed' \in BOOLEAN
  <2>1. CASE Look
    <3>1. changed' = changed \/ changed' = master.change
      BY <2>1 DEF Look, Assign, Leave, StartWaiting
    <3>2. master.change \in BOOLEAN
      BY DEF MasterWith
    <3> QED
      BY <3>1, <3>2
  <2>2. CASE ~Look
    <3>1. changed' = changed
      BY <2>2 DEF MasterStep, Rescan, Copy, MoveEnds, ForkSubserver, Reap,
         WaitEnds, CopyFails, MasterKilled
    <3> QED
      BY <3>1
  <2> QED
    BY <2>1, <2>2
<1> QED
  BY <1>1, <1>2, <1>3, <1>4, <1>5

LEMMA ProcessTypes ==
    ASSUME TypeInv, NEW s \in Servers, NEW p \in Pids,
           SubStep(s, p) \/ Aborts(s, p) \/ SubKilled(s, p)
    PROVE  TypeInv'
<1> USE DEF TypeInv
<1>1. master' = master /\ changed' = changed
  BY DEF SubStep, TakeLock, Takes, LockTaken, SubRescan, StartPrint, Printed,
     SubLeaves, Aborts, SubKilled
<1>2. tickets' \in [Queues -> [Jobs -> State]]
  <2>1. CASE Printed(s, p) \/ Aborts(s, p)
    <3>1. \E j : \E v \in State : tickets' = [tickets EXCEPT ![s][j] = v]
      BY <2>1 DEF Printed, Aborts, State
    <3> PICK j : \E v \in State : tickets' = [tickets EXCEPT ![s][j] = v]
      BY <3>1
    <3> PICK v \in State : tickets' = [tickets EXCEPT ![s][j] = v]
      OBVIOUS
    <3>2. s \in Queues
      BY DEF Queues
    <3>3. [tickets[s] EXCEPT ![j] = v] \in [Jobs -> State]
      BY <3>2
    <3> QED
      BY <3>2, <3>3
  <2>2. CASE ~Printed(s, p) /\ ~Aborts(s, p)
    BY <2>2 DEF SubStep, TakeLock, Takes, LockTaken, SubRescan, StartPrint,
       SubLeaves, SubKilled
  <2> QED
    BY <2>1, <2>2
<1>3. control' \in [Servers -> [change : BOOLEAN, stopped : BOOLEAN]]
  <2>1. CASE TakeLock(s, p)
    BY <2>1 DEF TakeLock, Takes
  <2>2. CASE Aborts(s, p)
    BY <2>2 DEF Aborts
  <2>3. CASE ~TakeLock(s, p) /\ ~Aborts(s, p)
    BY <2>3 DEF SubStep, LockTaken, SubRescan, StartPrint, Printed,
       SubLeaves, SubKilled
  <2> QED
    BY <2>1, <2>2, <2>3
<1>4. printed' \in [Jobs -> Nat]
  <2>1. CASE StartPrint(s, p)
    <3> DEFINE m == Min(ToPrint(s, p))
    <3>1. printed' = [printed EXCEPT ![m] = printed[m] + 1]
      BY <2>1 DEF StartPrint
    <3>2. m \in Jobs
      BY <2>1, ToPrintMin DEF StartPrint
    <3> HIDE DEF m
    <3> QED
      BY <3>1, <3>2
  <2>2. CASE ~StartPrint(s, p)
    BY <2>2 DEF SubStep, TakeLock, Takes, LockTaken, SubRescan, Printed,
       SubLeaves, SubKilled, Aborts
  <2> QED
    BY <2>1, <2>2
<1>5. proc' \in [Servers -> [Pids -> Proc]]
  <2> DEFINE x == proc[s][p]
  <2>0. x \in Proc /\ control[s].stopped \in BOOLEAN /\ InQueue(s) \in SUBSET Jobs
    BY InQueueType
  <2>1. CASE TakeLock(s, p)
    <3> DEFINE y == [NoProc EXCEPT !.at = "serve", !.jobs = InQueue(s),
                                   !.stopped = control[s].stopped]
    <3>1. y \in Proc
      BY <2>0 DEF NoProc, Proc, Task
    <3>2. proc' = [proc EXCEPT ![s][p] = y]
      BY <2>1 DEF TakeLock, Takes
    <3> HIDE DEF y
    <3> QED
      BY <3>1, <3>2
  <2>2. CASE LockTaken(s, p)
    <3>1. proc' = [proc EXCEPT ![s] = [Signalled(s) EXCEPT ![p] = Gone(s, p)]]
      BY <2>2 DEF LockTaken
    <3>2. [Signalled(s) EXCEPT ![p] = Gone(s, p)] \in [Pids -> Proc]
      BY SignalledShape, GoneType
    <3> QED
      BY <3>1, <3>2
  <2>3. CASE SubRescan(s, p)
    <3> DEFINE y == [x EXCEPT !.susr1 = FALSE, !.jobs = InQueue(s),
                              !.stopped = control[s].stopped]
    <3>1. proc' = [proc EXCEPT ![s][p] = y]
      BY <2>3 DEF SubRescan
    <3>2. y \in Proc
      BY <2>0 DEF Proc, Task
    <3> HIDE DEF y
    <3> QED
      BY <3>1, <3>2
  <2>4. CASE StartPrint(s, p)
    <3> DEFINE j == Min(ToPrint(s, p))
               y == [x EXCEPT !.at = "print", !.job = j]
    <3>1. j \in Jobs
      BY <2>4, ToPrintMin DEF StartPrint
    <3>2. proc' = [proc EXCEPT ![s][p] = y]
      BY <2>4 DEF StartPrint
    <3> HIDE DEF j
    <3>3. y \in Proc
      BY <2>0, <3>1 DEF Proc, Task
    <3> HIDE DEF y
    <3> QED
      BY <3>2, <3>3
  <2>5. CASE Printed(s, p)
    <3> DEFINE y == [x EXCEPT !.at = "serve", !.job = 0]
    <3>1. proc' = [proc EXCEPT ![s][p] = y]
      BY <2>5 DEF Printed
    <3>2. y \in Proc
      BY <2>0 DEF Proc, Task
    <3> HIDE DEF y
    <3> QED
      BY <3>1, <3>2
  <2>6. CASE Aborts(s, p)
    <3> DEFINE y == [x EXCEPT !.at = "serve", !.job = 0, !.stopped = TRUE]
    <3>1. proc' = [proc EXCEPT ![s][p] = y]
      BY <2>6 DEF Aborts
    <3>2. y \in Proc
      BY <2>0 DEF Proc, Task
    <3> HIDE DEF y
    <3> QED
      BY <3>1, <3>2
  <2>7. CASE SubLeaves(s, p) \/ SubKilled(s, p)
    <3>1. proc' = [proc EXCEPT ![s][p] = Gone(s, p)]
      BY <2>7 DEF SubLeaves, SubKilled
    <3> QED
      BY <3>1, GoneType
  <2> QED
    BY <2>1, <2>2, <2>3, <2>4, <2>5, <2>6, <2>7 DEF SubStep
<1> QED
  BY <1>1, <1>2, <1>3, <1>4, <1>5

LEMMA TypeStep == TypeInv /\ [Next]_vars => TypeInv'
<1> SUFFICES ASSUME TypeInv, [Next]_vars PROVE TypeInv'
  OBVIOUS
<1>1. CASE UNCHANGED vars
  BY <1>1 DEF vars, TypeInv
<1> QED
  BY <1>1, UserTypes, StarterTypes, MasterTypes, ProcessTypes DEF Next

-----------------------------------------------------------------------------
(* The invariant.                                                          *)

\* The job that the master is to copy waits in its queue.
MoveInv ==
    master.at = "move" =>
        /\ master.job \in Jobs /\ master.to \in Servers
        /\ tickets[0][master.job] \in {"ready", "held"}

\* The jobs of which no process was killed.
Whole == Jobs \ cut

\* A job is in one server queue at most, and in none while it waits in the
\* master queue, but for the time between the copy and the end of the original.
PlaceInv ==
    \A j \in Whole :
        /\ \A s \in Servers :
              tickets[0][j] \in {"ready", "held"} /\ tickets[s][j] # "none"
              => master.at = "moved" /\ master.job = j /\ master.to = s
        /\ \A s, t \in Servers :
              tickets[s][j] # "none" /\ tickets[t][j] # "none" => s = t

\* One process of a server queue has the lock.
LockInv == \A s \in Servers : \A p, q \in Alive(s) : p = q

Prints(s, p, j) == proc[s][p].at = "print" /\ proc[s][p].job = j

\* A job that is in no server queue, or waits in one where nobody prints it,
\* was never printed; what is printed is ready.
PrintInv ==
    \A j \in Whole :
        /\ printed[j] <= 1
        /\ (\A s \in Servers : tickets[s][j] = "none") => printed[j] = 0
        /\ \A s \in Servers :
              /\ tickets[s][j] = "ready" /\ (\A p \in Pids : ~Prints(s, p, j))
                 => printed[j] = 0
              /\ \A p \in Pids : Prints(s, p, j) => tickets[s][j] = "ready"

OnceInv == MoveInv /\ PlaceInv /\ PrintInv
Inv == TypeInv /\ LockInv /\ OnceInv

\* The numbers of the server queues are not that of the master queue.
LEMMA Names == \A s \in Servers : s # 0 /\ s \in Queues
BY DEF Queues

LEMMA InvInit == Init => Inv
<1> SUFFICES ASSUME Init PROVE Inv
  OBVIOUS
<1>1. master.at = "none" /\ \A s \in Servers, p \in Pids : proc[s][p].at = "none"
  BY DEF Init, NoMaster, NoProc
<1>2. \A s \in Servers, j \in Jobs : tickets[s][j] = "none" /\ printed[j] = 0
  BY Names DEF Init
<1>3. LockInv
  BY <1>1 DEF LockInv, Alive
<1>4. MoveInv
  BY <1>1 DEF MoveInv
<1>5. PlaceInv
  BY <1>2 DEF PlaceInv, Whole
<1>6. PrintInv
  <2>1. \A s \in Servers, p \in Pids, j \in Jobs : ~Prints(s, p, j)
    BY <1>1 DEF Prints
  <2>2. \A j \in Whole : j \in Jobs /\ printed[j] = 0 /\ printed[j] <= 1
    BY DEF Whole, Init
  <2> QED
    BY <1>2, <2>1, <2>2, Zenon DEF PrintInv
<1> QED
  BY <1>3, <1>4, <1>5, <1>6, TypeInit DEF Inv, OnceInv

-----------------------------------------------------------------------------
(* The lock of a server queue is taken by one process at a time.           *)

\* Processes that go on as they are, or were there before, do not add one.
LEMMA FewerAlive ==
    ASSUME LockInv,
           \A s \in Servers, p \in Pids :
               proc'[s][p].at \in {"serve", "print"} => proc[s][p].at \in {"serve", "print"}
    PROVE  LockInv'
<1>1. \A s \in Servers : Alive(s)' \subseteq Alive(s)
  BY DEF Alive
<1> QED
  BY <1>1 DEF LockInv

\* One process of a queue goes on as y.
LEMMA OneChanges ==
    ASSUME TypeInv, NEW s \in Servers, NEW p \in Pids, NEW y,
           proc' = [proc EXCEPT ![s][p] = y]
    PROVE  /\ proc'[s][p] = y
           /\ \A t \in Servers, q \in Pids :
                 ~(t = s /\ q = p) => proc'[t][q] = proc[t][q]
BY DEF TypeInv


\* What the steps of the process that has the lock make of it.
LEMMA HolderShape ==
    ASSUME TypeInv, NEW s \in Servers, NEW p \in Pids
    PROVE  /\ SubRescan(s, p) =>
                 \E y : /\ proc' = [proc EXCEPT ![s][p] = y]
                        /\ y.at = "serve" /\ proc[s][p].at = "serve"
           /\ StartPrint(s, p) =>
                 \E y : /\ proc' = [proc EXCEPT ![s][p] = y]
                        /\ y.at = "print" /\ y.job = Min(ToPrint(s, p))
                        /\ proc[s][p].at = "serve"
           /\ Printed(s, p) \/ Aborts(s, p) =>
                 \E y : /\ proc' = [proc EXCEPT ![s][p] = y]
                        /\ y.at = "serve" /\ proc[s][p].at = "print"
<1> DEFINE x == proc[s][p]
<1>0. x \in Proc
  BY DEF TypeInv
<1>1. ASSUME SubRescan(s, p)
      PROVE  \E y : /\ proc' = [proc EXCEPT ![s][p] = y]
                    /\ y.at = "serve" /\ proc[s][p].at = "serve"
  <2> DEFINE y == [x EXCEPT !.susr1 = FALSE, !.jobs = InQueue(s),
                            !.stopped = control[s].stopped]
  <2>1. proc' = [proc EXCEPT ![s][p] = y] /\ x.at = "serve"
    BY <1>1 DEF SubRescan
  <2>2. y.at = "serve"
    BY <1>0, <2>1 DEF Proc
  <2> HIDE DEF y
  <2> QED
    BY <2>1, <2>2
<1>2. ASSUME StartPrint(s, p)
      PROVE  \E y : /\ proc' = [proc EXCEPT ![s][p] = y]
                    /\ y.at = "print" /\ y.job = Min(ToPrint(s, p))
                    /\ proc[s][p].at = "serve"
  <2> DEFINE j == Min(ToPrint(s, p))
             y == [x EXCEPT !.at = "print", !.job = j]
  <2>1. proc' = [proc EXCEPT ![s][p] = y] /\ x.at = "serve"
    BY <1>2 DEF StartPrint
  <2> HIDE DEF j
  <2>2. y.at = "print" /\ y.job = j
    BY <1>0 DEF Proc
  <2> HIDE DEF y
  <2> QED
    BY <2>1, <2>2 DEF j
<1>3. ASSUME Printed(s, p)
      PROVE  \E y : /\ proc' = [proc EXCEPT ![s][p] = y]
                    /\ y.at = "serve" /\ proc[s][p].at = "print"
  <2> DEFINE y == [x EXCEPT !.at = "serve", !.job = 0]
  <2>1. proc' = [proc EXCEPT ![s][p] = y] /\ x.at = "print"
    BY <1>3 DEF Printed
  <2>2. y.at = "serve"
    BY <1>0 DEF Proc
  <2> HIDE DEF y
  <2> QED
    BY <2>1, <2>2
<1>4. ASSUME Aborts(s, p)
      PROVE  \E y : /\ proc' = [proc EXCEPT ![s][p] = y]
                    /\ y.at = "serve" /\ proc[s][p].at = "print"
  <2> DEFINE y == [x EXCEPT !.at = "serve", !.job = 0, !.stopped = TRUE]
  <2>1. proc' = [proc EXCEPT ![s][p] = y] /\ x.at = "print"
    BY <1>4 DEF Aborts
  <2>2. y.at = "serve"
    BY <1>0 DEF Proc
  <2> HIDE DEF y
  <2> QED
    BY <2>1, <2>2
<1> QED
  BY <1>1, <1>2, <1>3, <1>4

LEMMA LockStep == Inv /\ [Next]_vars => LockInv'
<1> SUFFICES ASSUME Inv, [Next]_vars PROVE LockInv'
  OBVIOUS
<1> USE DEF Inv
<1>1. CASE proc' = proc
  BY <1>1, FewerAlive
<1>2. ASSUME NEW s \in Servers, LpcSets(s) PROVE LockInv'
  <2>1. proc' = [proc EXCEPT ![s] = Signalled(s)]
    BY <1>2 DEF LpcSets
  <2>2. \A t \in Servers, p \in Pids : proc'[t][p].at = proc[t][p].at
    BY <2>1, SignalledShape DEF TypeInv
  <2> QED
    BY <2>2, FewerAlive
<1>3. CASE (\E n \in Starters : StarterStep(n)) \/ Rescan \/ ForkSubserver
  <2>0. CASE proc' = proc
    BY <1>1, <2>0
  <2> SUFFICES ASSUME proc' # proc PROVE LockInv'
    BY <2>0
  <2>1. PICK which : (\A s \in which : CanFork(s)) /\ proc' = Forked(which)
    <3>1. ForkSubserver => (\A s \in {master.to} : CanFork(s)) /\ proc' = Forked({master.to})
      BY DEF ForkSubserver
    <3>2. CASE \E n \in Starters : StarterStep(n)
      BY <3>2, StarterShape
    <3> QED
      BY <1>3, <3>1, <3>2 DEF Rescan
  <2>2. \A s \in Servers, p \in Pids :
           proc'[s][p] = proc[s][p] \/ proc'[s][p].at = "start"
    BY <2>1, ForkedShape
  <2> QED
    BY <2>2, FewerAlive
<1>4. ASSUME NEW i \in 1..Len(Server_names), NEW same \in BOOLEAN, Reap(i, same)
      PROVE  LockInv'
  <2>1. PICK s, p : proc' = [proc EXCEPT ![s][p] = NoProc]
    BY <1>4 DEF Reap
  <2>2. \A t \in Servers, q \in Pids : proc'[t][q] = proc[t][q] \/ proc'[t][q] = NoProc
    BY <2>1 DEF TypeInv
  <2> QED
    BY <2>2, FewerAlive, ProcTypes
<1>5. CASE MasterKilled
  <2>1. \A s \in Servers, p \in Pids :
           proc'[s][p] = NoProc \/ proc'[s][p] = proc[s][p]
    BY <1>5 DEF MasterKilled
  <2> QED
    BY <2>1, FewerAlive, ProcTypes
<1>6. ASSUME NEW s \in Servers, NEW p \in Pids, TakeLock(s, p)
      PROVE  LockInv'
  <2>1. PICK y : proc' = [proc EXCEPT ![s][p] = y]
    BY <1>6 DEF TakeLock, Takes
  <2>2. Alive(s)' \subseteq {p}
    BY <1>6, <2>1, OneChanges DEF TakeLock, Alive
  <2>3. \A t \in Servers : t # s => Alive(t)' = Alive(t)
    BY <2>1, OneChanges DEF Alive
  <2> QED
    BY <2>2, <2>3 DEF LockInv
<1>7. ASSUME NEW s \in Servers, NEW p \in Pids, LockTaken(s, p)
      PROVE  LockInv'
  <2>1. proc' = [proc EXCEPT ![s] = [Signalled(s) EXCEPT ![p] = Gone(s, p)]]
    BY <1>7 DEF LockTaken
  <2>2. \A t \in Servers, q \in Pids :
           \/ proc'[t][q].at = proc[t][q].at
           \/ proc'[t][q].at \in {"none", "ended"}
    BY <2>1, SignalledShape, GoneType DEF TypeInv
  <2> QED
    BY <2>2, FewerAlive
<1>8. ASSUME NEW s \in Servers, NEW p \in Pids,
             SubRescan(s, p) \/ StartPrint(s, p) \/ Printed(s, p) \/ Aborts(s, p)
      PROVE  LockInv'
  <2>1. \E y : proc' = [proc EXCEPT ![s][p] = y]
    BY <1>8, HolderShape
  <2>2. proc[s][p].at \in {"serve", "print"}
    BY <1>8 DEF SubRescan, StartPrint, Printed, Aborts
  <2> QED
    BY <2>1, <2>2, OneChanges, FewerAlive
<1>9. ASSUME NEW s \in Servers, NEW p \in Pids, SubLeaves(s, p) \/ SubKilled(s, p)
      PROVE  LockInv'
  <2>1. proc' = [proc EXCEPT ![s][p] = Gone(s, p)]
    BY <1>9 DEF SubLeaves, SubKilled
  <2>2. \A t \in Servers, q \in Pids :
           \/ proc'[t][q] = proc[t][q]
           \/ proc'[t][q].at \in {"none", "ended"}
    BY <2>1, OneChanges, GoneType
  <2> QED
    BY <2>2, FewerAlive
<1>10. CASE UNCHANGED vars
  BY <1>1, <1>10 DEF vars
<1>11. CASE \/ \E q \in Queues, j \in Jobs : Arrive(q, j)
            \/ \E j \in Jobs : Announce(j)
            \/ Poll
            \/ Look \/ Copy \/ MoveEnds \/ WaitEnds \/ CopyFails
  BY <1>1, <1>11 DEF Arrive, Announce, Poll, Look, Copy, MoveEnds, WaitEnds, CopyFails
<1> QED
  BY <1>2, <1>3, <1>4, <1>5, <1>6, <1>7, <1>8, <1>9, <1>10, <1>11
     DEF Next, MasterStep, SubStep

-----------------------------------------------------------------------------
(* A job is printed once.                                                  *)

\* A step that leaves the tickets, the counts and what is printed alone, and
\* keeps the master in Move_job or ends it.
LEMMA QuietStep ==
    ASSUME Inv, tickets' = tickets, printed' = printed, cut \subseteq cut',
           \A s \in Servers, p \in Pids, j \in Jobs \ cut' :
               Prints(s, p, j)' <=> Prints(s, p, j),
           master'.at = "move" =>
               master.at = "move" /\ master'.job = master.job /\ master'.to = master.to,
           master.at = "moved" =>
               \/ master.job \in cut'
               \/ master'.at = "moved" /\ master'.job = master.job /\ master'.to = master.to
    PROVE  OnceInv'
<1> USE DEF Inv, OnceInv
<1>0. \A j \in Whole' : j \in Whole /\ j \in Jobs \ cut'
  BY DEF Whole
<1>1. MoveInv'
  BY DEF MoveInv
<1>2. PlaceInv'
  <2> SUFFICES ASSUME NEW j \in Whole'
               PROVE  /\ \A s \in Servers :
                            tickets'[0][j] \in {"ready", "held"} /\ tickets'[s][j] # "none"
                            => master'.at = "moved" /\ master'.job = j /\ master'.to = s
                      /\ \A s, t \in Servers :
                            tickets'[s][j] # "none" /\ tickets'[t][j] # "none" => s = t
    BY DEF PlaceInv
  <2> QED
    BY <1>0 DEF PlaceInv
<1>3. PrintInv'
  <2> SUFFICES ASSUME NEW j \in Whole'
               PROVE  /\ printed'[j] <= 1
                      /\ (\A s \in Servers : tickets'[s][j] = "none") => printed'[j] = 0
                      /\ \A s \in Servers :
                            /\ tickets'[s][j] = "ready" /\ (\A p \in Pids : ~Prints(s, p, j)')
                               => printed'[j] = 0
                            /\ \A p \in Pids : Prints(s, p, j)' => tickets'[s][j] = "ready"
    BY DEF PrintInv
  <2>1. \A s \in Servers, p \in Pids : Prints(s, p, j)' <=> Prints(s, p, j)
    BY <1>0
  <2> HIDE DEF Inv, OnceInv
  <2>2. PrintInv
    BY DEF Inv, OnceInv
  <2> QED
    BY <1>0, <2>1, <2>2 DEF PrintInv
<1> QED
  BY <1>1, <1>2, <1>3

\* A step of the processes of the server queues that prints nothing else.
LEMMA SamePrints ==
    ASSUME \A s \in Servers, p \in Pids :
               \/ proc'[s][p].at = proc[s][p].at /\ proc'[s][p].job = proc[s][p].job
               \/ proc'[s][p].at # "print" /\ proc[s][p].at # "print"
    PROVE  \A s \in Servers, p \in Pids : \A j : Prints(s, p, j)' <=> Prints(s, p, j)
BY DEF Prints

LEMMA UserQuiet ==
    ASSUME Inv,
           \/ \E j \in Jobs : Announce(j)
           \/ \E s \in Servers : LpcSets(s)
           \/ Poll
    PROVE  OnceInv'
<1>1. TypeInv
  BY DEF Inv
<1>2. /\ tickets' = tickets /\ printed' = printed /\ cut' = cut
      /\ master' = master \/ master' = Woken
  BY DEF Announce, LpcSets, Poll
<1>3. \A s \in Servers, p \in Pids :
         proc'[s][p].at = proc[s][p].at /\ proc'[s][p].job = proc[s][p].job
  <2>1. ASSUME NEW s \in Servers, LpcSets(s)
        PROVE  \A t \in Servers, p \in Pids :
                  proc'[t][p].at = proc[t][p].at /\ proc'[t][p].job = proc[t][p].job
    BY <1>1, <2>1, SignalledShape DEF LpcSets, TypeInv
  <2> QED
    BY <2>1 DEF Announce, Poll
<1>4. /\ master'.at = "move" => master.at = "move"
      /\ master.at = "moved" => master'.at = "moved"
      /\ master'.job = master.job /\ master'.to = master.to
  BY <1>1, <1>2, WokenShape
<1> QED
  BY <1>2, <1>3, <1>4, SamePrints, QuietStep

LEMMA StarterQuiet ==
    ASSUME Inv, NEW n \in Starters, StarterStep(n)
    PROVE  OnceInv'
<1>1. TypeInv
  BY DEF Inv
<1>2. \A s \in Servers, p \in Pids :
         \/ proc'[s][p] = proc[s][p]
         \/ proc'[s][p].at # "print" /\ proc[s][p].at # "print"
  <2>1. CASE proc' = proc
    BY <2>1
  <2>2. ASSUME NEW which, \A s \in which : CanFork(s), proc' = Forked(which)
        PROVE  \A s \in Servers, p \in Pids :
                  \/ proc'[s][p] = proc[s][p]
                  \/ proc'[s][p].at # "print" /\ proc[s][p].at # "print"
    <3>1. \A s \in Servers, p \in Pids :
             \/ Forked(which)[s][p] = proc[s][p]
             \/ proc[s][p].at = "none" /\ Forked(which)[s][p].at = "start"
      BY <1>1, <2>2, ForkedShape
    <3> QED
      BY <2>2, <3>1
  <2> QED
    BY <1>1, <2>1, <2>2, StarterShape
<1> QED
  BY <1>1, <1>2, StarterShape, SamePrints, QuietStep

LEMMA MasterQuiet ==
    ASSUME Inv,
           \/ Rescan \/ ForkSubserver \/ WaitEnds \/ CopyFails \/ MasterKilled
           \/ \E i \in 1..Len(Server_names), same \in BOOLEAN : Reap(i, same)
    PROVE  OnceInv'
<1>1. TypeInv
  BY DEF Inv
<1>2. tickets' = tickets /\ printed' = printed /\ cut \subseteq cut'
  BY DEF Rescan, ForkSubserver, WaitEnds, CopyFails, MasterKilled, Reap
<1>3. \A s \in Servers, p \in Pids :
         \/ proc'[s][p] = proc[s][p]
         \/ proc'[s][p].at # "print" /\ proc[s][p].at # "print"
  <2>1. CASE Rescan \/ ForkSubserver
    <3>1. PICK which : (\A s \in which : CanFork(s)) /\ proc' = Forked(which)
      <4>1. ForkSubserver => (\A s \in {master.to} : CanFork(s)) /\ proc' = Forked({master.to})
        BY DEF ForkSubserver
      <4> QED
        BY <2>1, <4>1 DEF Rescan
    <3> QED
      BY <1>1, <3>1, ForkedShape
  <2>2. CASE WaitEnds \/ CopyFails
    BY <2>2 DEF WaitEnds, CopyFails
  <2>3. CASE MasterKilled
    <3>1. \A s \in Servers, p \in Pids :
             proc'[s][p] = IF proc[s][p].at = "ended" THEN NoProc ELSE proc[s][p]
      BY <2>3 DEF MasterKilled
    <3> QED
      BY <3>1, ProcTypes
  <2>4. ASSUME NEW i \in 1..Len(Server_names), NEW same \in BOOLEAN, Reap(i, same)
        PROVE  \A s \in Servers, p \in Pids :
                  \/ proc'[s][p] = proc[s][p]
                  \/ proc'[s][p].at # "print" /\ proc[s][p].at # "print"
    <3> DEFINE s == master.list[i].pr
               p == master.list[i].server
    <3>1. proc' = [proc EXCEPT ![s][p] = NoProc] /\ proc[s][p].at = "ended"
      BY <2>4 DEF Reap, EndedChild
    <3> HIDE DEF s, p
    <3>2. \A t \in Servers, q \in Pids :
             \/ proc'[t][q] = proc[t][q]
             \/ t = s /\ q = p /\ proc'[t][q] = NoProc
      BY <1>1, <3>1 DEF TypeInv
    <3> QED
      BY <3>1, <3>2, ProcTypes
  <2> QED
    BY <2>1, <2>2, <2>3, <2>4
<1>4. master'.at # "move" /\ (master.at = "moved" => master.job \in cut')
  <2>1. ~Look
    BY DEF Rescan, ForkSubserver, WaitEnds, CopyFails, MasterKilled, Reap, Look
  <2>2. master.at = "moved" => MasterKilled
    BY DEF Rescan, ForkSubserver, WaitEnds, CopyFails, Reap
  <2>3. MasterKilled => (master.at = "moved" => master.job \in cut')
    BY DEF MasterKilled
  <2> QED
    BY <1>1, <2>1, <2>2, <2>3, MasterShape DEF MasterStep
<1> QED
  BY <1>2, <1>3, <1>4, SamePrints, QuietStep


\* The process of a server queue takes the lock, looks again, finds nothing to
\* print, or is killed.
LEMMA ServerQuiet ==
    ASSUME Inv, NEW s \in Servers, NEW p \in Pids,
           \/ TakeLock(s, p) \/ LockTaken(s, p) \/ SubRescan(s, p)
           \/ SubLeaves(s, p) \/ SubKilled(s, p)
    PROVE  OnceInv'
<1>1. TypeInv
  BY DEF Inv
<1>2. tickets' = tickets /\ printed' = printed /\ cut \subseteq cut' /\ master' = master
  BY DEF TakeLock, Takes, LockTaken, SubRescan, SubLeaves, SubKilled
<1>3. \A t \in Servers, q \in Pids, j \in Jobs \ cut' : Prints(t, q, j)' <=> Prints(t, q, j)
  <2>1. CASE TakeLock(s, p)
    <3> DEFINE y == [NoProc EXCEPT !.at = "serve", !.jobs = InQueue(s),
                                   !.stopped = control[s].stopped]
    <3>1. proc' = [proc EXCEPT ![s][p] = y] /\ proc[s][p].at = "start"
      BY <2>1 DEF TakeLock, Takes
    <3>2. y.at = "serve"
      BY DEF NoProc
    <3> HIDE DEF y
    <3> QED
      BY <1>1, <3>1, <3>2, OneChanges DEF Prints
  <2>2. CASE LockTaken(s, p)
    <3>1. /\ proc' = [proc EXCEPT ![s] = [Signalled(s) EXCEPT ![p] = Gone(s, p)]]
          /\ proc[s][p].at = "start"
      BY <2>2 DEF LockTaken
    <3>2. \A t \in Servers, q \in Pids :
             \/ proc'[t][q].at = proc[t][q].at /\ proc'[t][q].job = proc[t][q].job
             \/ proc'[t][q].at # "print" /\ proc[t][q].at # "print"
      <4> DEFINE g == Gone(s, p)
                 h == Signalled(s)
      <4>1. g.at \in {"none", "ended"}
        BY GoneType
      <4>2. /\ h \in [Pids -> Proc]
            /\ \A q \in Pids : h[q].at = proc[s][q].at /\ h[q].job = proc[s][q].job
        BY <1>1, SignalledShape
      <4>3. proc' = [proc EXCEPT ![s] = [h EXCEPT ![p] = g]]
        BY <3>1
      <4>4. proc \in [Servers -> [Pids -> Proc]]
        BY <1>1 DEF TypeInv
      <4> HIDE DEF g, h
      <4>5. \A t \in Servers, q \in Pids :
               proc'[t][q] = IF t # s THEN proc[t][q] ELSE IF q = p THEN g ELSE h[q]
        BY <4>2, <4>3, <4>4
      <4> QED
        BY <3>1, <4>1, <4>2, <4>5
    <3> QED
      BY <3>2, SamePrints
  <2>3. CASE SubRescan(s, p)
    <3>1. PICK y : /\ proc' = [proc EXCEPT ![s][p] = y]
                   /\ y.at = "serve" /\ proc[s][p].at = "serve"
      BY <1>1, <2>3, HolderShape
    <3> QED
      BY <1>1, <3>1, OneChanges DEF Prints
  <2>4. CASE SubLeaves(s, p)
    <3>1. proc' = [proc EXCEPT ![s][p] = Gone(s, p)] /\ proc[s][p].at = "serve"
      BY <2>4 DEF SubLeaves
    <3> QED
      BY <1>1, <3>1, OneChanges, GoneType DEF Prints
  <2>5. CASE SubKilled(s, p)
    <3>1. proc' = [proc EXCEPT ![s][p] = Gone(s, p)]
      BY <2>5 DEF SubKilled
    <3>2. proc[s][p].at = "print" => proc[s][p].job \in cut'
      BY <2>5 DEF SubKilled
    <3>3. proc'[s][p].at # "print"
      <4> DEFINE g == Gone(s, p)
      <4>0. proc' = [proc EXCEPT ![s][p] = g]
        BY <3>1
      <4> HIDE DEF g
      <4>1. proc'[s][p] = g
        BY <1>1, <4>0 DEF TypeInv
      <4> USE DEF g
      <4> QED
        BY <4>1, GoneType
    <3>4. \A t \in Servers, q \in Pids :
             ~(t = s /\ q = p) => proc'[t][q] = proc[t][q]
      BY <1>1, <3>1, OneChanges
    <3> QED
      BY <3>2, <3>3, <3>4 DEF Prints
  <2> QED
    BY <2>1, <2>2, <2>3, <2>4, <2>5
<1> QED
  BY <1>2, <1>3, QuietStep

\* A job that comes in was in no queue, and never printed.
LEMMA ArriveOnce ==
    ASSUME Inv, NEW q \in Queues, NEW j \in Jobs, Arrive(q, j)
    PROVE  OnceInv'
<1> USE DEF Inv, OnceInv
<1>1. /\ tickets' = [tickets EXCEPT ![q][j] = "ready"] /\ New(j)
      /\ UNCHANGED <<proc, master, printed, cut>>
  BY DEF Arrive
<1>2. /\ \A r \in Queues : tickets[r][j] = "none"
      /\ tickets'[q][j] = "ready"
      /\ \A r \in Queues : r # q => tickets'[r][j] = "none"
      /\ \A r \in Queues, i \in Jobs : i # j => tickets'[r][i] = tickets[r][i]
  BY <1>1 DEF New, TypeInv
<1>3. 0 \in Queues /\ \A s \in Servers : s \in Queues /\ s # 0
  BY DEF Queues
<1>4. MoveInv'
  BY <1>1, <1>2, <1>3 DEF MoveInv
<1>5. PlaceInv'
  BY <1>1, <1>2, <1>3 DEF PlaceInv, Whole
<1>6. PrintInv'
  <2>1. \A s \in Servers, p \in Pids : \A i : Prints(s, p, i)' <=> Prints(s, p, i)
    BY <1>1 DEF Prints
  <2>2. ASSUME j \in Whole
        PROVE  printed[j] = 0 /\ \A s \in Servers, p \in Pids : ~Prints(s, p, j)
    BY <1>2, <1>3, <2>2 DEF PrintInv
  <2> SUFFICES ASSUME NEW i \in Whole'
               PROVE  /\ printed'[i] <= 1
                      /\ (\A s \in Servers : tickets'[s][i] = "none") => printed'[i] = 0
                      /\ \A s \in Servers :
                            /\ tickets'[s][i] = "ready" /\ (\A p \in Pids : ~Prints(s, p, i)')
                               => printed'[i] = 0
                            /\ \A p \in Pids : Prints(s, p, i)' => tickets'[s][i] = "ready"
    BY DEF PrintInv
  <2>3. i \in Whole /\ i \in Jobs
    BY <1>1 DEF Whole
  <2>4. CASE i = j
    BY <1>1, <2>1, <2>2, <2>3, <2>4
  <2>5. CASE i # j
    <3>1. \A s \in Servers : tickets'[s][i] = tickets[s][i]
      BY <1>2, <1>3, <2>3, <2>5
    <3> QED
      BY <1>1, <2>1, <2>3, <3>1 DEF PrintInv
  <2> QED
    BY <2>4, <2>5
<1> QED
  BY <1>4, <1>5, <1>6

\* The search holds jobs that wait; what it found waits still.
LEMMA LookOnce ==
    ASSUME Inv, Look
    PROVE  OnceInv'
<1> USE DEF Inv, OnceInv
<1>1. PICK a \in Decisions : HoldJobs(a) /\ (Assign(a) \/ Leave(a) \/ StartWaiting(a))
  BY DEF Look
<1>2. UNCHANGED <<proc, printed, cut>> /\ master.at = "loop"
  BY DEF Look
<1>3. \A j \in LookedAt(a) : tickets[0][j] = "ready"
  BY DEF LookedAt, Candidates, Waiting
<1>4. 0 \in Queues /\ \A s \in Servers : s \in Queues /\ s # 0
  BY DEF Queues
<1>5. /\ \A s \in Servers : tickets'[s] = tickets[s]
      /\ \A j \in Jobs : tickets'[0][j] = IF j \in LookedAt(a) /\ a[j] = Hold THEN "held"
                                          ELSE tickets[0][j]
  BY <1>1, <1>4 DEF HoldJobs, TypeInv
<1>6. MoveInv'
  <2> SUFFICES ASSUME master'.at = "move"
               PROVE  /\ master'.job \in Jobs /\ master'.to \in Servers
                      /\ tickets'[0][master'.job] \in {"ready", "held"}
    BY DEF MoveInv
  <2>1. master \in MasterWith(master.list)
    BY DEF TypeInv
  <2>2. ~Leave(a) /\ ~StartWaiting(a)
    <3>1. CASE Leave(a)
      BY <3>1 DEF Leave, NoMaster
    <3>2. CASE StartWaiting(a)
      <4> DEFINE d == \E j \in LookedAt(a) : Missed(a, j)
      <4>1. master' = [master EXCEPT !.at = "wait", !.dnf = d, !.reaped = FALSE]
        BY <3>2 DEF StartWaiting
      <4> HIDE DEF d
      <4> QED
        BY <2>1, <4>1 DEF MasterWith
    <3> QED
      BY <3>1, <3>2
  <2>3. PICK j \in LookedAt(a) : a[j] \in Servers /\
           master' = [master EXCEPT !.at = "move", !.job = j, !.to = a[j]]
    BY <1>1, <2>2 DEF Assign, Found
  <2>4. master'.job = j /\ master'.to = a[j]
    BY <2>1, <2>3 DEF MasterWith
  <2>5. j \in Jobs
    BY <2>1 DEF LookedAt, Candidates, MasterWith
  <2> QED
    BY <1>3, <1>5, <2>3, <2>4, <2>5
<1>7. PlaceInv'
  <2> SUFFICES ASSUME NEW j \in Whole'
               PROVE  /\ \A s \in Servers :
                            tickets'[0][j] \in {"ready", "held"} => tickets'[s][j] = "none"
                      /\ \A s, t \in Servers :
                            tickets'[s][j] # "none" /\ tickets'[t][j] # "none" => s = t
    BY DEF PlaceInv
  <2>1. j \in Whole /\ j \in Jobs
    BY <1>2 DEF Whole
  <2>2. \A s \in Servers : tickets[0][j] \in {"ready", "held"} => tickets[s][j] = "none"
    BY <1>2, <2>1 DEF PlaceInv
  <2>3. tickets'[0][j] \in {"ready", "held"} => tickets[0][j] \in {"ready", "held"}
    BY <1>3, <1>5, <2>1
  <2>4. \A s, t \in Servers : tickets[s][j] # "none" /\ tickets[t][j] # "none" => s = t
    BY <2>1 DEF PlaceInv
  <2> QED
    BY <1>5, <2>2, <2>3, <2>4
<1>8. PrintInv'
  <2>1. PrintInv
    OBVIOUS
  <2>2. Whole' = Whole /\ UNCHANGED printed
    BY <1>2 DEF Whole
  <2>3. \A s \in Servers, p \in Pids, j \in Jobs : Prints(s, p, j)' <=> Prints(s, p, j)
    BY <1>2 DEF Prints
  <2>4. Whole \subseteq Jobs /\ \A s \in Servers : tickets'[s] = tickets[s]
    BY <1>5 DEF Whole
  <2> HIDE DEF Prints, Whole, Inv, OnceInv
  <2> QED
    BY <2>1, <2>2, <2>3, <2>4 DEF PrintInv
<1> QED
  BY <1>6, <1>7, <1>8

\* A copy is made of a job that no server queue has.
LEMMA CopyOnce ==
    ASSUME Inv, Copy
    PROVE  OnceInv'
<1> USE DEF Inv, OnceInv
<1> DEFINE j == master.job
           s == master.to
<1>1. /\ master.at = "move" /\ master' = [master EXCEPT !.at = "moved"]
      /\ tickets' = [tickets EXCEPT ![s][j] = "ready"]
      /\ UNCHANGED <<proc, printed, cut>>
  BY DEF Copy
<1>2. j \in Jobs /\ s \in Servers /\ tickets[0][j] \in {"ready", "held"}
  BY <1>1 DEF MoveInv
<1>3. master'.at = "moved" /\ master'.job = j /\ master'.to = s
  BY <1>1 DEF TypeInv, MasterWith
<1> HIDE DEF j, s
<1>4. 0 \in Queues /\ \A t \in Servers : t \in Queues /\ t # 0
  BY DEF Queues
<1>5. /\ tickets'[s][j] = "ready" /\ tickets'[0] = tickets[0]
      /\ \A t \in Servers : t # s => tickets'[t] = tickets[t]
      /\ \A t \in Servers, i \in Jobs : i # j => tickets'[t][i] = tickets[t][i]
  BY <1>1, <1>2, <1>4 DEF TypeInv
<1>6. \A i \in Whole, t \in Servers :
         tickets[0][i] \in {"ready", "held"} => tickets[t][i] = "none"
  BY <1>1 DEF PlaceInv
<1>7. MoveInv'
  BY <1>3 DEF MoveInv
<1>8. PlaceInv'
  <2> SUFFICES ASSUME NEW i \in Whole'
               PROVE  /\ \A t \in Servers :
                            tickets'[0][i] \in {"ready", "held"} /\ tickets'[t][i] # "none"
                            => master'.at = "moved" /\ master'.job = i /\ master'.to = t
                      /\ \A t, u \in Servers :
                            tickets'[t][i] # "none" /\ tickets'[u][i] # "none" => t = u
    BY DEF PlaceInv
  <2>1. i \in Whole /\ i \in Jobs
    BY <1>1 DEF Whole
  <2>2. CASE i = j
    BY <1>2, <1>3, <1>5, <1>6, <2>1, <2>2
  <2>3. CASE i # j
    <3>1. \A t \in Servers : tickets'[t][i] = tickets[t][i]
      BY <1>5, <2>1, <2>3
    <3>2. \A t, u \in Servers : tickets[t][i] # "none" /\ tickets[u][i] # "none" => t = u
      BY <2>1 DEF PlaceInv
    <3> QED
      BY <1>5, <1>6, <2>1, <3>1, <3>2
  <2> QED
    BY <2>2, <2>3
<1>9. PrintInv'
  <2> SUFFICES ASSUME NEW i \in Whole'
               PROVE  /\ printed'[i] <= 1
                      /\ (\A t \in Servers : tickets'[t][i] = "none") => printed'[i] = 0
                      /\ \A t \in Servers :
                            /\ tickets'[t][i] = "ready" /\ (\A p \in Pids : ~Prints(t, p, i)')
                               => printed'[i] = 0
                            /\ \A p \in Pids : Prints(t, p, i)' => tickets'[t][i] = "ready"
    BY DEF PrintInv
  <2>1. i \in Whole /\ i \in Jobs
    BY <1>1 DEF Whole
  <2>2. \A t \in Servers, p \in Pids : Prints(t, p, i)' <=> Prints(t, p, i)
    BY <1>1 DEF Prints
  <2>3. CASE i = j
    <3>1. printed[j] = 0 /\ \A t \in Servers, p \in Pids : ~Prints(t, p, j)
      BY <1>2, <1>6, <2>1, <2>3 DEF PrintInv
    <3> QED
      BY <1>1, <2>2, <2>3, <3>1
  <2>4. CASE i # j
    <3>1. \A t \in Servers : tickets'[t][i] = tickets[t][i]
      BY <1>5, <2>1, <2>4
    <3> QED
      BY <1>1, <2>1, <2>2, <3>1 DEF PrintInv
  <2> QED
    BY <2>3, <2>4
<1> QED
  BY <1>7, <1>8, <1>9

\* The original is done: from now on only the copy counts.
LEMMA MoveEndsOnce ==
    ASSUME Inv, MoveEnds
    PROVE  OnceInv'
<1> USE DEF Inv, OnceInv
<1>1. /\ master.at = "moved" /\ master' = [master EXCEPT !.at = "fork"]
      /\ tickets' = [tickets EXCEPT ![0][master.job] = "done"]
      /\ UNCHANGED <<proc, printed, cut>>
  BY DEF MoveEnds
<1>2. master'.at = "fork"
  BY <1>1 DEF TypeInv, MasterWith
<1>3. 0 \in Queues /\ \A t \in Servers : t \in Queues /\ t # 0
  BY DEF Queues
<1>4. /\ \A t \in Servers : tickets'[t] = tickets[t]
      /\ \A i \in Jobs : tickets'[0][i] = IF i = master.job THEN "done" ELSE tickets[0][i]
  BY <1>1, <1>3 DEF TypeInv
<1>5. MoveInv'
  BY <1>2 DEF MoveInv
<1>6. PlaceInv'
  <2>1. \A i \in Whole, t \in Servers :
           tickets[0][i] \in {"ready", "held"} /\ tickets[t][i] # "none" => i = master.job
    BY DEF PlaceInv
  <2>2. \A i \in Whole, t \in Servers :
           ~(tickets'[0][i] \in {"ready", "held"} /\ tickets'[t][i] # "none")
    BY <1>4, <2>1 DEF Whole
  <2> QED
    BY <1>1, <1>4, <2>2 DEF PlaceInv, Whole
<1>7. PrintInv'
  BY <1>1, <1>4 DEF PrintInv, Prints, Whole
<1> QED
  BY <1>5, <1>6, <1>7


\* The holder of a server queue's lock starts a job that nobody printed.
LEMMA StartPrintOnce ==
    ASSUME Inv, NEW s \in Servers, NEW p \in Pids, StartPrint(s, p)
    PROVE  OnceInv'
<1> USE DEF Inv, OnceInv
<1> PICK j : j = Min(ToPrint(s, p))
  OBVIOUS
<1>1. /\ printed' = [printed EXCEPT ![j] = printed[j] + 1]
      /\ ToPrint(s, p) # {} /\ UNCHANGED <<tickets, master, cut>>
  BY DEF StartPrint
<1>2. j \in Jobs /\ tickets[s][j] = "ready"
  BY <1>1, ToPrintMin
<1>3. PICK y : /\ proc' = [proc EXCEPT ![s][p] = y] /\ y.at = "print" /\ y.job = j
               /\ proc[s][p].at = "serve"
  BY HolderShape
<1>4. /\ Prints(s, p, j)'
      /\ \A t \in Servers, q \in Pids : \A i : i # j => (Prints(t, q, i)' <=> Prints(t, q, i))
      /\ \A t \in Servers, q \in Pids : \A i :
            Prints(t, q, i)' => Prints(t, q, i) \/ (t = s /\ i = j)
  <2>1. TypeInv
    OBVIOUS
  <2>2. /\ proc'[s][p] = y
        /\ \A t \in Servers, q \in Pids : ~(t = s /\ q = p) => proc'[t][q] = proc[t][q]
    BY <1>3, <2>1 DEF TypeInv
  <2>3. Prints(s, p, j)' /\ \A i : i # j => ~Prints(s, p, i)'
    BY <1>3, <2>2 DEF Prints
  <2>4. \A i : ~Prints(s, p, i)
    BY <1>3 DEF Prints
  <2>5. \A t \in Servers, q \in Pids : \A i :
           ~(t = s /\ q = p) => (Prints(t, q, i)' <=> Prints(t, q, i))
    BY <2>2 DEF Prints
  <2> HIDE DEF Inv, OnceInv
  <2> QED
    BY <2>3, <2>4, <2>5
<1>5. \A q \in Pids : ~Prints(s, q, j)
  BY <1>3 DEF LockInv, Alive, Prints
<1>6. MoveInv' /\ PlaceInv'
  BY <1>1 DEF MoveInv, PlaceInv, Whole
<1>7. PrintInv'
  <2> SUFFICES ASSUME NEW i \in Whole'
               PROVE  /\ printed'[i] <= 1
                      /\ (\A t \in Servers : tickets'[t][i] = "none") => printed'[i] = 0
                      /\ \A t \in Servers :
                            /\ tickets'[t][i] = "ready" /\ (\A q \in Pids : ~Prints(t, q, i)')
                               => printed'[i] = 0
                            /\ \A q \in Pids : Prints(t, q, i)' => tickets'[t][i] = "ready"
    BY DEF PrintInv
  <2>1. i \in Whole /\ i \in Jobs
    BY <1>1 DEF Whole
  <2>2. CASE i = j
    <3>1. printed[j] = 0
      BY <1>2, <1>5, <2>1, <2>2 DEF PrintInv
    <3>2. printed'[i] = 1
      BY <1>1, <2>1, <2>2, <3>1 DEF TypeInv
    <3>3. \A t \in Servers : tickets[t][j] = "ready" => t = s
      BY <1>2, <2>1, <2>2 DEF PlaceInv
    <3>4. \A t \in Servers, q \in Pids : Prints(t, q, i)' => tickets[t][i] = "ready"
      BY <1>2, <1>4, <2>1, <2>2 DEF PrintInv
    <3>5. tickets' = tickets
      BY <1>1
    <3>6. printed'[i] <= 1
      BY <3>2
    <3>7. \A t \in Servers : tickets'[t][i] = "ready" => Prints(t, p, i)'
      BY <1>4, <2>2, <3>3, <3>5
    <3>8. tickets'[s][i] # "none"
      BY <1>2, <2>2, <3>5
    <3>9. \A t \in Servers, q \in Pids : Prints(t, q, i)' => tickets'[t][i] = "ready"
      BY <3>4, <3>5
    <3> HIDE DEF Inv, OnceInv
    <3> QED
      BY <3>6, <3>7, <3>8, <3>9
  <2>3. CASE i # j
    <3>1. printed'[i] = printed[i] /\ tickets' = tickets
      BY <1>1, <2>3 DEF TypeInv
    <3>2. \A t \in Servers, q \in Pids : Prints(t, q, i)' <=> Prints(t, q, i)
      BY <1>4, <2>3
    <3> QED
      BY <2>1, <3>1, <3>2 DEF PrintInv
  <2> QED
    BY <2>2, <2>3
<1> QED
  BY <1>6, <1>7

\* Its ticket says so when it is printed, and when it failed.
LEMMA EndPrintOnce ==
    ASSUME Inv, NEW s \in Servers, NEW p \in Pids, Printed(s, p) \/ Aborts(s, p)
    PROVE  OnceInv'
<1> USE DEF Inv, OnceInv
<1> DEFINE j == proc[s][p].job
<1>1. PICK v \in {"done", "failed"} : tickets' = [tickets EXCEPT ![s][j] = v]
  BY DEF Printed, Aborts
<1>2. UNCHANGED <<printed, master, cut>>
  BY DEF Printed, Aborts
<1>3. PICK y : /\ proc' = [proc EXCEPT ![s][p] = y]
               /\ y.at = "serve" /\ proc[s][p].at = "print"
  BY HolderShape
<1>4. Prints(s, p, j)
  BY <1>3 DEF Prints
<1>5. \A q \in Pids : \A i : Prints(s, q, i) => q = p /\ i = j
  BY <1>3 DEF LockInv, Alive, Prints
<1> HIDE DEF j
<1>6. \A t \in Servers, q \in Pids : \A i :
         Prints(t, q, i)' <=> Prints(t, q, i) /\ ~(t = s /\ q = p)
  <2>1. TypeInv
    OBVIOUS
  <2>2. /\ proc'[s][p] = y
        /\ \A t \in Servers, q \in Pids : ~(t = s /\ q = p) => proc'[t][q] = proc[t][q]
    BY <1>3, <2>1 DEF TypeInv
  <2> QED
    BY <1>3, <2>2 DEF Prints
<1>7. s \in Queues /\ s # 0 /\ 0 \in Queues /\ \A t \in Servers : t \in Queues
  BY DEF Queues
<1>8. /\ tickets'[0] = tickets[0]
      /\ \A t \in Servers, i \in Jobs : ~(t = s /\ i = j) => tickets'[t][i] = tickets[t][i]
      /\ j \in Jobs => tickets'[s][j] = v
  BY <1>1, <1>7 DEF TypeInv
<1>9. j \in Whole => tickets[s][j] = "ready"
  BY <1>4 DEF PrintInv
<1>10. \A t \in Servers, i \in Whole : tickets'[t][i] # "none" => tickets[t][i] # "none"
  BY <1>8, <1>9 DEF Whole
<1>11. MoveInv'
  BY <1>2, <1>8 DEF MoveInv
<1>12. PlaceInv'
  BY <1>2, <1>8, <1>10 DEF PlaceInv, Whole
<1>13. PrintInv'
  <2> SUFFICES ASSUME NEW i \in Whole'
               PROVE  /\ printed'[i] <= 1
                      /\ (\A t \in Servers : tickets'[t][i] = "none") => printed'[i] = 0
                      /\ \A t \in Servers :
                            /\ tickets'[t][i] = "ready" /\ (\A q \in Pids : ~Prints(t, q, i)')
                               => printed'[i] = 0
                            /\ \A q \in Pids : Prints(t, q, i)' => tickets'[t][i] = "ready"
    BY DEF PrintInv
  <2>1. i \in Whole /\ i \in Jobs /\ printed' = printed
    BY <1>2 DEF Whole
  <2>2. printed'[i] <= 1
    BY <2>1 DEF PrintInv
  <2>3. CASE i = j
    <3>1. tickets[s][j] = "ready" /\ tickets'[s][j] \in {"done", "failed"}
      BY <1>8, <1>9, <2>1, <2>3
    <3>2. \A t \in Servers : t # s => tickets[t][j] = "none"
      BY <2>1, <2>3, <3>1 DEF PlaceInv
    <3>3. \A t \in Servers : t # s => tickets'[t][j] = "none"
      BY <1>8, <2>1, <2>3, <3>2
    <3>4. \A t \in Servers, q \in Pids : ~Prints(t, q, i)'
      <4>1. ASSUME NEW t \in Servers, NEW q \in Pids, Prints(t, q, i)'
            PROVE  FALSE
        <5>1. Prints(t, q, i) /\ ~(t = s /\ q = p)
          BY <1>6, <4>1
        <5>2. tickets[t][i] = "ready"
          BY <2>1, <5>1 DEF PrintInv
        <5>3. t = s
          BY <2>3, <3>2, <5>2
        <5> QED
          BY <1>5, <5>1, <5>3
      <4> QED
        BY <4>1
    <3> QED
      BY <2>2, <2>3, <3>1, <3>3, <3>4
  <2>4. CASE i # j
    <3>1. \A t \in Servers : tickets'[t][i] = tickets[t][i]
      BY <1>8, <2>1, <2>4
    <3>2. \A t \in Servers, q \in Pids : Prints(t, q, i)' <=> Prints(t, q, i)
      BY <1>5, <1>6, <2>4
    <3> QED
      BY <2>1, <3>1, <3>2 DEF PrintInv
  <2> QED
    BY <2>3, <2>4
<1> QED
  BY <1>11, <1>12, <1>13

LEMMA OnceStep == Inv /\ [Next]_vars => OnceInv'
<1> SUFFICES ASSUME Inv, [Next]_vars PROVE OnceInv'
  OBVIOUS
<1>1. CASE UNCHANGED vars
  <2>1. MoveInv'
    BY <1>1 DEF vars, Inv, OnceInv, MoveInv
  <2>2. PlaceInv'
    BY <1>1 DEF vars, Inv, OnceInv, PlaceInv, Whole
  <2>3. PrintInv'
    <3>1. PrintInv
      BY DEF Inv, OnceInv
    <3>2. tickets' = tickets /\ proc' = proc /\ printed' = printed /\ Whole' = Whole
      BY <1>1 DEF vars, Whole
    <3>3. \A s \in Servers, p \in Pids, j \in Jobs : Prints(s, p, j)' <=> Prints(s, p, j)
      BY <3>2 DEF Prints
    <3>4. Whole \subseteq Jobs
      BY DEF Whole
    <3> HIDE DEF Whole
    <3> QED
      BY <3>1, <3>2, <3>3, <3>4 DEF PrintInv
  <2> QED
    BY <2>1, <2>2, <2>3 DEF OnceInv
<1>2. CASE MasterStep \/ CopyFails \/ MasterKilled
  BY <1>2, MasterQuiet, LookOnce, CopyOnce, MoveEndsOnce DEF MasterStep
<1>3. ASSUME NEW s \in Servers, NEW p \in Pids,
             SubStep(s, p) \/ Aborts(s, p) \/ SubKilled(s, p)
      PROVE  OnceInv'
  BY <1>3, ServerQuiet, StartPrintOnce, EndPrintOnce DEF SubStep
<1> QED
  BY <1>1, <1>2, <1>3, UserQuiet, StarterQuiet, ArriveOnce DEF Next

LEMMA InvStep == Inv /\ [Next]_vars => Inv'
BY TypeStep, LockStep, OnceStep DEF Inv

\* A job is printed once, by whichever server queue: unless a process was
\* killed while it moved or printed it (Do_queue_jobs, Move_job, Do_lock).
THEOREM JobsPrintOnce == Spec => []PrintedOnce
<1>1. Inv => PrintedOnce
  BY DEF Inv, OnceInv, PrintInv, PrintedOnce, Whole
<1> QED
  BY <1>1, InvInit, InvStep, PTL DEF Spec

-----------------------------------------------------------------------------
(* A set and its order, as a sequence.                                     *)

\* The pairs of B put the elements of S one behind the other.
Orders(B, S) ==
    /\ \A x \in S : <<x, x>> \notin B
    /\ \A x, y \in S : x # y => <<x, y>> \in B \/ <<y, x>> \in B
    /\ \A x, y, z \in S : <<x, y>> \in B /\ <<y, z>> \in B => <<x, z>> \in B

\* InOrder has every element once, and each behind those before it: how many come
\* before it is its place.
LEMMA InOrderShape ==
    ASSUME NEW S, IsFiniteSet(S), NEW B, Orders(B, S)
    PROVE  /\ Cardinality(S) \in Nat
           /\ DOMAIN InOrder(S, B) = 1..Cardinality(S)
           /\ \A n \in 1..Cardinality(S) : InOrder(S, B)[n] \in S
           /\ \A x \in S : \E n \in 1..Cardinality(S) : InOrder(S, B)[n] = x
           /\ \A m, n \in 1..Cardinality(S) :
                 m < n <=> <<InOrder(S, B)[m], InOrder(S, B)[n]>> \in B
<1> DEFINE c == Cardinality(S)
           before(x) == {k \in S : <<k, x>> \in B}
           place == [x \in S |-> Cardinality(before(x))]
           at == InOrder(S, B)
<1>1. c \in Nat
  BY FS_CardinalityType
<1>2. ASSUME NEW x \in S
      PROVE  IsFiniteSet(before(x)) /\ Cardinality(before(x)) \in 0..c - 1
  <2>1. before(x) \in SUBSET S /\ before(x) # S
    BY DEF Orders
  <2> HIDE DEF before
  <2>2. IsFiniteSet(before(x)) /\ Cardinality(before(x)) <= c /\ Cardinality(before(x)) # c
    BY <2>1, FS_Subset
  <2>3. Cardinality(before(x)) \in Nat
    BY <2>2, FS_CardinalityType
  <2> QED
    BY <1>1, <2>2, <2>3
<1>3. ASSUME NEW x \in S, NEW y \in S, <<x, y>> \in B
      PROVE  Cardinality(before(x)) < Cardinality(before(y))
  <2>1. before(x) \in SUBSET before(y) /\ before(x) # before(y)
    BY <1>3 DEF Orders
  <2> HIDE DEF before
  <2>2. /\ Cardinality(before(x)) <= Cardinality(before(y))
        /\ Cardinality(before(x)) # Cardinality(before(y))
    BY <1>2, <2>1, FS_Subset
  <2> QED
    BY <1>1, <1>2, <2>2
<1> HIDE DEF before, c
<1>4. place \in Injection(S, 0..c - 1)
  <2>1. place \in [S -> 0..c - 1]
    BY <1>2
  <2>2. ASSUME NEW x \in S, NEW y \in S, place[x] = place[y] PROVE x = y
    <3>1. Cardinality(before(x)) = Cardinality(before(y))
      BY <2>2
    <3>2. ~(<<x, y>> \in B) /\ ~(<<y, x>> \in B)
      BY <1>2, <1>3, <3>1
    <3> QED
      BY <3>2 DEF Orders
  <2> HIDE DEF place
  <2> QED
    BY <2>1, <2>2 DEF Injection, IsInjective
<1>5. ASSUME NEW m \in 0..c - 1 PROVE \E x \in S : Cardinality(before(x)) = m
  <2>1. IsFiniteSet(0..c - 1) /\ Cardinality(0..c - 1) = c
    BY <1>1, FS_Interval
  <2>2. place \in Surjection(S, 0..c - 1)
    BY <1>4, <2>1, FS_Injection DEF c
  <2>3. \E x \in S : place[x] = m
    BY <2>2 DEF Surjection
  <2> QED
    BY <2>3
<1>6. at = [n \in 1..c |-> CHOOSE x \in S : Cardinality(before(x)) = n - 1]
  BY DEF InOrder, before, c
<1> HIDE DEF at
<1>7. ASSUME NEW n \in 1..c PROVE at[n] \in S /\ Cardinality(before(at[n])) = n - 1
  <2>1. n - 1 \in 0..c - 1
    BY <1>1
  <2> QED
    BY <1>5, <1>6, <2>1
<1>8. ASSUME NEW x \in S PROVE \E n \in 1..c : at[n] = x
  <2> DEFINE n == Cardinality(before(x)) + 1
  <2>1. n \in 1..c /\ n - 1 = Cardinality(before(x))
    BY <1>1, <1>2
  <2> HIDE DEF n
  <2>2. at[n] \in S /\ Cardinality(before(at[n])) = Cardinality(before(x))
    BY <1>7, <2>1
  <2>3. ~(<<at[n], x>> \in B) /\ ~(<<x, at[n]>> \in B)
    BY <1>2, <1>3, <2>2
  <2>4. at[n] = x
    BY <2>2, <2>3 DEF Orders
  <2> QED
    BY <2>1, <2>4
<1>9. ASSUME NEW m \in 1..c, NEW n \in 1..c PROVE m < n <=> <<at[m], at[n]>> \in B
  <2>1. /\ at[m] \in S /\ Cardinality(before(at[m])) = m - 1
        /\ at[n] \in S /\ Cardinality(before(at[n])) = n - 1
    BY <1>7
  <2>2. ASSUME <<at[m], at[n]>> \in B PROVE m < n
    BY <1>1, <1>3, <2>1, <2>2
  <2>3. ASSUME m < n PROVE <<at[m], at[n]>> \in B
    <3>1. at[m] # at[n]
      BY <1>1, <2>1, <2>3
    <3>2. ~(<<at[n], at[m]>> \in B)
      <4> SUFFICES ASSUME <<at[n], at[m]>> \in B PROVE FALSE
        OBVIOUS
      <4>1. n - 1 < m - 1
        BY <1>3, <2>1
      <4> QED
        BY <1>1, <2>3, <4>1
    <3> QED
      BY <2>1, <3>1, <3>2 DEF Orders
  <2> QED
    BY <2>2, <2>3
<1> QED
  BY <1>1, <1>6, <1>7, <1>8, <1>9 DEF at, c

-----------------------------------------------------------------------------
(* The servers list: each server once, in the order of DONE_TIME.          *)

Server(e) ==
    [pr : Servers, server : {e.server}, change : {e.change}, stopped : {e.stopped},
     done : Nat, now : {e.now}]

Listing(l) ==
    /\ \E n \in Nat : DOMAIN l = 1..n
    /\ \A i \in DOMAIN l : l[i] \in Server(l[i])
    /\ \A i, k \in DOMAIN l : l[i].pr = l[k].pr => i = k

Sorted(l) == \A i, k \in DOMAIN l : i < k => l[i].done <= l[k].done

\* Both names are there, and a before b wherever they are.
Behind(names, a, b) ==
    /\ \E i \in DOMAIN names : names[i] = a
    /\ \E k \in DOMAIN names : names[k] = b
    /\ \A i, k \in DOMAIN names : names[i] = a /\ names[k] = b => i < k

\* The sort by DONE_TIME keeps the servers, and puts one behind those with an earlier
\* time and those with its own that were before it.
LEMMA ByDoneTimeShape ==
    ASSUME NEW l, Listing(l)
    PROVE  /\ Listing(ByDoneTime(l)) /\ Sorted(ByDoneTime(l))
           /\ \A i, k \in DOMAIN l : <<i, k>> \in Earlier(l) =>
                 Behind(ListOrder(ByDoneTime(l)), l[i].pr, l[k].pr)
<1> DEFINE S == DOMAIN l
           B == Earlier(l)
           at == InOrder(S, B)
           r == ByDoneTime(l)
<1>1. PICK c \in Nat : S = 1..c
  BY DEF Listing
<1>2. IsFiniteSet(S) /\ Cardinality(S) = c
  BY <1>1, FS_Interval
<1>3. \A i \in S : l[i].done \in Nat /\ l[i].pr \in Servers
  BY DEF Listing, Server
<1>4. \A i, k \in S : <<i, k>> \in B <=>
        l[i].done < l[k].done \/ (l[i].done = l[k].done /\ i < k)
  BY DEF Earlier
<1> HIDE DEF B, S
<1>5. Orders(B, S)
  <2>1. \A i \in S : i \in Nat
    BY <1>1
  <2>2. \A i \in S : <<i, i>> \notin B
    BY <1>3, <1>4, <2>1
  <2>3. \A i, k \in S : i # k => <<i, k>> \in B \/ <<k, i>> \in B
    BY <1>3, <1>4, <2>1
  <2>4. ASSUME NEW i \in S, NEW j \in S, NEW k \in S, <<i, j>> \in B, <<j, k>> \in B
        PROVE  <<i, k>> \in B
    BY <1>3, <1>4, <2>1, <2>4
  <2> QED
    BY <2>2, <2>3, <2>4 DEF Orders
<1>6. /\ \A n \in 1..c : at[n] \in S
      /\ \A x \in S : \E n \in 1..c : at[n] = x
      /\ \A m, n \in 1..c : m < n <=> <<at[m], at[n]>> \in B
  BY <1>2, <1>5, InOrderShape
<1>7. r = [n \in 1..c |-> [l[at[n]] EXCEPT !.done = Rank(l, at[n])]]
  BY <1>1 DEF ByDoneTime, S, B
<1> HIDE DEF at, r
<1>8. ASSUME NEW i \in S PROVE Rank(l, i) \in Nat
  <2> DEFINE T == {l[k].done : k \in DOMAIN l} \cap 0..(l[i].done - 1)
  <2>0. 0 \in Int /\ l[i].done - 1 \in Int
    BY <1>3
  <2>1. IsFiniteSet(0..(l[i].done - 1)) /\ T \in SUBSET (0..(l[i].done - 1))
    BY <2>0, FS_Interval
  <2> HIDE DEF T
  <2>2. Cardinality(T) \in Nat
    BY <2>1, FS_Subset, FS_CardinalityType
  <2> QED
    BY <2>2 DEF Rank, T
<1>9. ASSUME NEW i \in S, NEW k \in S, l[i].done <= l[k].done PROVE Rank(l, i) <= Rank(l, k)
  <2> DEFINE U == {l[j].done : j \in DOMAIN l}
             T(j) == U \cap 0..(l[j].done - 1)
  <2> HIDE DEF U
  <2>0. 0 \in Int /\ l[k].done - 1 \in Int
    BY <1>3
  <2>1. IsFiniteSet(0..(l[k].done - 1))
    BY <2>0, FS_Interval
  <2>2. T(k) \in SUBSET (0..(l[k].done - 1)) /\ T(i) \in SUBSET T(k)
    BY <1>3, <1>9
  <2> HIDE DEF T
  <2>3. IsFiniteSet(T(k))
    BY <2>1, <2>2, FS_Subset
  <2>4. Cardinality(T(i)) <= Cardinality(T(k))
    BY <2>2, <2>3, FS_Subset
  <2> QED
    BY <2>4 DEF Rank, T, U
<1>10. ASSUME NEW n \in 1..c
       PROVE  /\ r[n].pr = l[at[n]].pr /\ r[n].done = Rank(l, at[n])
              /\ r[n] \in Server(r[n])
  <2>1. at[n] \in S /\ l[at[n]] \in Server(l[at[n]])
    BY <1>6 DEF Listing, S
  <2> DEFINE v == Rank(l, at[n])
  <2>2. v \in Nat /\ r[n] = [l[at[n]] EXCEPT !.done = v]
    BY <1>7, <1>8, <2>1
  <2> HIDE DEF v
  <2> QED
    BY <2>1, <2>2 DEF Server, v
<1>11. \A i, k \in S : l[i].pr = l[k].pr => i = k
  BY DEF Listing, S
<1>12. ASSUME NEW m \in 1..c, NEW n \in 1..c, at[m] = at[n] PROVE m = n
  <2>1. <<at[n], at[n]>> \notin B
    BY <1>5, <1>6 DEF Orders
  <2>2. ~(m < n) /\ ~(n < m)
    BY <1>6, <1>12, <2>1
  <2> QED
    BY <2>2
<1>13. DOMAIN r = 1..c
  BY <1>7
<1>14. Listing(r)
  <2>1. ASSUME NEW m \in 1..c, NEW n \in 1..c, r[m].pr = r[n].pr PROVE m = n
    <3>1. l[at[m]].pr = l[at[n]].pr
      BY <1>10, <2>1
    <3>2. at[m] = at[n]
      BY <1>6, <1>11, <3>1
    <3> QED
      BY <1>12, <3>2
  <2> QED
    BY <1>10, <1>13, <2>1 DEF Listing
<1>15. Sorted(r)
  <2> SUFFICES ASSUME NEW m \in 1..c, NEW n \in 1..c, m < n PROVE r[m].done <= r[n].done
    BY <1>13 DEF Sorted
  <2>1. <<at[m], at[n]>> \in B /\ at[m] \in S /\ at[n] \in S
    BY <1>6
  <2>2. l[at[m]].done <= l[at[n]].done
    BY <1>3, <1>4, <2>1
  <2> QED
    BY <1>9, <1>10, <2>1, <2>2
<1>16. ASSUME NEW i \in S, NEW k \in S, <<i, k>> \in B
       PROVE  Behind(ListOrder(r), l[i].pr, l[k].pr)
  <2> DEFINE o == ListOrder(r)
  <2>1. DOMAIN o = 1..c /\ \A n \in 1..c : o[n] = l[at[n]].pr
    BY <1>10, <1>13 DEF ListOrder
  <2> HIDE DEF o
  <2>2. \A n \in 1..c : at[n] = i => o[n] = l[i].pr
    BY <2>1
  <2>3. \A n \in 1..c : at[n] = k => o[n] = l[k].pr
    BY <2>1
  <2>4. \A n \in 1..c : o[n] = l[i].pr => at[n] = i
    BY <1>6, <1>11, <2>1
  <2>5. \A n \in 1..c : o[n] = l[k].pr => at[n] = k
    BY <1>6, <1>11, <2>1
  <2>6. \A m, n \in 1..c : o[m] = l[i].pr /\ o[n] = l[k].pr => m < n
    BY <1>6, <1>16, <2>4, <2>5
  <2> QED
    BY <1>6, <2>1, <2>2, <2>3, <2>6 DEF Behind, o
<1> QED
  BY <1>14, <1>15, <1>16 DEF r, S, B

\* A sequence of server queues has each where it is first.
LEMMA FirstPlace ==
    ASSUME NEW names \in Seq(Servers), NEW i \in DOMAIN names
    PROVE  \E k \in Firsts(names) : k <= i /\ names[k] = names[i]
<1> DEFINE T == {k \in 1..i : names[k] = names[i]}
<1>1. DOMAIN names = 1..Len(names) /\ Len(names) \in Nat
  OBVIOUS
<1>2. T \subseteq Nat /\ i \in T
  BY <1>1
<1>3. Min(T) \in T /\ \A k \in T : Min(T) <= k
  BY <1>2, MinOfNats
<1>4. \A k \in 1..Min(T) - 1 : names[k] # names[Min(T)]
  BY <1>1, <1>3
<1> QED
  BY <1>1, <1>3, <1>4 DEF Firsts

\* The list of a starting master has every server queue once, numbered in the order
\* of the names where each is first.
LEMMA ListedShape ==
    ASSUME NEW names \in Seq(Servers)
    PROVE  /\ Listing(Listed(names)) /\ Sorted(Listed(names))
           /\ \A i, k \in Firsts(names) :
                 i < k => Behind(ListOrder(Listed(names)), names[i], names[k])
<1> DEFINE S == Firsts(names)
           B == {x \in S \X S : x[1] < x[2]}
           at == InOrder(S, B)
           c == Cardinality(S)
           l == Listed(names)
<1>1. S \subseteq 1..Len(names) /\ Len(names) \in Nat
  BY DEF Firsts
<1>2. IsFiniteSet(S)
  <2>1. IsFiniteSet(1..Len(names)) /\ S \in SUBSET (1..Len(names))
    BY <1>1, FS_Interval
  <2> HIDE DEF S
  <2> QED
    BY <2>1, FS_Subset
<1>3. ASSUME NEW i \in S, NEW k \in S, names[i] = names[k] PROVE i = k
  <2>1. i \in Nat /\ k \in Nat /\ i >= 1 /\ k >= 1
    BY <1>1
  <2>2. ~(i < k) /\ ~(k < i)
    BY <1>3, <2>1 DEF Firsts
  <2> QED
    BY <2>1, <2>2
<1>4. \A i \in S : i \in Nat /\ names[i] \in Servers
  BY <1>1
<1> HIDE DEF S
<1>5. \A i, k \in S : <<i, k>> \in B <=> i < k
  OBVIOUS
<1> HIDE DEF B
<1>6. Orders(B, S)
  <2>1. \A i \in S : <<i, i>> \notin B
    BY <1>4, <1>5
  <2>2. \A i, k \in S : i # k => <<i, k>> \in B \/ <<k, i>> \in B
    BY <1>4, <1>5
  <2>3. ASSUME NEW i \in S, NEW j \in S, NEW k \in S, <<i, j>> \in B, <<j, k>> \in B
        PROVE  <<i, k>> \in B
    BY <1>4, <1>5, <2>3
  <2> QED
    BY <2>1, <2>2, <2>3 DEF Orders
<1>7. /\ c \in Nat /\ DOMAIN at = 1..c
      /\ \A n \in 1..c : at[n] \in S
      /\ \A x \in S : \E n \in 1..c : at[n] = x
      /\ \A m, n \in 1..c : m < n <=> <<at[m], at[n]>> \in B
  BY <1>2, <1>6, InOrderShape
<1>8. l = [n \in 1..c |-> Entry(names[at[n]], n - 1)]
  BY <1>7 DEF Listed, S, B
<1> HIDE DEF at, l, c
<1>9. ASSUME NEW n \in 1..c
      PROVE  l[n].pr = names[at[n]] /\ l[n].done = n - 1 /\ l[n] \in Server(l[n])
  <2>1. n - 1 \in Nat /\ names[at[n]] \in Servers
    BY <1>4, <1>7
  <2>2. l[n] = Entry(names[at[n]], n - 1)
    BY <1>8
  <2> QED
    BY <2>1, <2>2 DEF Entry, Server
<1>10. DOMAIN l = 1..c
  BY <1>8
<1>11. ASSUME NEW m \in 1..c, NEW n \in 1..c, at[m] = at[n] PROVE m = n
  <2>1. <<at[n], at[n]>> \notin B
    BY <1>6, <1>7 DEF Orders
  <2>2. ~(m < n) /\ ~(n < m)
    BY <1>7, <1>11, <2>1
  <2> QED
    BY <2>2
<1>12. Listing(l)
  <2>1. ASSUME NEW m \in 1..c, NEW n \in 1..c, l[m].pr = l[n].pr PROVE m = n
    <3>1. names[at[m]] = names[at[n]]
      BY <1>9, <2>1
    <3>2. at[m] = at[n]
      BY <1>3, <1>7, <3>1
    <3> QED
      BY <1>11, <3>2
  <2> QED
    BY <1>7, <1>9, <1>10, <2>1 DEF Listing
<1>13. Sorted(l)
  BY <1>7, <1>9, <1>10 DEF Sorted
<1>14. ASSUME NEW i \in S, NEW k \in S, i < k PROVE Behind(ListOrder(l), names[i], names[k])
  <2> DEFINE o == ListOrder(l)
  <2>1. DOMAIN o = 1..c /\ \A n \in 1..c : o[n] = names[at[n]]
    BY <1>9, <1>10 DEF ListOrder
  <2> HIDE DEF o
  <2>2. \A n \in 1..c : o[n] = names[i] => at[n] = i
    BY <1>3, <1>7, <2>1
  <2>3. \A n \in 1..c : o[n] = names[k] => at[n] = k
    BY <1>3, <1>7, <2>1
  <2>4. <<i, k>> \in B
    BY <1>5, <1>14
  <2>5. \A m, n \in 1..c : o[m] = names[i] /\ o[n] = names[k] => m < n
    BY <1>7, <2>2, <2>3, <2>4
  <2>6. \E m \in 1..c : o[m] = names[i]
    BY <1>7, <2>1
  <2>7. \E n \in 1..c : o[n] = names[k]
    BY <1>7, <2>1
  <2> QED
    BY <2>1, <2>5, <2>6, <2>7 DEF Behind, o
<1> QED
  BY <1>12, <1>13, <1>14 DEF l, S

\* What the order that was read puts behind, the list of the new master puts behind.
LEMMA SavedOrderKept ==
    ASSUME NEW saved \in Seq(Servers)
    PROVE  /\ Listing(ServerInfo(saved)) /\ Sorted(ServerInfo(saved))
           /\ \A a, b : Behind(saved, a, b) => Behind(ListOrder(ServerInfo(saved)), a, b)
<1> DEFINE names == saved \o Server_names
<1>1. /\ names \in Seq(Servers) /\ DOMAIN saved = 1..Len(saved) /\ Len(saved) \in Nat
      /\ \A i \in DOMAIN saved : i \in DOMAIN names /\ names[i] = saved[i]
  OBVIOUS
<1>2. ServerInfo(saved) = Listed(names)
  BY DEF ServerInfo
<1> HIDE DEF names
<1>3. ASSUME NEW a, NEW b, Behind(saved, a, b)
      PROVE  Behind(ListOrder(Listed(names)), a, b)
  <2>1. PICK i \in DOMAIN saved, k \in DOMAIN saved : saved[i] = a /\ saved[k] = b
    BY <1>3 DEF Behind
  <2>2. PICK m \in Firsts(names) : m <= i /\ names[m] = a
    BY <1>1, <2>1, FirstPlace
  <2>3. PICK n \in Firsts(names) : n <= k /\ names[n] = b
    BY <1>1, <2>1, FirstPlace
  <2>4. m \in 1..Len(names) /\ n \in 1..Len(names)
    BY <1>1 DEF Firsts
  <2>5. m \in DOMAIN saved /\ n \in DOMAIN saved
    BY <1>1, <2>1, <2>2, <2>3, <2>4
  <2>6. saved[m] = a /\ saved[n] = b
    BY <1>1, <2>2, <2>3, <2>5
  <2>7. m < n
    BY <1>3, <2>5, <2>6 DEF Behind
  <2> QED
    BY <1>1, <2>2, <2>3, <2>7, ListedShape
<1> QED
  BY <1>1, <1>2, <1>3, ListedShape

-----------------------------------------------------------------------------
(* The servers in the order in which they became free.                     *)

\* While no master looks for work the saved order stands for the list.
Away(m) == m.at = "none"

Starter == [at : {"none", "start", "ready"}, order : Seq(Servers), change : BOOLEAN]

\* What was seen free in an earlier second stays ahead, in the list as in the
\* saved order.
OrderInv ==
    /\ order \in Seq(Servers)
    /\ starter \in [Starters -> Starter]
    /\ receiver \in [Jobs -> [to : Queues \cup {-1}, order : Seq(Servers)]]
    /\ Away(master) => \A x \in longer : Behind(order, x[1], x[2])
    /\ ~Away(master) =>
          /\ Listing(master.list) /\ Sorted(master.list)
          /\ \A x \in longer : Behind(ListOrder(master.list), x[1], x[2])

\* The server queues and times of a list and of what was made of it.
SameEntries(l, m) ==
    /\ DOMAIN m = DOMAIN l
    /\ \A i \in DOMAIN l : m[i].pr = l[i].pr /\ m[i].done = l[i].done /\ m[i] \in Server(m[i])

LEMMA SameEntriesShape ==
    ASSUME NEW l, NEW m, Listing(l), Sorted(l), SameEntries(l, m)
    PROVE  Listing(m) /\ Sorted(m) /\ ListOrder(m) = ListOrder(l)
<1>1. Listing(m) /\ Sorted(m)
  BY DEF SameEntries, Listing, Sorted
<1>2. ListOrder(m) = ListOrder(l)
  BY DEF SameEntries, ListOrder
<1> QED
  BY <1>1, <1>2

\* Reading the control files and starting processes leaves them.
LEMMA UpdatedShape ==
    ASSUME NEW l, Listing(l)
    PROVE  SameEntries(l, Updated(l))
<1>1. DOMAIN Updated(l) = DOMAIN l
  BY DEF Updated
<1>2. ASSUME NEW i \in DOMAIN l
      PROVE  /\ Updated(l)[i].pr = l[i].pr /\ Updated(l)[i].done = l[i].done
             /\ Updated(l)[i] \in Server(Updated(l)[i])
  <2> DEFINE c == control[l[i].pr].change
             d == control[l[i].pr].stopped
  <2>1. Updated(l)[i] = [l[i] EXCEPT !.change = c, !.stopped = d]
    BY <1>2 DEF Updated
  <2>2. l[i] \in Server(l[i])
    BY DEF Listing
  <2> HIDE DEF c, d
  <2> QED
    BY <2>1, <2>2 DEF Server
<1> QED
  BY <1>1, <1>2 DEF SameEntries

LEMMA KnownShape ==
    ASSUME NEW l, NEW which, Listing(l)
    PROVE  SameEntries(l, Known(l, which))
<1>1. DOMAIN Known(l, which) = DOMAIN l
  BY DEF Known
<1>2. ASSUME NEW i \in DOMAIN l
      PROVE  /\ Known(l, which)[i].pr = l[i].pr /\ Known(l, which)[i].done = l[i].done
             /\ Known(l, which)[i] \in Server(Known(l, which)[i])
  <2> DEFINE p == IF l[i].pr \in which THEN Spare(l[i].pr) ELSE l[i].server
  <2>1. Known(l, which)[i] = [l[i] EXCEPT !.server = p, !.change = FALSE]
    BY <1>2 DEF Known
  <2>2. l[i] \in Server(l[i])
    BY DEF Listing
  <2> HIDE DEF p
  <2> QED
    BY <2>1, <2>2 DEF Server
<1> QED
  BY <1>1, <1>2 DEF SameEntries

\* A step that leaves the order and the list, or empties the history, or finds a
\* master, which will save its own.
LEMMA OrderQuiet ==
    ASSUME OrderInv, longer' \subseteq longer,
           order' = order \/ (order' \in Seq(Servers) /\ (longer' = {} \/ ~Away(master'))),
           starter' \in [Starters -> Starter],
           receiver' \in [Jobs -> [to : Queues \cup {-1}, order : Seq(Servers)]],
           \/ Away(master) /\ Away(master')
           \/ ~Away(master) /\ ~Away(master') /\ SameEntries(master.list, master'.list)
    PROVE  OrderInv'
<1>1. order' \in Seq(Servers)
  BY DEF OrderInv
<1>2. CASE Away(master) /\ Away(master')
  BY <1>1, <1>2 DEF OrderInv
<1>3. CASE ~Away(master) /\ ~Away(master') /\ SameEntries(master.list, master'.list)
  <2>1. /\ Listing(master'.list) /\ Sorted(master'.list)
        /\ ListOrder(master'.list) = ListOrder(master.list)
    BY <1>3, SameEntriesShape DEF OrderInv
  <2> HIDE DEF Away
  <2> QED
    BY <1>1, <1>3, <2>1 DEF OrderInv
<1> QED
  BY <1>2, <1>3

LEMMA SameList == OrderInv /\ ~Away(master) => SameEntries(master.list, master.list)
BY DEF OrderInv, SameEntries, Listing

\* A signal to the master leaves its list.
LEMMA WokenOrder ==
    ASSUME TypeInv, OrderInv, master' = Woken
    PROVE  \/ Away(master) /\ Away(master')
           \/ ~Away(master) /\ ~Away(master') /\ SameEntries(master.list, master'.list)
BY WokenShape, SameList DEF Away

\* A process that is started has read nothing yet.
LEMMA RequestOrder ==
    ASSUME starter \in [Starters -> Starter], Request
    PROVE  starter' \in [Starters -> Starter]
<1> DEFINE x == [NoStarter EXCEPT !.at = "start"]
<1>1. <<>> \in Seq(Servers)
  OBVIOUS
<1>2. NoStarter \in Starter
  BY <1>1 DEF NoStarter, Starter
<1> HIDE DEF NoStarter
<1>3. x \in Starter
  BY <1>2 DEF Starter
<1>4. PICK n \in Starters : starter' = [starter EXCEPT ![n] = x]
  BY DEF Request
<1> HIDE DEF x
<1> QED
  BY <1>3, <1>4

\* A receiver that writes an old SERVER_ORDER back undoes what was seen.
LEMMA UserOrder ==
    ASSUME TypeInv, OrderInv,
           \/ \E q \in Queues, j \in Jobs : Arrive(q, j)
           \/ \E j \in Jobs : Announce(j)
           \/ \E s \in Servers : LpcSets(s)
           \/ Poll
    PROVE  OrderInv'
<1> DEFINE R == [to : Queues \cup {-1}, order : Seq(Servers)]
<1>0. /\ order \in Seq(Servers) /\ receiver \in [Jobs -> R]
      /\ starter \in [Starters -> Starter]
  BY DEF OrderInv
<1>1. ASSUME NEW q \in Queues, NEW j \in Jobs, Arrive(q, j) PROVE OrderInv'
  <2>1. /\ receiver' = [receiver EXCEPT ![j] = [to |-> q, order |-> order]]
        /\ UNCHANGED <<starter, master, order, longer>>
    BY <1>1 DEF Arrive
  <2>2. receiver' \in [Jobs -> R]
    BY <1>0, <2>1
  <2> QED
    BY <1>0, <2>1, <2>2, SameList, OrderQuiet
<1>2. ASSUME NEW j \in Jobs, Announce(j) PROVE OrderInv'
  <2>1. /\ order' = IF receiver[j].to = 0 THEN receiver[j].order ELSE order
        /\ longer' = IF order' = order \/ master.at # "none" THEN longer ELSE {}
        /\ receiver' = [receiver EXCEPT ![j] = Idle]
        /\ Request /\ master' = master
    BY <1>2 DEF Announce
  <2>2. Idle \in R
    BY DEF Idle
  <2>3. receiver' \in [Jobs -> R] /\ order' \in Seq(Servers)
    BY <1>0, <2>1, <2>2
  <2>4. starter' \in [Starters -> Starter]
    BY <1>0, <2>1, RequestOrder
  <2>5. order' = order \/ longer' = {} \/ ~Away(master')
    BY <2>1 DEF Away
  <2> QED
    BY <2>1, <2>3, <2>4, <2>5, SameList, OrderQuiet
<1>3. ASSUME NEW s \in Servers, LpcSets(s) PROVE OrderInv'
  <2>1. /\ master' = Woken /\ UNCHANGED <<order, receiver, longer>>
        /\ Request \/ UNCHANGED starter
    BY <1>3 DEF LpcSets
  <2>2. starter' \in [Starters -> Starter]
    BY <1>0, <2>1, RequestOrder
  <2> QED
    BY <1>0, <2>1, <2>2, WokenOrder, OrderQuiet
<1>4. CASE Poll
  <2>1. Request /\ UNCHANGED <<order, receiver, master, longer>>
    BY <1>4 DEF Poll
  <2>2. starter' \in [Starters -> Starter]
    BY <1>0, <2>1, RequestOrder
  <2> QED
    BY <1>0, <2>1, <2>2, SameList, OrderQuiet
<1> QED
  BY <1>1, <1>2, <1>3, <1>4

\* A process that becomes the master goes by the order it read: if that is no more
\* the saved one, what was seen is lost.
LEMMA StarterOrder ==
    ASSUME TypeInv, OrderInv, NEW n \in Starters, StarterStep(n)
    PROVE  OrderInv'
<1>0. /\ order \in Seq(Servers) /\ starter \in [Starters -> Starter]
      /\ starter[n] \in Starter /\ starter[n].order \in Seq(Servers)
      /\ changed \in BOOLEAN
  BY DEF OrderInv, TypeInv, Starter
<1>1. receiver' \in [Jobs -> [to : Queues \cup {-1}, order : Seq(Servers)]]
  <2>1. receiver' = receiver
    BY DEF StarterStep, SetUp, SignalMaster, Begin
  <2> QED
    BY <2>1 DEF OrderInv
<1>2. starter' \in [Starters -> Starter]
  <2>1. NoStarter \in Starter
    BY DEF NoStarter, Starter
  <2>2. [at |-> "ready", order |-> order, change |-> changed] \in Starter
    BY <1>0 DEF Starter
  <2>3. \E v \in Starter : starter' = [starter EXCEPT ![n] = v]
    BY <2>1, <2>2 DEF StarterStep, SetUp, SignalMaster, Begin
  <2> QED
    BY <1>0, <2>3
<1>3. CASE SetUp(n)
  <2>1. UNCHANGED <<order, master, longer>>
    BY <1>3 DEF SetUp
  <2> QED
    BY <1>1, <1>2, <2>1, SameList, OrderQuiet
<1>4. CASE SignalMaster(n)
  <2>1. master' = Woken /\ UNCHANGED <<order, longer>>
    BY <1>4 DEF SignalMaster
  <2> QED
    BY <1>1, <1>2, <2>1, WokenOrder, OrderQuiet
<1>5. CASE Begin(n)
  <2> DEFINE read == starter[n].order
             info == ServerInfo(read)
             back == starter[n].change
  <2>1. /\ \E which, c : master' = [NoMaster EXCEPT !.at = "loop", !.sort = InQueue(0),
                                       !.list = Known(info, which), !.change = c]
        /\ longer' = IF read = order THEN longer ELSE {}
        /\ order' = IF back THEN read ELSE order
        /\ Away(master)
    BY <1>5 DEF Begin, Away
  <2>2. PICK which, c : master' = [NoMaster EXCEPT !.at = "loop", !.sort = InQueue(0),
                                       !.list = Known(info, which), !.change = c]
    BY <2>1
  <2>3. master'.at = "loop" /\ master'.list = Known(info, which)
    BY <2>2 DEF NoMaster
  <2>4. /\ Listing(info) /\ Sorted(info)
        /\ \A x \in longer' : Behind(ListOrder(info), x[1], x[2])
    BY <1>0, <2>1, SavedOrderKept DEF OrderInv
  <2>5. order' \in Seq(Servers)
    BY <1>0, <2>1
  <2> HIDE DEF info, read, back
  <2>6. /\ Listing(master'.list) /\ Sorted(master'.list)
        /\ ListOrder(master'.list) = ListOrder(info)
    BY <2>3, <2>4, KnownShape, SameEntriesShape
  <2>7. ~Away(master')
    BY <2>3 DEF Away
  <2> QED
    BY <1>1, <1>2, <2>4, <2>5, <2>6, <2>7 DEF OrderInv
<1> QED
  BY <1>3, <1>4, <1>5 DEF StarterStep

LEMMA ProcessOrder ==
    ASSUME OrderInv, NEW s \in Servers, NEW p \in Pids,
           SubStep(s, p) \/ Aborts(s, p) \/ SubKilled(s, p)
    PROVE  OrderInv'
<1>1. UNCHANGED <<order, starter, receiver, master, longer>>
  BY DEF SubStep, TakeLock, Takes, LockTaken, SubRescan, StartPrint, Printed,
     SubLeaves, Aborts, SubKilled
<1>2. /\ receiver' \in [Jobs -> [to : Queues \cup {-1}, order : Seq(Servers)]]
      /\ starter' \in [Starters -> Starter]
  BY <1>1 DEF OrderInv
<1> QED
  BY <1>1, <1>2, SameList, OrderQuiet

\* A server whose process is collected is free last, and behind all that were free in
\* an earlier second.
LEMMA ReapOrder ==
    ASSUME TypeInv, OrderInv, NEW i \in 1..Len(Server_names), NEW same \in BOOLEAN, Reap(i, same)
    PROVE  OrderInv'
<1> DEFINE l == master.list
           last == Max({l[k].done : k \in DOMAIN l})
           t == IF same THEN last ELSE last + 1
           after == Finished(l, i, same)
           s == l[i].pr
           sorted == ByDoneTime(after)
<1>1. /\ i \in DOMAIN l /\ master.at = "wait"
      /\ master' = [master EXCEPT !.list = sorted, !.reaped = TRUE]
      /\ order' = order /\ receiver' = receiver /\ starter' = starter
      /\ longer' = IF conf.chooser THEN {} ELSE
                       {x \in longer : s \notin {x[1], x[2]}}
                       \union {<<e.pr, s>> : e \in {e \in ToSet(after) : e.done < after[i].done}}
  BY DEF Reap
<1>2. /\ Listing(l) /\ Sorted(l)
      /\ \A x \in longer : Behind(ListOrder(l), x[1], x[2])
      /\ order \in Seq(Servers) /\ starter \in [Starters -> Starter]
      /\ receiver \in [Jobs -> [to : Queues \cup {-1}, order : Seq(Servers)]]
  BY <1>1 DEF OrderInv, Away
<1>3. master'.list = sorted /\ master'.at = "wait"
  <2>1. master \in MasterWith(l)
    BY DEF TypeInv
  <2> HIDE DEF sorted
  <2> QED
    BY <1>1, <2>1 DEF MasterWith
<1> HIDE DEF l
<1>4. after = [l EXCEPT ![i].server = 0, ![i].now = TRUE, ![i].done = t]
  BY DEF Finished
<1>5. last \in Nat /\ \A k \in DOMAIN l : l[k].done <= last
  <2>1. PICK n \in Nat : DOMAIN l = 1..n
    BY <1>2 DEF Listing
  <2> DEFINE D == {l[k].done : k \in DOMAIN l}
  <2>2. \A k \in DOMAIN l : l[k].done \in Nat
    BY <1>2 DEF Listing, Server
  <2>3. n \in DOMAIN l
    BY <1>1, <2>1
  <2>4. ASSUME NEW k \in DOMAIN l PROVE l[k].done <= l[n].done
    BY <1>2, <2>1, <2>2, <2>3, <2>4 DEF Sorted
  <2>5. \E x \in D : \A y \in D : x >= y
    BY <2>2, <2>3, <2>4
  <2> HIDE DEF D
  <2>6. Max(D) \in D /\ \A y \in D : Max(D) >= y
    BY <2>5 DEF Max
  <2> QED
    BY <2>2, <2>6 DEF D
<1>6. t \in Nat /\ \A k \in DOMAIN l : l[k].done <= t
  <2>1. \A k \in DOMAIN l : l[k].done \in Nat
    BY <1>2 DEF Listing, Server
  <2> HIDE DEF last
  <2> QED
    BY <1>5, <2>1
<1> HIDE DEF last, t, after
<1>7. /\ DOMAIN after = DOMAIN l
      /\ \A k \in DOMAIN l : k # i => after[k] = l[k]
      /\ after[i] = [l[i] EXCEPT !.server = 0, !.now = TRUE, !.done = t]
  BY <1>1, <1>4
<1>8. after[i].pr = s /\ after[i].done = t /\ after[i] \in Server(after[i])
  <2>1. l[i] \in Server(l[i])
    BY <1>1, <1>2 DEF Listing
  <2> QED
    BY <1>6, <1>7, <2>1 DEF Server
<1>9. \A k \in DOMAIN l : after[k].pr = l[k].pr
  BY <1>7, <1>8
<1>10. Listing(after)
  <2>1. \A k \in DOMAIN l : after[k] \in Server(after[k])
    BY <1>2, <1>7, <1>8 DEF Listing
  <2> QED
    BY <1>2, <1>7, <1>9, <2>1 DEF Listing
<1>11. /\ Listing(sorted) /\ Sorted(sorted)
       /\ \A j, k \in DOMAIN l : <<j, k>> \in Earlier(after) =>
             Behind(ListOrder(sorted), l[j].pr, l[k].pr)
  BY <1>7, <1>9, <1>10, ByDoneTimeShape
<1> HIDE DEF sorted
<1>12. ASSUME NEW j \in DOMAIN l, NEW k \in DOMAIN l, l[j].pr # s, l[k].pr # s, j < k
       PROVE  <<j, k>> \in Earlier(after)
  <2>1. after[j] = l[j] /\ after[k] = l[k]
    BY <1>7, <1>12
  <2>2. l[j].done <= l[k].done /\ l[j].done \in Nat /\ l[k].done \in Nat
    BY <1>2, <1>12 DEF Sorted, Listing, Server
  <2> QED
    BY <1>7, <1>12, <2>1, <2>2 DEF Earlier
<1>13. ASSUME NEW x \in longer, s \notin {x[1], x[2]}
       PROVE  Behind(ListOrder(sorted), x[1], x[2])
  <2>1. Behind(ListOrder(l), x[1], x[2])
    BY <1>2
  <2>2. PICK j \in DOMAIN l, k \in DOMAIN l : l[j].pr = x[1] /\ l[k].pr = x[2]
    BY <2>1 DEF Behind, ListOrder
  <2>3. j < k
    BY <2>1, <2>2 DEF Behind, ListOrder
  <2> QED
    BY <1>11, <1>12, <1>13, <2>2, <2>3
<1>14. ASSUME NEW e \in ToSet(after), e.done < after[i].done
       PROVE  Behind(ListOrder(sorted), e.pr, s)
  <2>1. PICK k \in DOMAIN l : e = after[k]
    BY <1>7 DEF ToSet
  <2>2. <<k, i>> \in Earlier(after)
    BY <1>1, <1>7, <1>14, <2>1 DEF Earlier
  <2> QED
    BY <1>1, <1>9, <1>11, <2>1, <2>2
<1>15. \A x \in longer' : Behind(ListOrder(sorted), x[1], x[2])
  <2> SUFFICES ASSUME NEW x \in longer', ~conf.chooser
               PROVE  Behind(ListOrder(sorted), x[1], x[2])
    BY <1>1
  <2>1. CASE x \in longer /\ s \notin {x[1], x[2]}
    BY <1>13, <2>1
  <2>2. CASE \E e \in ToSet(after) : e.done < after[i].done /\ x = <<e.pr, s>>
    BY <1>14, <2>2
  <2> QED
    BY <1>1, <2>1, <2>2
<1> QED
  BY <1>1, <1>2, <1>3, <1>11, <1>15 DEF OrderInv, Away

LEMMA MasterOrder ==
    ASSUME TypeInv, OrderInv, MasterStep \/ CopyFails \/ MasterKilled
    PROVE  OrderInv'
<1> DEFINE R == [to : Queues \cup {-1}, order : Seq(Servers)]
<1>0. /\ order \in Seq(Servers) /\ receiver \in [Jobs -> R]
      /\ starter \in [Starters -> Starter] /\ master \in MasterWith(master.list)
  BY DEF OrderInv, TypeInv
<1>1. starter' = starter
  BY DEF MasterStep, Rescan, Look, Copy, MoveEnds, ForkSubserver, Reap, WaitEnds,
     CopyFails, MasterKilled
<1>2. CASE Rescan
  <2> DEFINE u == Updated(master.list)
  <2>1. PICK which : master' = [master EXCEPT !.susr1 = FALSE, !.sort = InQueue(0),
                                              !.list = Known(u, which), !.change = changed]
    BY <1>2 DEF Rescan
  <2>2. ~Away(master) /\ master.at = "loop" /\ UNCHANGED <<order, receiver, longer>>
    BY <1>2 DEF Rescan, Away
  <2>3. /\ Listing(u) /\ Sorted(u) /\ SameEntries(master.list, u)
    BY <2>2, UpdatedShape, SameEntriesShape DEF OrderInv
  <2> HIDE DEF u
  <2>4. SameEntries(u, Known(u, which))
    BY <2>3, KnownShape
  <2>5. SameEntries(master.list, Known(u, which))
    BY <2>3, <2>4 DEF SameEntries
  <2>6. master'.list = Known(u, which) /\ master'.at = "loop"
    BY <1>0, <1>1, <2>1, <2>2 DEF MasterWith
  <2> QED
    BY <1>0, <1>1, <2>2, <2>5, <2>6, OrderQuiet DEF Away
<1>3. CASE Look
  <2>1. ~Away(master) /\ receiver' = receiver /\ longer' = longer
    BY <1>3 DEF Look, Away
  <2>2. PICK a \in Decisions : Assign(a) \/ Leave(a) \/ StartWaiting(a)
    BY <1>3 DEF Look
  <2>3. CASE Leave(a)
    <3>1. order' = ListOrder(master.list) /\ master'.at = "none"
      BY <2>3 DEF Leave, SavedOrder, NoMaster
    <3>2. PICK n \in Nat : DOMAIN master.list = 1..n
      BY <2>1 DEF OrderInv, Listing
    <3>3. \A k \in 1..n : master.list[k].pr \in Servers
      BY <2>1, <3>2 DEF OrderInv, Listing, Server
    <3>4. order' \in Seq(Servers)
      BY <3>1, <3>2, <3>3 DEF ListOrder
    <3> QED
      BY <1>0, <1>1, <2>1, <3>1, <3>4 DEF OrderInv, Away
  <2>4. CASE Assign(a) \/ StartWaiting(a)
    <3>1. order' = order
      BY <2>4 DEF Assign, StartWaiting
    <3>2. master'.list = master.list /\ master'.at \in {"move", "wait"}
      BY <1>0, <1>1, <2>4 DEF Assign, StartWaiting, MasterWith
    <3> QED
      BY <1>0, <1>1, <2>1, <3>1, <3>2, SameList, OrderQuiet DEF Away
  <2> QED
    BY <2>2, <2>3, <2>4
<1>4. CASE Copy \/ MoveEnds \/ CopyFails \/ WaitEnds
  <2>1. ~Away(master) /\ UNCHANGED <<order, receiver, longer>>
    BY <1>4 DEF Copy, MoveEnds, CopyFails, WaitEnds, Away
  <2>2. master'.list = master.list /\ master'.at \in {"moved", "fork", "loop"}
    BY <1>0, <1>4 DEF Copy, MoveEnds, CopyFails, WaitEnds, MasterWith
  <2> QED
    BY <1>0, <1>1, <2>1, <2>2, SameList, OrderQuiet DEF Away
<1>5. CASE ForkSubserver
  <2> DEFINE l == master.list
             m == [k \in DOMAIN l |-> IF l[k].pr = master.to
                                      THEN [l[k] EXCEPT !.server = Spare(master.to)] ELSE l[k]]
  <2>1. /\ master' = [master EXCEPT !.at = "loop", !.job = 0, !.to = 0, !.list = m]
        /\ ~Away(master) /\ UNCHANGED <<order, receiver, longer>>
    BY <1>5 DEF ForkSubserver, Away
  <2>2. Listing(l)
    BY <2>1 DEF OrderInv
  <2>3. ASSUME NEW k \in DOMAIN l
        PROVE  m[k].pr = l[k].pr /\ m[k].done = l[k].done /\ m[k] \in Server(m[k])
    <3> DEFINE p == Spare(master.to)
    <3>1. l[k] \in Server(l[k])
      BY <2>2 DEF Listing
    <3>2. m[k] = l[k] \/ m[k] = [l[k] EXCEPT !.server = p]
      OBVIOUS
    <3> HIDE DEF m, p, l
    <3> QED
      BY <3>1, <3>2 DEF Server
  <2>4. SameEntries(l, m)
    BY <2>3 DEF SameEntries
  <2> HIDE DEF m
  <2>5. master'.list = m /\ master'.at = "loop"
    BY <1>0, <1>1, <2>1 DEF MasterWith
  <2> QED
    BY <1>0, <1>1, <2>1, <2>4, <2>5, OrderQuiet DEF Away
<1>6. CASE MasterKilled
  <2>1. order' = order /\ receiver' = receiver /\ longer' = {} /\ master'.at = "none"
    BY <1>6 DEF MasterKilled, NoMaster
  <2> QED
    BY <1>0, <1>1, <2>1 DEF OrderInv, Away
<1> QED
  BY <1>2, <1>3, <1>4, <1>5, <1>6, ReapOrder DEF MasterStep

LEMMA OrderStep == TypeInv /\ OrderInv /\ [Next]_vars => OrderInv'
<1> SUFFICES ASSUME TypeInv, OrderInv, [Next]_vars PROVE OrderInv'
  OBVIOUS
<1>1. CASE UNCHANGED vars
  BY <1>1 DEF vars, OrderInv, Away
<1> QED
  BY <1>1, UserOrder, StarterOrder, MasterOrder, ProcessOrder DEF Next

LEMMA OrderInit == Init => OrderInv
<1> SUFFICES ASSUME Init PROVE OrderInv
  OBVIOUS
<1>1. Idle \in [to : Queues \cup {-1}, order : Seq(Servers)]
  BY DEF Idle
<1>2. NoStarter \in Starter
  BY DEF NoStarter, Starter
<1> QED
  BY <1>1, <1>2 DEF Init, OrderInv, Away, NoMaster

\* A job goes to the first usable server of the list.
LEMMA FirstUsable ==
    ASSUME TypeInv, OrderInv, [Next]_vars,
           master.at = "loop", master'.at = "move", ~conf.chooser,
           NEW s \in UsableNames(master'.job)
    PROVE  <<s, master'.to>> \notin longer
<1>0. master \in MasterWith(master.list)
  BY DEF TypeInv
<1>1. Look
  <2>1. CASE UNCHANGED vars
    BY <2>1 DEF vars
  <2>2. CASE \E q \in Queues, j \in Jobs : Arrive(q, j)
    BY <2>2 DEF Arrive
  <2>3. CASE \/ \E j \in Jobs : Announce(j)
             \/ \E r \in Servers : LpcSets(r)
             \/ Poll
    <3>1. master' = master \/ master' = Woken
      BY <2>3 DEF Announce, LpcSets, Poll
    <3> QED
      BY <3>1, WokenShape
  <2>6. CASE \E n \in Starters : StarterStep(n)
    BY <2>6, StarterShape
  <2>4. CASE MasterStep \/ CopyFails \/ MasterKilled
    BY <2>4, MasterShape
  <2>5. ASSUME NEW r \in Servers, NEW p \in Pids,
               SubStep(r, p) \/ Aborts(r, p) \/ SubKilled(r, p)
        PROVE  FALSE
    BY <2>5 DEF SubStep, TakeLock, Takes, LockTaken, SubRescan, StartPrint, Printed,
       SubLeaves, Aborts, SubKilled
  <2> QED
    BY <2>1, <2>2, <2>3, <2>4, <2>5, <2>6 DEF Next
<1>2. PICK a \in Decisions : Assign(a) \/ Leave(a) \/ StartWaiting(a)
  BY <1>1 DEF Look
<1>3. Assign(a)
  <2>1. ~Leave(a)
    BY DEF Leave, NoMaster
  <2>2. ~StartWaiting(a)
    BY <1>0 DEF StartWaiting, MasterWith
  <2> QED
    BY <1>2, <2>1, <2>2
<1>4. PICK j \in LookedAt(a) : /\ a[j] \in Servers
                               /\ master' = [master EXCEPT !.at = "move", !.job = j, !.to = a[j]]
  BY <1>3 DEF Assign, Found
<1>5. master'.job = j /\ master'.to = a[j]
  BY <1>0, <1>4 DEF MasterWith
<1> DEFINE U == UsableFor(j)
           l == master.list
<1>6. a[j] = IF U = {} THEN NoAnswer ELSE l[Min(U)].pr
  BY <1>4 DEF Decisions, LookedAt
<1>7. Listing(l) /\ \A x \in longer : Behind(ListOrder(l), x[1], x[2])
  BY DEF OrderInv, Away
<1>8. U \subseteq DOMAIN l /\ DOMAIN l \subseteq Nat
  BY <1>7 DEF UsableFor, Listing
<1>9. PICK k \in U : s = l[k].pr
  BY <1>5 DEF UsableNames
<1> HIDE DEF U, l
<1>10. Min(U) \in U /\ Min(U) <= k
  BY <1>8, <1>9, MinOfNats
<1>11. a[j] = l[Min(U)].pr
  BY <1>6, <1>9
<1>12. ASSUME Behind(ListOrder(l), s, a[j]) PROVE FALSE
  <2>1. k < Min(U)
    BY <1>8, <1>9, <1>10, <1>11, <1>12 DEF Behind, ListOrder
  <2> QED
    BY <1>8, <1>9, <1>10, <2>1
<1> QED
  BY <1>5, <1>7, <1>12

\* Without a chooser a job goes to the usable server that has been free longest, as
\* far as the masters of this queue saw it end (Mergesort by DONE_TIME, SERVER_ORDER,
\* Get_subserver_info). What they saw is forgotten when a receiver or a new master goes
\* by a control file that was read before the last master saved its order.
THEOREM FreeLongestGetsJob == Spec => LongestFreeFirst
<1>1. TypeInv /\ OrderInv /\ [Next]_vars =>
        [ master.at = "loop" /\ master'.at = "move" /\ ~conf.chooser =>
            \A s \in UsableNames(master'.job) : <<s, master'.to>> \notin longer ]_vars
  BY FirstUsable
<1> QED
  BY <1>1, TypeInit, TypeStep, OrderInit, OrderStep, PTL DEF Spec, LongestFreeFirst

=============================================================================

--------------------------- MODULE QueueWorkProofs ---------------------------
(***************************************************************************)
(* Two parts of the work on a queue: the settings a server decides with    *)
(* (QueueControl), for any number of lpc processes, jobs and commands, and *)
(* the printing of a job by a worker and its filters (PrintJob), for any   *)
(* number of files, copies, attempts and failures.  The two share nothing. *)
(*                                                                         *)
(* The invariant of PrintJob is stated for a configuration c that is the   *)
(* value of cfg throughout, so that the items of the job are a set no step *)
(* changes.  It says, of each place the worker can be at, which items are  *)
(* out (OutInv), what its filters do and what is in the pipe of the OF     *)
(* filter (ProcInv), what the worker knows there (PlaceInv), and where a   *)
(* failure that has happened is noted as long as the status is open        *)
(* (StatusInv).                                                            *)
(***************************************************************************)
EXTENDS QueueControl, PrintJob, SequenceTheorems, TLAPS

-----------------------------------------------------------------------------
(* QueueControl: type correctness.                                         *)

\* A server without a worker.
LEMMA NoWorkTyped == NoWork \in [job : Jobs \cup {None}, phase : Phase]
  BY DEF NoWork, Phase

\* The empty queue and the processes that have not started have their types.
LEMMA InitTypeOK == Init => TypeOK
<1> SUFFICES ASSUME Init PROVE TypeOK
  OBVIOUS
<1>1. IdleLpc \in LpcState
  BY DEF IdleLpc, LpcState, LpcStep, Command
<1>2. [at |-> "new", mem |-> {}] \in [at : RcvStep, mem : SUBSET Flags]
  BY DEF RcvStep
<1> QED
  BY <1>1, <1>2, NoWorkTyped DEF Init, TypeOK, Location

\* What an lpc command leaves of a copy of the settings is a copy of them.
LEMMA EditedFlags ==
  ASSUME NEW c \in Command, NEW m \in SUBSET Flags
  PROVE  Edited(c, m) \in SUBSET Flags
<1>1. Sets(c) \in SUBSET Flags
  BY DEF Sets, Flags
<1> QED
  BY <1>1 DEF Edited

\* The record of an lpc process after its step and its settings changed ...
LEMMA LpcStateKept ==
  ASSUME NEW r \in LpcState, NEW a \in LpcStep, NEW m \in SUBSET Flags
  PROVE  [r EXCEPT !.at = a, !.mem = m] \in LpcState
  BY DEF LpcState

\* ... or after its step changed and it looked for the server.
LEMMA LpcStateSeen ==
  ASSUME NEW r \in LpcState, NEW a \in LpcStep, NEW b \in BOOLEAN
  PROVE  [r EXCEPT !.at = a, !.seen = b] \in LpcState
  BY DEF LpcState

\* Every step of a receiver, an lpc, lpd, the server or its worker keeps them.
LEMMA NextTypeOK == TypeOK /\ [Next]_vars => TypeOK'
<1> SUFFICES ASSUME TypeOK, [Next]_vars PROVE TypeOK'
  OBVIOUS
<1> USE DEF TypeOK, spoolVars, lpdVars, serverVars, Goto, Location
<1>1. ASSUME NEW j \in Jobs, Accept(j) \/ ReceiverStep(j) PROVE TypeOK'
  <2> USE DEF RcvStep
  <2>1. CASE Accept(j)        BY <2>1 DEF Accept
  <2>2. CASE Spool(j)         BY <2>2 DEF Spool
  <2>3. CASE LoadSettings(j)  BY <2>3 DEF LoadSettings
  <2>4. CASE StoreChange(j)   BY <2>4 DEF StoreChange, Flags
  <2>5. CASE RequestServer(j) BY <2>5 DEF RequestServer, AskForServer
  <2> QED
    BY <1>1, <2>1, <2>2, <2>3, <2>4, <2>5 DEF ReceiverStep
<1>2. ASSUME NEW l \in Lpcs, LpcLoad(l) \/ LpcWork(l) PROVE TypeOK'
  <2>1. CASE LpcLoad(l)
    BY <2>1, CommandsAssumption DEF LpcLoad, LpcState, LpcStep
  <2>2. CASE LpcEdit(l)
    <3>1. Edited(lpc[l].cmd, lpc[l].mem) \in SUBSET Flags
      BY EditedFlags DEF LpcState
    <3>2. held' \subseteq Jobs
      BY <2>2 DEF LpcEdit
    <3>3. lpc' \in [Lpcs -> LpcState]
      <4> DEFINE m == Edited(lpc[l].cmd, lpc[l].mem)
      <4>1. lpc' = [lpc EXCEPT ![l] =
                      [lpc[l] EXCEPT !.at = "edited", !.mem = m]]
        BY <2>2 DEF LpcEdit
      <4>2. m \in SUBSET Flags
        BY <3>1
      <4> HIDE DEF m
      <4>3. lpc[l] \in LpcState /\ "edited" \in LpcStep
        BY DEF LpcStep
      <4>4. [lpc[l] EXCEPT !.at = "edited", !.mem = m] \in LpcState
        BY <4>2, <4>3, LpcStateKept
      <4> QED
        BY <4>1, <4>4
    <3> QED
      BY <2>2, <3>2, <3>3 DEF LpcEdit
  <2>3. CASE LpcStore(l)
    <3>1. lpc' \in [Lpcs -> LpcState]
      BY <2>3, LpcStateKept DEF LpcStore, LpcStep
    <3> QED
      BY <2>3, <3>1 DEF LpcStore, LpcState
  <2>4. CASE LpcSignal(l)
    <3>1. lpc' \in [Lpcs -> LpcState]
      BY <2>4, LpcStateSeen DEF LpcSignal, LpcStep
    <3> QED
      BY <2>4, <3>1, NoWorkTyped DEF LpcSignal, Exit
  <2>5. CASE LpcRequest(l)
    <3>1. IdleLpc \in LpcState
      BY DEF IdleLpc, LpcState, LpcStep, Command
    <3>2. lpc' \in [Lpcs -> LpcState]
      BY <2>5, <3>1 DEF LpcRequest
    <3>3. request' \in BOOLEAN /\ started' \in BOOLEAN
      BY <2>5 DEF LpcRequest, AskForServer
    <3> QED
      BY <2>5, <3>2, <3>3 DEF LpcRequest, AskForServer
  <2> QED
    BY <1>2, <2>1, <2>2, <2>3, <2>4, <2>5 DEF LpcWork
<1>3. CASE Poll          BY <1>3 DEF Poll
<1>4. CASE StartServer   BY <1>4 DEF StartServer
<1>5. CASE SignalServer  BY <1>5 DEF SignalServer
<1>6. CASE ServerStep
  <2> USE DEF Phase
  <2>1. CASE Lock         BY <2>1 DEF Lock
  <2>2. CASE WritePid     BY <2>2 DEF WritePid
  <2>3. CASE ReadInfo     BY <2>3 DEF ReadInfo
  <2>4. CASE WriteBack    BY <2>4 DEF WriteBack
  <2>5. CASE Scan         BY <2>5 DEF Scan
  <2>6. CASE Main         BY <2>6 DEF Main
  <2>7. CASE Rescan       BY <2>7 DEF Rescan
  <2>8. CASE UpdateInfo   BY <2>8 DEF UpdateInfo
  <2>9. CASE PickJob      BY <2>9 DEF PickJob, Choice
  <2>10. CASE PickWait    BY <2>10 DEF PickWait
  <2>11. CASE PickNothing BY <2>11 DEF PickNothing
  <2>12. CASE WaitReap
    <3>1. control' \in SUBSET Flags
      BY <2>12 DEF WaitReap, Flags
    <3>2. worker' \in [job : Jobs \cup {None}, phase : Phase]
      BY <2>12 DEF WaitReap, NoWork
    <3> QED
      BY <2>12, <3>1, <3>2 DEF WaitReap
  <2>13. CASE WakeUp      BY <2>13 DEF WakeUp
  <2>14. CASE Truncate    BY <2>14 DEF Truncate
  <2>15. CASE Linger      BY <2>15, NoWorkTyped DEF Linger, Exit
  <2> QED
    BY <1>6, <2>1, <2>2, <2>3, <2>4, <2>5, <2>6, <2>7, <2>8, <2>9, <2>10,
       <2>11, <2>12, <2>13, <2>14, <2>15 DEF ServerStep
<1>7. CASE WorkerExit    BY <1>7 DEF WorkerExit, Phase
<1>8. CASE UNCHANGED vars BY <1>8 DEF vars
<1> QED
  BY <1>1, <1>2, <1>3, <1>4, <1>5, <1>6, <1>7, <1>8 DEF Next

\* The control file, its copies and the processes always have their types.
THEOREM SettingsTypeCorrect == Spec => []TypeOK
  BY InitTypeOK, NextTypeOK, PTL DEF Spec

-----------------------------------------------------------------------------
(* Stale copies.  That the lock file names the server is what lets an lpc, *)
(* or a process that lpd starts, reach it with a signal.                   *)

LockFileNamesServer == lockPid = "server" <=> pc \in Named

SettingsInv == LockFileNamesServer /\ StaleSettingsSignalled

\* There is no server yet.
LEMMA InitSettingsInv == Init => SettingsInv
  BY DEF Init, SettingsInv, LockFileNamesServer, StaleSettingsSignalled,
         Named, Location

\* A step that announces a signal, whatever it wrote to the control file.
LEMMA AnnouncingStep ==
  ASSUME SettingsInv, SignalComing', UNCHANGED <<pc, lockPid>>
  PROVE  SettingsInv'
  BY DEF SettingsInv, LockFileNamesServer, StaleSettingsSignalled, Named

\* A step that leaves the settings, their copies and the signals on their way
\* as they are and goes on within the part where the pid is in the file.
LEMMA QuietStep ==
  ASSUME SettingsInv, pc \in Named \ {"info"}, pc' \in Named,
         UNCHANGED <<control, mem, sp, sig, lockPid>>,
         SignalComing => SignalComing'
  PROVE  SettingsInv'
  BY DEF SettingsInv, LockFileNamesServer, StaleSettingsSignalled,
         MayPrint, Named

\* A step that leaves everything the invariant is about as it is.
LEMMA OtherStep ==
  ASSUME SettingsInv, UNCHANGED <<control, mem, sp, sig, lockPid, pc>>,
         SignalComing => SignalComing'
  PROVE  SettingsInv'
  BY DEF SettingsInv, LockFileNamesServer, StaleSettingsSignalled,
         MayPrint, Named

\* Of the receivers, each announces its signal with the write that may need it.
LEMMA ReceiverKeeps ==
  ASSUME TypeOK, SettingsInv, NEW j \in Jobs, Accept(j) \/ ReceiverStep(j)
  PROVE  SettingsInv'
<1> USE DEF TypeOK, spoolVars, lpdVars, serverVars, SignalComing
<1>1. CASE Accept(j)
  BY <1>1, OtherStep DEF Accept
<1>2. CASE Spool(j)
  BY <1>2, OtherStep DEF Spool
<1>3. CASE LoadSettings(j)
  BY <1>3, OtherStep DEF LoadSettings
<1>4. CASE StoreChange(j)
  <2>1. rcv'[j].at = "stored"
    BY <1>4 DEF StoreChange
  <2>2. SignalComing' /\ UNCHANGED <<pc, lockPid>>
    BY <1>4, <2>1 DEF StoreChange
  <2> QED
    BY <2>2, AnnouncingStep
<1>5. CASE RequestServer(j)
  BY <1>5, AnnouncingStep DEF RequestServer, AskForServer
<1> QED
  BY <1>1, <1>2, <1>3, <1>4, <1>5 DEF ReceiverStep

\* An lpc's write is followed by its signal, which finds the server or stops it.
LEMMA LpcKeeps ==
  ASSUME TypeOK, SettingsInv, NEW l \in Lpcs, LpcLoad(l) \/ LpcWork(l)
  PROVE  SettingsInv'
<1> USE DEF TypeOK, spoolVars, lpdVars, serverVars, SignalComing
<1>1. CASE LpcLoad(l)
  BY <1>1, OtherStep DEF LpcLoad
<1>2. CASE LpcEdit(l)
  BY <1>2, OtherStep DEF LpcEdit
<1>3. CASE LpcStore(l)
  <2>1. lpc'[l].at = "stored"
    BY <1>3 DEF LpcStore
  <2>2. SignalComing' /\ UNCHANGED <<pc, lockPid>>
    BY <1>3, <2>1 DEF LpcStore
  <2> QED
    BY <2>2, AnnouncingStep
<1>4. CASE LpcSignal(l)
  BY <1>4 DEF LpcSignal, Exit, Goto, SettingsInv, LockFileNamesServer,
              StaleSettingsSignalled, Named
<1>5. CASE LpcRequest(l)
  BY <1>5, OtherStep DEF LpcRequest, AskForServer
<1> QED
  BY <1>1, <1>2, <1>3, <1>4, <1>5 DEF LpcWork

\* The server copies the file where no signal could be lost: after its pid is
\* in the lock file, and after it has cleared Susr1.
LEMMA ServerKeeps ==
  ASSUME TypeOK, SettingsInv, ServerStep
  PROVE  SettingsInv'
<1> USE DEF spoolVars, lpdVars, serverVars, SignalComing, Goto, Named, Location
<1>1. CASE Lock
  BY <1>1 DEF Lock, SettingsInv, LockFileNamesServer, StaleSettingsSignalled
<1>2. CASE WritePid
  BY <1>2 DEF WritePid, SettingsInv, LockFileNamesServer,
              StaleSettingsSignalled
<1>3. CASE ReadInfo
  BY <1>3 DEF ReadInfo, SettingsInv, LockFileNamesServer,
              StaleSettingsSignalled, MayPrint, Permits
<1>4. CASE WriteBack
  BY <1>4 DEF WriteBack, SettingsInv, LockFileNamesServer,
              StaleSettingsSignalled, MayPrint, Permits
<1>5. CASE Scan
  BY <1>5, QuietStep DEF Scan
<1>6. CASE Main
  BY <1>6, QuietStep DEF Main
<1>7. CASE Rescan
  BY <1>7 DEF Rescan, SettingsInv, LockFileNamesServer,
              StaleSettingsSignalled, MayPrint
<1>8. CASE UpdateInfo
  BY <1>8 DEF UpdateInfo, SettingsInv, LockFileNamesServer,
              StaleSettingsSignalled, MayPrint, Permits
<1>9. CASE PickJob
  BY <1>9, QuietStep DEF PickJob
<1>10. CASE PickWait
  BY <1>10, QuietStep DEF PickWait
<1>11. CASE PickNothing
  BY <1>11, QuietStep DEF PickNothing
<1>12. CASE WaitReap
  BY <1>12 DEF WaitReap, SettingsInv, LockFileNamesServer,
               StaleSettingsSignalled, MayPrint
<1>13. CASE WakeUp
  BY <1>13, QuietStep DEF WakeUp
<1>14. CASE Truncate
  BY <1>14 DEF Truncate, SettingsInv, LockFileNamesServer,
               StaleSettingsSignalled
<1>15. CASE Linger
  BY <1>15 DEF Linger, Exit, SettingsInv, LockFileNamesServer,
               StaleSettingsSignalled
<1> QED
  BY <1>1, <1>2, <1>3, <1>4, <1>5, <1>6, <1>7, <1>8, <1>9, <1>10, <1>11,
     <1>12, <1>13, <1>14, <1>15 DEF ServerStep

\* No step loses the signal for a copy that has become stale.
LEMMA NextSettingsInv == TypeOK /\ SettingsInv /\ [Next]_vars => SettingsInv'
<1> SUFFICES ASSUME TypeOK, SettingsInv, [Next]_vars PROVE SettingsInv'
  OBVIOUS
<1> USE DEF spoolVars, lpdVars, serverVars, SignalComing
<1>1. CASE Poll
  BY <1>1, OtherStep DEF Poll
<1>2. CASE StartServer
  BY <1>2 DEF StartServer, Goto, Named, Location, SettingsInv,
              LockFileNamesServer, StaleSettingsSignalled
<1>3. CASE SignalServer
  BY <1>3 DEF SignalServer, SettingsInv, LockFileNamesServer,
              StaleSettingsSignalled
<1>4. CASE WorkerExit
  BY <1>4, OtherStep DEF WorkerExit
<1>5. CASE UNCHANGED vars
  BY <1>5, OtherStep DEF vars
<1> QED
  BY <1>1, <1>2, <1>3, <1>4, <1>5, ReceiverKeeps, LpcKeeps, ServerKeeps
  DEF Next

\* A server that would print by copies that are out of date has been signalled
\* or will be, however the writers of the control file interleave.
THEOREM StaleCopiesSignalled == Spec => []StaleSettingsSignalled
<1>1. SettingsInv => StaleSettingsSignalled
  BY DEF SettingsInv
<1> QED
  BY <1>1, InitTypeOK, NextTypeOK, InitSettingsInv, NextSettingsInv, PTL
  DEF Spec

-----------------------------------------------------------------------------
(* The items of a job, for a configuration c: Wanted without the variable. *)

Configs == [out : Outputs, of : {"none", "end", "suspend"}, if : BOOLEAN,
            ends : BOOLEAN, sep : BOOLEAN]

Count(c) == Files * (IF c.out = "filter" THEN 1 ELSE Copies)
Last(c) == Sep(Count(c) + 1)
Whole(c) ==
    {Half(k, h) : k \in 1 .. Count(c), h \in 1 .. 2}
    \cup (IF c.out # "filter" /\ c.ends THEN {Leader, Last(c)} ELSE {})
    \cup (IF c.out # "filter" /\ c.sep THEN {Sep(k) : k \in 2 .. Count(c)} ELSE {})

\* What comes before x, and what comes up to x.
Below(c, x) == {i \in Whole(c) : Before(i, x)}
Upto(c, x) == Below(c, x) \cup ({x} \cap Whole(c))

\* The number of pieces is a number.
LEMMA CountNat == \A c \in Configs : Count(c) \in Nat
BY SizeAssumption DEF Count

\* The items of the configuration a queue has.
LEMMA CountIs ==
  ASSUME NEW c \in Configs, cfg = c
  PROVE  Pieces = Count(c) /\ Trailer = Last(c) /\ Wanted = Whole(c)
<1>1. Pieces = Count(c)
  BY DEF Pieces, PerFile, Count
<1>2. Trailer = Last(c)
  BY <1>1 DEF Trailer, Last, Sep
<1> QED
  BY <1>1, <1>2 DEF Wanted, Whole

\* An item, by its coordinates.
LEMMA ItemShape ==
  ASSUME NEW c \in Configs, NEW i
  PROVE  i \in Whole(c) <=>
         \/ \E k \in 1 .. Count(c), h \in 1 .. 2 : i = <<k, h>>
         \/ c.out # "filter" /\ c.ends /\ (i = <<0, 0>> \/ i = <<Count(c) + 1, 0>>)
         \/ c.out # "filter" /\ c.sep /\ \E k \in 2 .. Count(c) : i = <<k, 0>>
BY DEF Whole, Half, Leader, Last, Sep

\* What its coordinates say of an item.
LEMMA ItemPair ==
  ASSUME NEW c \in Configs, NEW i \in Whole(c)
  PROVE  /\ i[1] \in 0 .. Count(c) + 1 /\ i[2] \in 0 .. 2
         /\ i = <<i[1], i[2]>>
         /\ i[2] # 0 => i[1] \in 1 .. Count(c)
         /\ i[2] = 0 /\ i[1] \in 1 .. Count(c) => c.out # "filter" /\ c.sep /\ i[1] # 1
         /\ i[1] = 0 => i[2] = 0 /\ c.out # "filter" /\ c.ends
         /\ i[1] = Count(c) + 1 => i[2] = 0 /\ c.out # "filter" /\ c.ends
<1> Count(c) \in Nat
  BY CountNat
<1> QED
  BY ItemShape

\* What is an item.
LEMMA Members ==
  ASSUME NEW c \in Configs
  PROVE  /\ \A k \in 1 .. Count(c), h \in 1 .. 2 : Half(k, h) \in Whole(c)
         /\ Leader \in Whole(c) <=> c.out # "filter" /\ c.ends
         /\ Last(c) \in Whole(c) <=> c.out # "filter" /\ c.ends
         /\ \A k \in 2 .. Count(c) : Sep(k) \in Whole(c) <=> c.out # "filter" /\ c.sep
         /\ Stop \notin Whole(c)
<1> Count(c) \in Nat
  BY CountNat
<1> USE DEF Half, Leader, Last, Sep, Stop
<1>1. \A k \in 1 .. Count(c), h \in 1 .. 2 : Half(k, h) \in Whole(c)
  BY ItemShape
<1>2. Leader \in Whole(c) <=> c.out # "filter" /\ c.ends
  BY ItemShape
<1>3. Last(c) \in Whole(c) <=> c.out # "filter" /\ c.ends
  BY ItemShape
<1>4. \A k \in 2 .. Count(c) : Sep(k) \in Whole(c) <=> c.out # "filter" /\ c.sep
  BY ItemShape
<1>5. Stop \notin Whole(c)
  BY ItemShape
<1> QED
  BY <1>1, <1>2, <1>3, <1>4, <1>5

-----------------------------------------------------------------------------
(* What comes before an item.                                              *)

\* Before() compares coordinates.
LEMMA BeforePair ==
  ASSUME NEW a, NEW k, NEW h
  PROVE  Before(a, <<k, h>>) <=> a[1] < k \/ (a[1] = k /\ a[2] < h)
BY DEF Before

\* Nothing comes before the first item, and nothing before the leader.
LEMMA BelowLeader ==
  ASSUME NEW c \in Configs
  PROVE  Below(c, Leader) = {} /\ Upto(c, Leader) = Below(c, Sep(1))
<1> Count(c) \in Nat
  BY CountNat
<1>1. ASSUME NEW i \in Whole(c) PROVE ~Before(i, Leader)
  BY ItemPair, BeforePair DEF Leader
<1>2. ASSUME NEW i \in Whole(c) PROVE Before(i, Sep(1)) <=> i = Leader
  BY ItemPair, BeforePair DEF Leader, Sep
<1> QED
  BY <1>1, <1>2 DEF Below, Upto

\* From the end of a file to the first half of the next, by way of what
\* separates them.
LEMMA BelowSep ==
  ASSUME NEW c \in Configs, NEW k \in 1 .. Count(c)
  PROVE  /\ Upto(c, Sep(k)) = Below(c, Half(k, 1))
         /\ ~(c.out # "filter" /\ c.sep /\ k > 1) => Below(c, Sep(k)) = Below(c, Half(k, 1))
<1> Count(c) \in Nat
  BY CountNat
<1>1. ASSUME NEW i \in Whole(c)
      PROVE  Before(i, Half(k, 1)) <=> Before(i, Sep(k)) \/ i = Sep(k)
  BY ItemPair, BeforePair DEF Half, Sep
<1>2. ASSUME ~(c.out # "filter" /\ c.sep /\ k > 1) PROVE Sep(k) \notin Whole(c)
  <2> SUFFICES ASSUME Sep(k) \in Whole(c) PROVE FALSE
    OBVIOUS
  <2>1. Sep(k)[1] = k /\ Sep(k)[2] = 0
    BY DEF Sep
  <2> QED
    BY <1>2, <2>1, ItemPair
<1> QED
  BY <1>1, <1>2 DEF Below, Upto

\* The halves of a file.
LEMMA BelowHalf ==
  ASSUME NEW c \in Configs, NEW k \in 1 .. Count(c)
  PROVE  /\ Below(c, Half(k, 1)) \cup {Half(k, 1)} = Below(c, Half(k, 2))
         /\ Below(c, Half(k, 2)) \cup {Half(k, 2)} = Below(c, Half(k, 3))
         /\ Below(c, Half(k, 3)) = Below(c, Sep(k + 1))
<1> Count(c) \in Nat
  BY CountNat
<1>1. ASSUME NEW i \in Whole(c)
      PROVE  /\ Before(i, Half(k, 2)) <=> Before(i, Half(k, 1)) \/ i = Half(k, 1)
             /\ Before(i, Half(k, 3)) <=> Before(i, Half(k, 2)) \/ i = Half(k, 2)
             /\ Before(i, Half(k, 3)) <=> Before(i, Sep(k + 1))
  BY ItemPair, BeforePair DEF Half, Sep
<1>2. Half(k, 1) \in Whole(c) /\ Half(k, 2) \in Whole(c)
  BY Members
<1> QED
  BY <1>1, <1>2 DEF Below

\* The trailer comes after everything.
LEMMA BelowLast ==
  ASSUME NEW c \in Configs
  PROVE  /\ Upto(c, Last(c)) = Whole(c)
         /\ c.out = "filter" => Below(c, Last(c)) = Whole(c)
<1> Count(c) \in Nat
  BY CountNat
<1>1. ASSUME NEW i \in Whole(c) PROVE Before(i, Last(c)) \/ i = Last(c)
  BY ItemPair, BeforePair DEF Last, Sep
<1>2. c.out = "filter" => Last(c) \notin Whole(c)
  BY Members
<1> QED
  BY <1>1, <1>2 DEF Below, Upto

\* The trailer comes before nothing.
LEMMA LastNotBelow ==
  ASSUME NEW c \in Configs
  PROVE  /\ \A k \in 1 .. Count(c) + 1 : Last(c) \notin Below(c, Sep(k))
         /\ \A k \in 1 .. Count(c), h \in 1 .. 3 : Last(c) \notin Below(c, Half(k, h))
         /\ Last(c) \notin Below(c, Leader)
<1> Count(c) \in Nat
  BY CountNat
<1> QED
  BY BeforePair DEF Below, Last, Sep, Half, Leader

\* An item is not one of those before it; the trailer is none of the others.
LEMMA ItemNotBelow ==
  ASSUME NEW c \in Configs
  PROVE  /\ \A x \in Whole(c) : x \notin Below(c, x)
         /\ Leader # Last(c)
         /\ \A k \in 1 .. Count(c) : Sep(k) # Last(c)
         /\ \A k \in 1 .. Count(c), h \in 1 .. 2 : Half(k, h) # Last(c)
<1> Count(c) \in Nat
  BY CountNat
<1>1. ASSUME NEW x \in Whole(c) PROVE x \notin Below(c, x)
  BY ItemPair DEF Below, Before
<1> QED
  BY <1>1 DEF Last, Sep, Half, Leader

-----------------------------------------------------------------------------
(* The output, as the items in it and as a sequence.                       *)

Items(s) == {s[n] : n \in 1 .. Len(s)}

\* OutputInOrder for a configuration and an output.
Ordered(c, s) ==
    \A n \in 1 .. Len(s) :
        IF s[n] = Last(c) THEN n = Len(s)
        ELSE {s[m] : m \in 1 .. n - 1} = Below(c, s[n])

\* Nothing is in order.
LEMMA NothingOrdered ==
  ASSUME NEW c \in Configs
  PROVE  Items(<<>>) = {} /\ Ordered(c, <<>>)
BY DEF Items, Ordered

\* One more item joins the items.
LEMMA ItemsAppend ==
  ASSUME NEW S, NEW s \in Seq(S), NEW x \in S
  PROVE  Append(s, x) \in Seq(S) /\ Items(Append(s, x)) = Items(s) \cup {x}
<1> Append(s, x) \in Seq(S) /\ Len(Append(s, x)) = Len(s) + 1
  OBVIOUS
<1>1. \A n \in 1 .. Len(s) : Append(s, x)[n] = s[n]
  OBVIOUS
<1>2. Append(s, x)[Len(s) + 1] = x
  OBVIOUS
<1>3. Len(s) \in Nat
  OBVIOUS
<1> HIDE DEF Items
<1>4. \A n \in 1 .. Len(s) + 1 : n \in 1 .. Len(s) \/ n = Len(s) + 1
  BY <1>3
<1>5. Items(Append(s, x)) \subseteq Items(s) \cup {x}
  BY <1>1, <1>2, <1>3, <1>4 DEF Items
<1>6. Items(s) \cup {x} \subseteq Items(Append(s, x))
  BY <1>1, <1>2, <1>3 DEF Items
<1> QED
  BY <1>5, <1>6

\* The order is kept by the item whose predecessors are out, and by the
\* trailer whatever is out.
LEMMA OrderedAppend ==
  ASSUME NEW c \in Configs, NEW s \in Seq(Whole(c)), NEW x \in Whole(c),
         Ordered(c, s), Last(c) \notin Items(s),
         x = Last(c) \/ Items(s) = Below(c, x)
  PROVE  Ordered(c, Append(s, x))
<1> DEFINE t == Append(s, x)
<1>1. Len(t) = Len(s) + 1 /\ Len(s) \in Nat
  OBVIOUS
<1>2. \A n \in 1 .. Len(s) : t[n] = s[n]
  OBVIOUS
<1>3. t[Len(s) + 1] = x
  OBVIOUS
<1> HIDE DEF t
<1> SUFFICES ASSUME NEW n \in 1 .. Len(s) + 1
             PROVE  IF t[n] = Last(c) THEN n = Len(s) + 1
                    ELSE {t[m] : m \in 1 .. n - 1} = Below(c, t[n])
  BY <1>1 DEF Ordered, t
<1>4. CASE n \in 1 .. Len(s)
  <2>1. s[n] # Last(c)
    BY <1>4 DEF Items
  <2>2. {s[m] : m \in 1 .. n - 1} = Below(c, s[n])
    BY <1>4, <2>1 DEF Ordered
  <2>3. {t[m] : m \in 1 .. n - 1} = {s[m] : m \in 1 .. n - 1}
    <3>1. \A m \in 1 .. n - 1 : m \in 1 .. Len(s)
      BY <1>1, <1>4
    <3> QED
      BY <1>2, <3>1
  <2> QED
    BY <1>2, <1>4, <2>1, <2>2, <2>3
<1>5. CASE n = Len(s) + 1
  <2>1. {t[m] : m \in 1 .. n - 1} = Items(s)
    <3>1. n - 1 = Len(s)
      BY <1>1, <1>5
    <3> QED
      BY <1>2, <3>1 DEF Items
  <2> QED
    BY <1>3, <1>5, <2>1
<1> QED
  BY <1>1, <1>4, <1>5

\* Two items, one after the other.
LEMMA TwoJoined == ASSUME NEW S, NEW a \in S, NEW b \in S
  PROVE  <<a>> \o <<b>> = <<a, b>>
<1> DEFINE t == <<a>> \o <<b>>
           u == <<a, b>>
<1>1. t \in Seq(S) /\ Len(t) = 2 /\ t[1] = a /\ t[2] = b
  OBVIOUS
<1>2. u \in Seq(S) /\ Len(u) = 2 /\ u[1] = a /\ u[2] = b
  OBVIOUS
<1> HIDE DEF t, u
<1>3. \A i \in 1 .. Len(t) : t[i] = u[i]
  <2> SUFFICES ASSUME NEW i \in 1 .. 2 PROVE t[i] = u[i]
    BY <1>1
  <2>1. i = 1 \/ i = 2
    OBVIOUS
  <2> QED
    BY <1>1, <1>2, <2>1
<1>4. t = u
  BY <1>1, <1>2, <1>3, SeqEqual
<1> QED
  BY <1>4 DEF t, u

\* What is left of two items after the first.
LEMMA SecondOfTwo == ASSUME NEW S, NEW a \in S, NEW b \in S
  PROVE  SubSeq(<<a, b>>, 2, 2) = <<b>>
<1> DEFINE t == SubSeq(<<a, b>>, 2, 2)
           u == <<b>>
<1>1. t \in Seq(S) /\ Len(t) = 1 /\ t[1] = b
  OBVIOUS
<1>2. u \in Seq(S) /\ Len(u) = 1 /\ u[1] = b
  OBVIOUS
<1> HIDE DEF t, u
<1>3. \A i \in 1 .. Len(t) : t[i] = u[i]
  <2> SUFFICES ASSUME NEW i \in 1 .. 1 PROVE t[i] = u[i]
    BY <1>1
  <2>1. i = 1
    OBVIOUS
  <2> QED
    BY <1>1, <1>2, <2>1
<1>4. t = u
  BY <1>1, <1>2, <1>3, SeqEqual
<1> QED
  BY <1>4 DEF t, u

\* Two items behind an output.
LEMMA TwoAppended ==
  ASSUME NEW S, NEW s \in Seq(S), NEW a \in S, NEW b \in S
  PROVE  s \o <<a, b>> = Append(Append(s, a), b)
<1> DEFINE t == s \o <<a, b>>
           u == Append(Append(s, a), b)
<1> Len(s) \in Nat
  OBVIOUS
<1>1. t \in Seq(S) /\ Len(t) = Len(s) + 2
  OBVIOUS
<1>2. u \in Seq(S) /\ Len(u) = Len(s) + 2
  OBVIOUS
<1>3. \A i \in 1 .. Len(s) : t[i] = s[i] /\ u[i] = s[i]
  OBVIOUS
<1>4. t[Len(s) + 1] = a /\ t[Len(s) + 2] = b
  OBVIOUS
<1>5. u[Len(s) + 1] = a /\ u[Len(s) + 2] = b
  OBVIOUS
<1> HIDE DEF t, u
<1>6. \A i \in 1 .. Len(t) : t[i] = u[i]
  <2> SUFFICES ASSUME NEW i \in 1 .. Len(s) + 2 PROVE t[i] = u[i]
    BY <1>1
  <2>1. i \in 1 .. Len(s) \/ i = Len(s) + 1 \/ i = Len(s) + 2
    OBVIOUS
  <2> QED
    BY <1>3, <1>4, <1>5, <2>1
<1>7. t = u
  BY <1>1, <1>2, <1>6, SeqEqual
<1> QED
  BY <1>7 DEF t, u

\* What is put into the pipe of the OF filter, and what is read from it.
LEMMA Shorts ==
  ASSUME NEW S, NEW a \in S, NEW b \in S, NEW s \in Seq(S)
  PROVE  /\ <<a>> \in Seq(S) /\ <<a, b>> \in Seq(S) /\ <<>> \in Seq(S)
         /\ <<a>> \o <<b>> = <<a, b>> /\ <<>> \o <<a>> = <<a>> /\ <<>> \o <<a, b>> = <<a, b>>
         /\ <<a>> \o <<>> = <<a>> /\ <<>> \o <<>> = <<>>
         /\ s \o <<a>> = Append(s, a) /\ s \o <<>> = s
         /\ s # <<>> => SubSeq(s, 2, Len(s)) \in Seq(S) /\ Head(s) \in S
         /\ SubSeq(<<a>>, 2, 1) = <<>> /\ SubSeq(<<a, b>>, 2, 2) = <<b>>
         /\ Len(<<a>>) = 1 /\ Len(<<a, b>>) = 2 /\ Head(<<a>>) = a /\ Head(<<a, b>>) = a
         /\ <<a>> # <<>> /\ <<a, b>> # <<>> /\ <<a>> # <<a, b>> /\ <<b>> # <<a, b>>
<1>1. <<a>> \in Seq(S) /\ <<a, b>> \in Seq(S) /\ <<>> \in Seq(S)
  OBVIOUS
<1>2. <<a>> \o <<b>> = <<a, b>> /\ <<>> \o <<a>> = <<a>>
  BY TwoJoined
<1>3. <<>> \o <<a, b>> = <<a, b>> /\ <<a>> \o <<>> = <<a>> /\ <<>> \o <<>> = <<>>
  OBVIOUS
<1>4. s \o <<a>> = Append(s, a) /\ s \o <<>> = s
  OBVIOUS
<1>5. s # <<>> => SubSeq(s, 2, Len(s)) \in Seq(S) /\ Head(s) \in S
  OBVIOUS
<1>6. SubSeq(<<a>>, 2, 1) = <<>> /\ SubSeq(<<a, b>>, 2, 2) = <<b>>
  BY SecondOfTwo
<1>7. Len(<<a>>) = 1 /\ Len(<<a, b>>) = 2 /\ Head(<<a>>) = a /\ Head(<<a, b>>) = a
  OBVIOUS
<1>8. <<a>> # <<>> /\ <<a, b>> # <<>> /\ <<a>> # <<a, b>> /\ <<b>> # <<a, b>>
  OBVIOUS
<1> QED
  BY <1>1, <1>2, <1>3, <1>4, <1>5, <1>6, <1>7, <1>8

\* A half of a file goes out in its order.
LEMMA HalfOut ==
  ASSUME NEW c \in Configs, NEW k \in 1 .. Count(c), NEW h \in 1 .. 2,
         NEW o \in Seq(Whole(c))
  PROVE  /\ Append(o, Half(k, h)) \in Seq(Whole(c))
         /\ Ordered(c, o) /\ Items(o) = Below(c, Half(k, h)) =>
              /\ Ordered(c, Append(o, Half(k, h)))
              /\ Items(Append(o, Half(k, h))) = Below(c, Half(k, h + 1))
<1>1. Half(k, h) \in Whole(c)
  BY Members
<1>2. /\ Append(o, Half(k, h)) \in Seq(Whole(c))
      /\ Items(Append(o, Half(k, h))) = Items(o) \cup {Half(k, h)}
  BY <1>1, ItemsAppend
<1>3. Below(c, Half(k, h)) \cup {Half(k, h)} = Below(c, Half(k, h + 1))
  <2>1. h = 1 \/ h = 2
    OBVIOUS
  <2> QED
    BY <2>1, BelowHalf
<1>4. Last(c) \notin Below(c, Half(k, h))
  BY LastNotBelow
<1> QED
  BY <1>1, <1>2, <1>3, <1>4, OrderedAppend

-----------------------------------------------------------------------------
(* The records.                                                            *)

Places == {"account", "open", "lead", "write", "of_start", "of_write", "of_wait",
           "file", "copy", "print", "if_wait", "raw", "tail", "close", "lp_wait",
           "send", "done", "died"}
Worker(c) == [pc : Places, at : {"lead", "sep", "tail"}, piece : 1 .. Count(c) + 1,
              half : 1 .. 2, try : 1 .. SendTry, err : Codes, status : Codes]
Process == [state : {"none", "running", "stopped", "exited"}, half : 1 .. 3, code : Codes]

\* What the worker is at, without the count of attempts.
Has(r, to, at, piece, half, err, status) ==
    /\ r.pc = to /\ r.at = at
    /\ r.piece = piece /\ r.half = half
    /\ r.err = err /\ r.status = status

\* What the assignments to the worker leave of it.
LEMMA GoHas ==
  ASSUME NEW c, NEW to \in Places, w \in Worker(c), Go(to)
  PROVE  w' \in Worker(c) /\ Has(w', to, w.at, w.piece, w.half, w.err, w.status)
BY DEF Go, Worker, Has

LEMMA ErrHas ==
  ASSUME NEW c, NEW to \in Places, NEW e \in Codes, w \in Worker(c), Err(e, to)
  PROVE  w' \in Worker(c) /\ Has(w', to, w.at, w.piece, w.half, e, w.status)
BY DEF Err, Worker, Has

LEMMA FinishHas ==
  ASSUME NEW c, NEW e \in Codes, w \in Worker(c), Finish(e)
  PROVE  w' \in Worker(c) /\ Has(w', "done", w.at, w.piece, w.half, w.err, e)
BY DEF Finish, Worker, Has, Places

LEMMA DieHas ==
  ASSUME NEW c, w \in Worker(c), w' = [w EXCEPT !.pc = "died", !.status = "JFAIL"]
  PROVE  w' \in Worker(c) /\ Has(w', "died", w.at, w.piece, w.half, w.err, "JFAIL")
BY DEF Worker, Has, Places, Codes

LEMMA PlaceHas ==
  ASSUME NEW c, cfg = c, NEW at \in {"lead", "sep", "tail"}, w \in Worker(c), Place(at)
  PROVE  /\ w' \in Worker(c)
         /\ Has(w', IF c.of = "none" THEN "write" ELSE "of_start", at,
                w.piece, w.half, w.err, w.status)
BY DEF Place, Worker, Has, Places

LEMMA NextPieceHas ==
  ASSUME NEW c \in Configs, w \in Worker(c), w.piece <= Count(c), NextPiece
  PROVE  w' \in Worker(c) /\ Has(w', "file", w.at, w.piece + 1, 1, w.err, w.status)
<1>1. w.piece + 1 \in 1 .. Count(c) + 1
  BY CountNat DEF Worker
<1> DEFINE p == w.piece + 1
<1>2. w' = [w EXCEPT !.pc = "file", !.piece = p, !.half = 1]
  BY DEF NextPiece
<1>3. p \in 1 .. Count(c) + 1
  BY <1>1
<1> HIDE DEF p
<1>4. "file" \in Places /\ 1 \in 1 .. 2
  BY DEF Places
<1>5. w' \in Worker(c)
  BY <1>2, <1>3, <1>4 DEF Worker
<1>6. Has(w', "file", w.at, p, 1, w.err, w.status)
  BY <1>2 DEF Worker, Has
<1> QED
  BY <1>5, <1>6 DEF p

LEMMA HalfHas ==
  ASSUME NEW c, w \in Worker(c), w' = [w EXCEPT !.half = 2]
  PROVE  w' \in Worker(c) /\ Has(w', w.pc, w.at, w.piece, 2, w.err, w.status)
BY DEF Worker, Has

LEMMA TryHas ==
  ASSUME NEW c, w \in Worker(c), w.try < SendTry, w' = [w EXCEPT !.try = @ + 1]
  PROVE  w' \in Worker(c) /\ Has(w', w.pc, w.at, w.piece, w.half, w.err, w.status)
BY BoundAssumption DEF Worker, Has

\* Programs that have not started and programs that have.
LEMMA Processes ==
  /\ NoProcess \in Process /\ NewProcess \in Process
  /\ NoProcess.state = "none" /\ NoProcess.half = 1 /\ NoProcess.code = "JSUCC"
  /\ NewProcess.state = "running" /\ NewProcess.half = 1 /\ NewProcess.code = "JSUCC"
BY DEF NoProcess, NewProcess, Process, Codes

\* What a step leaves of a program.
LEMMA ProcessUpdates ==
  ASSUME NEW p \in Process
  PROVE  /\ \A s \in {"none", "running", "stopped", "exited"} :
              /\ [p EXCEPT !.state = s] \in Process
              /\ [p EXCEPT !.state = s].state = s
              /\ [p EXCEPT !.state = s].half = p.half
              /\ [p EXCEPT !.state = s].code = p.code
         /\ \A e \in Codes :
              /\ [p EXCEPT !.state = "exited", !.code = e] \in Process
              /\ [p EXCEPT !.state = "exited", !.code = e].state = "exited"
              /\ [p EXCEPT !.state = "exited", !.code = e].half = p.half
              /\ [p EXCEPT !.state = "exited", !.code = e].code = e
BY DEF Process

\* A process ends with a code.
LEMMA ProcessExits ==
  ASSUME NEW p \in Process, NEW e \in Codes
  PROVE  /\ [p EXCEPT !.state = "exited", !.code = e] \in Process
         /\ [p EXCEPT !.state = "exited", !.code = e].state = "exited"
         /\ [p EXCEPT !.state = "exited", !.code = e].code = e
         /\ [p EXCEPT !.state = "exited", !.code = e].half = p.half
BY DEF Process

\* The next half of a file is written by its filter.
LEMMA NextHalf ==
  ASSUME NEW p \in Process, p.half <= 2, NEW q, q = [p EXCEPT !.half = @ + 1]
  PROVE  q \in Process /\ q.state = p.state /\ q.half = p.half + 1 /\ q.code = p.code
<1> DEFINE h == p.half + 1
<1>1. q = [p EXCEPT !.half = h] /\ h \in 1 .. 3
  BY DEF Process
<1> HIDE DEF h
<1>2. q \in Process /\ q.state = p.state /\ q.half = h /\ q.code = p.code
  BY <1>1 DEF Process
<1> QED
  BY <1>2 DEF h

-----------------------------------------------------------------------------
(* The inductive invariant.                                                *)

Gaps == {"write", "of_start", "of_write", "of_wait"}
Left == {"close", "lp_wait", "send", "done", "died"}

In(at) == w.pc \in Gaps /\ w.at = at
AtEnd == w.pc = "tail" \/ In("tail")

Typed(c) ==
    /\ w \in Worker(c)
    /\ of \in Process /\ ifp \in Process /\ lp \in Process
    /\ out \in Seq(Whole(c))
    /\ ofPipe \in Seq(Whole(c) \cup {Stop})
    /\ failed \in BOOLEAN /\ timedOut \in BOOLEAN /\ faults \in 0 .. MaxFaults

\* Where the worker is, and what it knows there.
PlaceInv(c) ==
    /\ w.pc \in {"account", "open", "lead"} \/ In("lead") => w.piece = 1
    /\ In("sep") => c.sep /\ w.piece \in 2 .. Count(c)
    /\ w.pc \in {"copy", "print", "raw", "if_wait"} => w.piece <= Count(c)
    /\ w.pc \in {"account", "open", "lead", "file", "copy", "print"}
         \/ In("lead") \/ In("sep") => w.half = 1
    /\ AtEnd /\ w.err = "JSUCC" => w.piece = Count(c) + 1
    /\ w.err # "JSUCC" => AtEnd \/ w.pc \in Left
    /\ w.pc \in Gaps \cup {"lead", "copy", "print", "raw", "tail"} => c.out # "filter"
    /\ w.pc = "write" => c.of = "none"
    /\ w.pc \in {"of_start", "of_write", "of_wait"} => c.of # "none"
    /\ w.pc = "lp_wait" => c.out = "pipe"
    /\ w.pc = "send" => c.out \in {"bounce", "filter"}
    /\ timedOut => AtEnd \/ w.pc \in Left
    /\ timedOut /\ w.pc # "done" => w.err # "JSUCC"

\* The item of the gap the worker is in, and what is left of it in the pipe.
GapItem(c) == CASE w.at = "lead" -> Leader [] w.at = "sep" -> Sep(w.piece)
                [] OTHER -> Last(c)
Suspends(c) == c.of = "suspend" /\ w.at # "tail"
Held(c) ==
    /\ GapItem(c) \in Whole(c)
    /\ ofPipe = IF Suspends(c) THEN <<GapItem(c), Stop>> ELSE <<GapItem(c)>>

\* What the programs do at each of the worker's places.
ProcInv(c) ==
    /\ c.out # "pipe" => lp = NoProcess
    /\ c.of = "none" \/ c.out = "filter" => of = NoProcess
    /\ of.state = "none" => of = NoProcess
    /\ of.state # "exited" => of.code = "JSUCC"
    /\ of.state = "exited" /\ of.code = "JSUCC" => ofPipe = <<>>
    /\ of.state = "exited" /\ of.code = "JSUCC" /\ ~timedOut =>
         w.pc = "of_wait" /\ ~Suspends(c)
    /\ of.state = "stopped" => ofPipe = <<>>
    /\ w.pc = "of_write" => of.state \in {"running", "exited"}
    /\ of.state = "running" => w.pc \in {"of_write", "of_wait"} \/ timedOut
    /\ w.pc # "of_wait" /\ w.pc \notin Left => ofPipe = <<>>
    /\ ofPipe = <<>> \/ Held(c) \/ (Suspends(c) /\ ofPipe = <<Stop>>)
    /\ ifp.state = "none" => ifp = NoProcess
    /\ ifp.state # "none" => w.pc = "if_wait" \/ timedOut
    /\ w.pc = "if_wait" => ifp.state # "none"
    /\ ifp.state # "stopped"
    /\ ifp.state = "running" => ifp.code = "JSUCC" /\ w.piece <= Count(c)
    /\ ifp.state = "exited" /\ ifp.code = "JSUCC" => ifp.half = 3

Unwritten(c) == w.pc \in {"write", "of_start", "of_write"} \/ Held(c)

\* What is out when the worker is at a place, and nothing timed out.
OutInv(c) ==
    /\ w.pc \in {"account", "open", "lead"} => Items(out) = Below(c, Leader)
    /\ w.pc \in {"file", "copy"} => Items(out) = Below(c, Sep(w.piece))
    /\ w.pc = "print" => Items(out) = Below(c, Half(w.piece, 1))
    /\ w.pc = "raw" => Items(out) = Below(c, Half(w.piece, w.half))
    /\ w.pc = "if_wait" => Items(out) = Below(c, Half(w.piece, ifp.half))
    /\ w.pc = "tail" =>
         /\ Last(c) \notin Items(out)
         /\ w.err = "JSUCC" => Items(out) = Below(c, Last(c))
    /\ w.pc \in Gaps /\ Unwritten(c) =>
         /\ Last(c) \notin Items(out)
         /\ w.err = "JSUCC" => Items(out) = Below(c, GapItem(c))
    /\ w.pc \in Gaps /\ ~Unwritten(c) /\ w.err = "JSUCC" =>
         Items(out) = Upto(c, GapItem(c))
    /\ w.pc = "close" /\ w.err = "JSUCC" => Items(out) = Whole(c)

\* No program runs on, and all is out.
AllOut(c) == of = NoProcess /\ ifp = NoProcess /\ Items(out) = Whole(c)

\* What the worker believes of a failure, where it decides the status.
StatusInv(c) ==
    /\ failed /\ w.pc \notin {"done", "died"} /\ c.out # "pipe" =>
         \/ w.err # "JSUCC"
         \/ of.state = "exited" /\ of.code # "JSUCC"
         \/ ifp.state = "exited" /\ ifp.code # "JSUCC"
    /\ w.pc = "send" /\ c.out = "filter" => w.err = "JSUCC"
    /\ w.pc \in {"close", "send"} /\ w.err = "JSUCC" /\ c.out \in {"device", "filter"}
         => AllOut(c)
    /\ w.pc = "done" /\ w.status = "JSUCC" /\ c.out \in {"device", "filter"}
         => ~failed /\ AllOut(c)

PrintInv(c) ==
    /\ Typed(c) /\ PlaceInv(c) /\ ProcInv(c) /\ StatusInv(c)
    /\ ~timedOut => OutInv(c) /\ Ordered(c, out)

-----------------------------------------------------------------------------
(* What every step needs.                                                  *)

\* The counters keep their types.
LEMMA CountersKept ==
  ASSUME NEW c \in Configs, Typed(c),
         \/ NoFault \/ Fault \/ WriteFails
         \/ faults < MaxFaults /\ faults' = faults + 1 /\ UNCHANGED failed
  PROVE  failed' \in BOOLEAN /\ faults' \in 0 .. MaxFaults
<1> faults \in 0 .. MaxFaults /\ MaxFaults \in Nat /\ failed \in BOOLEAN
  BY BoundAssumption DEF Typed
<1>1. CASE NoFault
  BY <1>1 DEF NoFault
<1>2. CASE Fault
  BY <1>2 DEF Fault
<1>3. CASE WriteFails
  BY <1>2, <1>3 DEF WriteFails
<1>4. CASE faults < MaxFaults /\ faults' = faults + 1 /\ UNCHANGED failed
  BY <1>4
<1> QED
  BY <1>1, <1>2, <1>3, <1>4

\* The worker's place is a piece of the job, or the end of it.
LEMMA PieceTyped ==
  ASSUME NEW c \in Configs, cfg = c, Typed(c)
  PROVE  /\ Pieces = Count(c) /\ Trailer = Last(c) /\ Wanted = Whole(c)
         /\ Last(c) = Sep(Count(c) + 1)
         /\ Count(c) \in Nat /\ w.piece \in 1 .. Count(c) + 1
         /\ w.half \in 1 .. 2
BY CountIs, CountNat DEF Typed, Worker, Last

-----------------------------------------------------------------------------
(* Up to Print_job(): the invariant is kept by each step of the worker.    *)

\* Do_accounting() lets the job go on, or its refusal is the status.
LEMMA AccountKeeps ==
  ASSUME NEW c \in Configs, cfg = c, cfg' = c, PrintInv(c), Account
  PROVE  PrintInv(c)'
<1>1. PICK to \in {"open", "done"}, e \in Codes :
        /\ to = "done" => e # "JSUCC"
        /\ w' \in Worker(c) /\ Has(w', to, w.at, w.piece, w.half, w.err, e)
  BY GoHas, FinishHas DEF PrintInv, Typed, Worker, Account, Refusals, Codes, Places
<1>2. UNCHANGED <<of, ofPipe, ifp, lp, out, timedOut, failed, faults>>
  BY DEF Account, processes, NoFault
<1>3. w.pc = "account"
  BY DEF Account
<1>4. Typed(c)'
  BY <1>1, <1>2, <1>3 DEF PrintInv, Typed
<1>5. PlaceInv(c)'
  BY <1>1, <1>2, <1>3 DEF PrintInv, PlaceInv, Has, In, AtEnd, Gaps, Left
<1>6. ProcInv(c)'
  BY <1>1, <1>2, <1>3 DEF PrintInv, ProcInv, PlaceInv, Has, In, AtEnd, Gaps, Left,
     Held, GapItem, Suspends
<1>7. StatusInv(c)'
  BY <1>1, <1>2, <1>3 DEF PrintInv, StatusInv, PlaceInv, Has, AllOut
<1>8. ~timedOut' => OutInv(c)' /\ Ordered(c, out)'
  BY <1>1, <1>2, <1>3 DEF PrintInv, OutInv, PlaceInv, Has, In, AtEnd, Gaps, Left,
     Unwritten, Held, GapItem, Suspends
<1> QED
  BY <1>4, <1>5, <1>6, <1>7, <1>8 DEF PrintInv

\* Remote_job() opens the file Print_job() is to fill, or has files to filter.
LEMMA OpenFileKeeps ==
  ASSUME NEW c \in Configs, cfg = c, cfg' = c, PrintInv(c), OpenFile
  PROVE  PrintInv(c)'
<1>1. w' \in Worker(c) /\ Has(w', IF c.out = "bounce" THEN "lead" ELSE "file", w.at, w.piece, w.half, w.err, w.status)
  BY GoHas, PieceTyped DEF PrintInv, Typed, OpenFile, Places
<1>2. UNCHANGED <<of, ofPipe, ifp, lp, out, timedOut, failed, faults>>
  BY DEF OpenFile, processes, NoFault
<1>3. w.pc = "open" /\ c.out \in {"bounce", "filter"}
  BY PieceTyped DEF OpenFile, PrintInv
<1>4. Typed(c)'
  BY <1>1, <1>2, <1>3 DEF PrintInv, Typed
<1>5. PlaceInv(c)'
  BY <1>1, <1>2, <1>3 DEF PrintInv, PlaceInv, Has, In, AtEnd, Gaps, Left
<1>6. ProcInv(c)'
  BY <1>1, <1>2, <1>3 DEF PrintInv, ProcInv, PlaceInv, Has, In, AtEnd, Gaps, Left,
     Held, GapItem, Suspends
<1>7. StatusInv(c)'
  BY <1>1, <1>2, <1>3 DEF PrintInv, StatusInv, PlaceInv, Has, AllOut
<1>8. ~timedOut' => OutInv(c)' /\ Ordered(c, out)'
  BY <1>1, <1>2, <1>3, BelowLeader, Members DEF PrintInv, OutInv, PlaceInv, Has, In,
     AtEnd, Gaps, Left, Unwritten, Held, GapItem, Suspends, Upto
<1> QED
  BY <1>4, <1>5, <1>6, <1>7, <1>8 DEF PrintInv

\* Printer_open() has the device, or has started the program behind lp.
LEMMA OpenDeviceKeeps ==
  ASSUME NEW c \in Configs, cfg = c, cfg' = c, PrintInv(c), OpenDevice
  PROVE  PrintInv(c)'
<1>1. w' \in Worker(c) /\ Has(w', "lead", w.at, w.piece, w.half, w.err, w.status)
  BY GoHas DEF PrintInv, Typed, OpenDevice, Places
<1>2. /\ UNCHANGED <<of, ofPipe, ifp, out, timedOut, failed, faults>>
      /\ lp' \in Process /\ (c.out # "pipe" => lp' = lp)
  BY Processes DEF PrintInv, Typed, OpenDevice, NoFault
<1>3. w.pc = "open" /\ c.out \in {"device", "pipe"}
  BY DEF OpenDevice
<1>4. Typed(c)'
  BY <1>1, <1>2, <1>3 DEF PrintInv, Typed
<1>5. PlaceInv(c)'
  BY <1>1, <1>2, <1>3 DEF PrintInv, PlaceInv, Has, In, AtEnd, Gaps, Left
<1>6. ProcInv(c)'
  BY <1>1, <1>2, <1>3 DEF PrintInv, ProcInv, PlaceInv, Has, In, AtEnd, Gaps, Left,
     Held, GapItem, Suspends
<1>7. StatusInv(c)'
  BY <1>1, <1>2, <1>3 DEF PrintInv, StatusInv, PlaceInv, Has, AllOut
<1>8. ~timedOut' => OutInv(c)' /\ Ordered(c, out)'
  BY <1>1, <1>2, <1>3 DEF PrintInv, OutInv, PlaceInv, Has, In, AtEnd, Gaps, Left,
     Unwritten, Held, GapItem, Suspends
<1> QED
  BY <1>4, <1>5, <1>6, <1>7, <1>8 DEF PrintInv

\* Printer_open() tries again, or gives the job up.
LEMMA CannotOpenKeeps ==
  ASSUME NEW c \in Configs, cfg = c, cfg' = c, PrintInv(c), CannotOpen
  PROVE  PrintInv(c)'
<1>1. PICK to \in {"open", "done"}, e \in Codes :
        /\ to = "done" => e # "JSUCC"
        /\ w' \in Worker(c) /\ Has(w', to, w.at, w.piece, w.half, w.err, e)
  BY TryHas, FinishHas DEF PrintInv, Typed, Worker, CannotOpen, Codes
<1>2. UNCHANGED <<of, ofPipe, ifp, lp, out, timedOut>> /\ failed' = failed
  BY DEF CannotOpen, processes
<1>3. w.pc = "open"
  BY DEF CannotOpen
<1>4. failed' \in BOOLEAN /\ faults' \in 0 .. MaxFaults
  BY CountersKept DEF PrintInv, CannotOpen
<1>5. Typed(c)'
  BY <1>1, <1>2, <1>3, <1>4 DEF PrintInv, Typed
<1>6. PlaceInv(c)'
  BY <1>1, <1>2, <1>3, <1>4 DEF PrintInv, PlaceInv, Has, In, AtEnd, Gaps, Left
<1>7. ProcInv(c)'
  BY <1>1, <1>2, <1>3, <1>4 DEF PrintInv, ProcInv, PlaceInv, Has, In, AtEnd, Gaps,
     Left, Held, GapItem, Suspends
<1>8. StatusInv(c)'
  BY <1>1, <1>2, <1>3, <1>4 DEF PrintInv, StatusInv, PlaceInv, Has, AllOut
<1>9. ~timedOut' => OutInv(c)' /\ Ordered(c, out)'
  BY <1>1, <1>2, <1>3, <1>4 DEF PrintInv, OutInv, PlaceInv, Has, In, AtEnd, Gaps,
     Left, Unwritten, Held, GapItem, Suspends
<1> QED
  BY <1>5, <1>6, <1>7, <1>8, <1>9 DEF PrintInv

\* The worker exits before anything waits for a program.
LEMMA DieKeeps ==
  ASSUME NEW c \in Configs, cfg = c, cfg' = c, PrintInv(c), Die
  PROVE  PrintInv(c)'
<1>1. w' \in Worker(c) /\ Has(w', "died", w.at, w.piece, w.half, w.err, "JFAIL")
  BY DieHas DEF PrintInv, Typed, Die
<1>2. UNCHANGED <<of, ofPipe, ifp, lp, out, timedOut>>
  BY DEF Die, processes
<1>3. w.pc \in {"lead", "of_start", "copy", "tail"}
  BY DEF Die
<1>4. failed' \in BOOLEAN /\ faults' \in 0 .. MaxFaults
  BY CountersKept DEF PrintInv, Die
<1>5. Typed(c)'
  BY <1>1, <1>2, <1>3, <1>4 DEF PrintInv, Typed
<1>6. PlaceInv(c)'
  BY <1>1, <1>2, <1>3, <1>4 DEF PrintInv, PlaceInv, Has, In, AtEnd, Gaps, Left
<1>7. ProcInv(c)'
  BY <1>1, <1>2, <1>3, <1>4 DEF PrintInv, ProcInv, PlaceInv, Has, In, AtEnd, Gaps,
     Left, Held, GapItem, Suspends
<1>8. StatusInv(c)'
  BY <1>1, <1>2, <1>3, <1>4 DEF PrintInv, StatusInv, PlaceInv, Has, AllOut
<1>9. ~timedOut' => OutInv(c)' /\ Ordered(c, out)'
  BY <1>1, <1>2, <1>3, <1>4 DEF PrintInv, OutInv, PlaceInv, Has, In, AtEnd, Gaps,
     Left, Unwritten, Held, GapItem, Suspends
<1> QED
  BY <1>5, <1>6, <1>7, <1>8, <1>9 DEF PrintInv

-----------------------------------------------------------------------------
(* What goes to the output outside the files.                              *)

\* What the worker puts into a gap: the item of the gap, where the job has one.
LEMMA TextIs ==
  ASSUME NEW c \in Configs, cfg = c, Typed(c), PlaceInv(c), w.pc \in Gaps
  PROVE  /\ Outbuf = IF GapItem(c) \in Whole(c) THEN <<GapItem(c)>> ELSE <<>>
         /\ Suspending <=> Suspends(c)
<1> w.at \in {"lead", "sep", "tail"} /\ c.out # "filter"
  BY DEF Typed, Worker, PlaceInv
<1>1. Suspending <=> Suspends(c)
  BY DEF Suspending, Suspends
<1>2. CASE w.at = "lead"
  <2>1. Outbuf = (IF c.ends THEN <<Leader>> ELSE <<>>) /\ GapItem(c) = Leader
    BY <1>2 DEF Outbuf, GapItem
  <2> QED
    BY <1>1, <2>1, Members
<1>3. CASE w.at = "sep"
  <2>1. Outbuf = <<Sep(w.piece)>> /\ GapItem(c) = Sep(w.piece)
    BY <1>3 DEF Outbuf, GapItem
  <2>2. Sep(w.piece) \in Whole(c)
    BY <1>3, Members DEF PlaceInv, In
  <2> QED
    BY <1>1, <2>1, <2>2
<1>4. CASE w.at = "tail"
  <2>1. Outbuf = (IF c.ends THEN <<Last(c)>> ELSE <<>>) /\ GapItem(c) = Last(c)
    BY <1>4, PieceTyped DEF Outbuf, GapItem
  <2> QED
    BY <1>1, <2>1, Members
<1> QED
  BY <1>2, <1>3, <1>4

\* Where the output stands when the item of a gap is out.
LEMMA GapFilled ==
  ASSUME NEW c \in Configs, cfg = c, Typed(c), PlaceInv(c), w.pc \in Gaps
  PROVE  /\ w.at = "lead" => w.piece = 1 /\ Upto(c, GapItem(c)) = Below(c, Sep(w.piece))
         /\ w.at = "sep" => Upto(c, GapItem(c)) = Below(c, Half(w.piece, 1))
         /\ w.at = "tail" => Upto(c, GapItem(c)) = Whole(c)
         /\ w.at \in {"lead", "sep", "tail"}
<1>1. w.at = "lead" => w.piece = 1 /\ Upto(c, GapItem(c)) = Below(c, Sep(w.piece))
  BY BelowLeader DEF GapItem, PlaceInv, In
<1>2. w.at = "sep" => Upto(c, GapItem(c)) = Below(c, Half(w.piece, 1))
  <2> SUFFICES ASSUME w.at = "sep" PROVE Upto(c, Sep(w.piece)) = Below(c, Half(w.piece, 1))
    BY DEF GapItem
  <2> w.piece \in 1 .. Count(c)
    BY PieceTyped DEF PlaceInv, In
  <2> QED
    BY BelowSep
<1>3. w.at = "tail" => Upto(c, GapItem(c)) = Whole(c)
  BY BelowLast DEF GapItem
<1>4. w.at \in {"lead", "sep", "tail"}
  BY DEF Typed, Worker
<1> QED
  BY <1>1, <1>2, <1>3, <1>4

\* The item of a gap goes out in its order.
LEMMA GapItemOut ==
  ASSUME NEW c \in Configs, cfg = c, PrintInv(c), w.pc \in Gaps, Unwritten(c),
         GapItem(c) \in Whole(c)
  PROVE  /\ Append(out, GapItem(c)) \in Seq(Whole(c))
         /\ ~timedOut =>
              /\ Ordered(c, Append(out, GapItem(c)))
              /\ w.err = "JSUCC" => Items(Append(out, GapItem(c))) = Upto(c, GapItem(c))
<1> DEFINE x == GapItem(c)
<1>1. out \in Seq(Whole(c)) /\ x \in Whole(c)
  BY DEF PrintInv, Typed
<1>2. Append(out, x) \in Seq(Whole(c)) /\ Items(Append(out, x)) = Items(out) \cup {x}
  BY <1>1, ItemsAppend
<1>3. ASSUME ~timedOut
      PROVE  /\ Last(c) \notin Items(out) /\ Ordered(c, out)
             /\ w.err = "JSUCC" => Items(out) = Below(c, x)
  BY <1>3 DEF PrintInv, OutInv
<1>4. x = Last(c) \/ w.err = "JSUCC"
  BY DEF PrintInv, PlaceInv, AtEnd, In, GapItem, Gaps, Left
<1> HIDE DEF x
<1>5. ASSUME ~timedOut PROVE Ordered(c, Append(out, x))
  BY <1>1, <1>3, <1>4, <1>5, OrderedAppend
<1>6. ASSUME ~timedOut, w.err = "JSUCC" PROVE Items(Append(out, x)) = Upto(c, x)
  BY <1>1, <1>2, <1>3, <1>6 DEF Upto
<1> QED
  BY <1>2, <1>5, <1>6 DEF x

\* The worker comes to what precedes the files ...
LEMMA AtLeadKeeps ==
  ASSUME NEW c \in Configs, cfg = c, cfg' = c, PrintInv(c), AtLead
  PROVE  PrintInv(c)'
<1>1. /\ w' \in Worker(c)
      /\ Has(w', IF c.of = "none" THEN "write" ELSE "of_start", "lead",
             w.piece, w.half, w.err, w.status)
  BY PlaceHas DEF PrintInv, Typed, AtLead
<1>2. UNCHANGED <<of, ofPipe, ifp, lp, out, timedOut, failed, faults>>
  BY DEF AtLead, processes, NoFault
<1>3. w.pc = "lead"
  BY DEF AtLead
<1>4. Typed(c)'
  BY <1>1, <1>2, <1>3 DEF PrintInv, Typed
<1>5. PlaceInv(c)'
  BY <1>1, <1>2, <1>3 DEF PrintInv, PlaceInv, Has, In, AtEnd, Gaps, Left
<1>6. ProcInv(c)'
  BY <1>1, <1>2, <1>3 DEF PrintInv, ProcInv, PlaceInv, Has, In, AtEnd, Gaps, Left,
     Held, GapItem, Suspends
<1>7. StatusInv(c)'
  BY <1>1, <1>2, <1>3 DEF PrintInv, StatusInv, PlaceInv, Has, AllOut
<1>8. ~timedOut' => OutInv(c)' /\ Ordered(c, out)'
  BY <1>1, <1>2, <1>3, LastNotBelow DEF PrintInv, OutInv, PlaceInv, Has, In, AtEnd,
     Gaps, Left, Unwritten, Held, GapItem, Suspends
<1> QED
  BY <1>4, <1>5, <1>6, <1>7, <1>8 DEF PrintInv

\* ... and to what follows them.
LEMMA AtTailKeeps ==
  ASSUME NEW c \in Configs, cfg = c, cfg' = c, PrintInv(c), AtTail
  PROVE  PrintInv(c)'
<1>1. /\ w' \in Worker(c)
      /\ Has(w', IF c.of = "none" THEN "write" ELSE "of_start", "tail",
             w.piece, w.half, w.err, w.status)
  BY PlaceHas DEF PrintInv, Typed, AtTail
<1>2. UNCHANGED <<of, ofPipe, ifp, lp, out, timedOut, failed, faults>>
  BY DEF AtTail, processes, NoFault
<1>3. w.pc = "tail"
  BY DEF AtTail
<1>4. Typed(c)'
  BY <1>1, <1>2, <1>3 DEF PrintInv, Typed
<1>5. PlaceInv(c)'
  BY <1>1, <1>2, <1>3 DEF PrintInv, PlaceInv, Has, In, AtEnd, Gaps, Left
<1>6. ProcInv(c)'
  BY <1>1, <1>2, <1>3 DEF PrintInv, ProcInv, PlaceInv, Has, In, AtEnd, Gaps, Left,
     Held, GapItem, Suspends
<1>7. StatusInv(c)'
  BY <1>1, <1>2, <1>3 DEF PrintInv, StatusInv, PlaceInv, Has, AllOut
<1>8. ~timedOut' => OutInv(c)' /\ Ordered(c, out)'
  BY <1>1, <1>2, <1>3 DEF PrintInv, OutInv, PlaceInv, Has, In, AtEnd, Gaps, Left,
     Unwritten, Held, GapItem, Suspends
<1> QED
  BY <1>4, <1>5, <1>6, <1>7, <1>8 DEF PrintInv

\* Without an OF filter the worker writes the item of a gap itself.
LEMMA WriteOutbufKeeps ==
  ASSUME NEW c \in Configs, cfg = c, cfg' = c, PrintInv(c), WriteOutbuf
  PROVE  PrintInv(c)'
<1>1. w.pc = "write" /\ c.of = "none" /\ c.out # "filter"
  BY DEF WriteOutbuf, PrintInv, PlaceInv, Gaps
<1>2. UNCHANGED <<of, ofPipe, ifp, lp, timedOut, failed, faults>>
  BY DEF WriteOutbuf, processes, NoFault
<1>3. w' \in Worker(c) /\ Has(w', Resume, w.at, w.piece, w.half, w.err, w.status)
  BY <1>1, GoHas DEF PrintInv, Typed, WriteOutbuf, Resume, Places
<1>4. \/ w.at = "lead" /\ Resume = "file"
      \/ w.at = "sep" /\ Resume = "print"
      \/ w.at = "tail" /\ Resume = "close"
  BY DEF Resume, PrintInv, Typed, Worker
<1>5. /\ w.at = "lead" => w.piece = 1 /\ Upto(c, GapItem(c)) = Below(c, Sep(w.piece))
      /\ w.at = "sep" => Upto(c, GapItem(c)) = Below(c, Half(w.piece, 1))
      /\ w.at = "tail" => Upto(c, GapItem(c)) = Whole(c)
  BY <1>1, GapFilled DEF PrintInv, Gaps
<1>6. /\ out' \in Seq(Whole(c))
      /\ ~timedOut => Ordered(c, out') /\ (w.err = "JSUCC" => Items(out') = Upto(c, GapItem(c)))
  <2>1. w.pc \in Gaps /\ Unwritten(c) /\ out \in Seq(Whole(c))
    BY <1>1 DEF Gaps, Unwritten, PrintInv, Typed
  <2>2. out' = out \o (IF GapItem(c) \in Whole(c) THEN <<GapItem(c)>> ELSE <<>>)
    BY <2>1, TextIs DEF WriteOutbuf, PrintInv
  <2>3. CASE GapItem(c) \in Whole(c)
    <3>1. out' = Append(out, GapItem(c))
      BY <2>1, <2>2, <2>3, Shorts
    <3> QED
      BY <2>1, <2>3, <3>1, GapItemOut
  <2>4. CASE GapItem(c) \notin Whole(c)
    <3>1. out' = out
      BY <2>1, <2>2, <2>4
    <3>2. Upto(c, GapItem(c)) = Below(c, GapItem(c))
      BY <2>4 DEF Upto
    <3> QED
      BY <2>1, <3>1, <3>2 DEF PrintInv, OutInv
  <2> QED
    BY <2>3, <2>4
<1>7. Typed(c)'
  BY <1>1, <1>2, <1>3, <1>4, <1>5, <1>6 DEF PrintInv, Typed
<1>8. PlaceInv(c)'
  BY <1>1, <1>2, <1>3, <1>4, <1>5, <1>6 DEF PrintInv, PlaceInv, Has, In, AtEnd, Gaps,
     Left
<1>9. ProcInv(c)'
  BY <1>1, <1>2, <1>3, <1>4, <1>5, <1>6 DEF PrintInv, ProcInv, PlaceInv, Has, In,
     AtEnd, Gaps, Left, Held, GapItem, Suspends
<1>10. StatusInv(c)'
  BY <1>1, <1>2, <1>3, <1>4, <1>5, <1>6 DEF PrintInv, StatusInv, PlaceInv, ProcInv,
     OutInv, Has, AllOut, AtEnd, In, Gaps, Left
<1>11. ~timedOut' => OutInv(c)' /\ Ordered(c, out)'
  BY <1>1, <1>2, <1>3, <1>4, <1>5, <1>6 DEF PrintInv, OutInv, PlaceInv, Has, In,
     AtEnd, Gaps, Left, Unwritten
<1> QED
  BY <1>7, <1>8, <1>9, <1>10, <1>11 DEF PrintInv

\* The item cannot be written: the error is set before the status is.
LEMMA WriteOutbufFailsKeeps ==
  ASSUME NEW c \in Configs, cfg = c, cfg' = c, PrintInv(c), WriteOutbufFails
  PROVE  PrintInv(c)'
<1>1. w.pc = "write" /\ c.of = "none" /\ c.out # "filter"
  BY DEF WriteOutbufFails, PrintInv, PlaceInv, Gaps
<1>2. UNCHANGED <<of, ofPipe, ifp, lp, out, timedOut>>
  BY DEF WriteOutbufFails, processes
<1>3. failed' \in BOOLEAN /\ faults' \in 0 .. MaxFaults
  BY CountersKept DEF PrintInv, WriteOutbufFails
<1>4. PICK to \in {"tail", "close"}, e \in Codes \ {"JSUCC"} :
        /\ w' \in Worker(c) /\ Has(w', to, w.at, w.piece, w.half, e, w.status)
        /\ to = "tail" => w.at = "sep"
  <2> w.at \in {"lead", "sep", "tail"} /\ w.err \in Codes /\ w \in Worker(c)
    BY DEF PrintInv, Typed, Worker
  <2> "JFAIL" \in Codes /\ "JWRERR" \in Codes /\ "tail" \in Places /\ "close" \in Places
    BY DEF Codes, Places
  <2>1. CASE w.at = "lead"
    BY <2>1, ErrHas DEF WriteOutbufFails
  <2>2. CASE w.at = "sep"
    BY <2>2, ErrHas DEF WriteOutbufFails
  <2>3. CASE w.at = "tail"
    BY <2>3, ErrHas DEF WriteOutbufFails
  <2> QED
    BY <2>1, <2>2, <2>3
<1>5. Typed(c)'
  BY <1>1, <1>2, <1>3, <1>4 DEF PrintInv, Typed
<1>6. PlaceInv(c)'
  BY <1>1, <1>2, <1>3, <1>4 DEF PrintInv, PlaceInv, Has, In, AtEnd, Gaps, Left
<1>7. ProcInv(c)'
  BY <1>1, <1>2, <1>3, <1>4 DEF PrintInv, ProcInv, PlaceInv, Has, In, AtEnd, Gaps,
     Left, Held, GapItem, Suspends
<1>8. StatusInv(c)'
  BY <1>1, <1>2, <1>3, <1>4 DEF PrintInv, StatusInv, PlaceInv, Has, AllOut
<1>9. ~timedOut' => OutInv(c)' /\ Ordered(c, out)'
  BY <1>1, <1>2, <1>3, <1>4 DEF PrintInv, OutInv, PlaceInv, Has, In, AtEnd, Gaps,
     Left, Unwritten, Held, GapItem, Suspends
<1> QED
  BY <1>5, <1>6, <1>7, <1>8, <1>9 DEF PrintInv

\* The OF filter that is started or continued has an empty pipe.
LEMMA StartOFKeeps ==
  ASSUME NEW c \in Configs, cfg = c, cfg' = c, PrintInv(c), StartOF
  PROVE  PrintInv(c)'
<1>1. w.pc = "of_start" /\ c.of # "none" /\ c.out # "filter" /\ ofPipe = <<>>
  BY DEF StartOF, PrintInv, PlaceInv, ProcInv, Gaps, Left
<1>2. UNCHANGED <<ofPipe, ifp, lp, out, timedOut, failed, faults>>
  BY <1>1 DEF StartOF, NoFault
<1>3. w' \in Worker(c) /\ Has(w', "of_write", w.at, w.piece, w.half, w.err, w.status)
  BY GoHas DEF PrintInv, Typed, StartOF, Places
<1>4. /\ of' \in Process
      /\ \/ of.state # "exited" /\ of'.state = "running" /\ of'.code = "JSUCC"
         \/ of.state = "exited" /\ of'.state = "exited" /\ of'.code = of.code
  <2> of \in Process /\ of.state \in {"none", "running", "stopped", "exited"}
    BY DEF PrintInv, Typed, Process
  <2>1. CASE of.state = "none"
    BY <2>1, Processes DEF StartOF
  <2>2. CASE of.state # "none"
    <3> DEFINE s == IF of.state = "stopped" THEN "running" ELSE of.state
    <3>1. of' = [of EXCEPT !.state = s]
      BY <2>2 DEF StartOF
    <3>2. s \in {"none", "running", "stopped", "exited"}
      OBVIOUS
    <3>3. of' \in Process /\ of'.state = s /\ of'.code = of.code
      BY <3>1, <3>2, ProcessUpdates
    <3> QED
      BY <2>2, <3>3 DEF PrintInv, ProcInv
  <2> QED
    BY <2>1, <2>2
<1>5. Typed(c)'
  BY <1>1, <1>2, <1>3, <1>4 DEF PrintInv, Typed
<1>6. PlaceInv(c)'
  BY <1>1, <1>2, <1>3, <1>4 DEF PrintInv, PlaceInv, Has, In, AtEnd, Gaps, Left
<1>7. ProcInv(c)'
  BY <1>1, <1>2, <1>3, <1>4 DEF PrintInv, ProcInv, PlaceInv, Has, In, AtEnd, Gaps,
     Left, Held, GapItem, Suspends
<1>8. StatusInv(c)'
  BY <1>1, <1>2, <1>3, <1>4 DEF PrintInv, StatusInv, PlaceInv, ProcInv, OutInv, Has,
     AllOut, AtEnd, In, Gaps, Left
<1>9. ~timedOut' => OutInv(c)' /\ Ordered(c, out)'
  BY <1>1, <1>2, <1>3, <1>4 DEF PrintInv, OutInv, PlaceInv, Has, In, AtEnd, Gaps,
     Left, Unwritten, Held, GapItem, Suspends
<1> QED
  BY <1>5, <1>6, <1>7, <1>8, <1>9 DEF PrintInv

\* The pipe gets the item of the gap and, where the filter is to stop, Stop.
LEMMA WriteOFKeeps ==
  ASSUME NEW c \in Configs, cfg = c, cfg' = c, PrintInv(c), WriteOF
  PROVE  PrintInv(c)'
<1>1. w.pc = "of_write" /\ ofPipe = <<>> /\ of.state \in {"running", "exited"}
  BY DEF WriteOF, PrintInv, ProcInv, Left
<1>2. UNCHANGED <<of, ifp, lp, out, timedOut, failed, faults>>
  BY DEF WriteOF, NoFault
<1>3. Stop \in Whole(c) \cup {Stop} /\ Whole(c) \subseteq Whole(c) \cup {Stop} /\ Stop \notin Whole(c)
  BY Members
<1>4. \/ /\ w' \in Worker(c) /\ Has(w', "close", w.at, w.piece, w.half, "JWRERR", w.status)
         /\ UNCHANGED ofPipe /\ of.state = "exited"
      \/ /\ w' \in Worker(c) /\ Has(w', "of_wait", w.at, w.piece, w.half, w.err, w.status)
         /\ ofPipe' \in Seq(Whole(c) \cup {Stop})
         /\ \/ ofPipe' = <<>> /\ GapItem(c) \notin Whole(c)
            \/ Suspends(c) /\ ofPipe' = <<Stop>> /\ GapItem(c) \notin Whole(c) /\ of.state = "running"
            \/ /\ GapItem(c) \in Whole(c) /\ of.state = "running"
               /\ ofPipe' = IF Suspends(c) THEN <<GapItem(c), Stop>> ELSE <<GapItem(c)>>
  <2> DEFINE S == Whole(c) \cup {Stop}
             G == GapItem(c)
             text == Outbuf \o (IF Suspending THEN <<Stop>> ELSE <<>>)
  <2>1. Outbuf = (IF G \in Whole(c) THEN <<G>> ELSE <<>>) /\ (Suspending <=> Suspends(c))
    BY <1>1, TextIs DEF PrintInv, Gaps
  <2>2. /\ text \in Seq(S) /\ <<>> \o text = text
        /\ \/ text = <<>> /\ G \notin Whole(c)
           \/ text # <<>> /\ Suspends(c) /\ text = <<Stop>> /\ G \notin Whole(c)
           \/ /\ text # <<>> /\ G \in Whole(c)
              /\ text = IF Suspends(c) THEN <<G, Stop>> ELSE <<G>>
    <3> Stop \in S
      OBVIOUS
    <3> HIDE DEF G
    <3>1. CASE G \in Whole(c) /\ Suspends(c)
      <4> G \in S
        BY <3>1
      <4>1. text = <<G>> \o <<Stop>>
        BY <2>1, <3>1
      <4>2. text = <<G, Stop>>
        BY <4>1, TwoJoined
      <4> HIDE DEF S, text
      <4> QED
        BY <3>1, <4>2, Shorts
    <3>2. CASE G \in Whole(c) /\ ~Suspends(c)
      <4> G \in S
        BY <3>2
      <4>1. text = <<G>> \o <<>>
        BY <2>1, <3>2
      <4> HIDE DEF S, text
      <4> QED
        BY <3>2, <4>1, Shorts
    <3>3. CASE G \notin Whole(c) /\ Suspends(c)
      <4>1. text = <<>> \o <<Stop>>
        BY <2>1, <3>3
      <4> HIDE DEF S, text
      <4> QED
        BY <3>3, <4>1, Shorts
    <3>4. CASE G \notin Whole(c) /\ ~Suspends(c)
      <4>1. text = <<>> \o <<>>
        BY <2>1, <3>4
      <4> HIDE DEF S, text
      <4> QED
        BY <3>4, <4>1, Shorts
    <3> QED
      BY <3>1, <3>2, <3>3, <3>4
  <2>3. \/ text # <<>> /\ of.state = "exited" /\ Err("JWRERR", "close") /\ UNCHANGED ofPipe
        \/ /\ ~(text # <<>> /\ of.state = "exited")
           /\ Go("of_wait") /\ ofPipe' = ofPipe \o text
    BY DEF WriteOF
  <2> HIDE DEF text, S, G
  <2>4. CASE text # <<>> /\ of.state = "exited" /\ Err("JWRERR", "close") /\ UNCHANGED ofPipe
    BY <2>4, ErrHas DEF PrintInv, Typed, Places, Codes
  <2>5. CASE ~(text # <<>> /\ of.state = "exited") /\ Go("of_wait") /\ ofPipe' = ofPipe \o text
    <3>1. w' \in Worker(c) /\ Has(w', "of_wait", w.at, w.piece, w.half, w.err, w.status)
      BY <2>5, GoHas DEF PrintInv, Typed, Places
    <3>2. ofPipe' = text
      BY <1>1, <2>2, <2>5
    <3> QED
      BY <1>1, <2>2, <2>5, <3>1, <3>2 DEF G, S
  <2> QED
    BY <2>3, <2>4, <2>5
<1>5. GapItem(c)' = GapItem(c) /\ Suspends(c)' = Suspends(c)
  BY <1>4 DEF Has, GapItem, Suspends
<1>6. Typed(c)'
  BY <1>1, <1>2, <1>3, <1>4, <1>5 DEF PrintInv, Typed
<1>7. PlaceInv(c)'
  BY <1>1, <1>2, <1>3, <1>4, <1>5 DEF PrintInv, PlaceInv, Has, In, AtEnd, Gaps, Left
<1>8. ProcInv(c)'
  <2>1. w'.pc = "of_wait" =>
          ofPipe' = <<>> \/ Held(c)' \/ (Suspends(c)' /\ ofPipe' = <<Stop>>)
    BY <1>4, <1>5 DEF Has, Held
  <2>2. of.state = "exited" => ofPipe' = <<>>
    BY <1>1, <1>4
  <2>3. /\ w'.pc = "of_wait" \/ (w'.pc = "close" /\ of.state = "exited")
        /\ w'.piece = w.piece
    BY <1>4 DEF Has
  <2> QED
    BY <1>1, <1>2, <2>1, <2>2, <2>3 DEF PrintInv, ProcInv, Left
<1>9. StatusInv(c)'
  BY <1>1, <1>2, <1>3, <1>4, <1>5 DEF PrintInv, StatusInv, PlaceInv, ProcInv, OutInv,
     Has, AllOut, AtEnd, In, Gaps, Left
<1>10. ~timedOut' => OutInv(c)' /\ Ordered(c, out)'
  BY <1>1, <1>2, <1>3, <1>4, <1>5 DEF PrintInv, OutInv, PlaceInv, ProcInv, Has, In,
     AtEnd, Gaps, Left, Unwritten, Held, GapItem, Suspends, Upto
<1> QED
  BY <1>6, <1>7, <1>8, <1>9, <1>10 DEF PrintInv

\* A filter that has stopped has read its pipe: the item of the gap is out.
LEMMA SuspendedKeeps ==
  ASSUME NEW c \in Configs, cfg = c, cfg' = c, PrintInv(c), Suspended
  PROVE  PrintInv(c)'
<1>1. w.pc = "of_wait" /\ Suspends(c) /\ w.at # "tail" /\ c.out # "filter"
  BY DEF Suspended, Suspending, Suspends, PrintInv, PlaceInv, Gaps
<1>2. UNCHANGED <<of, ofPipe, ifp, lp, out, timedOut, failed, faults>>
  BY DEF Suspended, processes, NoFault
<1>3. ~timedOut /\ w.at \in {"lead", "sep"} /\ of \in Process /\ w \in Worker(c)
  BY <1>1 DEF PrintInv, PlaceInv, AtEnd, In, Left, Typed, Worker
<1>4. \/ /\ w' \in Worker(c) /\ Has(w', Resume, w.at, w.piece, w.half, w.err, w.status)
         /\ of.state = "stopped" /\ ofPipe = <<>>
      \/ /\ w' \in Worker(c) /\ Has(w', "close", w.at, w.piece, w.half, of.code, w.status)
         /\ of.state = "exited" /\ of.code \in Codes \ {"JSUCC"}
  <2>1. CASE of.state = "stopped" /\ Go(Resume)
    <3>1. Resume \in Places
      BY <1>3 DEF Resume, Places
    <3> QED
      BY <1>3, <2>1, <3>1, GoHas DEF PrintInv, ProcInv
  <2>2. CASE of.state = "exited" /\ Err(of.code, "close")
    <3>1. of.code \in Codes /\ of.code # "JSUCC" /\ "close" \in Places
      BY <1>1, <1>3, <2>2 DEF PrintInv, ProcInv, Process, Places
    <3> QED
      BY <1>3, <2>2, <3>1, ErrHas
  <2> QED
    BY <2>1, <2>2 DEF Suspended
<1>5. \/ w.at = "lead" /\ Resume = "file"
      \/ w.at = "sep" /\ Resume = "print"
  BY <1>3 DEF Resume
<1>6. /\ w.at = "lead" => w.piece = 1 /\ Upto(c, GapItem(c)) = Below(c, Sep(w.piece))
      /\ w.at = "sep" => Upto(c, GapItem(c)) = Below(c, Half(w.piece, 1))
      /\ w.at = "tail" => Upto(c, GapItem(c)) = Whole(c)
  BY <1>1, GapFilled DEF PrintInv, Gaps
<1>7. of.state = "stopped" => ~Unwritten(c)
  BY <1>1, <1>4, Shorts DEF Unwritten, Held
<1>8. Typed(c)'
  BY <1>1, <1>2, <1>3, <1>4, <1>5, <1>6, <1>7 DEF PrintInv, Typed
<1>9. PlaceInv(c)'
  BY <1>1, <1>2, <1>3, <1>4, <1>5, <1>6, <1>7 DEF PrintInv, PlaceInv, Has, In, AtEnd,
     Gaps, Left
<1>10. ProcInv(c)'
  BY <1>1, <1>2, <1>3, <1>4, <1>5, <1>6, <1>7 DEF PrintInv, ProcInv, PlaceInv, Has,
     In, AtEnd, Gaps, Left, Held, GapItem, Suspends
<1>11. StatusInv(c)'
  BY <1>1, <1>2, <1>3, <1>4, <1>5, <1>6, <1>7 DEF PrintInv, StatusInv, PlaceInv,
     ProcInv, OutInv, Has, AllOut, AtEnd, In, Gaps, Left
<1>12. ~timedOut' => OutInv(c)' /\ Ordered(c, out)'
  BY <1>1, <1>2, <1>3, <1>4, <1>5, <1>6, <1>7 DEF PrintInv, OutInv, PlaceInv, Has,
     In, AtEnd, Gaps, Left
<1> QED
  BY <1>8, <1>9, <1>10, <1>11, <1>12 DEF PrintInv

\* So has one that exits with JSUCC; another exit code is an error.
LEMMA EndedKeeps ==
  ASSUME NEW c \in Configs, cfg = c, cfg' = c, PrintInv(c), Ended
  PROVE  PrintInv(c)'
<1>1. w.pc = "of_wait" /\ ~Suspends(c) /\ of.state = "exited" /\ c.out # "filter"
  BY DEF Ended, Suspending, Suspends, PrintInv, PlaceInv, Gaps
<1>2. UNCHANGED <<ofPipe, ifp, lp, out, timedOut, failed, faults>>
  BY DEF Ended, NoFault
<1>3. w.at \in {"lead", "sep", "tail"} /\ of \in Process /\ w \in Worker(c)
  BY <1>1 DEF PrintInv, Typed, Worker
<1>4. \/ /\ w' \in Worker(c) /\ Has(w', Resume, w.at, w.piece, w.half, w.err, w.status)
         /\ of.code = "JSUCC" /\ ofPipe = <<>> /\ of' = NoProcess
      \/ /\ w' \in Worker(c) /\ Has(w', "close", w.at, w.piece, w.half, of.code, w.status)
         /\ of.code # "JSUCC" /\ of' = of
  <2>1. CASE of.code = "JSUCC"
    <3>1. Resume \in Places
      BY <1>3 DEF Resume, Places
    <3> QED
      BY <1>1, <1>3, <2>1, <3>1, GoHas DEF Ended, PrintInv, ProcInv
  <2>2. CASE of.code # "JSUCC"
    <3>1. of.code \in Codes /\ "close" \in Places
      BY <1>3 DEF Process, Places
    <3> QED
      BY <1>3, <2>2, <3>1, ErrHas DEF Ended
  <2> QED
    BY <2>1, <2>2
<1>5. \/ w.at = "lead" /\ Resume = "file"
      \/ w.at = "sep" /\ Resume = "print"
      \/ w.at = "tail" /\ Resume = "close"
  BY <1>3 DEF Resume
<1>6. /\ w.at = "lead" => w.piece = 1 /\ Upto(c, GapItem(c)) = Below(c, Sep(w.piece))
      /\ w.at = "sep" => Upto(c, GapItem(c)) = Below(c, Half(w.piece, 1))
      /\ w.at = "tail" => Upto(c, GapItem(c)) = Whole(c)
  BY <1>1, GapFilled DEF PrintInv, Gaps
<1>7. of.code = "JSUCC" => ~Unwritten(c)
  BY <1>1, <1>4, Shorts DEF Unwritten, Held
<1>8. NoProcess \in Process /\ NoProcess.state = "none" /\ NoProcess.code = "JSUCC"
  BY Processes
<1>9. Typed(c)'
  BY <1>1, <1>2, <1>3, <1>4, <1>5, <1>6, <1>7, <1>8 DEF PrintInv, Typed
<1>10. PlaceInv(c)'
  BY <1>1, <1>2, <1>3, <1>4, <1>5, <1>6, <1>7, <1>8 DEF PrintInv, PlaceInv, Has, In,
     AtEnd, Gaps, Left
<1>11. ProcInv(c)'
  BY <1>1, <1>2, <1>3, <1>4, <1>5, <1>6, <1>7, <1>8 DEF PrintInv, ProcInv, PlaceInv,
     Has, In, AtEnd, Gaps, Left, Held, GapItem, Suspends
<1>12. StatusInv(c)'
  BY <1>1, <1>2, <1>3, <1>4, <1>5, <1>6, <1>7, <1>8 DEF PrintInv, StatusInv,
     PlaceInv, ProcInv, OutInv, Has, AllOut, AtEnd, In, Gaps, Left
<1>13. ~timedOut' => OutInv(c)' /\ Ordered(c, out)'
  BY <1>1, <1>2, <1>3, <1>4, <1>5, <1>6, <1>7, <1>8 DEF PrintInv, OutInv, PlaceInv,
     Has, In, AtEnd, Gaps, Left
<1> QED
  BY <1>9, <1>10, <1>11, <1>12, <1>13 DEF PrintInv

\* A timeout is an error, and the order of the output is no longer claimed.
LEMMA OfTimeoutKeeps ==
  ASSUME NEW c \in Configs, cfg = c, cfg' = c, PrintInv(c), OfTimeout
  PROVE  PrintInv(c)'
<1>1. w.pc = "of_wait" /\ of.state = "running" /\ c.out \in {"device", "pipe"}
  BY DEF OfTimeout, Timeout
<1>2. UNCHANGED <<of, ofPipe, ifp, lp, out, failed>> /\ timedOut' = TRUE
  BY DEF OfTimeout, processes, Timeout
<1>3. failed' \in BOOLEAN /\ faults' \in 0 .. MaxFaults
  BY CountersKept DEF PrintInv, OfTimeout, Timeout
<1>4. w' \in Worker(c) /\ Has(w', "close", w.at, w.piece, w.half, "JTIMEOUT", w.status)
  BY ErrHas DEF PrintInv, Typed, OfTimeout, Places, Codes
<1>5. Typed(c)'
  BY <1>1, <1>2, <1>3, <1>4 DEF PrintInv, Typed
<1>6. PlaceInv(c)'
  BY <1>1, <1>2, <1>3, <1>4 DEF PrintInv, PlaceInv, Has, In, AtEnd, Gaps, Left
<1>7. ProcInv(c)'
  BY <1>1, <1>2, <1>3, <1>4 DEF PrintInv, ProcInv, PlaceInv, Has, In, AtEnd, Gaps,
     Left, Held, GapItem, Suspends
<1>8. StatusInv(c)'
  BY <1>1, <1>2, <1>3, <1>4 DEF PrintInv, StatusInv, PlaceInv, Has, AllOut
<1>9. ~timedOut' => OutInv(c)' /\ Ordered(c, out)'
  BY <1>1, <1>2, <1>3, <1>4 DEF PrintInv, OutInv, PlaceInv, Has, In, AtEnd, Gaps,
     Left, Unwritten, Held, GapItem, Suspends
<1> QED
  BY <1>5, <1>6, <1>7, <1>8, <1>9 DEF PrintInv

-----------------------------------------------------------------------------
(* The data files.                                                         *)

\* The next piece is looked at, or the files are done.
LEMMA NextFileKeeps ==
  ASSUME NEW c \in Configs, cfg = c, cfg' = c, PrintInv(c), NextFile
  PROVE  PrintInv(c)'
<1>1. w' \in Worker(c) /\ Has(w', IF w.piece <= Count(c) THEN "copy" ELSE "tail", w.at, w.piece, w.half, w.err, w.status)
  BY GoHas, PieceTyped DEF PrintInv, Typed, NextFile, Places
<1>2. UNCHANGED <<of, ofPipe, ifp, lp, out, timedOut, failed, faults>>
  BY DEF NextFile, processes, NoFault
<1>3. w.pc = "file" /\ c.out # "filter"
  BY PieceTyped DEF NextFile, PrintInv
<1>4. Typed(c)'
  BY <1>1, <1>2, <1>3 DEF PrintInv, Typed
<1>5. PlaceInv(c)'
  BY <1>1, <1>2, <1>3, PieceTyped DEF PrintInv, PlaceInv, Has, In, AtEnd, Gaps, Left
<1>6. ProcInv(c)'
  BY <1>1, <1>2, <1>3 DEF PrintInv, ProcInv, PlaceInv, Has, In, AtEnd, Gaps, Left,
     Held, GapItem, Suspends
<1>7. StatusInv(c)'
  BY <1>1, <1>2, <1>3 DEF PrintInv, StatusInv, PlaceInv, Has, AllOut
<1>8. ~timedOut' => OutInv(c)' /\ Ordered(c, out)'
  BY <1>1, <1>2, <1>3, PieceTyped, LastNotBelow DEF PrintInv, OutInv, PlaceInv, Has,
     In, AtEnd, Gaps, Left, Unwritten, Held, GapItem, Suspends
<1> QED
  BY <1>4, <1>5, <1>6, <1>7, <1>8 DEF PrintInv

\* A file that cannot be read is an error, and the trailer is next.
LEMMA BadFileKeeps ==
  ASSUME NEW c \in Configs, cfg = c, cfg' = c, PrintInv(c), BadFile
  PROVE  PrintInv(c)'
<1>1. PICK e \in {"JFAIL", "JABORT"} : w' \in Worker(c) /\ Has(w', "tail", w.at, w.piece, w.half, e, w.status)
  BY ErrHas DEF PrintInv, Typed, BadFile, Places, Codes
<1>2. UNCHANGED <<of, ofPipe, ifp, lp, out, timedOut>>
  BY DEF BadFile, processes
<1>3. w.pc = "file" /\ c.out # "filter" /\ w.piece <= Count(c)
  BY PieceTyped DEF PrintInv, BadFile
<1>4. failed' \in BOOLEAN /\ faults' \in 0 .. MaxFaults
  BY CountersKept DEF PrintInv, BadFile
<1>5. Typed(c)'
  BY <1>1, <1>2, <1>3, <1>4 DEF PrintInv, Typed
<1>6. PlaceInv(c)'
  BY <1>1, <1>2, <1>3, <1>4 DEF PrintInv, PlaceInv, Has, In, AtEnd, Gaps, Left
<1>7. ProcInv(c)'
  BY <1>1, <1>2, <1>3, <1>4 DEF PrintInv, ProcInv, PlaceInv, Has, In, AtEnd, Gaps,
     Left, Held, GapItem, Suspends
<1>8. StatusInv(c)'
  BY <1>1, <1>2, <1>3, <1>4 DEF PrintInv, StatusInv, PlaceInv, Has, AllOut
<1>9. ~timedOut' => OutInv(c)' /\ Ordered(c, out)'
  BY <1>1, <1>2, <1>3, <1>4, PieceTyped, LastNotBelow DEF PrintInv, OutInv, PlaceInv,
     Has, In, AtEnd, Gaps, Left, Unwritten, Held, GapItem, Suspends
<1> QED
  BY <1>5, <1>6, <1>7, <1>8, <1>9 DEF PrintInv

\* A piece after the first has its separator to put out, if the queue has any.
LEMMA SeparateKeeps ==
  ASSUME NEW c \in Configs, cfg = c, cfg' = c, PrintInv(c), Separate
  PROVE  PrintInv(c)'
<1>1. w.pc = "copy" /\ w.piece \in 1 .. Count(c) /\ Count(c) \in Nat /\ c.out # "filter"
  BY PieceTyped DEF PrintInv, PlaceInv, Separate
<1>2. UNCHANGED <<of, ofPipe, ifp, lp, out, timedOut, failed, faults>>
  BY DEF Separate, processes, NoFault
<1>3. /\ w' \in Worker(c)
      /\ \/ /\ c.sep /\ w.piece > 1
            /\ Has(w', IF c.of = "none" THEN "write" ELSE "of_start", "sep", w.piece, w.half, w.err, w.status)
         \/ ~(c.sep /\ w.piece > 1) /\ Has(w', "print", w.at, w.piece, w.half, w.err, w.status)
  BY GoHas, PlaceHas DEF PrintInv, Typed, Separate, Places
<1>4. Typed(c)'
  BY <1>1, <1>2, <1>3 DEF PrintInv, Typed
<1>5. PlaceInv(c)'
  BY <1>1, <1>2, <1>3 DEF PrintInv, PlaceInv, Has, In, AtEnd, Gaps, Left
<1>6. ProcInv(c)'
  BY <1>1, <1>2, <1>3 DEF PrintInv, ProcInv, PlaceInv, Has, In, AtEnd, Gaps, Left,
     Held, GapItem, Suspends
<1>7. StatusInv(c)'
  BY <1>1, <1>2, <1>3 DEF PrintInv, StatusInv, PlaceInv, Has, AllOut
<1>8. ~timedOut' => OutInv(c)' /\ Ordered(c, out)'
  BY <1>1, <1>2, <1>3, LastNotBelow, BelowSep DEF PrintInv, OutInv, PlaceInv, Has,
     In, AtEnd, Gaps, Left, Unwritten, Held, GapItem, Suspends
<1> QED
  BY <1>4, <1>5, <1>6, <1>7, <1>8 DEF PrintInv

\* The filter of a file starts with nothing of the file out.
LEMMA StartIFKeeps ==
  ASSUME NEW c \in Configs, cfg = c, cfg' = c, PrintInv(c), StartIF
  PROVE  PrintInv(c)'
<1>1. w' \in Worker(c) /\ Has(w', "if_wait", w.at, w.piece, w.half, w.err, w.status)
  BY GoHas DEF PrintInv, Typed, StartIF, Places
<1>2. UNCHANGED <<of, ofPipe, lp, out, timedOut, failed, faults>> /\ ifp' = NewProcess
  BY DEF StartIF, NoFault
<1>3. w.pc = "print" /\ w.piece <= Count(c)
  BY DEF StartIF, PrintInv, PlaceInv
<1>4. ifp' \in Process /\ ifp'.state = "running" /\ ifp'.half = 1 /\ ifp'.code = "JSUCC"
  BY <1>2, Processes
<1>5. Typed(c)'
  BY <1>1, <1>2, <1>3, <1>4 DEF PrintInv, Typed
<1>6. PlaceInv(c)'
  BY <1>1, <1>2, <1>3, <1>4 DEF PrintInv, PlaceInv, Has, In, AtEnd, Gaps, Left
<1>7. ProcInv(c)'
  BY <1>1, <1>2, <1>3, <1>4 DEF PrintInv, ProcInv, PlaceInv, Has, In, AtEnd, Gaps,
     Left, Held, GapItem, Suspends
<1>8. StatusInv(c)'
  BY <1>1, <1>2, <1>3, <1>4 DEF PrintInv, StatusInv, PlaceInv, ProcInv, OutInv, Has,
     AllOut, AtEnd, In, Gaps, Left
<1>9. ~timedOut' => OutInv(c)' /\ Ordered(c, out)'
  BY <1>1, <1>2, <1>3, <1>4 DEF PrintInv, OutInv, PlaceInv, Has, In, AtEnd, Gaps,
     Left, Unwritten, Held, GapItem, Suspends
<1> QED
  BY <1>5, <1>6, <1>7, <1>8, <1>9 DEF PrintInv

\* So does the worker that copies it.
LEMMA NoFilterKeeps ==
  ASSUME NEW c \in Configs, cfg = c, cfg' = c, PrintInv(c), NoFilter
  PROVE  PrintInv(c)'
<1>1. w' \in Worker(c) /\ Has(w', "raw", w.at, w.piece, w.half, w.err, w.status)
  BY GoHas, PieceTyped DEF PrintInv, Typed, NoFilter, Places
<1>2. UNCHANGED <<of, ofPipe, ifp, lp, out, timedOut, failed, faults>>
  BY DEF NoFilter, processes, NoFault
<1>3. w.pc = "print"
  BY PieceTyped DEF NoFilter, PrintInv
<1>4. Typed(c)'
  BY <1>1, <1>2, <1>3 DEF PrintInv, Typed
<1>5. PlaceInv(c)'
  BY <1>1, <1>2, <1>3 DEF PrintInv, PlaceInv, Has, In, AtEnd, Gaps, Left
<1>6. ProcInv(c)'
  BY <1>1, <1>2, <1>3 DEF PrintInv, ProcInv, PlaceInv, Has, In, AtEnd, Gaps, Left,
     Held, GapItem, Suspends
<1>7. StatusInv(c)'
  BY <1>1, <1>2, <1>3 DEF PrintInv, StatusInv, PlaceInv, Has, AllOut
<1>8. ~timedOut' => OutInv(c)' /\ Ordered(c, out)'
  BY <1>1, <1>2, <1>3 DEF PrintInv, OutInv, PlaceInv, Has, In, AtEnd, Gaps, Left,
     Unwritten, Held, GapItem, Suspends
<1> QED
  BY <1>4, <1>5, <1>6, <1>7, <1>8 DEF PrintInv

\* A filter that exits with JSUCC has put both halves out.
LEMMA WaitIFKeeps ==
  ASSUME NEW c \in Configs, cfg = c, cfg' = c, PrintInv(c), WaitIF
  PROVE  PrintInv(c)'
<1>1. w.pc = "if_wait" /\ w.piece \in 1 .. Count(c) /\ Count(c) \in Nat /\ c.out # "filter" /\ ifp.state = "exited"
  BY PieceTyped DEF PrintInv, PlaceInv, WaitIF
<1>2. UNCHANGED <<of, ofPipe, lp, out, timedOut, failed, faults>>
  BY DEF WaitIF, NoFault
<1>3. ifp' = NoProcess /\ ifp' \in Process /\ ifp'.state = "none" /\ ifp'.code = "JSUCC"
  BY Processes DEF WaitIF
<1>4. /\ w' \in Worker(c)
      /\ \/ ifp.code = "JSUCC" /\ Has(w', "file", w.at, w.piece + 1, 1, w.err, w.status)
         \/ ifp.code # "JSUCC" /\ Has(w', "tail", w.at, w.piece, w.half, ifp.code, w.status)
  BY <1>1, NextPieceHas, ErrHas DEF PrintInv, Typed, Process, WaitIF, Places
<1>5. Typed(c)'
  BY <1>1, <1>2, <1>3, <1>4 DEF PrintInv, Typed
<1>6. PlaceInv(c)'
  BY <1>1, <1>2, <1>3, <1>4 DEF PrintInv, PlaceInv, Has, In, AtEnd, Gaps, Left
<1>7. ProcInv(c)'
  BY <1>1, <1>2, <1>3, <1>4 DEF PrintInv, ProcInv, PlaceInv, Has, In, AtEnd, Gaps,
     Left, Held, GapItem, Suspends
<1>8. StatusInv(c)'
  BY <1>1, <1>2, <1>3, <1>4 DEF PrintInv, StatusInv, PlaceInv, ProcInv, OutInv, Has,
     AllOut, AtEnd, In, Gaps, Left
<1>9. ~timedOut' => OutInv(c)' /\ Ordered(c, out)'
  BY <1>1, <1>2, <1>3, <1>4, LastNotBelow, BelowHalf DEF PrintInv, OutInv, ProcInv,
     PlaceInv, Typed, Process, Has, In, AtEnd, Gaps, Left, Unwritten, Held, GapItem,
     Suspends
<1> QED
  BY <1>5, <1>6, <1>7, <1>8, <1>9 DEF PrintInv

\* A timeout is an error; the filter may run on.
LEMMA IfTimeoutKeeps ==
  ASSUME NEW c \in Configs, cfg = c, cfg' = c, PrintInv(c), IfTimeout
  PROVE  PrintInv(c)'
<1>1. w.pc = "if_wait" /\ ifp.state = "running" /\ c.out \in {"device", "pipe"}
  BY DEF IfTimeout, Timeout
<1>2. UNCHANGED <<of, ofPipe, ifp, lp, out, failed>> /\ timedOut' = TRUE
  BY DEF IfTimeout, processes, Timeout
<1>3. failed' \in BOOLEAN /\ faults' \in 0 .. MaxFaults
  BY CountersKept DEF PrintInv, IfTimeout, Timeout
<1>4. w' \in Worker(c) /\ Has(w', "tail", w.at, w.piece, w.half, "JTIMEOUT", w.status)
  BY ErrHas DEF PrintInv, Typed, IfTimeout, Places, Codes
<1>5. Typed(c)'
  BY <1>1, <1>2, <1>3, <1>4 DEF PrintInv, Typed
<1>6. PlaceInv(c)'
  BY <1>1, <1>2, <1>3, <1>4 DEF PrintInv, PlaceInv, Has, In, AtEnd, Gaps, Left
<1>7. ProcInv(c)'
  BY <1>1, <1>2, <1>3, <1>4 DEF PrintInv, ProcInv, PlaceInv, Has, In, AtEnd, Gaps,
     Left, Held, GapItem, Suspends
<1>8. StatusInv(c)'
  BY <1>1, <1>2, <1>3, <1>4 DEF PrintInv, StatusInv, PlaceInv, Has, AllOut
<1>9. ~timedOut' => OutInv(c)' /\ Ordered(c, out)'
  BY <1>1, <1>2, <1>3, <1>4 DEF PrintInv, OutInv, PlaceInv, Has, In, AtEnd, Gaps,
     Left, Unwritten, Held, GapItem, Suspends
<1> QED
  BY <1>5, <1>6, <1>7, <1>8, <1>9 DEF PrintInv

\* The worker copies the half that is next.
LEMMA CopyHalfKeeps ==
  ASSUME NEW c \in Configs, cfg = c, cfg' = c, PrintInv(c), CopyHalf
  PROVE  PrintInv(c)'
<1>1. w.pc = "raw" /\ w.piece \in 1 .. Count(c) /\ Count(c) \in Nat /\ w.half \in 1 .. 2 /\ c.out # "filter"
  BY PieceTyped DEF CopyHalf, PrintInv, PlaceInv
<1>2. UNCHANGED <<of, ofPipe, ifp, lp, timedOut, failed, faults>>
  BY DEF CopyHalf, processes, NoFault
<1>3. /\ w' \in Worker(c)
      /\ \/ w.half = 1 /\ Has(w', w.pc, w.at, w.piece, 2, w.err, w.status)
         \/ w.half = 2 /\ Has(w', "file", w.at, w.piece + 1, 1, w.err, w.status)
  BY <1>1, NextPieceHas, HalfHas DEF PrintInv, Typed, CopyHalf
<1>4. /\ out' \in Seq(Whole(c))
      /\ ~timedOut => Ordered(c, out') /\ Items(out') = Below(c, Half(w.piece, w.half + 1))
  BY <1>1, HalfOut DEF PrintInv, OutInv, CopyHalf, Typed
<1>5. Typed(c)'
  BY <1>1, <1>2, <1>3, <1>4 DEF PrintInv, Typed
<1>6. PlaceInv(c)'
  BY <1>1, <1>2, <1>3, <1>4 DEF PrintInv, PlaceInv, Has, In, AtEnd, Gaps, Left
<1>7. ProcInv(c)'
  BY <1>1, <1>2, <1>3, <1>4 DEF PrintInv, ProcInv, PlaceInv, Has, In, AtEnd, Gaps,
     Left, Held, GapItem, Suspends
<1>8. StatusInv(c)'
  BY <1>1, <1>2, <1>3, <1>4 DEF PrintInv, StatusInv, PlaceInv, ProcInv, OutInv, Has,
     AllOut, AtEnd, In, Gaps, Left
<1>9. ~timedOut' => OutInv(c)' /\ Ordered(c, out)'
  BY <1>1, <1>2, <1>3, <1>4, BelowHalf DEF PrintInv, OutInv, PlaceInv, Has, In,
     AtEnd, Gaps, Left, Unwritten, Held, GapItem, Suspends
<1> QED
  BY <1>5, <1>6, <1>7, <1>8, <1>9 DEF PrintInv

\* A copy that fails is an error, and the trailer is next.
LEMMA CopyFailsKeeps ==
  ASSUME NEW c \in Configs, cfg = c, cfg' = c, PrintInv(c), CopyFails
  PROVE  PrintInv(c)'
<1>1. w.pc = "raw" /\ w.piece \in 1 .. Count(c) /\ w.half \in 1 .. 2 /\ c.out # "filter"
  BY PieceTyped DEF CopyFails, PrintInv, PlaceInv
<1>2. UNCHANGED <<of, ofPipe, ifp, lp, out, timedOut>>
  BY DEF CopyFails, processes
<1>3. failed' \in BOOLEAN /\ faults' \in 0 .. MaxFaults
  BY CountersKept DEF PrintInv, CopyFails
<1>4. w' \in Worker(c) /\ Has(w', "tail", w.at, w.piece, w.half, "JFAIL", w.status)
  BY ErrHas DEF PrintInv, Typed, CopyFails, Places, Codes
<1>5. Typed(c)'
  BY <1>1, <1>2, <1>3, <1>4 DEF PrintInv, Typed
<1>6. PlaceInv(c)'
  BY <1>1, <1>2, <1>3, <1>4 DEF PrintInv, PlaceInv, Has, In, AtEnd, Gaps, Left
<1>7. ProcInv(c)'
  BY <1>1, <1>2, <1>3, <1>4 DEF PrintInv, ProcInv, PlaceInv, Has, In, AtEnd, Gaps,
     Left, Held, GapItem, Suspends
<1>8. StatusInv(c)'
  BY <1>1, <1>2, <1>3, <1>4 DEF PrintInv, StatusInv, PlaceInv, Has, AllOut
<1>9. ~timedOut' => OutInv(c)' /\ Ordered(c, out)'
  BY <1>1, <1>2, <1>3, <1>4, PieceTyped, LastNotBelow DEF PrintInv, OutInv, PlaceInv,
     Has, In, AtEnd, Gaps, Left, Unwritten, Held, GapItem, Suspends
<1> QED
  BY <1>5, <1>6, <1>7, <1>8, <1>9 DEF PrintInv

-----------------------------------------------------------------------------
(* Filter_files_in_job().                                                  *)

\* A file without a filter is sent as it is, both halves.
LEMMA SkipFileKeeps ==
  ASSUME NEW c \in Configs, cfg = c, cfg' = c, PrintInv(c), SkipFile
  PROVE  PrintInv(c)'
<1>1. w.pc = "file" /\ w.piece \in 1 .. Count(c) /\ Count(c) \in Nat /\ c.out = "filter"
  BY PieceTyped DEF SkipFile, PrintInv
<1>2. UNCHANGED <<of, ofPipe, ifp, lp, timedOut, failed, faults>>
  BY DEF SkipFile, processes, NoFault
<1>3. w' \in Worker(c) /\ Has(w', "file", w.at, w.piece + 1, 1, w.err, w.status)
  BY <1>1, NextPieceHas DEF PrintInv, Typed, SkipFile
<1>4. /\ out' \in Seq(Whole(c))
      /\ ~timedOut => Ordered(c, out') /\ Items(out') = Below(c, Half(w.piece, 3))
  <2> DEFINE a == Half(w.piece, 1)
             b == Half(w.piece, 2)
             o == Append(out, a)
  <2>1. a \in Whole(c) /\ b \in Whole(c) /\ out \in Seq(Whole(c)) /\ o \in Seq(Whole(c))
    BY <1>1, Members DEF PrintInv, Typed
  <2>2. out' = Append(o, b)
    <3>1. out' = out \o <<a, b>>
      BY DEF SkipFile
    <3> HIDE DEF a, b, o
    <3>2. out \o <<a, b>> = Append(Append(out, a), b)
      BY <2>1, TwoAppended
    <3> QED
      BY <3>1, <3>2 DEF o
  <2>3. o \in Seq(Whole(c)) /\ (~timedOut => Ordered(c, o) /\ Items(o) = Below(c, b))
    <3>1. ~timedOut => Ordered(c, out) /\ Items(out) = Below(c, a)
      BY <1>1, BelowSep DEF PrintInv, OutInv
    <3> QED
      BY <1>1, <2>1, <3>1, HalfOut
  <2> HIDE DEF o
  <2>4. /\ Append(o, b) \in Seq(Whole(c))
        /\ Ordered(c, o) /\ Items(o) = Below(c, b) =>
             Ordered(c, Append(o, b)) /\ Items(Append(o, b)) = Below(c, Half(w.piece, 2 + 1))
    BY <1>1, <2>3, HalfOut
  <2>5. 2 + 1 = 3
    OBVIOUS
  <2> QED
    BY <2>2, <2>3, <2>4, <2>5
<1>5. Typed(c)'
  BY <1>1, <1>2, <1>3, <1>4 DEF PrintInv, Typed
<1>6. PlaceInv(c)'
  BY <1>1, <1>2, <1>3, <1>4 DEF PrintInv, PlaceInv, Has, In, AtEnd, Gaps, Left
<1>7. ProcInv(c)'
  BY <1>1, <1>2, <1>3, <1>4 DEF PrintInv, ProcInv, PlaceInv, Has, In, AtEnd, Gaps,
     Left, Held, GapItem, Suspends
<1>8. StatusInv(c)'
  BY <1>1, <1>2, <1>3, <1>4 DEF PrintInv, StatusInv, PlaceInv, ProcInv, OutInv, Has,
     AllOut, AtEnd, In, Gaps, Left
<1>9. ~timedOut' => OutInv(c)' /\ Ordered(c, out)'
  BY <1>1, <1>2, <1>3, <1>4, BelowHalf DEF PrintInv, OutInv, PlaceInv, Has, In,
     AtEnd, Gaps, Left, Unwritten, Held, GapItem, Suspends
<1> QED
  BY <1>5, <1>6, <1>7, <1>8, <1>9 DEF PrintInv

\* Filter_files_in_job() starts the filter of a file, or fails.
LEMMA FilterFileKeeps ==
  ASSUME NEW c \in Configs, cfg = c, cfg' = c, PrintInv(c), FilterFile
  PROVE  PrintInv(c)'
<1>1. w.pc = "file" /\ w.piece <= Count(c) /\ c.out = "filter"
  BY PieceTyped DEF FilterFile, PrintInv
<1>2. UNCHANGED <<of, ofPipe, lp, out, timedOut>>
  BY DEF FilterFile
<1>3. failed' \in BOOLEAN /\ faults' \in 0 .. MaxFaults
  BY CountersKept DEF PrintInv, FilterFile
<1>4. \/ /\ w' \in Worker(c) /\ Has(w', "if_wait", w.at, w.piece, w.half, w.err, w.status)
            /\ ifp' = NewProcess /\ UNCHANGED failed
         \/ /\ w' \in Worker(c) /\ Has(w', "close", w.at, w.piece, w.half, "JFAIL", w.status)
            /\ ifp' = ifp
  BY GoHas, ErrHas DEF PrintInv, Typed, FilterFile, Places, Codes, NoFault
<1>5. NewProcess \in Process /\ NewProcess.state = "running" /\ NewProcess.half = 1 /\ NewProcess.code = "JSUCC"
  BY Processes
<1>6. Typed(c)'
  BY <1>1, <1>2, <1>3, <1>4, <1>5 DEF PrintInv, Typed
<1>7. PlaceInv(c)'
  BY <1>1, <1>2, <1>3, <1>4, <1>5 DEF PrintInv, PlaceInv, Has, In, AtEnd, Gaps, Left
<1>8. ProcInv(c)'
  BY <1>1, <1>2, <1>3, <1>4, <1>5 DEF PrintInv, ProcInv, PlaceInv, Has, In, AtEnd,
     Gaps, Left, Held, GapItem, Suspends
<1>9. StatusInv(c)'
  BY <1>1, <1>2, <1>3, <1>4, <1>5 DEF PrintInv, StatusInv, PlaceInv, ProcInv, OutInv,
     Has, AllOut, AtEnd, In, Gaps, Left
<1>10. ~timedOut' => OutInv(c)' /\ Ordered(c, out)'
  BY <1>1, <1>2, <1>3, <1>4, <1>5, PieceTyped, BelowSep DEF PrintInv, OutInv,
     PlaceInv, Has, In, AtEnd, Gaps, Left, Unwritten, Held, GapItem, Suspends
<1> QED
  BY <1>6, <1>7, <1>8, <1>9, <1>10 DEF PrintInv

\* Its filter, too, has put both halves out when it exits with JSUCC.
LEMMA FilteredFileKeeps ==
  ASSUME NEW c \in Configs, cfg = c, cfg' = c, PrintInv(c), FilteredFile
  PROVE  PrintInv(c)'
<1>1. w.pc = "if_wait" /\ w.piece \in 1 .. Count(c) /\ Count(c) \in Nat /\ c.out = "filter" /\ ifp.state = "exited"
  BY PieceTyped DEF PrintInv, PlaceInv, FilteredFile
<1>2. UNCHANGED <<of, ofPipe, lp, out, timedOut, failed, faults>>
  BY DEF FilteredFile, NoFault
<1>3. ifp' = NoProcess /\ ifp' \in Process /\ ifp'.state = "none" /\ ifp'.code = "JSUCC"
  BY Processes DEF FilteredFile
<1>4. /\ w' \in Worker(c)
      /\ \/ ifp.code = "JSUCC" /\ Has(w', "file", w.at, w.piece + 1, 1, w.err, w.status)
         \/ ifp.code # "JSUCC" /\ Has(w', "close", w.at, w.piece, w.half, ifp.code, w.status)
  BY <1>1, NextPieceHas, ErrHas DEF PrintInv, Typed, Process, FilteredFile, Places
<1>5. Typed(c)'
  BY <1>1, <1>2, <1>3, <1>4 DEF PrintInv, Typed
<1>6. PlaceInv(c)'
  BY <1>1, <1>2, <1>3, <1>4 DEF PrintInv, PlaceInv, Has, In, AtEnd, Gaps, Left
<1>7. ProcInv(c)'
  BY <1>1, <1>2, <1>3, <1>4 DEF PrintInv, ProcInv, PlaceInv, Has, In, AtEnd, Gaps,
     Left, Held, GapItem, Suspends
<1>8. StatusInv(c)'
  BY <1>1, <1>2, <1>3, <1>4 DEF PrintInv, StatusInv, PlaceInv, ProcInv, OutInv, Has,
     AllOut, AtEnd, In, Gaps, Left
<1>9. ~timedOut' => OutInv(c)' /\ Ordered(c, out)'
  BY <1>1, <1>2, <1>3, <1>4, LastNotBelow, BelowHalf DEF PrintInv, OutInv, ProcInv,
     PlaceInv, Typed, Process, Has, In, AtEnd, Gaps, Left, Unwritten, Held, GapItem,
     Suspends
<1> QED
  BY <1>5, <1>6, <1>7, <1>8, <1>9 DEF PrintInv

\* Past the last piece everything is out.
LEMMA AllFilteredKeeps ==
  ASSUME NEW c \in Configs, cfg = c, cfg' = c, PrintInv(c), AllFiltered
  PROVE  PrintInv(c)'
<1>1. w' \in Worker(c) /\ Has(w', "close", w.at, w.piece, w.half, w.err, w.status)
  BY GoHas, PieceTyped DEF PrintInv, Typed, AllFiltered, Places
<1>2. UNCHANGED <<of, ofPipe, ifp, lp, out, timedOut, failed, faults>>
  BY DEF AllFiltered, processes, NoFault
<1>3. w.pc = "file" /\ c.out = "filter" /\ w.piece > Count(c)
  BY PieceTyped DEF AllFiltered, PrintInv
<1>4. Typed(c)'
  BY <1>1, <1>2, <1>3 DEF PrintInv, Typed
<1>5. PlaceInv(c)'
  BY <1>1, <1>2, <1>3 DEF PrintInv, PlaceInv, Has, In, AtEnd, Gaps, Left
<1>6. ProcInv(c)'
  BY <1>1, <1>2, <1>3 DEF PrintInv, ProcInv, PlaceInv, Has, In, AtEnd, Gaps, Left,
     Held, GapItem, Suspends
<1>7. StatusInv(c)'
  BY <1>1, <1>2, <1>3, PieceTyped, BelowLast DEF PrintInv, StatusInv, PlaceInv,
     ProcInv, OutInv, Has, AllOut, AtEnd, In, Gaps, Left
<1>8. ~timedOut' => OutInv(c)' /\ Ordered(c, out)'
  BY <1>1, <1>2, <1>3, PieceTyped, BelowLast DEF PrintInv, OutInv, PlaceInv, Has, In,
     AtEnd, Gaps, Left, Unwritten, Held, GapItem, Suspends
<1> QED
  BY <1>4, <1>5, <1>6, <1>7, <1>8 DEF PrintInv

-----------------------------------------------------------------------------
(* After Print_job().                                                      *)

\* Without an error everything is out and no filter is left: the status is JSUCC.
LEMMA CloseKeeps ==
  ASSUME NEW c \in Configs, cfg = c, cfg' = c, PrintInv(c), Close
  PROVE  PrintInv(c)'
<1>1. w.pc = "close" /\ c.out \in {"device", "pipe", "bounce", "filter"}
  BY OutputAssumption DEF Close, Configs
<1>2. UNCHANGED <<of, ofPipe, ifp, lp, out, timedOut, failed, faults>>
  BY DEF Close, processes, NoFault
<1>3. PICK to \in {"done", "lp_wait", "send"}, e \in Codes :
        /\ w' \in Worker(c) /\ Has(w', to, w.at, w.piece, w.half, w.err, e)
        /\ to = "done" => e # "JSUCC" \/ (e = w.err /\ c.out \in {"device", "filter"})
        /\ to = "lp_wait" => c.out = "pipe"
        /\ to = "send" => c.out = "bounce" \/ (c.out = "filter" /\ w.err = "JSUCC")
  <2> w \in Worker(c) /\ w.err \in Codes /\ w.status \in Codes /\ "JABORT" \in Codes
    BY DEF PrintInv, Typed, Worker, Codes
  <2> "lp_wait" \in Places /\ "send" \in Places
    BY DEF Places
  <2>1. CASE c.out = "device"
    BY <2>1, FinishHas DEF Close
  <2>2. CASE c.out = "pipe"
    BY <2>2, GoHas DEF Close
  <2>3. CASE c.out = "filter"
    BY <2>3, FinishHas, GoHas DEF Close
  <2>4. CASE c.out = "bounce"
    BY <2>4, FinishHas, GoHas DEF Close
  <2> QED
    BY <1>1, <2>1, <2>2, <2>3, <2>4
<1>4. Typed(c)'
  BY <1>1, <1>2, <1>3 DEF PrintInv, Typed
<1>5. PlaceInv(c)'
  BY <1>1, <1>2, <1>3 DEF PrintInv, PlaceInv, Has, In, AtEnd, Gaps, Left
<1>6. ProcInv(c)'
  BY <1>1, <1>2, <1>3 DEF PrintInv, ProcInv, PlaceInv, Has, In, AtEnd, Gaps, Left,
     Held, GapItem, Suspends
<1>7. StatusInv(c)'
  BY <1>1, <1>2, <1>3, Processes DEF PrintInv, StatusInv, PlaceInv, ProcInv, OutInv,
     Has, AllOut, AtEnd, In, Gaps, Left
<1>8. ~timedOut' => OutInv(c)' /\ Ordered(c, out)'
  BY <1>1, <1>2, <1>3 DEF PrintInv, OutInv, PlaceInv, Has, In, AtEnd, Gaps, Left,
     Unwritten, Held, GapItem, Suspends
<1> QED
  BY <1>4, <1>5, <1>6, <1>7, <1>8 DEF PrintInv

\* The exit status of the program behind lp is the job's.
LEMMA WaitLPKeeps ==
  ASSUME NEW c \in Configs, cfg = c, cfg' = c, PrintInv(c), WaitLP
  PROVE  PrintInv(c)'
<1>1. w.pc = "lp_wait" /\ c.out = "pipe"
  BY DEF WaitLP, PrintInv, PlaceInv
<1>2. UNCHANGED <<of, ofPipe, ifp, out, timedOut, failed, faults>> /\ lp' \in Process
  BY Processes DEF WaitLP, NoFault
<1>3. PICK e \in Codes : w' \in Worker(c) /\ Has(w', "done", w.at, w.piece, w.half, w.err, e)
  BY FinishHas DEF PrintInv, Typed, Process, WaitLP
<1>4. Typed(c)'
  BY <1>1, <1>2, <1>3 DEF PrintInv, Typed
<1>5. PlaceInv(c)'
  BY <1>1, <1>2, <1>3 DEF PrintInv, PlaceInv, Has, In, AtEnd, Gaps, Left
<1>6. ProcInv(c)'
  BY <1>1, <1>2, <1>3 DEF PrintInv, ProcInv, PlaceInv, Has, In, AtEnd, Gaps, Left,
     Held, GapItem, Suspends
<1>7. StatusInv(c)'
  BY <1>1, <1>2, <1>3 DEF PrintInv, StatusInv, PlaceInv, Has, AllOut
<1>8. ~timedOut' => OutInv(c)' /\ Ordered(c, out)'
  BY <1>1, <1>2, <1>3 DEF PrintInv, OutInv, PlaceInv, Has, In, AtEnd, Gaps, Left,
     Unwritten, Held, GapItem, Suspends
<1> QED
  BY <1>4, <1>5, <1>6, <1>7, <1>8 DEF PrintInv

\* The wait for it times out, and so does the job.
LEMMA LpTimeoutKeeps ==
  ASSUME NEW c \in Configs, cfg = c, cfg' = c, PrintInv(c), LpTimeout
  PROVE  PrintInv(c)'
<1>1. w.pc = "lp_wait" /\ lp.state = "running"
  BY DEF LpTimeout, Timeout
<1>2. UNCHANGED <<of, ofPipe, ifp, lp, out, failed>> /\ timedOut' = TRUE
  BY DEF LpTimeout, processes, Timeout
<1>3. failed' \in BOOLEAN /\ faults' \in 0 .. MaxFaults
  BY CountersKept DEF PrintInv, LpTimeout, Timeout
<1>4. w' \in Worker(c) /\ Has(w', "done", w.at, w.piece, w.half, w.err, "JTIMEOUT")
  BY FinishHas DEF PrintInv, Typed, LpTimeout, Codes
<1>5. Typed(c)'
  BY <1>1, <1>2, <1>3, <1>4 DEF PrintInv, Typed
<1>6. PlaceInv(c)'
  BY <1>1, <1>2, <1>3, <1>4 DEF PrintInv, PlaceInv, Has, In, AtEnd, Gaps, Left
<1>7. ProcInv(c)'
  BY <1>1, <1>2, <1>3, <1>4 DEF PrintInv, ProcInv, PlaceInv, Has, In, AtEnd, Gaps,
     Left, Held, GapItem, Suspends
<1>8. StatusInv(c)'
  BY <1>1, <1>2, <1>3, <1>4 DEF PrintInv, StatusInv, PlaceInv, Has, AllOut
<1>9. ~timedOut' => OutInv(c)' /\ Ordered(c, out)'
  BY <1>1, <1>2, <1>3, <1>4 DEF PrintInv, OutInv, PlaceInv, Has, In, AtEnd, Gaps,
     Left, Unwritten, Held, GapItem, Suspends
<1> QED
  BY <1>5, <1>6, <1>7, <1>8, <1>9 DEF PrintInv

\* The filtered job is sent on or not; a failure is its status.
LEMMA SendOnKeeps ==
  ASSUME NEW c \in Configs, cfg = c, cfg' = c, PrintInv(c), SendOn
  PROVE  PrintInv(c)'
<1>1. w.pc = "send"
  BY DEF SendOn
<1>2. UNCHANGED <<of, ofPipe, ifp, lp, out, timedOut>>
  BY DEF SendOn, processes
<1>3. failed' \in BOOLEAN /\ faults' \in 0 .. MaxFaults
  BY CountersKept DEF PrintInv, SendOn
<1>4. PICK e \in {"JSUCC", "JFAIL"} :
        /\ w' \in Worker(c) /\ Has(w', "done", w.at, w.piece, w.half, w.err, e)
        /\ e = "JSUCC" => UNCHANGED failed
  BY FinishHas DEF PrintInv, Typed, SendOn, NoFault, Codes
<1>5. Typed(c)'
  BY <1>1, <1>2, <1>3, <1>4 DEF PrintInv, Typed
<1>6. PlaceInv(c)'
  BY <1>1, <1>2, <1>3, <1>4 DEF PrintInv, PlaceInv, Has, In, AtEnd, Gaps, Left
<1>7. ProcInv(c)'
  BY <1>1, <1>2, <1>3, <1>4 DEF PrintInv, ProcInv, PlaceInv, Has, In, AtEnd, Gaps,
     Left, Held, GapItem, Suspends
<1>8. StatusInv(c)'
  BY <1>1, <1>2, <1>3, <1>4, Processes DEF PrintInv, StatusInv, PlaceInv, ProcInv,
     OutInv, Has, AllOut, AtEnd, In, Gaps, Left
<1>9. ~timedOut' => OutInv(c)' /\ Ordered(c, out)'
  BY <1>1, <1>2, <1>3, <1>4 DEF PrintInv, OutInv, PlaceInv, Has, In, AtEnd, Gaps,
     Left, Unwritten, Held, GapItem, Suspends
<1> QED
  BY <1>5, <1>6, <1>7, <1>8, <1>9 DEF PrintInv

-----------------------------------------------------------------------------
(* The programs.                                                           *)

\* The OF filter puts out what is first in its pipe, or stops there.
LEMMA OfReadsKeeps ==
  ASSUME NEW c \in Configs, cfg = c, cfg' = c, PrintInv(c), OfReads
  PROVE  PrintInv(c)'
<1>1. of.state = "running" /\ ofPipe # <<>>
  BY DEF OfReads
<1>2. UNCHANGED <<w, ifp, lp, timedOut, failed, faults>>
  BY DEF OfReads, NoFault
<1>3. GapItem(c)' = GapItem(c) /\ Suspends(c)' = Suspends(c)
  BY <1>2 DEF GapItem, Suspends
<1>4. ofPipe' \in Seq(Whole(c) \cup {Stop}) /\ Stop \notin Whole(c) /\ of \in Process
  <2>1. ofPipe \in Seq(Whole(c) \cup {Stop}) /\ Stop \in Whole(c) \cup {Stop}
    BY DEF PrintInv, Typed
  <2>2. ofPipe' = SubSeq(ofPipe, 2, Len(ofPipe))
    BY DEF OfReads
  <2>3. ofPipe' \in Seq(Whole(c) \cup {Stop})
    BY <1>1, <2>1, <2>2, Shorts
  <2> QED
    BY <2>3, Members DEF PrintInv, Typed
<1>5. \/ of' = [of EXCEPT !.state = "stopped"] /\ out' = out /\ Head(ofPipe) = Stop
      \/ of' = of /\ out' = Append(out, Head(ofPipe)) /\ Head(ofPipe) \in Whole(c)
  <2>1. Head(ofPipe) \in Whole(c) \cup {Stop}
    <3>1. ofPipe \in Seq(Whole(c) \cup {Stop}) /\ Stop \in Whole(c) \cup {Stop}
      BY DEF PrintInv, Typed
    <3> QED
      BY <1>1, <3>1, Shorts
  <2> QED
    BY <2>1 DEF OfReads
<1>6. /\ of' \in Process /\ of'.code = "JSUCC"
      /\ of'.state = "running" \/ (of'.state = "stopped" /\ Head(ofPipe) = Stop)
  <2>1. of.code = "JSUCC"
    BY <1>1 DEF PrintInv, ProcInv
  <2>2. CASE of' = of
    BY <1>1, <1>4, <2>1, <2>2
  <2>3. CASE of' = [of EXCEPT !.state = "stopped"] /\ Head(ofPipe) = Stop
    BY <1>4, <2>1, <2>3, ProcessUpdates
  <2> QED
    BY <1>5, <2>2, <2>3
<1>7. /\ ~timedOut => w.pc = "of_wait"
      /\ \/ Held(c) /\ Head(ofPipe) = GapItem(c) /\ GapItem(c) \in Whole(c)
         \/ ~Held(c) /\ Head(ofPipe) = Stop
      /\ ~Held(c)'
      /\ Head(ofPipe) = Stop => ofPipe' = <<>>
      /\ ofPipe' = <<>> \/ (Suspends(c) /\ ofPipe' = <<Stop>>)
  <2> DEFINE G == GapItem(c)
             S == Whole(c) \cup {Stop}
  <2>1. ~timedOut => w.pc = "of_wait"
    BY <1>1 DEF PrintInv, ProcInv, Left
  <2>2. \/ G \in Whole(c) /\ Suspends(c) /\ ofPipe = <<G, Stop>>
        \/ G \in Whole(c) /\ ~Suspends(c) /\ ofPipe = <<G>>
        \/ Suspends(c) /\ ofPipe = <<Stop>>
    BY <1>1 DEF PrintInv, ProcInv, Held
  <2>3. ofPipe' = SubSeq(ofPipe, 2, Len(ofPipe)) /\ Stop \in S /\ Stop \notin Whole(c)
    BY <1>4 DEF OfReads
  <2>4. Held(c)' <=> G \in Whole(c) /\ ofPipe' = IF Suspends(c) THEN <<G, Stop>> ELSE <<G>>
    BY <1>3 DEF Held
  <2>5. Held(c) <=> G \in Whole(c) /\ ofPipe = IF Suspends(c) THEN <<G, Stop>> ELSE <<G>>
    BY DEF Held
  <2> HIDE DEF G
  <2>6. CASE G \in Whole(c) /\ Suspends(c) /\ ofPipe = <<G, Stop>>
    <3>1. G \in S
      BY <2>6
    <3> HIDE DEF S
    <3>2. Len(ofPipe) = 2 /\ Head(ofPipe) = G
      BY <2>3, <2>6, <3>1, Shorts
    <3>3. ofPipe' = <<Stop>>
      BY <2>3, <2>6, <3>1, <3>2, SecondOfTwo
    <3>4. <<Stop>> # <<G, Stop>>
      BY <2>3, <3>1, Shorts
    <3> QED
      BY <2>1, <2>3, <2>4, <2>5, <2>6, <3>2, <3>3, <3>4 DEF G
  <2>7. CASE G \in Whole(c) /\ ~Suspends(c) /\ ofPipe = <<G>>
    <3>1. G \in S
      BY <2>7
    <3> HIDE DEF S
    <3>2. Len(ofPipe) = 1 /\ Head(ofPipe) = G
      BY <2>3, <2>7, <3>1, Shorts
    <3>3. ofPipe' = <<>> /\ <<>> # <<G>>
      BY <2>3, <2>7, <3>1, <3>2, Shorts
    <3> QED
      BY <2>1, <2>3, <2>4, <2>5, <2>7, <3>2, <3>3 DEF G
  <2>8. CASE Suspends(c) /\ ofPipe = <<Stop>>
    <3> HIDE DEF S
    <3>1. Len(ofPipe) = 1 /\ Head(ofPipe) = Stop /\ ofPipe' = <<>>
      BY <2>3, <2>8, Shorts
    <3>2. G \in Whole(c) => <<Stop>> # <<G, Stop>> /\ <<>> # <<G, Stop>>
      BY <2>3, Shorts DEF S
    <3> QED
      BY <2>1, <2>3, <2>4, <2>5, <2>8, <3>1, <3>2 DEF G
  <2> QED
    BY <2>2, <2>6, <2>7, <2>8
<1>8. /\ out' \in Seq(Whole(c))
      /\ ~timedOut =>
           /\ Ordered(c, out')
           /\ w.err = "JSUCC" => Items(out') = Upto(c, GapItem(c))
  <2>1. CASE Head(ofPipe) = Stop
    <3>1. out' = out
      BY <1>4, <1>5, <2>1
    <3>2. ~timedOut => w.pc \in Gaps /\ ~Unwritten(c)
      BY <1>4, <1>7, <2>1 DEF Unwritten, Gaps
    <3> QED
      BY <3>1, <3>2 DEF PrintInv, Typed, OutInv
  <2>2. CASE Head(ofPipe) # Stop
    <3>1. out' = Append(out, Head(ofPipe)) /\ Head(ofPipe) \in Whole(c)
      BY <1>5, <2>2
    <3>2. out \in Seq(Whole(c))
      BY DEF PrintInv, Typed
    <3>3. out' \in Seq(Whole(c))
      BY <3>1, <3>2, ItemsAppend
    <3>4. ASSUME ~timedOut
          PROVE  w.pc \in Gaps /\ Unwritten(c) /\ Head(ofPipe) = GapItem(c)
      BY <1>7, <2>2, <3>4 DEF Unwritten, Gaps
    <3>5. ASSUME ~timedOut
          PROVE  /\ Ordered(c, out')
                 /\ w.err = "JSUCC" => Items(out') = Upto(c, GapItem(c))
      BY <3>1, <3>4, <3>5, GapItemOut
    <3> QED
      BY <3>3, <3>5
  <2> QED
    BY <2>1, <2>2
<1>9. Typed(c)'
  BY <1>2, <1>4, <1>6, <1>8 DEF PrintInv, Typed
<1>10. PlaceInv(c)'
  BY <1>2 DEF PrintInv, PlaceInv, In, AtEnd
<1>11. ProcInv(c)'
  BY <1>1, <1>2, <1>3, <1>6, <1>7, Processes DEF PrintInv, ProcInv, Left
<1>12. StatusInv(c)'
  BY <1>1, <1>2, <1>6, Processes DEF PrintInv, StatusInv, AllOut
<1>13. ~timedOut' => OutInv(c)' /\ Ordered(c, out)'
  BY <1>2, <1>3, <1>7, <1>8 DEF OutInv, Unwritten, Gaps
<1> QED
  BY <1>9, <1>10, <1>11, <1>12, <1>13 DEF PrintInv

\* It ends with an empty pipe, or with an error.
LEMMA OfEndsKeeps ==
  ASSUME NEW c \in Configs, cfg = c, cfg' = c, PrintInv(c), OfEnds
  PROVE  PrintInv(c)'
<1>1. of.state = "running"
  BY DEF OfEnds
<1>2. UNCHANGED <<w, ofPipe, ifp, lp, out, timedOut>>
  BY DEF OfEnds
<1>3. failed' \in BOOLEAN /\ faults' \in 0 .. MaxFaults
  BY CountersKept DEF PrintInv, OfEnds
<1>4. /\ of' \in Process /\ of'.state = "exited"
      /\ \/ /\ of'.code = "JSUCC" /\ ofPipe = <<>> /\ failed' = failed
            /\ ~timedOut => w.pc = "of_wait" /\ ~Suspends(c)
         \/ of'.code = "JFAIL"
  <2> of \in Process /\ of.code = "JSUCC" /\ "JFAIL" \in Codes
    BY <1>1 DEF PrintInv, Typed, ProcInv, Codes
  <2>1. CASE ofPipe = <<>> /\ OfEof /\ of' = [of EXCEPT !.state = "exited"] /\ NoFault
    <3>1. ~timedOut => w.pc = "of_wait" /\ ~Suspends(c)
      BY <1>1, <2>1 DEF PrintInv, ProcInv, OfEof, Suspending, Suspends
    <3> QED
      BY <2>1, <3>1, ProcessUpdates DEF NoFault
  <2>2. CASE of' = [of EXCEPT !.state = "exited", !.code = "JFAIL"]
    BY <2>2, ProcessExits
  <2> QED
    BY <2>1, <2>2 DEF OfEnds
<1>5. Typed(c)'
  BY <1>1, <1>2, <1>3, <1>4 DEF PrintInv, Typed
<1>6. PlaceInv(c)'
  BY <1>1, <1>2, <1>3, <1>4 DEF PrintInv, PlaceInv, In, AtEnd
<1>7. ProcInv(c)'
  BY <1>1, <1>2, <1>3, <1>4, Processes DEF PrintInv, ProcInv, Held, GapItem, Suspends
<1>8. StatusInv(c)'
  BY <1>1, <1>2, <1>3, <1>4, Processes DEF PrintInv, StatusInv, AllOut
<1>9. ~timedOut' => OutInv(c)' /\ Ordered(c, out)'
  BY <1>1, <1>2, <1>3, <1>4 DEF PrintInv, OutInv, ProcInv, Unwritten, Held, GapItem,
     Suspends, Gaps
<1> QED
  BY <1>5, <1>6, <1>7, <1>8, <1>9 DEF PrintInv

\* It fails: the exit code says so.
LEMMA OfFailsKeeps ==
  ASSUME NEW c \in Configs, cfg = c, cfg' = c, PrintInv(c), OfFails
  PROVE  PrintInv(c)'
<1>1. of.state \in {"running", "stopped"}
  BY DEF OfFails
<1>2. UNCHANGED <<w, ofPipe, ifp, lp, out, timedOut>>
  BY DEF OfFails
<1>3. failed' \in BOOLEAN /\ faults' \in 0 .. MaxFaults /\ failed' = TRUE
  BY CountersKept DEF PrintInv, OfFails, Fault
<1>4. of' \in Process /\ of'.state = "exited" /\ of'.code = "JFAIL"
  <2>1. of \in Process /\ "JFAIL" \in Codes
    BY DEF PrintInv, Typed, Codes
  <2> QED
    BY <2>1, ProcessExits DEF OfFails
<1>5. Typed(c)'
  BY <1>1, <1>2, <1>3, <1>4 DEF PrintInv, Typed
<1>6. PlaceInv(c)'
  BY <1>1, <1>2, <1>3, <1>4 DEF PrintInv, PlaceInv, In, AtEnd
<1>7. ProcInv(c)'
  BY <1>1, <1>2, <1>3, <1>4, Processes DEF PrintInv, ProcInv, Held, GapItem, Suspends
<1>8. StatusInv(c)'
  BY <1>1, <1>2, <1>3, <1>4, Processes DEF PrintInv, StatusInv, AllOut
<1>9. ~timedOut' => OutInv(c)' /\ Ordered(c, out)'
  BY <1>1, <1>2, <1>3, <1>4 DEF PrintInv, OutInv, ProcInv, Unwritten, Held, GapItem,
     Suspends, Gaps
<1> QED
  BY <1>5, <1>6, <1>7, <1>8, <1>9 DEF PrintInv

\* The filter of a file puts out the half that is next.
LEMMA IfPrintsKeeps ==
  ASSUME NEW c \in Configs, cfg = c, cfg' = c, PrintInv(c), IfPrints
  PROVE  PrintInv(c)'
<1>1. ifp.state = "running" /\ ifp.half \in 1 .. 2
  BY DEF IfPrints, PrintInv, Typed, Process
<1>2. UNCHANGED <<w, of, ofPipe, lp, timedOut, failed, faults>>
  BY DEF IfPrints, NoFault
<1>3. /\ ifp' \in Process /\ ifp'.state = "running" /\ ifp'.half = ifp.half + 1
      /\ ifp'.code = ifp.code
  BY <1>1, NextHalf DEF PrintInv, Typed, IfPrints
<1>4. w.piece \in 1 .. Count(c) /\ Count(c) \in Nat /\ out \in Seq(Whole(c))
  BY <1>1, PieceTyped DEF PrintInv, ProcInv, Typed
<1>5. /\ out' \in Seq(Whole(c))
      /\ ~timedOut =>
           /\ w.pc = "if_wait" /\ Ordered(c, out')
           /\ Items(out') = Below(c, Half(w.piece, ifp.half + 1))
  <2> DEFINE h == ifp.half
  <2>1. out' = Append(out, Half(w.piece, h)) /\ h \in 1 .. 2
    BY <1>1 DEF IfPrints
  <2>2. ~timedOut => w.pc = "if_wait"
    BY <1>1 DEF PrintInv, ProcInv
  <2>3. ~timedOut => Ordered(c, out) /\ Items(out) = Below(c, Half(w.piece, h))
    BY <2>2 DEF PrintInv, OutInv
  <2> HIDE DEF h
  <2>4. /\ out' \in Seq(Whole(c))
        /\ Ordered(c, out) /\ Items(out) = Below(c, Half(w.piece, h)) =>
             Ordered(c, out') /\ Items(out') = Below(c, Half(w.piece, h + 1))
    BY <1>4, <2>1, HalfOut
  <2> QED
    BY <2>2, <2>3, <2>4 DEF h
<1>6. Typed(c)'
  BY <1>2, <1>3, <1>5 DEF PrintInv, Typed
<1>7. PlaceInv(c)'
  BY <1>2 DEF PrintInv, PlaceInv, In, AtEnd
<1>8. ProcInv(c)'
  BY <1>1, <1>2, <1>3 DEF PrintInv, ProcInv, Held, GapItem, Suspends
<1>9. StatusInv(c)'
  BY <1>1, <1>2, <1>3, Processes DEF PrintInv, StatusInv, AllOut
<1>10. ~timedOut' => OutInv(c)' /\ Ordered(c, out)'
  BY <1>2, <1>3, <1>5 DEF OutInv, Gaps
<1> QED
  BY <1>6, <1>7, <1>8, <1>9, <1>10 DEF PrintInv

\* It ends with both halves out, or with an error.
LEMMA IfEndsKeeps ==
  ASSUME NEW c \in Configs, cfg = c, cfg' = c, PrintInv(c), IfEnds
  PROVE  PrintInv(c)'
<1>1. ifp.state = "running"
  BY DEF IfEnds
<1>2. UNCHANGED <<w, of, ofPipe, lp, out, timedOut>>
  BY DEF IfEnds
<1>3. failed' \in BOOLEAN /\ faults' \in 0 .. MaxFaults
  BY CountersKept DEF PrintInv, IfEnds
<1>4. /\ ifp' \in Process /\ ifp'.state = "exited" /\ ifp'.half = ifp.half
      /\ \/ ifp'.code = "JSUCC" /\ ifp.half = 3 /\ failed' = failed
         \/ ifp'.code = "JFAIL"
  <2> ifp \in Process /\ ifp.code = "JSUCC" /\ "JFAIL" \in Codes
    BY <1>1 DEF PrintInv, Typed, ProcInv, Codes
  <2>1. CASE ifp.half = 3 /\ ifp' = [ifp EXCEPT !.state = "exited"] /\ NoFault
    BY <2>1, ProcessUpdates DEF NoFault
  <2>2. CASE ifp' = [ifp EXCEPT !.state = "exited", !.code = "JFAIL"]
    BY <2>2, ProcessExits
  <2> QED
    BY <2>1, <2>2 DEF IfEnds
<1>5. Typed(c)'
  BY <1>1, <1>2, <1>3, <1>4 DEF PrintInv, Typed
<1>6. PlaceInv(c)'
  BY <1>1, <1>2, <1>3, <1>4 DEF PrintInv, PlaceInv, In, AtEnd
<1>7. ProcInv(c)'
  BY <1>1, <1>2, <1>3, <1>4, Processes DEF PrintInv, ProcInv, Held, GapItem, Suspends
<1>8. StatusInv(c)'
  BY <1>1, <1>2, <1>3, <1>4, Processes DEF PrintInv, StatusInv, AllOut
<1>9. ~timedOut' => OutInv(c)' /\ Ordered(c, out)'
  BY <1>1, <1>2, <1>3, <1>4 DEF PrintInv, OutInv, ProcInv, Unwritten, Held, GapItem,
     Suspends, Gaps
<1> QED
  BY <1>5, <1>6, <1>7, <1>8, <1>9 DEF PrintInv

\* It fails: the exit code says so.
LEMMA IfFailsKeeps ==
  ASSUME NEW c \in Configs, cfg = c, cfg' = c, PrintInv(c), IfFails
  PROVE  PrintInv(c)'
<1>1. ifp.state = "running"
  BY DEF IfFails
<1>2. UNCHANGED <<w, of, ofPipe, lp, out, timedOut>>
  BY DEF IfFails
<1>3. failed' \in BOOLEAN /\ faults' \in 0 .. MaxFaults
  BY CountersKept DEF PrintInv, IfFails
<1>4. /\ ifp' \in Process /\ ifp'.state = "exited" /\ ifp'.half = ifp.half
      /\ ifp'.code # "JSUCC"
  <2>1. PICK code \in {"JFAIL", "JABORT"} : ifp' = [ifp EXCEPT !.state = "exited", !.code = code]
    BY DEF IfFails
  <2>2. code \in Codes /\ ifp \in Process
    BY DEF PrintInv, Typed, Codes
  <2> QED
    BY <2>1, <2>2, ProcessExits
<1>5. Typed(c)'
  BY <1>1, <1>2, <1>3, <1>4 DEF PrintInv, Typed
<1>6. PlaceInv(c)'
  BY <1>1, <1>2, <1>3, <1>4 DEF PrintInv, PlaceInv, In, AtEnd
<1>7. ProcInv(c)'
  BY <1>1, <1>2, <1>3, <1>4, Processes DEF PrintInv, ProcInv, Held, GapItem, Suspends
<1>8. StatusInv(c)'
  BY <1>1, <1>2, <1>3, <1>4, Processes DEF PrintInv, StatusInv, AllOut
<1>9. ~timedOut' => OutInv(c)' /\ Ordered(c, out)'
  BY <1>1, <1>2, <1>3, <1>4 DEF PrintInv, OutInv, ProcInv, Unwritten, Held, GapItem,
     Suspends, Gaps
<1> QED
  BY <1>5, <1>6, <1>7, <1>8, <1>9 DEF PrintInv

\* The program behind lp ends with its input ...
LEMMA LpEndsKeeps ==
  ASSUME NEW c \in Configs, cfg = c, cfg' = c, PrintInv(c), LpEnds
  PROVE  PrintInv(c)'
<1>1. c.out = "pipe"
  BY Processes DEF LpEnds, PrintInv, ProcInv
<1>2. UNCHANGED <<w, of, ofPipe, ifp, out, timedOut>>
  BY DEF LpEnds
<1>3. failed' \in BOOLEAN /\ faults' \in 0 .. MaxFaults
  BY CountersKept DEF PrintInv, LpEnds
<1>4. lp' \in Process
  BY ProcessUpdates DEF PrintInv, Typed, LpEnds, Codes
<1>5. Typed(c)'
  BY <1>1, <1>2, <1>3, <1>4 DEF PrintInv, Typed
<1>6. PlaceInv(c)'
  BY <1>1, <1>2, <1>3, <1>4 DEF PrintInv, PlaceInv, In, AtEnd
<1>7. ProcInv(c)'
  BY <1>1, <1>2, <1>3, <1>4, Processes DEF PrintInv, ProcInv, Held, GapItem, Suspends
<1>8. StatusInv(c)'
  BY <1>1, <1>2, <1>3, <1>4, Processes DEF PrintInv, StatusInv, AllOut
<1>9. ~timedOut' => OutInv(c)' /\ Ordered(c, out)'
  BY <1>1, <1>2, <1>3, <1>4 DEF PrintInv, OutInv, ProcInv, Unwritten, Held, GapItem,
     Suspends, Gaps
<1> QED
  BY <1>5, <1>6, <1>7, <1>8, <1>9 DEF PrintInv

\* ... or earlier; no other queue has one.
LEMMA LpFailsKeeps ==
  ASSUME NEW c \in Configs, cfg = c, cfg' = c, PrintInv(c), LpFails
  PROVE  PrintInv(c)'
<1>1. c.out = "pipe"
  BY Processes DEF LpFails, PrintInv, ProcInv
<1>2. UNCHANGED <<w, of, ofPipe, ifp, out, timedOut>>
  BY DEF LpFails
<1>3. failed' \in BOOLEAN /\ faults' \in 0 .. MaxFaults
  BY CountersKept DEF PrintInv, LpFails
<1>4. lp' \in Process
  BY ProcessUpdates DEF PrintInv, Typed, LpFails, Codes
<1>5. Typed(c)'
  BY <1>1, <1>2, <1>3, <1>4 DEF PrintInv, Typed
<1>6. PlaceInv(c)'
  BY <1>1, <1>2, <1>3, <1>4 DEF PrintInv, PlaceInv, In, AtEnd
<1>7. ProcInv(c)'
  BY <1>1, <1>2, <1>3, <1>4, Processes DEF PrintInv, ProcInv, Held, GapItem, Suspends
<1>8. StatusInv(c)'
  BY <1>1, <1>2, <1>3, <1>4, Processes DEF PrintInv, StatusInv, AllOut
<1>9. ~timedOut' => OutInv(c)' /\ Ordered(c, out)'
  BY <1>1, <1>2, <1>3, <1>4 DEF PrintInv, OutInv, ProcInv, Unwritten, Held, GapItem,
     Suspends, Gaps
<1> QED
  BY <1>5, <1>6, <1>7, <1>8, <1>9 DEF PrintInv

-----------------------------------------------------------------------------
(* The theorems.                                                           *)

\* Each step of the worker keeps it ...
LEMMA WorkKeeps ==
  ASSUME NEW c \in Configs, cfg = c, PrintInv(c), Work
  PROVE  cfg' = c /\ PrintInv(c)'
<1>1. cfg' = c
  BY DEF Work, Account, OpenFile, OpenDevice, AtLead, WriteOutbuf, StartOF,
     WriteOF, Suspended, Ended, NextFile, Separate, StartIF, NoFilter, WaitIF,
     CopyHalf, AtTail, SkipFile, FilterFile, FilteredFile, AllFiltered, Close,
     WaitLP, SendOn
<1>2. CASE Account
  BY <1>1, <1>2, AccountKeeps
<1>3. CASE OpenFile
  BY <1>1, <1>3, OpenFileKeeps
<1>4. CASE OpenDevice
  BY <1>1, <1>4, OpenDeviceKeeps
<1>5. CASE AtLead
  BY <1>1, <1>5, AtLeadKeeps
<1>6. CASE WriteOutbuf
  BY <1>1, <1>6, WriteOutbufKeeps
<1>7. CASE StartOF
  BY <1>1, <1>7, StartOFKeeps
<1>8. CASE WriteOF
  BY <1>1, <1>8, WriteOFKeeps
<1>9. CASE Suspended
  BY <1>1, <1>9, SuspendedKeeps
<1>10. CASE Ended
  BY <1>1, <1>10, EndedKeeps
<1>11. CASE NextFile
  BY <1>1, <1>11, NextFileKeeps
<1>12. CASE Separate
  BY <1>1, <1>12, SeparateKeeps
<1>13. CASE StartIF
  BY <1>1, <1>13, StartIFKeeps
<1>14. CASE NoFilter
  BY <1>1, <1>14, NoFilterKeeps
<1>15. CASE WaitIF
  BY <1>1, <1>15, WaitIFKeeps
<1>16. CASE CopyHalf
  BY <1>1, <1>16, CopyHalfKeeps
<1>17. CASE AtTail
  BY <1>1, <1>17, AtTailKeeps
<1>18. CASE SkipFile
  BY <1>1, <1>18, SkipFileKeeps
<1>19. CASE FilterFile
  BY <1>1, <1>19, FilterFileKeeps
<1>20. CASE FilteredFile
  BY <1>1, <1>20, FilteredFileKeeps
<1>21. CASE AllFiltered
  BY <1>1, <1>21, AllFilteredKeeps
<1>22. CASE Close
  BY <1>1, <1>22, CloseKeeps
<1>23. CASE WaitLP
  BY <1>1, <1>23, WaitLPKeeps
<1>24. CASE SendOn
  BY <1>1, <1>24, SendOnKeeps
<1> QED
  BY <1>2, <1>3, <1>4, <1>5, <1>6, <1>7, <1>8, <1>9, <1>10, <1>11, <1>12,
     <1>13, <1>14, <1>15, <1>16, <1>17, <1>18, <1>19, <1>20, <1>21, <1>22,
     <1>23, <1>24 DEF Work

\* ... each failure and timeout ...
LEMMA TroubleKeeps ==
  ASSUME NEW c \in Configs, cfg = c, PrintInv(c), Trouble
  PROVE  cfg' = c /\ PrintInv(c)'
<1>1. cfg' = c
  BY DEF Trouble, CannotOpen, Die, BadFile, WriteOutbufFails, CopyFails,
     OfTimeout, IfTimeout, LpTimeout, OfFails, IfFails, LpFails
<1>2. CASE CannotOpen
  BY <1>1, <1>2, CannotOpenKeeps
<1>3. CASE Die
  BY <1>1, <1>3, DieKeeps
<1>4. CASE BadFile
  BY <1>1, <1>4, BadFileKeeps
<1>5. CASE WriteOutbufFails
  BY <1>1, <1>5, WriteOutbufFailsKeeps
<1>6. CASE CopyFails
  BY <1>1, <1>6, CopyFailsKeeps
<1>7. CASE OfTimeout
  BY <1>1, <1>7, OfTimeoutKeeps
<1>8. CASE IfTimeout
  BY <1>1, <1>8, IfTimeoutKeeps
<1>9. CASE LpTimeout
  BY <1>1, <1>9, LpTimeoutKeeps
<1>10. CASE OfFails
  BY <1>1, <1>10, OfFailsKeeps
<1>11. CASE IfFails
  BY <1>1, <1>11, IfFailsKeeps
<1>12. CASE LpFails
  BY <1>1, <1>12, LpFailsKeeps
<1> QED
  BY <1>2, <1>3, <1>4, <1>5, <1>6, <1>7, <1>8, <1>9, <1>10, <1>11, <1>12 DEF
     Trouble

\* ... and each step of a program.
LEMMA ProgramsKeeps ==
  ASSUME NEW c \in Configs, cfg = c, PrintInv(c), Programs
  PROVE  cfg' = c /\ PrintInv(c)'
<1>1. cfg' = c
  BY DEF Programs, OfReads, OfEnds, IfPrints, IfEnds, LpEnds
<1>2. CASE OfReads
  BY <1>1, <1>2, OfReadsKeeps
<1>3. CASE OfEnds
  BY <1>1, <1>3, OfEndsKeeps
<1>4. CASE IfPrints
  BY <1>1, <1>4, IfPrintsKeeps
<1>5. CASE IfEnds
  BY <1>1, <1>5, IfEndsKeeps
<1>6. CASE LpEnds
  BY <1>1, <1>6, LpEndsKeeps
<1> QED
  BY <1>2, <1>3, <1>4, <1>5, <1>6 DEF Programs

PrintIInv == cfg \in Configs /\ PrintInv(cfg)

\* Before the worker starts nothing runs and nothing is out.
LEMMA PrintInitInv == PrintInit => PrintIInv
<1> SUFFICES ASSUME PrintInit PROVE PrintIInv
  OBVIOUS
<1>1. PICK c \in Configs : cfg = c
  BY DEF PrintInit, Configs
<1>2. /\ w = [pc |-> "account", at |-> "lead", piece |-> 1, half |-> 1, try |-> 1,
              err |-> "JSUCC", status |-> "JSUCC"]
      /\ of = NoProcess /\ ofPipe = <<>> /\ ifp = NoProcess /\ lp = NoProcess /\ out = <<>>
      /\ failed = FALSE /\ timedOut = FALSE /\ faults = 0
  BY DEF PrintInit
<1>3. w \in Worker(c) /\ Has(w, "account", "lead", 1, 1, "JSUCC", "JSUCC")
  BY <1>2, BoundAssumption, CountNat DEF Worker, Has, Places, Codes
<1>4. Typed(c)
  <2>1. <<>> \in Seq(Whole(c)) /\ <<>> \in Seq(Whole(c) \cup {Stop}) /\ 0 \in 0 .. MaxFaults
    BY BoundAssumption
  <2> QED
    BY <1>2, <1>3, <2>1, Processes DEF Typed
<1>5. PlaceInv(c)
  BY <1>2, <1>3 DEF PlaceInv, Has, In, AtEnd, Gaps, Left
<1>6. ProcInv(c)
  BY <1>2, <1>3, Processes DEF ProcInv, Has
<1>7. StatusInv(c)
  BY <1>2, <1>3 DEF StatusInv, Has
<1>8. OutInv(c) /\ Ordered(c, out)
  BY <1>2, <1>3, NothingOrdered, BelowLeader DEF OutInv, Has, Gaps
<1> QED
  BY <1>1, <1>4, <1>5, <1>6, <1>7, <1>8 DEF PrintIInv, PrintInv

\* Every step keeps it.
LEMMA PrintNextInv == PrintIInv /\ [PrintNext]_printVars => PrintIInv'
<1> SUFFICES ASSUME PrintIInv, [PrintNext]_printVars PROVE PrintIInv'
  OBVIOUS
<1>1. PICK c \in Configs : cfg = c /\ PrintInv(c)
  BY DEF PrintIInv
<1>2. CASE UNCHANGED printVars
  <2>1. cfg' = cfg /\ PrintInv(c)'
    BY <1>1, <1>2 DEF printVars, PrintInv, Typed, PlaceInv, In, AtEnd, ProcInv,
       GapItem, Suspends,
       Held, Unwritten, OutInv, AllOut, StatusInv
  <2> QED
    BY <1>1, <2>1 DEF PrintIInv
<1>3. CASE PrintNext
  <2>1. cfg' = c /\ PrintInv(c)'
    BY <1>1, <1>3, WorkKeeps, TroubleKeeps, ProgramsKeeps DEF PrintNext
  <2> QED
    BY <2>1 DEF PrintIInv
<1> QED
  BY <1>2, <1>3

\* What the invariant says of a state.
LEMMA PrintIInvSays == PrintIInv => PrintTypeOK /\ OutputInOrder /\ SuccessIsPrinted
<1> SUFFICES ASSUME PrintIInv PROVE PrintTypeOK /\ OutputInOrder /\ SuccessIsPrinted
  OBVIOUS
<1>1. PICK c \in Configs : cfg = c /\ PrintInv(c)
  BY DEF PrintIInv
<1>2. Pieces = Count(c) /\ Trailer = Last(c) /\ Wanted = Whole(c)
  BY <1>1, CountIs
<1>3. PrintTypeOK
  BY <1>1, <1>2 DEF PrintInv, Typed, PrintTypeOK, Worker, Process, Places
<1>4. OutputInOrder
  BY <1>1, <1>2 DEF PrintInv, OutputInOrder, Ordered, Below
<1>5. SuccessIsPrinted
  BY <1>1, <1>2 DEF PrintInv, StatusInv, AllOut, Items, SuccessIsPrinted
<1> QED
  BY <1>3, <1>4, <1>5

\* The invariant holds throughout.
LEMMA PrintAlways == PrintSpec => []PrintIInv
BY PrintInitInv, PrintNextInv, PTL DEF PrintSpec

\* Type correctness of a job that is printed.
THEOREM PrintTypeCorrect == PrintSpec => []PrintTypeOK
BY PrintAlways, PrintIInvSays, PTL

\* Whatever the worker, the OF filter and the filters of the files write, and
\* whenever one of them fails, the output of Print_job() is the job in its
\* order: nothing of it is missing in the middle and nothing is there twice.
\* Only after a timeout, when a filter may run on, is that not claimed.
THEOREM PrintsInOrder == PrintSpec => []OutputInOrder
BY PrintAlways, PrintIInvSays, PTL

\* When Local_job() on a device, or Remote_job() with filtered files, ends with
\* JSUCC, the whole job went out and nothing had failed, timeouts or not.
THEOREM SuccessMeansPrinted == PrintSpec => []SuccessIsPrinted
BY PrintAlways, PrintIInvSays, PTL
=============================================================================

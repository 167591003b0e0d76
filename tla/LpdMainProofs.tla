--------------------------- MODULE LpdMainProofs ---------------------------
(***************************************************************************)
(* The limit on the processes of lpd (lpd.c:530), for any number of        *)
(* queues, connections and faults and any limit.                           *)
(*                                                                         *)
(* The count that decides is taken once in a pass and then kept by hand    *)
(* (number_of_servers, server_processes_started), while processes end and  *)
(* are forked.  LimitInv says what makes that safe: while lpd may start a  *)
(* queue process the two counters exceed the queue processes there are.    *)
(***************************************************************************)
EXTENDS LpdMain, SequenceTheorems, TLAPS

\* What the members of a list are does not matter here, only how many.
IsList(s) == \E S : s \in Seq(S)

LimitInv ==
    /\ talking \in Nat /\ zombies \in Nat
    /\ IsList(spooled) /\ IsList(serving)
    /\ startDue \in BOOLEAN
    /\ loop \in [servers : Nat, started : Nat, forced : BOOLEAN, elapsed : BOOLEAN]
    /\ ServersBounded
    /\ pc = "start" /\ (loop.elapsed \/ loop.forced)
         => Len(serving) < loop.servers + loop.started

-----------------------------------------------------------------------------
(* Lists.                                                                  *)

LEMMA LenNat == ASSUME NEW s, IsList(s) PROVE Len(s) \in Nat
BY DEF IsList

LEMMA AppendList ==
  ASSUME NEW s, NEW e, IsList(s)
  PROVE  IsList(Append(s, e)) /\ Len(Append(s, e)) = Len(s) + 1
<1>1. PICK S : s \in Seq(S)
  BY DEF IsList
<1>2. s \in Seq(S \cup {e})
  BY <1>1
<1>3. Append(s, e) \in Seq(S \cup {e}) /\ Len(Append(s, e)) = Len(s) + 1
  BY <1>2
<1>. QED
  BY <1>3 DEF IsList

LEMMA RemoveList ==
  ASSUME NEW s, NEW i \in DOMAIN s, IsList(s)
  PROVE  IsList(RemoveAt(s, i)) /\ Len(RemoveAt(s, i)) = Len(s) - 1
<1>1. PICK S : s \in Seq(S)
  BY DEF IsList
<1>2. i \in 1 .. Len(s) /\ Len(s) \in Nat
  BY <1>1
<1>3. SubSeq(s, 1, i - 1) \in Seq(S) /\ Len(SubSeq(s, 1, i - 1)) = i - 1
  BY <1>1, <1>2
<1>4. SubSeq(s, i + 1, Len(s)) \in Seq(S) /\ Len(SubSeq(s, i + 1, Len(s))) = Len(s) - i
  BY <1>1, <1>2
<1>. DEFINE a == SubSeq(s, 1, i - 1)
            b == SubSeq(s, i + 1, Len(s))
<1>5. a \o b \in Seq(S) /\ Len(a \o b) = Len(a) + Len(b)
  <2>. HIDE DEF a, b
  <2>1. a \in Seq(S) /\ b \in Seq(S)
    BY <1>3, <1>4 DEF a, b
  <2>. QED
    BY <2>1, ConcatProperties
<1>6. Len(a) + Len(b) = Len(s) - 1
  <2>1. Len(a) = i - 1 /\ Len(b) = Len(s) - i
    BY <1>3, <1>4
  <2>. HIDE DEF a, b
  <2>. QED
    BY <1>2, <2>1
<1>7. RemoveAt(s, i) = a \o b
  BY DEF RemoveAt
<1>. QED
  BY <1>5, <1>6, <1>7, Zenon DEF IsList

-----------------------------------------------------------------------------
(* The steps.                                                              *)

\* Steps of lpd between a pass and the next, and of everything that neither
\* lets a queue process begin nor end.
LEMMA OutsideStep ==
  ASSUME LimitInv,
         talking' \in Nat, zombies' \in Nat, IsList(spooled'), startDue' \in BOOLEAN,
         UNCHANGED serving,
         loop' = NoLoop \/ (UNCHANGED loop /\ (UNCHANGED pc \/ pc' # "start"))
  PROVE  LimitInv'
<1>1. /\ loop' \in [servers : Nat, started : Nat, forced : BOOLEAN, elapsed : BOOLEAN]
      /\ pc' = "start" /\ (loop'.elapsed \/ loop'.forced)
           => Len(serving) < loop'.servers + loop'.started
  <2>1. CASE loop' = NoLoop
    BY <2>1 DEF NoLoop
  <2>2. CASE UNCHANGED loop /\ (UNCHANGED pc \/ pc' # "start")
    BY <2>2 DEF LimitInv
  <2>. QED
    BY <2>1, <2>2
<1>2. IsList(serving') /\ ServersBounded'
  BY DEF LimitInv, ServersBounded
<1>. QED
  BY <1>1, <1>2, Zenon DEF LimitInv

LEMMA InitLimit == LpdInit => LimitInv
<1>. SUFFICES ASSUME LpdInit PROVE LimitInv
  OBVIOUS
<1>1. IsList(<<>>) /\ Len(<<>>) = 0
  BY DEF IsList
<1>. QED
  BY <1>1, LimitAssumption DEF LpdInit, LimitInv, ServersBounded, NoLoop

\* The count that a pass begins with has the logger in it.
LEMMA BeginStep == LimitInv /\ BeginPass => LimitInv'
<1>. SUFFICES ASSUME LimitInv, BeginPass PROVE LimitInv'
  OBVIOUS
<1>1. /\ UNCHANGED <<talking, spooled, serving, startDue>>
      /\ zombies' = 0
      /\ pc' = "start"
  BY DEF BeginPass, Reap, Goto, connVars
<1>2. One(logger') = 1
  BY DEF BeginPass, LoggerUp, Reaped, One
<1>3. One(poll') \in Nat
  BY DEF One
<1>4. Len(serving) \in Nat /\ Len(spooled) \in Nat
  BY LenNat DEF LimitInv
<1>5. Countpid' \in Nat /\ Len(serving') < Countpid'
  BY <1>1, <1>2, <1>3, <1>4 DEF LimitInv, Countpid
<1>6. \/ loop' = NoLoop
      \/ loop' = [servers |-> Countpid', started |-> 0,
                  forced |-> Forced(list), elapsed |-> startDue]
  BY DEF BeginPass, CountServers
<1>7. Forced(list) \in BOOLEAN
  BY DEF Forced
<1>8. /\ loop' \in [servers : Nat, started : Nat, forced : BOOLEAN, elapsed : BOOLEAN]
      /\ loop'.elapsed \/ loop'.forced => Len(serving') < loop'.servers + loop'.started
  <2>1. CASE loop' = NoLoop
    BY <2>1 DEF NoLoop
  <2>2. CASE loop' = [servers |-> Countpid', started |-> 0,
                      forced |-> Forced(list), elapsed |-> startDue]
    <3>1. startDue \in BOOLEAN /\ Len(serving') \in Nat
      BY <1>1, <1>4 DEF LimitInv
    <3>. HIDE DEF Countpid
    <3>. QED
      BY <2>2, <3>1, <1>5, <1>7
  <2>. QED
    BY <1>6, <2>1, <2>2
<1>9. IsList(serving') /\ IsList(spooled') /\ ServersBounded'
  BY <1>1 DEF LimitInv, ServersBounded
<1>. QED
  BY <1>1, <1>8, <1>9 DEF LimitInv

LEMMA StartStep == LimitInv /\ StartServer => LimitInv'
<1>. SUFFICES ASSUME LimitInv, StartServer PROVE LimitInv'
  OBVIOUS
<1>1. UNCHANGED <<pc, talking, zombies, spooled>> /\ startDue' = FALSE
  BY DEF StartServer, connVars
<1>2. CASE NotForked
  BY <1>1, <1>2, OutsideStep DEF NotForked, LimitInv
<1>3. CASE Forked
  <2>1. IsList(serving') /\ Len(serving') = Len(serving) + 1
    BY <1>3, AppendList DEF Forked, LimitInv
  <2>2. Len(serving) \in Nat
    BY LenNat DEF LimitInv
  <2>3. /\ Len(serving) < loop.servers + loop.started
        /\ loop.servers + loop.started + Reserve < MaxServers
    BY DEF StartServer, MayStart, LimitInv
  <2>4. Forced(list) \in BOOLEAN
    BY DEF Forced
  <2>5. /\ loop' \in [servers : Nat, started : Nat, forced : BOOLEAN, elapsed : BOOLEAN]
        /\ loop'.servers + loop'.started = loop.servers + loop.started + 1
    <3>1. /\ loop.servers \in Nat /\ loop.started \in Nat
          /\ loop.elapsed \in BOOLEAN
      BY DEF LimitInv
    <3>. DEFINE f == Forced(list)
                r == [servers |-> IF f THEN loop.servers + 1 ELSE loop.servers,
                      started |-> IF f THEN loop.started ELSE loop.started + 1,
                      forced  |-> f,
                      elapsed |-> loop.elapsed]
    <3>2. loop' = r
      BY <1>3 DEF Forked
    <3>3. f \in BOOLEAN
      BY <2>4
    <3>. HIDE DEF f
    <3>. QED
      BY <3>1, <3>2, <3>3
  <2>6. loop'.servers \in Nat /\ loop'.started \in Nat /\ loop.servers \in Nat
        /\ loop.started \in Nat
    BY <2>5 DEF LimitInv
  <2>7. ServersBounded' /\ Len(serving') < loop'.servers + loop'.started
    BY <2>1, <2>2, <2>3, <2>5, <2>6, LimitAssumption DEF ServersBounded
  <2>. QED
    BY <1>1, <2>1, <2>5, <2>7 DEF LimitInv
<1>. QED
  BY <1>2, <1>3 DEF StartServer

\* A queue process ends, of itself or killed.
LEMMA EndStep == ASSUME NEW i \in DOMAIN serving, LimitInv, QueueEnds(i) PROVE LimitInv'
<1>1. IsList(serving') /\ Len(serving') = Len(serving) - 1
  BY RemoveList DEF QueueEnds, LimitInv
<1>2. Len(serving) \in Nat
  BY LenNat DEF LimitInv
<1>3. /\ UNCHANGED <<pc, loop, talking, spooled, startDue>>
      /\ zombies' = zombies + 1
  BY DEF QueueEnds, endUnchanged, mainVars, connVars, timeVars
<1>. QED
  BY <1>1, <1>2, <1>3, LimitAssumption DEF LimitInv, ServersBounded

LEMMA StepLimit == LimitInv /\ [LpdNext]_vars => LimitInv'
<1>. SUFFICES ASSUME LimitInv, [LpdNext]_vars PROVE LimitInv'
  OBVIOUS
<1>. USE DEF mainVars, waitVars, timeVars, pipeVars, connVars, procVars, boundVars
<1>1. CASE BeginPass
  BY <1>1, BeginStep
<1>2. CASE NoFork
  BY <1>2, OutsideStep DEF NoFork, Reap, LimitInv
<1>3. CASE StartServer
  BY <1>3, StartStep
<1>4. CASE Wait
  BY <1>4, OutsideStep DEF Wait, LimitInv
<1>5. CASE SelectReturns
  <2>1. pc' # "start"
    BY <1>5 DEF SelectReturns, Goto
  <2>. QED
    BY <1>5, <2>1, OutsideStep DEF SelectReturns, LimitInv
<1>6. CASE HandleReady
  <2>1. pc' # "start"
    BY <1>6 DEF HandleReady, Goto
  <2>2. talking' \in Nat
    BY <1>6 DEF HandleReady, Accept, LimitInv
  <2>. QED
    BY <1>6, <2>1, <2>2, OutsideStep DEF HandleReady, LimitInv
<1>7. ASSUME NEW q \in Queues, SpoolJob(q) PROVE LimitInv'
  <2>1. IsList(spooled')
    BY <1>7, AppendList DEF SpoolJob, LimitInv
  <2>2. talking' \in Nat
    BY <1>7 DEF SpoolJob, LimitInv
  <2>. QED
    BY <1>7, <2>1, <2>2, OutsideStep DEF SpoolJob, LimitInv
<1>8. CASE TellLpd
  <2>1. IsList(spooled')
    BY <1>8, RemoveList DEF TellLpd, LimitInv
  <2>. QED
    BY <1>8, <2>1, OutsideStep DEF TellLpd, ConnEnds, endUnchanged, LimitInv
<1>9. CASE ServeQueue
  BY <1>9, EndStep DEF ServeQueue
<1>10. CASE Refuse
  BY <1>10, OutsideStep DEF Refuse, ConnEnds, endUnchanged, LimitInv
<1>11. CASE CheckQueue
  BY <1>11, OutsideStep DEF CheckQueue, LimitInv
<1>12. CASE EndPoll
  BY <1>12, OutsideStep DEF EndPoll, LimitInv
<1>13. CASE ExitPoll
  BY <1>13, OutsideStep DEF ExitPoll, endUnchanged, LimitInv
<1>14. CASE ExitLogger
  BY <1>14, OutsideStep DEF ExitLogger, endUnchanged, LimitInv
<1>15. CASE Crash
  <2>1. CASE \E i \in DOMAIN serving : QueueEnds(i)
    BY <2>1, EndStep
  <2>2. CASE /\ \E i \in DOMAIN spooled : spooled' = RemoveAt(spooled, i)
             /\ ConnEnds
             /\ UNCHANGED <<talking, requestPipe>>
    <3>1. IsList(spooled')
      BY <2>2, RemoveList DEF LimitInv
    <3>. QED
      BY <2>2, <3>1, OutsideStep DEF ConnEnds, endUnchanged, LimitInv
  <2>3. CASE UNCHANGED <<endUnchanged, talking, spooled, serving, zombies>>
    BY <2>3, OutsideStep DEF endUnchanged, LimitInv
  <2>. QED
    BY <1>15, <2>1, <2>2, <2>3 DEF Crash
<1>16. CASE Connect
  BY <1>16, OutsideStep DEF Connect, LimitInv
<1>17. CASE Hup
  BY <1>17, OutsideStep DEF Hup, LimitInv
<1>18. CASE PollTimePasses
  BY <1>18, OutsideStep DEF PollTimePasses, LimitInv
<1>19. CASE StartIntervalPasses
  BY <1>19, OutsideStep DEF StartIntervalPasses, LimitInv
<1>20. CASE UNCHANGED vars
  BY <1>20, OutsideStep DEF vars, LimitInv
<1>. QED
  BY <1>1, <1>2, <1>3, <1>4, <1>5, <1>6, <1>7, <1>8, <1>9, <1>10, <1>11, <1>12,
     <1>13, <1>14, <1>15, <1>16, <1>17, <1>18, <1>19, <1>20
  DEF LpdNext, LoopStep

\* Queue processes leave the reserve alone, for every limit and any number of
\* connections, failed forks and killed processes (lpd.c:530).
THEOREM QueueProcessesBounded == LpdSpec => []ServersBounded
<1>1. LimitInv => ServersBounded
  BY DEF LimitInv
<1>. QED
  BY InitLimit, StepLimit, <1>1, PTL DEF LpdSpec
=============================================================================

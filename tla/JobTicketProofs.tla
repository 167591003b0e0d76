--------------------------- MODULE JobTicketProofs ---------------------------
(***************************************************************************)
(* Theorems about JobTicket: its types, that a job has one handler at a    *)
(* time, that every copy is counted, and that no more finished jobs are    *)
(* kept than done_jobs says, for any jobs, destinations, copies, attempts  *)
(* and commands.                                                           *)
(***************************************************************************)
EXTENDS JobTicket, TLAPS, FiniteSetTheorems, WellFoundedInduction

USE JobsAssumption, SizesAssumption, SetsAssumption

-----------------------------------------------------------------------------
(* What Update_status makes of a ticket is a ticket.                       *)

\* A part of a ticket can be replaced by any other.
LEMMA WithPartType ==
    ASSUME NEW t \in Ticket, NEW r \in Target, NEW p \in Part
    PROVE  WithPart(t, r, p) \in Ticket
BY DEF WithPart, Ticket

\* The current part of a ticket is one of its parts, and the first is one.
LEMMA PartType ==
    ASSUME NEW t \in Ticket
    PROVE  /\ Current(t) \in Target /\ 0 \in Target
           /\ t.part[Current(t)] \in Part /\ t.part[0] \in Part
BY DEF Ticket, Current, Target

\* A part stays one when a field is set, an attempt or a copy counted.
LEMMA PartChange ==
    ASSUME NEW p \in Part, NEW c \in Nat
    PROVE  /\ [p EXCEPT !.held = TRUE] \in Part
           /\ [p EXCEPT !.attempt = @ + 1] \in Part
           /\ [p EXCEPT !.error = FALSE] \in Part
           /\ [p EXCEPT !.error = TRUE] \in Part
           /\ [p EXCEPT !.done = TRUE] \in Part
           /\ [p EXCEPT !.copy = c] \in Part
           /\ [p EXCEPT !.copy = c, !.done = TRUE] \in Part
<1>1. /\ [p EXCEPT !.held = TRUE] \in Part
      /\ [p EXCEPT !.error = FALSE] \in Part
      /\ [p EXCEPT !.error = TRUE] \in Part
      /\ [p EXCEPT !.done = TRUE] \in Part
  BY DEF Part
<1>2. [p EXCEPT !.attempt = @ + 1] \in Part
  BY DEF Part
<1>3. [p EXCEPT !.copy = c] \in Part
  BY DEF Part
<1>4. [p EXCEPT !.copy = c, !.done = TRUE] \in Part
  BY DEF Part
<1> QED
  BY <1>1, <1>2, <1>3, <1>4

\* REMOVE_TIME is set to a rank.
LEMMA OverType ==
    ASSUME NEW t \in Ticket, clock \in Nat
    PROVE  Over(t) \in Ticket /\ OverNz(t) \in Ticket
BY DEF Over, OverNz, Ticket

LEMMA SucceededType ==
    ASSUME NEW t \in Ticket, clock \in Nat
    PROVE  Succeeded(t) \in Ticket
<1> DEFINE r == Current(t)
           p == t.part[r]
           c == IF p.copy < CopiesOf(r) THEN p.copy + 1 ELSE p.copy
           counted  == WithPart(t, r, [p EXCEPT !.copy = c])
           finished == WithPart(t, r, [p EXCEPT !.copy = c, !.done = TRUE])
<1>1. r \in Target /\ 0 \in Target /\ p \in Part
  BY PartType
<1>2. c \in Nat
  BY <1>1 DEF Part, CopiesOf
<1>3. /\ [p EXCEPT !.copy = c] \in Part
      /\ [p EXCEPT !.copy = c, !.done = TRUE] \in Part
      /\ [p EXCEPT !.done = TRUE] \in Part
  BY <1>1, <1>2, PartChange
<1> HIDE DEF c
<1>4. counted \in Ticket /\ finished \in Ticket
  BY <1>1, <1>3, WithPartType
<1>5. finished.part[0] \in Part
  BY <1>4, PartType
<1>6. [finished.part[0] EXCEPT !.done = TRUE] \in Part
  BY <1>5, PartChange
<1> HIDE DEF finished, counted
<1>7. Over(WithPart(finished, 0, [finished.part[0] EXCEPT !.done = TRUE])) \in Ticket
  BY <1>1, <1>4, <1>6, WithPartType, OverType
<1>8. r = 0 => Over(WithPart(t, 0, [p EXCEPT !.done = TRUE])) \in Ticket
  BY <1>1, <1>3, WithPartType, OverType
<1> QED
  BY <1>4, <1>7, <1>8 DEF Succeeded, finished, counted, c

\* The other outcomes change one field of the current part.
LEMMA OutcomeType ==
    ASSUME NEW t \in Ticket, clock \in Nat
    PROVE  /\ HeldBack(t) \in Ticket /\ Attempted(t) \in Ticket
           /\ Retried(t) \in Ticket /\ Failed(t) \in Ticket
<1> DEFINE p == t.part[Current(t)]
<1>1. Current(t) \in Target /\ p \in Part
  BY PartType
<1>2. /\ [p EXCEPT !.held = TRUE] \in Part
      /\ [p EXCEPT !.attempt = @ + 1] \in Part
      /\ [p EXCEPT !.error = FALSE] \in Part
      /\ [p EXCEPT !.error = TRUE] \in Part
  BY <1>1, PartChange
<1> HIDE DEF p
<1>3. WithPart(t, Current(t), [p EXCEPT !.error = TRUE]) \in Ticket
  BY <1>1, <1>2, WithPartType
<1>4. OverNz(WithPart(t, Current(t), [p EXCEPT !.error = TRUE])) \in Ticket
  BY <1>3, OverType
<1>5. /\ WithPart(t, Current(t), [p EXCEPT !.held = TRUE]) \in Ticket
      /\ WithPart(t, Current(t), [p EXCEPT !.attempt = @ + 1]) \in Ticket
      /\ WithPart(t, Current(t), [p EXCEPT !.error = FALSE]) \in Ticket
  BY <1>1, <1>2, WithPartType
<1> QED
  BY <1>3, <1>4, <1>5 DEF HeldBack, Attempted, Retried, Failed, p

LEMMA SettledType ==
    ASSUME NEW t \in Ticket, NEW file \in Ticket, NEW status \in Status \ {"fail"},
           clock \in Nat
    PROVE  Settled(t, file, status) \in Ticket
<1>1. /\ Succeeded(t) \in Ticket /\ HeldBack(t) \in Ticket
      /\ Failed(t) \in Ticket /\ Attempted(t) \in Ticket
  BY SucceededType, OutcomeType
<1>2. Failed(Attempted(t)) \in Ticket
  BY <1>1, OutcomeType
<1>3. Aborted(t, file) \in Ticket
  BY <1>1 DEF Aborted
<1> QED
  BY <1>1, <1>2, <1>3 DEF Settled, Status

LEMMA UpdatedType ==
    ASSUME NEW t \in Ticket, NEW status \in Status, clock \in Nat
    PROVE  Updated(t, status) \subseteq Ticket
<1> DEFINE u == [t EXCEPT !.server = "none"]
           a == Attempted(u)
<1>1. u \in Ticket
  BY DEF Ticket
<1>2. a \in Ticket
  BY <1>1, OutcomeType
<1>3. Retried(a) \in Ticket
  BY <1>2, OutcomeType
<1>4. status # "fail" => Settled(u, t, status) \in Ticket
  BY <1>1, SettledType
<1>5. \A f \in FailureActions : f # "fail" => Settled(a, a, f) \in Ticket
  BY <1>2, SettledType
<1> HIDE DEF u, a
<1> QED
  BY <1>3, <1>4, <1>5 DEF Updated, u, a

\* Update changes one ticket, and keeps types.
LEMMA UpdateType ==
    ASSUME TypeOK, NEW j \in Jobs, NEW status \in Status, Update(j, status)
    PROVE  /\ ticket' \in [Jobs -> Ticket]
           /\ \A i \in Jobs \ {j} : ticket'[i] = ticket[i]
           /\ present' \subseteq present
           /\ doneCount' \in Nat /\ clock' \in Nat
<1>1. ticket[j] \in Ticket /\ clock \in Nat
  BY DEF TypeOK
<1>2. PICK t \in Updated(ticket[j], status) : ticket' = [ticket EXCEPT ![j] = t]
  BY DEF Update
<1>3. t \in Ticket
  BY <1>1, <1>2, UpdatedType
<1>4. /\ ticket' \in [Jobs -> Ticket]
      /\ \A i \in Jobs \ {j} : ticket'[i] = ticket[i]
  BY <1>2, <1>3 DEF TypeOK
<1>5. /\ present' \subseteq present
      /\ doneCount' \in Nat /\ clock' \in Nat
  BY DEF Update, TypeOK
<1> QED
  BY <1>4, <1>5

-----------------------------------------------------------------------------
(* Choosing a destination.                                                 *)

\* A job with an open destination has a first one.
LEMMA FirstOpenMin ==
    ASSUME NEW j \in Jobs, OpenRoutes(j) # {}
    PROVE  FirstOpen(j) \in OpenRoutes(j) /\ \A q \in OpenRoutes(j) : FirstOpen(j) <= q
<1> DEFINE T == OpenRoutes(j)
<1>1. T \subseteq Route
  BY DEF OpenRoutes, RoutesOf
<1>2. T \subseteq Nat
  BY <1>1 DEF Route
<1>3. \E r \in T : \A q \in T : ~(<<q, r>> \in OpToRel(<, Nat))
  BY <1>2, NatLessThanWellFounded, WFMin, Zenon
<1> HIDE DEF T
<1>4. \E r \in T : \A q \in T : r <= q
  <2>1. PICK r \in T : \A q \in T : ~(<<q, r>> \in OpToRel(<, Nat))
    BY <1>3
  <2>2. ASSUME NEW q \in T PROVE r <= q
    <3>1. <<q, r>> \in Nat \X Nat
      BY <1>2
    <3>2. ~(q < r)
      BY <2>1, <3>1 DEF OpToRel
    <3> QED
      BY <1>2, <3>2
  <2> QED
    BY <2>2
<1> QED
  BY <1>4 DEF FirstOpen, T

-----------------------------------------------------------------------------
(* The invariant.  Nobody but the step that picks a job takes it up, and   *)
(* SERVER stays in its ticket until that worker is reaped; a server that   *)
(* starts, and clears SERVER, has no worker.                               *)

\* What the server is doing agrees with the job it moves.
MoverInv == (pc = "move" => mover \in Jobs) /\ (mover # None => pc = "move")

\* The worker's job has been spooled and has SERVER set while it exists.
WorkerInv ==
    /\ pc \in {"off", "clear"} => ~Busy
    /\ Busy => /\ worker.job \in Jobs \ fresh
               /\ worker.job \in present => ticket[worker.job].server # "none"

HandlerInv == TypeOK /\ MoverInv /\ WorkerInv /\ OneHandlerPerJob

LEMMA HandlerInit == Init => HandlerInv
<1> SUFFICES ASSUME Init PROVE HandlerInv
  OBVIOUS
<1>1. 0 \in Target
  BY DEF Target
<1>2. NewPart \in Part
  BY DEF NewPart, Part
<1>3. NewTicket \in Ticket
  BY <1>1, <1>2 DEF NewTicket, Ticket
<1>4. NoWork \in Worker /\ NoWork.phase = "idle"
  BY <1>1 DEF NoWork, Worker
<1>5. TypeOK
  BY <1>3, <1>4 DEF Init, TypeOK, Location
<1> QED
  BY <1>4, <1>5 DEF Init, HandlerInv, MoverInv, WorkerInv, OneHandlerPerJob, Busy

\* What users do leaves SERVER and the processes alone.
LEMMA UserKeeps ==
    ASSUME HandlerInv, NEW j \in Jobs,
           \/ Submit(j) \/ Remove(j)
           \/ \E r \in Target, c \in Commands : Lpc(j, r, c)
    PROVE  HandlerInv'
<1> USE DEF HandlerInv
<1>1. CASE Submit(j)
  <2>1. TypeOK'
    BY <1>1 DEF Submit, TypeOK, serverVars, ghostVars
  <2>2. worker.job # j \/ ~Busy
    BY <1>1 DEF Submit, WorkerInv
  <2> QED
    BY <1>1, <2>1, <2>2 DEF Submit, serverVars, MoverInv, WorkerInv,
       OneHandlerPerJob, Busy, TypeOK
<1>2. CASE Remove(j)
  <2>1. TypeOK'
    BY <1>2 DEF Remove, TypeOK, serverVars
  <2> QED
    BY <1>2, <2>1 DEF Remove, serverVars, MoverInv, WorkerInv,
       OneHandlerPerJob, Busy, TypeOK
<1>3. ASSUME NEW r \in Target, NEW c \in Commands, Lpc(j, r, c)
      PROVE  HandlerInv'
  <2> DEFINE t  == ticket[j]
             p0 == [Commanded(c, t.part[0]) EXCEPT !.error = FALSE]
             pr == IF c = "move" THEN t.part[r]
                   ELSE [Commanded(c, t.part[r]) EXCEPT
                           !.copy = IF c = "redo" THEN 0 ELSE @]
             parts == [t.part EXCEPT ![r] = pr]
             new == [t EXCEPT !.part = [parts EXCEPT ![0] = p0],
                              !.move = @ \/ c = "move",
                              !.remove = IF c \in {"redo", "move"} THEN 0 ELSE @]
  <2>1. t \in Ticket /\ 0 \in Target
    BY DEF TypeOK, Target
  <2>2. t.part \in [Target -> Part]
    BY <2>1 DEF Ticket
  <2>3. ASSUME NEW p \in Part PROVE Commanded(c, p) \in Part
    BY DEF Commanded, Part, Command
  <2>4. p0 \in Part
    <3>1. Commanded(c, t.part[0]) \in Part
      BY <2>1, <2>2, <2>3
    <3> QED
      BY <3>1 DEF Part
  <2>5. pr \in Part
    <3>1. Commanded(c, t.part[r]) \in Part
      BY <2>2, <2>3
    <3> QED
      BY <2>2, <3>1 DEF Part
  <2> HIDE DEF p0, pr
  <2>6. [parts EXCEPT ![0] = p0] \in [Target -> Part]
    BY <2>1, <2>2, <2>4, <2>5
  <2>7. new \in Ticket /\ new.server = t.server
    BY <2>1, <2>6 DEF Ticket
  <2>8. ticket' = [ticket EXCEPT ![j] = new]
    BY <1>3 DEF Lpc, p0, pr
  <2> HIDE DEF new
  <2>9. TypeOK'
    <3>1. ticket' \in [Jobs -> Ticket]
      BY <2>7, <2>8 DEF TypeOK
    <3>2. poke' \in BOOLEAN
      BY <1>3 DEF Lpc
    <3>3. touched' \subseteq Jobs /\ commands' \in Nat
      <4>1. /\ touched' \in {touched, touched \cup {j}}
            /\ commands' = commands + 1
        BY <1>3 DEF Lpc
      <4> QED
        BY <4>1 DEF TypeOK
    <3>4. UNCHANGED <<fresh, present, pc, order, victims, doneCount, mover,
                      worker, printed, sent, clock>>
      BY <1>3 DEF Lpc, serverVars
    <3> QED
      BY <3>1, <3>2, <3>3, <3>4 DEF TypeOK
  <2>10. \A i \in Jobs : ticket'[i].server = ticket[i].server
    BY <2>7, <2>8 DEF TypeOK
  <2> QED
    BY <1>3, <2>9, <2>10 DEF Lpc, serverVars, MoverInv, WorkerInv,
       OneHandlerPerJob, Busy, TypeOK
<1> QED
  BY <1>1, <1>2, <1>3

\* What the server does.
LEMMA ServerKeeps ==
    ASSUME HandlerInv, ServerStep
    PROVE  HandlerInv'
<1> USE DEF HandlerInv
<1>1. CASE Start
  BY <1>1 DEF Start, Goto, Location, Queued, spoolVars, ghostVars, TypeOK,
     MoverInv, WorkerInv, OneHandlerPerJob, Busy
<1>2. CASE Clear
  <2>1. ~Busy /\ pc' = "main"
    BY <1>2 DEF Clear, Goto, WorkerInv
  <2>2. ticket' \in [Jobs -> Ticket]
    <3>1. ASSUME NEW j \in Jobs PROVE ticket'[j] \in Ticket
      <4> DEFINE r == IF j \in Routed THEN 0 ELSE ticket[j].dest
      <4>1. ticket[j] \in Ticket /\ r \in Target
        BY DEF TypeOK, Ticket, Target
      <4>2. ticket'[j] = IF j \in order \cap present
                        THEN [ticket[j] EXCEPT !.server = "none", !.dest = r]
                        ELSE ticket[j]
        BY <1>2 DEF Clear
      <4> HIDE DEF r
      <4>3. [ticket[j] EXCEPT !.server = "none", !.dest = r] \in Ticket
        BY <4>1 DEF Ticket
      <4> QED
        BY <4>1, <4>2, <4>3
    <3>2. ticket' = [j \in Jobs |-> ticket'[j]]
      BY <1>2 DEF Clear
    <3> QED
      BY <3>1, <3>2
  <2> QED
    BY <1>2, <2>1, <2>2 DEF Clear, Location, ghostVars, TypeOK,
       MoverInv, WorkerInv, OneHandlerPerJob, Busy
<1>3. CASE Rescan
  BY <1>3 DEF Rescan, Queued, spoolVars, ghostVars, TypeOK,
     MoverInv, WorkerInv, OneHandlerPerJob, Busy
<1>4. CASE Collect
  <2>1. victims' \subseteq Jobs
    BY <1>4 DEF Collect, Candidates, TypeOK
  <2> QED
    BY <1>4, <2>1 DEF Collect, Goto, Location, spoolVars, ghostVars, TypeOK,
       MoverInv, WorkerInv, OneHandlerPerJob, Busy
<1>5. CASE Expire
  BY <1>5 DEF Expire, Goto, Location, ghostVars, TypeOK,
     MoverInv, WorkerInv, OneHandlerPerJob, Busy
<1>6. ASSUME NEW j \in Jobs, PickJob(j) PROVE HandlerInv'
  <2> DEFINE r == IF j \in Routed THEN FirstOpen(j) ELSE 0
  <2>1. /\ j \in present /\ pc = "pick" /\ ~Busy /\ pc' = "main"
        /\ j \in Routed => OpenRoutes(j) # {}
    BY <1>6 DEF PickJob, Goto, ToPrint, Processable, Printable
  <2>2. r \in Target
    BY <2>1, FirstOpenMin DEF OpenRoutes, RoutesOf, Route, Target
  <2>3. /\ ticket' \in [Jobs -> Ticket]
        /\ ticket'[j].server = "queue"
    <3> DEFINE d == IF j \in Routed THEN r ELSE ticket[j].dest
    <3>1. ticket[j] \in Ticket /\ d \in Target
        BY <2>2 DEF TypeOK, Ticket
    <3>2. ticket' = [ticket EXCEPT ![j] =
                       [ticket[j] EXCEPT !.server = "queue", !.dest = d]]
      BY <1>6 DEF PickJob, TypeOK
    <3> HIDE DEF d
    <3>3. /\ [ticket[j] EXCEPT !.server = "queue", !.dest = d] \in Ticket
          /\ [ticket[j] EXCEPT !.server = "queue", !.dest = d].server = "queue"
      BY <3>1 DEF Ticket
    <3> QED
      BY <3>2, <3>3 DEF TypeOK
  <2>4. worker' = worker \/ worker' = [job |-> j, route |-> r, phase |-> "forked"]
    BY <1>6 DEF PickJob
  <2>5. worker' \in Worker
    BY <2>2, <2>4 DEF TypeOK, Worker
  <2>6. UNCHANGED <<fresh, present, poke, order, victims, doneCount, mover,
                    printed, sent, touched, clock, commands>>
    BY <1>6 DEF PickJob, ghostVars
  <2>7. TypeOK'
    BY <2>1, <2>3, <2>5, <2>6 DEF TypeOK, Location
  <2>8. mover = None
    BY <2>1 DEF MoverInv
  <2>9. Busy' => worker'.job = j
    BY <2>1, <2>4 DEF Busy
  <2>10. WorkerInv'
    BY <2>1, <2>3, <2>6, <2>9 DEF WorkerInv, TypeOK
  <2> QED
    BY <2>1, <2>6, <2>7, <2>8, <2>10 DEF MoverInv, OneHandlerPerJob
<1>7. ASSUME NEW j \in Jobs, PickMove(j) PROVE HandlerInv'
  <2>1. /\ j \in present /\ ticket[j].server = "none"
        /\ mover' = j /\ pc = "pick" /\ pc' = "move"
    BY <1>7 DEF PickMove, Goto, ToMove, Processable
  <2>2. ticket' = [ticket EXCEPT ![j].server = "queue"]
    BY <1>7 DEF PickMove
  <2>3. ticket' \in [Jobs -> Ticket]
    <3>1. [ticket[j] EXCEPT !.server = "queue"] \in Ticket
      <4>1. ticket[j] \in Ticket
        BY DEF TypeOK
      <4> QED
        BY <4>1 DEF Ticket
    <3> QED
      BY <2>2, <3>1 DEF TypeOK
  <2>4. UNCHANGED <<fresh, present, poke, order, victims, doneCount, worker,
                    printed, sent, touched, clock, commands>>
    BY <1>7 DEF PickMove, ghostVars
  <2>5. TypeOK'
    BY <2>1, <2>3, <2>4 DEF TypeOK, Location
  <2>6. Busy => worker.job # j
    BY <2>1 DEF WorkerInv
  <2> QED
    BY <2>1, <2>2, <2>4, <2>5, <2>6 DEF MoverInv, WorkerInv, OneHandlerPerJob,
       Busy, TypeOK
<1>8. ASSUME NEW j \in Jobs, SettleAllDone(j) PROVE HandlerInv'
  <2>1. /\ j \in present /\ ticket[j].server = "none" /\ Update(j, "succ")
    BY <1>8 DEF SettleAllDone, Processable
  <2>2. /\ ticket' \in [Jobs -> Ticket]
        /\ \A i \in Jobs \ {j} : ticket'[i] = ticket[i]
        /\ present' \subseteq present
        /\ doneCount' \in Nat /\ clock' \in Nat
    BY <2>1, UpdateType DEF Status
  <2>3. UNCHANGED <<fresh, poke, pc, order, victims, mover, worker, printed,
                    sent, touched, commands>>
    BY <1>8 DEF SettleAllDone
  <2>4. TypeOK'
    BY <2>2, <2>3 DEF TypeOK
  <2>5. Busy => worker.job # j
    BY <2>1 DEF WorkerInv
  <2> QED
    BY <2>2, <2>3, <2>4, <2>5 DEF MoverInv, WorkerInv, OneHandlerPerJob, Busy
<1>9. CASE MoveRefused
  <2>1. mover \in Jobs
    BY <1>9 DEF MoveRefused, MoverInv
  <2>2. /\ ticket' \in [Jobs -> Ticket]
        /\ \A i \in Jobs : ticket'[i].server = ticket[i].server
    <3>1. CASE UNCHANGED ticket
      BY <3>1 DEF TypeOK
    <3>2. CASE ticket' = [ticket EXCEPT ![mover].part[0].error = TRUE]
      <4>1. ticket[mover] \in Ticket /\ 0 \in Target
        BY <2>1 DEF TypeOK, Target
      <4>2. [ticket[mover].part[0] EXCEPT !.error = TRUE] \in Part
        BY <4>1, PartType, PartChange DEF Part
      <4>3. [ticket[mover].part EXCEPT ![0] =
               [ticket[mover].part[0] EXCEPT !.error = TRUE]] \in [Target -> Part]
        BY <4>1, <4>2 DEF Ticket
      <4>4. [ticket[mover] EXCEPT !.part[0].error = TRUE] \in Ticket
        BY <4>1, <4>3 DEF Ticket
      <4> QED
        BY <2>1, <3>2, <4>1, <4>4 DEF TypeOK, Ticket
    <3> QED
      BY <1>9, <3>1, <3>2 DEF MoveRefused
  <2>3. /\ mover' = None /\ pc = "move" /\ pc' = "main"
        /\ UNCHANGED <<fresh, present, poke, order, victims, doneCount, worker,
                       printed, sent, touched, clock, commands>>
    BY <1>9 DEF MoveRefused, Goto, ghostVars
  <2>4. TypeOK'
    BY <2>2, <2>3 DEF TypeOK, Location
  <2> QED
    BY <2>2, <2>3, <2>4 DEF MoverInv, WorkerInv, OneHandlerPerJob, Busy, TypeOK
<1>10. CASE MoveEnds
  <2>1. mover \in Jobs /\ mover # None
    BY <1>10 DEF MoveEnds, MoverInv
  <2>2. /\ ticket' \in [Jobs -> Ticket]
        /\ \A i \in Jobs \ {mover} : ticket'[i] = ticket[i]
        /\ present' \subseteq present
        /\ doneCount' \in Nat /\ clock' \in Nat
        /\ sent' \subseteq Jobs
    <3>1. CASE mover \in present
      <4>1. PICK status \in Exits :
              /\ Update(mover, status)
              /\ sent' = IF status = "succ" THEN sent \cup {mover} ELSE sent
        BY <1>10, <3>1 DEF MoveEnds
      <4> QED
        BY <2>1, <4>1, UpdateType DEF TypeOK
    <3>2. CASE mover \notin present
      BY <1>10, <3>2 DEF MoveEnds, TypeOK
    <3> QED
      BY <3>1, <3>2
  <2>3. /\ mover' = None /\ pc = "move" /\ pc' = "main"
        /\ UNCHANGED <<fresh, poke, order, victims, worker, printed, touched,
                       commands>>
    BY <1>10 DEF MoveEnds, Goto
  <2>4. TypeOK'
    BY <2>2, <2>3 DEF TypeOK, Location
  <2>5. Busy => worker.job # mover
    BY <2>1 DEF OneHandlerPerJob
  <2> QED
    BY <2>2, <2>3, <2>4, <2>5 DEF MoverInv, WorkerInv, OneHandlerPerJob, Busy
<1>11. CASE PickWait \/ PickNothing \/ WakeUp
  BY <1>11 DEF PickWait, PickNothing, WakeUp, Goto, Location, spoolVars,
     ghostVars, TypeOK, MoverInv, WorkerInv, OneHandlerPerJob, Busy
<1>12. CASE WaitReap
  <2>1. Busy /\ worker.phase \in Status
    BY <1>12 DEF WaitReap, Exited, Busy, Status
  <2>2. worker.job \in Jobs
    BY <2>1 DEF WorkerInv
  <2>3. /\ ticket' \in [Jobs -> Ticket]
        /\ present' \subseteq present
        /\ doneCount' \in Nat /\ clock' \in Nat
    <3>1. CASE worker.job \in present
      BY <1>12, <2>1, <2>2, <3>1, UpdateType DEF WaitReap
    <3>2. CASE worker.job \notin present
      BY <1>12, <3>2 DEF WaitReap, TypeOK
    <3> QED
      BY <3>1, <3>2
  <2>4. /\ worker' = NoWork /\ pc = "wait" /\ pc' = "main"
        /\ UNCHANGED <<fresh, poke, order, victims, mover, printed, sent,
                       touched, commands>>
    BY <1>12 DEF WaitReap, Goto
  <2>5. NoWork \in Worker /\ NoWork.phase = "idle"
    BY DEF NoWork, Worker, Target
  <2>6. TypeOK'
    BY <2>3, <2>4, <2>5 DEF TypeOK, Location
  <2> QED
    BY <2>4, <2>5, <2>6 DEF MoverInv, WorkerInv, OneHandlerPerJob, Busy
<1> QED
  BY <1>1, <1>2, <1>3, <1>4, <1>5, <1>6, <1>7, <1>8, <1>9, <1>10, <1>11, <1>12
     DEF ServerStep

\* What the worker does: it puts its own pid where the server's was.
LEMMA WorkerKeeps ==
    ASSUME HandlerInv, WorkerStep
    PROVE  HandlerInv'
<1> USE DEF HandlerInv
<1>1. CASE WorkerStart
  <2>1. Busy /\ worker.job \in Jobs
    BY <1>1 DEF WorkerStart, Busy, WorkerInv
  <2>2. /\ ticket' \in [Jobs -> Ticket]
        /\ worker.job \in present => ticket'[worker.job].server # "none"
    <3>1. CASE worker.job \in present
      <4>1. ticket' = [ticket EXCEPT ![worker.job].server = "worker"]
        BY <1>1, <3>1 DEF WorkerStart
      <4>2. /\ [ticket[worker.job] EXCEPT !.server = "worker"] \in Ticket
            /\ [ticket[worker.job] EXCEPT !.server = "worker"].server # "none"
        <5>1. ticket[worker.job] \in Ticket
          BY <2>1 DEF TypeOK
        <5> QED
          BY <5>1 DEF Ticket
      <4> QED
        BY <2>1, <4>1, <4>2 DEF TypeOK
    <3>2. CASE worker.job \notin present
      BY <1>1, <3>2 DEF WorkerStart, TypeOK
    <3> QED
      BY <3>1, <3>2
  <2>3. /\ worker' \in Worker
        /\ worker'.job = worker.job /\ worker'.phase # "idle"
    BY <1>1 DEF WorkerStart, TypeOK, Worker, Status
  <2>4. UNCHANGED <<fresh, present, poke, serverVars, ghostVars>>
    BY <1>1 DEF WorkerStart
  <2>5. TypeOK'
    BY <2>2, <2>3, <2>4 DEF TypeOK, serverVars, ghostVars
  <2> QED
    BY <2>1, <2>2, <2>3, <2>4, <2>5 DEF serverVars, ghostVars, MoverInv,
       WorkerInv, OneHandlerPerJob, Busy
<1>2. ASSUME NEW status \in Exits, WorkerExit(status) PROVE HandlerInv'
  <2>1. Busy /\ worker.job \in Jobs
    BY <1>2 DEF WorkerExit, Busy, WorkerInv
  <2>2. worker' = [worker EXCEPT !.phase = status]
    BY <1>2 DEF WorkerExit
  <2>3. worker' \in Worker /\ worker'.job = worker.job /\ worker'.phase # "idle"
    BY <2>2 DEF TypeOK, Worker, Status
  <2>4. printed' \in [Jobs -> [Target -> Nat]]
    BY <1>2, <2>1 DEF WorkerExit, TypeOK, Worker
  <2>5. UNCHANGED <<fresh, present, ticket, poke, serverVars, sent, touched,
                    clock, commands>>
    BY <1>2 DEF WorkerExit, spoolVars
  <2>6. TypeOK'
    BY <2>3, <2>4, <2>5 DEF TypeOK, serverVars
  <2> QED
    BY <2>1, <2>3, <2>5, <2>6 DEF serverVars, MoverInv, WorkerInv,
       OneHandlerPerJob, Busy
<1> QED
  BY <1>1, <1>2 DEF WorkerStep

LEMMA HandlerStep == HandlerInv /\ [Next]_vars => HandlerInv'
<1> SUFFICES ASSUME HandlerInv, [Next]_vars PROVE HandlerInv'
  OBVIOUS
<1>1. CASE UserStep
  BY <1>1, UserKeeps DEF UserStep
<1>2. CASE UNCHANGED vars
  BY <1>2 DEF vars, spoolVars, serverVars, ghostVars, HandlerInv, TypeOK,
     MoverInv, WorkerInv, OneHandlerPerJob, Busy
<1> QED
  BY <1>1, <1>2, ServerKeeps, WorkerKeeps DEF Next

LEMMA HandlerAlways == Spec => []HandlerInv
BY HandlerInit, HandlerStep, PTL DEF Spec

-----------------------------------------------------------------------------
(* The invariant of the untouched jobs: those that nobody asked to print   *)
(* again or elsewhere.  OwnInv ties the worker to the ticket; CountInv     *)
(* follows the copies, RouteInv the destinations, KnownInv what the server *)
(* knows of finished jobs, and KeptInv how many of them stay.              *)

\* What of a job is counted: the destinations of a routed one, else the job.
Owned(j, r) == (r = 0) # (j \in Routed)
Unreaped(j, r) == worker = [job |-> j, route |-> r, phase |-> "succ"]

Untouched == (fresh \cup present) \ touched

\* The job that the server moves is touched, and no other is to be moved.
MoverTouched == mover # None => mover \in touched
NotMoved == \A j \in Untouched : ~ticket[j].move

\* The worker's destination is the one in the ticket; it is open.
AtWork(j) == Busy /\ worker.job = j
OwnInv ==
    /\ MoverTouched /\ NotMoved
    /\ ~Busy => worker = NoWork
    /\ pc # "expire" => victims = {}
    /\ \A j \in Untouched :
         /\ j \notin Routed => ticket[j].dest = 0
         /\ AtWork(j) =>
               /\ Owned(j, worker.route) /\ worker.route = ticket[j].dest
               /\ ~ticket[j].part[worker.route].done
               /\ ~ticket[j].part[worker.route].error

\* COPY_DONE is what came out, and a part is done at its last copy.
CountInv ==
    \A j \in Untouched : \A r \in Target :
        Owned(j, r) =>
          LET p == ticket[j].part[r]
          IN  /\ printed[j][r] = p.copy + IF Unreaped(j, r) THEN 1 ELSE 0
              /\ p.copy <= CopiesOf(r)
              /\ p.done <=> p.copy = CopiesOf(r)

\* Destinations are settled in their order, the job with the last.
RouteInv ==
    \A j \in Untouched :
        /\ ticket[j].server = "queue" =>
              ~ticket[j].part[0].done /\ ~ticket[j].part[0].error
        /\ j \in Routed =>
              /\ ~ticket[j].part[0].error
              /\ ticket[j].part[0].done =>
                    \A r \in Route : ticket[j].part[r].done \/ ticket[j].part[r].error
              /\ AtWork(j) =>
                    \A r \in Route : r < worker.route =>
                        ticket[j].part[r].done \/ ticket[j].part[r].error

\* Unless it is going to scan the queue again, the server knows the finished
\* jobs, and the job of the worker if that is not held.
KnownInv ==
    pc # "off" /\ ~poke =>
        /\ Finished \subseteq order
        /\ Busy /\ worker.job \in (present \ touched) \ order =>
              ticket[worker.job].part[worker.route].held

\* Once it collected what to remove, no more than DoneJobs stay.
KeptInv ==
    DoneJobs > 0 /\ ~poke /\ ~Busy /\ pc \in {"expire", "pick", "off"} =>
        Cardinality(Finished \ victims) <= DoneJobs

-----------------------------------------------------------------------------
(* What Update_status may change of a ticket.                              *)

\* The part of the ticket is replaced and nothing else.
LEMMA WithPartFields ==
    ASSUME NEW t \in Ticket, NEW r \in Target, NEW p \in Part
    PROVE  LET w == WithPart(t, r, p)
           IN  /\ w.part[r] = p /\ \A q \in Target \ {r} : w.part[q] = t.part[q]
               /\ w.server = t.server /\ w.dest = t.dest /\ w.move = t.move
<1>1. t.part \in [Target -> Part]
  BY DEF Ticket
<1>2. /\ WithPart(t, r, p).part = [t.part EXCEPT ![r] = p]
      /\ WithPart(t, r, p).server = t.server /\ WithPart(t, r, p).dest = t.dest
      /\ WithPart(t, r, p).move = t.move
  BY DEF WithPart, Ticket
<1> QED
  BY <1>1, <1>2

\* A REMOVE_TIME changes nothing else.
LEMMA OverFields ==
    ASSUME NEW t \in Ticket, NEW u \in {Over(t), OverNz(t)}
    PROVE  /\ u.part = t.part /\ u.server = t.server
           /\ u.dest = t.dest /\ u.move = t.move
BY DEF Over, OverNz, Ticket

\* What every outcome leaves: nothing is released or undone, only the current
\* destination changes, and the job is done with the last one.
Kept(u, t) ==
    /\ u.dest = t.dest /\ u.move = t.move
    /\ \A r \in Target :
          /\ t.part[r].held => u.part[r].held
          /\ t.part[r].done => u.part[r].done
          /\ r # t.dest => /\ u.part[r].error = t.part[r].error
                           /\ u.part[r].copy = t.part[r].copy
                           /\ r # 0 => u.part[r].done = t.part[r].done
    /\ t.dest # 0 /\ u.part[0].done /\ ~t.part[0].done =>
          t.dest = NRoutes /\ u.part[t.dest].done

\* A success counts a copy, and the last one ends the part ...
Counts(u, t) ==
    LET p == t.part[t.dest]
        q == u.part[t.dest]
    IN  /\ q.copy = IF p.copy < CopiesOf(t.dest) THEN p.copy + 1 ELSE p.copy
        /\ q.done <=> p.done \/ q.copy >= CopiesOf(t.dest)

\* ... and nothing else does.
NoCount(u, t) ==
    \A r \in Target : /\ u.part[r].copy = t.part[r].copy
                      /\ u.part[r].done = t.part[r].done

\* The fields of a part when one is set.
LEMMA PartFields ==
    ASSUME NEW p \in Part, NEW c \in Nat
    PROVE  /\ LET q == [p EXCEPT !.held = TRUE]
              IN  q.held /\ q.done = p.done /\ q.error = p.error /\ q.copy = p.copy
           /\ LET q == [p EXCEPT !.attempt = @ + 1]
              IN  q.held = p.held /\ q.done = p.done /\ q.error = p.error /\ q.copy = p.copy
           /\ LET q == [p EXCEPT !.error = FALSE]
              IN  q.held = p.held /\ q.done = p.done /\ ~q.error /\ q.copy = p.copy
           /\ LET q == [p EXCEPT !.error = TRUE]
              IN  q.held = p.held /\ q.done = p.done /\ q.error /\ q.copy = p.copy
           /\ LET q == [p EXCEPT !.done = TRUE]
              IN  q.held = p.held /\ q.done /\ q.error = p.error /\ q.copy = p.copy
           /\ LET q == [p EXCEPT !.copy = c]
              IN  q.held = p.held /\ q.done = p.done /\ q.error = p.error /\ q.copy = c
           /\ LET q == [p EXCEPT !.copy = c, !.done = TRUE]
              IN  q.held = p.held /\ q.done /\ q.error = p.error /\ q.copy = c
BY DEF Part

\* A failure, a hold, an attempt or a retry.
LEMMA OutcomeShape ==
    ASSUME NEW t \in Ticket, clock \in Nat,
           NEW u \in {HeldBack(t), Attempted(t), Retried(t), Failed(t)}
    PROVE  u \in Ticket /\ Kept(u, t) /\ NoCount(u, t) /\ u.server = t.server
<1> DEFINE p == t.part[Current(t)]
           With(q) == WithPart(t, Current(t), q)
<1>0. u \in Ticket
  BY OutcomeType
<1>1. Current(t) \in Target /\ p \in Part /\ Current(t) = t.dest
  BY PartType DEF Current
<1>2. ASSUME NEW q \in Part, q.done = p.done, q.copy = p.copy,
             p.held => q.held
      PROVE  Kept(With(q), t) /\ NoCount(With(q), t) /\ With(q).server = t.server
  <2>1. /\ With(q).part[t.dest] = q
        /\ \A r \in Target \ {t.dest} : With(q).part[r] = t.part[r]
        /\ With(q).server = t.server /\ With(q).dest = t.dest
        /\ With(q).move = t.move
    BY <1>1, WithPartFields
  <2> HIDE DEF With
  <2>2. 0 \in Target
    BY DEF Target
  <2>3. NoCount(With(q), t)
    BY <1>1, <1>2, <2>1 DEF NoCount
  <2> QED
    BY <1>1, <1>2, <2>1, <2>2, <2>3 DEF Kept
<1>3. /\ [p EXCEPT !.held = TRUE] \in Part
      /\ [p EXCEPT !.attempt = @ + 1] \in Part
      /\ [p EXCEPT !.error = FALSE] \in Part
      /\ [p EXCEPT !.error = TRUE] \in Part
  BY <1>1, PartChange
<1>4. CASE u = HeldBack(t)
  <2> DEFINE q == [p EXCEPT !.held = TRUE]
  <2>1. q.held /\ q.done = p.done /\ q.copy = p.copy /\ u = With(q)
    BY <1>1, <1>4, PartFields DEF HeldBack
  <2> QED
    BY <1>0, <1>2, <1>3, <2>1
<1>5. CASE u = Attempted(t)
  <2> DEFINE q == [p EXCEPT !.attempt = @ + 1]
  <2>1. q.held = p.held /\ q.done = p.done /\ q.copy = p.copy /\ u = With(q)
    BY <1>1, <1>5, PartFields DEF Attempted
  <2> QED
    BY <1>0, <1>2, <1>3, <2>1
<1>6. CASE u = Retried(t)
  <2> DEFINE q == [p EXCEPT !.error = FALSE]
  <2>1. q.held = p.held /\ q.done = p.done /\ q.copy = p.copy /\ u = With(q)
    BY <1>1, <1>6, PartFields DEF Retried
  <2> QED
    BY <1>0, <1>2, <1>3, <2>1
<1>7. CASE u = Failed(t)
  <2> DEFINE q == [p EXCEPT !.error = TRUE]
             w == With(q)
  <2>1. q.held = p.held /\ q.done = p.done /\ q.copy = p.copy
    BY <1>1, PartFields
  <2>2. q \in Part /\ w \in Ticket
    BY <1>1, <1>3, WithPartType
  <2>3. Kept(w, t) /\ NoCount(w, t) /\ w.server = t.server
    BY <1>2, <2>1, <2>2
  <2>4. u = w \/ u = OverNz(w)
    BY <1>7 DEF Failed
  <2> HIDE DEF w
  <2>5. u.part = w.part /\ u.server = w.server /\ u.dest = w.dest /\ u.move = w.move
    BY <2>2, <2>4, OverFields
  <2> QED
    BY <1>0, <2>3, <2>5 DEF Kept, NoCount
<1> QED
  BY <1>4, <1>5, <1>6, <1>7

\* A success of a job that is not being moved.
LEMMA SucceededShape ==
    ASSUME NEW t \in Ticket, clock \in Nat, ~t.move
    PROVE  /\ Kept(Succeeded(t), t) /\ Counts(Succeeded(t), t)
           /\ Succeeded(t).server = t.server
<1> DEFINE r == Current(t)
           p == t.part[r]
           c == IF p.copy < CopiesOf(r) THEN p.copy + 1 ELSE p.copy
           q1 == [p EXCEPT !.copy = c]
           q2 == [p EXCEPT !.copy = c, !.done = TRUE]
           counted  == WithPart(t, r, q1)
           finished == WithPart(t, r, q2)
           f0 == [finished.part[0] EXCEPT !.done = TRUE]
           ended == WithPart(finished, 0, f0)
<1>1. r \in Target /\ 0 \in Target /\ p \in Part /\ r = t.dest
      /\ t.part \in [Target -> Part]
  BY PartType DEF Current, Ticket
<1>2. c \in Nat /\ CopiesOf(r) \in Nat /\ p.copy \in Nat
  BY <1>1 DEF Part, CopiesOf
<1>3. /\ q1 \in Part /\ q2 \in Part
      /\ q1.held = p.held /\ q1.done = p.done /\ q1.error = p.error /\ q1.copy = c
      /\ q2.held = p.held /\ q2.done /\ q2.error = p.error /\ q2.copy = c
  <2>1. p \in Part /\ c \in Nat
    BY <1>1, <1>2
  <2> HIDE DEF p, c
  <2>2. q1 \in Part /\ q2 \in Part
    BY <2>1, PartChange
  <2>3. q1.held = p.held /\ q1.done = p.done /\ q1.error = p.error /\ q1.copy = c
    BY <2>1, PartFields
  <2>4. q2.held = p.held /\ q2.done /\ q2.error = p.error /\ q2.copy = c
    BY <2>1, PartFields
  <2> QED
    BY <2>2, <2>3, <2>4
<1>4. /\ counted.part[r] = q1 /\ \A q \in Target \ {r} : counted.part[q] = t.part[q]
      /\ counted.server = t.server /\ counted.dest = t.dest /\ counted.move = t.move
      /\ finished.part[r] = q2 /\ \A q \in Target \ {r} : finished.part[q] = t.part[q]
      /\ finished.server = t.server /\ finished.dest = t.dest
      /\ finished.move = t.move /\ finished \in Ticket
  <2>1. q1 \in Part /\ q2 \in Part
    BY <1>3
  <2> HIDE DEF q1, q2, p, c, r
  <2>2. /\ counted.part[r] = q1 /\ \A q \in Target \ {r} : counted.part[q] = t.part[q]
        /\ counted.server = t.server /\ counted.dest = t.dest /\ counted.move = t.move
    BY <1>1, <2>1, WithPartFields
  <2>3. /\ finished.part[r] = q2 /\ \A q \in Target \ {r} : finished.part[q] = t.part[q]
        /\ finished.server = t.server /\ finished.dest = t.dest
        /\ finished.move = t.move
    BY <1>1, <2>1, WithPartFields
  <2>4. finished \in Ticket
    BY <1>1, <2>1, WithPartType
  <2> QED
    BY <2>2, <2>3, <2>4
<1>5. /\ f0 \in Part /\ f0.done /\ f0.held = finished.part[0].held
      /\ f0.error = finished.part[0].error /\ f0.copy = finished.part[0].copy
  <2>1. finished.part[0] \in Part
    BY <1>4, PartType
  <2> HIDE DEF finished
  <2> QED
    BY <2>1, PartChange, PartFields
<1>6. /\ ended.part[0] = f0 /\ \A q \in Target \ {0} : ended.part[q] = finished.part[q]
      /\ ended.server = t.server /\ ended.dest = t.dest /\ ended.move = t.move
      /\ ended \in Ticket
  <2> HIDE DEF finished, f0
  <2>1. finished \in Ticket /\ f0 \in Part /\ 0 \in Target
    BY <1>1, <1>4, <1>5
  <2>2. /\ ended.part[0] = f0 /\ \A q \in Target \ {0} : ended.part[q] = finished.part[q]
        /\ ended.server = finished.server /\ ended.dest = finished.dest
        /\ ended.move = finished.move
    BY <2>1, WithPartFields
  <2>3. ended \in Ticket
    BY <2>1, WithPartType
  <2> HIDE DEF ended
  <2> QED
    BY <1>4, <2>2, <2>3
<1>7. Over(ended).part = ended.part /\ Over(ended).server = ended.server
      /\ Over(ended).dest = ended.dest /\ Over(ended).move = ended.move
  <2> HIDE DEF ended
  <2> QED
    BY <1>6, OverFields
<1>8. Succeeded(t) = IF c < CopiesOf(r) THEN counted
                     ELSE IF r \in {0, NRoutes} THEN Over(ended) ELSE finished
  BY DEF Succeeded
<1> HIDE DEF counted, finished, ended, q1, q2, f0
<1>9. CASE c < CopiesOf(r)
  BY <1>1, <1>2, <1>3, <1>4, <1>8, <1>9 DEF Kept, Counts
<1>10. CASE ~(c < CopiesOf(r)) /\ r \notin {0, NRoutes}
  BY <1>1, <1>2, <1>3, <1>4, <1>8, <1>10 DEF Kept, Counts
<1>11. CASE ~(c < CopiesOf(r)) /\ r \in {0, NRoutes}
  <2>1. Succeeded(t) = Over(ended)
    BY <1>8, <1>11
  <2> DEFINE u == Succeeded(t)
  <2>2. u.server = t.server /\ u.dest = t.dest /\ u.move = t.move
    BY <1>6, <1>7, <2>1
  <2>3. /\ u.part[r].done /\ u.part[r].copy = c /\ u.part[r].held = p.held
        /\ u.part[r].error = p.error
    BY <1>1, <1>3, <1>4, <1>5, <1>6, <1>7, <2>1
  <2>4. \A q \in Target \ {0, r} : u.part[q] = t.part[q]
    BY <1>4, <1>6, <1>7, <2>1
  <2>5. /\ u.part[0].done
        /\ r # 0 => /\ u.part[0].held = t.part[0].held
                    /\ u.part[0].error = t.part[0].error
                    /\ u.part[0].copy = t.part[0].copy
    BY <1>1, <1>4, <1>5, <1>6, <1>7, <2>1
  <2> HIDE DEF u, c
  <2>6. Kept(u, t)
    BY <1>1, <1>11, <2>2, <2>3, <2>4, <2>5 DEF Kept
  <2>7. Counts(u, t)
    BY <1>1, <1>2, <1>11, <2>3 DEF Counts, c
  <2> QED
    BY <2>2, <2>6, <2>7 DEF u
<1> QED
  BY <1>9, <1>10, <1>11

\* Two changes in a row.
LEMMA KeptTwice ==
    ASSUME NEW t \in Ticket, NEW w \in Ticket, NEW u \in Ticket, Kept(w, t), Kept(u, w)
    PROVE  Kept(u, t)
<1>1. t.dest \in Target /\ 0 \in Target /\ w.dest = t.dest
  BY DEF Kept, Ticket, Target
<1> QED
  BY <1>1 DEF Kept

\* Whatever the exit status: SERVER is cleared, except when the ticket was
\* not written at all.
LEMMA UpdatedShape ==
    ASSUME NEW t \in Ticket, NEW status \in Status, NEW u \in Updated(t, status),
           clock \in Nat, ~t.move
    PROVE  /\ Kept(u, t) /\ (u.server = "none" \/ u = t)
           /\ status = "succ" => Counts(u, t)
           /\ status # "succ" /\ "succ" \notin FailureActions => NoCount(u, t)
<1> DEFINE w == [t EXCEPT !.server = "none"]
           a == Attempted(w)
<1>1. /\ w \in Ticket /\ w.server = "none" /\ w.part = t.part
      /\ w.dest = t.dest /\ w.move = t.move
  BY DEF Ticket
<1>2. Kept(w, t) /\ NoCount(w, t) /\ Kept(t, t) /\ NoCount(t, t)
  BY <1>1 DEF Kept, NoCount
<1> HIDE DEF w
<1>3. /\ a \in Ticket /\ Kept(a, w) /\ NoCount(a, w) /\ a.server = "none"
  BY <1>1, OutcomeShape
<1>4. Kept(a, t) /\ NoCount(a, t) /\ ~a.move
  BY <1>1, <1>2, <1>3, KeptTwice DEF NoCount, Kept
<1> HIDE DEF a
<1>5. ASSUME NEW b \in Ticket, Kept(b, t), NoCount(b, t), b.server = "none",
             NEW v \in {HeldBack(b), Retried(b), Failed(b), Attempted(b), Failed(Attempted(b))}
      PROVE  Kept(v, t) /\ NoCount(v, t) /\ v.server = "none"
  <2>1. ASSUME NEW x \in Ticket, Kept(x, t), NoCount(x, t), x.server = "none",
               NEW y \in {HeldBack(x), Attempted(x), Retried(x), Failed(x)}
        PROVE  y \in Ticket /\ Kept(y, t) /\ NoCount(y, t) /\ y.server = "none"
    <3>1. y \in Ticket /\ Kept(y, x) /\ NoCount(y, x) /\ y.server = "none"
      BY <2>1, OutcomeShape
    <3> QED
      BY <2>1, <3>1, KeptTwice DEF NoCount
  <2>2. CASE v \in {HeldBack(b), Retried(b), Failed(b), Attempted(b)}
    BY <1>5, <2>1, <2>2
  <2>3. CASE v = Failed(Attempted(b))
    <3> DEFINE x == Attempted(b)
    <3>1. x \in Ticket /\ Kept(x, t) /\ NoCount(x, t) /\ x.server = "none"
      BY <1>5, <2>1
    <3> HIDE DEF x
    <3>2. v = Failed(x)
      BY <2>3 DEF x
    <3> QED
      BY <2>1, <3>1, <3>2
  <2> QED
    BY <2>2, <2>3
<1>6. ASSUME NEW b \in Ticket, Kept(b, t), NoCount(b, t), b.server = "none",
             NEW f \in Status \ {"succ", "fail"}, NEW file, file \in {t, b},
             NEW v, v = Settled(b, file, f)
      PROVE  Kept(v, t) /\ NoCount(v, t) /\ (v.server = "none" \/ v = file)
  <2>1. v \in {HeldBack(b), Failed(b), Failed(Attempted(b)), file}
    BY <1>6 DEF Settled, Aborted, Status
  <2>2. Kept(file, t) /\ NoCount(file, t)
    BY <1>2, <1>6
  <2> QED
    BY <1>5, <1>6, <2>1, <2>2
<1>7. ASSUME NEW b \in Ticket, Kept(b, t), NoCount(b, t), b.server = "none",
             NEW file, NEW v, v = Settled(b, file, "succ")
      PROVE  Kept(v, t) /\ Counts(v, t) /\ v.server = "none"
  <2>1. ~b.move /\ b.dest = t.dest /\ t.dest \in Target
    BY <1>7 DEF Kept, Ticket
  <2>2. v = Succeeded(b) /\ v \in Ticket
    BY <1>7, SucceededType DEF Settled
  <2>3. Kept(v, b) /\ Counts(v, b) /\ v.server = "none"
    BY <1>7, <2>1, <2>2, SucceededShape
  <2>4. Kept(v, t)
    BY <1>7, <2>2, <2>3, KeptTwice
  <2>5. Counts(v, t)
    BY <1>7, <2>1, <2>3 DEF Counts, NoCount
  <2> QED
    BY <2>3, <2>4, <2>5
<1>8. CASE status = "succ"
  <2>1. u = Settled(w, t, "succ")
    BY <1>8 DEF Updated, w
  <2> QED
    BY <1>1, <1>2, <1>7, <1>8, <2>1
<1>9. CASE status \notin {"succ", "fail"}
  <2>1. u = Settled(w, t, status)
    BY <1>9 DEF Updated, w
  <2> QED
    BY <1>1, <1>2, <1>6, <1>9, <2>1
<1>10. CASE status = "fail"
  <2>1. u = Retried(a) \/ \E f \in FailureActions \ {"fail"} : u = Settled(a, a, f)
    BY <1>10 DEF Updated, a, w
  <2>2. CASE u = Retried(a)
    BY <1>3, <1>4, <1>5, <1>10, <2>2
  <2>3. ASSUME NEW f \in FailureActions \ {"fail"}, u = Settled(a, a, f)
        PROVE  /\ Kept(u, t) /\ u.server = "none"
               /\ "succ" \notin FailureActions => NoCount(u, t)
    <3>1. CASE f = "succ"
      BY <1>3, <1>4, <1>7, <2>3, <3>1
    <3>2. CASE f # "succ"
      BY <1>3, <1>4, <1>6, <2>3, <3>2
    <3> QED
      BY <3>1, <3>2
  <2> QED
    BY <1>10, <2>1, <2>2, <2>3
<1> QED
  BY <1>8, <1>9, <1>10

-----------------------------------------------------------------------------
(* What may happen to the ticket of a job that nobody asked to move or to  *)
(* print again.                                                            *)

\* lpc hold, topq or release.
Asked(u, t) ==
    /\ u.server = t.server /\ u.dest = t.dest /\ u.move = t.move
    /\ ~u.part[0].error
    /\ \A r \in Target : /\ u.part[r].done = t.part[r].done
                         /\ u.part[r].copy = t.part[r].copy
                         /\ r # 0 => u.part[r].error = t.part[r].error

\* Another server or worker, and another destination.
Marked(u, t) == u.part = t.part /\ u.move = t.move /\ u.remove = t.remove

LEMMA LpcShape ==
    ASSUME TypeOK, NEW j \in Jobs, NEW r \in Target, NEW c \in Commands,
           Lpc(j, r, c), c \notin {"redo", "move"}
    PROVE  /\ Asked(ticket'[j], ticket[j])
           /\ c = "hold" => ticket'[j].part[0].held
<1> DEFINE t  == ticket[j]
           pr == Commanded(c, t.part[r])
           q == [pr EXCEPT !.copy = @]
           parts == [t.part EXCEPT ![r] = q]
           p0 == [Commanded(c, t.part[0]) EXCEPT !.error = FALSE]
           u == ticket'[j]
<1>1. t \in Ticket /\ t.part \in [Target -> Part] /\ 0 \in Target
  <2>1. ticket[j] \in Ticket
    BY DEF TypeOK
  <2> QED
    BY <2>1 DEF Ticket, Target
<1>2. ASSUME NEW p \in Part
      PROVE  /\ Commanded(c, p) \in Part /\ Commanded(c, p).done = p.done
             /\ Commanded(c, p).copy = p.copy /\ Commanded(c, p).error = p.error
             /\ c = "hold" => Commanded(c, p).held
  BY DEF Commanded, Part, Command
<1>3. /\ pr \in Part /\ pr.done = t.part[r].done /\ pr.copy = t.part[r].copy
      /\ pr.error = t.part[r].error
  BY <1>1, <1>2
<1>4. q = pr
  <2> HIDE DEF pr
  <2> QED
    BY <1>3 DEF Part
<1>5. /\ p0.done = t.part[0].done /\ p0.copy = t.part[0].copy /\ ~p0.error
      /\ c = "hold" => p0.held
  <2> DEFINE x == Commanded(c, t.part[0])
  <2>1. /\ x \in Part /\ x.done = t.part[0].done /\ x.copy = t.part[0].copy
        /\ c = "hold" => x.held
    BY <1>1, <1>2
  <2> HIDE DEF x
  <2>2. LET y == [x EXCEPT !.error = FALSE]
        IN  y.held = x.held /\ y.done = x.done /\ ~y.error /\ y.copy = x.copy
    BY <2>1, PartFields
  <2> QED
    BY <2>1, <2>2 DEF x
<1>6. ticket' = [ticket EXCEPT ![j] =
             [t EXCEPT !.part = [parts EXCEPT ![0] = p0],
                       !.move = @ \/ c = "move",
                       !.remove = IF c \in {"redo", "move"} THEN 0 ELSE @]]
  <2>1. q = [Commanded(c, t.part[r]) EXCEPT
                      !.copy = IF c = "redo" THEN 0 ELSE @]
    BY <1>3
  <2> QED
    BY <2>1 DEF Lpc
<1>7. /\ u.part = [parts EXCEPT ![0] = p0] /\ u.server = t.server /\ u.dest = t.dest
      /\ u.move = t.move
  <2> HIDE DEF t, parts, p0, q, pr
  <2>1. u = [t EXCEPT !.part = [parts EXCEPT ![0] = p0],
                       !.move = @ \/ c = "move",
                       !.remove = IF c \in {"redo", "move"} THEN 0 ELSE @]
    BY <1>6 DEF TypeOK
  <2>2. t.move \in BOOLEAN /\ ((t.move \/ c = "move") <=> t.move)
    BY <1>1 DEF Ticket
  <2>3. u.move = (t.move \/ c = "move")
    BY <1>1, <2>1 DEF Ticket
  <2>4. u.move = t.move
    BY <2>2, <2>3
  <2> QED
    BY <1>1, <2>1, <2>4 DEF Ticket
<1> HIDE DEF u, q, pr, p0
<1>8. /\ u.part[0] = p0
      /\ \A x \in Target \ {0} : u.part[x] = IF x = r THEN q ELSE t.part[x]
  BY <1>1, <1>7
<1>9. Asked(u, t)
  BY <1>3, <1>4, <1>5, <1>7, <1>8 DEF Asked
<1> QED
  BY <1>5, <1>8, <1>9 DEF u

\* A job that is picked gets its first open destination.
LEMMA PickJobShape ==
    ASSUME TypeOK, NEW j \in Jobs, PickJob(j)
    PROVE  /\ Marked(ticket'[j], ticket[j]) /\ ticket'[j].server = "queue"
           /\ ticket'[j].dest = IF j \in Routed THEN FirstOpen(j) ELSE ticket[j].dest
           /\ \A i \in Jobs \ {j} : ticket'[i] = ticket[i]
<1> DEFINE d == IF j \in Routed THEN FirstOpen(j) ELSE ticket[j].dest
<1>1. ticket' = [ticket EXCEPT ![j] = [ticket[j] EXCEPT !.server = "queue", !.dest = d]]
  BY DEF PickJob, TypeOK
<1>2. ticket[j] \in Ticket
  BY DEF TypeOK
<1> HIDE DEF d
<1>3. LET u == [ticket[j] EXCEPT !.server = "queue", !.dest = d]
      IN  /\ u.part = ticket[j].part /\ u.move = ticket[j].move
          /\ u.remove = ticket[j].remove /\ u.server = "queue" /\ u.dest = d
  BY <1>2 DEF Ticket
<1> QED
  BY <1>1, <1>3 DEF TypeOK, Marked, d

ClearChange(j) ==
    /\ pc = "clear" /\ Marked(ticket'[j], ticket[j])
    /\ ticket'[j].server \in {"none", ticket[j].server}
    /\ j \notin Routed => ticket'[j].dest = ticket[j].dest

LpcChange(j) ==
    /\ Asked(ticket'[j], ticket[j])
    /\ poke' \/ (pc = "off" /\ ticket'[j].part[0].held)
    /\ UNCHANGED <<present, pc, order, victims, worker, printed>>

StartChange(j) ==
    /\ worker.phase = "forked" /\ worker.job = j
    /\ Marked(ticket'[j], ticket[j]) /\ ticket'[j].dest = ticket[j].dest
    /\ ticket'[j].server = "worker"

ReapChange(j) ==
    /\ WaitReap /\ worker.job = j /\ j \in present
    /\ ticket'[j] \in Updated(ticket[j], worker.phase)

LEMMA UserChange ==
    ASSUME HandlerInv, UserStep, NEW j \in Untouched'
    PROVE  /\ j \in Jobs /\ j \in Untouched
           /\ ticket'[j] = ticket[j] \/ LpcChange(j)
<1>0. TypeOK /\ j \in (fresh' \cup present') /\ j \notin touched'
  BY DEF HandlerInv, Untouched
<1>1. ASSUME NEW i \in Jobs, Submit(i) \/ Remove(i)
      PROVE  j \in Jobs /\ j \in Untouched /\ ticket'[j] = ticket[j]
  BY <1>0, <1>1 DEF Submit, Remove, Untouched, TypeOK, ghostVars
<1>2. ASSUME NEW i \in Jobs, NEW r \in Target, NEW c \in Commands, Lpc(i, r, c)
      PROVE  /\ j \in Jobs /\ j \in Untouched
             /\ ticket'[j] = ticket[j] \/ LpcChange(j)
  <2>1. /\ touched' = IF c \in {"redo", "move"} THEN touched \cup {i} ELSE touched
        /\ poke' = (poke \/ pc # "off" \/ c # "hold")
        /\ UNCHANGED <<fresh, present, serverVars, worker, printed>>
    BY <1>2 DEF Lpc
  <2>2. j \in Jobs /\ j \in Untouched
    BY <1>0, <2>1 DEF Untouched, TypeOK
  <2>3. CASE i # j
    <3>1. ticket'[j] = ticket[j]
      BY <1>0, <1>2, <2>2, <2>3 DEF Lpc, TypeOK
    <3> QED
      BY <2>2, <3>1
  <2>4. CASE i = j
    <3>1. c \notin {"redo", "move"}
      BY <1>0, <2>1, <2>4
    <3>2. /\ Asked(ticket'[j], ticket[j])
          /\ c = "hold" => ticket'[j].part[0].held
      BY <1>0, <1>2, <2>2, <2>4, <3>1, LpcShape
    <3> QED
      BY <2>1, <2>2, <3>2 DEF LpcChange, serverVars
  <2> QED
    BY <2>3, <2>4
<1> QED
  BY <1>1, <1>2 DEF UserStep

LEMMA ServerChange ==
    ASSUME HandlerInv, MoverTouched, NotMoved, ServerStep, NEW j \in Untouched'
    PROVE  /\ j \in Jobs /\ j \in Untouched
           /\ \/ ticket'[j] = ticket[j]
              \/ ClearChange(j) \/ PickJob(j) \/ ReapChange(j)
<1> USE DEF HandlerInv
<1>0. TypeOK /\ j \in (fresh' \cup present') /\ j \notin touched'
  BY DEF Untouched
<1>1. CASE Start \/ Rescan \/ Collect \/ Expire \/ PickWait \/ PickNothing \/ WakeUp
  <2>1. /\ UNCHANGED <<fresh, ticket, touched>> /\ present' \subseteq present
    BY <1>1 DEF Start, Rescan, Collect, Expire, PickWait, PickNothing, WakeUp,
       spoolVars, ghostVars
  <2> QED
    BY <1>0, <2>1 DEF Untouched, TypeOK
<1>2. CASE Clear
  <2>1. /\ UNCHANGED <<fresh, present, touched>> /\ pc = "clear"
    BY <1>2 DEF Clear, ghostVars
  <2>2. j \in Jobs /\ j \in Untouched
    BY <1>0, <2>1 DEF Untouched, TypeOK
  <2> DEFINE r == IF j \in Routed THEN 0 ELSE ticket[j].dest
  <2>3. /\ ticket[j] \in Ticket
        /\ ticket'[j] = IF j \in order \cap present
                        THEN [ticket[j] EXCEPT !.server = "none", !.dest = r]
                        ELSE ticket[j]
    BY <1>2, <2>2 DEF Clear, TypeOK
  <2> HIDE DEF r
  <2>4. LET u == [ticket[j] EXCEPT !.server = "none", !.dest = r]
        IN  /\ u.part = ticket[j].part /\ u.move = ticket[j].move
            /\ u.remove = ticket[j].remove /\ u.server = "none" /\ u.dest = r
    BY <2>3 DEF Ticket
  <2> QED
    BY <2>1, <2>2, <2>3, <2>4 DEF ClearChange, Marked, r
<1>3. ASSUME NEW i \in Jobs, PickJob(i)
      PROVE  /\ j \in Jobs /\ j \in Untouched
             /\ ticket'[j] = ticket[j] \/ PickJob(j)
  <2>1. UNCHANGED <<fresh, present, touched>>
    BY <1>3 DEF PickJob, ghostVars
  <2>2. j \in Jobs /\ j \in Untouched
    BY <1>0, <2>1 DEF Untouched, TypeOK
  <2> QED
    BY <1>0, <1>3, <2>2, PickJobShape
<1>4. ASSUME NEW i \in Jobs, PickMove(i)
      PROVE  j \in Jobs /\ j \in Untouched /\ ticket'[j] = ticket[j]
  <2>1. /\ UNCHANGED <<fresh, present, touched>>
        /\ i \in present /\ ticket[i].move
    BY <1>4 DEF PickMove, ghostVars, ToMove, Processable, Moving
  <2>2. j \in Jobs /\ j \in Untouched
    BY <1>0, <2>1 DEF Untouched, TypeOK
  <2>3. i # j
    BY <2>1, <2>2 DEF NotMoved
  <2> QED
    BY <1>0, <1>4, <2>2, <2>3 DEF PickMove, TypeOK
<1>5. ASSUME NEW i \in Jobs, SettleAllDone(i)
      PROVE  j \in Jobs /\ j \in Untouched /\ ticket'[j] = ticket[j]
  <2>1. UNCHANGED <<fresh, touched>> /\ Update(i, "succ")
    BY <1>5 DEF SettleAllDone
  <2>2. i \in present /\ i \in Routed /\ (Printable(i) \/ Moving(i))
    BY <1>5 DEF SettleAllDone, Processable
  <2>3. OpenRoutes(i) = {}
    BY <1>5 DEF SettleAllDone, OpenRoutes, RoutesOf
  <2>4. ticket[i].move
    BY <2>2, <2>3 DEF Printable, Moving
  <2>5. /\ present' \subseteq present
        /\ \A k \in Jobs \ {i} : ticket'[k] = ticket[k]
    BY <2>1, UpdateType DEF Status
  <2>6. j \in Jobs /\ j \in Untouched
    BY <1>0, <2>1, <2>5 DEF Untouched, TypeOK
  <2>7. i # j
    BY <2>4, <2>6 DEF NotMoved
  <2> QED
    BY <2>5, <2>6, <2>7
<1>6. CASE MoveRefused
  <2>1. /\ UNCHANGED <<fresh, present, touched>>
        /\ mover \in touched /\ mover \in Jobs
    BY <1>6 DEF MoveRefused, ghostVars, MoverInv, MoverTouched
  <2>2. j \in Jobs /\ j \in Untouched /\ j # mover
    BY <1>0, <2>1 DEF Untouched, TypeOK
  <2> QED
    BY <1>0, <1>6, <2>1, <2>2 DEF MoveRefused, TypeOK
<1>7. CASE MoveEnds
  <2>1. /\ UNCHANGED <<fresh, touched>>
        /\ mover \in touched /\ mover \in Jobs
    BY <1>7 DEF MoveEnds, MoverInv, MoverTouched
  <2>2. /\ present' \subseteq present
        /\ \A k \in Jobs \ {mover} : ticket'[k] = ticket[k]
    <3>1. CASE mover \in present
      BY <1>7, <2>1, <3>1, UpdateType DEF MoveEnds
    <3>2. CASE mover \notin present
      BY <1>7, <3>2 DEF MoveEnds
    <3> QED
      BY <3>1, <3>2
  <2>3. j \in Jobs /\ j \in Untouched /\ j # mover
    BY <1>0, <2>1, <2>2 DEF Untouched, TypeOK
  <2> QED
    BY <2>2, <2>3
<1>8. CASE WaitReap
  <2>1. /\ UNCHANGED <<fresh, touched>>
        /\ worker.phase \in Status
        /\ worker.job \in Jobs
    BY <1>8 DEF WaitReap, Exited, WorkerInv, Busy, Status
  <2>2. /\ present' \subseteq present
        /\ \A k \in Jobs \ {worker.job} : ticket'[k] = ticket[k]
        /\ \/ worker.job \notin present /\ ticket' = ticket
           \/ /\ worker.job \in present
              /\ ticket'[worker.job] \in Updated(ticket[worker.job], worker.phase)
    <3>1. CASE worker.job \in present
      <4>1. Update(worker.job, worker.phase)
        BY <1>8, <3>1 DEF WaitReap
      <4>2. ticket'[worker.job] \in Updated(ticket[worker.job], worker.phase)
        BY <2>1, <4>1 DEF Update, TypeOK
      <4> QED
        BY <2>1, <3>1, <4>1, <4>2, UpdateType
    <3>2. CASE worker.job \notin present
      BY <1>8, <3>2 DEF WaitReap
    <3> QED
      BY <3>1, <3>2
  <2>3. j \in Jobs /\ j \in Untouched
    BY <1>0, <2>1, <2>2 DEF Untouched, TypeOK
  <2> QED
    BY <1>8, <2>2, <2>3 DEF ReapChange
<1> QED
  BY <1>1, <1>2, <1>3, <1>4, <1>5, <1>6, <1>7, <1>8 DEF ServerStep

LEMMA WorkerChange ==
    ASSUME HandlerInv, WorkerStep, NEW j \in Untouched'
    PROVE  /\ j \in Jobs /\ j \in Untouched
           /\ ticket'[j] = ticket[j] \/ StartChange(j)
<1> USE DEF HandlerInv
<1>1. UNCHANGED <<fresh, present, touched>>
  BY DEF WorkerStep, WorkerStart, WorkerExit, ghostVars, spoolVars
<1>2. j \in Jobs /\ j \in Untouched
  BY <1>1 DEF Untouched, TypeOK
<1>3. CASE WorkerStart
  <2>1. ticket' = [ticket EXCEPT ![worker.job].server = "worker"] \/ ticket' = ticket
    BY <1>3 DEF WorkerStart
  <2>2. CASE worker.job = j /\ ticket' # ticket
    <3>1. ticket[j] \in Ticket /\ ticket'[j] = [ticket[j] EXCEPT !.server = "worker"]
      BY <1>2, <2>1, <2>2 DEF TypeOK
    <3>2. LET u == [ticket[j] EXCEPT !.server = "worker"]
          IN  /\ u.part = ticket[j].part /\ u.move = ticket[j].move
              /\ u.remove = ticket[j].remove /\ u.server = "worker"
              /\ u.dest = ticket[j].dest
      BY <3>1 DEF Ticket
    <3> QED
      BY <1>2, <1>3, <2>2, <3>1, <3>2 DEF StartChange, Marked, WorkerStart
  <2>3. CASE worker.job # j \/ ticket' = ticket
    BY <1>2, <2>1, <2>3 DEF TypeOK
  <2> QED
    BY <2>2, <2>3
<1>4. ASSUME NEW status \in Exits, WorkerExit(status)
      PROVE  ticket'[j] = ticket[j]
  BY <1>4 DEF WorkerExit, spoolVars
<1> QED
  BY <1>2, <1>3, <1>4 DEF WorkerStep

LEMMA UntouchedChange ==
    ASSUME HandlerInv, MoverTouched, NotMoved, [Next]_vars, NEW j \in Untouched'
    PROVE  /\ j \in Jobs /\ j \in Untouched
           /\ \/ ticket'[j] = ticket[j]
              \/ LpcChange(j) \/ ClearChange(j) \/ PickJob(j)
              \/ StartChange(j) \/ ReapChange(j)
<1>1. CASE UNCHANGED vars
  BY <1>1 DEF vars, spoolVars, ghostVars, Untouched, HandlerInv, TypeOK
<1> QED
  BY <1>1, UserChange, ServerChange, WorkerChange DEF Next

-----------------------------------------------------------------------------
(* The worker and what it works on.                                        *)

\* The worker is reaped, goes on, or is a new one.
LEMMA WorkerMoves ==
    ASSUME HandlerInv, [Next]_vars
    PROVE  \/ worker' = worker /\ printed' = printed
           \/ worker' = NoWork /\ WaitReap /\ printed' = printed
           \/ /\ \E j \in Jobs : PickJob(j) /\ ~Busy /\ worker' =
                   [job |-> j, route |-> IF j \in Routed THEN FirstOpen(j) ELSE 0,
                    phase |-> "forked"]
              /\ printed' = printed
           \/ /\ worker.phase = "forked" /\ printed' = printed
              /\ \/ worker' = [worker EXCEPT !.phase = "printing"]
                 \/ /\ worker' = [worker EXCEPT !.phase = "succ"]
                    /\ worker.job \notin present' \cup fresh'
           \/ /\ worker.phase = "printing"
              /\ \E status \in Exits :
                   /\ worker' = [worker EXCEPT !.phase = status]
                   /\ printed' = IF status = "succ"
                        THEN [printed EXCEPT ![worker.job][worker.route] = @ + 1]
                        ELSE printed
<1>1. CASE UserStep
  <2>1. ASSUME NEW j, NEW r, NEW c, Lpc(j, r, c)
        PROVE  worker' = worker /\ printed' = printed
    BY <2>1 DEF Lpc
  <2>2. ASSUME NEW j, Submit(j) \/ Remove(j)
        PROVE  worker' = worker /\ printed' = printed
    BY <2>2 DEF Submit, Remove, ghostVars
  <2> QED
    BY <1>1, <2>1, <2>2 DEF UserStep
<1>2. CASE ServerStep
  <2>1. CASE \/ Start \/ Clear \/ Rescan \/ Collect \/ Expire \/ PickWait
             \/ PickNothing \/ WakeUp \/ MoveRefused \/ MoveEnds
    BY <2>1 DEF Start, Clear, Rescan, Collect, Expire, PickWait, PickNothing,
       WakeUp, MoveRefused, MoveEnds, ghostVars
  <2>2. ASSUME NEW j \in Jobs, PickMove(j) \/ SettleAllDone(j)
        PROVE  worker' = worker /\ printed' = printed
    BY <2>2 DEF PickMove, SettleAllDone, ghostVars
  <2>3. CASE WaitReap
    BY <2>3 DEF WaitReap
  <2>4. ASSUME NEW j \in Jobs, PickJob(j)
        PROVE  /\ printed' = printed /\ ~Busy
               /\ \/ worker' = worker
                  \/ worker' = [job |-> j,
                                route |-> IF j \in Routed THEN FirstOpen(j) ELSE 0,
                                phase |-> "forked"]
    BY <2>4 DEF PickJob, ghostVars
  <2> QED
    BY <1>2, <2>1, <2>2, <2>3, <2>4 DEF ServerStep
<1>3. CASE WorkerStart
  <2>1. worker.job \notin fresh /\ UNCHANGED <<fresh, present, printed>>
    BY <1>3 DEF HandlerInv, WorkerStart, WorkerInv, Busy, ghostVars
  <2> QED
    BY <1>3, <2>1 DEF WorkerStart
<1>4. ASSUME NEW status \in Exits, WorkerExit(status)
      PROVE  /\ worker.phase = "printing"
             /\ worker' = [worker EXCEPT !.phase = status]
             /\ printed' = IF status = "succ"
                        THEN [printed EXCEPT ![worker.job][worker.route] = @ + 1]
                        ELSE printed
  BY <1>4 DEF WorkerExit
<1>5. CASE UNCHANGED vars
  BY <1>5 DEF vars, ghostVars
<1> QED
  BY <1>1, <1>2, <1>3, <1>4, <1>5 DEF Next, WorkerStep

\* What is picked can be printed: the destination, or the job, is open.
LEMMA PickedIsOpen ==
    ASSUME TypeOK, NEW j \in Jobs, PickJob(j),
           NEW r, r = IF j \in Routed THEN FirstOpen(j) ELSE 0
    PROVE  /\ j \in present /\ r \in Target /\ Owned(j, r)
           /\ ~ticket[j].part[r].done /\ ~ticket[j].part[r].error
           /\ j \in order /\ pc = "pick" /\ pc' = "main"
           /\ j \in Routed => /\ r \in OpenRoutes(j)
                              /\ \A q \in OpenRoutes(j) : r <= q
<1>1. /\ j \in present /\ Printable(j) /\ j \in order
      /\ pc = "pick" /\ pc' = "main"
  BY DEF PickJob, ToPrint, Processable, Goto
<1>2. CASE j \notin Routed
  BY <1>1, <1>2 DEF Printable, Owned, Target
<1>3. CASE j \in Routed
  <2>1. OpenRoutes(j) # {}
    BY <1>1, <1>3 DEF Printable
  <2>2. r \in OpenRoutes(j) /\ \A q \in OpenRoutes(j) : r <= q
    BY <1>3, <2>1, FirstOpenMin
  <2>3. /\ r \in Route /\ ~ticket[j].part[r].done /\ ~ticket[j].part[r].error
    BY <1>3, <2>2 DEF OpenRoutes, RoutesOf
  <2>4. r # 0 /\ r \in Target
    BY <2>3 DEF Route, Target
  <2> QED
    BY <1>1, <1>3, <2>2, <2>3, <2>4 DEF Owned
<1> QED
  BY <1>2, <1>3

LEMMA OwnInit == Init => OwnInv
BY DEF Init, OwnInv, MoverTouched, NotMoved, Untouched, NewTicket, NoWork, Busy,
   AtWork

\* What the steps leave alone: a job stays touched, what is moved was picked,
\* and jobs to be removed are chosen in a scan only.
Quiet ==
    /\ touched \subseteq touched'
    /\ mover' \in {mover, None} \/ \E i \in Jobs : PickMove(i)
    /\ victims' = {} \/ pc' = "expire" \/ (victims' = victims /\ pc # "expire")
    /\ victims' = victims \/ Collect \/ Expire

LEMMA LpcQuiet ==
    ASSUME NEW j, NEW r, NEW c, Lpc(j, r, c)
    PROVE  touched \subseteq touched' /\ UNCHANGED serverVars
BY DEF Lpc

LEMMA StepQuiet == ASSUME [Next]_vars PROVE Quiet
<1>1. CASE UserStep
  <2>1. ASSUME NEW j \in Jobs, Submit(j) \/ Remove(j)
        PROVE  touched' = touched /\ UNCHANGED serverVars
    BY <2>1 DEF Submit, Remove, ghostVars
  <2>2. touched \subseteq touched' /\ UNCHANGED serverVars
    BY <1>1, <2>1, LpcQuiet DEF UserStep
  <2> QED
    BY <2>2 DEF Quiet, serverVars
<1>2. CASE ServerStep
  <2>1. CASE Start \/ Clear \/ Rescan \/ Collect \/ Expire
    BY <2>1 DEF Quiet, Start, Clear, Rescan, Collect, Expire, ghostVars, Goto
  <2>2. CASE MoveRefused \/ MoveEnds
    BY <2>2 DEF Quiet, MoveRefused, MoveEnds, ghostVars, Goto
  <2>3. CASE PickWait \/ PickNothing \/ WaitReap \/ WakeUp
    BY <2>3 DEF Quiet, PickWait, PickNothing, WaitReap, WakeUp, ghostVars, Goto
  <2>4. ASSUME NEW j \in Jobs, PickJob(j) \/ SettleAllDone(j)
        PROVE  Quiet
    BY <2>4 DEF Quiet, PickJob, SettleAllDone, ghostVars, Goto
  <2>5. ASSUME NEW j \in Jobs, PickMove(j)
        PROVE  Quiet
    BY <2>5 DEF Quiet, PickMove, ghostVars, Goto
  <2> QED
    BY <1>2, <2>1, <2>2, <2>3, <2>4, <2>5 DEF ServerStep
<1>3. CASE WorkerStep
  BY <1>3 DEF Quiet, WorkerStep, WorkerStart, WorkerExit, ghostVars, serverVars
<1>4. CASE UNCHANGED vars
  BY <1>4 DEF Quiet, vars, ghostVars, serverVars
<1> QED
  BY <1>1, <1>2, <1>3, <1>4 DEF Next

LEMMA OwnStep ==
    ASSUME HandlerInv, OwnInv, [Next]_vars
    PROVE  OwnInv'
<1> USE DEF HandlerInv, OwnInv
<1>1. MoverTouched'
  <2>1. touched \subseteq touched'
    BY StepQuiet DEF Quiet
  <2>2. ASSUME NEW i \in Jobs, PickMove(i) PROVE MoverTouched'
    <3>1. i \in present /\ ticket[i].move /\ mover' = i
      BY <2>2 DEF PickMove, ToMove, Processable, Moving
    <3>2. i \in touched
      BY <3>1 DEF NotMoved, Untouched
    <3> QED
      BY <2>1, <3>1, <3>2 DEF MoverTouched
  <2>3. mover' \in {mover, None} \/ \E i \in Jobs : PickMove(i)
    BY StepQuiet DEF Quiet
  <2> QED
    BY <2>1, <2>2, <2>3 DEF MoverTouched
<1>2. (~Busy)' => worker' = NoWork
  <2>1. worker \in Worker
    BY DEF TypeOK
  <2>2. CASE worker.phase \in {"forked", "printing"} /\ worker' # NoWork
    BY <2>1, <2>2, WorkerMoves DEF Busy, Worker, Status
  <2>3. CASE worker.phase \notin {"forked", "printing"}
    BY <2>3, WorkerMoves DEF Busy
  <2> QED
    BY <2>2, <2>3
<1>3. pc' # "expire" => victims' = {}
  BY StepQuiet DEF Quiet
<1>4. ASSUME NEW j \in Untouched'
      PROVE  /\ ~ticket'[j].move
             /\ j \notin Routed => ticket'[j].dest = 0
             /\ AtWork(j)' =>
                   /\ Owned(j, worker'.route) /\ worker'.route = ticket'[j].dest
                   /\ ~ticket'[j].part[worker'.route].done
                   /\ ~ticket'[j].part[worker'.route].error
  <2> DEFINE t == ticket[j]
             u == ticket'[j]
  <2>1. /\ j \in Jobs /\ j \in Untouched
        /\ \/ u = t
           \/ LpcChange(j) \/ ClearChange(j) \/ PickJob(j)
           \/ StartChange(j) \/ ReapChange(j)
    BY UntouchedChange
  <2>2. ~t.move /\ (j \notin Routed => t.dest = 0) /\ t \in Ticket
    BY <2>1 DEF NotMoved, TypeOK
  <2>3. /\ ~u.move /\ (j \notin Routed => u.dest = 0)
    <3>1. CASE ReapChange(j)
      <4>1. worker.phase \in Status /\ u \in Updated(t, worker.phase)
        BY <3>1 DEF ReapChange, WaitReap, Exited
      <4>2. Kept(u, t)
        BY <2>2, <4>1, UpdatedShape DEF TypeOK
      <4> QED
        BY <2>2, <4>2 DEF Kept
    <3>2. CASE PickJob(j)
      BY <2>1, <2>2, <3>2, PickJobShape DEF Marked
    <3> QED
      BY <2>1, <2>2, <3>1, <3>2 DEF LpcChange, Asked, ClearChange, Marked, StartChange
  <2>4. ASSUME AtWork(j)'
        PROVE  /\ Owned(j, worker'.route) /\ worker'.route = u.dest
               /\ ~u.part[worker'.route].done /\ ~u.part[worker'.route].error
    <3>1. CASE PickJob(j)
      <4> DEFINE r == IF j \in Routed THEN FirstOpen(j) ELSE 0
      <4>1. ~Busy /\ worker' \in {worker, [job |-> j, route |-> r, phase |-> "forked"]}
        BY <3>1 DEF PickJob
      <4>2. worker'.route = r
        BY <2>4, <4>1 DEF AtWork, Busy
      <4>3. /\ Owned(j, r) /\ ~t.part[r].done /\ ~t.part[r].error
        BY <2>1, <3>1, PickedIsOpen
      <4>4. u.part = t.part /\ u.dest = r
        BY <2>1, <2>2, <3>1, PickJobShape DEF Marked
      <4> QED
        BY <4>2, <4>3, <4>4
    <3>2. CASE ~PickJob(j)
      <4>1. AtWork(j) /\ worker'.route = worker.route
        <5>1. ~(\E i \in Jobs : PickJob(i) /\ worker' =
                   [job |-> i, route |-> IF i \in Routed THEN FirstOpen(i) ELSE 0,
                    phase |-> "forked"])
          BY <2>4, <3>2 DEF AtWork
        <5>2. worker' # NoWork
          BY <2>4 DEF AtWork, Busy, NoWork
        <5>3. worker \in Worker
          BY DEF TypeOK
        <5> QED
          BY <2>4, <5>1, <5>2, <5>3, WorkerMoves DEF AtWork, Busy, Worker
      <4>2. /\ Owned(j, worker.route) /\ worker.route = t.dest
            /\ ~t.part[worker.route].done /\ ~t.part[worker.route].error
        BY <2>1, <4>1
      <4>3. worker.route \in Target /\ 0 \in Target
        BY DEF TypeOK, Worker, Target
      <4>4. ~ReapChange(j) /\ ~ClearChange(j)
        <5>1. WaitReap => worker' = NoWork
          BY DEF WaitReap
        <5>2. worker' # NoWork
          BY <2>4 DEF AtWork, Busy, NoWork
        <5>3. pc = "clear" => ~Busy
          BY DEF WorkerInv
        <5> QED
          BY <4>1, <5>1, <5>2, <5>3 DEF ReapChange, ClearChange, AtWork
      <4> QED
        BY <2>1, <3>2, <4>1, <4>2, <4>3, <4>4 DEF LpcChange, Asked, StartChange, Marked
    <3> QED
      BY <3>1, <3>2
  <2> QED
    BY <2>3, <2>4
<1> QED
  BY <1>1, <1>2, <1>3, <1>4 DEF NotMoved

\* Who is at work after a step was picked in it, or was at work before.
LEMMA StillAtWork ==
    ASSUME HandlerInv, [Next]_vars, NEW j \in Jobs, AtWork(j)'
    PROVE  \/ /\ PickJob(j) /\ ~Busy
              /\ worker'.route = IF j \in Routed THEN FirstOpen(j) ELSE 0
           \/ /\ AtWork(j) /\ worker'.route = worker.route
              /\ ~ReapChange(j) /\ ~ClearChange(j) /\ ~PickJob(j)
<1> USE DEF HandlerInv
<1>1. worker' # NoWork
  BY DEF AtWork, Busy, NoWork
<1>2. WaitReap => worker' = NoWork
  BY DEF WaitReap
<1>3. pc = "clear" => ~Busy
  BY DEF WorkerInv
<1>4. PickJob(j) => ~Busy /\ worker' \in {worker,
         [job |-> j, route |-> IF j \in Routed THEN FirstOpen(j) ELSE 0, phase |-> "forked"]}
  BY DEF PickJob
<1>5. CASE PickJob(j)
  BY <1>4, <1>5 DEF AtWork, Busy
<1>6. CASE ~PickJob(j)
  <2>1. ~(\E i \in Jobs : PickJob(i) /\ worker' =
             [job |-> i, route |-> IF i \in Routed THEN FirstOpen(i) ELSE 0,
              phase |-> "forked"])
    BY <1>6 DEF AtWork
  <2>2. worker \in Worker
    BY DEF TypeOK
  <2>3. AtWork(j) /\ worker'.route = worker.route
    BY <1>1, <2>1, <2>2, WorkerMoves DEF AtWork, Busy, Worker
  <2> QED
    BY <1>1, <1>2, <1>3, <1>6, <2>3 DEF ReapChange, ClearChange, AtWork
<1> QED
  BY <1>5, <1>6

\* A worker whose job has a ticket is reaped with Update_status.
LEMMA ReapUpdates ==
    ASSUME HandlerInv, WaitReap, NEW j \in Jobs, worker.job = j, j \in Untouched
    PROVE  ReapChange(j)
<1> USE DEF HandlerInv
<1>1. Busy /\ j \in present
  BY DEF WaitReap, Exited, Busy, Status, WorkerInv, Untouched
<1>2. Update(j, worker.phase)
  BY <1>1 DEF WaitReap
<1>3. ticket'[j] \in Updated(ticket[j], worker.phase)
  BY <1>2 DEF Update, TypeOK
<1> QED
  BY <1>1, <1>3 DEF ReapChange

\* What reaping does to the ticket of an untouched job.
LEMMA ReapShape ==
    ASSUME HandlerInv, OwnInv, NEW j \in Jobs, j \in Untouched, ReapChange(j)
    PROVE  /\ AtWork(j) /\ worker.phase \in Status
           /\ worker.route = ticket[j].dest /\ worker' = NoWork
           /\ Kept(ticket'[j], ticket[j])
           /\ ticket'[j].server = "none" \/ ticket'[j] = ticket[j]
           /\ worker.phase = "succ" => Counts(ticket'[j], ticket[j])
           /\ worker.phase # "succ" /\ "succ" \notin FailureActions =>
                 NoCount(ticket'[j], ticket[j])
<1> USE DEF HandlerInv, OwnInv
<1>1. AtWork(j) /\ worker.phase \in Status /\ worker' = NoWork
  BY DEF ReapChange, WaitReap, Exited, AtWork, Busy, Status
<1>2. worker.route = ticket[j].dest /\ ~ticket[j].move
  BY <1>1 DEF NotMoved
<1>3. ticket[j] \in Ticket /\ clock \in Nat
  BY DEF TypeOK
<1>4. ticket'[j] \in Updated(ticket[j], worker.phase)
  BY DEF ReapChange
<1> QED
  BY <1>1, <1>2, <1>3, <1>4, UpdatedShape

-----------------------------------------------------------------------------
(* Copies.                                                                 *)

LEMMA CountInit == Init => CountInv
<1> SUFFICES ASSUME Init PROVE CountInv
  OBVIOUS
<1>1. ASSUME NEW j \in Untouched, NEW r \in Target
      PROVE  /\ ticket[j].part[r] = NewPart /\ printed[j][r] = 0 /\ ~Unreaped(j, r)
  BY DEF Init, Untouched, NewTicket, NoWork, Unreaped
<1>2. NewPart.copy = 0 /\ ~NewPart.done
  BY DEF NewPart
<1>3. \A r \in Target : CopiesOf(r) \in Nat \ {0}
  BY DEF CopiesOf
<1> QED
  BY <1>1, <1>2, <1>3 DEF CountInv

LEMMA CountStep ==
    ASSUME HandlerInv, OwnInv, CountInv, [Next]_vars, "succ" \notin FailureActions
    PROVE  CountInv'
<1> USE DEF HandlerInv
<1> SUFFICES ASSUME NEW j \in Untouched', NEW r \in Target, Owned(j, r)
             PROVE  /\ printed'[j][r] = ticket'[j].part[r].copy
                                        + IF Unreaped(j, r)' THEN 1 ELSE 0
                    /\ ticket'[j].part[r].copy <= CopiesOf(r)
                    /\ ticket'[j].part[r].done <=> ticket'[j].part[r].copy = CopiesOf(r)
  BY DEF CountInv
<1> DEFINE p == ticket[j].part[r]
           q == ticket'[j].part[r]
<1>1. /\ j \in Jobs /\ j \in Untouched
      /\ \/ ticket'[j] = ticket[j]
         \/ LpcChange(j) \/ ClearChange(j) \/ PickJob(j)
         \/ StartChange(j) \/ ReapChange(j)
  BY UntouchedChange DEF OwnInv
<1>2. /\ printed[j][r] = p.copy + IF Unreaped(j, r) THEN 1 ELSE 0
      /\ p.copy <= CopiesOf(r)
      /\ p.done <=> p.copy = CopiesOf(r)
  BY <1>1 DEF CountInv
<1>3. /\ p.copy \in Nat /\ CopiesOf(r) \in Nat
      /\ worker \in Worker /\ printed \in [Jobs -> [Target -> Nat]]
      /\ 0 \in Target
  <2>1. ticket[j] \in Ticket /\ worker \in Worker /\ printed \in [Jobs -> [Target -> Nat]]
    BY <1>1 DEF TypeOK
  <2>2. p \in Part
    BY <2>1 DEF Ticket
  <2>3. p.copy \in Nat
    BY <2>2 DEF Part
  <2> QED
    BY <2>1, <2>3 DEF CopiesOf, Target
<1>4. CASE ReapChange(j)
  <2>1. /\ AtWork(j) /\ worker.phase \in Status
        /\ worker.route = ticket[j].dest /\ worker' = NoWork
        /\ Kept(ticket'[j], ticket[j])
        /\ worker.phase = "succ" => Counts(ticket'[j], ticket[j])
        /\ worker.phase # "succ" => NoCount(ticket'[j], ticket[j])
    BY <1>1, <1>4, ReapShape
  <2>2. ~Unreaped(j, r)' /\ printed' = printed
    BY <1>4, <2>1 DEF Unreaped, NoWork, ReapChange, WaitReap
  <2>3. Unreaped(j, r) <=> worker.phase = "succ" /\ r = ticket[j].dest
    BY <1>3, <2>1 DEF Unreaped, AtWork, Worker
  <2>4. CASE r = ticket[j].dest
    <3>1. ~p.done
      BY <1>1, <2>1, <2>4 DEF OwnInv
    <3>2. CASE worker.phase = "succ"
      <4>1. /\ q.copy = IF p.copy < CopiesOf(r) THEN p.copy + 1 ELSE p.copy
            /\ q.done <=> p.done \/ q.copy >= CopiesOf(r)
        BY <2>1, <2>4, <3>2 DEF Counts
      <4>2. p.copy < CopiesOf(r) /\ printed[j][r] = p.copy + 1
        <5>1. p.copy # CopiesOf(r) /\ Unreaped(j, r)
          BY <1>2, <2>3, <2>4, <3>1, <3>2
        <5>2. p.copy \in Nat /\ CopiesOf(r) \in Nat /\ p.copy <= CopiesOf(r)
          BY <1>2, <1>3
        <5>3. printed[j][r] = p.copy + 1
          BY <1>2, <5>1
        <5> HIDE DEF p
        <5> QED
          BY <5>1, <5>2, <5>3
      <4>3. /\ q.copy = p.copy + 1
            /\ q.done <=> q.copy >= CopiesOf(r)
        BY <3>1, <4>1, <4>2
      <4>4. printed'[j][r] = q.copy + IF Unreaped(j, r)' THEN 1 ELSE 0
        BY <1>3, <2>2, <4>2, <4>3
      <4>5. q.copy <= CopiesOf(r) /\ (q.copy >= CopiesOf(r) <=> q.copy = CopiesOf(r))
        <5>1. q.copy = p.copy + 1 /\ p.copy < CopiesOf(r)
          BY <4>2, <4>3
        <5> HIDE DEF p, q
        <5> QED
          BY <1>3, <5>1
      <4> QED
        BY <4>3, <4>4, <4>5
    <3>3. CASE worker.phase # "succ"
      <4>1. q.copy = p.copy /\ q.done = p.done
        BY <2>1, <3>3 DEF NoCount
      <4> QED
        BY <1>2, <2>2, <2>3, <3>3, <4>1
    <3> QED
      BY <3>2, <3>3
  <2>5. CASE r # ticket[j].dest
    <3>1. r # 0
      BY <1>1, <2>5 DEF OwnInv, Owned
    <3>2. q.copy = p.copy /\ q.done = p.done
      BY <2>1, <2>5, <3>1 DEF Kept
    <3> QED
      BY <1>2, <2>2, <2>3, <2>5, <3>2
  <2> QED
    BY <2>4, <2>5
<1>5. CASE ~ReapChange(j)
  <2>1. q.copy = p.copy /\ q.done = p.done
    <3>1. PickJob(j) => ticket'[j].part = ticket[j].part
      BY <1>1, PickJobShape DEF Marked
    <3> QED
      BY <1>1, <1>5, <3>1 DEF LpcChange, Asked, ClearChange, StartChange, Marked
  <2>2. printed'[j][r] = printed[j][r] + (IF Unreaped(j, r)' THEN 1 ELSE 0)
                                       - (IF Unreaped(j, r) THEN 1 ELSE 0)
    <3>0. printed[j][r] \in Nat
      BY <1>1, <1>3
    <3>1. CASE worker' = worker /\ printed' = printed
      BY <3>0, <3>1 DEF Unreaped
    <3>2. CASE worker' = NoWork /\ WaitReap /\ printed' = printed
      <4>1. worker.job # j
        BY <1>1, <1>5, <3>2, ReapUpdates
      <4> QED
        BY <3>0, <3>2, <4>1 DEF Unreaped, NoWork
    <3>3. CASE /\ \E i \in Jobs : PickJob(i) /\ ~Busy /\ worker' =
                     [job |-> i, route |-> IF i \in Routed THEN FirstOpen(i) ELSE 0,
                      phase |-> "forked"]
               /\ printed' = printed
      <4>1. ~Unreaped(j, r) /\ ~Unreaped(j, r)'
        BY <3>3 DEF Unreaped, Busy
      <4> QED
        BY <3>0, <3>3, <4>1
    <3>4. CASE /\ worker.phase = "forked" /\ printed' = printed
               /\ \/ worker' = [worker EXCEPT !.phase = "printing"]
                  \/ /\ worker' = [worker EXCEPT !.phase = "succ"]
                     /\ worker.job \notin present' \cup fresh'
      <4>1. ~Unreaped(j, r)
        BY <3>4 DEF Unreaped
      <4>2. ~Unreaped(j, r)'
        BY <1>3, <3>4 DEF Unreaped, Worker, Untouched
      <4> QED
        BY <3>0, <3>4, <4>1, <4>2
    <3>5. ASSUME worker.phase = "printing", NEW status \in Exits,
                 worker' = [worker EXCEPT !.phase = status],
                 printed' = IF status = "succ"
                        THEN [printed EXCEPT ![worker.job][worker.route] = @ + 1]
                        ELSE printed
          PROVE  printed'[j][r] = printed[j][r] + (IF Unreaped(j, r)' THEN 1 ELSE 0)
                                       - (IF Unreaped(j, r) THEN 1 ELSE 0)
      <4>1. ~Unreaped(j, r)
        BY <3>5 DEF Unreaped
      <4>2. Unreaped(j, r)' <=> status = "succ" /\ worker.job = j /\ worker.route = r
        BY <1>3, <3>5 DEF Unreaped, Worker
      <4>3. worker.job \in Jobs /\ worker.route \in Target
        BY <1>3, <3>5 DEF WorkerInv, Busy, Worker
      <4>4. CASE status = "succ"
        <5>1. printed'[j][r] = IF worker.job = j /\ worker.route = r
                               THEN printed[j][r] + 1 ELSE printed[j][r]
          BY <1>1, <1>3, <3>5, <4>3, <4>4
        <5> QED
          BY <3>0, <4>1, <4>2, <4>4, <5>1
      <4>5. CASE status # "succ"
        BY <3>0, <3>5, <4>1, <4>2, <4>5
      <4> QED
        BY <4>4, <4>5
    <3> QED
      BY <3>1, <3>2, <3>3, <3>4, <3>5, WorkerMoves
  <2>3. printed'[j][r] = q.copy + IF Unreaped(j, r)' THEN 1 ELSE 0
    BY <1>2, <1>3, <2>1, <2>2
  <2>4. q.copy <= CopiesOf(r) /\ (q.done <=> q.copy = CopiesOf(r))
    BY <1>2, <2>1
  <2> QED
    BY <2>3, <2>4
<1> QED
  BY <1>4, <1>5

-----------------------------------------------------------------------------
(* The order of destinations.                                              *)

LEMMA RouteInit == Init => RouteInv
BY DEF Init, RouteInv, Untouched, NewTicket, NewPart, NoWork, Busy, AtWork, Target

LEMMA RouteStep ==
    ASSUME HandlerInv, OwnInv, RouteInv, [Next]_vars
    PROVE  RouteInv'
<1> USE DEF HandlerInv
<1> SUFFICES ASSUME NEW j \in Untouched'
             PROVE  LET t == ticket'[j]
                    IN  /\ t.server = "queue" => ~t.part[0].done /\ ~t.part[0].error
                        /\ j \in Routed =>
                             /\ ~t.part[0].error
                             /\ t.part[0].done =>
                                   \A r \in Route : t.part[r].done \/ t.part[r].error
                             /\ AtWork(j)' =>
                                   \A r \in Route : r < worker'.route =>
                                       t.part[r].done \/ t.part[r].error
  BY DEF RouteInv
<1> DEFINE t == ticket[j]
           u == ticket'[j]
<1>1. /\ j \in Jobs /\ j \in Untouched
      /\ \/ u = t
         \/ LpcChange(j) \/ ClearChange(j) \/ PickJob(j)
         \/ StartChange(j) \/ ReapChange(j)
  BY UntouchedChange DEF OwnInv
<1>2. /\ t.server = "queue" => ~t.part[0].done /\ ~t.part[0].error
      /\ j \in Routed =>
           /\ ~t.part[0].error
           /\ t.part[0].done => \A r \in Route : t.part[r].done \/ t.part[r].error
           /\ AtWork(j) => \A r \in Route : r < worker.route =>
                                 t.part[r].done \/ t.part[r].error
  BY <1>1 DEF RouteInv
<1>3. 0 \in Target /\ \A r \in Route : r \in Target /\ r # 0
  BY DEF Target, Route
<1>4. CASE PickJob(j)
  <2> DEFINE d == IF j \in Routed THEN FirstOpen(j) ELSE 0
  <2>1. u.part = t.part /\ u.server = "queue"
    BY <1>1, <1>4, PickJobShape DEF Marked
  <2>2. /\ ~t.part[d].done /\ ~t.part[d].error /\ d \in Target
        /\ j \in Routed => d \in Route /\ \A q \in OpenRoutes(j) : d <= q
    BY <1>1, <1>4, PickedIsOpen DEF OpenRoutes, RoutesOf
  <2>3. j \in Routed => ~t.part[0].done /\ ~t.part[0].error
    BY <1>2, <2>2
  <2>4. ~t.part[0].done /\ ~t.part[0].error
    BY <2>2, <2>3
  <2>5. ASSUME j \in Routed, AtWork(j)', NEW r \in Route, r < worker'.route
        PROVE  t.part[r].done \/ t.part[r].error
    <3>1. worker'.route = d
      BY <1>1, <1>4, <2>5, StillAtWork
    <3>2. r \notin OpenRoutes(j)
      BY <2>2, <2>5, <3>1 DEF Route
    <3>3. ~(~t.part[r].error /\ t.part[r].held)
      BY <1>4, <2>5 DEF PickJob, ToPrint, Processable, Held, RoutesOf
    <3> QED
      BY <2>5, <3>2, <3>3 DEF OpenRoutes, RoutesOf
  <2> QED
    BY <2>1, <2>4, <2>5
<1>5. CASE ReapChange(j)
  <2>1. /\ AtWork(j) /\ worker.route = t.dest /\ worker' = NoWork
        /\ Kept(u, t) /\ (u.server = "none" \/ u = t)
    BY <1>1, <1>5, ReapShape
  <2>2. ~AtWork(j)'
    BY <2>1 DEF AtWork, Busy, NoWork
  <2>3. /\ Owned(j, t.dest) /\ ~t.part[t.dest].done /\ ~t.part[t.dest].error
        /\ t.dest \in Target
    BY <1>1, <2>1 DEF OwnInv, TypeOK, Ticket
  <2>4. ASSUME j \in Routed
        PROVE  /\ ~u.part[0].error
               /\ u.part[0].done =>
                     \A r \in Route : u.part[r].done \/ u.part[r].error
    <3>1. t.dest \in Route
      BY <2>3, <2>4 DEF Owned, Target, Route
    <3>2. ~u.part[0].error
      BY <1>2, <1>3, <2>1, <2>4, <3>1 DEF Kept
    <3>3. ~t.part[0].done
      BY <1>2, <2>3, <2>4, <3>1
    <3>4. ASSUME u.part[0].done, NEW r \in Route
          PROVE  u.part[r].done \/ u.part[r].error
      <4>1. t.dest = NRoutes /\ u.part[t.dest].done
        BY <1>3, <2>1, <3>1, <3>3, <3>4 DEF Kept
      <4>2. CASE r = t.dest
        BY <4>1, <4>2
      <4>3. CASE r # t.dest
        <5>1. r < worker.route
          BY <2>1, <4>1, <4>3 DEF Route
        <5>2. t.part[r].done \/ t.part[r].error
          BY <1>2, <2>1, <2>4, <5>1
        <5>3. u.part[r].done = t.part[r].done /\ u.part[r].error = t.part[r].error
          BY <1>3, <2>1, <4>3 DEF Kept
        <5> QED
          BY <5>2, <5>3
      <4> QED
        BY <4>2, <4>3
    <3> QED
      BY <3>2, <3>4
  <2> QED
    BY <1>2, <2>1, <2>2, <2>4
<1>6. CASE ~PickJob(j) /\ ~ReapChange(j)
  <2>1. /\ \A r \in Target : u.part[r].done = t.part[r].done
        /\ \A r \in Route : u.part[r].error = t.part[r].error
        /\ u.part[0].error => t.part[0].error
        /\ u.server = "queue" => t.server = "queue"
    BY <1>1, <1>3, <1>6 DEF LpcChange, Asked, ClearChange, StartChange, Marked
  <2>2. AtWork(j)' => AtWork(j) /\ worker'.route = worker.route
    BY <1>1, <1>6, StillAtWork
  <2> QED
    BY <1>2, <1>3, <2>1, <2>2
<1> QED
  BY <1>4, <1>5, <1>6

-----------------------------------------------------------------------------
(* What the server knows of the queue.                                     *)

\* A scan, or a step that leaves the order alone; a new job and a command of
\* a user are announced to the server.
LEMMA OrderMoves ==
    ASSUME [Next]_vars
    PROVE  \/ /\ order' = Queued /\ (Start \/ Rescan)
              /\ UNCHANGED <<fresh, present, ticket, touched, worker>>
           \/ /\ order' = order
              /\ ~poke' => ~poke /\ present' \subseteq present
              /\ pc' # "off" => pc # "off"
<1>1. CASE Start \/ Rescan
  BY <1>1 DEF Start, Rescan, spoolVars, ghostVars
<1>2. ASSUME NEW j \in Jobs,
             \/ Submit(j) \/ Remove(j)
             \/ \E r \in Target, c \in Commands : Lpc(j, r, c)
      PROVE  /\ order' = order /\ pc' = pc
             /\ ~poke' => ~poke /\ present' \subseteq present
  <2>1. CASE Submit(j) \/ Remove(j)
    BY <2>1 DEF Submit, Remove, serverVars
  <2>2. ASSUME NEW r \in Target, NEW c \in Commands, Lpc(j, r, c)
        PROVE  /\ order' = order /\ pc' = pc
               /\ ~poke' => ~poke /\ present' = present
    BY <2>2 DEF Lpc, serverVars
  <2> QED
    BY <1>2, <2>1, <2>2
<1>3. CASE WorkerStep
  BY <1>3 DEF WorkerStep, WorkerStart, WorkerExit, serverVars, spoolVars
<1>4. ASSUME NEW j \in Jobs, PickJob(j) \/ PickMove(j) \/ SettleAllDone(j)
      PROVE  /\ order' = order /\ poke' = poke /\ present' \subseteq present
             /\ pc # "off"
  BY <1>4 DEF PickJob, PickMove, SettleAllDone, Update
<1>5. CASE \/ Clear \/ Collect \/ Expire \/ MoveRefused \/ PickWait
           \/ PickNothing \/ WakeUp
  BY <1>5 DEF Clear, Collect, Expire, MoveRefused, PickWait, PickNothing,
     WakeUp, spoolVars, Goto
<1>6. CASE MoveEnds \/ WaitReap
  BY <1>6 DEF MoveEnds, WaitReap, Update
<1>7. CASE UNCHANGED vars
  BY <1>7 DEF vars, serverVars, spoolVars
<1> QED
  BY <1>1, <1>2, <1>3, <1>4, <1>5, <1>6, <1>7 DEF Next, ServerStep, UserStep

LEMMA KnownInit == Init => KnownInv
BY DEF Init, KnownInv

LEMMA KnownStep ==
    ASSUME HandlerInv, OwnInv, KnownInv, [Next]_vars
    PROVE  KnownInv'
<1> USE DEF HandlerInv
<1> SUFFICES ASSUME pc' # "off", ~poke'
             PROVE  /\ Finished' \subseteq order'
                    /\ Busy' /\ worker'.job \in (present' \ touched') \ order' =>
                          ticket'[worker'.job].part[worker'.route].held
  BY DEF KnownInv
<1>1. CASE /\ order' = Queued
           /\ UNCHANGED <<fresh, present, ticket, touched, worker>>
  <2>1. Finished' = Finished
    BY <1>1 DEF Finished
  <2>2. Finished \subseteq Queued
    <3>1. 0 \in Target
      BY DEF Target
    <3> QED
      BY <3>1 DEF Finished, Queued
  <2>3. ASSUME Busy, worker.job \in (present \ touched) \ Queued
        PROVE  ticket[worker.job].part[worker.route].held
    <3> DEFINE j == worker.job
    <3>1. j \in Untouched /\ AtWork(j) /\ j \in present /\ ~Printable(j)
      BY <2>3 DEF Untouched, AtWork, Queued
    <3>2. /\ ~ticket[j].move /\ Owned(j, worker.route)
          /\ ~ticket[j].part[worker.route].done
          /\ ~ticket[j].part[worker.route].error
      BY <3>1 DEF OwnInv, NotMoved
    <3>3. worker.route \in Target
      BY DEF TypeOK, Worker
    <3>4. CASE j \in Routed
      <4>1. worker.route \in Route
        BY <3>2, <3>3, <3>4 DEF Owned, Target, Route
      <4>2. worker.route \notin OpenRoutes(j)
        BY <3>1, <3>4 DEF Printable
      <4> QED
        BY <3>2, <3>4, <4>1, <4>2 DEF OpenRoutes, RoutesOf
    <3>5. CASE j \notin Routed
      <4>1. worker.route = 0
        BY <3>2, <3>5 DEF Owned
      <4> QED
        BY <3>1, <3>2, <3>5, <4>1 DEF Printable
    <3> QED
      BY <3>4, <3>5
  <2> QED
    BY <1>1, <2>1, <2>2, <2>3 DEF Busy
<1>2. CASE /\ order' = order
           /\ ~poke' => ~poke /\ present' \subseteq present
           /\ pc' # "off" => pc # "off"
  <2>1. /\ ~poke /\ pc # "off" /\ present' \subseteq present /\ order' = order
        /\ Finished \subseteq order
        /\ \A j \in (present \ touched) \ order :
              AtWork(j) => ticket[j].part[worker.route].held
    BY <1>2 DEF KnownInv, AtWork
  <2>2. ASSUME NEW j \in (present' \ touched')
        PROVE  /\ j \in Jobs /\ j \in Untouched /\ j \in present \ touched
               /\ \/ ticket'[j] = ticket[j]
                  \/ ClearChange(j) \/ PickJob(j)
                  \/ StartChange(j) \/ ReapChange(j)
    <3>1. j \in Untouched'
      BY DEF Untouched
    <3>2. ~LpcChange(j)
      BY <2>1 DEF LpcChange
    <3> QED
      BY <2>1, <3>1, <3>2, UntouchedChange DEF OwnInv, Untouched
  <2>3. ASSUME NEW j \in Finished' PROVE j \in order
    <3>1. /\ j \in present' \ touched' /\ ticket'[j].remove # 0
          /\ ticket'[j].part[0].done \/ ticket'[j].part[0].error
          /\ \A r \in Target : ~ticket'[j].part[r].held
      BY DEF Finished
    <3>2. /\ j \in Jobs /\ j \in Untouched /\ j \in present \ touched
          /\ \/ ticket'[j] = ticket[j]
             \/ ClearChange(j) \/ PickJob(j)
             \/ StartChange(j) \/ ReapChange(j)
      BY <2>2, <3>1
    <3>3. CASE ReapChange(j)
      <4>1. AtWork(j) /\ worker.route = ticket[j].dest /\ Kept(ticket'[j], ticket[j])
        BY <3>2, <3>3, ReapShape
      <4>2. worker.route \in Target
        BY DEF TypeOK, Worker
      <4>3. ~ticket[j].part[worker.route].held
        BY <3>1, <4>1, <4>2 DEF Kept
      <4> QED
        BY <2>1, <3>2, <4>1, <4>3
    <3>4. CASE PickJob(j)
      BY <3>2, <3>4, PickedIsOpen
    <3>5. CASE ~ReapChange(j) /\ ~PickJob(j)
      <4>1. ticket'[j].part = ticket[j].part /\ ticket'[j].remove = ticket[j].remove
        BY <3>2, <3>5 DEF ClearChange, StartChange, Marked
      <4>2. j \in Finished
        BY <3>1, <3>2, <4>1 DEF Finished
      <4> QED
        BY <2>1, <4>2
    <3> QED
      BY <3>3, <3>4, <3>5
  <2>4. ASSUME Busy', worker'.job \in (present' \ touched') \ order
        PROVE  ticket'[worker'.job].part[worker'.route].held
    <3>0. PICK j : j = worker'.job
      OBVIOUS
    <3>1. /\ j \in Jobs /\ j \in Untouched /\ j \in present \ touched
          /\ \/ ticket'[j] = ticket[j]
             \/ ClearChange(j) \/ PickJob(j)
             \/ StartChange(j) \/ ReapChange(j)
      BY <2>2, <2>4, <3>0
    <3>2. AtWork(j)'
      BY <2>4, <3>0 DEF AtWork
    <3>3. ~PickJob(j)
      BY <2>4, <3>0, <3>1, PickedIsOpen
    <3>4. AtWork(j) /\ worker'.route = worker.route /\ ~ReapChange(j)
      BY <3>1, <3>2, <3>3, StillAtWork
    <3>5. ticket[j].part[worker.route].held
      BY <2>1, <2>4, <3>0, <3>1, <3>4
    <3>6. ticket'[j].part = ticket[j].part
      BY <3>1, <3>3, <3>4 DEF ClearChange, StartChange, Marked
    <3> QED
      BY <3>0, <3>4, <3>5, <3>6
  <2> QED
    BY <2>1, <2>3, <2>4
<1> QED
  BY <1>1, <1>2, OrderMoves

-----------------------------------------------------------------------------
(* How many finished jobs are kept.                                        *)

\* Outside a pass over the queue nothing finishes; a held job does not count.
LEMMA FinishedShrinks ==
    ASSUME HandlerInv, OwnInv, [Next]_vars, ~poke', ~WaitReap,
           present' \subseteq present
    PROVE  Finished' \subseteq Finished
<1> USE DEF HandlerInv
<1> SUFFICES ASSUME NEW j \in Finished' PROVE j \in Finished
  OBVIOUS
<1>1. /\ j \in present' \ touched' /\ ticket'[j].remove # 0
      /\ ticket'[j].part[0].done \/ ticket'[j].part[0].error
      /\ \A r \in Target : ~ticket'[j].part[r].held
  BY DEF Finished
<1>2. /\ j \in Jobs /\ j \in Untouched
      /\ \/ ticket'[j] = ticket[j]
         \/ LpcChange(j) \/ ClearChange(j) \/ PickJob(j)
         \/ StartChange(j) \/ ReapChange(j)
  BY <1>1, UntouchedChange DEF OwnInv, Untouched
<1>3. ~ReapChange(j) /\ ~LpcChange(j)
  BY <1>1 DEF ReapChange, LpcChange, Target
<1>4. PickJob(j) => Marked(ticket'[j], ticket[j])
  BY <1>2, PickJobShape
<1>5. ticket'[j].part = ticket[j].part /\ ticket'[j].remove = ticket[j].remove
  BY <1>2, <1>3, <1>4 DEF ClearChange, StartChange, Marked
<1> QED
  BY <1>1, <1>2, <1>5 DEF Finished, Untouched

LEMMA KeptInit == Init => KeptInv
<1> SUFFICES ASSUME Init PROVE KeptInv
  OBVIOUS
<1>1. Finished \ victims = {}
  BY DEF Init, Finished
<1> QED
  BY <1>1, FS_EmptySet DEF KeptInv

LEMMA KeptStep ==
    ASSUME IsFiniteSet(Jobs), HandlerInv, OwnInv, RouteInv, KnownInv, KeptInv,
           [Next]_vars
    PROVE  KeptInv'
<1> USE DEF HandlerInv
<1> SUFFICES ASSUME DoneJobs > 0, ~poke', ~Busy', pc' \in {"expire", "pick", "off"}
             PROVE  Cardinality(Finished' \ victims') <= DoneJobs
  BY DEF KeptInv
<1>0. Finished \subseteq Jobs
  BY DEF Finished, TypeOK
<1>1. CASE Collect
  <2>1. /\ pc = "main" /\ ~poke /\ ~Busy /\ Finished' = Finished
        /\ victims' \subseteq Candidates
        /\ Cardinality(victims') = Excess
    BY <1>1 DEF Collect, RescanDue, Busy, Finished, spoolVars, ghostVars
  <2>2. Finished \subseteq Candidates
    <3>1. ASSUME NEW j \in Finished PROVE j \in Candidates
      <4>1. /\ j \in present \cap order /\ j \in Untouched /\ ticket[j].remove # 0
            /\ ticket[j].part[0].done \/ ticket[j].part[0].error
        BY <2>1, <3>1 DEF Finished, KnownInv, Untouched
      <4>2. ticket[j].server # "queue"
        BY <4>1 DEF RouteInv
      <4>3. worker = NoWork /\ j \in Jobs /\ None \notin Jobs
        BY <2>1, <4>1 DEF OwnInv, TypeOK
      <4>4. ~Alive(j)
        BY <4>2, <4>3 DEF Alive, NoWork
      <4> QED
        BY <4>1, <4>4 DEF Candidates
    <3> QED
      BY <3>1
  <2>3. IsFiniteSet(Candidates)
    <3>1. Candidates \subseteq Jobs
      BY DEF Candidates, TypeOK
    <3> QED
      BY <3>1, FS_Subset
  <2> DEFINE C == Candidates
             V == victims'
  <2>4. Cardinality(C \ V) = Cardinality(C) - Cardinality(V)
    <3>1. C \cap V = V
      BY <2>1
    <3> HIDE DEF C, V
    <3>2. Cardinality(C \ V) = Cardinality(C) - Cardinality(C \cap V)
      BY <2>3, FS_Difference DEF C
    <3> QED
      BY <3>1, <3>2
  <2>5. Cardinality(C) \in Nat /\ IsFiniteSet(C \ V)
    BY <2>3, FS_CardinalityType, FS_Difference
  <2>6. Cardinality(C \ V) <= DoneJobs
    BY <2>1, <2>4, <2>5 DEF Excess
  <2>7. Finished' \ V \subseteq C \ V
    BY <2>1, <2>2
  <2> HIDE DEF C, V
  <2>8. Cardinality(Finished' \ V) <= Cardinality(C \ V)
    BY <2>5, <2>7, FS_Subset
  <2>9. Cardinality(Finished' \ V) \in Nat /\ Cardinality(C \ V) \in Nat
    BY <2>5, <2>7, FS_Subset, FS_CardinalityType
  <2> QED
    BY <2>6, <2>8, <2>9 DEF V
<1>2. CASE ~Collect
  <2>1. /\ pc \in {"expire", "pick", "off"} /\ ~poke /\ ~Busy /\ ~WaitReap
        /\ present' \subseteq present
    <3>1. ~Start /\ ~Rescan /\ ~WaitReap /\ ~MoveEnds /\ ~MoveRefused /\ ~Clear
          /\ ~WakeUp /\ ~PickWait
      BY DEF Start, Rescan, WaitReap, MoveEnds, MoveRefused, Clear, WakeUp, PickWait, Goto
    <3>2. \A j \in Jobs : ~PickJob(j) /\ ~PickMove(j)
      BY DEF PickJob, PickMove, Goto
    <3>3. \A j \in Jobs : SettleAllDone(j) => UNCHANGED <<pc, poke, worker>>
      BY DEF SettleAllDone
    <3>4. Expire => pc = "expire" /\ UNCHANGED <<poke, worker>>
      BY DEF Expire
    <3>5. PickNothing => pc = "pick" /\ UNCHANGED <<poke, worker>>
      BY DEF PickNothing
    <3>6. UserStep => UNCHANGED <<pc, worker>>
      BY DEF UserStep, Submit, Remove, Lpc, serverVars
    <3>7. ~WorkerStep
      BY DEF WorkerStep, WorkerStart, WorkerExit, Busy, TypeOK, Worker, Status
    <3>8. UNCHANGED vars => UNCHANGED <<pc, poke, worker>>
      BY DEF vars, serverVars
    <3>9. pc \in {"expire", "pick", "off"} /\ ~Busy
      BY <1>2, <3>1, <3>2, <3>3, <3>4, <3>5, <3>6, <3>7, <3>8 DEF Next, ServerStep, Busy
    <3>10. ~poke /\ present' \subseteq present
      BY <3>1, OrderMoves
    <3> QED
      BY <3>1, <3>9, <3>10
  <2>2. Finished' \subseteq Finished
    BY <2>1, FinishedShrinks
  <2>3. Cardinality(Finished \ victims) <= DoneJobs
    BY <2>1 DEF KeptInv
  <2>4. Finished' \ victims' \subseteq Finished \ victims
    <3>1. CASE Expire
      BY <2>2, <3>1 DEF Expire, Finished
    <3>2. CASE ~Expire
      <4>1. victims' = victims
        BY <1>2, <3>2, StepQuiet DEF Quiet
      <4> QED
        BY <2>2, <4>1
    <3> QED
      BY <3>1, <3>2
  <2>5. /\ IsFiniteSet(Finished \ victims)
        /\ Cardinality(Finished \ victims) \in Nat
    BY <1>0, FS_Subset, FS_Difference, FS_CardinalityType
  <2> DEFINE A == Finished' \ victims'
             B == Finished \ victims
  <2> HIDE DEF A, B
  <2>6. Cardinality(A) <= Cardinality(B) /\ Cardinality(A) \in Nat
    BY <2>4, <2>5, FS_Subset, FS_CardinalityType DEF A, B
  <2> QED
    BY <2>3, <2>5, <2>6 DEF A, B
<1> QED
  BY <1>1, <1>2

-----------------------------------------------------------------------------
(* Theorems.                                                               *)

\* Tickets, server and worker keep their types, whatever the statuses of the
\* workers and the failure action are (Update_status, Do_job_ticket_file).
THEOREM TicketTypeCorrect == Spec => []TypeOK
<1>1. HandlerInv => TypeOK
  BY DEF HandlerInv
<1> QED
  BY HandlerAlways, <1>1, PTL

\* A job is never moved while a worker prints it, for any number of jobs,
\* destinations and commands: SERVER in the ticket (Do_queue_jobs).
THEOREM OneHandler == Spec => []OneHandlerPerJob
<1>1. HandlerInv => OneHandlerPerJob
  BY DEF HandlerInv
<1> QED
  BY HandlerAlways, <1>1, PTL

\* Every copy is printed once, in any number of failures, holds, restarts and
\* commands: COPY_DONE is what came out, and a copy that a worker printed is
\* counted when it is reaped.  A failure action must not be to call the
\* failed copy printed (Update_status, Service_worker).
THEOREM CopiesAreCounted ==
    ASSUME "succ" \notin FailureActions
    PROVE  Spec => []CopiesCounted
<1>1. Init => OwnInv /\ CountInv
  BY OwnInit, CountInit
<1>2. HandlerInv /\ OwnInv /\ CountInv /\ [Next]_vars => (OwnInv /\ CountInv)'
  BY OwnStep, CountStep
<1>3. OwnInv /\ CountInv => CopiesCounted
  <2> SUFFICES ASSUME OwnInv, CountInv, NEW j \in present \ touched,
                      NEW r \in Target, Owned(j, r)
               PROVE  /\ printed[j][r] = ticket[j].part[r].copy
                            + IF Unreaped(j, r) THEN 1 ELSE 0
                      /\ ticket[j].part[r].done => printed[j][r] = CopiesOf(r)
    BY DEF CopiesCounted, Owned, Unreaped
  <2>1. j \in Untouched
    BY DEF Untouched
  <2>2. /\ printed[j][r] = ticket[j].part[r].copy + IF Unreaped(j, r) THEN 1 ELSE 0
        /\ ticket[j].part[r].done => ticket[j].part[r].copy = CopiesOf(r)
    BY <2>1 DEF CountInv
  <2>3. Unreaped(j, r) => ~ticket[j].part[r].done
    BY <2>1 DEF OwnInv, Unreaped, AtWork, Busy
  <2>4. CopiesOf(r) \in Nat
    BY DEF CopiesOf
  <2> QED
    BY <2>2, <2>3, <2>4
<1> QED
  BY HandlerAlways, <1>1, <1>2, <1>3, PTL DEF Spec

\* Whenever the server is gone and nobody asked for another, no more finished
\* jobs are left than done_jobs says, however many there were and whoever was
\* printing, holding or removing jobs meanwhile (Remove_done_jobs).
THEOREM ExpiryHasCaughtUp ==
    ASSUME IsFiniteSet(Jobs)
    PROVE  Spec => []ExpiryCatchesUp
<1> DEFINE Inv == OwnInv /\ RouteInv /\ KnownInv /\ KeptInv
<1>1. Init => Inv
  BY OwnInit, RouteInit, KnownInit, KeptInit
<1>2. HandlerInv /\ Inv /\ [Next]_vars => Inv'
  BY OwnStep, RouteStep, KnownStep, KeptStep
<1>3. HandlerInv /\ Inv => ExpiryCatchesUp
  <2> SUFFICES ASSUME HandlerInv, Inv, pc = "off", ~poke, DoneJobs > 0
               PROVE  Cardinality(Finished) <= DoneJobs
    BY DEF ExpiryCatchesUp
  <2>1. ~Busy /\ Finished \ victims = Finished
    BY DEF HandlerInv, WorkerInv, OwnInv
  <2> QED
    BY <2>1 DEF KeptInv
<1> HIDE DEF Inv
<1> QED
  BY HandlerAlways, <1>1, <1>2, <1>3, PTL DEF Spec
=============================================================================

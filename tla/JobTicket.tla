------------------------------ MODULE JobTicket ------------------------------
(***************************************************************************)
(* The job tickets of a queue: what the server, its worker, lpc and lprm   *)
(* write into them, from the spooling of a job until it expires.           *)
(*                                                                         *)
(* A ticket is read, changed and written back under a lock on its file, so *)
(* each such change is one step.  A routed job has a list of destinations  *)
(* in its ticket, each with fields of its own, and DESTINATION names the   *)
(* one that is being printed.  A finished job keeps its ticket with a      *)
(* REMOVE_TIME until Remove_done_jobs finds more than done_jobs of them.   *)
(*                                                                         *)
(* Times are FALSE and TRUE for zero and not zero, except REMOVE_TIME,     *)
(* which is the rank of the job among those that finished.  There is one   *)
(* server, started and told to look again by poke, as QueueServer shows,   *)
(* and its printing is enabled.  save_on_error, save_when_done, the age    *)
(* limit of finished jobs and stop_on_abort are off.                       *)
(***************************************************************************)
EXTENDS Naturals, FiniteSets

CONSTANTS Jobs,
          Routed,          \* jobs that the routing filter gave destinations
          NRoutes,         \* how many
          None,
          Copies,          \* COPIES of a job
          RouteCopies,     \* COPIES of a destination
          SendTry,         \* Send_try_DYN
          Exits,           \* exit status of a worker
          FailureActions,  \* what Send_failure_action_DYN may answer
          DoneJobs,        \* Done_jobs_DYN
          Commands,        \* the lpc commands that are given
          MaxCommands      \* bound: lpc and lprm commands given

\* Exit status of a worker; JTIMEOUT is treated as JFAIL, the others as JABORT.
Status  == {"succ", "fail", "abort", "remove", "hold", "noretry"}
Command == {"hold", "topq", "move", "release", "redo"}

ASSUME JobsAssumption == Routed \subseteq Jobs /\ None \notin Jobs
ASSUME SizesAssumption ==
    /\ NRoutes \in Nat \ {0} /\ SendTry \in Nat \ {0}
    /\ Copies \in Nat \ {0} /\ RouteCopies \in Nat \ {0}
    /\ DoneJobs \in Nat /\ MaxCommands \in Nat
ASSUME SetsAssumption ==
    /\ Exits \subseteq Status /\ FailureActions \subseteq Status
    /\ Commands \subseteq Command

VARIABLES
    \* the spool directory
    fresh,      \* jobs that are still to be spooled
    present,    \* jobs that have a ticket
    ticket,     \* the tickets
    \* the server
    poke,       \* a start request or a SIGUSR1 for it
    pc,         \* where it is in Do_queue_jobs
    order,      \* the jobs of Sort_order
    victims,    \* what Remove_done_jobs is going to remove
    doneCount,  \* Done_count
    mover,      \* the job that it is moving to another queue
    worker,     \* the worker: job, destination and how far it is
    \* outside
    printed,    \* copies that came out, by job and destination
    sent,       \* jobs that were moved to another queue
    touched,    \* jobs that lpc redo or move was used on
    clock,      \* jobs that have finished
    commands    \* bound: lpc and lprm commands so far

spoolVars  == <<fresh, present, ticket>>
serverVars == <<pc, order, victims, doneCount, mover>>
ghostVars  == <<printed, sent, touched, clock, commands>>
vars == <<spoolVars, poke, serverVars, worker, ghostVars>>

\* A destination is a number from 1; 0 is the job itself, or none.
Route   == 1..NRoutes
Target  == 0..NRoutes

CopiesOf(r) == IF r = 0 THEN Copies ELSE RouteCopies

Part   == [held : BOOLEAN, done : BOOLEAN, error : BOOLEAN,
           attempt : Nat, copy : Nat]
\* SERVER is the pid of the server, of a worker, or 0.
Ticket == [part : [Target -> Part], server : {"none", "queue", "worker"},
           dest : Target, move : BOOLEAN, remove : Nat]

\* part[0] are the fields of the job, part[r] those of destination r.
NewPart   == [held |-> FALSE, done |-> FALSE, error |-> FALSE,
              attempt |-> 0, copy |-> 0]
NewTicket == [part |-> [r \in Target |-> NewPart], server |-> "none",
              dest |-> 0, move |-> FALSE, remove |-> 0]
NoWork    == [job |-> None, route |-> 0, phase |-> "idle"]

Location == {"off", "clear", "main", "expire", "pick", "move", "wait"}
Worker   == [job : Jobs \cup {None}, route : Target,
             phase : {"idle", "forked", "printing"} \cup Status]

TypeOK ==
    /\ fresh \subseteq Jobs /\ present \subseteq Jobs \ fresh
    /\ ticket \in [Jobs -> Ticket]
    /\ poke \in BOOLEAN
    /\ pc \in Location
    /\ order \subseteq Jobs /\ victims \subseteq Jobs
    /\ doneCount \in Nat
    /\ mover \in Jobs \cup {None}
    /\ worker \in Worker
    /\ printed \in [Jobs -> [Target -> Nat]]
    /\ sent \subseteq Jobs /\ touched \subseteq Jobs
    /\ clock \in Nat /\ commands \in Nat

Init ==
    /\ fresh = Jobs /\ present = {}
    /\ ticket = [j \in Jobs |-> NewTicket]
    /\ poke = FALSE
    /\ pc = "off" /\ order = {} /\ victims = {} /\ doneCount = 0
    /\ mover = None /\ worker = NoWork
    /\ printed = [j \in Jobs |-> [r \in Target |-> 0]]
    /\ sent = {} /\ touched = {} /\ clock = 0 /\ commands = 0

Goto(l)      == pc' = l
Busy         == worker.phase # "idle"
Exited       == worker.phase \in Status
RoutesOf(j)  == IF j \in Routed THEN Route ELSE {}

-----------------------------------------------------------------------------
(* What a ticket says of its job.                                          *)

\* Job_printable: the destinations still to be printed, ...
OpenRoutes(j) ==
    {r \in RoutesOf(j) : LET p == ticket[j].part[r]
                         IN  ~p.error /\ ~p.held /\ ~p.done}

\* ... whether something keeps the job or a destination of it back, ...
Held(j) ==
    LET t == ticket[j]
    IN  \/ ~t.part[0].error /\ t.part[0].held
        \/ \E r \in RoutesOf(j) : ~t.part[r].error /\ t.part[r].held

\* ... whether the job is to be moved, ...
Moving(j) ==
    LET t == ticket[j]
    IN  ~t.part[0].error /\ ~t.part[0].held /\ ~t.part[0].done /\ t.move

\* ... and whether it can be printed.
Printable(j) ==
    LET p == ticket[j].part[0]
    IN  IF j \in Routed THEN OpenRoutes(j) # {}
        ELSE ~p.error /\ ~p.held /\ ~p.done /\ ~ticket[j].move

\* What the server works on: SERVER is not set and the job not kept back.
Processable(j) ==
    /\ j \in present
    /\ ticket[j].server = "none"
    /\ ~Held(j)
    /\ Printable(j) \/ Moving(j)

\* Scan_queue: jobs that can be printed or moved, and finished ones.
Queued == {j \in present : LET p == ticket[j].part[0] IN
             \/ Printable(j) \/ Moving(j)
             \/ p.error \/ (p.done /\ ~p.held)}

-----------------------------------------------------------------------------
(* Users: Receive_job, lprm and the commands of Do_job_ticket_file.        *)

\* Mutant of Submit: the job can be spooled again.
SubmitAgain(j) ==
    /\ j \in fresh
    /\ present' = present \cup {j}
    /\ poke' = TRUE
    /\ UNCHANGED <<fresh, ticket, serverVars, worker, ghostVars>>

Submit(j) ==
    /\ j \in fresh
    /\ fresh' = fresh \ {j}
    /\ present' = present \cup {j}
    /\ poke' = TRUE
    /\ UNCHANGED <<ticket, serverVars, worker, ghostVars>>

\* lprm; the worker is left to its signals.
Remove(j) ==
    /\ j \in present
    /\ commands < MaxCommands
    /\ commands' = commands + 1
    /\ present' = present \ {j}
    /\ UNCHANGED <<fresh, ticket, poke, serverVars, worker, printed, sent,
                   touched, clock>>

\* The fields a command changes in the job and in the destination it selects.
Commanded(c, p) ==
    CASE c = "hold"    -> [p EXCEPT !.held = TRUE]
      [] c = "topq"    -> [p EXCEPT !.held = FALSE]
      [] c = "release" -> [p EXCEPT !.held = FALSE, !.attempt = 0]
      [] c = "redo"    -> [p EXCEPT !.held = FALSE, !.attempt = 0,
                                    !.done = FALSE]
      [] c = "move"    -> [p EXCEPT !.held = FALSE, !.done = FALSE]

\* One job, or the job and its destination r.  Every command clears the job's
\* error; only redo and move clear REMOVE_TIME, and only a destination's
\* COPY_DONE is cleared by redo.  A server that runs is signalled; hold does
\* not ask for one.
Lpc(j, r, c) ==
    LET t  == ticket[j]
        p0 == [Commanded(c, t.part[0]) EXCEPT !.error = FALSE]
        pr == IF c = "move" THEN t.part[r]
              ELSE [Commanded(c, t.part[r]) EXCEPT
                      !.copy = IF c = "redo" THEN 0 ELSE @]
        parts == [t.part EXCEPT ![r] = pr]
    IN  /\ j \in present
        /\ r \in {0} \cup RoutesOf(j)
        /\ commands < MaxCommands
        /\ commands' = commands + 1
        /\ ticket' = [ticket EXCEPT ![j] =
             [t EXCEPT !.part = [parts EXCEPT ![0] = p0],
                       !.move = @ \/ c = "move",
                       !.remove = IF c \in {"redo", "move"} THEN 0 ELSE @]]
        /\ touched' = IF c \in {"redo", "move"} THEN touched \cup {j} ELSE touched
        /\ poke' = (poke \/ pc # "off" \/ c # "hold")
        /\ UNCHANGED <<fresh, present, serverVars, worker, printed, sent, clock>>

-----------------------------------------------------------------------------
(* Update_status: the ticket t of a job after a worker's exit status.      *)

\* The destination of the ticket, if it has one, or the job itself.
Current(t) == t.dest

WithPart(t, r, p) == [t EXCEPT !.part = [t.part EXCEPT ![r] = p]]

\* REMOVE_TIME is set anew by a success, and only if it was 0 by an error.
Over(t)    == [t EXCEPT !.remove = clock + 1]
OverNz(t)  == IF t.remove = 0 THEN Over(t) ELSE t

\* Mutant of Succeeded: one copy more is printed.
SucceededLate(t) ==
    LET r == Current(t)
        p == t.part[r]
    IN  IF p.copy < CopiesOf(r) THEN WithPart(t, r, [p EXCEPT !.copy = @ + 1])
        ELSE Over(WithPart(t, r, [p EXCEPT !.done = TRUE]))

\* JSUCC.  The job is done with its last destination in the list; COPY_DONE
\* is not counted beyond COPIES, where it makes no difference.
Succeeded(t) ==
    LET r == Current(t)
        p == t.part[r]
        c == IF p.copy < CopiesOf(r) THEN p.copy + 1 ELSE p.copy
        counted == WithPart(t, r, [p EXCEPT !.copy = c])
        finished == WithPart(t, r, [p EXCEPT !.copy = c, !.done = TRUE])
    IN  IF r = 0 /\ t.move THEN Over(WithPart(t, 0, [p EXCEPT !.done = TRUE]))
        ELSE IF c < CopiesOf(r) THEN counted
        ELSE IF r \in {0, NRoutes}
             THEN Over(WithPart(finished, 0, [finished.part[0] EXCEPT !.done = TRUE]))
             ELSE finished

\* JHOLD, JREMOVE and JFAILNORETRY.
HeldBack(t) == WithPart(t, Current(t), [t.part[Current(t)] EXCEPT !.held = TRUE])

Failed(t) ==
    LET r == Current(t)
        e == WithPart(t, r, [t.part[r] EXCEPT !.error = TRUE])
    IN  IF r = 0 THEN OverNz(e) ELSE e

\* Mutant of Attempted: ATTEMPT is not written.
AttemptLost(t) == t

Attempted(t) ==
    WithPart(t, Current(t), [t.part[Current(t)] EXCEPT !.attempt = @ + 1])

Retried(t) == WithPart(t, Current(t), [t.part[Current(t)] EXCEPT !.error = FALSE])

\* JABORT writes the ticket of a job, but never that of a destination: what
\* the file had, file, stays in it.
Aborted(t, file) == IF Current(t) = 0 THEN Failed(t) ELSE file

\* Every status but JFAIL.
Settled(t, file, status) ==
    CASE status = "succ"    -> Succeeded(t)
      [] status = "hold"    -> HeldBack(t)
      [] status = "remove"  -> Failed(t)
      [] status = "noretry" -> Failed(Attempted(t))
      [] status = "abort"   -> Aborted(t, file)

\* The tickets Update_status may leave.  After Send_try attempts the failure
\* action decides on a ticket that was already written.
Updated(t, status) ==
    LET u == [t EXCEPT !.server = "none"]
        a == Attempted(u)
    IN  IF status # "fail" THEN {Settled(u, t, status)}
        ELSE IF a.part[Current(a)].attempt < SendTry THEN {Retried(a)}
        ELSE {IF f = "fail" THEN Retried(a) ELSE Settled(a, a, f) :
                f \in FailureActions}

\* A job whose REMOVE_TIME this set is finished: it is removed at once unless
\* done_jobs keeps it.
Update(j, status) ==
    \E t \in Updated(ticket[j], status) :
        LET p    == t.part[0]
            ends == (p.done \/ p.error) /\ ~ticket[j].part[0].done
                      /\ ~ticket[j].part[0].error
        IN  /\ ticket' = [ticket EXCEPT ![j] = t]
            /\ clock' = IF ends THEN clock + 1 ELSE clock
            /\ present' = IF ends /\ DoneJobs = 0 THEN present \ {j} ELSE present
            /\ doneCount' = IF ends /\ DoneJobs > 0 THEN doneCount + 1
                                                    ELSE doneCount
-----------------------------------------------------------------------------
(* The server: Do_queue_jobs.                                              *)

\* It starts, or starts again on a SIGUSR1 just before its exit, ...
Start ==
    /\ pc = "off" /\ poke
    /\ poke' = FALSE
    /\ order' = Queued
    /\ Goto("clear")
    /\ UNCHANGED <<spoolVars, victims, doneCount, mover, worker, ghostVars>>

\* ... and forgets what an earlier server was printing.
Clear ==
    /\ pc = "clear"
    /\ ticket' = [j \in Jobs |->
         IF j \in order \cap present
         THEN [ticket[j] EXCEPT !.server = "none",
                                !.dest = IF j \in Routed THEN 0 ELSE @]
         ELSE ticket[j]]
    /\ Goto("main")
    /\ UNCHANGED <<fresh, present, poke, order, victims, doneCount, mover,
                   worker, ghostVars>>

\* Susr1 is set, or there are more new finished jobs than are kept.
RescanDue == poke \/ (DoneJobs > 0 /\ doneCount > DoneJobs)

Rescan ==
    /\ pc = "main" /\ RescanDue
    /\ poke' = FALSE
    /\ doneCount' = 0
    /\ order' = Queued
    /\ UNCHANGED <<spoolVars, pc, victims, mover, worker, ghostVars>>

\* The pid in SERVER is that of a process.  A zombie counts.
Alive(j) ==
    \/ ticket[j].server = "queue"
    \/ ticket[j].server = "worker" /\ worker.job = j /\ worker.phase # "forked"

\* The first half of Remove_done_jobs: the oldest of the jobs that have a
\* REMOVE_TIME or an error, down to the DoneJobs that are kept.
Candidates ==
    {j \in order \cap present :
        (ticket[j].remove # 0 \/ ticket[j].part[0].error) /\ ~Alive(j)}

\* Mutant of Excess: one more is kept.
ExcessPlusOne == LET n == Cardinality(Candidates)
                 IN  IF n > DoneJobs + 1 THEN n - DoneJobs - 1 ELSE 0

Excess == LET n == Cardinality(Candidates)
          IN  IF n > DoneJobs THEN n - DoneJobs ELSE 0

Collect ==
    /\ pc = "main" /\ ~RescanDue
    /\ \E V \in SUBSET Candidates :
         /\ Cardinality(V) = IF DoneJobs = 0 THEN 0 ELSE Excess
         /\ \A v \in V, k \in Candidates \ V : ticket[v].remove <= ticket[k].remove
         /\ victims' = V
    /\ Goto("expire")
    /\ UNCHANGED <<spoolVars, poke, order, doneCount, mover, worker, ghostVars>>

\* The second half removes them, whatever their tickets say by now.
Expire ==
    /\ pc = "expire"
    /\ present' = present \ victims
    /\ victims' = {}
    /\ Goto("pick")
    /\ UNCHANGED <<fresh, ticket, poke, order, doneCount, mover, worker, ghostVars>>

\* Jobs of the last scan that can be printed, or moved.
ToPrint == {j \in order : Processable(j) /\ Printable(j)}
ToMove  == {j \in order \ Routed : Processable(j) /\ Moving(j)}

\* What it is going to do something for; lpc move on a job with destinations
\* is of no effect unless a destination is left to be printed.
Pending(j) == Processable(j) /\ (Printable(j) \/ j \notin Routed)

FirstOpen(j) == CHOOSE r \in OpenRoutes(j) : \A q \in OpenRoutes(j) : r <= q

\* Mutant of PickJob: SERVER is left to the worker to set.
PickJobUnmarked(j) ==
    /\ pc = "pick" /\ ~Busy
    /\ j \in ToPrint
    /\ LET r == IF j \in Routed THEN FirstOpen(j) ELSE 0
       IN  /\ ticket' = [ticket EXCEPT ![j].dest = IF j \in Routed THEN r ELSE @]
           /\ worker' = [job |-> j, route |-> r, phase |-> "forked"]
    /\ Goto("main")
    /\ UNCHANGED <<fresh, present, poke, order, victims, doneCount, mover, ghostVars>>

\* A job or its first open destination is given to a worker.  When the fork
\* fails the ticket is not changed back.
PickJob(j) ==
    /\ pc = "pick" /\ ~Busy
    /\ j \in ToPrint
    /\ LET r == IF j \in Routed THEN FirstOpen(j) ELSE 0
       IN  /\ ticket' = [ticket EXCEPT ![j].server = "queue",
                             ![j].dest = IF j \in Routed THEN r ELSE @]
           /\ worker' \in {worker, [job |-> j, route |-> r, phase |-> "forked"]}
    /\ Goto("main")
    /\ UNCHANGED <<fresh, present, poke, order, victims, doneCount, mover, ghostVars>>

\* A job is moved, also while the worker prints; the server waits for it.
PickMove(j) ==
    /\ pc = "pick"
    /\ j \in ToMove
    /\ ticket' = [ticket EXCEPT ![j].server = "queue"]
    /\ mover' = j
    /\ Goto("move")
    /\ UNCHANGED <<fresh, present, poke, order, victims, doneCount, worker, ghostVars>>

\* The destination is not a queue, or is this one: the error is noted, and
\* SERVER stays.  A remote destination whose fork fails leaves SERVER too.
MoveRefused ==
    /\ pc = "move"
    /\ \/ /\ mover \in present
          /\ ticket' = [ticket EXCEPT ![mover].part[0].error = TRUE]
       \/ UNCHANGED ticket
    /\ mover' = None
    /\ Goto("main")
    /\ UNCHANGED <<fresh, present, poke, order, victims, doneCount, worker, ghostVars>>

\* The job was sent to the other queue, or was not.
MoveEnds ==
    /\ pc = "move"
    /\ IF mover \in present
       THEN \E status \in Exits :
              /\ Update(mover, status)
              /\ sent' = IF status = "succ" THEN sent \cup {mover} ELSE sent
       ELSE UNCHANGED <<present, ticket, doneCount, clock, sent>>
    /\ mover' = None
    /\ Goto("main")
    /\ UNCHANGED <<fresh, poke, order, victims, worker, printed, touched, commands>>

\* A job to be moved whose destinations are all done is given a success.
SettleAllDone(j) ==
    /\ pc = "pick"
    /\ j \in order \cap Routed
    /\ Processable(j) /\ \A r \in Route : ticket[j].part[r].done
    /\ Update(j, "succ") /\ ticket' # ticket
    /\ UNCHANGED <<fresh, poke, pc, order, victims, mover, worker, printed,
                   sent, touched, commands>>

NothingPicked == ToMove = {} /\ (Busy \/ ToPrint = {})

PickWait ==
    /\ pc = "pick" /\ Busy /\ NothingPicked
    /\ Goto("wait")
    /\ UNCHANGED <<spoolVars, poke, order, victims, doneCount, mover, worker, ghostVars>>

\* Nothing to do: the server exits, or starts again with its counters.
PickNothing ==
    /\ pc = "pick" /\ ~Busy /\ NothingPicked
    /\ doneCount' = IF poke THEN doneCount ELSE 0
    /\ Goto("off")
    /\ UNCHANGED <<spoolVars, poke, order, victims, mover, worker, ghostVars>>

\* Wait_for_subserver: the worker is reaped, or SIGUSR1 ends the wait.
WaitReap ==
    /\ pc = "wait" /\ Exited
    /\ worker' = NoWork
    /\ IF worker.job \in present
       THEN Update(worker.job, worker.phase)
       ELSE UNCHANGED <<present, ticket, doneCount, clock>>
    /\ Goto("main")
    /\ UNCHANGED <<fresh, poke, order, victims, mover, printed, sent, touched, commands>>

WakeUp ==
    /\ pc = "wait" /\ poke
    /\ Goto("main")
    /\ UNCHANGED <<spoolVars, poke, order, victims, doneCount, mover, worker, ghostVars>>

-----------------------------------------------------------------------------
(* The worker: Service_worker.                                             *)

\* It reads the ticket again, and has nothing to do when that is gone.
WorkerStart ==
    /\ worker.phase = "forked"
    /\ IF worker.job \in present
       THEN /\ worker' = [worker EXCEPT !.phase = "printing"]
            /\ ticket' = [ticket EXCEPT ![worker.job].server = "worker"]
       ELSE /\ worker' = [worker EXCEPT !.phase = "succ"]
            /\ UNCHANGED ticket
    /\ UNCHANGED <<fresh, present, poke, serverVars, ghostVars>>

WorkerExit(status) ==
    /\ worker.phase = "printing"
    /\ worker' = [worker EXCEPT !.phase = status]
    /\ printed' = IF status = "succ"
                  THEN [printed EXCEPT ![worker.job][worker.route] = @ + 1]
                  ELSE printed
    /\ UNCHANGED <<spoolVars, poke, serverVars, sent, touched, clock, commands>>

-----------------------------------------------------------------------------
ServerStep ==
    \/ Start \/ Clear \/ Rescan \/ Collect \/ Expire
    \/ \E j \in Jobs : PickJob(j) \/ PickMove(j) \/ SettleAllDone(j)
    \/ MoveRefused \/ MoveEnds
    \/ PickWait \/ PickNothing \/ WaitReap \/ WakeUp

WorkerStep == WorkerStart \/ \E status \in Exits : WorkerExit(status)

UserStep ==
    \E j \in Jobs : \/ Submit(j) \/ Remove(j)
                    \/ \E r \in Target, c \in Commands : Lpc(j, r, c)

Next == ServerStep \/ WorkerStep \/ UserStep

\* The processes run; nobody has to print, remove or command anything.
Spec == Init /\ [][Next]_vars /\ WF_vars(ServerStep) /\ WF_vars(WorkerStep)

-----------------------------------------------------------------------------
(* Properties.                                                             *)

\* Every copy is printed once: as long as nobody asked for a job again or for
\* it elsewhere, what came out of it or of a destination is what COPY_DONE
\* says, plus a copy whose worker was not reaped yet, and a destination that
\* is done has all its copies.  Whatever failures, holds and restarts come
\* between.  Update_status counts what Service_worker did and the server that
\* starts next goes on from it.
CopiesCounted ==
    \A j \in present \ touched : \A r \in Target :
        LET p == ticket[j].part[r]
            unreaped == worker = [job |-> j, route |-> r, phase |-> "succ"]
        IN  (r = 0) # (j \in Routed) =>
                /\ printed[j][r] = p.copy + IF unreaped THEN 1 ELSE 0
                /\ p.done => printed[j][r] = CopiesOf(r)

\* A job is never moved away while a worker prints it: it is SERVER in the
\* ticket that keeps Do_queue_jobs, which moves jobs while the worker is
\* busy, from the job of the worker.
OneHandlerPerJob == mover # None /\ Busy => mover # worker.job

\* Remove_done_jobs has caught up whenever the server is gone and nobody asked
\* for another: no more than done_jobs finished jobs are left.  (A job that
\* lpc move gives back to the queue when all its destinations are done is
\* settled after the pass over the queue, and one that was held while it
\* printed, or whose destination was, may be out of Sort_order until the next
\* scan: such jobs are not counted.)
Finished ==
    {j \in present \ touched :
        /\ ticket[j].remove # 0
        /\ ticket[j].part[0].done \/ ticket[j].part[0].error
        /\ \A r \in Target : ~ticket[j].part[r].held}
ExpiryCatchesUp ==
    pc = "off" /\ ~poke /\ DoneJobs > 0 => Cardinality(Finished) <= DoneJobs

\* When nobody gives commands any more, no job is left that a server would
\* take up: attempts are limited, so every job ends printed, in error, held or
\* removed, or in the hands of a server that is gone.
JobsSettle == \A j \in Jobs : <>[]~Pending(j)

\* What lpc.n:350-352 promises of release, "Releases the selected job for
\* printing", and CHANGES:1411 and 1428 of done_jobs, the last jobs completed
\* are saved and the oldest done job is removed: Remove_done_jobs removes no
\* job that is still to be printed.  It removes a released job, whose
\* REMOVE_TIME is still set.
OnlyFinishedExpire ==
    [][pc = "expire" => \A j \in victims \cap present : ~Pending(j)]_vars

\* What lpc.n:315-316 promises of move, "Send the specified jobs to the
\* destination printer and remove them from the printer queue": a job of one
\* destination that is to be moved and is done has been sent.  It was not if
\* the move was asked for while it printed.
MovedWasSent ==
    \A j \in present \ Routed :
        ticket[j].move /\ ticket[j].part[0].done => j \in sent
=============================================================================

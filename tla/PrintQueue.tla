----------------------------- MODULE PrintQueue -----------------------------
(***************************************************************************)
(* What a print queue promises to its users, with nothing said about the   *)
(* processes that keep the promise: jobs enter and leave, one job at a     *)
(* time is on the printer, and a job that was printed or withdrawn never   *)
(* gets on the printer again.                                              *)
(***************************************************************************)
CONSTANTS Jobs, Idle

VARIABLES waiting,   \* jobs in the queue
          press,     \* the job on the printer, or Idle
          over       \* jobs that need no more printing

Init == waiting = {} /\ press = Idle /\ over = {}

Enter(j) ==
    /\ j \notin waiting \cup over
    /\ waiting' = waiting \cup {j}
    /\ UNCHANGED <<press, over>>

PutOnPress(j) ==
    /\ press = Idle
    /\ j \in waiting \ over
    /\ press' = j
    /\ UNCHANGED <<waiting, over>>

\* The attempt succeeded, or it failed and the job stays in the queue.
Finish ==
    /\ press # Idle
    /\ press' = Idle
    /\ over' \in {over, over \cup {press}}
    /\ UNCHANGED waiting

\* The job leaves the queue: printed, given up or removed by a user.
Leave(j) ==
    /\ j \in waiting
    /\ waiting' = waiting \ {j}
    /\ over' = over \cup {j}
    /\ UNCHANGED press

Next == Finish \/ \E j \in Jobs : Enter(j) \/ PutOnPress(j) \/ Leave(j)

Spec == Init /\ [][Next]_<<waiting, press, over>>
=============================================================================

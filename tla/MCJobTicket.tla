----------------------------- MODULE MCJobTicket -----------------------------
(* Instances of JobTicket for TLC: commands and failure actions.           *)
EXTENDS JobTicket

\* topq changes of a ticket what release does, but for the attempts.
AllCommands == {"hold", "release", "redo", "move"}
ReleaseOnly == {"release"}
MoveOnly    == {"move"}

\* The others are treated like abort for a job, or like hold.
PrintFailAbort == {"succ", "fail", "abort"}

PrintOrGiveUp  == {"succ", "noretry"}

GiveUp == {"remove"}
=============================================================================

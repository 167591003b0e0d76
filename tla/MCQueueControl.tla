--------------------------- MODULE MCQueueControl ---------------------------
(* Instances of QueueControl for TLC: which lpc commands are given.        *)
EXTENDS QueueControl

\* One command of every kind: it sets a flag, clears some, changes a ticket,
\* ends the server, asks for one always, if there is none, or never.
CommandKinds == {"stop", "disable", "up", "release", "hold", "kill"}

MsgOnly    == {"msg"}
AbortAndUp == {"abort", "up"}
=============================================================================

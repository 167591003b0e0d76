------------------------------ MODULE MCLogger ------------------------------
(***************************************************************************)
(* An instance of Logger for TLC.  Port 2 is lpd's.  Either lpd is root,   *)
(* has ports 1 to 3, and the host listens on its second address only; or   *)
(* lpd is not root, has ports 3 and 4 of 2 to 4, another program uses one  *)
(* of them, and logger_timeout has its default, 0.                         *)
(***************************************************************************)
EXTENDS Logger

Setting(originate, root, busy, answers, timeout) ==
    [originate |-> originate, root |-> root, retry |-> TRUE, busy |-> busy,
     answers |-> answers, timeout |-> timeout]

MCSettings ==
    { Setting(<<3, 1>>, TRUE, {}, {2}, 1),
      Setting(<<2, 4>>, FALSE, {3}, {1}, 0) }
=============================================================================

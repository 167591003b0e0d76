------------------------------- MODULE Globs -------------------------------
(***************************************************************************)
(* The patterns of Globmatch.  A string is a sequence of characters; an    *)
(* element of a pattern stands for one character of a set (a letter, a     *)
(* question mark or a bracket), or, Star, for any number of them.          *)
(***************************************************************************)
EXTENDS Integers, Sequences

Star == [star |-> TRUE, chars |-> {}]
OneOf(chars) == [star |-> FALSE, chars |-> chars]

(* glob_pattern: a star with something after it tries the rest of the      *)
(* pattern at each character that is left, never at the end of the string. *)
Globmatch(pattern, str) ==
  LET g[i \in 1..Len(pattern) + 1, j \in 1..Len(str) + 1] ==
        IF i > Len(pattern) THEN j > Len(str)
        ELSE IF ~pattern[i].star
          THEN j <= Len(str) /\ str[j] \in pattern[i].chars /\ g[i + 1, j + 1]
          ELSE i = Len(pattern) \/ \E k \in j..Len(str) : g[i + 1, k]
  IN g[1, 1]
=============================================================================

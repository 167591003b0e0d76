------------------------------ MODULE LineList ------------------------------
(***************************************************************************)
(* Line lists (linelist.c): the growing arrays of "key value" lines in     *)
(* which LPRng keeps configurations, printcap entries, names of queues and *)
(* tickets.  A line is a record with an integer key, ordered as            *)
(* strcasecmp orders the text before the separator; what follows the       *)
(* separator is whatever the user of the list keeps there.  Lists that are *)
(* searched are kept sorted by the callers, with lines of equal keys in    *)
(* the order in which they were added.                                     *)
(*                                                                         *)
(* Positions count from 1 here and from 0 in C.                            *)
(***************************************************************************)
LOCAL INSTANCE Integers
LOCAL INSTANCE Sequences
LOCAL INSTANCE SequencesExt
LOCAL INSTANCE FiniteSetsExt

(* What a search returns: cmp is the sign of key compared with the line    *)
(* last looked at, at is that line's position.                             *)
Sign(n) == IF n < 0 THEN -1 ELSE IF n > 0 THEN 1 ELSE 0

(* The binary search all the Find functions have in common.  signs says    *)
(* for each line how what is sought compares with it: below 0 when it is   *)
(* smaller, 0 when it is met.                                              *)
Search(signs) ==
  LET found[bot \in 1..Len(signs) + 1, top \in 0..Len(signs)] ==
        LET mid == (bot + top) \div 2
            cmp == signs[mid]
            low == IF cmp > 0 THEN mid + 1 ELSE bot
            high == IF cmp < 0 THEN mid - 1 ELSE top
        IN  IF cmp = 0 \/ low > high THEN [cmp |-> cmp, at |-> mid]
            ELSE found[low, high]
  IN  IF signs = <<>> THEN [cmp |-> -1, at |-> 1] ELSE found[1, Len(signs)]

(* Of equal lines next to the one the search met: the last, or the first.  *)
LastOf(signs) ==
  LET s == Search(signs)
      equal == {m \in s.at..Len(signs) : \A i \in s.at..m : signs[i] = 0}
  IN  IF s.cmp # 0 THEN s ELSE [s EXCEPT !.at = Max(equal)]

FirstOf(signs) ==
  LET s == Search(signs)
      equal == {m \in 1..s.at : \A i \in m..s.at : signs[i] = 0}
  IN  IF s.cmp # 0 THEN s ELSE [s EXCEPT !.at = Min(equal)]

KeySigns(l, key) == [i \in DOMAIN l |-> Sign(key - l[i].key)]
FindFirstKey(l, key) == FirstOf(KeySigns(l, key))
FindLastKey(l, key) == LastOf(KeySigns(l, key))

(* Add_line_list with a separator: the line takes its place among the      *)
(* others, or, with uniq, that of the line that has its key.               *)
AddLine(l, line, uniq) ==
  LET s == FindLastKey(l, line.key)
  IN  IF s.cmp = 0 /\ uniq THEN ReplaceAt(l, s.at, line)
      ELSE IF s.cmp >= 0 THEN InsertAt(l, s.at + 1, line)
      ELSE InsertAt(l, s.at, line)

(* Split and Merge_line_list: every line in turn.                          *)
AddLines(l, lines, sort, uniq) ==
  IF sort THEN FoldLeft(LAMBDA a, x : AddLine(a, x, uniq), l, lines)
  ELSE l \o lines

(* Find_exists_value: the lines the search finds, at most one of them.     *)
Has(l, key) == FindFirstKey(l, key).cmp = 0
LineOf(l, key) == l[FindFirstKey(l, key).at]

(* All lines of a key, between the first and the last the searches find.   *)
LinesOf(l, key) ==
  IF Has(l, key) THEN SubSeq(l, FindFirstKey(l, key).at, FindLastKey(l, key).at)
  ELSE <<>>
=============================================================================

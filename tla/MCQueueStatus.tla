--------------------------- MODULE MCQueueStatus ---------------------------
(* Queues for QueueStatus: "a" prints through "b", named twice, through a     *)
(* queue that does not exist, and through itself.  Below "b" there is "a"     *)
(* again, or "b" forwards to another host.                                    *)
EXTENDS QueueStatus

MCNames == {"a", "b", "bb", "gone"}
MCPrimaryOf == [n \in MCNames |-> CASE n = "a" -> "a" [] n = "b" -> "b"
                                     [] n = "bb" -> "b" [] n = "gone" -> None]
MCBelow == [q \in {"a", "b"} |-> IF q = "a" THEN <<"bb", "gone", "b", "a">> ELSE <<"a">>]
InOrder == {<<"a", "b">>, <<"b">>}      \* whoever begins with "b" does not come to "a"
EitherFirst == {<<"a">>, <<"b">>}

\* The walks of requests that begin InOrder, and the order in which they meet the
\* queues: from "a", or from "b", which forwards and has nothing below it.
MCRank == [q \in Queues |-> IF q = "a" THEN 1 ELSE 0]
MCWalks ==
    LET On(x) == {[done |-> Append(x.done, PrimaryOf[x.todo[i]]),
                   todo |-> Onward(PrimaryOf[x.todo[i]], SubSeq(x.todo, i + 1, Len(x.todo)))] :
                     i \in {k \in DOMAIN x.todo : Fresh(x, k) /\ \A j \in 1..k - 1 : ~Fresh(x, j)}}
        f[n \in 0..Cardinality(Queues)] ==
          IF n = 0 THEN {[done |-> <<>>, todo |-> s] : s \in InOrder}
          ELSE f[n - 1] \cup UNION {On(x) : x \in f[n - 1]}
    IN  f[Cardinality(Queues)]
ASSUME OrderAssumption == Starts = InOrder => OneOrder(MCWalks, MCRank)
=============================================================================

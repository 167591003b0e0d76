----------------------------- MODULE MCPrintcap -----------------------------
(* Small files for Printcap: every printcap of three lines out of a dozen, *)
(* and lpd.conf files with and without include lines.                      *)
EXTENDS Printcap

O(k, v) == [key |-> k, val |-> v]
Entry(ns, os, bs) == [key |-> 0, names |-> ns, opts |-> os, cont |-> FALSE, bs |-> bs]
More(os) == [key |-> 0, names |-> <<>>, opts |-> os, cont |-> TRUE, bs |-> FALSE]
Inc(f) == [key |-> Include, val |-> f]

(* Queue names 3 to 6, of which 5 and 6 match the pattern.                 *)
Lines == {
  Entry(<<3, 4>>, <<O(Lp, 10), O(Tr, 1)>>, FALSE),
  Entry(<<4>>, <<O(Tc, <<3>>), O(Lp, 11), O(Bk, 1), O(Bk, 2)>>, FALSE),
  Entry(<<3>>, <<O(Rm, 20), O(Tc, <<4, 5>>), O(Client, 0)>>, TRUE),
  Entry(<<5, 3>>, <<O(Bk, 3), O(Oh, 1), O(Oh, 2)>>, FALSE),
  Entry(<<4, 5>>, <<O(Client, 1), O(Lp, 12)>>, FALSE),
  Entry(<<3>>, <<O(Oh, 2)>>, FALSE),
  Entry(<<Pattern, 4>>, <<O(ServerLp, 90), O(Lp, 13)>>, FALSE),
  Entry(<<Star>>, <<O(Rm, 21), O(Tr, 2)>>, FALSE),
  More(<<O(Bk, 4), O(Rm, 22)>>),
  More(<<O(ServerLp, 14)>>),
  Inc("more") }

MoreFiles == {
  <<More(<<O(Tr, 5)>>), Entry(<<5>>, <<O(Tc, <<4>>)>>, FALSE)>>,
  <<Entry(<<6, 4>>, <<O(Sd, 30)>>, FALSE), Inc("more2"), More(<<O(Lp, 91)>>)>>,
  <<Inc("more")>> }

PrintcapConfs == {
  <<O(Bk, 40), O(Rm, 41), O(Bk, 42)>>,
  <<O(Tr, 43), O(ServerLp, 44), O(Sd, 45), O(Bk, 46)>> }

More2 == <<Entry(<<4>>, <<O(Rm, 23)>>, FALSE)>>

(* A printcap begins with an entry, as nothing precedes its first line.    *)
PrintcapContents ==
  {[n \in {"lpd.conf", "printcap", "more", "more2"} |->
      CASE n = "lpd.conf" -> c [] n = "printcap" -> <<a, b, d>>
        [] n = "more" -> m [] n = "more2" -> More2] :
    c \in PrintcapConfs, a \in {x \in Lines : x.key # Include /\ ~ x.cont},
    b \in Lines, d \in Lines, m \in MoreFiles}

(* lpd.conf with one include line among two options, and what it includes. *)
ConfigContents ==
  {[n \in {"lpd.conf", "printcap", "more"} |->
      CASE n = "lpd.conf" -> c [] n = "printcap" -> <<>> [] n = "more" -> m] :
    c \in {<<a, Inc("more"), b>> : a \in {O(Bk, 40), O(Tr, 43)}, b \in {O(Rm, 41), O(Sd, 42)}},
    m \in {<<O(Tr, 50)>>, <<O(Bk, 51), O(Sd, 52)>>}}
=============================================================================

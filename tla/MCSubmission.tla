---------------------------- MODULE MCSubmission ----------------------------
(***************************************************************************)
(* Submission for TLC.  Two groups of two letters name up to four files;   *)
(* a line of the BSD kind holds two words.  The scenes are: commands       *)
(* through every client and pair of hosts, with one file of permissions;   *)
(* and one command through plain hosts with many files of permissions,     *)
(* senders and removers.                                                   *)
(***************************************************************************)
EXTENDS Submission

MCLetters == 2
MCMaxLine == 2
MCMaxNumber == 10
MCFileKind == [f \in {"a", "b", "c", "-"} |-> "text"] @@ ("bin" :> "binary")
              @@ ("e" :> "empty") @@ ("x" :> "absent") @@ ("d" :> "unreadable")

AA == <<"u", "v">>
Ann == <<"u">>
Bob == <<"v", "u">>
Home == <<"h">>
Mid == <<"m">>
Far == <<"f">>
Wild == <<"w">>
MCHostTable == Home :> [names |-> <<Home>>, addrs |-> {1}]
               @@ Mid :> [names |-> <<Mid, <<"m", "m">>>>, addrs |-> {2, 3}]
               @@ Far :> [names |-> <<Far>>, addrs |-> {6}]
               @@ Wild :> [names |-> <<Wild>>, addrs |-> {3, 5}]
MCServerAddrs == {0, 2, 3}
MCAddrBits == 3
MCGroupMembers == <<"g">> :> {Ann} @@ <<"g", "g">> :> {Bob}

-----------------------------------------------------------------------------
Plain == [nAfter |-> FALSE, bsd |-> FALSE, noHeader |-> FALSE, always |-> FALSE,
          order |-> None, queue |-> None, defprio |-> None, ignore |-> FALSE,
          break |-> FALSE, xlate |-> <<>>, namefix |-> <<>>,
          toZ |-> <<>>, removeZ |-> <<>>, appendZ |-> None, prefixZ |-> None,
          check |-> TRUE, force |-> None, maxFiles |-> 0, maxCopies |-> 0]
Bsd == [Plain EXCEPT !.bsd = TRUE, !.noHeader = TRUE]
After == [Plain EXCEPT !.nAfter = TRUE, !.order = <<"J", "P", "H", "C">>, !.queue = <<"q">>]
Odd == [Plain EXCEPT !.order = <<"A", "P", "*", "H">>, !.noHeader = TRUE, !.always = TRUE,
                     !.defprio = <<"b">>, !.ignore = TRUE, !.xlate = <<<<"l", "f">>, <<"*", "p">>>>,
                     !.namefix = <<<<{Home}, <<"home">>>>, <<{Mid}, None>>>>, !.check = FALSE,
                     !.removeZ = <<<<OneOf({"y", "s"})>>, <<OneOf({"w"})>>>>, !.appendZ = <<"e">>, !.prefixZ = <<"i">>]
Mover == [Plain EXCEPT !.toZ = <<"R", "J", "Z">>, !.removeZ = <<<<OneOf({"z"})>>>>, !.appendZ = <<"z">>]
Strict == [Plain EXCEPT !.maxFiles = 3, !.maxCopies = 1, !.defprio = <<"2">>, !.force = <<"q">>]

Lpr(options, files) == [lp |-> FALSE, other |-> FALSE, options |-> options, files |-> files]
Lp(options, files) == [lp |-> TRUE, other |-> FALSE, options |-> options, files |-> files]
O(k, v) == [k |-> k, v |-> v]

Commands == <<
  Lpr(<<>>, <<"a", "b", "c">>), Lpr(<<>>, <<"a", "a", "b">>), Lpr(<<>>, <<"a", "b", "c", "-">>),
  Lpr(<<O("K", 2)>>, <<"a", "b">>), Lpr(<<O("r", None), O("#", 2)>>, <<"a">>),
  Lpr(<<O("r", None)>>, <<"a", "e", "x", "d", "b">>), Lpr(<<O("N", None), O("r", None)>>, <<"a", "e">>),
  Lpr(<<>>, <<"a", "b", "a", "-">>), Lpr(<<O("l", None)>>, <<"bin", "a">>),
  Lpr(<<O("p", None)>>, <<"bin">>), Lpr(<<>>, <<>>), Lpr(<<>>, <<"e">>), Lpr(<<O("K", 0)>>, <<"a">>),
  Lpr(<<O("F", "l"), O("p", None)>>, <<"a">>), Lpr(<<O("F", "p"), O("C", <<"z">>)>>, <<"c">>),
  Lpr(<<O("C", <<"b", "b">>), O("J", <<"j", "j", "j">>), O("R", <<"r">>), O("h", None),
        O("m", <<"m">>), O("Z", <<"y">>), O("o", <<"z">>), O("Q", None)>>, <<"c", "a">>),
  Lpr(<<O("C", <<"2">>)>>, <<"a">>), Lpr(<<O("U", Bob), O("s", None), O("b", None)>>, <<"b">>),
  Lp(<<O("n", 2), O("f", <<"b">>), O("t", <<"t">>), O("q", "b"), O("nobanner", None)>>, <<"a", "b">>),
  Lp(<<O("m", None), O("S", <<"s">>), O("c", None)>>, <<"-">>), Lp(<<O("?", None)>>, <<"a">>)>>

Lit(str) == [i \in DOMAIN str |-> OneOf({str[i]})]
Client == [host |-> Home, user |-> AA, mayRename |-> FALSE, lprOpts |-> <<>>, format |-> "0",
           formats |-> Formats, queueName |-> <<"q", "q">>, groups |-> <<>>, remote |-> TRUE, pid |-> 17, sendTry |-> 2, conf |-> Plain]
Clients == <<Client, [Client EXCEPT !.conf = Bsd], [Client EXCEPT !.conf = After],
            [Client EXCEPT !.conf = Odd, !.mayRename = TRUE, !.format = "l"],
            [Client EXCEPT !.conf = Strict, !.formats = {"f", "l"}, !.sendTry = 1,
                            !.user = Bob, !.groups = <<Lit(<<"g">>), <<OneOf({"g"}), Star>>>>],
            [Client EXCEPT !.lprOpts = <<O("Z", <<"w">>), O("h", None)>>],
            [Client EXCEPT !.groups = <<<<Star, OneOf({"g"})>>, Lit(<<"h">>)>>], [Client EXCEPT !.remote = FALSE]>>

-----------------------------------------------------------------------------
(* Files of permissions.                                                   *)
T(k, vals) == [key |-> k, vals |-> vals]
Tok(k) == T(k, <<>>)
HostNamed(p) == [not |-> FALSE, isaddr |-> FALSE, pattern |-> p, addr |-> 0, bits |-> 0]
NetOf(addr, bits) == [not |-> FALSE, isaddr |-> TRUE, pattern |-> Lit(<<"-">>), addr |-> addr, bits |-> bits]
Accept == Tok("ACCEPT")
Reject == Tok("REJECT")
Not == Tok("NOT")

Elements == <<Star, OneOf({"u"}), OneOf({"u", "v"}), OneOf({"v"})>>
Word(n, len) == [k \in 1..len |-> Elements[((n \div 4 ^ (k - 1)) % 4) + 1]]
Patterns ==
  SelectSeq([i \in 1..84 |-> IF i <= 4 THEN Word(i - 1, 1)
                            ELSE IF i <= 20 THEN Word(i - 5, 2) ELSE Word(i - 21, 3)],
       LAMBDA p : ~(Len(p) > 1 /\ p[Len(p)].star /\ p[Len(p) - 1].star))

Tests == <<
  T("USER", <<Lit(Ann), Lit(AA)>>), T("REMOTEUSER", <<Lit(Bob)>>), T("GROUP", <<Lit(<<"g">>)>>),
  T("GROUP", <<<<Star, OneOf({"g"})>>>>), T("REMOTEGROUP", <<<<OneOf({"g"}), Star>>>>),
  T("HOST", <<HostNamed(<<Star, OneOf({"m"})>>)>>), T("HOST", <<NetOf(5, 2), HostNamed(Lit(Home))>>),
  T("REMOTEHOST", <<NetOf(2, 3)>>), T("REMOTEHOST", <<HostNamed(Lit(Home)), NetOf(7, 1)>>),
  T("PORT", <<<<1, 3>>, <<5, 5>>>>), T("SERVICE", <<{"R"}, {"X", "M"}>>), T("SERVICE", <<{"P", "C"}>>),
  T("SERVER", <<>>), T("UNIXSOCKET", <<>>), T("SAMEHOST", <<>>), T("SAMEUSER", <<>>),
  T("PRINTER", <<Lit(<<"p">>)>>), T("LPC", <<Lit(<<"l">>)>>), T("AUTH", <<>>),
  T("CONTROLLINE", <<[letter |-> "C", pattern |-> <<OneOf({"A"}), Star>>]>>),
  T("CONTROLLINE", <<[letter |-> "R", pattern |-> <<Star>>]>>)>>

(* lpd.perms as it comes with LPRng, without lpc's lines.                  *)
Standard == <<<<T("SERVICE", <<{"C"}>>), T("SERVER", <<>>), Accept>>,
              <<T("SERVICE", <<{"M"}>>), T("SAMEHOST", <<>>), T("SAMEUSER", <<>>), Accept>>,
              <<T("SERVICE", <<{"M"}>>), T("SERVER", <<>>), T("REMOTEUSER", <<Lit(Ann)>>), Accept>>,
              <<T("SERVICE", <<{"M", "C"}>>), Reject>>,
              <<Tok("DEFAULT"), Accept>>>>

Positive == SelectSeq(Tests, LAMBDA t : t.key # "CONTROLLINE")
Twice(t, u) ==
  <<<<T("SERVICE", <<{"R", "P", "M"}>>), t, Not, u, Reject>>, <<Tok("DEFAULT"), Reject>>,
    <<T("SERVICE", <<{"X", "R", "P"}>>)>>, <<>>, <<T("SERVICE", <<{"X", "R"}>>), Accept>>>>

ForUser(p) == <<<<T("USER", <<p>>), Accept>>, <<T("SERVICE", <<{"R", "P"}>>), Reject>>>>
(* TLC evaluates an argument once, a definition at each of its uses.       *)
RulesOf(patterns, tests, positive) ==
  LET n == Len(positive) IN
  [i \in DOMAIN patterns |-> ForUser(patterns[i])]
  \o [i \in DOMAIN tests |-> <<<<Reject, tests[i]>>, <<Accept>>>>]
  \o [i \in 1..n |-> <<<<Not, positive[i], Reject>>>>]
  \o [i \in 1..2 * n |-> Twice(IF i > n THEN T("SAMEHOST", <<>>) ELSE T("SAMEUSER", <<>>),
                               positive[((i - 1) % n) + 1])]
  \o <<Standard>>

-----------------------------------------------------------------------------
Nobody == [user |-> None, host |-> Home, lpc |-> {}]
Host(name, conf, routes, rules) ==
  [host |-> name, conf |-> conf, routes |-> routes, rules |-> rules, printer |-> <<"p">>, queues |-> <<<<"p">>, <<"s">>>>, sendTry |-> 2]
Entry(lines, copies) == [when |-> "any", dest |-> <<"d">>, lines |-> lines, prio |-> None, copies |-> copies]
Routes == <<Entry("J" :> <<"r">> @@ "C" :> <<"z">>, 2), [Entry(<<>>, 0) EXCEPT !.dest = None],
            [Entry("Z" :> <<"o">>, 0) EXCEPT !.prio = <<"B">>]>>

Paths == <<<<Host(Far, Plain, <<>>, Standard)>>,
          <<Host(Mid, Plain, <<>>, Standard), Host(Far, Mover, <<>>, Standard)>>,
          <<Host(Mid, Plain, Routes, Standard), Host(Far, Plain, <<>>, Standard)>>,
          <<Host(Mid, Bsd, <<>>, Standard), Host(Far, Odd, <<>>, Standard)>>,
          <<Host(Mid, After, <<>>, Standard), Host(Far, Bsd, <<>>, Standard)>>,
          <<Host(Mid, Odd, <<[Entry("C" :> <<"B">>, 1) EXCEPT !.when = "L"]>>, Standard), Host(Far, After, <<>>, Standard)>>>>

(* A BSD lpr: the files, then what to unlink, then the names.  And a       *)
(* program that sends a control file without data lines, one whose names   *)
(* do not agree, and one that lacks a file.                                *)
Df(c) == <<"0", c, "7", Home>>

BsdMessage ==
  [name |-> <<"A", "7", Home>>, number |-> 7, fhost |-> Home,
   cf |-> <<HeaderLine("H", Home), HeaderLine("P", AA), FileLine("f", Df("0")), FileLine("f", Df("0")),
            FileLine("U", Df("0")), HeaderLine("N", <<"a">>), FileLine("l", Df("1")),
            FileLine("U", Df("1")), HeaderLine("N", <<"b">>)>>,
   files |-> <<<<Df("0"), "a">>, <<Df("1"), "b">>>>]
Ask(fmt, name, content) == [fmt |-> fmt, name |-> name, content |-> content]
Other(msg, asked) == [lp |-> FALSE, other |-> TRUE, msg |-> msg, asked |-> asked]
Others == <<
  Other(BsdMessage, <<Ask("f", <<"a">>, "a"), Ask("f", <<"a">>, "a"), Ask("l", <<"b">>, "b")>>),
  Other([BsdMessage EXCEPT !.cf = SubSeq(@, 1, 2)], <<Ask("f", None, "a"), Ask("f", None, "b")>>),
  Other([BsdMessage EXCEPT !.cf = SubSeq(@, 2, 6), !.files = SubSeq(@, 1, 1)],
        <<Ask("f", <<"a">>, "a"), Ask("f", <<"a">>, "a")>>),
  Other([BsdMessage EXCEPT !.name = <<"A", "18", Home>>, !.number = 18],
        <<Ask("f", <<"a">>, "a"), Ask("f", <<"a">>, "a"), Ask("l", <<"b">>, "b")>>),
  Other([BsdMessage EXCEPT !.files = SubSeq(@, 1, 1)], <<>>)>>

(* lpc commands: to lpd, the state of a list of queues, a job of one.      *)
Lpc(op, word, printers) == [op |-> op, word |-> word, printers |-> printers]
P == <<"p">>
S == <<"s">>
Commanded == {Lpc("lpd", <<"l">>, <<P>>), Lpc("status", <<"s">>, <<S, P>>),
              Lpc("hold", <<"h">>, <<<<"all">>>>)}
Who(user, host) == [user |-> user, host |-> host, lpc |-> Commanded]
Scene(cmd, client, hosts, who, port) ==
  [cmd |-> cmd, client |-> client, hosts |-> hosts, who |-> who, port |-> port]

Simple == Lpr(<<O("r", None)>>, <<"a">>)
Works == Commands \o Others
Users == <<AA, Ann, Bob>>
Removers == <<Nobody, Who(Ann, Home), Who(Bob, Mid), Who(AA, Wild)>>
Ports == <<2, 4>>

(* All choices of one index for each of the sequences s, in a row.         *)
Nth(n, s) == (n % Len(s)) + 1
ScenesOf(cmds, clients, paths, rules) ==
  LET works == Len(cmds) * Len(clients) * Len(paths)
      perms == Len(Users) * Len(rules) * Len(Removers) * Len(Ports)
      Work(n) == Scene(cmds[Nth(n, cmds)], clients[Nth(n \div Len(cmds), clients)],
                       paths[(n \div (Len(cmds) * Len(clients))) + 1], Nobody, 4)
      Perm(n) ==
        LET m == n \div Len(rules) k == m \div Len(Users)
        IN Scene(Simple, [Client EXCEPT !.user = Users[Nth(m, Users)]],
                 <<Host(Mid, Plain, <<>>, rules[Nth(n, rules)])>>,
                 Removers[Nth(k, Removers)], Ports[(k \div Len(Removers)) + 1])
  IN [n \in 1..works + perms |-> IF n <= works THEN Work(n - 1) ELSE Perm(n - works - 1)]

MCScenes == ScenesOf(Works, Clients, Paths, RulesOf(Patterns, Tests, Positive))
=============================================================================

---------------------------- MODULE Permissions ----------------------------
(***************************************************************************)
(* The permission file of lpd and its reading by Perms_check: what a line  *)
(* of tests and a result means for a request, with the patterns of         *)
(* Globmatch, the users' groups and the hosts' names and addresses.  The   *)
(* operators follow the code, test by test; Documented is what             *)
(* lpd.perms(5) says of the same file, by its table of the keys that have  *)
(* a value when a service is checked.                                      *)
(*                                                                         *)
(* A line is a sequence of tokens [key, vals].  The values of a token are  *)
(* patterns for a string, pairs <<low, high>> for a port, sets of letters  *)
(* for a service, records for a host and for a control file line.  A       *)
(* string is a sequence of characters, a null pointer the empty one.       *)
(* Netgroups, lists of names in files and IPv6 are left out; an address is *)
(* a number of AddrBits bits.                                              *)
(***************************************************************************)
EXTENDS Integers, Sequences, SequencesExt, Globs

CONSTANTS
  GroupMembers,   \* function from group names to sets of users
  ServerAddrs,    \* addresses of this host, the loopback address among them
  AddrBits        \* bits of an address

ASSUME PermissionsAssumption == AddrBits \in Nat \ {0}

Null == <<>>
NoHost == [names |-> <<>>, addrs |-> {}]

-----------------------------------------------------------------------------
(* Users and groups.                                                       *)

Match(patterns, str) ==
  str # Null /\ \E i \in DOMAIN patterns : Globmatch(patterns[i], str)

Names(pattern, str) == \A e \in Range(pattern) : ~e.star /\ Len(pattern) = Len(str)
                       /\ \A i \in DOMAIN pattern : pattern[i].chars = {str[i]}

(* ingroup: a name of a group is that group, whatever it looks like; only  *)
(* a pattern that names none is matched against all of them.               *)
Ingroup(pattern, user) ==
  LET named == {g \in DOMAIN GroupMembers : Names(pattern, g)} IN
  IF named # {} THEN \E g \in named : user \in GroupMembers[g]
  ELSE /\ \E e \in Range(pattern) : e.star
       /\ \E g \in DOMAIN GroupMembers : Globmatch(pattern, g) /\ user \in GroupMembers[g]

(* In_group, lpr's: here a pattern is matched against all groups when the  *)
(* group it names, if there is one, does not have the user.                *)
InGroup(pattern, user) ==
  \/ \E g \in DOMAIN GroupMembers : Names(pattern, g) /\ user \in GroupMembers[g]
  \/ /\ \E e \in Range(pattern) : e.star
     /\ \E g \in DOMAIN GroupMembers : Globmatch(pattern, g) /\ user \in GroupMembers[g]

(* Check_for_rg_group: RestrictToGroupMembers, or everybody.               *)
InRestrictedGroup(patterns, user) ==
  patterns = <<>> \/ \E i \in DOMAIN patterns : InGroup(patterns[i], user)

MatchGroup(patterns, user) ==
  user # Null /\ \E i \in DOMAIN patterns : Ingroup(patterns[i], user)

(* form_addr_and_mask and cmp_ip_addr: the first bits of the address.      *)
SameNet(addr, bits, host) ==
  LET low == 2 ^ (IF bits >= AddrBits THEN 0 ELSE AddrBits - bits)
  IN addr \div low = host \div low

(* Same_host: an address in common.                                        *)
SameHost(h1, h2) == h1.addrs \cap h2.addrs # {}

OfServer(host) == host.addrs \cap ServerAddrs # {}

(* Match_ipaddr_value: a value is a pattern for one of the host's names or *)
(* an address with a mask; ! turns this value and those after it round.    *)
MatchHost(vals, host) ==
  LET One(v) == \/ \E i \in DOMAIN host.names : Globmatch(v.pattern, host.names[i])
                \/ v.isaddr /\ \E a \in host.addrs : SameNet(v.addr, v.bits, a)
      Try(s, v) == LET not == s.not \/ v.not IN
                   IF s.ok THEN s ELSE [ok |-> not # One(v), not |-> not]
  IN host.names # <<>> /\ FoldLeft(Try, [ok |-> FALSE, not |-> FALSE], vals).ok

(* portmatch: the ends of a range in either order.                         *)
MatchRange(ranges, port) ==
  \E i \in DOMAIN ranges : \/ ranges[i][1] <= port /\ port <= ranges[i][2]
                           \/ ranges[i][2] <= port /\ port <= ranges[i][1]

MatchChar(sets, service) ==
  \E i \in DOMAIN sets : service \in sets[i] \/ "*" \in sets[i]

-----------------------------------------------------------------------------
(* The tests.  A request is [service, printer, user, remoteuser, host,     *)
(* remotehost, port, lpc, unix, authuser, authtype, jobauth, lines]: the   *)
(* fields of perm_check, and of the job its AUTHUSER and its control file  *)
(* lines, a function from letters to strings.                              *)

StringTests == {"REMOTEUSER", "PRINTER", "AUTHTYPE", "AUTHUSER"}
JobTests == {"USER", "HOST", "GROUP", "CONTROLLINE", "SAMEHOST", "SAMEUSER",
             "AUTHSAMEUSER", "FORWARD"}
QueueServices == {"Q", "M", "C"}

StringOf(key, r) ==
  CASE key = "REMOTEUSER" -> r.remoteuser [] key = "PRINTER" -> r.printer
    [] key = "AUTHTYPE" -> r.authtype [] key = "AUTHUSER" -> r.authuser

MatchLine(vals, lines) ==
  \E i \in DOMAIN vals : /\ vals[i].letter \in DOMAIN lines
                         /\ Globmatch(vals[i].pattern, lines[vals[i].letter])

(* Both hosts the same, or both this one.                                  *)
BothServer(r) == OfServer(r.host) /\ OfServer(r.remotehost)
HostsAgree(r) == SameHost(r.host, r.remotehost) \/ BothServer(r)

(* Whether a test succeeds after NOT (not) or without it, for a check of a *)
(* job (jobcheck) or of the request alone.                                 *)
UserTests(key, vals, not, r, jobcheck) ==
  CASE key = "USER" -> jobcheck => r.service # "X" /\ not # Match(vals, r.user)
    [] key = "GROUP" -> jobcheck => r.service # "X" /\ not # MatchGroup(vals, r.user)
    [] key = "REMOTEGROUP" -> r.service # "X" /\ not # MatchGroup(vals, r.remoteuser)
    [] key = "LPC" -> r.service = "C" /\ not # Match(vals, r.lpc)
    [] key \in StringTests -> r.service # "X" /\ not # Match(vals, StringOf(key, r))

PlaceTests(key, vals, not, r, jobcheck) ==
  CASE key = "HOST" -> jobcheck => r.service # "X" /\ not # MatchHost(vals, r.host)
    [] key = "REMOTEHOST" -> not # MatchHost(vals, r.remotehost)
    [] key = "PORT" -> r.service \in {"X", "M", "C"} /\ not # MatchRange(vals, r.port)
    [] key = "SERVICE" -> not # MatchChar(vals, r.service)
    [] key = "SERVER" -> not # OfServer(r.remotehost)
    [] key = "UNIXSOCKET" -> not # r.unix

JobTest(key, vals, not, r, jobcheck) ==
  CASE key = "CONTROLLINE" -> not # (jobcheck => MatchLine(vals, r.lines))
    [] key = "SAMEHOST" -> jobcheck => not # HostsAgree(r)
    [] key = "FORWARD" -> ~(jobcheck => not # HostsAgree(r))
    [] key = "SAMEUSER" -> jobcheck => r.service \in QueueServices /\ not # (r.user = r.remoteuser)

AuthTests(key, vals, not, r, jobcheck) ==
  CASE key = "AUTH" -> r.service # "X" /\ not # (r.authuser # Null)
    [] key = "AUTHSAMEUSER" ->
         jobcheck => r.service \in QueueServices /\ not # (r.authuser = r.jobauth)
    [] key = "AUTHJOB" -> r.service \in QueueServices /\ not # (r.jobauth # Null)

Succeeds(t, not, r, jobcheck) ==
  CASE t.key \in {"USER", "GROUP", "REMOTEGROUP", "LPC"} \cup StringTests ->
         UserTests(t.key, t.vals, not, r, jobcheck)
    [] t.key \in {"HOST", "REMOTEHOST", "PORT", "SERVICE", "SERVER", "UNIXSOCKET"} ->
         PlaceTests(t.key, t.vals, not, r, jobcheck)
    [] t.key \in {"CONTROLLINE", "SAMEHOST", "FORWARD", "SAMEUSER"} ->
         JobTest(t.key, t.vals, not, r, jobcheck)
    [] t.key \in {"AUTH", "AUTHSAMEUSER", "AUTHJOB"} ->
         AuthTests(t.key, t.vals, not, r, jobcheck)
    [] OTHER -> FALSE       \* a key nobody knows

-----------------------------------------------------------------------------
(* Perms_check: the first line without a test that fails decides.  NOT     *)
(* reaches one token and no further; a line of DEFAULT sets the answer     *)
(* that stands when none decides, and for lines without a result.          *)

Results == {"ACCEPT", "REJECT"}

ScanToken(line, r, jobcheck, s, t) ==
  IF s.fails THEN s
  ELSE CASE t.key = "NOT" -> [s EXCEPT !.not = TRUE]
         [] t.key \in Results -> [s EXCEPT !.result = t.key, !.not = FALSE]
         [] t.key = "DEFAULT" ->
              [s EXCEPT !.fails = TRUE,
                        !.default = IF Len(line) = 2 /\ line[2].key \in Results
                                    THEN line[2].key ELSE @]
         [] OTHER -> [s EXCEPT !.fails = ~Succeeds(t, s.not, r, jobcheck), !.not = FALSE]

(* As a bug would have it: a result stands although a later test fails.    *)
ScanLineKeeping(r, jobcheck, s, line) ==
  IF s.result # "NONE" \/ line = <<>> THEN s
  ELSE LET e == FoldLeft(LAMBDA u, t : ScanToken(line, r, jobcheck, u, t),
                         [fails |-> FALSE, not |-> FALSE, result |-> "NONE",
                          default |-> s.default], line)
       IN [default |-> e.default, result |-> e.result]

ScanLine(r, jobcheck, s, line) ==
  IF s.result # "NONE" \/ line = <<>> THEN s
  ELSE LET e == FoldLeft(LAMBDA u, t : ScanToken(line, r, jobcheck, u, t),
                         [fails |-> FALSE, not |-> FALSE, result |-> "NONE",
                          default |-> s.default], line)
       IN [default |-> e.default,
           result |-> IF e.fails THEN "NONE"
                      ELSE IF e.result = "NONE" THEN e.default ELSE e.result]

PermsCheck(perms, r, jobcheck, default) ==
  LET s == FoldLeft(LAMBDA u, line : ScanLine(r, jobcheck, u, line),
                    [result |-> "NONE", default |-> default], perms)
  IN IF s.result = "NONE" THEN s.default ELSE s.result

-----------------------------------------------------------------------------
(* What lpd.perms(5) says.                                                 *)

(* * matches 0 or more characters: there are places to cut the string at,  *)
(* one for each element of the pattern.                                    *)
Fits(pattern, str) ==
  str # Null /\
  \E cut \in [0..Len(pattern) -> 0..Len(str)] :
     /\ cut[0] = 0 /\ cut[Len(pattern)] = Len(str)
     /\ \A i \in DOMAIN pattern :
          IF pattern[i].star THEN cut[i] >= cut[i - 1]
          ELSE cut[i] = cut[i - 1] + 1 /\ str[cut[i]] \in pattern[i].chars

OneFits(patterns, str) == \E i \in DOMAIN patterns : Fits(patterns[i], str)

GroupFits(patterns, user) ==
  \E g \in DOMAIN GroupMembers : user \in GroupMembers[g] /\ OneFits(patterns, g)

HostFits(vals, host) ==
  \E i \in DOMAIN vals :
     \/ \E j \in DOMAIN host.names : Fits(vals[i].pattern, host.names[j])
     \/ /\ vals[i].isaddr
        /\ \E a \in host.addrs, rest \in 0..2 ^ (AddrBits - vals[i].bits) - 1 :
             a = (vals[i].addr \div 2 ^ (AddrBits - vals[i].bits))
                   * 2 ^ (AddrBits - vals[i].bits) + rest

(* The keys that have a value when a service is checked: the table of      *)
(* lpd.perms.n:189-212; LPC is in that of conf/lpd.perms.in:51.            *)
AuthKeys == {"AUTH", "AUTHTYPE", "AUTHUSER", "AUTHSAMEUSER", "AUTHJOB"}
HasValue(key, service) ==
  CASE key \in {"SERVICE", "HOST", "REMOTEHOST", "UNIXSOCKET"} -> TRUE
    [] key = "PORT" -> service # "P"
    [] key \in {"SAMEHOST", "SERVER"} \cup AuthKeys -> service \notin {"X", "P"}
    [] key = "FORWARD" -> service \in {"R", "M", "C"}
    [] key = "SAMEUSER" -> service \in QueueServices
    [] key = "LPC" -> service = "C"
    [] OTHER -> service # "X"

(* Its columns: JUSR or CUSR, and RH or JH.                                *)
RemoteUserIn(r) == IF r.service \in {"M", "C"} THEN r.remoteuser ELSE r.user
RemoteHostIn(r) == IF r.service = "P" THEN r.host ELSE r.remotehost
HostIn(r) == IF r.service = "X" THEN r.remotehost ELSE r.host

Meaning(t, r) ==
  CASE t.key = "USER" -> OneFits(t.vals, r.user)
    [] t.key = "LPC" -> OneFits(t.vals, r.lpc)
    [] t.key = "REMOTEUSER" -> OneFits(t.vals, RemoteUserIn(r))
    [] t.key \in StringTests \ {"REMOTEUSER"} -> OneFits(t.vals, StringOf(t.key, r))
    [] t.key = "GROUP" -> GroupFits(t.vals, r.user)
    [] t.key = "REMOTEGROUP" -> GroupFits(t.vals, RemoteUserIn(r))
    [] t.key = "HOST" -> HostFits(t.vals, HostIn(r))
    [] t.key = "REMOTEHOST" -> HostFits(t.vals, RemoteHostIn(r))
    [] t.key = "PORT" -> \E i \in DOMAIN t.vals : r.port \in t.vals[i][1]..t.vals[i][2]
    [] t.key = "SERVICE" -> r.service \in UNION Range(t.vals)
    [] t.key = "SERVER" -> OfServer(r.remotehost)
    [] t.key = "UNIXSOCKET" -> r.unix
    [] t.key = "CONTROLLINE" ->
         \E i \in DOMAIN t.vals : /\ t.vals[i].letter \in DOMAIN r.lines
                                  /\ Fits(t.vals[i].pattern, r.lines[t.vals[i].letter])
    [] t.key = "SAMEHOST" -> HostsAgree(r)
    [] t.key = "FORWARD" -> ~HostsAgree(r)
    [] t.key = "SAMEUSER" -> r.user = r.remoteuser
    [] t.key = "AUTH" -> r.authuser # Null
    [] t.key = "AUTHSAMEUSER" -> r.authuser = r.jobauth
    [] t.key = "AUTHJOB" -> r.jobauth # Null

TestsOf(line) == {i \in DOMAIN line : line[i].key \notin Results \cup {"NOT", "DEFAULT"}}

(* What depends on jobs succeeds while lpq, lprm or lpc ask about a queue  *)
(* (lpd.perms.n:125-129).                                                  *)
Holds(line, i, r, jobcheck) ==
  \/ ~jobcheck /\ line[i].key \in JobTests /\ r.service \in QueueServices
  \/ /\ HasValue(line[i].key, r.service)
     /\ Meaning(line[i], r) # (i > 1 /\ line[i - 1].key = "NOT")

Matches(line, r, jobcheck) ==
  /\ line # <<>> /\ line[1].key # "DEFAULT"
  /\ \A i \in TestsOf(line) : Holds(line, i, r, jobcheck)

DefaultAt(perms, n, default) ==
  LET set == {i \in 1..n : Len(perms[i]) = 2 /\ perms[i][1].key = "DEFAULT"}
  IN IF set = {} THEN default
     ELSE perms[CHOOSE i \in set : \A j \in set : j <= i][2].key

Documented(perms, r, jobcheck, default) ==
  LET hits == {i \in DOMAIN perms : Matches(perms[i], r, jobcheck)} IN
  IF hits = {} THEN DefaultAt(perms, Len(perms), default)
  ELSE LET first == CHOOSE i \in hits : \A j \in hits : i <= j
           results == {i \in DOMAIN perms[first] : perms[first][i].key \in Results}
       IN IF results = {} THEN DefaultAt(perms, first, default)
          ELSE perms[first][CHOOSE i \in results : TRUE].key

(* Where the table and Perms_check do not agree on the value of a key: at X *)
(* everything about jobs succeeds and SERVER is tested, at R the port is    *)
(* not, at P SERVER, SAMEHOST and the keys of authentication are, and the   *)
(* remote host is the one that sent the job.                                *)
Disputed(key, service) ==
  CASE service = "X" -> key \in {"SERVER"} \cup (JobTests \ {"FORWARD"})
    [] service = "R" -> key \in {"PORT", "AUTHSAMEUSER", "AUTHJOB"}
    [] service = "P" -> key \in {"REMOTEHOST", "SERVER", "SAMEHOST", "FORWARD",
                                 "AUTH", "AUTHTYPE", "AUTHUSER"}
    [] service = "Q" -> key \in {"PORT", "REMOTEUSER", "REMOTEGROUP", "FORWARD"}
    [] OTHER -> FALSE

(* No line of the file turns on such a key: it has none, or a test of       *)
(* another key fails.                                                       *)
Undisputed(perms, r, jobcheck) ==
  \A n \in DOMAIN perms :
    LET line == perms[n]
        doubts == {i \in TestsOf(line) : Disputed(line[i].key, r.service)}
    IN doubts = {} \/ \E i \in TestsOf(line) \ doubts : ~Holds(line, i, r, jobcheck)
=============================================================================

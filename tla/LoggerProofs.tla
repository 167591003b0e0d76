---------------------------- MODULE LoggerProofs ----------------------------
(***************************************************************************)
(* Theorems about Logger: no change is lost while the connection stands,   *)
(* and END says that all has arrived, for any items, changes, sizes of     *)
(* pipe, connection and reads, and any faults.                             *)
(***************************************************************************)
EXTENDS Logger, TLAPS, SequenceTheorems

-----------------------------------------------------------------------------
(* The invariant.                                                           *)

Piece == (ItemSet \cup {End}) \X Nat \X {1, 2}

LoggerState ==
    [at : {"top", "open", "dump", "select", "exit", "dead"}, input : BOOLEAN,
     out : Seq(Piece), file : Seq(Piece), read : BOOLEAN,
     fd : {"up", "lost", "failed"}, due : BOOLEAN, next : Nat]

RemoteState ==
    [state : {"up", "stuck", "down"}, link : {"none", "open", "closed", "gone"},
     wire : Seq(Piece), line : Seq(Piece), known : [ItemSet -> Nat],
     end : BOOLEAN]

Types ==
    /\ queue \in [ItemSet -> Nat \ {0}]
    /\ pending \in [ItemSet -> SUBSET (Nat \ {0})]
    /\ said \in [ItemSet -> Nat \ {0}]
    /\ pipe \in Seq(Piece)
    /\ logger \in LoggerState /\ remote \in RemoteState
    /\ {"at", "result"} \subseteq DOMAIN call
    /\ torn \in BOOLEAN

\* The connection stands, and nothing of an older one is in it.
Joined == logger.fd = "up" /\ remote.link = "open"

\* What is on the way from the buffers of the logger to the host.
Way == (remote.line \o remote.wire)
          \o (IF Joined THEN logger.out \o logger.file ELSE <<>>)

\* A piece is followed by the other half of its line, and comes behind it; a
\* state is not 0.
Lines(s) ==
    \A k \in 1 .. Len(s) :
      /\ s[k][3] = 1 => /\ s[k][1] # End
                        /\ k < Len(s) => s[k + 1] = <<s[k][1], s[k][2], 2>>
      /\ s[k][1] # End => /\ s[k][2] # 0
                          /\ s[k][3] = 2 => k > 1 /\ s[k - 1] = <<s[k][1], s[k][2], 1>>

\* No line is cut at the end.
Complete(s) == Len(s) > 0 => s[Len(s)][3] = 2

Silent(s, i) == \A k \in 1 .. Len(s) : s[k][1] # i
Final(s, i, v) ==
    \E k \in 1 .. Len(s) : /\ s[k][1] = i /\ s[k][2] = v
                           /\ \A m \in k + 1 .. Len(s) : s[m][1] # i

\* The host will hear that i is v.
Tells(s, known, i, v) == Final(s, i, v) \/ (Silent(s, i) /\ known[i] = v)

PipeInv ==
    /\ Lines(pipe) /\ Complete(pipe)
    /\ Silent(pipe, End)
    /\ \A i \in ItemSet : Silent(pipe, i) \/ Final(pipe, i, said[i])

\* One writer at a time changes a locked item and says so.
LockInv ==
    \A i \in Locked : \/ pending[i] = {} /\ said[i] = queue[i]
                      \/ pending[i] = {queue[i]}

\* An END comes behind a message of every item.
Ended(s, known) ==
    \A k \in 1 .. Len(s) : s[k][1] = End =>
      \A i \in ItemSet : known[i] # 0 \/ \E m \in 1 .. k - 1 : s[m][1] = i

\* Of a line that is not yet whole the host has its first piece.
LineOK == remote.line = <<>> \/ (Len(remote.line) = 1 /\ remote.line[1][3] = 1)

WayInv ==
    /\ Lines(Way)
    /\ Joined => Complete(Way)
    /\ LineOK
    /\ remote.end => \A i \in ItemSet : remote.known[i] # 0
    /\ Ended(Way, remote.known)

Listed(i) == remote.known[i] # 0 \/ ~Silent(Way, i)

DumpInv ==
    Joined /\ logger.at = "dump" =>
       /\ logger.next \in 1 .. Items + 1
       /\ \A i \in ItemSet : i < logger.next => Listed(i)

\* The host will hear the state of i, or what the last message about it gave.
Knows(i) == \/ Tells(Way, remote.known, i, queue[i])
            \/ Tells(Way, remote.known, i, said[i])

\* What NothingMissed says, the pipe kept apart.
HeardInv ==
    Joined => \A i \in ItemSet :
       \/ pending[i] # {}
       \/ logger.at = "dump" /\ i >= logger.next
       \/ Final(pipe, i, said[i])
       \/ Silent(pipe, i) /\ Knows(i)

\* Nothing was sent over a connection that the logger does not know yet.
OpenInv ==
    logger.at = "open" =>
       /\ logger.fd # "up"
       /\ call.at = "done" /\ call.result = "open" /\ remote.link = "open" =>
             remote.line = <<>> /\ remote.wire = <<>>

LinkInv == WayInv /\ DumpInv /\ HeardInv

LogInv == Types /\ OpenInv /\ PipeInv /\ LockInv /\ (~torn => LinkInv)

-----------------------------------------------------------------------------
(* Sequences of pieces.                                                     *)

\* The parts of a piece.
LEMMA Pieces ==
    ASSUME NEW s \in Seq(Piece)
    PROVE  /\ Len(s) \in Nat
           /\ \A k \in 1 .. Len(s) :
                /\ s[k] \in Piece
                /\ s[k][1] \in ItemSet \cup {End} /\ s[k][2] \in Nat
                /\ s[k][3] \in {1, 2}
<1>1. Len(s) \in Nat /\ \A k \in 1 .. Len(s) : s[k] \in Piece
  BY LenProperties, ElementOfSeq
<1> QED
  BY <1>1 DEF Piece

\* What a concatenation has at its places.
LEMMA Joint ==
    ASSUME NEW a \in Seq(Piece), NEW b \in Seq(Piece)
    PROVE  /\ a \o b \in Seq(Piece)
           /\ Len(a) \in Nat /\ Len(b) \in Nat
           /\ Len(a \o b) = Len(a) + Len(b)
           /\ \A k \in 1 .. Len(a) : (a \o b)[k] = a[k]
           /\ \A k \in 1 .. Len(b) : (a \o b)[Len(a) + k] = b[k]
<1>1. /\ a \o b \in Seq(Piece) /\ Len(a \o b) = Len(a) + Len(b)
      /\ \A k \in 1 .. Len(a) + Len(b) :
            (a \o b)[k] = IF k <= Len(a) THEN a[k] ELSE b[k - Len(a)]
  BY ConcatProperties
<1>2. Len(a) \in Nat /\ Len(b) \in Nat
  BY LenProperties
<1>3. ASSUME NEW k \in 1 .. Len(b) PROVE (a \o b)[Len(a) + k] = b[k]
  <2>1. /\ Len(a) + k \in 1 .. Len(a) + Len(b) /\ ~(Len(a) + k <= Len(a))
        /\ (Len(a) + k) - Len(a) = k
    BY <1>2
  <2> QED
    BY <1>1, <2>1
<1>4. ASSUME NEW k \in 1 .. Len(a) PROVE (a \o b)[k] = a[k]
  <2>1. k \in 1 .. Len(a) + Len(b) /\ k <= Len(a)
    BY <1>2
  <2> QED
    BY <1>1, <2>1
<1> QED
  BY <1>1, <1>2, <1>3, <1>4

\* A place of a concatenation is one of the first part or of the second.
LEMMA Places ==
    ASSUME NEW m \in Nat, NEW n \in Nat, NEW k \in 1 .. m + n
    PROVE  k \in 1 .. m \/ \E l \in 1 .. n : k = m + l
<1>1. CASE k > m
  <2>1. k - m \in 1 .. n /\ k = m + (k - m)
    BY <1>1
  <2> QED
    BY <2>1
<1> QED
  BY <1>1

\* A concatenation is silent about what both parts are silent about.
LEMMA SilentJoin ==
    ASSUME NEW a \in Seq(Piece), NEW b \in Seq(Piece), NEW i
    PROVE  Silent(a \o b, i) <=> Silent(a, i) /\ Silent(b, i)
<1> DEFINE m == Len(a)
           n == Len(b)
           c == a \o b
<1>1. /\ m \in Nat /\ n \in Nat /\ Len(c) = m + n
      /\ \A k \in 1 .. m : c[k] = a[k]
      /\ \A k \in 1 .. n : c[m + k] = b[k]
  BY Joint
<1> HIDE DEF m, n, c
<1>2. ASSUME \A k \in 1 .. m + n : c[k][1] # i
      PROVE  (\A k \in 1 .. m : a[k][1] # i) /\ \A k \in 1 .. n : b[k][1] # i
  <2>1. \A k \in 1 .. m : k \in 1 .. m + n
    BY <1>1
  <2>2. \A k \in 1 .. n : m + k \in 1 .. m + n
    BY <1>1
  <2> QED
    BY <1>1, <1>2, <2>1, <2>2
<1>3. ASSUME \A k \in 1 .. m : a[k][1] # i, \A k \in 1 .. n : b[k][1] # i
      PROVE  \A k \in 1 .. m + n : c[k][1] # i
  <2>1. ASSUME NEW k \in 1 .. m + n PROVE c[k][1] # i
    <3>1. k \in 1 .. m \/ \E l \in 1 .. n : k = m + l
      BY <1>1, Places
    <3>2. CASE k \in 1 .. m
      BY <1>1, <1>3, <3>2
    <3>3. ASSUME NEW l \in 1 .. n, k = m + l PROVE c[k][1] # i
      BY <1>1, <1>3, <3>3
    <3> QED
      BY <3>1, <3>2, <3>3
  <2> QED
    BY <2>1
<1> QED
  BY <1>1, <1>2, <1>3 DEF Silent, m, n, c

\* The last word is the second part's, or the first's if that has none.
LEMMA FinalJoin ==
    ASSUME NEW a \in Seq(Piece), NEW b \in Seq(Piece), NEW i, NEW v
    PROVE  /\ Final(b, i, v) => Final(a \o b, i, v)
           /\ Silent(b, i) /\ Final(a, i, v) => Final(a \o b, i, v)
           /\ Final(a \o b, i, v) => Final(b, i, v) \/ (Silent(b, i) /\ Final(a, i, v))
<1> DEFINE m == Len(a)
           n == Len(b)
           c == a \o b
<1>1. /\ m \in Nat /\ n \in Nat /\ Len(c) = m + n
      /\ \A k \in 1 .. m : c[k] = a[k]
      /\ \A k \in 1 .. n : c[m + k] = b[k]
  BY Joint
<1>0. Len(a) = m /\ Len(b) = n /\ a \o b = c
  OBVIOUS
<1> HIDE DEF m, n, c
<1>2. ASSUME Final(b, i, v) PROVE Final(c, i, v)
  <2>1. PICK k \in 1 .. n : b[k][1] = i /\ b[k][2] = v /\ \A l \in k + 1 .. n : b[l][1] # i
    BY <1>0, <1>2 DEF Final
  <2>2. m + k \in 1 .. m + n /\ c[m + k] = b[k]
    BY <1>1
  <2>3. ASSUME NEW l \in m + k + 1 .. m + n PROVE c[l][1] # i
    <3>1. l - m \in k + 1 .. n /\ l - m \in 1 .. n /\ l = m + (l - m)
      BY <1>1, <2>3
    <3>2. c[l] = b[l - m]
      BY <1>1, <3>1
    <3> QED
      BY <2>1, <3>1, <3>2
  <2> QED
    BY <1>1, <2>1, <2>2, <2>3 DEF Final
<1>3. ASSUME Silent(b, i), Final(a, i, v) PROVE Final(c, i, v)
  <2>1. PICK k \in 1 .. m : a[k][1] = i /\ a[k][2] = v /\ \A l \in k + 1 .. m : a[l][1] # i
    BY <1>0, <1>3 DEF Final
  <2>2. k \in 1 .. m + n /\ c[k] = a[k]
    BY <1>1
  <2>3. ASSUME NEW l \in k + 1 .. m + n PROVE c[l][1] # i
    <3>1. CASE l <= m
      <4>1. l \in k + 1 .. m /\ l \in 1 .. m
        BY <1>1, <3>1
      <4> QED
        BY <1>1, <2>1, <4>1
    <3>2. CASE l > m
      <4>1. l - m \in 1 .. n /\ l = m + (l - m)
        BY <1>1, <3>2
      <4>2. c[l] = b[l - m]
        BY <1>1, <4>1
      <4> QED
        BY <1>0, <1>3, <4>1, <4>2 DEF Silent
    <3> QED
      BY <1>1, <3>1, <3>2
  <2> QED
    BY <1>1, <2>1, <2>2, <2>3 DEF Final
<1>4. ASSUME Final(c, i, v), ~Final(b, i, v) PROVE Silent(b, i) /\ Final(a, i, v)
  <2>1. PICK k \in 1 .. m + n : c[k][1] = i /\ c[k][2] = v /\ \A l \in k + 1 .. m + n : c[l][1] # i
    BY <1>1, <1>4 DEF Final
  <2>2. CASE k > m
    <3>1. k - m \in 1 .. n /\ k = m + (k - m)
      BY <1>1, <2>2
    <3>2. c[k] = b[k - m]
      BY <1>1, <3>1
    <3>3. ASSUME NEW l \in (k - m) + 1 .. n PROVE b[l][1] # i
      <4>1. m + l \in k + 1 .. m + n /\ l \in 1 .. n
        BY <1>1, <3>1
      <4> QED
        BY <1>1, <2>1, <4>1
    <3> QED
      BY <1>0, <1>4, <2>1, <3>1, <3>2, <3>3 DEF Final
  <2>3. CASE k <= m
    <3>1. k \in 1 .. m /\ c[k] = a[k]
      BY <1>1, <2>3
    <3>2. ASSUME NEW l \in k + 1 .. m PROVE a[l][1] # i
      <4>1. l \in k + 1 .. m + n /\ l \in 1 .. m
        BY <1>1, <3>1
      <4> QED
        BY <1>1, <2>1, <4>1
    <3>3. ASSUME NEW l \in 1 .. n PROVE b[l][1] # i
      <4>1. m + l \in k + 1 .. m + n
        BY <1>1, <3>1
      <4> QED
        BY <1>1, <2>1, <4>1
    <3> QED
      BY <1>0, <2>1, <3>1, <3>2, <3>3 DEF Final, Silent
  <2> QED
    BY <1>1, <2>2, <2>3
<1> QED
  BY <1>0, <1>2, <1>3, <1>4

\* Lines behind whole lines are lines.
LEMMA LinesJoin ==
    ASSUME NEW a \in Seq(Piece), NEW b \in Seq(Piece), Lines(a), Complete(a), Lines(b)
    PROVE  Lines(a \o b)
<1> DEFINE m == Len(a)
           n == Len(b)
           c == a \o b
<1>1. /\ m \in Nat /\ n \in Nat /\ Len(c) = m + n
      /\ \A k \in 1 .. m : c[k] = a[k]
      /\ \A k \in 1 .. n : c[m + k] = b[k]
  BY Joint
<1>0. Len(a) = m /\ Len(b) = n /\ a \o b = c
  OBVIOUS
<1> HIDE DEF m, n, c
<1> SUFFICES ASSUME NEW k \in 1 .. m + n
             PROVE  /\ c[k][3] = 1 => /\ c[k][1] # End
                                      /\ k < m + n => c[k + 1] = <<c[k][1], c[k][2], 2>>
                    /\ c[k][1] # End => /\ c[k][2] # 0
                                        /\ c[k][3] = 2 => k > 1 /\ c[k - 1] = <<c[k][1], c[k][2], 1>>
  BY <1>0, <1>1 DEF Lines
<1>2. CASE k \in 1 .. m
  <2>1. c[k] = a[k]
    BY <1>1, <1>2
  <2>2. a[k][3] = 1 => a[k][1] # End /\ (k < m => a[k + 1] = <<a[k][1], a[k][2], 2>>)
    BY <1>0, <1>2 DEF Lines
  <2>3. a[k][1] # End => /\ a[k][2] # 0
                         /\ a[k][3] = 2 => k > 1 /\ a[k - 1] = <<a[k][1], a[k][2], 1>>
    BY <1>0, <1>2 DEF Lines
  <2>4. k < m => k + 1 \in 1 .. m /\ c[k + 1] = a[k + 1]
    BY <1>1, <1>2
  <2>5. k > 1 => k - 1 \in 1 .. m /\ c[k - 1] = a[k - 1]
    BY <1>1, <1>2
  <2>6. a[k][3] = 1 => k < m
    <3>1. k = m => a[k][3] = 2
      BY <1>0, <1>1, <1>2 DEF Complete
    <3> QED
      BY <1>1, <1>2, <3>1
  <2> QED
    BY <2>1, <2>2, <2>3, <2>4, <2>5, <2>6
<1>3. ASSUME NEW l \in 1 .. n, k = m + l PROVE
                    /\ c[k][3] = 1 => /\ c[k][1] # End
                                      /\ k < m + n => c[k + 1] = <<c[k][1], c[k][2], 2>>
                    /\ c[k][1] # End => /\ c[k][2] # 0
                                        /\ c[k][3] = 2 => k > 1 /\ c[k - 1] = <<c[k][1], c[k][2], 1>>
  <2>1. c[k] = b[l]
    BY <1>1, <1>3
  <2>2. b[l][3] = 1 => b[l][1] # End /\ (l < n => b[l + 1] = <<b[l][1], b[l][2], 2>>)
    BY <1>0, <1>3 DEF Lines
  <2>3. b[l][1] # End => /\ b[l][2] # 0
                         /\ b[l][3] = 2 => l > 1 /\ b[l - 1] = <<b[l][1], b[l][2], 1>>
    BY <1>0, <1>3 DEF Lines
  <2>4. k < m + n => l < n /\ c[k + 1] = b[l + 1]
    <3>1. k < m + n => l < n /\ l + 1 \in 1 .. n /\ k + 1 = m + (l + 1)
      BY <1>1, <1>3
    <3> QED
      BY <1>1, <3>1
  <2>5. l > 1 => k > 1 /\ c[k - 1] = b[l - 1]
    <3>1. l > 1 => k > 1 /\ l - 1 \in 1 .. n /\ k - 1 = m + (l - 1)
      BY <1>1, <1>3
    <3> QED
      BY <1>1, <3>1
  <2> QED
    BY <2>1, <2>2, <2>3, <2>4, <2>5
<1>4. k \in 1 .. m \/ \E h \in 1 .. n : k = m + h
  BY <1>1, Places
<1> QED
  BY <1>2, <1>3, <1>4

\* What is cut off behind a piece leaves lines; what is cut off before a piece
\* that begins one leaves lines too.
LEMMA LinesSplit ==
    ASSUME NEW a \in Seq(Piece), NEW b \in Seq(Piece), Lines(a \o b)
    PROVE  Lines(a) /\ (Complete(a) => Lines(b))
<1> DEFINE m == Len(a)
           n == Len(b)
           c == a \o b
<1>1. /\ m \in Nat /\ n \in Nat /\ Len(c) = m + n
      /\ \A k \in 1 .. m : c[k] = a[k]
      /\ \A k \in 1 .. n : c[m + k] = b[k]
  BY Joint
<1>0. Len(a) = m /\ Len(b) = n /\ Lines(c)
  OBVIOUS
<1> HIDE DEF m, n, c
<1>2. Lines(a)
  <2> SUFFICES ASSUME NEW k \in 1 .. m
               PROVE  /\ a[k][3] = 1 => /\ a[k][1] # End
                                        /\ k < m => a[k + 1] = <<a[k][1], a[k][2], 2>>
                      /\ a[k][1] # End => /\ a[k][2] # 0
                                          /\ a[k][3] = 2 => k > 1 /\ a[k - 1] = <<a[k][1], a[k][2], 1>>
    BY <1>0 DEF Lines
  <2>1. k \in 1 .. m + n /\ c[k] = a[k]
    BY <1>1
  <2>2. /\ c[k][3] = 1 => c[k][1] # End /\ (k < m + n => c[k + 1] = <<c[k][1], c[k][2], 2>>)
        /\ c[k][1] # End => /\ c[k][2] # 0
                            /\ c[k][3] = 2 => k > 1 /\ c[k - 1] = <<c[k][1], c[k][2], 1>>
    BY <1>0, <1>1, <2>1 DEF Lines
  <2>3. k < m => k < m + n /\ c[k + 1] = a[k + 1]
    BY <1>1
  <2>4. k > 1 => c[k - 1] = a[k - 1]
    BY <1>1
  <2> QED
    BY <2>1, <2>2, <2>3, <2>4
<1>3. ASSUME Complete(a) PROVE Lines(b)
  <2> SUFFICES ASSUME NEW l \in 1 .. n
               PROVE  /\ b[l][3] = 1 => /\ b[l][1] # End
                                        /\ l < n => b[l + 1] = <<b[l][1], b[l][2], 2>>
                      /\ b[l][1] # End => /\ b[l][2] # 0
                                          /\ b[l][3] = 2 => l > 1 /\ b[l - 1] = <<b[l][1], b[l][2], 1>>
    BY <1>0 DEF Lines
  <2> DEFINE k == m + l
  <2>1. k \in 1 .. m + n /\ c[k] = b[l]
    BY <1>1
  <2>2. /\ c[k][3] = 1 => c[k][1] # End /\ (k < m + n => c[k + 1] = <<c[k][1], c[k][2], 2>>)
        /\ c[k][1] # End => /\ c[k][2] # 0
                            /\ c[k][3] = 2 => k > 1 /\ c[k - 1] = <<c[k][1], c[k][2], 1>>
    BY <1>0, <1>1, <2>1 DEF Lines
  <2>3. l < n => k < m + n /\ c[k + 1] = b[l + 1]
    <3>1. l < n => k < m + n /\ l + 1 \in 1 .. n /\ k + 1 = m + (l + 1)
      BY <1>1
    <3> QED
      BY <1>1, <3>1
  <2>4. l > 1 => c[k - 1] = b[l - 1]
    <3>1. l > 1 => l - 1 \in 1 .. n /\ k - 1 = m + (l - 1)
      BY <1>1
    <3> QED
      BY <1>1, <3>1
  <2>5. l = 1 => ~(k > 1 /\ c[k - 1] = <<c[k][1], c[k][2], 1>>)
    <3>1. SUFFICES ASSUME l = 1, k > 1 PROVE c[k - 1][3] # 1
      OBVIOUS
    <3>2. m > 0 /\ k - 1 = m /\ m \in 1 .. m
      BY <1>1, <3>1
    <3>3. c[k - 1] = a[m]
      BY <1>1, <3>2
    <3>4. a[m][3] = 2
      BY <1>0, <1>3, <3>2 DEF Complete
    <3> QED
      BY <3>3, <3>4
  <2> HIDE DEF k
  <2>6. l > 1 \/ l = 1
    BY <1>1
  <2> QED
    BY <2>1, <2>2, <2>3, <2>4, <2>5, <2>6
<1> QED
  BY <1>2, <1>3

\* Whole lines behind whole lines are whole.
LEMMA CompleteJoin ==
    ASSUME NEW a \in Seq(Piece), NEW b \in Seq(Piece), Complete(a), Complete(b)
    PROVE  Complete(a \o b)
<1> DEFINE m == Len(a)
           n == Len(b)
           c == a \o b
<1>1. /\ m \in Nat /\ n \in Nat /\ Len(c) = m + n
      /\ \A k \in 1 .. m : c[k] = a[k]
      /\ \A k \in 1 .. n : c[m + k] = b[k]
  BY Joint
<1>0. (m > 0 => a[m][3] = 2) /\ (n > 0 => b[n][3] = 2)
  BY DEF Complete
<1>2. Complete(c) <=> (m + n > 0 => c[m + n][3] = 2)
  BY <1>1 DEF Complete
<1> HIDE DEF m, n, c
<1>3. ASSUME n > 0 PROVE c[m + n][3] = 2
  <2>1. n \in 1 .. n
    BY <1>1, <1>3
  <2>2. c[m + n] = b[n]
    BY <1>1, <2>1
  <2> QED
    BY <1>0, <1>3, <2>2
<1>4. ASSUME n = 0, m > 0 PROVE c[m + n][3] = 2
  <2>1. m \in 1 .. m /\ m + n = m
    BY <1>1, <1>4
  <2>2. c[m + n] = a[m]
    BY <1>1, <2>1
  <2> QED
    BY <1>0, <1>4, <2>2
<1>5. m + n > 0 => n > 0 \/ (n = 0 /\ m > 0)
  BY <1>1
<1>6. Complete(c)
  BY <1>2, <1>3, <1>4, <1>5
<1> QED
  BY <1>6 DEF c

\* A tail of whole lines ends with one.
LEMMA CompleteSplit ==
    ASSUME NEW a \in Seq(Piece), NEW b \in Seq(Piece), Complete(a \o b)
    PROVE  Complete(b)
<1> DEFINE m == Len(a)
           n == Len(b)
           c == a \o b
<1>1. /\ m \in Nat /\ n \in Nat /\ Len(c) = m + n
      /\ \A k \in 1 .. n : c[m + k] = b[k]
  BY Joint
<1>2. m + n > 0 => c[m + n][3] = 2
  BY <1>1 DEF Complete
<1>3. Complete(b) <=> (n > 0 => b[n][3] = 2)
  BY DEF Complete
<1> HIDE DEF m, n, c
<1> SUFFICES ASSUME n > 0 PROVE b[n][3] = 2
  BY <1>3
<1>4. n \in 1 .. n /\ m + n > 0
  BY <1>1
<1> QED
  BY <1>1, <1>2, <1>4

\* END may be added when all has been told.
LEMMA EndedJoin ==
    ASSUME NEW a \in Seq(Piece), NEW b \in Seq(Piece), NEW known,
           Ended(a, known),
           Silent(b, End) \/ \A i \in ItemSet : known[i] # 0 \/ ~Silent(a, i)
    PROVE  Ended(a \o b, known)
<1> DEFINE m == Len(a)
           n == Len(b)
           c == a \o b
<1>1. /\ m \in Nat /\ n \in Nat /\ Len(c) = m + n
      /\ \A k \in 1 .. m : c[k] = a[k]
      /\ \A k \in 1 .. n : c[m + k] = b[k]
  BY Joint
<1>0. Len(a) = m /\ Len(b) = n
  OBVIOUS
<1> HIDE DEF m, n, c
<1> SUFFICES ASSUME NEW k \in 1 .. m + n, c[k][1] = End, NEW i \in ItemSet, known[i] = 0
             PROVE  \E l \in 1 .. k - 1 : c[l][1] = i
  BY <1>1 DEF Ended, c
<1>2. CASE k \in 1 .. m
  <2>1. a[k][1] = End
    BY <1>1, <1>2
  <2>2. PICK l \in 1 .. k - 1 : a[l][1] = i
    BY <1>0, <1>2, <2>1 DEF Ended
  <2>3. l \in 1 .. m
    BY <1>1, <1>2
  <2> QED
    BY <1>1, <2>2, <2>3
<1>3. ASSUME NEW h \in 1 .. n, k = m + h PROVE \E l \in 1 .. k - 1 : c[l][1] = i
  <2>1. b[h][1] = End
    BY <1>1, <1>3
  <2>2. ~Silent(b, End)
    BY <1>0, <2>1 DEF Silent
  <2>3. PICK l \in 1 .. m : a[l][1] = i
    BY <1>0, <2>2 DEF Silent
  <2>4. l \in 1 .. k - 1
    BY <1>1, <1>3
  <2> QED
    BY <1>1, <2>3, <2>4
<1>4. k \in 1 .. m \/ \E h \in 1 .. n : k = m + h
  BY <1>1, Places
<1> QED
  BY <1>2, <1>3, <1>4

\* What comes later does not matter for an END.
LEMMA EndedPrefix ==
    ASSUME NEW a \in Seq(Piece), NEW b \in Seq(Piece), NEW known, Ended(a \o b, known)
    PROVE  Ended(a, known)
<1> DEFINE m == Len(a)
           n == Len(b)
           c == a \o b
<1>1. /\ m \in Nat /\ n \in Nat /\ Len(c) = m + n
      /\ \A k \in 1 .. m : c[k] = a[k]
  BY Joint
<1>0. Len(a) = m /\ Ended(c, known)
  OBVIOUS
<1> HIDE DEF m, n, c
<1> SUFFICES ASSUME NEW k \in 1 .. m, a[k][1] = End, NEW i \in ItemSet, known[i] = 0
             PROVE  \E l \in 1 .. k - 1 : a[l][1] = i
  BY <1>0 DEF Ended
<1>2. k \in 1 .. m + n /\ c[k][1] = End
  BY <1>1
<1>3. PICK l \in 1 .. k - 1 : c[l][1] = i
  BY <1>0, <1>1, <1>2 DEF Ended
<1>4. l \in 1 .. m
  BY <1>1
<1> QED
  BY <1>1, <1>3, <1>4

\* What was told by the pieces that the host has read it knows.
LEMMA EndedRest ==
    ASSUME NEW a \in Seq(Piece), NEW b \in Seq(Piece), NEW known, NEW knows,
           Ended(a \o b, known),
           \A i \in ItemSet : known[i] # 0 \/ ~Silent(a, i) => knows[i] # 0
    PROVE  Ended(b, knows)
<1> DEFINE m == Len(a)
           n == Len(b)
           c == a \o b
<1>1. /\ m \in Nat /\ n \in Nat /\ Len(c) = m + n
      /\ \A k \in 1 .. m : c[k] = a[k]
      /\ \A k \in 1 .. n : c[m + k] = b[k]
  BY Joint
<1>0. Len(a) = m /\ Len(b) = n /\ Ended(c, known)
  OBVIOUS
<1> HIDE DEF m, n, c
<1> SUFFICES ASSUME NEW h \in 1 .. n, b[h][1] = End, NEW i \in ItemSet, knows[i] = 0
             PROVE  \E l \in 1 .. h - 1 : b[l][1] = i
  BY <1>0 DEF Ended
<1>2. m + h \in 1 .. m + n /\ c[m + h][1] = End
  BY <1>1
<1>3. known[i] = 0 /\ Silent(a, i)
  OBVIOUS
<1>4. PICK l \in 1 .. (m + h) - 1 : c[l][1] = i
  BY <1>0, <1>1, <1>2, <1>3 DEF Ended
<1>5. ~(l \in 1 .. m)
  BY <1>0, <1>1, <1>3, <1>4 DEF Silent
<1>6. l - m \in 1 .. h - 1 /\ l - m \in 1 .. n /\ l = m + (l - m)
  BY <1>1, <1>5
<1>7. c[l] = b[l - m]
  BY <1>1, <1>6
<1> QED
  BY <1>4, <1>6, <1>7

\* One line, and END.
LEMMA LineShape ==
    ASSUME NEW i \in ItemSet, NEW v \in Nat \ {0}
    PROVE  /\ Line(i, v) \in Seq(Piece) /\ Lines(Line(i, v)) /\ Complete(Line(i, v))
           /\ Final(Line(i, v), i, v) /\ Silent(Line(i, v), End)
           /\ \A j \in ItemSet \ {i} : Silent(Line(i, v), j)
<1> DEFINE s == Line(i, v)
<1>1. s = << <<i, v, 1>>, <<i, v, 2>> >> /\ i # End /\ v # 0
  BY DEF Line, ItemSet, End
<1>2. <<i, v, 1>> \in Piece /\ <<i, v, 2>> \in Piece
  BY DEF Piece
<1>3. s \in Seq(Piece) /\ Len(s) = 2 /\ s[1] = <<i, v, 1>> /\ s[2] = <<i, v, 2>>
  BY <1>1, <1>2
<1> HIDE DEF s
<1>4. \A k \in 1 .. Len(s) : k = 1 \/ k = 2
  BY <1>3
<1>5. Lines(s)
  <2> SUFFICES ASSUME NEW k \in 1 .. Len(s)
               PROVE  /\ s[k][3] = 1 => /\ s[k][1] # End
                                        /\ k < Len(s) => s[k + 1] = <<s[k][1], s[k][2], 2>>
                      /\ s[k][1] # End => /\ s[k][2] # 0
                                          /\ s[k][3] = 2 => k > 1 /\ s[k - 1] = <<s[k][1], s[k][2], 1>>
    BY DEF Lines
  <2>1. CASE k = 1
    BY <1>1, <1>3, <2>1
  <2>2. CASE k = 2
    BY <1>1, <1>3, <2>2
  <2> QED
    BY <1>4, <2>1, <2>2
<1>6. Complete(s)
  BY <1>3 DEF Complete
<1>7. Final(s, i, v)
  <2>1. 2 \in 1 .. Len(s) /\ s[2][1] = i /\ s[2][2] = v /\ \A l \in 2 + 1 .. Len(s) : FALSE
    BY <1>3
  <2> QED
    BY <2>1 DEF Final
<1>8. \A j \in ItemSet \cup {End} : j # i => Silent(s, j)
  BY <1>3, <1>4 DEF Silent
<1> QED
  BY <1>1, <1>3, <1>5, <1>6, <1>7, <1>8 DEF s

\* END is a line of one piece.
LEMMA EndShape ==
    /\ << <<End, 0, 2>> >> \in Seq(Piece) /\ Lines(<< <<End, 0, 2>> >>)
    /\ Complete(<< <<End, 0, 2>> >>)
    /\ \A j \in ItemSet : Silent(<< <<End, 0, 2>> >>, j)
<1> DEFINE s == << <<End, 0, 2>> >>
<1>1. <<End, 0, 2>> \in Piece /\ \A j \in ItemSet : j # End
  BY DEF Piece, ItemSet, End
<1>2. s \in Seq(Piece) /\ Len(s) = 1 /\ s[1] = <<End, 0, 2>>
  BY <1>1
<1> HIDE DEF s
<1>3. \A k \in 1 .. Len(s) : k = 1
  BY <1>2
<1> QED
  BY <1>1, <1>2, <1>3 DEF Lines, Complete, Silent, s

\* The last piece about an item, as LastSaid looks for it.
Told(s, i) == {k \in 1 .. Len(s) : s[k][1] = i}

\* LastSaid finds the last word.
LEMMA LastFinal ==
    ASSUME NEW s \in Seq(Piece), NEW i, NEW v, Final(s, i, v)
    PROVE  Told(s, i) # {} /\ Max(Told(s, i)) # 0 /\ s[Max(Told(s, i))][2] = v
<1> DEFINE S == Told(s, i)
<1>1. Len(s) \in Nat
  BY LenProperties
<1>2. PICK k \in 1 .. Len(s) : /\ s[k][1] = i /\ s[k][2] = v
                               /\ \A m \in k + 1 .. Len(s) : s[m][1] # i
  BY DEF Final
<1>3. k \in S /\ \A m \in S : k >= m
  <2>1. ASSUME NEW m \in S, ~(k >= m) PROVE FALSE
    <3>1. m \in k + 1 .. Len(s)
      BY <1>1, <2>1 DEF Told
    <3> QED
      BY <1>2, <2>1, <3>1 DEF Told
  <2> QED
    BY <1>2, <2>1 DEF Told
<1>4. Max(S) = k
  <2>1. \A x \in S : (\A y \in S : x >= y) => x = k
    BY <1>1, <1>3 DEF Told
  <2>2. \E x \in S : \A y \in S : x >= y
    BY <1>3
  <2> HIDE DEF S
  <2> QED
    BY <2>1, <2>2 DEF Max
<1> QED
  BY <1>1, <1>2, <1>3, <1>4

-----------------------------------------------------------------------------
(* What the invariant says.                                                 *)

\* The sequences the way is made of.
LEMMA WayShape ==
    ASSUME Types
    PROVE  /\ remote.line \in Seq(Piece) /\ remote.wire \in Seq(Piece)
           /\ logger.out \in Seq(Piece) /\ logger.file \in Seq(Piece)
           /\ pipe \in Seq(Piece)
           /\ remote.line \o remote.wire \in Seq(Piece)
           /\ logger.out \o logger.file \in Seq(Piece)
           /\ Way \in Seq(Piece)
           /\ ~Joined => Way = remote.line \o remote.wire
           /\ Joined => Way = (remote.line \o remote.wire) \o (logger.out \o logger.file)
<1>1. /\ remote.line \in Seq(Piece) /\ remote.wire \in Seq(Piece)
      /\ logger.out \in Seq(Piece) /\ logger.file \in Seq(Piece)
      /\ pipe \in Seq(Piece)
  BY DEF Types, LoggerState, RemoteState
<1>2. /\ remote.line \o remote.wire \in Seq(Piece)
      /\ logger.out \o logger.file \in Seq(Piece)
  BY <1>1, ConcatProperties
<1>3. (remote.line \o remote.wire) \o (logger.out \o logger.file) \in Seq(Piece)
  BY <1>2, ConcatProperties
<1>4. (remote.line \o remote.wire) \o <<>> = remote.line \o remote.wire
  BY <1>2, ConcatEmptySeq
<1> QED
  BY <1>1, <1>2, <1>3, <1>4 DEF Way

\* The invariant gives the property.
LEMMA HeardMeansMissed ==
    ASSUME Types, LockInv, ~torn => HeardInv
    PROVE  NothingMissed
<1> SUFFICES ASSUME Joined, ~torn, NEW i \in ItemSet, pending[i] = {},
                    ~(logger.at = "dump" /\ i >= logger.next)
             PROVE  LastSaid(i) \in {queue[i], said[i]}
  BY DEF NothingMissed, Joined, LockInv
<1>8. PICK v \in {queue[i], said[i]} :
         Final(pipe, i, v) \/ (Silent(pipe, i) /\ Tells(Way, remote.known, i, v))
  BY DEF HeardInv, Knows
<1> SUFFICES LastSaid(i) = v
  OBVIOUS
<1> DEFINE s == Way \o pipe
<1>1. Way \in Seq(Piece) /\ pipe \in Seq(Piece) /\ s \in Seq(Piece)
  BY WayShape, Joint
<1>2. InFlight = s
  <2>1. ((remote.line \o remote.wire) \o logger.out) \o logger.file = Way
    <3> DEFINE a == remote.line \o remote.wire
    <3>1. a \in Seq(Piece) /\ logger.out \in Seq(Piece) /\ logger.file \in Seq(Piece)
          /\ Way = a \o (logger.out \o logger.file)
      BY WayShape
    <3> HIDE DEF a
    <3>2. \A x, y, z \in Seq(Piece) : (x \o y) \o z = x \o (y \o z)
      BY ConcatAssociative
    <3> QED
      BY <3>1, <3>2 DEF a
  <2> QED
    BY <2>1 DEF InFlight
<1>7. LastSaid(i) = IF Told(s, i) # {} /\ Max(Told(s, i)) # 0
                    THEN s[Max(Told(s, i))][2] ELSE remote.known[i]
  <2> HIDE DEF s
  <2> QED
    BY <1>2 DEF LastSaid, SelectLastInSeq, Told
<1> HIDE DEF s
<1>3. CASE Final(s, i, v)
  BY <1>1, <1>3, <1>7, LastFinal
<1>4. CASE Silent(s, i) /\ remote.known[i] = v
  BY <1>4, <1>7 DEF Silent, Told
<1>6. Final(s, i, v) \/ (Silent(s, i) /\ remote.known[i] = v)
  BY <1>1, <1>8, FinalJoin, SilentJoin DEF Tells, s
<1> QED
  BY <1>3, <1>4, <1>6

-----------------------------------------------------------------------------
(* Types.                                                                   *)

\* A buffer is cut in two.
LEMMA TakeDrop ==
    ASSUME NEW s \in Seq(Piece), NEW n \in Nat
    PROVE  /\ Take(n, s) \in Seq(Piece) /\ Drop(n, s) \in Seq(Piece)
           /\ Take(n, s) \o Drop(n, s) = s
<1>1. Len(s) \in Nat /\ \A k \in 1 .. Len(s) : s[k] \in Piece
  BY Pieces
<1>2. CASE n < Len(s)
  <2>1. Take(n, s) = SubSeq(s, 1, n) /\ Drop(n, s) = SubSeq(s, n + 1, Len(s))
    BY <1>2 DEF Take, Drop
  <2>2. SubSeq(s, 1, n) \in Seq(Piece)
    <3>1. \A k \in 1 .. n : s[k] \in Piece
      BY <1>1, <1>2
    <3> QED
      BY <3>1, SubSeqProperties
  <2>3. SubSeq(s, n + 1, Len(s)) \in Seq(Piece)
    <3>1. \A k \in n + 1 .. Len(s) : s[k] \in Piece
      BY <1>1, <1>2
    <3> QED
      BY <1>1, <3>1, SubSeqProperties
  <2>4. SubSeq(s, 1, n) \o SubSeq(s, n + 1, Len(s)) = SubSeq(s, 1, Len(s))
    <3>1. 1 \in 1 .. Len(s) + 1 /\ n \in 1 - 1 .. Len(s) /\ Len(s) \in n .. Len(s)
      BY <1>1, <1>2
    <3> QED
      BY <3>1, ConcatAdjacentSubSeq
  <2>5. SubSeq(s, 1, Len(s)) = s
    BY SubSeqFull
  <2> QED
    BY <2>1, <2>2, <2>3, <2>4, <2>5
<1>3. CASE ~(n < Len(s))
  <2>1. Take(n, s) = s
    BY <1>3, SubSeqFull DEF Take
  <2>2. Drop(n, s) = <<>>
    <3>1. Len(s) < n + 1
      BY <1>1, <1>3
    <3> QED
      BY <1>1, <3>1, SubSeqEmpty DEF Drop
  <2> QED
    BY <2>1, <2>2, EmptySeq, ConcatEmptySeq
<1> QED
  BY <1>2, <1>3

\* The buffer is filled from the file; what goes to the host is the same.
LEMMA FilledShape ==
    ASSUME Types
    PROVE  /\ Filled \in LoggerState
           /\ Filled.fd = logger.fd /\ Filled.next = logger.next
           /\ Filled.out \o Filled.file = logger.out \o logger.file
<1> DEFINE f == logger.file
           r == Len(f) >= Chunk
<1>1. logger \in LoggerState /\ f \in Seq(Piece) /\ Chunk \in Nat
  BY LoggerAssumption DEF Types, LoggerState
<1>2. Take(Chunk, f) \in Seq(Piece) /\ Drop(Chunk, f) \in Seq(Piece)
      /\ Take(Chunk, f) \o Drop(Chunk, f) = f
  BY <1>1, TakeDrop
<1>3. CASE logger.out = <<>> /\ logger.read
  <2> DEFINE t == Take(Chunk, f)
             d == Drop(Chunk, f)
  <2>1. Filled = [logger EXCEPT !.out = t, !.file = d, !.read = r]
    BY <1>3 DEF Filled
  <2>2. r \in BOOLEAN
    OBVIOUS
  <2>3. <<>> \o f = f
    BY <1>1, ConcatEmptySeq
  <2>4. t \o d = f /\ t \in Seq(Piece) /\ d \in Seq(Piece)
    BY <1>2
  <2> HIDE DEF t, d, r
  <2>5. Filled \in LoggerState
    BY <1>1, <2>1, <2>2, <2>4 DEF LoggerState
  <2>6. /\ Filled.fd = logger.fd /\ Filled.next = logger.next
        /\ Filled.out = t /\ Filled.file = d
    BY <1>1, <2>1 DEF LoggerState
  <2> QED
    BY <1>3, <2>3, <2>4, <2>5, <2>6
<1>4. CASE ~(logger.out = <<>> /\ logger.read)
  BY <1>1, <1>4 DEF Filled
<1> QED
  BY <1>3, <1>4

\* The pipe is read into the file or into nothing.
LEMMA InputShape ==
    ASSUME Types, NEW p \in LoggerState
    PROVE  /\ AfterInput(p) \in LoggerState
           /\ AfterInput(p).fd = p.fd /\ AfterInput(p).out = p.out
           /\ AfterInput(p).next = p.next /\ AfterInput(p).at = p.at
           /\ p.fd = "up" =>
                AfterInput(p).file = IF InputReady THEN p.file \o pipe ELSE p.file
<1>1. pipe \in Seq(Piece) /\ p.file \in Seq(Piece)
  BY WayShape DEF LoggerState
<1>2. CASE ~InputReady
  BY <1>2 DEF AfterInput
<1>3. CASE InputReady /\ pipe = <<>>
  <2>1. AfterInput(p) = [p EXCEPT !.input = FALSE]
    BY <1>3 DEF AfterInput
  <2>2. p.file \o pipe = p.file
    BY <1>1, <1>3, ConcatEmptySeq
  <2> QED
    BY <1>3, <2>1, <2>2 DEF LoggerState
<1>4. CASE InputReady /\ pipe # <<>> /\ p.fd = "up"
  <2> DEFINE f == p.file \o pipe
  <2>1. AfterInput(p) = [p EXCEPT !.file = f, !.read = TRUE]
    BY <1>4 DEF AfterInput
  <2>2. f \in Seq(Piece)
    BY <1>1, ConcatProperties
  <2> HIDE DEF f
  <2>3. AfterInput(p) \in LoggerState
    BY <2>1, <2>2 DEF LoggerState
  <2>4. /\ AfterInput(p).fd = p.fd /\ AfterInput(p).out = p.out
        /\ AfterInput(p).next = p.next /\ AfterInput(p).at = p.at
        /\ AfterInput(p).file = f
    BY <2>1 DEF LoggerState
  <2> QED
    BY <1>4, <2>3, <2>4 DEF f
<1>5. CASE InputReady /\ pipe # <<>> /\ p.fd # "up"
  BY <1>5 DEF AfterInput
<1> QED
  BY <1>2, <1>3, <1>4, <1>5

\* A host with a new connection or none has heard nothing.
LEMMA FreshRemote ==
    ASSUME NEW state \in {"up", "stuck", "down"},
           NEW link \in {"none", "open", "closed", "gone"}
    PROVE  /\ NewRemote(state, link) \in RemoteState
           /\ NewRemote(state, link).link = link
           /\ NewRemote(state, link).line = <<>> /\ NewRemote(state, link).wire = <<>>
           /\ NewRemote(state, link).end = FALSE
<1>1. <<>> \in Seq(Piece) /\ [i \in ItemSet |-> 0] \in [ItemSet -> Nat]
  BY EmptySeq
<1> QED
  BY <1>1 DEF NewRemote, RemoteState

\* A new logger has no connection.
LEMMA FreshLogger ==
    /\ NewLogger \in LoggerState /\ NewLogger.fd = "lost"
    /\ [NewLogger EXCEPT !.at = "dead"] \in LoggerState
    /\ [NewLogger EXCEPT !.at = "dead"].fd = "lost"
<1>1. <<>> \in Seq(Piece)
  BY EmptySeq
<1> QED
  BY <1>1 DEF NewLogger, LoggerState

\* getconnection() keeps its record, and has a connection only by connect().
CallOK == {"at", "result"} \subseteq DOMAIN call
Got == call.at = "done" /\ call.result = "open"

\* What the steps of getconnection() leave of it.
LEMMA CallShape ==
    /\ NoCall.at = "idle" /\ {"at", "result"} \subseteq DOMAIN NoCall
    /\ Open => CallOK' /\ ~Got'
    /\ NotFound => CallOK' /\ ~Got'
    /\ CallOK /\ Bind => CallOK' /\ ~Got'
    /\ CallOK /\ Connected => CallOK'
    /\ \A error \in {"refused", "timedout", "inuse"} :
          CallOK /\ ConnectFails(error) => CallOK' /\ ~Got'
<1>1. NoCall.at = "idle" /\ {"at", "result"} \subseteq DOMAIN NoCall
  BY DEF NoCall
<1>2. ASSUME NEW k, TryAddress(k) PROVE CallOK' /\ ~Got'
  <2>1. PICK p \in StartPorts :
       call' = [at       |-> IF Ports.min = 0 THEN "connect" ELSE "bind",
                address  |-> k, port |-> p, count |-> 0, connects |-> 0,
                source   |-> 0, result |-> "none"]
    BY <1>2 DEF TryAddress
  <2> QED
    BY <2>1 DEF CallOK, Got
<1>3. NotFound => CallOK' /\ ~Got'
  BY DEF NotFound, NoCall, CallOK, Got
<1>4. ASSUME CallOK, Bind PROVE CallOK' /\ ~Got'
  <2> DEFINE p == IF call.port > Ports.max THEN Ports.min ELSE call.port
             n == call.count + 1
  <2>1. \/ call' = [call EXCEPT !.at = "connect", !.port = p + 1, !.source = p]
        \/ call' = [call EXCEPT !.port = p + 1, !.count = n] /\ call.at = "bind"
        \/ call' = [call EXCEPT !.at = "done", !.count = n, !.result = "failed"]
    BY <1>4 DEF Bind
  <2> HIDE DEF p, n
  <2> QED
    BY <1>4, <2>1 DEF CallOK, Got
<1>5. CallOK /\ Connected => CallOK'
  BY DEF Connected, CallOK
<1>6. ASSUME NEW error \in {"refused", "timedout", "inuse"}, CallOK, ConnectFails(error)
      PROVE  CallOK' /\ ~Got'
  <2>1. \/ call' = [call EXCEPT !.at = "bind", !.source = 0, !.connects = @ + 1]
        \/ TryAddress(call.address + 1)
        \/ call' = [call EXCEPT !.at = "done", !.result = error]
    BY <1>6 DEF ConnectFails
  <2>2. CASE call' = [call EXCEPT !.at = "bind", !.source = 0, !.connects = @ + 1]
    BY <1>6, <2>2 DEF CallOK, Got
  <2>3. CASE call' = [call EXCEPT !.at = "done", !.result = error]
    BY <1>6, <2>3 DEF CallOK, Got
  <2> QED
    BY <1>2, <2>1, <2>2, <2>3
<1> QED
  BY <1>1, <1>2, <1>3, <1>4, <1>5, <1>6 DEF Open

\* Every step keeps the types.
LEMMA TypesStep ==
    ASSUME Types, [Next]_vars
    PROVE  Types'
<1>0. /\ logger \in LoggerState /\ remote \in RemoteState /\ pipe \in Seq(Piece)
      /\ queue \in [ItemSet -> Nat \ {0}] /\ pending \in [ItemSet -> SUBSET (Nat \ {0})]
      /\ said \in [ItemSet -> Nat \ {0}] /\ CallOK /\ torn \in BOOLEAN
  BY DEF Types, CallOK
<1>1. CASE UNCHANGED vars
  BY <1>0, <1>1 DEF vars, Types, CallOK
<1>2. ASSUME NEW i \in ItemSet, Change(i) PROVE Types'
  <2>1. /\ queue' = [queue EXCEPT ![i] = @ + 1]
        /\ pending' = [pending EXCEPT ![i] = @ \cup {queue[i] + 1}]
        /\ UNCHANGED <<call, said, pipe, logger, remote, torn>>
    BY <1>2 DEF Change
  <2>2. queue[i] + 1 \in Nat \ {0} /\ queue[i] \in Nat
    BY <1>0
  <2>3. queue' \in [ItemSet -> Nat \ {0}] /\ pending' \in [ItemSet -> SUBSET (Nat \ {0})]
    BY <1>0, <2>1, <2>2
  <2> QED
    BY <1>0, <2>1, <2>3 DEF Types, CallOK
<1>3. ASSUME NEW i \in ItemSet, Log(i) PROVE Types'
  <2>1. PICK v \in pending[i] : /\ pipe' = pipe \o Line(i, v)
                                /\ pending' = [pending EXCEPT ![i] = @ \ {v}]
                                /\ said' = [said EXCEPT ![i] = v]
    BY <1>3 DEF Log
  <2>2. v \in Nat \ {0}
    BY <1>0
  <2>3. Line(i, v) \in Seq(Piece)
    BY <2>2, LineShape
  <2>4. pipe' \in Seq(Piece)
    BY <1>0, <2>1, <2>3, ConcatProperties
  <2>5. pending' \in [ItemSet -> SUBSET (Nat \ {0})] /\ said' \in [ItemSet -> Nat \ {0}]
    BY <1>0, <2>1, <2>2
  <2> QED
    BY <1>0, <1>3, <2>4, <2>5 DEF Log, Types, CallOK
<1>4. CASE Hangup
  BY <1>0, <1>4 DEF Hangup, Types, CallOK
<1>5. CASE Restart
  BY <1>0, <1>5, FreshLogger DEF Restart, Types, CallOK, daemon
<1>6. CASE Tick
  <2>1. logger' \in LoggerState
    BY <1>0, <1>6 DEF Tick, LoggerState
  <2> QED
    BY <1>0, <1>6, <2>1 DEF Tick, Types, CallOK, daemon
<1>7. CASE Kill
  <2>1. remote' \in RemoteState
    BY <1>0, <1>7 DEF Kill, RemoteState
  <2>2. call' = NoCall /\ logger' = [NewLogger EXCEPT !.at = "dead"]
        /\ UNCHANGED <<queue, pending, said, pipe, torn>>
    BY <1>7 DEF Kill, daemon
  <2> QED
    BY <1>0, <2>1, <2>2, FreshLogger, CallShape DEF Types, CallOK
<1>8. CASE Top \/ HostUnknown
  <2>1. Filled \in LoggerState
    BY FilledShape
  <2>2. \/ logger' = [Filled EXCEPT !.at = "exit"]
        \/ logger' = [Filled EXCEPT !.at = "select"]
        \/ logger' = [Filled EXCEPT !.at = "open"]
    BY <1>8 DEF Top, HostUnknown
  <2>3. logger' \in LoggerState
    BY <2>1, <2>2 DEF LoggerState
  <2>4. call' = call \/ Open \/ NotFound
    BY <1>8 DEF Top, HostUnknown
  <2>5. CallOK'
    BY <1>0, <2>4, CallShape DEF CallOK
  <2> QED
    BY <1>0, <1>8, <2>3, <2>5 DEF Top, HostUnknown, Types, CallOK, daemon
<1>9. CASE LoggerBinds \/ LoggerRefused
  <2>1. Bind \/ \E error \in {"refused", "timedout", "inuse"} : ConnectFails(error)
    BY <1>9 DEF LoggerBinds, LoggerRefused
  <2>2. CallOK'
    BY <1>0, <2>1, CallShape
  <2> QED
    BY <1>0, <1>9, <2>2 DEF LoggerBinds, LoggerRefused, Types, CallOK, daemon
<1>10. CASE LoggerConnects
  <2>1. CallOK'
    BY <1>0, <1>10, CallShape DEF LoggerConnects
  <2>2. remote' \in RemoteState
    <3>1. remote.state \in {"up", "stuck", "down"}
      BY <1>0 DEF RemoteState
    <3> QED
      BY <1>10, <3>1, FreshRemote DEF LoggerConnects
  <2> QED
    BY <1>0, <1>10, <2>1, <2>2 DEF LoggerConnects, Types, CallOK, daemon
<1>11. CASE Opened
  <2> DEFINE d == conf.timeout = 0
  <2>1. \/ logger' = [logger EXCEPT !.at = "dump", !.fd = "up", !.file = <<>>, !.next = 1]
        \/ logger' = [logger EXCEPT !.at = "select", !.fd = "failed", !.due = d]
    BY <1>11 DEF Opened
  <2>2. d \in BOOLEAN /\ <<>> \in Seq(Piece)
    BY EmptySeq
  <2> HIDE DEF d
  <2>3. logger' \in LoggerState
    <3>1. CASE logger' = [logger EXCEPT !.at = "dump", !.fd = "up", !.file = <<>>, !.next = 1]
      BY <1>0, <2>2, <3>1 DEF LoggerState
    <3>2. CASE logger' = [logger EXCEPT !.at = "select", !.fd = "failed", !.due = d]
      BY <1>0, <2>2, <3>2 DEF LoggerState
    <3> QED
      BY <2>1, <3>1, <3>2
  <2>4. torn' \in BOOLEAN /\ call' = NoCall
        /\ UNCHANGED <<queue, pending, said, pipe, remote>>
    BY <1>11 DEF Opened, daemon
  <2> QED
    BY <1>0, <2>3, <2>4, CallShape DEF Types, CallOK
<1>12. CASE Dump
  <2> DEFINE f == IF logger.next \in ItemSet
                  THEN logger.file \o Line(logger.next, queue[logger.next])
                  ELSE Append(logger.file, <<End, 0, 2>>)
             n == logger.next + 1
  <2>1. \/ logger' = [logger EXCEPT !.file = f, !.next = n]
        \/ logger' = [logger EXCEPT !.file = f, !.read = TRUE, !.at = "top"]
    BY <1>0, <1>12 DEF Dump, LoggerState
  <2>2. f \in Seq(Piece) /\ n \in Nat
    <3>1. logger.file \in Seq(Piece) /\ logger.next \in Nat
      BY <1>0 DEF LoggerState
    <3>2. <<End, 0, 2>> \in Piece
      BY DEF Piece
    <3>3. logger.next \in ItemSet => Line(logger.next, queue[logger.next]) \in Seq(Piece)
      BY <1>0, LineShape
    <3> QED
      BY <3>1, <3>2, <3>3, ConcatProperties, AppendProperties
  <2> HIDE DEF f, n
  <2>3. logger' \in LoggerState
    BY <1>0, <2>1, <2>2 DEF LoggerState
  <2> QED
    BY <1>0, <1>12, <2>3 DEF Dump, Types, CallOK, daemon
<1>13. CASE SelectFindsEnd \/ WriteFails \/ SelectFindsWork
  <2>1. pipe' \in Seq(Piece)
    BY <1>0, <1>13, EmptySeq DEF SelectFindsEnd, WriteFails, SelectFindsWork
  <2>2. UNCHANGED <<queue, pending, said, call, torn>>
    BY <1>13 DEF SelectFindsEnd, WriteFails, SelectFindsWork
  <2>3. CASE SelectFindsEnd
    <3> DEFINE p == [logger EXCEPT !.out = <<>>, !.fd = "lost", !.at = "top"]
    <3>1. p \in LoggerState
      BY <1>0, EmptySeq DEF LoggerState
    <3>2. logger' = AfterInput(p) /\ remote' = remote
      BY <2>3 DEF SelectFindsEnd
    <3> HIDE DEF p
    <3> QED
      BY <1>0, <2>1, <2>2, <3>1, <3>2, InputShape DEF Types, CallOK
  <2>4. CASE WriteFails
    <3> DEFINE a == AfterInput(logger)
    <3>1. a \in LoggerState
      BY <1>0, InputShape
    <3>2. logger' = [a EXCEPT !.fd = "lost", !.at = "top"] /\ remote' = remote
      BY <2>4 DEF WriteFails
    <3> HIDE DEF a
    <3>3. logger' \in LoggerState
      BY <3>1, <3>2 DEF LoggerState
    <3> QED
      BY <1>0, <2>1, <2>2, <3>2, <3>3 DEF Types, CallOK
  <2>5. CASE SelectFindsWork
    <3> DEFINE a == AfterInput(logger)
    <3>1. a \in LoggerState
      BY <1>0, InputShape
    <3>2. PICK n \in IF CanWrite THEN 1 .. Room ELSE {0} :
             /\ logger' = [a EXCEPT !.out = Drop(n, @), !.at = "top"]
             /\ remote' = [remote EXCEPT !.wire = @ \o Take(n, logger.out)]
      BY <2>5 DEF SelectFindsWork
    <3>3. n \in Nat
      OBVIOUS
    <3> HIDE DEF a
    <3>4. a.out \in Seq(Piece) /\ logger.out \in Seq(Piece) /\ remote.wire \in Seq(Piece)
      BY <1>0, <3>1 DEF LoggerState, RemoteState
    <3> DEFINE d == Drop(n, a.out)
               w == remote.wire \o Take(n, logger.out)
    <3>5. d \in Seq(Piece) /\ w \in Seq(Piece)
      BY <3>3, <3>4, TakeDrop, ConcatProperties
    <3>6. logger' = [a EXCEPT !.out = d, !.at = "top"] /\ remote' = [remote EXCEPT !.wire = w]
      BY <1>0, <3>1, <3>2 DEF LoggerState, RemoteState
    <3> HIDE DEF d, w
    <3>7. logger' \in LoggerState /\ remote' \in RemoteState
      BY <1>0, <3>1, <3>5, <3>6 DEF LoggerState, RemoteState
    <3> QED
      BY <1>0, <2>1, <2>2, <3>7 DEF Types, CallOK
  <2> QED
    BY <1>13, <2>3, <2>4, <2>5
<1>14. CASE Receive
  <2> DEFINE piece == Head(remote.wire)
             line == Append(remote.line, piece)
             k == [i \in ItemSet |-> IF line = Line(i, piece[2]) THEN piece[2]
                                                                ELSE remote.known[i]]
             w == Tail(remote.wire)
             e == remote.end \/ line = << <<End, 0, 2>> >>
  <2>1. \/ remote' = [remote EXCEPT !.wire = w, !.line = line]
        \/ remote' = [remote EXCEPT !.wire = w, !.line = <<>>, !.end = e, !.known = k]
    BY <1>0, <1>14 DEF Receive, RemoteState
  <2>2. remote.wire \in Seq(Piece) /\ remote.wire # <<>> /\ remote.line \in Seq(Piece)
        /\ remote.known \in [ItemSet -> Nat] /\ remote.end \in BOOLEAN
    BY <1>0, <1>14 DEF Receive, RemoteState
  <2>3. piece \in Piece /\ w \in Seq(Piece)
    BY <2>2, HeadTailProperties
  <2>4. piece[2] \in Nat
    BY <2>3 DEF Piece
  <2>5. line \in Seq(Piece)
    BY <2>2, <2>3, AppendProperties
  <2> HIDE DEF piece, line, w
  <2>6. k \in [ItemSet -> Nat]
    BY <2>2, <2>4
  <2>7. e \in BOOLEAN
    BY <2>2
  <2> HIDE DEF k, e
  <2>8. remote' \in RemoteState
    <3>1. CASE remote' = [remote EXCEPT !.wire = w, !.line = line]
      BY <1>0, <2>3, <2>5, <3>1 DEF RemoteState
    <3>2. <<>> \in Seq(Piece)
      BY EmptySeq
    <3>3. CASE remote' = [remote EXCEPT !.wire = w, !.line = <<>>, !.end = e, !.known = k]
      BY <1>0, <2>3, <2>6, <2>7, <3>2, <3>3 DEF RemoteState
    <3> QED
      BY <2>1, <3>1, <3>3
  <2> QED
    BY <1>0, <1>14, <2>8 DEF Receive, Types, CallOK, daemon
<1>15. CASE RemoteFault \/ RemoteReturns
  <2>1. remote' \in RemoteState
    <3>0. remote.state \in {"up", "stuck", "down"}
          /\ remote.link \in {"none", "open", "closed", "gone"}
      BY <1>0 DEF RemoteState
    <3>1. \/ remote' = NewRemote(remote.state, "closed")
          \/ \E l \in {"none", "open", "closed", "gone"} : remote' = NewRemote("down", l)
          \/ \E t \in {"up", "stuck", "down"} : remote' = [remote EXCEPT !.state = t]
      BY <1>15, <3>0 DEF RemoteFault, RemoteReturns
    <3>2. \A t \in {"up", "stuck", "down"} : [remote EXCEPT !.state = t] \in RemoteState
      BY <1>0 DEF RemoteState
    <3> QED
      BY <3>0, <3>1, <3>2, FreshRemote
  <2> QED
    BY <1>0, <1>15, <2>1 DEF RemoteFault, RemoteReturns, Types, CallOK, daemon
<1> QED
  BY <1>1, <1>2, <1>3, <1>4, <1>5, <1>6, <1>7, <1>8, <1>9, <1>10, <1>11, <1>12,
     <1>13, <1>14, <1>15 DEF Next, LoggerSteps

\* The first state has the types.
LEMMA TypesInit == Init => Types
<1> SUFFICES ASSUME Init PROVE Types
  OBVIOUS
<1>1. remote \in RemoteState /\ logger \in LoggerState
  BY FreshRemote, FreshLogger DEF Init
<1>2. <<>> \in Seq(Piece) /\ {"at", "result"} \subseteq DOMAIN call
  BY EmptySeq, CallShape DEF Init
<1>3. /\ queue \in [ItemSet -> Nat \ {0}] /\ pending \in [ItemSet -> SUBSET (Nat \ {0})]
      /\ said \in [ItemSet -> Nat \ {0}]
  BY DEF Init
<1>4. pipe = <<>> /\ torn = FALSE
  BY DEF Init
<1> QED
  BY <1>1, <1>2, <1>3, <1>4 DEF Types

-----------------------------------------------------------------------------
(* The connection that is being opened, and the pipe.                       *)

\* A connection carries nothing before the logger has it.
LEMMA OpenStep ==
    ASSUME Types, OpenInv, [Next]_vars
    PROVE  OpenInv'
<1>0. /\ logger \in LoggerState /\ remote \in RemoteState /\ CallOK
  BY DEF Types, CallOK
<1> SUFFICES ASSUME logger'.at = "open"
             PROVE  /\ logger'.fd # "up"
                    /\ Got' /\ remote'.link = "open" =>
                          remote'.line = <<>> /\ remote'.wire = <<>>
  BY DEF OpenInv, Got
<1> DEFINE Empty == remote.line = <<>> /\ remote.wire = <<>>
<1>1. logger.at = "open" =>
        logger.fd # "up" /\ (Got /\ remote.link = "open" => Empty)
  BY DEF OpenInv, Got
<1>2. CASE UNCHANGED vars
  BY <1>1, <1>2 DEF vars, Got
<1>3. ASSUME NEW i \in ItemSet, Change(i) \/ Log(i)
      PROVE  UNCHANGED <<call, logger, remote>>
  <2>1. CASE Change(i)
    BY <2>1 DEF Change
  <2>2. CASE Log(i)
    BY <2>2 DEF Log
  <2> QED
    BY <1>3, <2>1, <2>2
<1>4. CASE Hangup \/ \E i \in ItemSet : Change(i) \/ Log(i)
  <2>1. UNCHANGED <<call, logger, remote>>
    BY <1>3, <1>4 DEF Hangup
  <2> QED
    BY <1>1, <2>1 DEF Got
<1>5. ~(Restart \/ Kill \/ Tick)
  <2>1. NewLogger.at # "open" /\ [NewLogger EXCEPT !.at = "dead"].at # "open"
    BY FreshLogger DEF NewLogger
  <2> QED
    BY <1>0, <2>1 DEF Restart, Kill, Tick, LoggerState
<1>6. CASE Top \/ HostUnknown
  <2>1. Filled \in LoggerState /\ Filled.fd = logger.fd
    BY FilledShape
  <2>2. \/ logger' = [Filled EXCEPT !.at = "exit"]
        \/ logger' = [Filled EXCEPT !.at = "select"]
        \/ /\ logger' = [Filled EXCEPT !.at = "open"]
           /\ Filled.fd # "up" /\ (Open \/ NotFound)
    <3>1. "lost" # "up" /\ "failed" # "up"
      OBVIOUS
    <3> QED
      BY <1>6, <3>1 DEF Top, HostUnknown
  <2>3. /\ logger' = [Filled EXCEPT !.at = "open"]
        /\ Filled.fd # "up" /\ (Open \/ NotFound)
    BY <2>1, <2>2 DEF LoggerState
  <2> QED
    BY <2>1, <2>3, CallShape DEF LoggerState
<1>7. CASE LoggerBinds \/ LoggerRefused
  <2>1. Bind \/ \E error \in {"refused", "timedout", "inuse"} : ConnectFails(error)
    BY <1>7 DEF LoggerBinds, LoggerRefused
  <2>2. ~Got'
    BY <1>0, <2>1, CallShape
  <2> QED
    BY <1>1, <1>7, <2>2 DEF LoggerBinds, LoggerRefused
<1>8. CASE LoggerConnects
  <2>1. remote.state \in {"up", "stuck", "down"}
    BY <1>0 DEF RemoteState
  <2> QED
    BY <1>1, <1>8, <2>1, FreshRemote DEF LoggerConnects
<1>9. ~Opened
  BY <1>0 DEF Opened, LoggerState
<1>10. ~Dump
  BY <1>0 DEF Dump, LoggerState
<1>11. ~(SelectFindsEnd \/ WriteFails \/ SelectFindsWork)
  <2>1. ASSUME SelectFindsEnd PROVE FALSE
    <3> DEFINE p == [logger EXCEPT !.out = <<>>, !.fd = "lost", !.at = "top"]
    <3>1. p \in LoggerState /\ p.at = "top"
      BY <1>0, EmptySeq DEF LoggerState
    <3>2. logger' = AfterInput(p)
      BY <2>1 DEF SelectFindsEnd
    <3> HIDE DEF p
    <3> QED
      BY <3>1, <3>2, InputShape
  <2>2. ASSUME WriteFails \/ SelectFindsWork PROVE FALSE
    <3> DEFINE a == AfterInput(logger)
    <3>1. a \in LoggerState
      BY <1>0, InputShape
    <3>2. \/ logger' = [a EXCEPT !.fd = "lost", !.at = "top"]
          \/ \E n : logger' = [a EXCEPT !.out = Drop(n, @), !.at = "top"]
      BY <2>2 DEF WriteFails, SelectFindsWork
    <3> HIDE DEF a
    <3> QED
      BY <3>1, <3>2 DEF LoggerState
  <2> QED
    BY <2>1, <2>2
<1>12. CASE Receive
  <2>1. /\ remote.wire # <<>> /\ UNCHANGED <<call, logger>> /\ remote'.link = remote.link
    BY <1>0, <1>12 DEF Receive, RemoteState
  <2> QED
    BY <1>1, <2>1 DEF Got
<1>13. CASE RemoteFault
  <2>0. remote.state \in {"up", "stuck", "down"}
        /\ remote.link \in {"none", "open", "closed", "gone"}
    BY <1>0 DEF RemoteState
  <2>1. UNCHANGED <<call, logger>>
    BY <1>13 DEF RemoteFault
  <2>2. \/ remote' = NewRemote(remote.state, "closed")
        \/ remote' = NewRemote("down", IF remote.link = "open" THEN "closed" ELSE remote.link)
        \/ remote' = [remote EXCEPT !.state = "stuck"]
    BY <1>13 DEF RemoteFault
  <2>3. CASE remote' = [remote EXCEPT !.state = "stuck"]
    BY <1>0, <1>1, <2>1, <2>3 DEF Got, RemoteState
  <2>4. CASE \/ remote' = NewRemote(remote.state, "closed")
             \/ remote' = NewRemote("down", IF remote.link = "open" THEN "closed" ELSE remote.link)
    BY <1>1, <2>0, <2>1, <2>4, FreshRemote
  <2> QED
    BY <2>2, <2>3, <2>4
<1>14. CASE RemoteReturns
  <2>1. UNCHANGED <<call, logger>> /\ remote' = [remote EXCEPT !.state = "up"]
    BY <1>14 DEF RemoteReturns
  <2> QED
    BY <1>0, <1>1, <2>1 DEF Got, RemoteState
<1> QED
  BY <1>2, <1>4, <1>5, <1>6, <1>7, <1>8, <1>9, <1>10, <1>11, <1>12, <1>13, <1>14
  DEF Next, LoggerSteps

\* The daemon's side of a step.
LEMMA DaemonSide ==
    ASSUME [Next]_vars
    PROVE  \/ \E i \in ItemSet : Change(i) \/ Log(i)
           \/ UNCHANGED <<queue, pending, said>> /\ pipe' \in {pipe, <<>>}
<1>1. CASE UNCHANGED vars
  BY <1>1 DEF vars
<1>2. CASE Hangup \/ Restart \/ Tick \/ Kill
  BY <1>2 DEF Hangup, Restart, Tick, Kill, daemon
<1>3. CASE Top \/ HostUnknown \/ LoggerBinds \/ LoggerConnects \/ LoggerRefused
  BY <1>3 DEF Top, HostUnknown, LoggerBinds, LoggerConnects, LoggerRefused, daemon
<1>4. CASE Opened \/ Dump
  BY <1>4 DEF Opened, Dump, daemon
<1>5. CASE SelectFindsEnd \/ WriteFails \/ SelectFindsWork
  BY <1>5 DEF SelectFindsEnd, WriteFails, SelectFindsWork
<1>6. CASE Receive \/ RemoteFault \/ RemoteReturns
  BY <1>6 DEF Receive, RemoteFault, RemoteReturns, daemon
<1> QED
  BY <1>1, <1>2, <1>3, <1>4, <1>5, <1>6 DEF Next, LoggerSteps

\* The pipe ends with what was logged last.
LEMMA PipeStep ==
    ASSUME Types, PipeInv, [Next]_vars
    PROVE  PipeInv'
<1>0. /\ pending \in [ItemSet -> SUBSET (Nat \ {0})] /\ said \in [ItemSet -> Nat \ {0}]
      /\ pipe \in Seq(Piece) /\ Len(pipe) \in Nat
  BY LenProperties DEF Types
<1>1. CASE UNCHANGED <<queue, pending, said>> /\ pipe' = pipe
  BY <1>1 DEF PipeInv, Lines, Complete, Silent, Final
<1>2. CASE UNCHANGED <<queue, pending, said>> /\ pipe' = <<>>
  <2>1. Len(pipe') = 0
    BY <1>2
  <2>2. Lines(pipe') /\ Complete(pipe') /\ \A i : Silent(pipe', i)
    BY <2>1 DEF Lines, Complete, Silent
  <2> QED
    BY <1>2, <2>2 DEF PipeInv
<1>3. ASSUME NEW i \in ItemSet, Change(i) PROVE PipeInv'
  BY <1>3 DEF Change, PipeInv
<1>4. ASSUME NEW i \in ItemSet, Log(i) PROVE PipeInv'
  <2>1. PICK v \in pending[i] : pipe' = pipe \o Line(i, v) /\ said' = [said EXCEPT ![i] = v]
    BY <1>4 DEF Log
  <2> DEFINE l == Line(i, v)
  <2>2. v \in Nat \ {0} /\ pipe' = pipe \o l
    BY <1>0, <2>1
  <2>3. /\ l \in Seq(Piece) /\ Lines(l) /\ Complete(l) /\ Silent(l, End)
        /\ Final(l, i, v) /\ \A j \in ItemSet \ {i} : Silent(l, j)
    BY <2>2, LineShape
  <2> HIDE DEF l
  <2>4. Lines(pipe \o l) /\ Complete(pipe \o l) /\ Silent(pipe \o l, End)
    BY <1>0, <2>3, LinesJoin, CompleteJoin, SilentJoin DEF PipeInv
  <2>5. Final(pipe \o l, i, v) /\ said'[i] = v
    BY <1>0, <2>1, <2>3, FinalJoin
  <2>6. ASSUME NEW j \in ItemSet, j # i
        PROVE  Silent(pipe \o l, j) \/ Final(pipe \o l, j, said'[j])
    <3>1. said'[j] = said[j] /\ Silent(l, j)
      BY <1>0, <2>1, <2>3, <2>6
    <3>2. Silent(pipe, j) \/ Final(pipe, j, said[j])
      BY DEF PipeInv
    <3> QED
      BY <1>0, <2>3, <3>1, <3>2, SilentJoin, FinalJoin
  <2> QED
    BY <2>2, <2>4, <2>5, <2>6 DEF PipeInv
<1> QED
  BY <1>1, <1>2, <1>3, <1>4, DaemonSide

\* A locked item has at most one change that is not logged, its last.
LEMMA LockStep ==
    ASSUME Types, LockInv, [Next]_vars
    PROVE  LockInv'
<1>0. /\ queue \in [ItemSet -> Nat \ {0}] /\ pending \in [ItemSet -> SUBSET (Nat \ {0})]
      /\ said \in [ItemSet -> Nat \ {0}]
  BY DEF Types
<1>1. CASE UNCHANGED <<queue, pending, said>>
  BY <1>1 DEF LockInv
<1>2. ASSUME NEW i \in ItemSet, Change(i) PROVE LockInv'
  <2>1. /\ queue' = [queue EXCEPT ![i] = @ + 1] /\ said' = said
        /\ pending' = [pending EXCEPT ![i] = @ \cup {queue[i] + 1}]
        /\ i \in Locked => pending[i] = {}
    BY <1>2 DEF Change
  <2>2. i \in Locked => pending'[i] = {queue'[i]}
    BY <1>0, <2>1
  <2>3. \A j \in ItemSet : j # i => queue'[j] = queue[j] /\ pending'[j] = pending[j]
    BY <1>0, <2>1
  <2> QED
    BY <2>1, <2>2, <2>3, LoggerAssumption DEF LockInv, ItemSet
<1>3. ASSUME NEW i \in ItemSet, Log(i) PROVE LockInv'
  <2>1. PICK v \in pending[i] : /\ pending' = [pending EXCEPT ![i] = @ \ {v}]
                                /\ said' = [said EXCEPT ![i] = v] /\ queue' = queue
    BY <1>3 DEF Log
  <2>2. i \in Locked => pending'[i] = {} /\ said'[i] = queue[i]
    BY <1>0, <2>1 DEF LockInv
  <2>3. \A j \in ItemSet : j # i => said'[j] = said[j] /\ pending'[j] = pending[j]
    BY <1>0, <2>1
  <2> QED
    BY <2>1, <2>2, <2>3, LoggerAssumption DEF LockInv, ItemSet
<1> QED
  BY <1>1, <1>2, <1>3, DaemonSide

-----------------------------------------------------------------------------
(* The way to the host.                                                     *)

\* Nothing moves.
LEMMA Still ==
    ASSUME LinkInv, UNCHANGED <<queue, pending, said, pipe>>, Way' = Way, LineOK',
           remote'.known = remote.known, remote'.end = remote.end, Joined' => Joined,
           Joined' => /\ logger'.next = logger.next
                      /\ logger'.at = "dump" <=> logger.at = "dump"
    PROVE  LinkInv'
<1>1. WayInv'
  BY DEF LinkInv, WayInv
<1>2. DumpInv'
  BY DEF LinkInv, DumpInv, Listed
<1>3. HeardInv'
  BY DEF LinkInv, HeardInv, Knows, Tells
<1> QED
  BY <1>1, <1>2, <1>3 DEF LinkInv

\* The connection is gone, and what the logger had for it.
LEMMA Cut ==
    ASSUME Types, LinkInv, ~Joined', remote'.line = remote.line,
           remote'.wire = remote.wire, remote'.known = remote.known,
           remote'.end = remote.end
    PROVE  LinkInv'
<1> DEFINE a == remote.line \o remote.wire
<1>1. PICK b \in Seq(Piece) : Way = a \o b
  <2>1. a \in Seq(Piece) /\ (~Joined => Way = a) /\ logger.out \o logger.file \in Seq(Piece)
        /\ (Joined => Way = a \o (logger.out \o logger.file))
    BY WayShape
  <2>2. a \o <<>> = a
    BY <2>1, ConcatEmptySeq
  <2> QED
    BY <2>1, <2>2, EmptySeq
<1>2. a \in Seq(Piece)
  BY WayShape
<1>3. Way' = a
  <2>1. Way' = (remote'.line \o remote'.wire) \o <<>>
    BY DEF Way
  <2> QED
    BY <1>2, <2>1, ConcatEmptySeq
<1> HIDE DEF a
<1>4. Lines(a) /\ Ended(a, remote.known)
  BY <1>1, <1>2, LinesSplit, EndedPrefix DEF LinkInv, WayInv
<1>5. WayInv'
  BY <1>3, <1>4 DEF LinkInv, WayInv, LineOK
<1> QED
  BY <1>5 DEF LinkInv, DumpInv, HeardInv

\* The empty sequence.
LEMMA Nothing ==
    Lines(<<>>) /\ Complete(<<>>) /\ (\A i : Silent(<<>>, i)) /\ \A known : Ended(<<>>, known)
<1>1. Len(<<>>) = 0
  BY EmptySeq
<1> QED
  BY <1>1 DEF Lines, Complete, Silent, Ended

\* The host begins anew.
LEMMA Fresh ==
    ASSUME ~Joined', remote'.line = <<>>, remote'.wire = <<>>, remote'.end = FALSE
    PROVE  LinkInv'
<1>1. Way' = (<<>> \o <<>>) \o <<>>
  BY DEF Way
<1>2. <<>> \in Seq(Piece)
  BY EmptySeq
<1>3. Way' = <<>>
  BY <1>1, <1>2, ConcatEmptySeq
<1>4. WayInv'
  BY <1>3, Nothing DEF WayInv, LineOK
<1> QED
  BY <1>4 DEF LinkInv, DumpInv, HeardInv

\* Pieces go into the buffers.
LEMMA SendWay ==
    ASSUME Types, WayInv, Joined, NEW x \in Seq(Piece), Way' = Way \o x, Lines(x),
           Complete(x), Silent(x, End) \/ \A i \in ItemSet : Listed(i),
           remote'.line = remote.line, remote'.known = remote.known,
           remote'.end = remote.end
    PROVE  WayInv'
<1>1. Way \in Seq(Piece)
  BY WayShape
<1>2. Lines(Way) /\ Complete(Way) /\ Ended(Way, remote.known)
  BY DEF WayInv
<1>3. Lines(Way \o x) /\ Complete(Way \o x)
  BY <1>1, <1>2, LinesJoin, CompleteJoin
<1>4. Ended(Way \o x, remote.known)
  BY <1>1, <1>2, EndedJoin DEF Listed
<1> QED
  BY <1>3, <1>4 DEF WayInv, LineOK

\* The same after the host has read the first pieces.
LEMMA HearEnded ==
    ASSUME NEW a \in Seq(Piece), NEW b \in Seq(Piece), Ended(a \o b, remote.known),
           \A i \in ItemSet : remote.known[i] # 0 \/ ~Silent(a, i) => remote'.known[i] # 0
    PROVE  Ended(b, remote'.known)
<1> DEFINE knows == remote'.known
<1>1. \A i \in ItemSet : remote.known[i] # 0 \/ ~Silent(a, i) => knows[i] # 0
  OBVIOUS
<1> HIDE DEF knows
<1>2. Ended(b, knows)
  BY <1>1, EndedRest
<1> QED
  BY <1>2 DEF knows

\* Pieces of whole lines leave it.
LEMMA Hear ==
    ASSUME LinkInv, NEW a \in Seq(Piece), NEW b \in Seq(Piece), Way = a \o b,
           Way' = b, Complete(a), remote'.line = <<>>, Joined' <=> Joined,
           UNCHANGED <<queue, pending, said, pipe, logger>>,
           \A i \in ItemSet : Silent(a, i) => remote'.known[i] = remote.known[i],
           \A i \in ItemSet : ~Silent(a, i) => remote'.known[i] # 0,
           \A i \in ItemSet : \A v : Final(a, i, v) => remote'.known[i] = v,
           remote'.end => \A i \in ItemSet : remote'.known[i] # 0
    PROVE  LinkInv'
<1>1. Lines(a \o b) /\ (Joined => Complete(a \o b)) /\ Ended(a \o b, remote.known)
  BY DEF LinkInv, WayInv
<1>2. Lines(b) /\ (Joined => Complete(b))
  BY <1>1, LinesSplit, CompleteSplit
<1>3. \A i \in ItemSet : remote.known[i] # 0 \/ ~Silent(a, i) => remote'.known[i] # 0
  OBVIOUS
<1>4. Ended(b, remote'.known)
  BY <1>1, <1>3, HearEnded
<1>5. WayInv'
  BY <1>2, <1>4 DEF WayInv, LineOK
<1>6. ASSUME NEW i \in ItemSet, Listed(i) PROVE remote'.known[i] # 0 \/ ~Silent(b, i)
  BY <1>3, <1>6, SilentJoin DEF Listed
<1>7. DumpInv'
  BY <1>6 DEF LinkInv, DumpInv, Listed
<1>8. ASSUME NEW i \in ItemSet, NEW v, Tells(Way, remote.known, i, v)
      PROVE  Tells(b, remote'.known, i, v)
  BY <1>8, SilentJoin, FinalJoin DEF Tells
<1>9. HeardInv'
  BY <1>8 DEF LinkInv, HeardInv, Knows
<1> QED
  BY <1>5, <1>7, <1>9 DEF LinkInv
\* Way' where the buffers only pass pieces on.
LEMMA SameWay ==
    ASSUME Types, remote'.line = remote.line, remote'.wire = remote.wire,
           Joined' <=> Joined,
           Joined => logger'.out \o logger'.file = logger.out \o logger.file
    PROVE  Way' = Way
BY DEF Way

\* The servers.
LEMMA ChangeLink ==
    ASSUME LinkInv, Types, NEW i \in ItemSet, Change(i)
    PROVE  LinkInv'
<1>1. /\ queue' = [queue EXCEPT ![i] = @ + 1]
      /\ pending' = [pending EXCEPT ![i] = @ \cup {queue[i] + 1}]
      /\ UNCHANGED <<said, pipe, logger, remote>>
  BY DEF Change
<1>2. Way' = Way /\ (Joined' <=> Joined)
  BY <1>1 DEF Way, Joined
<1>3. WayInv' /\ DumpInv'
  BY <1>1, <1>2 DEF LinkInv, WayInv, DumpInv, Listed, LineOK
<1>4. pending'[i] # {}
  BY <1>1 DEF Types
<1>5. \A j \in ItemSet : j # i => queue'[j] = queue[j] /\ pending'[j] = pending[j]
  BY <1>1 DEF Types
<1>6. HeardInv'
  BY <1>1, <1>2, <1>4, <1>5 DEF LinkInv, HeardInv, Knows, Tells
<1> QED
  BY <1>3, <1>6 DEF LinkInv

LEMMA LogLink ==
    ASSUME LinkInv, Types, NEW i \in ItemSet, Log(i)
    PROVE  LinkInv'
<1>0. /\ pending \in [ItemSet -> SUBSET (Nat \ {0})] /\ said \in [ItemSet -> Nat \ {0}]
      /\ pipe \in Seq(Piece)
  BY DEF Types
<1>1. PICK v \in pending[i] : /\ pipe' = pipe \o Line(i, v)
                              /\ pending' = [pending EXCEPT ![i] = @ \ {v}]
                              /\ said' = [said EXCEPT ![i] = v]
                              /\ UNCHANGED <<queue, logger, remote>>
  BY DEF Log
<1> DEFINE l == Line(i, v)
<1>2. v \in Nat \ {0} /\ pipe' = pipe \o l
  BY <1>0, <1>1
<1>3. l \in Seq(Piece) /\ Final(l, i, v) /\ \A j \in ItemSet \ {i} : Silent(l, j)
  BY <1>2, LineShape
<1> HIDE DEF l
<1>4. Way' = Way /\ (Joined' <=> Joined)
  BY <1>1 DEF Way, Joined
<1>5. WayInv' /\ DumpInv'
  BY <1>1, <1>4 DEF LinkInv, WayInv, DumpInv, Listed, LineOK
<1>6. Final(pipe \o l, i, v) /\ said'[i] = v
  BY <1>0, <1>1, <1>3, FinalJoin
<1>7. \A j \in ItemSet : j # i => pending'[j] = pending[j] /\ said'[j] = said[j]
  BY <1>0, <1>1
<1>8. ASSUME NEW j \in ItemSet, j # i
      PROVE  /\ Silent(pipe, j) => Silent(pipe \o l, j)
             /\ Final(pipe, j, said[j]) => Final(pipe \o l, j, said[j])
  BY <1>0, <1>3, <1>8, SilentJoin, FinalJoin
<1>9. HeardInv'
  BY <1>1, <1>2, <1>4, <1>6, <1>7, <1>8 DEF LinkInv, HeardInv, Knows, Tells
<1> QED
  BY <1>5, <1>9 DEF LinkInv

\* Steps that leave the connection alone.
LEMMA QuietLink ==
    ASSUME LinkInv, Types, OpenInv,
           UNCHANGED vars \/ Hangup \/ Tick \/ Top \/ HostUnknown \/ LoggerBinds
             \/ LoggerRefused \/ RemoteReturns
    PROVE  LinkInv'
<1>0. logger \in LoggerState /\ remote \in RemoteState
  BY DEF Types
<1>1. /\ UNCHANGED <<queue, pending, said, pipe>>
      /\ remote'.line = remote.line /\ remote'.wire = remote.wire
      /\ remote'.known = remote.known /\ remote'.end = remote.end
      /\ remote'.link = remote.link
  <2>1. CASE UNCHANGED vars \/ Hangup \/ Tick
    BY <2>1 DEF vars, Hangup, Tick, daemon
  <2>2. CASE Top \/ HostUnknown \/ LoggerBinds \/ LoggerRefused
    BY <2>2 DEF Top, HostUnknown, LoggerBinds, LoggerRefused, daemon
  <2>3. CASE RemoteReturns
    BY <1>0, <2>3 DEF RemoteReturns, RemoteState, daemon
  <2> QED
    BY <2>1, <2>2, <2>3
<1>2. /\ logger'.fd = logger.fd /\ logger'.next = logger.next
      /\ logger'.out \o logger'.file = logger.out \o logger.file
      /\ logger'.at = "dump" <=> logger.at = "dump"
  <2>1. CASE logger' = logger
    BY <2>1
  <2>2. CASE Tick
    BY <1>0, <2>2 DEF Tick, LoggerState
  <2>3. CASE Top \/ HostUnknown
    <3>1. Filled \in LoggerState /\ Filled.fd = logger.fd /\ Filled.next = logger.next
          /\ Filled.out \o Filled.file = logger.out \o logger.file
      BY FilledShape
    <3>2. \/ logger' = [Filled EXCEPT !.at = "exit"]
          \/ logger' = [Filled EXCEPT !.at = "select"]
          \/ logger' = [Filled EXCEPT !.at = "open"]
      BY <2>3 DEF Top, HostUnknown
    <3>3. logger.at = "top"
      BY <2>3 DEF Top, HostUnknown
    <3>4. /\ logger'.fd = Filled.fd /\ logger'.next = Filled.next
          /\ logger'.out = Filled.out /\ logger'.file = Filled.file
          /\ logger'.at # "dump"
      BY <3>1, <3>2 DEF LoggerState
    <3> QED
      BY <3>1, <3>3, <3>4
  <2>4. logger' = logger \/ Tick \/ Top \/ HostUnknown
    BY DEF vars, Hangup, LoggerBinds, LoggerRefused, RemoteReturns
  <2> QED
    BY <2>1, <2>2, <2>3, <2>4
<1>3. Joined' <=> Joined
  BY <1>1, <1>2 DEF Joined
<1>4. Way' = Way
  BY <1>1, <1>2, <1>3, SameWay
<1>5. LineOK'
  BY <1>1 DEF LinkInv, WayInv, LineOK
<1> QED
  BY <1>1, <1>2, <1>3, <1>4, <1>5, Still

\* Steps that end it.
LEMMA LostLink ==
    ASSUME LinkInv, Types, Kill \/ Restart \/ SelectFindsEnd \/ WriteFails
    PROVE  LinkInv'
<1>0. logger \in LoggerState /\ remote \in RemoteState
  BY DEF Types
<1>1. /\ remote'.line = remote.line /\ remote'.wire = remote.wire
      /\ remote'.known = remote.known /\ remote'.end = remote.end
  <2>1. CASE Kill
    BY <1>0, <2>1 DEF Kill, RemoteState
  <2>2. CASE Restart \/ SelectFindsEnd \/ WriteFails
    BY <2>2 DEF Restart, SelectFindsEnd, WriteFails
  <2> QED
    BY <2>1, <2>2
<1>2. logger'.fd = "lost"
  <2>1. CASE Kill \/ Restart
    BY <2>1, FreshLogger DEF Kill, Restart
  <2>2. CASE SelectFindsEnd
    <3> DEFINE p == [logger EXCEPT !.out = <<>>, !.fd = "lost", !.at = "top"]
    <3>1. p \in LoggerState /\ p.fd = "lost"
      BY <1>0, EmptySeq DEF LoggerState
    <3>2. logger' = AfterInput(p)
      BY <2>2 DEF SelectFindsEnd
    <3> HIDE DEF p
    <3> QED
      BY <3>1, <3>2, InputShape
  <2>3. CASE WriteFails
    <3> DEFINE a == AfterInput(logger)
    <3>1. a \in LoggerState
      BY <1>0, InputShape
    <3>2. logger' = [a EXCEPT !.fd = "lost", !.at = "top"]
      BY <2>3 DEF WriteFails
    <3> HIDE DEF a
    <3> QED
      BY <3>1, <3>2 DEF LoggerState
  <2> QED
    BY <2>1, <2>2, <2>3
<1>3. ~Joined'
  BY <1>2 DEF Joined
<1> QED
  BY <1>1, <1>3, Cut

\* The host takes a connection, closes one, or ends.
LEMMA RemoteLink ==
    ASSUME LinkInv, Types, OpenInv, LoggerConnects \/ RemoteFault
    PROVE  LinkInv'
<1>0. logger \in LoggerState /\ remote \in RemoteState
  BY DEF Types
<1>1. /\ remote.state \in {"up", "stuck", "down"}
      /\ remote.link \in {"none", "open", "closed", "gone"}
  BY <1>0 DEF RemoteState
<1>2. UNCHANGED <<queue, pending, said, pipe, logger>>
  BY DEF LoggerConnects, RemoteFault, daemon
<1>3. CASE LoggerConnects
  <2>1. ~Joined'
    BY <1>2, <1>3 DEF LoggerConnects, OpenInv, Joined
  <2> QED
    BY <1>1, <1>3, <2>1, FreshRemote, Fresh DEF LoggerConnects
<1>4. CASE \/ remote' = NewRemote(remote.state, "closed")
           \/ remote' = NewRemote("down", IF remote.link = "open" THEN "closed" ELSE remote.link)
  <2>1. PICK l \in {"none", "closed", "gone"} :
           \E t \in {"up", "stuck", "down"} : remote' = NewRemote(t, l)
    BY <1>1, <1>4
  <2>2. remote'.link = l /\ remote'.line = <<>> /\ remote'.wire = <<>> /\ remote'.end = FALSE
    <3>1. PICK t \in {"up", "stuck", "down"} : remote' = NewRemote(t, l)
      BY <2>1
    <3>0. l \in {"none", "open", "closed", "gone"}
      OBVIOUS
    <3>2. /\ NewRemote(t, l).link = l /\ NewRemote(t, l).line = <<>>
          /\ NewRemote(t, l).wire = <<>> /\ NewRemote(t, l).end = FALSE
      BY <3>0, FreshRemote
    <3> QED
      BY <3>1, <3>2
  <2>3. ~Joined'
    BY <2>2 DEF Joined
  <2> QED
    BY <2>2, <2>3, Fresh
<1>5. CASE remote' = [remote EXCEPT !.state = "stuck"]
  <2>1. /\ remote'.line = remote.line /\ remote'.wire = remote.wire
        /\ remote'.known = remote.known /\ remote'.end = remote.end
        /\ remote'.link = remote.link
    BY <1>0, <1>5 DEF RemoteState
  <2>2. (Joined' <=> Joined) /\ LineOK'
    BY <1>2, <2>1 DEF Joined, LinkInv, WayInv, LineOK
  <2>3. Way' = Way
    BY <1>2, <2>1, <2>2, SameWay
  <2> QED
    BY <1>2, <2>1, <2>2, <2>3, Still
<1> QED
  BY <1>3, <1>4, <1>5 DEF RemoteFault
\* A connection is there, or the attempt has failed.
LEMMA OpenedLink ==
    ASSUME LinkInv, Types, OpenInv, Opened, ~torn'
    PROVE  LinkInv'
<1>0. logger \in LoggerState /\ remote' = remote /\ call.at = "done" /\ logger.at = "open"
      /\ UNCHANGED <<queue, pending, said, pipe>>
  BY DEF Types, Opened, daemon
<1>1. CASE ~Joined'
  BY <1>0, <1>1, Cut
<1>2. CASE Joined'
  <2>1. call.result = "open"
    <3> DEFINE d == conf.timeout = 0
    <3>1. ASSUME call.result # "open" PROVE FALSE
      <4>1. logger' = [logger EXCEPT !.at = "select", !.fd = "failed", !.due = d]
        BY <3>1 DEF Opened
      <4> HIDE DEF d
      <4>2. logger'.fd = "failed"
        BY <1>0, <4>1 DEF LoggerState
      <4> QED
        BY <1>2, <4>2 DEF Joined
    <3> QED
      BY <3>1
  <2>2. logger' = [logger EXCEPT !.at = "dump", !.fd = "up", !.file = <<>>, !.next = 1]
    BY <2>1 DEF Opened
  <2>3. /\ logger'.at = "dump" /\ logger'.file = <<>> /\ logger'.next = 1
        /\ logger'.out = logger.out
    BY <1>0, <2>2 DEF LoggerState
  <2>4. logger'.out = <<>>
    BY <2>1, <2>3 DEF Opened
  <2>5. remote.line = <<>> /\ remote.wire = <<>>
    BY <1>0, <1>2, <2>1 DEF OpenInv, Joined
  <2>6. Way' = (<<>> \o <<>>) \o (<<>> \o <<>>)
    BY <1>0, <1>2, <2>3, <2>4, <2>5 DEF Way
  <2>7. <<>> \in Seq(Piece)
    BY EmptySeq
  <2>8. Way' = <<>>
    BY <2>6, <2>7, ConcatEmptySeq
  <2>9. WayInv'
    BY <1>0, <2>8, Nothing DEF LinkInv, WayInv, LineOK
  <2>10. 1 \in 1 .. Items + 1 /\ \A i \in ItemSet : ~(i < 1) /\ i >= 1
    BY LoggerAssumption DEF ItemSet
  <2>11. DumpInv' /\ HeardInv'
    BY <2>3, <2>10 DEF DumpInv, HeardInv
  <2> QED
    BY <2>9, <2>11 DEF LinkInv
<1> QED
  BY <1>1, <1>2

\* The dump tells of one item more, or ends.
LEMMA DumpLink ==
    ASSUME LinkInv, Types, PipeInv, Dump
    PROVE  LinkInv'
<1>0. /\ logger \in LoggerState /\ remote' = remote /\ logger.at = "dump"
      /\ UNCHANGED <<queue, pending, said, pipe>>
      /\ logger.next \in Nat /\ logger.file \in Seq(Piece) /\ logger.out \in Seq(Piece)
      /\ queue \in [ItemSet -> Nat \ {0}]
  BY DEF Types, Dump, daemon, LoggerState
<1>10. PICK k \in Nat : k = logger.next
  BY <1>0
<1> DEFINE x == IF k \in ItemSet THEN Line(k, queue[k]) ELSE << <<End, 0, 2>> >>
           f == logger.file \o x
           n == k + 1
<1>1. x \in Seq(Piece) /\ Lines(x) /\ Complete(x)
  BY <1>0, LineShape, EndShape
<1>2. IF k \in ItemSet
      THEN /\ Final(x, k, queue[k]) /\ Silent(x, End)
           /\ \A j \in ItemSet \ {k} : Silent(x, j)
      ELSE \A j \in ItemSet : Silent(x, j)
  BY <1>0, LineShape, EndShape
<1>3. k \notin ItemSet => Append(logger.file, <<End, 0, 2>>) = f
  <2>1. <<End, 0, 2>> \in Piece
    BY DEF Piece
  <2> QED
    BY <1>0, <2>1, AppendIsConcat
<1>4. IF k \in ItemSet
      THEN logger' = [logger EXCEPT !.file = f, !.next = n]
      ELSE logger' = [logger EXCEPT !.file = f, !.read = TRUE, !.at = "top"]
  BY <1>0, <1>3, <1>10 DEF Dump, LoggerState
<1>9. n = k + 1
  OBVIOUS
<1> HIDE DEF x, f, n
<1>5. /\ logger'.file = f /\ logger'.out = logger.out /\ logger'.fd = logger.fd
      /\ k \in ItemSet => logger'.next = n /\ logger'.at = "dump"
      /\ k \notin ItemSet => logger'.at = "top"
  BY <1>0, <1>4 DEF LoggerState
<1>6. Joined' <=> Joined
  BY <1>0, <1>5 DEF Joined
<1>7. CASE ~Joined
  BY <1>0, <1>6, <1>7, Cut
<1>8. CASE Joined
  <2>1. Way' = Way \o x
    <3> DEFINE a == remote.line \o remote.wire
    <3>1. a \in Seq(Piece) /\ Way = a \o (logger.out \o logger.file)
          /\ logger.out \o logger.file \in Seq(Piece)
      BY <1>8, WayShape
    <3>2. Way' = a \o (logger.out \o f)
      BY <1>0, <1>5, <1>6, <1>8 DEF Way
    <3> HIDE DEF a
    <3>3. \A u, v, w \in Seq(Piece) : (u \o v) \o w = u \o (v \o w)
      BY ConcatAssociative
    <3>4. logger.out \o f = (logger.out \o logger.file) \o x
      BY <1>0, <1>1, <3>3 DEF f
    <3> DEFINE b == logger.out \o logger.file
    <3>5. b \in Seq(Piece) /\ Way = a \o b /\ Way' = a \o (b \o x)
      BY <3>1, <3>2, <3>4
    <3> HIDE DEF b
    <3>6. (a \o b) \o x = a \o (b \o x)
      BY <1>1, <3>1, <3>3, <3>5
    <3> QED
      BY <3>5, <3>6
  <2>2. k \in 1 .. Items + 1 /\ \A i \in ItemSet : i < k => Listed(i)
    BY <1>0, <1>8, <1>10 DEF LinkInv, DumpInv
  <2>3. k \notin ItemSet => \A i \in ItemSet : i < k
    BY <2>2, LoggerAssumption DEF ItemSet
  <2>4. WayInv'
    <3>1. Silent(x, End) \/ \A i \in ItemSet : Listed(i)
      BY <1>2, <2>2, <2>3
    <3> QED
      BY <1>0, <1>1, <1>8, <2>1, <3>1, SendWay DEF LinkInv
  <2>5. Way \in Seq(Piece)
    BY WayShape
  <2>6. ASSUME NEW i \in ItemSet, Listed(i) PROVE Listed(i)'
    <3>1. ~Silent(Way, i) => ~Silent(Way \o x, i)
      BY <1>1, <2>5, SilentJoin
    <3> QED
      BY <1>0, <2>1, <2>6, <3>1 DEF Listed
  <2>7. ASSUME k \in ItemSet PROVE Listed(k)'
    <3>1. ~Silent(x, k)
      BY <1>2, <2>7 DEF Final, Silent
    <3>2. ~Silent(Way \o x, k)
      BY <1>1, <2>5, <2>7, <3>1, SilentJoin
    <3> QED
      BY <2>1, <3>2 DEF Listed
  <2>8. DumpInv'
    <3>1. CASE k \notin ItemSet
      BY <1>5, <3>1 DEF DumpInv
    <3>2. CASE k \in ItemSet
      <4>1. n \in 1 .. Items + 1 /\ \A i \in ItemSet : i < n => i < k \/ i = k
        BY <1>9, <3>2, LoggerAssumption DEF ItemSet
      <4>2. \A i \in ItemSet : i < n => Listed(i)'
        BY <2>2, <2>6, <2>7, <4>1
      <4> QED
        BY <1>5, <3>2, <4>1, <4>2 DEF DumpInv
    <3> QED
      BY <3>1, <3>2
  <2>9. ASSUME NEW i \in ItemSet, Silent(x, i), Knows(i)
        PROVE  Knows(i)'
    <3>1. ASSUME NEW v, Tells(Way, remote.known, i, v)
          PROVE  Tells(Way', remote'.known, i, v)
      BY <1>0, <1>1, <2>1, <2>5, <2>9, <3>1, SilentJoin, FinalJoin DEF Tells
    <3> QED
      BY <1>0, <2>9, <3>1 DEF Knows
  <2>10. ASSUME NEW i \in ItemSet, pending[i] = {}, ~(k \in ItemSet /\ i >= n)
         PROVE  Final(pipe, i, said[i]) \/ (Silent(pipe, i) /\ Knows(i)')
    <3>1. CASE k \in ItemSet /\ i = k
      <4>1. Silent(pipe, i) \/ Final(pipe, i, said[i])
        BY DEF PipeInv
      <4>2. Final(Way \o x, i, queue[i])
        BY <1>1, <1>2, <2>5, <3>1, FinalJoin
      <4> QED
        BY <1>0, <2>1, <4>1, <4>2 DEF Knows, Tells
    <3>2. CASE ~(k \in ItemSet /\ i = k)
      <4>1. ~(i >= k)
        <5>1. CASE k \in ItemSet
          BY <1>9, <2>10, <3>2, <5>1 DEF ItemSet
        <5>2. CASE k \notin ItemSet
          BY <1>9, <2>3, <5>2 DEF ItemSet
        <5> QED
          BY <5>1, <5>2
      <4>2. Silent(x, i)
        BY <1>2, <3>2
      <4>3. Final(pipe, i, said[i]) \/ (Silent(pipe, i) /\ Knows(i))
        BY <1>8, <1>10, <2>10, <4>1 DEF LinkInv, HeardInv
      <4> QED
        BY <2>9, <4>2, <4>3
    <3> QED
      BY <3>1, <3>2
  <2>11. HeardInv'
    <3>1. k \in ItemSet => logger'.next = n /\ logger'.at = "dump"
      BY <1>5
    <3> QED
      BY <1>0, <2>10, <3>1 DEF HeardInv
  <2> QED
    BY <2>4, <2>8, <2>11 DEF LinkInv
<1> QED
  BY <1>7, <1>8
\* Concatenation is associative.
LEMMA Assoc ==
    ASSUME NEW a \in Seq(Piece), NEW b \in Seq(Piece), NEW c \in Seq(Piece)
    PROVE  a \o (b \o c) = (a \o b) \o c
BY ConcatAssociative, SMTT(30)

\* All that is on the way from the file to the host is passed on by a part.
Passed(l, u, t, d, f, x) ==
    (l \o (u \o t)) \o (d \o (f \o x)) = ((l \o u) \o ((t \o d) \o f)) \o x

\* It is the same as before, with what was added.
LEMMA PassedOn ==
    ASSUME NEW l, NEW u, NEW t, NEW d, NEW f, NEW x
    PROVE  /\ l \in Seq(Piece) /\ u \in Seq(Piece) /\ t \in Seq(Piece)
           /\ d \in Seq(Piece) /\ f \in Seq(Piece) /\ x \in Seq(Piece)
           => Passed(l, u, t, d, f, x)
<1>0. SUFFICES ASSUME /\ l \in Seq(Piece) /\ u \in Seq(Piece) /\ t \in Seq(Piece)
                      /\ d \in Seq(Piece) /\ f \in Seq(Piece) /\ x \in Seq(Piece)
               PROVE  Passed(l, u, t, d, f, x)
  OBVIOUS
<1>l. l \in Seq(Piece)
  BY <1>0
<1>u. u \in Seq(Piece)
  BY <1>0
<1>t. t \in Seq(Piece)
  BY <1>0
<1>d. d \in Seq(Piece)
  BY <1>0
<1>f. f \in Seq(Piece)
  BY <1>0
<1>x. x \in Seq(Piece)
  BY <1>0
<1>1. PICK h : h \in Seq(Piece) /\ h = l \o u
  BY <1>l, <1>u, ConcatProperties
<1>2. PICK e : e \in Seq(Piece) /\ e = d \o f
  BY <1>d, <1>f, ConcatProperties
<1>3. PICK g : g \in Seq(Piece) /\ g = t \o e
  BY <1>2, <1>t, ConcatProperties
<1>4. PICK y : y \in Seq(Piece) /\ y = e \o x
  BY <1>2, <1>x, ConcatProperties
<1>5. l \o (u \o t) = h \o t
  <2>1. l \o (u \o t) = (l \o u) \o t
    BY <1>l, <1>u, <1>t, Assoc
  <2> QED
    BY <1>1, <2>1
<1>6. d \o (f \o x) = y
  <2>1. d \o (f \o x) = (d \o f) \o x
    BY <1>d, <1>f, <1>x, Assoc
  <2> QED
    BY <1>2, <1>4, <2>1
<1>7. (t \o d) \o f = g
  <2>1. t \o (d \o f) = (t \o d) \o f
    BY <1>d, <1>f, <1>t, Assoc
  <2> QED
    BY <1>2, <1>3, <2>1
<1>8. (h \o t) \o y = h \o (t \o y)
  <2>1. h \in Seq(Piece) /\ y \in Seq(Piece)
    BY <1>1, <1>4
  <2> QED
    BY <1>t, <2>1, Assoc
<1>9. t \o y = g \o x
  <2>1. e \in Seq(Piece) /\ t \o (e \o x) = (t \o e) \o x
    <3>1. e \in Seq(Piece)
      BY <1>2
    <3> QED
      BY <1>t, <1>x, <3>1, Assoc
  <2> QED
    BY <1>3, <1>4, <2>1
<1>10. h \o (g \o x) = (h \o g) \o x
  <2>1. h \in Seq(Piece) /\ g \in Seq(Piece)
    BY <1>1, <1>3
  <2> QED
    BY <1>x, <2>1, Assoc
<1> QED
  BY <1>1, <1>5, <1>6, <1>7, <1>8, <1>9, <1>10 DEF Passed

\* The pipe goes into the file, the file into the buffer, the buffer out.
LEMMA WorkLink ==
    ASSUME LinkInv, Types, PipeInv, SelectFindsWork
    PROVE  LinkInv'
<1>0. /\ logger \in LoggerState /\ remote \in RemoteState /\ pipe \in Seq(Piece)
      /\ logger.file \in Seq(Piece) /\ logger.out \in Seq(Piece)
      /\ remote.wire \in Seq(Piece) /\ remote.line \in Seq(Piece)
      /\ logger.at = "select" /\ ~LinkClosed
      /\ UNCHANGED <<queue, pending, said>> /\ pipe' = IF InputReady THEN <<>> ELSE pipe
  BY DEF Types, SelectFindsWork, LoggerState, RemoteState
<1> DEFINE a == AfterInput(logger)
           x == IF InputReady THEN pipe ELSE <<>>
<1>1. /\ a \in LoggerState /\ a.fd = logger.fd /\ a.out = logger.out /\ a.at = logger.at
      /\ logger.fd = "up" => a.file = logger.file \o x
  <2>1. logger.file \o <<>> = logger.file
    BY <1>0, ConcatEmptySeq
  <2> QED
    BY <1>0, <2>1, InputShape
<1>2. PICK m \in IF CanWrite THEN 1 .. Room ELSE {0} :
         /\ logger' = [a EXCEPT !.out = Drop(m, @), !.at = "top"]
         /\ remote' = [remote EXCEPT !.wire = @ \o Take(m, logger.out)]
  BY DEF SelectFindsWork
<1>3. m \in Nat
  OBVIOUS
<1> DEFINE t == Take(m, logger.out)
           d == Drop(m, logger.out)
           w == remote.wire \o t
<1>4. /\ t \in Seq(Piece) /\ d \in Seq(Piece) /\ t \o d = logger.out
      /\ w \in Seq(Piece) /\ x \in Seq(Piece) /\ w = remote.wire \o t
  BY <1>0, <1>3, TakeDrop, ConcatProperties, EmptySeq
<1>5. logger' = [a EXCEPT !.out = d, !.at = "top"] /\ remote' = [remote EXCEPT !.wire = w]
  BY <1>0, <1>1, <1>2 DEF LoggerState, RemoteState
<1>6. /\ InputReady => x = pipe /\ pipe' = <<>>
      /\ ~InputReady => x = <<>> /\ pipe' = pipe
  BY <1>0
<1>7. ~CanWrite => t = <<>>
  <2>1. ASSUME ~CanWrite PROVE Take(m, logger.out) = <<>>
    <3>1. m = 0 /\ Len(logger.out) \in Nat
      BY <1>0, <2>1, LenProperties
    <3>2. (IF m < Len(logger.out) THEN m ELSE Len(logger.out)) = 0
      BY <3>1
    <3>3. SubSeq(logger.out, 1, 0) = <<>>
      BY <1>0, SubSeqEmpty
    <3> QED
      BY <3>2, <3>3 DEF Take
  <2> QED
    BY <2>1
<1> HIDE DEF a, x, t, d, w
<1>8. /\ logger'.out = d /\ logger'.file = a.file /\ logger'.fd = logger.fd
      /\ logger'.at = "top"
      /\ remote'.wire = w /\ remote'.line = remote.line /\ remote'.known = remote.known
      /\ remote'.end = remote.end /\ remote'.link = remote.link
  BY <1>0, <1>1, <1>5 DEF LoggerState, RemoteState
<1>9. Joined' <=> Joined
  BY <1>8 DEF Joined
<1>10. CASE ~Joined
  <2>1. ~CanWrite
    BY <1>10 DEF CanWrite, Room, Joined
  <2>2. w = remote.wire
    BY <1>0, <1>4, <1>7, <2>1, ConcatEmptySeq
  <2> QED
    BY <1>8, <1>9, <1>10, <2>2, Cut
<1>11. CASE Joined
  <2>1. Way' = Way \o x
    <3> DEFINE l == remote.line
               u == remote.wire
               o == logger.out
               f == logger.file
    <3>1. Way' = (l \o (u \o t)) \o (d \o (f \o x))
      BY <1>1, <1>4, <1>8, <1>9, <1>11 DEF Way, Joined
    <3>2. Way = (l \o u) \o (o \o f) /\ o = t \o d
      BY <1>4, <1>11, WayShape
    <3>3. l \in Seq(Piece) /\ u \in Seq(Piece) /\ f \in Seq(Piece)
          /\ t \in Seq(Piece) /\ d \in Seq(Piece) /\ x \in Seq(Piece)
      BY <1>0, <1>4
    <3> HIDE DEF l, u, o, f
    <3>4. Passed(l, u, t, d, f, x)
      BY <3>3, PassedOn
    <3> QED
      BY <3>1, <3>2, <3>4 DEF Passed
  <2>2. Lines(x) /\ Complete(x) /\ Silent(x, End)
    BY <1>6, Nothing DEF PipeInv
  <2>3. WayInv'
    BY <1>4, <1>8, <1>11, <2>1, <2>2, SendWay DEF LinkInv
  <2>4. DumpInv'
    BY <1>8 DEF DumpInv
  <2>5. Way \in Seq(Piece)
    BY WayShape
  <2>6. ASSUME NEW i \in ItemSet, pending[i] = {}
        PROVE  Final(pipe', i, said[i]) \/ (Silent(pipe', i) /\ Knows(i)')
    <3>1. Final(pipe, i, said[i]) \/ (Silent(pipe, i) /\ Knows(i))
      BY <1>0, <1>11, <2>6 DEF LinkInv, HeardInv
    <3>2. CASE ~InputReady
      <4>1. Way \o x = Way
        BY <1>6, <2>5, <3>2, ConcatEmptySeq
      <4> QED
        BY <1>0, <1>6, <1>8, <2>1, <3>1, <3>2, <4>1 DEF Knows
    <3>3. CASE InputReady
      <4>1. x = pipe /\ pipe' = <<>> /\ Silent(pipe', i)
        BY <1>6, <3>3, Nothing
      <4>2. ASSUME NEW v
            PROVE  /\ Final(x, i, v) => Tells(Way \o x, remote.known, i, v)
                   /\ Silent(x, i) /\ Tells(Way, remote.known, i, v)
                         => Tells(Way \o x, remote.known, i, v)
        BY <1>4, <2>5, FinalJoin, SilentJoin DEF Tells
      <4>3. \/ Tells(Way \o x, remote.known, i, queue[i])
            \/ Tells(Way \o x, remote.known, i, said[i])
        BY <3>1, <4>1, <4>2 DEF Knows
      <4> QED
        BY <1>0, <1>8, <2>1, <4>1, <4>3 DEF Knows
    <3> QED
      BY <3>2, <3>3
  <2>7. HeardInv'
    BY <1>0, <1>8, <2>6 DEF HeardInv
  <2> QED
    BY <2>3, <2>4, <2>7 DEF LinkInv
<1> QED
  BY <1>10, <1>11

\* A sequence is its first piece and the rest.
LEMMA HeadRest ==
    ASSUME NEW s \in Seq(Piece), s # <<>>
    PROVE  Tail(s) \in Seq(Piece) /\ s = <<Head(s)>> \o Tail(s)
<1>1. Len(s) \in Nat /\ Len(s) # 0
  BY LenProperties, EmptySeq
<1>2. 1 \in 1 .. Len(s) /\ Len(s) \in 1 .. Len(s)
  BY <1>1
<1>3. SubSeq(s, 1, Len(s)) = <<s[1]>> \o SubSeq(s, 1 + 1, Len(s))
  BY <1>2, SubSeqRecursiveFirst
<1>4. SubSeq(s, 1, Len(s)) = s /\ Tail(s) = SubSeq(s, 2, Len(s)) /\ 1 + 1 = 2
  BY SubSeqFull, TailIsSubSeq
<1>5. Head(s) = s[1]
  BY <1>1
<1>6. Tail(s) \in Seq(Piece)
  BY HeadTailProperties
<1> QED
  BY <1>3, <1>4, <1>5, <1>6

\* What the host has when it has read one piece more.
LEMMA FirstPieces ==
    ASSUME NEW l \in Seq(Piece), l = <<>> \/ (Len(l) = 1 /\ l[1][3] = 1),
           NEW p \in Piece, NEW a \in Seq(Piece), a = Append(l, p), Lines(a)
    PROVE  \/ p[3] = 1 /\ l = <<>> /\ Len(a) = 1 /\ a[1] = p
           \/ p[3] = 2 /\ p[1] \in ItemSet /\ p[2] \in Nat \ {0} /\ a = Line(p[1], p[2])
           \/ p[3] = 2 /\ p[1] = End /\ Len(a) = 1 /\ a[1] = p
<1>1. /\ p = <<p[1], p[2], p[3]>> /\ p[1] \in ItemSet \cup {End} /\ p[2] \in Nat
      /\ p[3] \in {1, 2}
  BY DEF Piece
<1>2. ASSUME l = <<>> PROVE Len(a) = 1 /\ a[1] = p
  BY <1>2
<1>3. CASE l = <<>>
  <2>1. 1 \in 1 .. Len(a) /\ Len(a) = 1 /\ a[1] = p
    BY <1>2, <1>3
  <2>2. p[1] # End => ~(p[3] = 2)
    BY <2>1 DEF Lines
  <2>3. p[3] = 1 => p[1] # End
    BY <2>1 DEF Lines
  <2> QED
    BY <1>1, <1>3, <2>1, <2>2
<1>4. CASE Len(l) = 1 /\ l[1][3] = 1
  <2>1. PICK o \in Piece : o = l[1] /\ o[3] = 1
    <3>1. l[1] \in Piece
      BY <1>4, ElementOfSeq
    <3> QED
      BY <1>4, <3>1
  <2>2. Len(a) = 2 /\ a[1] = o /\ a[2] = p
    BY <1>4, <2>1, AppendProperties
  <2>3. o = <<o[1], o[2], 1>> /\ o[1] \in ItemSet \cup {End}
    BY <2>1 DEF Piece
  <2>4. o[1] # End /\ p = <<o[1], o[2], 2>> /\ o[2] # 0
    <3>1. 1 \in 1 .. Len(a) /\ 1 < Len(a) /\ a[1] = o /\ a[1 + 1] = p
      BY <2>2
    <3>2. a[1][3] = 1 => a[1][1] # End /\ (1 < Len(a) => a[1 + 1] = <<a[1][1], a[1][2], 2>>)
      BY <3>1 DEF Lines
    <3>3. a[1][1] # End => a[1][2] # 0
      BY <3>1 DEF Lines
    <3> QED
      BY <2>1, <3>1, <3>2, <3>3
  <2>5. o[1] = p[1] /\ o[2] = p[2] /\ p[3] = 2
    BY <2>4
  <2>6. a = << <<p[1], p[2], 1>>, <<p[1], p[2], 2>> >>
    <3>1. a[1] = <<p[1], p[2], 1>> /\ a[2] = <<p[1], p[2], 2>>
      BY <2>2, <2>3, <2>4, <2>5
    <3>2. PICK s \in Seq(Piece) : s = << <<p[1], p[2], 1>>, <<p[1], p[2], 2>> >>
      <4>1. a[1] \in Piece /\ a[2] \in Piece
        BY <2>1, <2>2
      <4>2. \A b, c \in Piece : <<b, c>> \in Seq(Piece)
        OBVIOUS
      <4> QED
        BY <3>1, <4>1, <4>2
    <3>3. Len(s) = 2 /\ s[1] = a[1] /\ s[2] = a[2]
      BY <3>1, <3>2
    <3>4. \A k \in 1 .. Len(a) : a[k] = s[k]
      <4>1. \A k \in 1 .. Len(a) : k = 1 \/ k = 2
        BY <2>2
      <4> QED
        BY <3>3, <4>1
    <3>5. a = s
      BY <2>2, <3>3, <3>4, SeqEqual
    <3> QED
      BY <3>2, <3>5
  <2> QED
    BY <1>1, <2>3, <2>4, <2>5, <2>6 DEF Line
<1> QED
  BY <1>3, <1>4

\* The host reads a piece.
LEMMA ReceiveLink ==
    ASSUME LinkInv, Types, Receive
    PROVE  LinkInv'
<1> DEFINE l == remote.line
           u == remote.wire
           g == IF Joined THEN logger.out \o logger.file ELSE <<>>
<1>0. /\ remote \in RemoteState /\ l \in Seq(Piece) /\ u \in Seq(Piece) /\ u # <<>>
      /\ UNCHANGED <<queue, pending, said, pipe, logger>>
      /\ remote.known \in [ItemSet -> Nat] /\ remote.end \in BOOLEAN
  BY DEF Types, Receive, daemon, RemoteState
<1>1. PICK p \in Piece : p = Head(u)
  BY <1>0, HeadTailProperties
<1>2. PICK w : w \in Seq(Piece) /\ w = Tail(u) /\ u = <<p>> \o w
  <2>1. /\ Tail(u) \in Seq(Piece) /\ u = <<Head(u)>> \o Tail(u)
    BY <1>0, HeadRest
  <2> QED
    BY <1>1, <2>1
<1>3. PICK a : a \in Seq(Piece) /\ a = Append(l, p) /\ a = l \o <<p>>
  <2>1. Append(l, p) \in Seq(Piece) /\ Append(l, p) = l \o <<p>>
    BY <1>0, AppendProperties, AppendIsConcat
  <2> QED
    BY <2>1
<1>4. PICK q : q \in Seq(Piece) /\ q = g
  <2>1. g \in Seq(Piece)
    BY WayShape, EmptySeq
  <2> QED
    BY <2>1
<1>5. Way = a \o (w \o q)
  <2>1. Way = (l \o u) \o q
    BY <1>4 DEF Way
  <2>2. <<p>> \in Seq(Piece)
    OBVIOUS
  <2>3. PICK s : s \in Seq(Piece) /\ s = <<p>>
    BY <2>2
  <2>4. u = s \o w /\ a = l \o s
    BY <1>2, <1>3, <2>3
  <2> HIDE DEF l, u
  <2>6. l \o (s \o w) = a \o w
    BY <1>0, <1>2, <2>3, <2>4, Assoc
  <2>7. (a \o w) \o q = a \o (w \o q)
    <3>1. a \in Seq(Piece) /\ w \in Seq(Piece) /\ q \in Seq(Piece)
      BY <1>2, <1>3, <1>4
    <3> QED
      BY <3>1, Assoc
  <2> QED
    BY <2>1, <2>4, <2>6, <2>7
<1>6. PICK r : r \in Seq(Piece) /\ r = w \o q /\ Way = a \o r
  BY <1>2, <1>4, <1>5, ConcatProperties
<1>7. /\ l = <<>> \/ (Len(l) = 1 /\ l[1][3] = 1)
      /\ Lines(a \o r) /\ Ended(a \o r, remote.known)
  BY <1>6 DEF LinkInv, WayInv, LineOK
<1>8. Lines(a) /\ Ended(a, remote.known)
  <2>1. a \in Seq(Piece) /\ r \in Seq(Piece)
    BY <1>3, <1>6
  <2> QED
    BY <1>7, <2>1, LinesSplit, EndedPrefix
<1> DEFINE e == remote.end \/ a = << <<End, 0, 2>> >>
           known == [i \in ItemSet |-> IF a = Line(i, p[2]) THEN p[2] ELSE remote.known[i]]
<1>9. remote' = IF p[3] = 1
                THEN [remote EXCEPT !.wire = w, !.line = a]
                ELSE [remote EXCEPT !.wire = w, !.line = <<>>, !.end = e, !.known = known]
  BY <1>0, <1>1, <1>2, <1>3 DEF Receive, RemoteState
<1>10. \A i \in ItemSet : known[i] = IF a = Line(i, p[2]) THEN p[2] ELSE remote.known[i]
  OBVIOUS
<1> HIDE DEF known
<1>11. /\ remote'.link = remote.link /\ remote'.wire = w
       /\ p[3] = 1 => /\ remote'.line = a /\ remote'.end = remote.end
                      /\ remote'.known = remote.known
       /\ p[3] # 1 => /\ remote'.line = <<>> /\ remote'.end = e
                      /\ remote'.known = known
  BY <1>0, <1>9 DEF RemoteState
<1>12. Joined' <=> Joined
  BY <1>0, <1>11 DEF Joined
<1>13. Way' = (remote'.line \o w) \o q
  BY <1>0, <1>4, <1>11, <1>12 DEF Way
<1> HIDE DEF l, u, g, e
<1>14. CASE p[3] = 1 /\ l = <<>> /\ Len(a) = 1 /\ a[1] = p
  <2>1. (a \o w) \o q = a \o (w \o q)
    BY <1>2, <1>3, <1>4, Assoc
  <2>2. Way' = Way
    BY <1>6, <1>11, <1>13, <1>14, <2>1
  <2>3. LineOK'
    BY <1>11, <1>14 DEF LineOK
  <2> QED
    BY <1>0, <1>11, <1>12, <1>14, <2>2, <2>3, Still
<1>15. ASSUME p[3] = 2 PROVE Way' = r /\ remote'.line = <<>>
  <2>1. <<>> \o w = w
    BY <1>2, ConcatEmptySeq
  <2>2. remote'.line = <<>>
    BY <1>11, <1>15
  <2>3. Way' = (<<>> \o w) \o q
    BY <1>13, <2>2
  <2> QED
    BY <1>6, <2>1, <2>2, <2>3
<1>16. CASE /\ p[3] = 2 /\ p[1] \in ItemSet /\ p[2] \in Nat \ {0}
            /\ a = Line(p[1], p[2])
  <2>1. PICK i \in ItemSet, v \in Nat \ {0} : i = p[1] /\ v = p[2] /\ a = Line(i, v)
    BY <1>16
  <2>2. /\ Complete(a) /\ Final(a, i, v) /\ \A j \in ItemSet \ {i} : Silent(a, j)
    BY <2>1, LineShape
  <2>3. Len(a) = 2 /\ a[1] = <<i, v, 1>> /\ a[2] = <<i, v, 2>>
    BY <2>1 DEF Line
  <2>4. ~Silent(a, i)
    BY <2>2 DEF Final, Silent
  <2>5. remote'.end => remote.end
    <3>1. Len(<< <<End, 0, 2>> >>) = 1
      OBVIOUS
    <3> QED
      BY <1>11, <1>16, <2>3, <3>1 DEF e
  <2>6. remote'.known[i] = v
    BY <1>10, <1>11, <1>16, <2>1
  <2>7. ASSUME NEW j \in ItemSet, j # i PROVE remote'.known[j] = remote.known[j]
    <3>1. a # Line(j, v)
      <4>1. Line(j, v)[1] = <<j, v, 1>>
        BY DEF Line
      <4> QED
        BY <2>3, <2>7, <4>1
    <3> QED
      BY <1>10, <1>11, <1>16, <2>1, <3>1
  <2>8. ASSUME NEW z, Final(a, i, z) PROVE z = v
    <3>1. PICK k \in 1 .. 2 : a[k][2] = z
      BY <2>3, <2>8 DEF Final
    <3>2. k = 1 \/ k = 2
      OBVIOUS
    <3> QED
      BY <2>3, <3>1, <3>2
  <2>9. ASSUME NEW j \in ItemSet, j # i PROVE \A z : ~Final(a, j, z)
    BY <2>2, <2>9 DEF Final, Silent
  <2>10. \A j \in ItemSet : Silent(a, j) => remote'.known[j] = remote.known[j]
    BY <2>4, <2>7
  <2>11. \A j \in ItemSet : ~Silent(a, j) => remote'.known[j] # 0
    BY <2>2, <2>6
  <2>12. \A j \in ItemSet : \A z : Final(a, j, z) => remote'.known[j] = z
    BY <2>6, <2>8, <2>9
  <2>13. remote.end => \A j \in ItemSet : remote.known[j] # 0
    BY DEF LinkInv, WayInv
  <2>14. remote'.end => \A j \in ItemSet : remote'.known[j] # 0
    BY <2>5, <2>6, <2>7, <2>13
  <2> QED
    BY <1>0, <1>3, <1>6, <1>12, <1>15, <1>16, <2>2, <2>10, <2>11, <2>12, <2>14, Hear
<1>17. CASE p[3] = 2 /\ p[1] = End /\ Len(a) = 1 /\ a[1] = p
  <2>1. \A j \in ItemSet : j # End
    BY DEF ItemSet, End
  <2>2. \A k \in 1 .. Len(a) : k = 1
    BY <1>17
  <2>3. Complete(a) /\ \A j \in ItemSet : Silent(a, j)
    BY <1>17, <2>1, <2>2 DEF Complete, Silent
  <2>4. \A j \in ItemSet : \A z : ~Final(a, j, z)
    BY <2>3 DEF Final, Silent
  <2>5. \A j \in ItemSet : remote'.known[j] = remote.known[j]
    <3>1. \A j : Len(Line(j, p[2])) = 2
      BY DEF Line
    <3>2. \A j : a # Line(j, p[2])
      <4>1. Len(a) = 1
        BY <1>17
      <4>2. \A j : a = Line(j, p[2]) => Len(a) = 2
        BY <3>1
      <4> QED
        BY <4>1, <4>2
    <3>3. \A j \in ItemSet : known[j] = remote.known[j]
      BY <1>10, <3>2
    <3> QED
      BY <1>11, <1>17, <3>3
  <2>6. \A j \in ItemSet : remote.known[j] # 0
    <3>1. 1 \in 1 .. Len(a) /\ a[1][1] = End
      BY <1>17
    <3>2. \A j \in ItemSet : remote.known[j] # 0 \/ \E m \in 1 .. 1 - 1 : a[m][1] = j
      BY <1>8, <3>1 DEF Ended
    <3> QED
      BY <3>2
  <2>7. \A j \in ItemSet : remote'.known[j] # 0
    BY <2>5, <2>6
  <2>8. \A j \in ItemSet : Silent(a, j) => remote'.known[j] = remote.known[j]
    BY <2>5
  <2>9. \A j \in ItemSet : \A z : Final(a, j, z) => remote'.known[j] = z
    BY <2>4
  <2> QED
    BY <1>0, <1>3, <1>6, <1>12, <1>15, <1>17, <2>3, <2>7, <2>8, <2>9, Hear
<1>18. a \in Seq(Piece) /\ a = Append(l, p)
  BY <1>3
<1>19. l \in Seq(Piece) /\ (l = <<>> \/ (Len(l) = 1 /\ l[1][3] = 1))
  BY <1>0, <1>7
<1>20. \/ p[3] = 1 /\ l = <<>> /\ Len(a) = 1 /\ a[1] = p
       \/ p[3] = 2 /\ p[1] \in ItemSet /\ p[2] \in Nat \ {0} /\ a = Line(p[1], p[2])
       \/ p[3] = 2 /\ p[1] = End /\ Len(a) = 1 /\ a[1] = p
  <2>1. ASSUME NEW y, y \in Seq(Piece) /\ (y = <<>> \/ (Len(y) = 1 /\ y[1][3] = 1)),
               a = Append(y, p)
        PROVE  \/ p[3] = 1 /\ y = <<>> /\ Len(a) = 1 /\ a[1] = p
               \/ p[3] = 2 /\ p[1] \in ItemSet /\ p[2] \in Nat \ {0} /\ a = Line(p[1], p[2])
               \/ p[3] = 2 /\ p[1] = End /\ Len(a) = 1 /\ a[1] = p
    BY <1>8, <1>18, <2>1, FirstPieces
  <2> QED
    BY <1>18, <1>19, <2>1
<1> QED
  BY <1>14, <1>16, <1>17, <1>20
-----------------------------------------------------------------------------
(* The theorems.                                                            *)

\* Every step keeps what is said of the connection.
LEMMA LinkStep ==
    ASSUME Types, OpenInv, PipeInv, ~torn => LinkInv, [Next]_vars
    PROVE  (~torn => LinkInv)'
<1> SUFFICES ASSUME ~torn' PROVE LinkInv'
  OBVIOUS
<1>1. CASE Opened
  <2>1. ~torn
    BY <1>1 DEF Opened
  <2> QED
    BY <1>1, <2>1, OpenedLink
<1>2. CASE ~Opened
  <2>1. torn' = torn
    BY <1>2 DEF Next, LoggerSteps, vars, Change, Log, Hangup, Restart, Tick, Kill, Top,
       HostUnknown, LoggerBinds, LoggerConnects, LoggerRefused, Dump, SelectFindsEnd,
       WriteFails, SelectFindsWork, Receive, RemoteFault, RemoteReturns
  <2>2. LinkInv
    BY <2>1
  <2>3. CASE \E i \in ItemSet : Change(i) \/ Log(i)
    BY <2>2, <2>3, ChangeLink, LogLink
  <2>4. CASE UNCHANGED vars \/ Hangup \/ Tick \/ Top \/ HostUnknown \/ LoggerBinds
               \/ LoggerRefused \/ RemoteReturns
    BY <2>2, <2>4, QuietLink
  <2>5. CASE Kill \/ Restart \/ SelectFindsEnd \/ WriteFails
    BY <2>2, <2>5, LostLink
  <2>6. CASE LoggerConnects \/ RemoteFault
    BY <2>2, <2>6, RemoteLink
  <2>7. CASE Dump
    BY <2>2, <2>7, DumpLink
  <2>8. CASE SelectFindsWork
    BY <2>2, <2>8, WorkLink
  <2>9. CASE Receive
    BY <2>2, <2>9, ReceiveLink
  <2> QED
    BY <1>2, <2>3, <2>4, <2>5, <2>6, <2>7, <2>8, <2>9 DEF Next, LoggerSteps
<1> QED
  BY <1>1, <1>2

\* The invariant holds at the start.
LEMMA LogInit == Init => LogInv
<1> SUFFICES ASSUME Init PROVE LogInv
  OBVIOUS
<1>1. Types
  BY TypesInit
<1>2. logger.at = "top" /\ logger.fd = "lost"
  BY DEF Init, NewLogger
<1>3. OpenInv /\ DumpInv /\ HeardInv
  BY <1>2 DEF OpenInv, DumpInv, HeardInv, Joined
<1>4. pipe = <<>> /\ \A i \in ItemSet : pending[i] = {} /\ said[i] = queue[i]
  BY DEF Init
<1>5. PipeInv /\ LockInv
  BY <1>4, Nothing, LoggerAssumption DEF PipeInv, LockInv, ItemSet
<1>6. remote.line = <<>> /\ remote.wire = <<>> /\ remote.end = FALSE
  BY FreshRemote DEF Init
<1>7. ~Joined
  BY <1>2 DEF Joined
<1>8. <<>> \in Seq(Piece)
  BY EmptySeq
<1>9. Way = <<>>
  <2>1. Way = (<<>> \o <<>>) \o <<>>
    BY <1>6, <1>7 DEF Way
  <2> QED
    BY <1>8, <2>1, ConcatEmptySeq
<1>10. WayInv
  BY <1>6, <1>7, <1>9, Nothing DEF WayInv, LineOK
<1> QED
  BY <1>1, <1>3, <1>5, <1>10 DEF LogInv, LinkInv

\* The invariant holds.
LEMMA LogInductive == Spec => []LogInv
<1>1. ASSUME LogInv, [Next]_vars PROVE LogInv'
  BY <1>1, TypesStep, OpenStep, PipeStep, LockStep, LinkStep DEF LogInv
<1> QED
  BY <1>1, LogInit, PTL DEF Spec

\* No change of a queue is lost while a connection stands: what the host has
\* heard, what is on its way, and what waits in the buffer, the file and the
\* pipe end with the state of every item whose writers have said it, or the dump
\* still comes to it (lpd_logger.c:247-269, 323); for an item whose writers log
\* without a lock (getqueue.c:697-716, 811-846) they end with that or with its
\* last message.  The hypothesis ~torn of the property is the bug of the README:
\* a buffer that outlives its connection.
THEOREM NothingIsMissed == Spec => []NothingMissed
<1>1. LogInv => NothingMissed
  BY HeardMeansMissed DEF LogInv, LinkInv
<1> QED
  BY <1>1, LogInductive, PTL

\* When the host has read END it knows something of every item
\* (CHANGES:4008-4014; Dump_queue_status).
THEOREM EndSaysAll == Spec => []EndMeansAll
<1>1. LogInv => EndMeansAll
  BY DEF LogInv, LinkInv, WayInv, EndMeansAll
<1> QED
  BY <1>1, LogInductive, PTL

=============================================================================

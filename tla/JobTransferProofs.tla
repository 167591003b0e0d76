------------------------- MODULE JobTransferProofs -------------------------
(***************************************************************************)
(* What holds of the transfer of jobs for any number of attempts, files,   *)
(* job numbers, breaks, timeouts and kills.                                *)
(*                                                                         *)
(* KeptIsToldToLpd: a job that a receiver has put into the queue is        *)
(* announced to lpd, or its sender is told of an error.  The receivers of  *)
(* attempts that were not made yet are absent, and a receiver that has not *)
(* read a request has put nothing into the queue; so the way to the end    *)
(* leads through Close or AnswerError (AnnounceInv).                       *)
(*                                                                         *)
(* The other theorems are about transfers that do not overlap              *)
(* (OneAtATime), which is when their claims hold: there is one receiver    *)
(* that lives (SoloInv); the ticket of its number is its own, and the      *)
(* files on the disk are those of the tickets (SpoolInv); and the two ends *)
(* of an open connection are a known distance apart (DialogueInv).         *)
(***************************************************************************)
EXTENDS JobTransfer, TLAPS

SenderState == [state : {"idle", "send", "wait", "sent", "gaveup"},
                attempt : Nat, pos : Nat]
Nexts == {"open", "ack", "lastack", "close"}

\* What one receiver keeps true.
ReceiverInv(c) ==
    /\ {"pc", "next", "error"} \subseteq DOMAIN rcv[c]
    /\ rcv[c].next \in Nexts
    /\ rcv[c].pc \in {"absent", "request"} => kept[c] = 0
    /\ rcv[c].pc = "ended" /\ kept[c] > 0 => c \in announced \/ rcv[c].error

\* No attempt was made yet with the connections after the last one.
FutureInv ==
    \A j \in Jobs, a \in 1 .. MaxAttempts :
      a > sender[j].attempt => rcv[<<j, a>>].pc = "absent"

AnnounceInv ==
    /\ sender \in [Jobs -> SenderState]
    /\ kept \in [Conns -> Nat]
    /\ DOMAIN rcv = Conns
    /\ \A c \in Conns : ReceiverInv(c)
    /\ FutureInv

LEMMA AbsentFields ==
    /\ {"pc", "next", "error"} \subseteq DOMAIN Absent
    /\ Absent.pc = "absent" /\ Absent.next = "ack"
  BY DEF Absent

LEMMA InitAnnounce == TransferInit => AnnounceInv
<1> SUFFICES ASSUME TransferInit PROVE AnnounceInv
  OBVIOUS
<1>1. DOMAIN rcv = Conns /\ \A c \in Conns : rcv[c] = Absent
  BY DEF TransferInit
<1>2. kept \in [Conns -> Nat] /\ \A c \in Conns : kept[c] = 0
  BY DEF TransferInit
<1>3. \A c \in Conns : ReceiverInv(c)
  BY <1>1, <1>2, AbsentFields DEF ReceiverInv, Nexts
<1>4. FutureInv
  BY <1>1, AbsentFields DEF FutureInv, Conns
<1>5. sender \in [Jobs -> SenderState]
  BY DEF TransferInit, SenderState
<1> QED
  BY <1>1, <1>2, <1>3, <1>4, <1>5 DEF AnnounceInv

\* A step that changes nothing this is about.
LEMMA QuietStep ==
    ASSUME AnnounceInv, UNCHANGED <<sender, rcv, announced, kept>>
    PROVE  AnnounceInv'
  BY DEF AnnounceInv, ReceiverInv, FutureInv

\* A step of a sender that stays with its connection.
LEMMA SenderStays ==
    ASSUME AnnounceInv, UNCHANGED <<rcv, announced, kept>>,
           sender' \in [Jobs -> SenderState],
           \A j \in Jobs : sender'[j].attempt = sender[j].attempt
    PROVE  AnnounceInv'
  BY DEF AnnounceInv, ReceiverInv, FutureInv

\* A step of one receiver that was there.
LEMMA ReceiverMoves ==
    ASSUME AnnounceInv, NEW c,
           c \in Conns => rcv[c].pc # "absent" /\ ReceiverInv(c)',
           DOMAIN rcv' = Conns,
           \A d \in Conns \ {c} : rcv'[d] = rcv[d],
           kept' \in [Conns -> Nat],
           \A d \in Conns \ {c} : kept'[d] = kept[d],
           announced \subseteq announced',
           UNCHANGED sender
    PROVE  AnnounceInv'
<1>1. ASSUME NEW d \in Conns PROVE ReceiverInv(d)'
  <2>1. CASE d = c
    BY <2>1, <1>1
  <2>2. CASE d # c
    BY <2>2, <1>1 DEF AnnounceInv, ReceiverInv
  <2> QED
    BY <2>1, <2>2
<1>2. ASSUME NEW j \in Jobs, NEW a \in 1 .. MaxAttempts, a > sender[j].attempt
      PROVE  rcv'[<<j, a>>].pc = "absent"
  <2>1. <<j, a>> \in Conns /\ rcv[<<j, a>>].pc = "absent"
    BY <1>2 DEF AnnounceInv, FutureInv, Conns
  <2> QED
    BY <2>1
<1>3. FutureInv'
  BY <1>2 DEF FutureInv
<1> QED
  BY <1>1, <1>3 DEF AnnounceInv

\* The receiver becomes a record that is not at the start.
Sound(r) ==
    /\ {"pc", "next", "error"} \subseteq DOMAIN r
    /\ r.next \in Nexts
    /\ r.pc \notin {"absent", "request"}

LEMMA Becomes ==
    ASSUME AnnounceInv, NEW c \in Conns, NEW r, Become(c, r), Sound(r),
           rcv[c].pc # "absent",
           r.pc = "ended" => kept'[c] = 0 \/ c \in announced' \/ r.error,
           kept' \in [Conns -> Nat],
           \A d \in Conns \ {c} : kept'[d] = kept[d],
           announced \subseteq announced',
           UNCHANGED sender
    PROVE  AnnounceInv'
<1>1. DOMAIN rcv' = Conns /\ rcv'[c] = r /\ \A d \in Conns \ {c} : rcv'[d] = rcv[d]
  BY DEF AnnounceInv, Become
<1>2. ReceiverInv(c)'
  BY <1>1 DEF ReceiverInv, Sound
<1> QED
  BY <1>1, <1>2, ReceiverMoves

\* The same when nothing is put into the queue or announced.
LEMMA Continues ==
    ASSUME AnnounceInv, NEW c \in Conns, NEW r, Become(c, r), Sound(r),
           r.pc # "ended", rcv[c].pc # "absent",
           UNCHANGED <<sender, announced, kept>>
    PROVE  AnnounceInv'
<1>1. kept' \in [Conns -> Nat]
  BY DEF AnnounceInv
<1> QED
  BY <1>1, Becomes

\* Only a receiver that has read nothing or has told lpd or its sender ends.
LEMMA ReceiverKeeps ==
    ASSUME AnnounceInv, NEW c \in Conns, ReceiverStep(c)
    PROVE  AnnounceInv'
<1> DEFINE F == {"pc", "next", "error"}
<1>0. F \subseteq DOMAIN rcv[c] /\ rcv[c].next \in Nexts /\ kept \in [Conns -> Nat]
  BY DEF AnnounceInv, ReceiverInv
<1>1. Sound(Failed(rcv[c])) /\ Failed(rcv[c]).pc = "error"
  BY <1>0 DEF Sound, Failed
<1>2. CASE TakeRequest(c)
  <2> DEFINE r == [rcv[c] EXCEPT !.at = 2, !.pc = "line"]
  <2>1. Sound(r) /\ r.pc = "line"
    BY <1>0 DEF Sound
  <2>2. Become(c, r) \/ Become(c, Failed(rcv[c]))
    BY <1>2 DEF TakeRequest
  <2>3. rcv[c].pc # "absent" /\ UNCHANGED <<sender, announced, kept>>
    BY <1>2 DEF TakeRequest
  <2> HIDE DEF r
  <2> QED
    BY <1>1, <2>1, <2>2, <2>3, Continues
<1>3. CASE TakeBlockRequest(c)
  <2> DEFINE r == [rcv[c] EXCEPT !.at = 2, !.pc = "body", !.discard = large # 0]
  <2>1. Sound(r) /\ r.pc = "body" /\ Sound(Failed(r)) /\ Failed(r).pc = "error"
    BY <1>0 DEF Sound, Failed
  <2>2. Become(c, r) \/ Become(c, Failed(rcv[c]))
    BY <1>3 DEF TakeBlockRequest
  <2>3. rcv[c].pc # "absent" /\ UNCHANGED <<sender, announced, kept>>
    BY <1>3 DEF TakeBlockRequest
  <2> HIDE DEF r
  <2> QED
    BY <1>1, <2>1, <2>2, <2>3, Continues
<1>4. CASE NoRequest(c)
  <2> DEFINE r == [rcv[c] EXCEPT !.pc = "ended"]
  <2>1. Sound(r)
    BY <1>0 DEF Sound
  <2>2. Become(c, r) /\ rcv[c].pc = "request" /\ UNCHANGED <<sender, announced, kept>>
    BY <1>4 DEF NoRequest
  <2>3. kept'[c] = 0
    BY <2>2 DEF AnnounceInv, ReceiverInv
  <2> HIDE DEF r
  <2> QED
    BY <1>0, <2>1, <2>2, <2>3, Becomes
<1>5. CASE TakeLine(c)
  <2> DEFINE tooLarge == large = FileOf(rcv[c].at)
             r == [rcv[c] EXCEPT !.at = @ + 1, !.pc = "body", !.discard = @ \/ tooLarge]
  <2>1. Sound(r) /\ r.pc = "body" /\ Sound(Failed(r)) /\ Failed(r).pc = "error"
    BY <1>0 DEF Sound, Failed
  <2>2. Become(c, r) \/ Become(c, Failed(r)) \/ Become(c, Failed(rcv[c]))
    BY <1>5 DEF TakeLine
  <2>3. rcv[c].pc # "absent" /\ UNCHANGED <<sender, announced, kept>>
    BY <1>5 DEF TakeLine
  <2> HIDE DEF r
  <2> QED
    BY <1>1, <2>1, <2>2, <2>3, Continues
<1>6. CASE EndOfInput(c)
  <2> DEFINE r == [rcv[c] EXCEPT !.pc = "end"]
  <2>1. Sound(r) /\ r.pc = "end"
    BY <1>0 DEF Sound
  <2>2. Become(c, r) /\ rcv[c].pc # "absent" /\ UNCHANGED <<sender, announced, kept>>
    BY <1>6 DEF EndOfInput
  <2> HIDE DEF r
  <2> QED
    BY <2>1, <2>2, Continues
<1>7. CASE TakeBody(c)
  <2> DEFINE f == FileOf(rcv[c].at)
             data == [rcv[c] EXCEPT !.pc = "ack",
                                 !.files = IF rcv[c].discard THEN @ ELSE @ \cup {f}]
             first == [rcv[c] EXCEPT !.pc = "open", !.control = f]
             second == [rcv[c] EXCEPT !.pc = IF rcv[c].discard THEN "toolarge" ELSE "check",
                                      !.next = "open"]
  <2>1. /\ Sound(data) /\ data.pc = "ack"
        /\ Sound(first) /\ first.pc = "open"
        /\ Sound(second) /\ second.pc # "ended"
    BY <1>0 DEF Sound, Nexts
  <2>2. Become(c, data) \/ Become(c, first) \/ Become(c, second)
    BY <1>7 DEF TakeBody
  <2>3. rcv[c].pc # "absent" /\ UNCHANGED <<sender, announced, kept>>
    BY <1>7 DEF TakeBody
  <2> HIDE DEF data, first, second
  <2> QED
    BY <2>1, <2>2, <2>3, Continues
<1>8. CASE TakeBlock(c)
  <2> DEFINE r == [rcv[c] EXCEPT !.pc = "open", !.control = 1,
                                 !.files = {i \in Needed(1) : InSize(i)}]
  <2>1. Sound(r) /\ r.pc = "open"
    BY <1>0 DEF Sound
  <2>2. Become(c, r) /\ rcv[c].pc # "absent" /\ UNCHANGED <<sender, announced, kept>>
    BY <1>8 DEF TakeBlock
  <2> HIDE DEF r
  <2> QED
    BY <2>1, <2>2, Continues
<1>9. CASE BodyFails(c)
  <2>1. Become(c, Failed(rcv[c])) /\ rcv[c].pc # "absent"
    BY <1>9 DEF BodyFails
  <2>2. UNCHANGED <<sender, announced, kept>>
    BY <1>9 DEF BodyFails
  <2> QED
    BY <1>1, <2>1, <2>2, Continues
<1>10. CASE OpenTicket(c)
  <2> DEFINE n == rcv[c].try
             new == ticket[n].state = "none"
             r == [rcv[c] EXCEPT !.pc = "lock",
                     !.empty = ticket[n].state \in {"none", "empty"},
                     !.file = IF new THEN <<c, rcv[c].control>> ELSE ticket[n].made]
  <2>1. Sound(r) /\ r.pc = "lock"
    BY <1>0 DEF Sound
  <2>2. Become(c, r) /\ rcv[c].pc # "absent" /\ UNCHANGED <<sender, announced, kept>>
    BY <1>10 DEF OpenTicket
  <2> HIDE DEF r
  <2> QED
    BY <2>1, <2>2, Continues
<1>11. CASE LockTicket(c)
  <2> DEFINE n == rcv[c].try
             hold == order = "data" /\ rcv[c].files # {}
             p == CASE hold /\ rcv[c].discard  -> "toolarge"
                    [] hold /\ ~rcv[c].discard -> "check"
                    [] order = "block"               -> "blockdata"
                    [] OTHER                         -> "ack"
             r == [rcv[c] EXCEPT !.num = n, !.locked = hold, !.next = "ack",
                                 !.pc = p]
             again == [rcv[c] EXCEPT !.try = NextNumber(n), !.pc = "open"]
  <2>1. p \in {"toolarge", "check", "blockdata", "ack"}
    OBVIOUS
  <2>2. Become(c, r) \/ Become(c, Failed(rcv[c])) \/ Become(c, again)
    BY <1>11 DEF LockTicket
  <2> HIDE DEF p
  <2>3. Sound(r) /\ r.pc # "ended"
    BY <1>0, <2>1 DEF Sound, Nexts
  <2>4. Sound(again) /\ again.pc = "open"
    BY <1>0 DEF Sound
  <2>5. rcv[c].pc # "absent" /\ UNCHANGED <<sender, announced, kept>>
    BY <1>11 DEF LockTicket
  <2> HIDE DEF r, again
  <2> QED
    BY <1>1, <2>2, <2>3, <2>4, <2>5, Continues
<1>12. CASE BlockData(c)
  <2> DEFINE nothing == rcv[c].discard /\ rcv[c].files = {}
             p == CASE nothing                      -> "lastack"
                    [] rcv[c].discard /\ ~nothing   -> "toolarge"
                    [] OTHER                        -> "check"
             r == [rcv[c] EXCEPT !.next = "lastack", !.pc = p]
  <2>1. Sound(r) /\ r.pc # "ended"
    BY <1>0 DEF Sound, Nexts
  <2>2. Become(c, r) /\ rcv[c].pc # "absent" /\ UNCHANGED <<sender, announced, kept>>
    BY <1>12 DEF BlockData
  <2> HIDE DEF r
  <2> QED
    BY <2>1, <2>2, Continues
<1>13. CASE CheckFails(c)
  <2> DEFINE r == [rcv[c] EXCEPT !.pc = "error", !.refused = Whole(rcv[c])]
  <2>1. Sound(r) /\ r.pc = "error"
    BY <1>0 DEF Sound
  <2>2. Become(c, r) /\ rcv[c].pc # "absent" /\ UNCHANGED <<sender, announced, kept>>
    BY <1>13 DEF CheckFails
  <2> HIDE DEF r
  <2> QED
    BY <2>1, <2>2, Continues
<1>14. CASE CheckPasses(c)
  <2> DEFINE r == [rcv[c] EXCEPT !.pc = "write"]
  <2>1. Sound(r) /\ r.pc = "write"
    BY <1>0 DEF Sound
  <2>2. Become(c, r) /\ rcv[c].pc # "absent" /\ UNCHANGED <<sender, announced, kept>>
    BY <1>14 DEF CheckPasses
  <2> HIDE DEF r
  <2> QED
    BY <2>1, <2>2, Continues
<1>15. CASE WriteTicket(c)
  <2>1. Sound(Done(rcv[c])) /\ Done(rcv[c]).pc # "ended"
    BY <1>0 DEF Sound, Done, Nexts
  <2>2. Become(c, Done(rcv[c])) /\ rcv[c].pc # "absent" /\ UNCHANGED <<sender, announced>>
    BY <1>15 DEF WriteTicket
  <2>3. kept' = kept \/ kept' = [kept EXCEPT ![c] = @ + 1]
    BY <1>15 DEF WriteTicket
  <2>4. kept' \in [Conns -> Nat] /\ \A d \in Conns \ {c} : kept'[d] = kept[d]
    BY <1>0, <2>3
  <2> QED
    BY <2>1, <2>2, <2>4, Becomes
<1>16. CASE SendAck(c)
  <2> DEFINE r == [rcv[c] EXCEPT !.pc = "line", !.at = @ + 1]
             s == [rcv[c] EXCEPT !.pc = "end"]
  <2>1. Sound(r) /\ r.pc = "line" /\ Sound(s) /\ s.pc = "end"
    BY <1>0 DEF Sound
  <2>2. Become(c, r) \/ Become(c, s)
    BY <1>16 DEF SendAck
  <2>3. rcv[c].pc # "absent" /\ UNCHANGED <<sender, announced, kept>>
    BY <1>16 DEF SendAck
  <2> HIDE DEF r, s
  <2> QED
    BY <2>1, <2>2, <2>3, Continues
<1>17. CASE SendLastAck(c)
  <2> DEFINE r == [rcv[c] EXCEPT !.pc = "close"]
             s == [rcv[c] EXCEPT !.pc = "answer"]
  <2>1. Sound(r) /\ r.pc = "close" /\ Sound(s) /\ s.pc = "answer"
    BY <1>0 DEF Sound
  <2>2. Become(c, r) \/ Become(c, s)
    BY <1>17 DEF SendLastAck
  <2>3. rcv[c].pc # "absent" /\ UNCHANGED <<sender, announced, kept>>
    BY <1>17 DEF SendLastAck
  <2> HIDE DEF r, s
  <2> QED
    BY <2>1, <2>2, <2>3, Continues
<1>18. CASE AtEnd(c)
  <2> DEFINE p == CASE rcv[c].discard /\ rcv[c].num # Nobody                    -> "toolarge"
                    [] rcv[c].discard /\ rcv[c].num = Nobody                    -> "close"
                    [] ~rcv[c].discard /\ rcv[c].files = {}                     -> "close"
                    [] ~rcv[c].discard /\ rcv[c].files # {} /\ rcv[c].num # Nobody -> "check"
                    [] OTHER                                                    -> "dead"
             r == [rcv[c] EXCEPT !.next = "close", !.pc = p]
  <2>1. p \in {"toolarge", "close", "check", "dead"}
    OBVIOUS
  <2>2. Become(c, r) /\ rcv[c].pc # "absent" /\ UNCHANGED <<sender, announced, kept>>
    BY <1>18 DEF AtEnd
  <2> HIDE DEF p
  <2>3. Sound(r) /\ r.pc # "ended"
    BY <1>0, <2>1 DEF Sound, Nexts
  <2> HIDE DEF r
  <2> QED
    BY <2>2, <2>3, Continues
<1>19. CASE Close(c)
  <2> DEFINE r == [rcv[c] EXCEPT !.pc = "ended"]
  <2>1. Sound(r)
    BY <1>0 DEF Sound
  <2>2. Become(c, r) /\ rcv[c].pc # "absent" /\ UNCHANGED <<sender, kept>>
    BY <1>19 DEF Close
  <2>3. announced' = announced \cup {c}
    BY <1>19 DEF Close
  <2> HIDE DEF r
  <2> QED
    BY <1>0, <2>1, <2>2, <2>3, Becomes
<1>20. CASE Error(c)
  <2> DEFINE r == [rcv[c] EXCEPT !.pc = "answer"]
  <2>1. Sound(r) /\ r.pc = "answer"
    BY <1>0 DEF Sound
  <2>2. Become(c, r) /\ rcv[c].pc # "absent" /\ UNCHANGED <<sender, announced, kept>>
    BY <1>20 DEF Error
  <2> HIDE DEF r
  <2> QED
    BY <2>1, <2>2, Continues
<1>21. CASE AnswerError(c)
  <2> DEFINE r == [rcv[c] EXCEPT !.pc = "ended", !.error = TRUE]
  <2>1. Sound(r) /\ r.error
    BY <1>0 DEF Sound
  <2>2. Become(c, r) /\ rcv[c].pc # "absent" /\ UNCHANGED <<sender, announced, kept>>
    BY <1>21 DEF AnswerError
  <2> HIDE DEF r
  <2> QED
    BY <1>0, <2>1, <2>2, Becomes
<1> QED
  BY <1>2, <1>3, <1>4, <1>5, <1>6, <1>7, <1>8, <1>9, <1>10, <1>11, <1>12, <1>13,
     <1>14, <1>15, <1>16, <1>17, <1>18, <1>19, <1>20, <1>21 DEF ReceiverStep

\* The sender of a job goes on, or gives up this connection: Give(j).
LEMMA SenderGoesOn ==
    ASSUME AnnounceInv, NEW j \in Jobs, UNCHANGED <<rcv, announced, kept>>,
           \/ \E state \in {"wait", "sent"} : sender' = [sender EXCEPT ![j].state = state]
           \/ sender' = [sender EXCEPT ![j].state = "send", ![j].pos = @ + 1]
           \/ Give(j)
    PROVE  AnnounceInv'
<1>1. sender \in [Jobs -> SenderState]
  BY DEF AnnounceInv
<1>2. sender' \in [Jobs -> SenderState] /\ \A i \in Jobs : sender'[i].attempt = sender[i].attempt
  <2>1. CASE \E state \in {"wait", "sent"} : sender' = [sender EXCEPT ![j].state = state]
    BY <1>1, <2>1 DEF SenderState
  <2>2. CASE sender' = [sender EXCEPT ![j].state = "send", ![j].pos = @ + 1]
    BY <1>1, <2>2 DEF SenderState
  <2>3. CASE Give(j)
    BY <1>1, <2>3 DEF SenderState, Give
  <2> QED
    BY <2>1, <2>2, <2>3
<1> QED
  BY <1>2, SenderStays

\* A new attempt has a receiver of its own.
LEMMA ConnectKeeps ==
    ASSUME AnnounceInv, NEW j \in Jobs, Connect(j)
    PROVE  AnnounceInv'
<1>0. PICK c : c = <<j, sender[j].attempt + 1>>
  OBVIOUS
<1>1. /\ sender \in [Jobs -> SenderState] /\ DOMAIN rcv = Conns
      /\ kept \in [Conns -> Nat] /\ FutureInv /\ \A d \in Conns : ReceiverInv(d)
  BY DEF AnnounceInv
<1>2. sender[j].attempt \in Nat /\ sender[j].attempt + 1 \in 1 .. MaxAttempts
  BY <1>1, AttemptAssumption DEF Connect, SenderState
<1>3. c \in Conns /\ rcv[c].pc = "absent"
  BY <1>0, <1>1, <1>2 DEF FutureInv, Conns
<1>4. /\ sender' = [sender EXCEPT ![j] =
                      [state |-> "send", attempt |-> sender[j].attempt + 1, pos |-> 1]]
      /\ rcv' = [rcv EXCEPT ![c].pc = "request"]
      /\ UNCHANGED <<announced, kept>>
  BY <1>0 DEF Connect
<1>5. sender' \in [Jobs -> SenderState]
  BY <1>1, <1>2, <1>4 DEF SenderState
<1>6. DOMAIN rcv' = Conns /\ \A d \in Conns \ {c} : rcv'[d] = rcv[d]
  BY <1>1, <1>4
<1>7. ReceiverInv(c) /\ rcv'[c] = [rcv[c] EXCEPT !.pc = "request"]
  BY <1>1, <1>3, <1>4
<1>8. ReceiverInv(c)'
  <2>1. /\ rcv'[c].pc = "request" /\ rcv'[c].next = rcv[c].next
        /\ {"pc", "next", "error"} \subseteq DOMAIN rcv'[c]
    BY <1>7 DEF ReceiverInv
  <2>2. kept'[c] = 0
    BY <1>3, <1>4, <1>7 DEF ReceiverInv
  <2> QED
    BY <1>7, <2>1, <2>2 DEF ReceiverInv
<1>9. ASSUME NEW d \in Conns PROVE ReceiverInv(d)'
  <2>1. CASE d = c
    BY <1>8, <2>1
  <2>2. CASE d # c
    BY <1>1, <1>4, <1>6, <2>2 DEF ReceiverInv
  <2> QED
    BY <2>1, <2>2
<1>10. ASSUME NEW i \in Jobs, NEW a \in 1 .. MaxAttempts, a > sender'[i].attempt
       PROVE  rcv'[<<i, a>>].pc = "absent"
  <2>1. a > sender[i].attempt /\ <<i, a>> # c
    BY <1>0, <1>1, <1>2, <1>4, <1>10 DEF SenderState
  <2>2. <<i, a>> \in Conns /\ rcv[<<i, a>>].pc = "absent"
    BY <1>1, <2>1 DEF FutureInv, Conns
  <2> QED
    BY <1>6, <2>1, <2>2
<1>11. FutureInv'
  BY <1>10 DEF FutureInv
<1> QED
  BY <1>4, <1>1, <1>5, <1>6, <1>9, <1>11 DEF AnnounceInv

\* A receiver is killed, or lprm takes an INCOMING_PID that names nobody.
LEMMA DiesKeeps ==
    ASSUME AnnounceInv, NEW c, Dies(c), ~Stopped(c), UNCHANGED <<sender, announced, kept>>
    PROVE  AnnounceInv'
<1>1. DOMAIN rcv = Conns /\ kept \in [Conns -> Nat] /\ \A d \in Conns : ReceiverInv(d)
  BY DEF AnnounceInv
<1>2. rcv' = [rcv EXCEPT ![c].pc = "dead"]
  BY DEF Dies
<1>3. DOMAIN rcv' = Conns /\ \A d \in Conns \ {c} : rcv'[d] = rcv[d]
  BY <1>1, <1>2
<1>4. ASSUME c \in Conns PROVE rcv[c].pc # "absent" /\ ReceiverInv(c)'
  <2>1. ReceiverInv(c) /\ rcv'[c] = [rcv[c] EXCEPT !.pc = "dead"]
    BY <1>1, <1>2, <1>4
  <2> QED
    BY <2>1 DEF ReceiverInv, Stopped
<1> QED
  BY <1>1, <1>3, <1>4, ReceiverMoves

LEMMA StepAnnounce == AnnounceInv /\ [TransferNext]_vars => AnnounceInv'
<1> SUFFICES ASSUME AnnounceInv, [TransferNext]_vars
             PROVE  AnnounceInv'
  OBVIOUS
<1>1. CASE UNCHANGED vars
  BY <1>1, QuietStep DEF vars
<1>2. ASSUME NEW j \in Jobs, SenderStep(j) \/ SendCut(j) \/ TimesOut(j)
      PROVE  AnnounceInv'
  <2>1. CASE Connect(j)
    BY <2>1, ConnectKeeps
  <2>2. CASE Send(j)
    BY <2>2, SenderGoesOn DEF Send, SendFails
  <2>3. CASE GetAck(j)
    BY <2>3, SenderGoesOn DEF GetAck, SendFails
  <2>4. CASE NoAck(j)
    BY <2>4, SenderGoesOn DEF NoAck, SendFails
  <2>5. CASE SendCut(j)
    BY <2>5, SenderGoesOn DEF SendCut, SendFails
  <2>6. CASE TimesOut(j)
    BY <2>6, SenderGoesOn DEF TimesOut, SendFails
  <2> QED
    BY <1>2, <2>1, <2>2, <2>3, <2>4, <2>5, <2>6 DEF SenderStep
<1>3. ASSUME NEW c \in Conns, ReceiverStep(c) \/ Break(c) \/ ReceiverDies(c)
      PROVE  AnnounceInv'
  <2>1. CASE ReceiverStep(c)
    BY <2>1, ReceiverKeeps
  <2>2. CASE Break(c)
    BY <2>2, QuietStep DEF Break
  <2>3. CASE ReceiverDies(c)
    BY <2>3, DiesKeeps DEF ReceiverDies
  <2> QED
    BY <1>3, <2>1, <2>2, <2>3
<1>4. ASSUME NEW n \in Numbers, LprmIncoming(n) \/ RemoveStale(n) \/ Serve(n)
      PROVE  AnnounceInv'
  <2>1. CASE LprmIncoming(n)
    BY <2>1, DiesKeeps DEF LprmIncoming
  <2>2. CASE RemoveStale(n)
    BY <2>2, QuietStep DEF RemoveStale
  <2>3. CASE Serve(n)
    BY <2>3, QuietStep DEF Serve
  <2> QED
    BY <1>4, <2>1, <2>2, <2>3
<1> QED
  BY <1>1, <1>2, <1>3, <1>4 DEF TransferNext

\* A receiver that put a job into the queue and came to its end has named the
\* queue to lpd, or has told the sender of an error (Receive_job() and
\* Receive_block_job() of lpd_rcvjob.c, whatever is lost or killed on the way).
THEOREM KeptIsToldToLpd == TransferSpec => []KeptIsAnnounced
<1>1. AnnounceInv => KeptIsAnnounced
  BY DEF AnnounceInv, ReceiverInv, KeptIsAnnounced
<1> QED
  BY <1>1, InitAnnounce, StepAnnounce, PTL DEF TransferSpec

-----------------------------------------------------------------------------
(* Types.                                                                   *)

Ids == Conns \X Nat

Receivers ==
    [pc : ReceiverPc, at : Nat, files : SUBSET Nat, control : Nat,
     num : Numbers \cup {Nobody}, try : Numbers, empty : BOOLEAN,
     file : Ids \cup {Nobody}, locked : BOOLEAN, discard : BOOLEAN,
     next : Nexts, error : BOOLEAN, refused : BOOLEAN]

Tickets == [state : {"none", "empty", "incoming", "queued", "error"},
            made : Ids \cup {Nobody}, job : Ids \cup {Nobody},
            pid : Conns \cup {Nobody}]

\* The processes and the spool directory have their types.
SpoolTypes ==
    /\ order \in Orders /\ large \in Nat
    /\ sender \in [Jobs -> SenderState]
    /\ rcv \in [Conns -> Receivers]
    /\ ticket \in [Numbers -> Tickets]
    /\ disk \in [Numbers -> SUBSET (Conns \X Nat)]
    /\ lockOf \in [Numbers -> Conns \cup {Nobody}]
    /\ kept \in [Conns -> Nat]

LEMMA FirstTry == 1 \in Numbers /\ \A n \in Numbers : NextNumber(n) \in Numbers
  BY NumberAssumption DEF Numbers, NextNumber

LEMMA NeededFiles == \A f \in Nat : Needed(f) \subseteq Nat
  BY DEF Needed

LEMMA AbsentTyped == Absent \in Receivers
  BY FirstTry DEF Absent, Receivers, ReceiverPc, Nexts

LEMMA NoTicketTyped == NoTicket \in Tickets
  BY DEF NoTicket, Tickets

LEMMA InitTypes == TransferInit => SpoolTypes
<1> SUFFICES ASSUME TransferInit PROVE SpoolTypes
  OBVIOUS
<1>1. sender \in [Jobs -> SenderState]
  BY DEF TransferInit, SenderState
<1>2. rcv \in [Conns -> Receivers]
  BY AbsentTyped DEF TransferInit
<1>3. ticket \in [Numbers -> Tickets]
  BY NoTicketTyped DEF TransferInit
<1> QED
  BY <1>1, <1>2, <1>3 DEF TransferInit, SpoolTypes

\* A receiver goes on and leaves the spool directory alone.
LEMMA TypedReceiver ==
    ASSUME SpoolTypes, NEW c \in Conns, NEW r \in Receivers, Become(c, r),
           UNCHANGED <<order, large, sender, spoolVars, kept>>
    PROVE  SpoolTypes'
  BY DEF SpoolTypes, Become, spoolVars

LEMMA UnlinkTyped ==
    ASSUME SpoolTypes, NEW n, Unlink(n)
    PROVE  /\ ticket' \in [Numbers -> Tickets]
           /\ disk' \in [Numbers -> SUBSET (Conns \X Nat)]
           /\ lockOf' \in [Numbers -> Conns \cup {Nobody}]
<1>1. CASE n \in Numbers
  BY <1>1, NoTicketTyped DEF SpoolTypes, Unlink
<1>2. CASE n \notin Numbers
  BY <1>2 DEF SpoolTypes, Unlink
<1> QED
  BY <1>1, <1>2

LEMMA DoneTyped == \A r \in Receivers : Done(r) \in Receivers
<1> SUFFICES ASSUME NEW r \in Receivers PROVE Done(r) \in Receivers
  OBVIOUS
<1>1. r.next \in Nexts /\ FileOf(r.at) \in Nat
  BY DEF Receivers, FileOf
<1>2. Nexts \subseteq ReceiverPc
  BY DEF Nexts, ReceiverPc
<1>3. CASE r.next \in {"open", "ack"}
  BY <1>1, <1>2, <1>3, FirstTry DEF Done, Receivers, FirstNumber
<1>4. CASE r.next \notin {"open", "ack"}
  BY <1>1, <1>2, <1>4 DEF Done, Receivers
<1> QED
  BY <1>3, <1>4

LEMMA FailedTyped == \A r \in Receivers : Failed(r) \in Receivers
  BY DEF Failed, Receivers, ReceiverPc

LEMMA ReceiverTyped ==
    ASSUME SpoolTypes, NEW c \in Conns, ReceiverStep(c)
    PROVE  SpoolTypes'
<1>0. rcv[c] \in Receivers /\ Failed(rcv[c]) \in Receivers /\ FileOf(rcv[c].at) \in Nat
  BY FailedTyped DEF SpoolTypes, Receivers, FileOf
<1>1. CASE TakeRequest(c)
  <2>1. [rcv[c] EXCEPT !.at = 2, !.pc = "line"] \in Receivers
    BY <1>0 DEF Receivers, ReceiverPc
  <2>2. PICK r \in Receivers : Become(c, r)
    BY <1>0, <1>1, <2>1 DEF TakeRequest
  <2> QED
    BY <1>1, <2>2, TypedReceiver DEF TakeRequest
<1>2. CASE TakeBlockRequest(c)
  <2>1. [rcv[c] EXCEPT !.at = 2, !.pc = "body", !.discard = large # 0] \in Receivers
    BY <1>0 DEF Receivers, ReceiverPc, SpoolTypes
  <2>2. PICK r \in Receivers : Become(c, r)
    BY <1>0, <1>2, <2>1, FailedTyped DEF TakeBlockRequest
  <2> QED
    BY <1>2, <2>2, TypedReceiver DEF TakeBlockRequest
<1>3. CASE NoRequest(c)
  <2>1. [rcv[c] EXCEPT !.pc = "ended"] \in Receivers
    BY <1>0 DEF Receivers, ReceiverPc
  <2> QED
    BY <1>3, <2>1, TypedReceiver DEF NoRequest
<1>4. CASE TakeLine(c)
  <2> DEFINE tooLarge == large = FileOf(rcv[c].at)
             k == rcv[c].at + 1
             d == rcv[c].discard \/ tooLarge
             r == [rcv[c] EXCEPT !.at = @ + 1, !.pc = "body", !.discard = @ \/ tooLarge]
  <2>1. d \in BOOLEAN /\ k \in Nat
    BY <1>0 DEF Receivers
  <2>2. r \in Receivers
    <3>1. r = [rcv[c] EXCEPT !.at = k, !.pc = "body", !.discard = d]
      BY <1>0 DEF Receivers
    <3> HIDE DEF k, d, r
    <3> QED
      BY <1>0, <2>1, <3>1 DEF Receivers, ReceiverPc
  <2>3. Become(c, r) \/ Become(c, Failed(r)) \/ Become(c, Failed(rcv[c]))
    BY <1>4 DEF TakeLine
  <2> HIDE DEF r
  <2>4. PICK s \in Receivers : Become(c, s)
    BY <1>0, <2>2, <2>3, FailedTyped
  <2> QED
    BY <1>4, <2>4, TypedReceiver DEF TakeLine
<1>5. CASE EndOfInput(c)
  <2>1. [rcv[c] EXCEPT !.pc = "end"] \in Receivers
    BY <1>0 DEF Receivers, ReceiverPc
  <2> QED
    BY <1>5, <2>1, TypedReceiver DEF EndOfInput
<1>6. CASE TakeBody(c)
  <2> DEFINE f == FileOf(rcv[c].at)
             g == IF rcv[c].discard THEN rcv[c].files ELSE rcv[c].files \cup {f}
             q == IF rcv[c].discard THEN "toolarge" ELSE "check"
  <2>1. g \in SUBSET Nat /\ f \in Nat /\ q \in {"toolarge", "check"}
    BY <1>0 DEF Receivers, FileOf
  <2>2. \/ Become(c, [rcv[c] EXCEPT !.pc = "ack", !.files = g])
        \/ Become(c, [rcv[c] EXCEPT !.pc = "open", !.control = f])
        \/ Become(c, [rcv[c] EXCEPT !.pc = q, !.next = "open"])
    BY <1>6 DEF TakeBody
  <2> HIDE DEF f, g, q
  <2>3. /\ [rcv[c] EXCEPT !.pc = "ack", !.files = g] \in Receivers
        /\ [rcv[c] EXCEPT !.pc = "open", !.control = f] \in Receivers
        /\ [rcv[c] EXCEPT !.pc = q, !.next = "open"] \in Receivers
    BY <1>0, <2>1, ZenonT(40) DEF Receivers, ReceiverPc, Nexts
  <2>4. PICK r \in Receivers : Become(c, r)
    BY <2>2, <2>3
  <2> QED
    BY <1>6, <2>4, TypedReceiver DEF TakeBody
<1>7. CASE TakeBlock(c)
  <2> DEFINE F == {i \in Needed(1) : InSize(i)}
  <2>0. F \in SUBSET Nat
    BY NeededFiles
  <2>1. [rcv[c] EXCEPT !.pc = "open", !.control = 1, !.files = F] \in Receivers
    <3> HIDE DEF F
    <3> QED
      BY <1>0, <2>0 DEF Receivers, ReceiverPc
  <2> QED
    BY <1>7, <2>1, TypedReceiver DEF TakeBlock
<1>8. CASE BodyFails(c)
  BY <1>0, <1>8, TypedReceiver DEF BodyFails
<1>9. CASE OpenTicket(c)
  <2> DEFINE n == rcv[c].try
             new == ticket[n].state = "none"
             id == <<c, rcv[c].control>>
             r == [rcv[c] EXCEPT !.pc = "lock",
                     !.empty = ticket[n].state \in {"none", "empty"},
                     !.file = IF new THEN id ELSE ticket[n].made]
  <2>1. n \in Numbers /\ id \in Ids /\ ticket[n] \in Tickets
    BY <1>0 DEF Receivers, Ids, SpoolTypes
  <2>2. r \in Receivers
    <3> DEFINE e == ticket[n].state \in {"none", "empty"}
               f == IF new THEN id ELSE ticket[n].made
    <3>1. f \in Ids \cup {Nobody} /\ e \in BOOLEAN
      BY <2>1 DEF Tickets
    <3>2. r = [rcv[c] EXCEPT !.pc = "lock", !.empty = e, !.file = f]
      OBVIOUS
    <3> HIDE DEF e, f, r
    <3> QED
      BY <1>0, <3>1, <3>2 DEF Receivers, ReceiverPc
  <2>3. ticket' \in [Numbers -> Tickets]
    BY <1>9, <2>1 DEF OpenTicket, SpoolTypes, Tickets
  <2>4. Become(c, r)
    BY <1>9 DEF OpenTicket
  <2> HIDE DEF r
  <2> QED
    BY <1>9, <2>2, <2>3, <2>4 DEF OpenTicket, SpoolTypes, Become
<1>10. CASE LockTicket(c)
  <2> DEFINE n == rcv[c].try
             hold == order = "data" /\ rcv[c].files # {}
             p == CASE hold /\ rcv[c].discard  -> "toolarge"
                    [] hold /\ ~rcv[c].discard -> "check"
                    [] order = "block"               -> "blockdata"
                    [] OTHER                         -> "ack"
             r == [rcv[c] EXCEPT !.num = n, !.locked = hold, !.next = "ack",
                                 !.pc = p]
             again == [rcv[c] EXCEPT !.try = NextNumber(n), !.pc = "open"]
  <2>1. p \in {"toolarge", "check", "blockdata", "ack"}
    OBVIOUS
  <2>2. Become(c, r) \/ Become(c, Failed(rcv[c])) \/ Become(c, again)
    BY <1>10 DEF LockTicket
  <2>3. n \in Numbers /\ NextNumber(n) \in Numbers /\ <<c, rcv[c].control>> \in Ids
        /\ ticket[n] \in Tickets
    BY <1>0, FirstTry DEF Receivers, Ids, SpoolTypes
  <2>4. r \in Receivers /\ again \in Receivers
    <3> DEFINE l == hold
               m == NextNumber(n)
    <3>1. r = [rcv[c] EXCEPT !.num = n, !.locked = l, !.next = "ack", !.pc = p]
          /\ again = [rcv[c] EXCEPT !.try = m, !.pc = "open"] /\ l \in BOOLEAN
          /\ m \in Numbers
      BY <2>3
    <3> HIDE DEF l, m, n, p, r, again
    <3>2. r \in Receivers
      BY <1>0, <2>1, <2>3, <3>1, ZenonT(40) DEF Receivers, ReceiverPc, Nexts
    <3>3. again \in Receivers
      BY <1>0, <3>1 DEF Receivers, ReceiverPc
    <3> QED
      BY <3>2, <3>3
  <2>5. ticket' \in [Numbers -> Tickets]
    <3> DEFINE t == [ticket[n] EXCEPT !.state = "incoming", !.pid = c,
                                      !.job = <<c, rcv[c].control>>]
    <3>1. t \in Tickets
      BY <2>3 DEF Tickets
    <3>2. ticket' = ticket \/ ticket' = [ticket EXCEPT ![n] = t]
      BY <1>10 DEF LockTicket
    <3> HIDE DEF t, n
    <3> QED
      BY <2>3, <3>1, <3>2 DEF SpoolTypes
  <2>6. lockOf' \in [Numbers -> Conns \cup {Nobody}]
    <3>1. lockOf' = lockOf \/ lockOf' = [lockOf EXCEPT ![n] = c]
      BY <1>10 DEF LockTicket
    <3> QED
      BY <3>1 DEF SpoolTypes
  <2> HIDE DEF r, again, n
  <2>7. rcv' \in [Conns -> Receivers]
    BY <1>0, <2>2, <2>4 DEF Become, SpoolTypes
  <2> QED
    BY <1>10, <2>5, <2>6, <2>7 DEF LockTicket, SpoolTypes
<1>11. CASE BlockData(c)
  <2> DEFINE nothing == rcv[c].discard /\ rcv[c].files = {}
             p == CASE nothing                      -> "lastack"
                    [] rcv[c].discard /\ ~nothing   -> "toolarge"
                    [] OTHER                        -> "check"
             r == [rcv[c] EXCEPT !.next = "lastack", !.pc = p]
  <2>1. Become(c, r) /\ UNCHANGED <<order, large, sender, kept>>
    BY <1>11 DEF BlockData
  <2>2. p \in {"lastack", "toolarge", "check"}
    OBVIOUS
  <2> HIDE DEF p
  <2>3. r \in Receivers
    BY <1>0, <2>2 DEF Receivers, ReceiverPc, Nexts
  <2> HIDE DEF r
  <2>4. CASE nothing
    <3>1. Unlink(rcv[c].num)
      BY <1>11, <2>4 DEF BlockData
    <3> QED
      BY <2>1, <2>3, <3>1, UnlinkTyped DEF SpoolTypes, Become
  <2>5. CASE ~nothing
    BY <1>11, <2>1, <2>3, <2>5, TypedReceiver DEF BlockData
  <2> QED
    BY <2>4, <2>5
<1>12. CASE CheckFails(c)
  <2>1. Whole(rcv[c]) \in BOOLEAN
    BY DEF Whole
  <2>2. [rcv[c] EXCEPT !.pc = "error", !.refused = Whole(rcv[c])] \in Receivers
    BY <1>0, <2>1 DEF Receivers, ReceiverPc
  <2>3. Unlink(rcv[c].num)
    BY <1>12 DEF CheckFails
  <2>4. /\ ticket' \in [Numbers -> Tickets]
        /\ disk' \in [Numbers -> SUBSET (Conns \X Nat)]
        /\ lockOf' \in [Numbers -> Conns \cup {Nobody}]
    BY <2>3, UnlinkTyped
  <2> QED
    BY <1>12, <2>2, <2>4 DEF CheckFails, SpoolTypes, Become
<1>13. CASE CheckPasses(c)
  <2>1. [rcv[c] EXCEPT !.pc = "write"] \in Receivers
    BY <1>0 DEF Receivers, ReceiverPc
  <2>2. rcv[c].files \subseteq Nat
    BY <1>0 DEF Receivers
  <2>3. disk' \in [Numbers -> SUBSET (Conns \X Nat)]
    BY <1>13, <2>2 DEF CheckPasses, SpoolTypes
  <2> QED
    BY <1>13, <2>1, <2>3 DEF CheckPasses, SpoolTypes, Become
<1>14. CASE WriteTicket(c)
  <2>1. Done(rcv[c]) \in Receivers /\ <<c, rcv[c].control>> \in Ids
    BY <1>0, DoneTyped DEF Receivers, Ids
  <2>2. ticket' \in [Numbers -> Tickets]
    <3> DEFINE n == rcv[c].num
               s == IF rcv[c].pc = "write" THEN "queued" ELSE "error"
               id == <<c, rcv[c].control>>
    <3>1. ticket' = ticket \/ ticket' = [ticket EXCEPT ![n].pid = Nobody, ![n].job = id,
                                                      ![n].state = s]
      BY <1>14 DEF WriteTicket
    <3>2. s \in {"queued", "error"} /\ id \in Ids
      BY <2>1
    <3> HIDE DEF s, id, n
    <3> QED
      BY <3>1, <3>2 DEF SpoolTypes, Tickets
  <2>3. kept' \in [Conns -> Nat]
    <3>1. kept' = kept \/ kept' = [kept EXCEPT ![c] = @ + 1]
      BY <1>14 DEF WriteTicket
    <3> QED
      BY <3>1 DEF SpoolTypes
  <2>4. lockOf' \in [Numbers -> Conns \cup {Nobody}]
    <3>1. lockOf' = lockOf \/ lockOf' = [lockOf EXCEPT ![rcv[c].num] = Nobody]
      BY <1>14 DEF WriteTicket
    <3> QED
      BY <3>1 DEF SpoolTypes
  <2> QED
    BY <1>14, <2>1, <2>2, <2>3, <2>4 DEF WriteTicket, SpoolTypes, Become
<1>15. CASE SendAck(c)
  <2>1. /\ [rcv[c] EXCEPT !.pc = "line", !.at = @ + 1] \in Receivers
        /\ [rcv[c] EXCEPT !.pc = "end"] \in Receivers
    <3> DEFINE k == rcv[c].at + 1
    <3>1. k \in Nat /\ [rcv[c] EXCEPT !.pc = "line", !.at = @ + 1]
                      = [rcv[c] EXCEPT !.pc = "line", !.at = k]
      BY <1>0 DEF Receivers
    <3> HIDE DEF k
    <3> QED
      BY <1>0, <3>1, ZenonT(40) DEF Receivers, ReceiverPc
  <2>2. PICK r \in Receivers : Become(c, r)
    BY <1>15, <2>1 DEF SendAck
  <2> QED
    BY <1>15, <2>2, TypedReceiver DEF SendAck
<1>16. CASE SendLastAck(c)
  <2>1. /\ [rcv[c] EXCEPT !.pc = "close"] \in Receivers
        /\ [rcv[c] EXCEPT !.pc = "answer"] \in Receivers
    BY <1>0 DEF Receivers, ReceiverPc
  <2>2. PICK r \in Receivers : Become(c, r)
    BY <1>16, <2>1 DEF SendLastAck
  <2> QED
    BY <1>16, <2>2, TypedReceiver DEF SendLastAck
<1>17. CASE AtEnd(c)
  <2> DEFINE p == CASE rcv[c].discard /\ rcv[c].num # Nobody                    -> "toolarge"
                    [] rcv[c].discard /\ rcv[c].num = Nobody                    -> "close"
                    [] ~rcv[c].discard /\ rcv[c].files = {}                     -> "close"
                    [] ~rcv[c].discard /\ rcv[c].files # {} /\ rcv[c].num # Nobody -> "check"
                    [] OTHER                                                    -> "dead"
             r == [rcv[c] EXCEPT !.next = "close", !.pc = p]
  <2>1. p \in {"toolarge", "close", "check", "dead"}
    OBVIOUS
  <2>2. Become(c, r)
    BY <1>17 DEF AtEnd
  <2> HIDE DEF p
  <2>3. r \in Receivers
    BY <1>0, <2>1 DEF Receivers, ReceiverPc, Nexts
  <2> HIDE DEF r
  <2> QED
    BY <1>17, <2>2, <2>3, TypedReceiver DEF AtEnd
<1>18. CASE Close(c)
  <2>1. [rcv[c] EXCEPT !.pc = "ended"] \in Receivers
    BY <1>0 DEF Receivers, ReceiverPc
  <2> QED
    BY <1>18, <2>1, TypedReceiver DEF Close
<1>19. CASE Error(c)
  <2>1. [rcv[c] EXCEPT !.pc = "answer"] \in Receivers
    BY <1>0 DEF Receivers, ReceiverPc
  <2>2. /\ ticket' \in [Numbers -> Tickets]
        /\ disk' \in [Numbers -> SUBSET (Conns \X Nat)]
        /\ lockOf' \in [Numbers -> Conns \cup {Nobody}]
    <3>1. rcv[c].num \in Numbers \cup {Nobody}
      BY <1>0 DEF Receivers
    <3>2. CASE rcv[c].num # Nobody
      BY <1>19, <3>1, <3>2, UnlinkTyped DEF Error
    <3>3. CASE rcv[c].num = Nobody
      BY <1>19, <3>3 DEF Error, spoolVars, SpoolTypes
    <3> QED
      BY <3>2, <3>3
  <2> QED
    BY <1>19, <2>1, <2>2 DEF Error, SpoolTypes, Become
<1>20. CASE AnswerError(c)
  <2>1. [rcv[c] EXCEPT !.pc = "ended", !.error = TRUE] \in Receivers
    BY <1>0 DEF Receivers, ReceiverPc
  <2> QED
    BY <1>20, <2>1, TypedReceiver DEF AnswerError
<1> QED
  BY <1>1, <1>2, <1>3, <1>4, <1>5, <1>6, <1>7, <1>8, <1>9, <1>10, <1>11, <1>12,
     <1>13, <1>14, <1>15, <1>16, <1>17, <1>18, <1>19, <1>20 DEF ReceiverStep

LEMMA DiesTyped ==
    ASSUME SpoolTypes, NEW c, Dies(c)
    PROVE  rcv' \in [Conns -> Receivers]
<1>1. rcv' = [rcv EXCEPT ![c] = [rcv[c] EXCEPT !.pc = "dead"]]
  BY DEF Dies
<1>2. c \in Conns => [rcv[c] EXCEPT !.pc = "dead"] \in Receivers
  <2>1. c \in Conns => rcv[c] \in Receivers
    BY DEF SpoolTypes
  <2> HIDE DEF SpoolTypes
  <2> QED
    BY <2>1 DEF Receivers, ReceiverPc
<1> QED
  BY <1>1, <1>2 DEF SpoolTypes

LEMMA GiveTyped ==
    ASSUME SpoolTypes, NEW j \in Jobs, Give(j)
    PROVE  sender' \in [Jobs -> SenderState]
<1> DEFINE s == IF sender[j].attempt < MaxAttempts THEN "idle" ELSE "gaveup"
           g == [state |-> s, attempt |-> sender[j].attempt, pos |-> 1]
<1>1. sender' = [sender EXCEPT ![j] = g] /\ s \in {"idle", "gaveup"}
  BY DEF Give, SpoolTypes
<1>2. g \in SenderState
  BY <1>1 DEF SpoolTypes, SenderState
<1> QED
  BY <1>1, <1>2 DEF SpoolTypes

LEMMA StepTypes == SpoolTypes /\ [TransferNext]_vars => SpoolTypes'
<1> SUFFICES ASSUME SpoolTypes, [TransferNext]_vars PROVE SpoolTypes'
  OBVIOUS
<1>1. CASE UNCHANGED vars
  BY <1>1 DEF vars, spoolVars, SpoolTypes
<1>2. ASSUME NEW j \in Jobs, SenderStep(j) \/ SendCut(j) \/ TimesOut(j)
      PROVE  SpoolTypes'
  <2>1. CASE Connect(j)
    <3> DEFINE c == <<j, sender[j].attempt + 1>>
    <3>1. sender' = [sender EXCEPT ![j] = [state |-> "send", attempt |-> c[2], pos |-> 1]]
          /\ rcv' = [rcv EXCEPT ![c].pc = "request"]
      BY <2>1 DEF Connect
    <3> HIDE DEF c
    <3>2. rcv' \in [Conns -> Receivers]
      <4>1. c \in Conns => [rcv[c] EXCEPT !.pc = "request"] \in Receivers
        <5>1. c \in Conns => rcv[c] \in Receivers
          BY DEF SpoolTypes
        <5> HIDE DEF SpoolTypes
        <5> QED
          BY <5>1, ZenonT(40) DEF Receivers, ReceiverPc
      <4> QED
        BY <3>1, <4>1 DEF SpoolTypes
    <3>3. sender' \in [Jobs -> SenderState]
      BY <3>1 DEF SpoolTypes, SenderState, c
    <3> QED
      BY <2>1, <3>2, <3>3 DEF Connect, spoolVars, SpoolTypes
  <2>2. CASE Send(j) \/ NoAck(j) \/ SendCut(j) \/ TimesOut(j)
    <3>1. Give(j) \/ sender' = [sender EXCEPT ![j].state = "wait"]
      BY <2>2 DEF Send, NoAck, SendCut, TimesOut, SendFails
    <3>2. sender' \in [Jobs -> SenderState]
      BY <3>1, GiveTyped DEF SpoolTypes, SenderState
    <3> QED
      BY <2>2, <3>2 DEF Send, NoAck, SendCut, TimesOut, SpoolTypes, spoolVars
  <2>3. CASE GetAck(j)
    <3>1. \/ Give(j) \/ sender' = [sender EXCEPT ![j].state = "sent"]
          \/ sender' = [sender EXCEPT ![j].state = "send", ![j].pos = @ + 1]
      BY <2>3 DEF GetAck, SendFails
    <3>2. sender' \in [Jobs -> SenderState]
      BY <3>1, GiveTyped DEF SpoolTypes, SenderState
    <3> QED
      BY <2>3, <3>2 DEF GetAck, SpoolTypes, spoolVars
  <2> QED
    BY <1>2, <2>1, <2>2, <2>3 DEF SenderStep
<1>3. ASSUME NEW c \in Conns, ReceiverStep(c) \/ Break(c) \/ ReceiverDies(c)
      PROVE  SpoolTypes'
  <2>1. CASE ReceiverStep(c)
    BY <2>1, ReceiverTyped
  <2>2. CASE Break(c)
    BY <2>2 DEF Break, SpoolTypes, spoolVars
  <2>3. CASE ReceiverDies(c)
    BY <2>3, DiesTyped DEF ReceiverDies, SpoolTypes
  <2> QED
    BY <1>3, <2>1, <2>2, <2>3
<1>4. ASSUME NEW n \in Numbers, LprmIncoming(n) \/ RemoveStale(n) \/ Serve(n)
      PROVE  SpoolTypes'
  <2>1. CASE LprmIncoming(n)
    BY <2>1, DiesTyped, UnlinkTyped DEF LprmIncoming, SpoolTypes
  <2>2. CASE RemoveStale(n)
    BY <2>2, UnlinkTyped DEF RemoveStale, SpoolTypes
  <2>3. CASE Serve(n)
    BY <2>3, UnlinkTyped DEF Serve, SpoolTypes
  <2> QED
    BY <1>4, <2>1, <2>2, <2>3
<1> QED
  BY <1>1, <1>2, <1>3, <1>4 DEF TransferNext

-----------------------------------------------------------------------------
(* One receiver lives.                                                      *)

\* The transfers to the queue do not overlap: one sender, which waits for the
\* receiver of a connection to end before it makes the next one.
OneAtATime == ~QuickRetry /\ \A i, j \in Jobs : i = j

PastInv ==
    \A j \in Jobs, a \in 1 .. MaxAttempts :
      a < sender[j].attempt => Stopped(<<j, a>>)

FreshInv == \A c \in Conns : rcv[c].pc = "absent" => rcv[c] = Absent

SoloInv == SpoolTypes /\ AnnounceInv /\ PastInv /\ FreshInv

LEMMA OneActive ==
    ASSUME SoloInv, OneAtATime, NEW c \in Conns, NEW d \in Conns, ~Stopped(c), ~Stopped(d)
    PROVE  c = d
<1>1. PICK i \in Jobs, a \in 1 .. MaxAttempts : c = <<i, a>>
  BY DEF Conns
<1>2. PICK j \in Jobs, b \in 1 .. MaxAttempts : d = <<j, b>>
  BY DEF Conns
<1>3. i = j
  BY DEF OneAtATime
<1>4. a = sender[i].attempt
  <2>1. ~(a < sender[i].attempt) /\ ~(a > sender[i].attempt)
    BY <1>1 DEF SoloInv, PastInv, AnnounceInv, FutureInv, Stopped
  <2>2. sender[i].attempt \in Nat
    BY DEF SoloInv, SpoolTypes, SenderState
  <2> QED
    BY <2>1, <2>2
<1>5. b = sender[j].attempt
  <2>1. ~(b < sender[j].attempt) /\ ~(b > sender[j].attempt)
    BY <1>2 DEF SoloInv, PastInv, AnnounceInv, FutureInv, Stopped
  <2>2. sender[j].attempt \in Nat
    BY DEF SoloInv, SpoolTypes, SenderState
  <2> QED
    BY <2>1, <2>2
<1> QED
  BY <1>1, <1>2, <1>3, <1>4, <1>5

\* A step of a receiver is one of a process that is there, and changes no other.
LEMMA ReceiverAlone ==
    ASSUME SpoolTypes, NEW c \in Conns, ReceiverStep(c)
    PROVE  /\ ~Stopped(c)
           /\ \A d \in Conns \ {c} : rcv'[d] = rcv[d]
           /\ rcv'[c].pc # "absent"
           /\ UNCHANGED <<order, large, sender, link>>
<1>0. rcv[c].next \in Nexts /\ DOMAIN rcv = Conns
  BY DEF SpoolTypes, Receivers
<1>1. ASSUME NEW r, Become(c, r), r.pc # "absent"
      PROVE  (\A d \in Conns \ {c} : rcv'[d] = rcv[d]) /\ rcv'[c].pc # "absent"
  BY <1>0, <1>1 DEF Become
<1>2. Failed(rcv[c]).pc = "error" /\ \A r \in Receivers : Failed(r).pc = "error"
  BY DEF Failed, SpoolTypes, Receivers
<1>3. rcv[c] \in Receivers
  BY DEF SpoolTypes
<1>4. UNCHANGED <<order, large, sender, link>>
  BY DEF ReceiverStep, TakeRequest, TakeBlockRequest, NoRequest, TakeLine, EndOfInput,
         TakeBody, TakeBlock, BodyFails, OpenTicket, LockTicket, BlockData, CheckFails,
         CheckPasses, WriteTicket, SendAck, SendLastAck, AtEnd, Close, Error, AnswerError
<1>5. ~Stopped(c)
  BY DEF ReceiverStep, TakeRequest, TakeBlockRequest, NoRequest, TakeLine, EndOfInput,
         TakeBody, TakeBlock, BodyFails, OpenTicket, LockTicket, BlockData, CheckFails,
         CheckPasses, WriteTicket, SendAck, SendLastAck, AtEnd, Close, Error, AnswerError,
         Stopped
<1>6. \E r : Become(c, r) /\ r.pc # "absent"
  <2>1. CASE TakeRequest(c) \/ TakeBlockRequest(c)
    <3>1. [rcv[c] EXCEPT !.at = 2, !.pc = "line"].pc = "line"
          /\ [rcv[c] EXCEPT !.at = 2, !.pc = "body", !.discard = large # 0].pc = "body"
          /\ Failed([rcv[c] EXCEPT !.at = 2, !.pc = "body", !.discard = large # 0]).pc = "error"
      BY <1>3 DEF Receivers, Failed
    <3> QED
      BY <1>2, <2>1, <3>1 DEF TakeRequest, TakeBlockRequest
  <2>2. CASE NoRequest(c) \/ EndOfInput(c) \/ BodyFails(c) \/ Close(c) \/ Error(c)
             \/ AnswerError(c)
    <3>1. /\ [rcv[c] EXCEPT !.pc = "ended"].pc = "ended"
          /\ [rcv[c] EXCEPT !.pc = "end"].pc = "end"
          /\ [rcv[c] EXCEPT !.pc = "answer"].pc = "answer"
          /\ [rcv[c] EXCEPT !.pc = "ended", !.error = TRUE].pc = "ended"
      BY <1>3 DEF Receivers
    <3> QED
      BY <1>2, <2>2, <3>1 DEF NoRequest, EndOfInput, BodyFails, Close, Error, AnswerError
  <2>3. CASE TakeLine(c)
    <3> DEFINE r == [rcv[c] EXCEPT !.at = @ + 1, !.pc = "body",
                            !.discard = @ \/ (large = FileOf(rcv[c].at))]
    <3>1. r.pc = "body" /\ Failed(r).pc = "error"
      BY <1>3 DEF Receivers, Failed
    <3>2. Become(c, r) \/ Become(c, Failed(r)) \/ Become(c, Failed(rcv[c]))
      BY <2>3 DEF TakeLine
    <3> HIDE DEF r
    <3> QED
      BY <1>2, <3>1, <3>2
  <2>4. CASE TakeBody(c)
    <3> DEFINE f == FileOf(rcv[c].at)
               g == IF rcv[c].discard THEN rcv[c].files ELSE rcv[c].files \cup {f}
               q == IF rcv[c].discard THEN "toolarge" ELSE "check"
    <3>1. /\ [rcv[c] EXCEPT !.pc = "ack", !.files = g].pc = "ack"
          /\ [rcv[c] EXCEPT !.pc = "open", !.control = f].pc = "open"
          /\ [rcv[c] EXCEPT !.pc = q, !.next = "open"].pc = q
          /\ q # "absent"
      BY <1>3 DEF Receivers
    <3>2. \/ Become(c, [rcv[c] EXCEPT !.pc = "ack", !.files = g])
          \/ Become(c, [rcv[c] EXCEPT !.pc = "open", !.control = f])
          \/ Become(c, [rcv[c] EXCEPT !.pc = q, !.next = "open"])
      BY <2>4 DEF TakeBody
    <3> HIDE DEF f, g, q
    <3> QED
      BY <3>1, <3>2
  <2>5. CASE TakeBlock(c) \/ BlockData(c)
    <3> DEFINE nothing == rcv[c].discard /\ rcv[c].files = {}
               F == {i \in Needed(1) : InSize(i)}
               q == CASE nothing                      -> "lastack"
                      [] rcv[c].discard /\ ~nothing   -> "toolarge"
                      [] OTHER                        -> "check"
    <3>1. /\ [rcv[c] EXCEPT !.pc = "open", !.control = 1, !.files = F].pc = "open"
          /\ [rcv[c] EXCEPT !.next = "lastack", !.pc = q].pc = q
          /\ q # "absent"
      BY <1>3 DEF Receivers
    <3>2. \/ Become(c, [rcv[c] EXCEPT !.pc = "open", !.control = 1, !.files = F])
          \/ Become(c, [rcv[c] EXCEPT !.next = "lastack", !.pc = q])
      BY <2>5 DEF TakeBlock, BlockData
    <3> HIDE DEF F, q
    <3> QED
      BY <3>1, <3>2
  <2>6. CASE OpenTicket(c)
    <3> DEFINE e == ticket[rcv[c].try].state \in {"none", "empty"}
               f == IF ticket[rcv[c].try].state = "none" THEN <<c, rcv[c].control>>
                    ELSE ticket[rcv[c].try].made
    <3>1. [rcv[c] EXCEPT !.pc = "lock", !.empty = e, !.file = f].pc = "lock"
      BY <1>3 DEF Receivers
    <3>2. Become(c, [rcv[c] EXCEPT !.pc = "lock", !.empty = e, !.file = f])
      BY <2>6 DEF OpenTicket
    <3> HIDE DEF e, f
    <3> QED
      BY <3>1, <3>2
  <2>7. CASE LockTicket(c)
    <3> DEFINE n == rcv[c].try
               hold == order = "data" /\ rcv[c].files # {}
               p == CASE hold /\ rcv[c].discard  -> "toolarge"
                      [] hold /\ ~rcv[c].discard -> "check"
                      [] order = "block"               -> "blockdata"
                      [] OTHER                         -> "ack"
               r == [rcv[c] EXCEPT !.num = n, !.locked = hold, !.next = "ack",
                                   !.pc = p]
               again == [rcv[c] EXCEPT !.try = NextNumber(n), !.pc = "open"]
    <3>1. r.pc = p /\ again.pc = "open"
      BY <1>3 DEF Receivers
    <3>2. p # "absent"
      OBVIOUS
    <3>3. Become(c, r) \/ Become(c, Failed(rcv[c])) \/ Become(c, again)
      BY <2>7 DEF LockTicket
    <3> HIDE DEF r, again, p
    <3> QED
      BY <1>2, <3>1, <3>2, <3>3
  <2>8. CASE CheckFails(c) \/ CheckPasses(c)
    <3>1. /\ [rcv[c] EXCEPT !.pc = "error", !.refused = Whole(rcv[c])].pc = "error"
          /\ [rcv[c] EXCEPT !.pc = "write"].pc = "write"
      BY <1>3 DEF Receivers
    <3> QED
      BY <2>8, <3>1 DEF CheckFails, CheckPasses
  <2>9. CASE WriteTicket(c)
    <3>1. Done(rcv[c]).pc = rcv[c].next
      BY <1>3 DEF Receivers, Done
    <3> QED
      BY <1>0, <2>9, <3>1 DEF WriteTicket, Nexts
  <2>10. CASE SendAck(c) \/ SendLastAck(c)
    <3>1. /\ [rcv[c] EXCEPT !.pc = "line", !.at = @ + 1].pc = "line"
          /\ [rcv[c] EXCEPT !.pc = "end"].pc = "end"
          /\ [rcv[c] EXCEPT !.pc = "close"].pc = "close"
          /\ [rcv[c] EXCEPT !.pc = "answer"].pc = "answer"
      BY <1>3 DEF Receivers
    <3> QED
      BY <2>10, <3>1 DEF SendAck, SendLastAck
  <2>11. CASE AtEnd(c)
    <3> DEFINE p == CASE rcv[c].discard /\ rcv[c].num # Nobody                    -> "toolarge"
                    [] rcv[c].discard /\ rcv[c].num = Nobody                    -> "close"
                    [] ~rcv[c].discard /\ rcv[c].files = {}                     -> "close"
                    [] ~rcv[c].discard /\ rcv[c].files # {} /\ rcv[c].num # Nobody -> "check"
                    [] OTHER                                                    -> "dead"
               r == [rcv[c] EXCEPT !.next = "close", !.pc = p]
    <3>1. r.pc = p
      BY <1>3 DEF Receivers
    <3>2. p # "absent"
      OBVIOUS
    <3>3. Become(c, r)
      BY <2>11 DEF AtEnd
    <3> HIDE DEF p, r
    <3> QED
      BY <3>1, <3>2, <3>3
  <2> QED
    BY <2>1, <2>2, <2>3, <2>4, <2>5, <2>6, <2>7, <2>8, <2>9, <2>10, <2>11 DEF ReceiverStep
<1> QED
  BY <1>1, <1>4, <1>5, <1>6

LEMMA InitSolo == TransferInit => SoloInv
<1> SUFFICES ASSUME TransferInit PROVE SoloInv
  OBVIOUS
<1>1. PastInv
  BY DEF PastInv, TransferInit
<1>2. FreshInv
  BY DEF FreshInv, TransferInit
<1> QED
  BY <1>1, <1>2, InitTypes, InitAnnounce DEF SoloInv

\* A process that was killed was there.
LEMMA DiesSolo ==
    ASSUME SoloInv, NEW c, Dies(c), ~Stopped(c), UNCHANGED sender
    PROVE  PastInv' /\ FreshInv'
<1>1. rcv' = [rcv EXCEPT ![c].pc = "dead"] /\ DOMAIN rcv = Conns
  BY DEF Dies, SoloInv, SpoolTypes
<1>2. \A d \in Conns : rcv'[d] = rcv[d] \/ rcv'[d].pc = "dead"
  BY <1>1 DEF SoloInv, SpoolTypes, Receivers
<1>3. PastInv'
  <2> SUFFICES ASSUME NEW j \in Jobs, NEW a \in 1 .. MaxAttempts, a < sender[j].attempt
               PROVE  Stopped(<<j, a>>)'
    BY DEF PastInv
  <2>1. <<j, a>> \in Conns /\ Stopped(<<j, a>>)
    BY DEF SoloInv, PastInv, Conns
  <2> QED
    BY <1>2, <2>1 DEF Stopped
<1>4. FreshInv'
  BY <1>2 DEF SoloInv, FreshInv
<1> QED
  BY <1>3, <1>4

LEMMA StepSolo == OneAtATime /\ SoloInv /\ [TransferNext]_vars => SoloInv'
<1> SUFFICES ASSUME OneAtATime, SoloInv, [TransferNext]_vars PROVE SoloInv'
  OBVIOUS
<1>0. SpoolTypes' /\ AnnounceInv'
  BY StepTypes, StepAnnounce DEF SoloInv
<1>1. CASE UNCHANGED vars
  BY <1>0, <1>1 DEF vars, SoloInv, PastInv, FreshInv, Stopped
<1>2. ASSUME NEW j \in Jobs, Connect(j) PROVE SoloInv'
  <2>1. PICK c : c = <<j, sender[j].attempt + 1>>
    OBVIOUS
  <2>2. /\ rcv' = [rcv EXCEPT ![c].pc = "request"]
        /\ sender' = [sender EXCEPT ![j] =
                       [state |-> "send", attempt |-> sender[j].attempt + 1, pos |-> 1]]
        /\ sender[j].attempt > 0 => Stopped(Conn(j))
    BY <1>2, <2>1 DEF Connect, OneAtATime
  <2>3. sender[j].attempt \in Nat /\ sender'[j].attempt = sender[j].attempt + 1
        /\ \A i \in Jobs \ {j} : sender'[i] = sender[i]
    BY <2>2 DEF SoloInv, SpoolTypes, SenderState
  <2>4. \A d \in Conns \ {c} : rcv'[d] = rcv[d]
    BY <2>2 DEF SoloInv, SpoolTypes
  <2>5. PastInv'
    <3> SUFFICES ASSUME NEW i \in Jobs, NEW a \in 1 .. MaxAttempts, a < sender'[i].attempt
                 PROVE  Stopped(<<i, a>>)'
      BY DEF PastInv
    <3>1. <<i, a>> \in Conns /\ <<i, a>> # c
      BY <2>1, <2>3 DEF Conns, OneAtATime
    <3>2. Stopped(<<i, a>>)
      <4>1. i = j
        BY DEF OneAtATime
      <4>2. CASE a < sender[j].attempt
        BY <4>1, <4>2 DEF SoloInv, PastInv
      <4>3. CASE a = sender[j].attempt
        BY <2>2, <4>1, <4>3 DEF Conn
      <4> QED
        BY <2>3, <4>1, <4>2, <4>3
    <3> QED
      BY <2>4, <3>1, <3>2 DEF Stopped
  <2>6. FreshInv'
    <3>1. \A d \in Conns : rcv'[d] = rcv[d] \/ rcv'[d].pc = "request"
      BY <2>2 DEF SoloInv, SpoolTypes, Receivers
    <3> QED
      BY <3>1 DEF FreshInv, SoloInv
  <2> QED
    BY <1>0, <2>5, <2>6 DEF SoloInv
<1>3. ASSUME UNCHANGED rcv, NEW j \in Jobs,
             Send(j) \/ GetAck(j) \/ NoAck(j) \/ SendCut(j) \/ TimesOut(j)
      PROVE  SoloInv'
  <2>1. \A i \in Jobs : sender'[i].attempt = sender[i].attempt
    <3>1. \/ Give(j)
          \/ \E state \in {"wait", "sent"} : sender' = [sender EXCEPT ![j].state = state]
          \/ sender' = [sender EXCEPT ![j].state = "send", ![j].pos = @ + 1]
      BY <1>3 DEF Send, GetAck, NoAck, SendCut, TimesOut, SendFails
    <3>2. sender \in [Jobs -> SenderState]
      BY DEF SoloInv, SpoolTypes
    <3> QED
      BY <3>1, <3>2 DEF Give, SenderState
  <2> QED
    BY <1>0, <1>3, <2>1 DEF SoloInv, PastInv, FreshInv, Stopped
<1>4. ASSUME UNCHANGED <<rcv, sender>> PROVE SoloInv'
  BY <1>0, <1>4 DEF SoloInv, PastInv, FreshInv, Stopped
<1>5. ASSUME NEW c \in Conns, ReceiverStep(c) PROVE SoloInv'
  <2>1. ~Stopped(c) /\ rcv'[c].pc # "absent" /\ UNCHANGED sender
        /\ \A d \in Conns \ {c} : rcv'[d] = rcv[d]
    BY <1>5, ReceiverAlone DEF SoloInv
  <2>2. PastInv'
    <3> SUFFICES ASSUME NEW j \in Jobs, NEW a \in 1 .. MaxAttempts, a < sender[j].attempt
                 PROVE  Stopped(<<j, a>>)'
      BY <2>1 DEF PastInv
    <3>1. <<j, a>> \in Conns /\ Stopped(<<j, a>>)
      BY DEF SoloInv, PastInv, Conns
    <3> QED
      BY <2>1, <3>1 DEF Stopped
  <2>3. FreshInv'
    BY <2>1 DEF SoloInv, FreshInv
  <2> QED
    BY <1>0, <2>2, <2>3 DEF SoloInv
<1>6. ASSUME NEW c, Dies(c), ~Stopped(c), UNCHANGED sender PROVE SoloInv'
  BY <1>0, <1>6, DiesSolo DEF SoloInv
<1>7. ASSUME NEW j \in Jobs, SenderStep(j) \/ SendCut(j) \/ TimesOut(j) PROVE SoloInv'
  BY <1>7, <1>2, <1>3 DEF SenderStep, Send, GetAck, NoAck, SendCut, TimesOut
<1>8. ASSUME NEW c \in Conns, ReceiverStep(c) \/ Break(c) \/ ReceiverDies(c) PROVE SoloInv'
  BY <1>8, <1>4, <1>5, <1>6 DEF Break, ReceiverDies
<1>9. ASSUME NEW n \in Numbers, LprmIncoming(n) \/ RemoveStale(n) \/ Serve(n) PROVE SoloInv'
  BY <1>9, <1>4, <1>6 DEF LprmIncoming, RemoveStale, Serve
<1> QED
  BY <1>1, <1>7, <1>8, <1>9 DEF TransferNext

-----------------------------------------------------------------------------
(* The spool directory.                                                     *)

\* A receiver that has come to a file, to a job's check or to the end of one.
Holding == {"line", "body", "blockdata", "check", "toolarge", "write", "ack", "end"}

\* The number a receiver has is a number of a ticket that is its own.
Owns(c) ==
    LET r == rcv[c]
        t == ticket[r.num]
    IN  r.pc \in Holding /\ r.num # Nobody =>
          /\ t.pid = c /\ t.state = "incoming" /\ t.made = r.file
          /\ disk[r.num] = IF r.pc = "write" THEN {c} \X r.files ELSE {}

\* It has a number from the lock to the end of the job, and no other time.
Holds(c) ==
    LET r == rcv[c] IN
    /\ r.pc \in {"request", "open", "lock"} => r.num = Nobody
    /\ r.pc \in {"blockdata", "check", "toolarge", "write"} => r.num # Nobody
    /\ r.pc \in {"line", "body", "ack", "end"} =>
         IF order = "block" THEN r.num = Nobody ELSE (r.control = 0) = (r.num = Nobody)
    /\ r.pc = "request" => r.control = 0
    /\ r.pc \in {"open", "lock"} => r.control # 0
    /\ r.pc \in Holding \cup {"open", "lock"} => r.at >= 2
    /\ r.pc = "write" => Whole(r)

\* An empty ticket that it has opened stays there until it has the lock.
Opens(c) ==
    rcv[c].pc = "lock" /\ rcv[c].empty =>
      ticket[rcv[c].try].state = "empty" /\ ticket[rcv[c].try].made = rcv[c].file

NumberInv ==
    \A n \in Numbers :
      /\ ticket[n].state \in {"none", "empty"} => disk[n] = {}
      /\ ticket[n].state = "queued" =>
           disk[n] = {ticket[n].job[1]} \X Needed(ticket[n].job[2])
      /\ ticket[n].state = "incoming" => ticket[n].pid \in Conns

MineInv == \A c \in Conns : ~Stopped(c) => Owns(c) /\ Holds(c) /\ Opens(c)

SpoolInv == SoloInv /\ MineInv /\ NumberInv

LEMMA InitSpool == TransferInit => SpoolInv
<1> SUFFICES ASSUME TransferInit PROVE SpoolInv
  OBVIOUS
<1>1. \A c \in Conns : Stopped(c)
  BY AbsentFields DEF TransferInit, Stopped
<1>2. NumberInv
  BY DEF NumberInv, TransferInit, NoTicket
<1> QED
  BY <1>1, <1>2, InitSolo DEF SpoolInv, MineInv

\* The step of a receiver, which is the only one, leads to MineInv again.
LEMMA OnlyMine ==
    ASSUME SpoolInv, OneAtATime, NEW c \in Conns, ReceiverStep(c),
           ~Stopped(c)' => Owns(c)' /\ Holds(c)' /\ Opens(c)'
    PROVE  MineInv'
<1> SUFFICES ASSUME NEW d \in Conns, ~Stopped(d)' PROVE Owns(d)' /\ Holds(d)' /\ Opens(d)'
  BY DEF MineInv
<1>1. ~Stopped(c) /\ \A e \in Conns \ {c} : rcv'[e] = rcv[e]
  BY ReceiverAlone DEF SpoolInv, SoloInv
<1>2. d = c
  <2>1. ASSUME d # c PROVE FALSE
    <3>1. ~Stopped(d)
      BY <1>1, <2>1 DEF Stopped
    <3> QED
      BY <1>1, <2>1, <3>1, OneActive DEF SpoolInv
  <2> QED
    BY <2>1
<1> QED
  BY <1>2

\* A step of the receiver that leaves the spool directory alone.
LEMMA SpoolAlone ==
    ASSUME SpoolInv, OneAtATime, NEW c \in Conns, ReceiverStep(c), NEW r \in Receivers,
           Become(c, r), UNCHANGED spoolVars,
           r.num = rcv[c].num, r.file = rcv[c].file,
           r.pc \in Holding => rcv[c].pc \in Holding \cup {"request"},
           r.pc = "write" => rcv[c].pc = "write" /\ r.files = rcv[c].files,
           rcv[c].pc = "write" => r.pc \in {"write", "ended"},
           r.pc # "lock",
           r.pc \notin {"absent", "ended", "dead"} => Holds(c)'
    PROVE  MineInv' /\ NumberInv'
<1>0. /\ rcv'[c] = r /\ order' = order /\ ticket' = ticket /\ disk' = disk
      /\ ~Stopped(c) /\ Owns(c) /\ Holds(c) /\ rcv[c] \in Receivers
  BY ReceiverAlone DEF SpoolInv, SoloInv, SpoolTypes, Become, spoolVars, MineInv
<1>1. NumberInv'
  BY <1>0 DEF NumberInv, SpoolInv, Needed, Script, Files
<1>2. ASSUME ~Stopped(c)' PROVE Owns(c)' /\ Holds(c)' /\ Opens(c)'
  <2>1. Owns(c)'
    BY <1>0 DEF Owns, Holds, Holding
  <2>2. Opens(c)'
    BY <1>0 DEF Opens
  <2>3. Holds(c)'
    BY <1>0, <1>2 DEF Stopped
  <2> QED
    BY <2>1, <2>2, <2>3
<1> QED
  BY <1>1, <1>2, OnlyMine

\* The name of a ticket that no receiver has is unlinked.
LEMMA UnlinkNumbers ==
    ASSUME SpoolInv, NEW n \in Numbers, Unlink(n), UNCHANGED order
    PROVE  NumberInv'
<1>1. \A m \in Numbers \ {n} : ticket'[m] = ticket[m] /\ disk'[m] = disk[m]
  BY DEF Unlink, SpoolInv, SoloInv, SpoolTypes
<1>2. ticket'[n] = NoTicket /\ disk'[n] = {}
  BY DEF Unlink, SpoolInv, SoloInv, SpoolTypes
<1>3. \A f : Needed(f)' = Needed(f)
  BY DEF Needed, Script, Files
<1> QED
  BY <1>1, <1>2, <1>3 DEF NumberInv, SpoolInv, NoTicket

LEMMA ReceiverSpool ==
    ASSUME SpoolInv, OneAtATime, NEW c \in Conns, ReceiverStep(c)
    PROVE  MineInv' /\ NumberInv'
<1>0. /\ rcv[c] \in Receivers /\ ~Stopped(c) /\ order' = order
      /\ Owns(c) /\ Holds(c) /\ Opens(c) /\ NumberInv
      /\ ticket \in [Numbers -> Tickets] /\ disk \in [Numbers -> SUBSET (Conns \X Nat)]
      /\ DOMAIN rcv = Conns
  BY ReceiverAlone DEF SpoolInv, SoloInv, SpoolTypes, MineInv
<1>a. ASSUME NEW r, Become(c, r) PROVE rcv'[c] = r
  BY <1>0, <1>a DEF Become
<1>b. ASSUME NEW r \in Receivers, r.pc = "error", r.num = rcv[c].num, r.file = rcv[c].file,
             Become(c, r), UNCHANGED spoolVars, rcv[c].pc # "write"
      PROVE  MineInv' /\ NumberInv'
  <2>1. Holds(c)'
    BY <1>a, <1>b DEF Holds, Holding
  <2> QED
    BY <1>b, <2>1, SpoolAlone DEF Holding
<1>c. \A r \in Receivers : /\ Failed(r) \in Receivers /\ Failed(r).pc = "error"
                           /\ Failed(r).num = r.num /\ Failed(r).file = r.file
  BY FailedTyped DEF Failed, Receivers
<1>d. Nobody \notin Numbers
  BY NobodyAssumption
<1>1. CASE TakeRequest(c)
  <2> DEFINE r == [rcv[c] EXCEPT !.at = 2, !.pc = "line"]
  <2>1. r \in Receivers /\ r.pc = "line" /\ r.at = 2 /\ r.control = rcv[c].control
        /\ r.num = rcv[c].num /\ r.file = rcv[c].file
    BY <1>0 DEF Receivers, ReceiverPc
  <2>2. Become(c, r) \/ Become(c, Failed(rcv[c]))
    BY <1>1 DEF TakeRequest
  <2>3. UNCHANGED spoolVars /\ rcv[c].pc = "request" /\ order # "block"
    BY <1>1 DEF TakeRequest
  <2> HIDE DEF r
  <2>4. CASE Become(c, r)
    <3>1. Holds(c)'
      BY <1>0, <1>a, <2>1, <2>3, <2>4 DEF Holds, Holding
    <3> QED
      BY <2>1, <2>3, <2>4, <3>1, SpoolAlone DEF Holding
  <2> QED
    BY <1>0, <1>b, <1>c, <2>2, <2>3, <2>4
<1>2. CASE TakeBlockRequest(c)
  <2> DEFINE r == [rcv[c] EXCEPT !.at = 2, !.pc = "body", !.discard = large # 0]
  <2>1. r \in Receivers /\ r.pc = "body" /\ r.at = 2 /\ r.control = rcv[c].control
        /\ r.num = rcv[c].num /\ r.file = rcv[c].file
    BY <1>0 DEF Receivers, ReceiverPc, SpoolInv, SoloInv, SpoolTypes
  <2>2. Become(c, r) \/ Become(c, Failed(r)) \/ Become(c, Failed(rcv[c]))
    BY <1>2 DEF TakeBlockRequest
  <2>3. UNCHANGED spoolVars /\ rcv[c].pc = "request" /\ order = "block"
    BY <1>2 DEF TakeBlockRequest
  <2> HIDE DEF r
  <2>4. CASE Become(c, r)
    <3>1. Holds(c)'
      BY <1>0, <1>a, <2>1, <2>3, <2>4 DEF Holds, Holding
    <3> QED
      BY <2>1, <2>3, <2>4, <3>1, SpoolAlone DEF Holding
  <2> QED
    BY <1>0, <1>b, <1>c, <2>1, <2>2, <2>3, <2>4
<1>3. CASE NoRequest(c)
  <2> DEFINE r == [rcv[c] EXCEPT !.pc = "ended"]
  <2>1. r \in Receivers /\ r.pc = "ended" /\ r.num = rcv[c].num /\ r.file = rcv[c].file
    BY <1>0 DEF Receivers, ReceiverPc
  <2>2. Become(c, r) /\ UNCHANGED spoolVars /\ rcv[c].pc = "request"
    BY <1>3 DEF NoRequest
  <2> HIDE DEF r
  <2> QED
    BY <2>1, <2>2, SpoolAlone DEF Holding
<1>4. CASE TakeLine(c)
  <2> DEFINE tooLarge == large = FileOf(rcv[c].at)
             d == rcv[c].discard \/ tooLarge
             k == rcv[c].at + 1
             r == [rcv[c] EXCEPT !.at = @ + 1, !.pc = "body", !.discard = @ \/ tooLarge]
  <2>1. d \in BOOLEAN /\ k \in Nat /\ k >= rcv[c].at
    BY <1>0 DEF Receivers
  <2>2. r \in Receivers /\ r.pc = "body" /\ r.at = k /\ r.control = rcv[c].control
        /\ r.num = rcv[c].num /\ r.file = rcv[c].file
    <3>1. r = [rcv[c] EXCEPT !.at = k, !.pc = "body", !.discard = d]
      BY <1>0 DEF Receivers
    <3> HIDE DEF k, d, r
    <3> QED
      BY <1>0, <2>1, <3>1 DEF Receivers, ReceiverPc
  <2>3. Become(c, r) \/ Become(c, Failed(r)) \/ Become(c, Failed(rcv[c]))
    BY <1>4 DEF TakeLine
  <2>4. UNCHANGED spoolVars /\ rcv[c].pc = "line"
    BY <1>4 DEF TakeLine
  <2> HIDE DEF r, k, d
  <2>5. CASE Become(c, r)
    <3>1. Holds(c)'
      BY <1>0, <1>a, <2>1, <2>2, <2>4, <2>5 DEF Holds, Holding, Receivers
    <3> QED
      BY <2>2, <2>4, <2>5, <3>1, SpoolAlone DEF Holding
  <2> QED
    BY <1>0, <1>b, <1>c, <2>2, <2>3, <2>4, <2>5
<1>5. CASE EndOfInput(c)
  <2> DEFINE r == [rcv[c] EXCEPT !.pc = "end"]
  <2>1. r \in Receivers /\ r.pc = "end" /\ r.at = rcv[c].at /\ r.control = rcv[c].control
        /\ r.num = rcv[c].num /\ r.file = rcv[c].file
    BY <1>0 DEF Receivers, ReceiverPc
  <2>2. Become(c, r) /\ UNCHANGED spoolVars /\ rcv[c].pc = "line"
    BY <1>5 DEF EndOfInput
  <2> HIDE DEF r
  <2>3. Holds(c)'
    BY <1>0, <1>a, <2>1, <2>2 DEF Holds, Holding
  <2> QED
    BY <2>1, <2>2, <2>3, SpoolAlone DEF Holding
<1>6. CASE TakeBody(c)
  <2> DEFINE f == FileOf(rcv[c].at)
             q == IF rcv[c].discard THEN "toolarge" ELSE "check"
             data == [rcv[c] EXCEPT !.pc = "ack",
                                 !.files = IF rcv[c].discard THEN @ ELSE @ \cup {f}]
             first == [rcv[c] EXCEPT !.pc = "open", !.control = f]
             second == [rcv[c] EXCEPT !.pc = q, !.next = "open"]
  <2>0. UNCHANGED spoolVars /\ rcv[c].pc = "body" /\ order # "block"
    BY <1>6 DEF TakeBody
  <2>1. f \in Nat /\ f # 0
    BY <1>0, <2>0 DEF FileOf, Receivers, Holds, Holding
  <2>2. q \in {"toolarge", "check"}
    OBVIOUS
  <2>3. \/ Become(c, data)
        \/ Become(c, first) /\ rcv[c].control = 0
        \/ Become(c, second) /\ rcv[c].control # 0
    BY <1>6 DEF TakeBody
  <2> HIDE DEF f, q
  <2>4. /\ data \in Receivers /\ data.pc = "ack" /\ data.at = rcv[c].at
        /\ data.control = rcv[c].control /\ data.num = rcv[c].num /\ data.file = rcv[c].file
    BY <1>0, <2>1 DEF Receivers, ReceiverPc
  <2>5. /\ first \in Receivers /\ first.pc = "open" /\ first.at = rcv[c].at
        /\ first.control = f /\ first.num = rcv[c].num /\ first.file = rcv[c].file
    BY <1>0, <2>1 DEF Receivers, ReceiverPc
  <2>6. /\ second \in Receivers /\ second.pc = q /\ second.at = rcv[c].at
        /\ second.control = rcv[c].control /\ second.num = rcv[c].num
        /\ second.file = rcv[c].file
    BY <1>0, <2>2 DEF Receivers, ReceiverPc, Nexts
  <2> HIDE DEF data, first, second
  <2>7. CASE Become(c, data)
    <3>1. Holds(c)'
      BY <1>0, <1>a, <2>0, <2>4, <2>7 DEF Holds, Holding
    <3> QED
      BY <2>0, <2>4, <2>7, <3>1, SpoolAlone DEF Holding
  <2>8. CASE Become(c, first) /\ rcv[c].control = 0
    <3>1. Holds(c)'
      BY <1>0, <1>a, <2>0, <2>1, <2>5, <2>8 DEF Holds, Holding
    <3> QED
      BY <2>0, <2>5, <2>8, <3>1, SpoolAlone DEF Holding
  <2>9. CASE Become(c, second) /\ rcv[c].control # 0
    <3>1. Holds(c)'
      BY <1>0, <1>a, <2>0, <2>2, <2>6, <2>9 DEF Holds, Holding
    <3> QED
      BY <2>0, <2>2, <2>6, <2>9, <3>1, SpoolAlone DEF Holding
  <2> QED
    BY <2>3, <2>7, <2>8, <2>9
<1>7. CASE TakeBlock(c)
  <2> DEFINE r == [rcv[c] EXCEPT !.pc = "open", !.control = 1,
                                 !.files = {i \in Needed(1) : InSize(i)}]
  <2>1. r \in Receivers /\ r.pc = "open" /\ r.at = rcv[c].at /\ r.control = 1
        /\ r.num = rcv[c].num /\ r.file = rcv[c].file
    BY <1>0, NeededFiles DEF Receivers, ReceiverPc
  <2>2. Become(c, r) /\ UNCHANGED spoolVars /\ rcv[c].pc = "body" /\ order = "block"
    BY <1>7 DEF TakeBlock
  <2> HIDE DEF r
  <2>3. Holds(c)'
    BY <1>0, <1>a, <2>1, <2>2 DEF Holds, Holding
  <2> QED
    BY <2>1, <2>2, <2>3, SpoolAlone DEF Holding
<1>8. CASE BodyFails(c)
  BY <1>0, <1>8, <1>b, <1>c DEF BodyFails
<1>9. CASE OpenTicket(c)
  <2> DEFINE n == rcv[c].try
             e == ticket[n].state \in {"none", "empty"}
             f == IF ticket[n].state = "none" THEN <<c, rcv[c].control>> ELSE ticket[n].made
             r == [rcv[c] EXCEPT !.pc = "lock", !.empty = e, !.file = f]
  <2>0. Become(c, r) /\ rcv[c].pc = "open" /\ disk' = disk
        /\ ticket' = IF ticket[n].state = "none"
                     THEN [ticket EXCEPT ![n].state = "empty", ![n].made = <<c, rcv[c].control>>]
                     ELSE ticket
    BY <1>9 DEF OpenTicket
  <2>1. n \in Numbers /\ e \in BOOLEAN
    BY <1>0 DEF Receivers
  <2>2. e => ticket'[n].state = "empty" /\ ticket'[n].made = f
    BY <1>0, <2>0, <2>1 DEF Tickets
  <2>3. \A m \in Numbers :
          \/ ticket'[m] = ticket[m]
          \/ ticket'[m].state = "empty" /\ ticket[m].state = "none"
    BY <1>0, <2>0, <2>1 DEF Tickets
  <2> HIDE DEF n, e, f
  <2>4. r.pc = "lock" /\ r.num = rcv[c].num /\ r.control = rcv[c].control /\ r.at = rcv[c].at
        /\ r.empty = e /\ r.file = f /\ r.try = n
    BY <1>0 DEF Receivers, n
  <2>5. rcv'[c] = r
    BY <1>a, <2>0
  <2> HIDE DEF r
  <2>6. Owns(c)' /\ Holds(c)' /\ Opens(c)'
    <3>1. Owns(c)'
      BY <2>4, <2>5 DEF Owns, Holding
    <3>2. Holds(c)'
      BY <1>0, <2>0, <2>4, <2>5 DEF Holds, Holding
    <3>3. Opens(c)'
      BY <2>2, <2>4, <2>5 DEF Opens
    <3> QED
      BY <3>1, <3>2, <3>3
  <2>7. NumberInv'
    <3>1. \A g : Needed(g)' = Needed(g)
      BY <1>0 DEF Needed, Script, Files
    <3> QED
      BY <1>0, <2>0, <2>3, <3>1 DEF NumberInv
  <2> QED
    BY <2>6, <2>7, OnlyMine
<1>10. CASE LockTicket(c)
  <2> DEFINE n == rcv[c].try
             free == SameFile(rcv[c], n) => lockOf[n] = Nobody
             hold == order = "data" /\ rcv[c].files # {}
             p == CASE hold /\ rcv[c].discard  -> "toolarge"
                    [] hold /\ ~rcv[c].discard -> "check"
                    [] order = "block"               -> "blockdata"
                    [] OTHER                         -> "ack"
             l == hold
             m == NextNumber(n)
             r == [rcv[c] EXCEPT !.num = n, !.locked = l, !.next = "ack", !.pc = p]
             again == [rcv[c] EXCEPT !.try = m, !.pc = "open"]
  <2>0. rcv[c].pc = "lock" /\ disk' = disk
    BY <1>10 DEF LockTicket
  <2>1. n \in Numbers /\ m \in Numbers /\ l \in BOOLEAN
    BY <1>0, FirstTry DEF Receivers
  <2>2. p \in {"toolarge", "check", "blockdata", "ack"} /\ (p = "ack" => order # "block")
    OBVIOUS
  <2>3. \/ /\ rcv[c].empty /\ Become(c, r)
           /\ ticket' = IF SameFile(rcv[c], n)
                        THEN [ticket EXCEPT ![n].state = "incoming", ![n].pid = c,
                                            ![n].job = <<c, rcv[c].control>>]
                        ELSE ticket
        \/ Become(c, Failed(rcv[c])) /\ UNCHANGED spoolVars
        \/ Become(c, again) /\ UNCHANGED spoolVars
    BY <1>10 DEF LockTicket, spoolVars
  <2> HIDE DEF p, l, m
  <2>4. CASE Become(c, Failed(rcv[c])) /\ UNCHANGED spoolVars
    BY <1>0, <1>b, <1>c, <2>0, <2>4
  <2>5. CASE Become(c, again) /\ UNCHANGED spoolVars
    <3>1. again \in Receivers /\ again.pc = "open" /\ again.at = rcv[c].at
          /\ again.control = rcv[c].control /\ again.num = rcv[c].num
          /\ again.file = rcv[c].file
      BY <1>0, <2>1 DEF Receivers, ReceiverPc
    <3> HIDE DEF again
    <3>2. Holds(c)'
      BY <1>0, <1>a, <2>0, <2>5, <3>1 DEF Holds, Holding
    <3> QED
      BY <2>0, <2>5, <3>1, <3>2, SpoolAlone DEF Holding
  <2>6. CASE /\ rcv[c].empty /\ Become(c, r)
             /\ ticket' = IF SameFile(rcv[c], n)
                          THEN [ticket EXCEPT ![n].state = "incoming", ![n].pid = c,
                                              ![n].job = <<c, rcv[c].control>>]
                          ELSE ticket
    <3>1. ticket[n].state = "empty" /\ ticket[n].made = rcv[c].file
      BY <1>0, <2>0, <2>6 DEF Opens
    <3>2. SameFile(rcv[c], n)
      BY <3>1 DEF SameFile
    <3>3. ticket' = [ticket EXCEPT ![n].state = "incoming", ![n].pid = c,
                                   ![n].job = <<c, rcv[c].control>>]
      BY <2>6, <3>2
    <3>4. /\ ticket'[n].state = "incoming" /\ ticket'[n].pid = c
          /\ ticket'[n].made = rcv[c].file
          /\ \A i \in Numbers \ {n} : ticket'[i] = ticket[i]
      BY <1>0, <2>1, <3>1, <3>3 DEF Tickets
    <3>5. disk[n] = {}
      BY <1>0, <2>1, <3>1 DEF NumberInv
    <3>6. r.pc = p /\ r.num = n /\ r.file = rcv[c].file /\ r.at = rcv[c].at
          /\ r.control = rcv[c].control
      BY <1>0 DEF Receivers
    <3>7. rcv'[c] = r
      BY <1>a, <2>6
    <3>8. n # Nobody
      BY <1>d, <2>1
    <3> HIDE DEF n, r
    <3>9. Owns(c)'
      BY <2>0, <2>2, <3>4, <3>5, <3>6, <3>7 DEF Owns, Holding
    <3>10. Holds(c)'
      BY <1>0, <2>0, <2>2, <3>6, <3>7, <3>8 DEF Holds, Holding
    <3>11. Opens(c)'
      BY <2>2, <3>6, <3>7 DEF Opens
    <3>12. NumberInv'
      <4>1. \A g : Needed(g)' = Needed(g)
        BY <1>0 DEF Needed, Script, Files
      <4> QED
        BY <1>0, <2>0, <2>1, <3>4, <4>1 DEF NumberInv
    <3> QED
      BY <3>9, <3>10, <3>11, <3>12, OnlyMine
  <2> QED
    BY <2>3, <2>4, <2>5, <2>6
<1>11. CASE BlockData(c)
  <2> DEFINE nothing == rcv[c].discard /\ rcv[c].files = {}
             q == CASE nothing                      -> "lastack"
                    [] rcv[c].discard /\ ~nothing   -> "toolarge"
                    [] OTHER                        -> "check"
             r == [rcv[c] EXCEPT !.next = "lastack", !.pc = q]
  <2>1. /\ nothing => q = "lastack"
        /\ ~nothing => q \in {"toolarge", "check"}
    OBVIOUS
  <2>2. /\ Become(c, r) /\ rcv[c].pc = "blockdata"
        /\ IF nothing THEN Unlink(rcv[c].num) ELSE UNCHANGED spoolVars
    BY <1>11 DEF BlockData
  <2> HIDE DEF q, nothing
  <2>3. r \in Receivers /\ r.pc = q /\ r.at = rcv[c].at /\ r.control = rcv[c].control
        /\ r.num = rcv[c].num /\ r.file = rcv[c].file
    BY <1>0, <2>1 DEF Receivers, ReceiverPc, Nexts
  <2> HIDE DEF r
  <2>4. CASE nothing
    <3>1. rcv'[c] = r /\ r.pc = "lastack"
      BY <1>a, <2>1, <2>2, <2>3, <2>4
    <3>2. rcv[c].num \in Numbers
      BY <1>0, <2>2 DEF Receivers, Holds
    <3>3. NumberInv'
      BY <1>0, <2>2, <2>4, <3>2, UnlinkNumbers
    <3>4. Owns(c)' /\ Holds(c)' /\ Opens(c)'
      BY <3>1 DEF Owns, Holds, Opens, Holding
    <3> QED
      BY <3>3, <3>4, OnlyMine
  <2>5. CASE ~nothing
    <3>1. Holds(c)'
      BY <1>0, <1>a, <2>1, <2>2, <2>3, <2>5 DEF Holds, Holding
    <3> QED
      BY <2>1, <2>2, <2>3, <2>5, <3>1, SpoolAlone DEF Holding
  <2> QED
    BY <2>4, <2>5
<1>12. CASE CheckFails(c)
  <2> DEFINE w == Whole(rcv[c])
             r == [rcv[c] EXCEPT !.pc = "error", !.refused = w]
  <2>1. Become(c, r) /\ rcv[c].pc = "check" /\ Unlink(rcv[c].num)
    BY <1>12 DEF CheckFails
  <2> HIDE DEF w
  <2>2. r.pc = "error" /\ rcv'[c] = r
    BY <1>0, <1>a, <2>1 DEF Receivers
  <2>3. rcv[c].num \in Numbers
    BY <1>0, <2>1 DEF Receivers, Holds
  <2>4. NumberInv'
    BY <1>0, <2>1, <2>3, UnlinkNumbers
  <2>5. Owns(c)' /\ Holds(c)' /\ Opens(c)'
    BY <2>2 DEF Owns, Holds, Opens, Holding
  <2> QED
    BY <2>4, <2>5, OnlyMine
<1>13. CASE CheckPasses(c)
  <2> DEFINE n == rcv[c].num
             r == [rcv[c] EXCEPT !.pc = "write"]
  <2>1. /\ Become(c, r) /\ rcv[c].pc = "check" /\ Whole(rcv[c]) /\ ticket' = ticket
        /\ disk' = [disk EXCEPT ![n] = {d \in @ : d[2] \notin rcv[c].files}
                                       \cup ({c} \X rcv[c].files)]
    BY <1>13 DEF CheckPasses
  <2>2. n \in Numbers
    BY <1>0, <2>1 DEF Receivers, Holds
  <2>3. ticket[n].state = "incoming" /\ ticket[n].pid = c /\ ticket[n].made = rcv[c].file
        /\ disk[n] = {}
    BY <1>0, <2>1, <2>2, <1>d DEF Owns, Holding
  <2>4. disk'[n] = {c} \X rcv[c].files /\ \A i \in Numbers \ {n} : disk'[i] = disk[i]
    BY <1>0, <2>1, <2>2, <2>3
  <2>5. rcv'[c] = r
    BY <1>a, <2>1
  <2>6. r.pc = "write" /\ r.num = n /\ r.files = rcv[c].files /\ r.file = rcv[c].file
        /\ r.at = rcv[c].at /\ r.control = rcv[c].control
    BY <1>0 DEF Receivers
  <2>7. \A g : Needed(g)' = Needed(g)
    BY <1>0 DEF Needed, Script, Files
  <2>8. rcv'[c].files = Needed(rcv[c].control) /\ rcv'[c].control = rcv[c].control
    BY <2>1, <2>5, <2>6 DEF Whole
  <2> HIDE DEF n, r
  <2>9. Owns(c)'
    BY <2>1, <2>3, <2>4, <2>5, <2>6 DEF Owns
  <2>10. Holds(c)'
    <3>1. Whole(rcv[c])'
      BY <2>7, <2>8 DEF Whole
    <3> QED
      BY <1>0, <1>d, <2>1, <2>2, <2>5, <2>6, <3>1 DEF Holds, Holding
  <2>11. Opens(c)'
    BY <2>5, <2>6 DEF Opens
  <2>12. NumberInv'
    BY <1>0, <2>1, <2>3, <2>4, <2>7 DEF NumberInv
  <2> QED
    BY <2>9, <2>10, <2>11, <2>12, OnlyMine
<1>14. CASE WriteTicket(c)
  <2> DEFINE n == rcv[c].num
             s == IF rcv[c].pc = "write" THEN "queued" ELSE "error"
             r == Done(rcv[c])
  <2>1. /\ Become(c, r) /\ rcv[c].pc \in {"write", "toolarge"} /\ disk' = disk
        /\ \/ ticket' = ticket
           \/ ticket' = [ticket EXCEPT ![n].pid = Nobody,
                           ![n].job = <<c, rcv[c].control>>, ![n].state = s]
    BY <1>14 DEF WriteTicket
  <2>2. n \in Numbers
    BY <1>0, <2>1 DEF Receivers, Holds
  <2>3. /\ \A i \in Numbers \ {n} : ticket'[i] = ticket[i]
        /\ \/ ticket'[n] = ticket[n]
           \/ ticket'[n].state = s /\ ticket'[n].job = <<c, rcv[c].control>>
    BY <1>0, <2>1, <2>2 DEF Tickets
  <2>4. rcv'[c] = r
    BY <1>a, <2>1
  <2>5. /\ rcv[c].next \in {"open", "ack"} =>
             /\ r.pc = rcv[c].next /\ r.num = Nobody /\ r.at = rcv[c].at
             /\ r.control = IF rcv[c].next = "open" THEN FileOf(rcv[c].at) ELSE 0
        /\ rcv[c].next \notin {"open", "ack"} => r.pc = rcv[c].next
    BY <1>0 DEF Done, Receivers
  <2>6. rcv[c].next \in Nexts
    BY <1>0 DEF Receivers
  <2>7. FileOf(rcv[c].at) # 0 /\ rcv[c].at >= 2
    BY <1>0, <2>1 DEF Receivers, Holds, Holding, FileOf
  <2>8. rcv[c].pc = "write" =>
          /\ disk[n] = {c} \X rcv[c].files /\ rcv[c].files = Needed(rcv[c].control)
    BY <1>0, <1>d, <2>1, <2>2 DEF Owns, Holding, Holds, Whole
  <2>9. NumberInv'
    <3>1. \A g : Needed(g)' = Needed(g)
      BY <1>0 DEF Needed, Script, Files
    <3>2. ASSUME NEW i \in Numbers
          PROVE  /\ ticket'[i].state \in {"none", "empty"} => disk'[i] = {}
                 /\ ticket'[i].state = "queued" =>
                      disk'[i] = {ticket'[i].job[1]} \X Needed(ticket'[i].job[2])
                 /\ ticket'[i].state = "incoming" => ticket'[i].pid \in Conns
      <4>1. CASE i # n \/ ticket'[n] = ticket[n]
        BY <1>0, <2>1, <2>3, <4>1 DEF NumberInv
      <4>2. CASE i = n /\ ticket'[n].state = s /\ ticket'[n].job = <<c, rcv[c].control>>
        <5>1. ticket'[i].job[1] = c /\ ticket'[i].job[2] = rcv[c].control
          BY <4>2
        <5> HIDE DEF n
        <5> QED
          BY <2>1, <2>8, <4>2, <5>1
      <4> QED
        BY <2>3, <4>1, <4>2
    <3> QED
      BY <3>1, <3>2 DEF NumberInv
  <2> HIDE DEF r, n
  <2>10. ASSUME rcv[c].next \in {"open", "ack"} PROVE Owns(c)' /\ Holds(c)' /\ Opens(c)'
    <3>1. Owns(c)'
      BY <2>4, <2>5, <2>10 DEF Owns, Holding
    <3>2. Holds(c)'
      BY <1>0, <2>4, <2>5, <2>7, <2>10 DEF Holds, Holding
    <3>3. Opens(c)'
      BY <2>4, <2>5, <2>10 DEF Opens
    <3> QED
      BY <3>1, <3>2, <3>3
  <2>11. ASSUME rcv[c].next \notin {"open", "ack"} PROVE Owns(c)' /\ Holds(c)' /\ Opens(c)'
    BY <2>4, <2>5, <2>6, <2>11 DEF Owns, Holds, Opens, Holding, Nexts
  <2> QED
    BY <2>9, <2>10, <2>11, OnlyMine
<1>15. CASE SendAck(c)
  <2> DEFINE k == rcv[c].at + 1
             r == [rcv[c] EXCEPT !.pc = "line", !.at = k]
             s == [rcv[c] EXCEPT !.pc = "end"]
  <2>1. k \in Nat /\ k >= rcv[c].at
    BY <1>0 DEF Receivers
  <2>2. UNCHANGED spoolVars /\ rcv[c].pc = "ack" /\ (Become(c, r) \/ Become(c, s))
    BY <1>15 DEF SendAck
  <2> HIDE DEF k
  <2>3. r \in Receivers /\ r.pc = "line" /\ r.at = k /\ r.control = rcv[c].control
        /\ r.num = rcv[c].num /\ r.file = rcv[c].file
    BY <1>0, <2>1 DEF Receivers, ReceiverPc
  <2>4. s \in Receivers /\ s.pc = "end" /\ s.at = rcv[c].at /\ s.control = rcv[c].control
        /\ s.num = rcv[c].num /\ s.file = rcv[c].file
    BY <1>0 DEF Receivers, ReceiverPc
  <2> HIDE DEF r, s
  <2>5. CASE Become(c, r)
    <3>1. Holds(c)'
      BY <1>0, <1>a, <2>1, <2>2, <2>3, <2>5 DEF Holds, Holding, Receivers
    <3> QED
      BY <2>2, <2>3, <2>5, <3>1, SpoolAlone DEF Holding
  <2>6. CASE Become(c, s)
    <3>1. Holds(c)'
      BY <1>0, <1>a, <2>2, <2>4, <2>6 DEF Holds, Holding
    <3> QED
      BY <2>2, <2>4, <2>6, <3>1, SpoolAlone DEF Holding
  <2> QED
    BY <2>2, <2>5, <2>6
<1>16. CASE SendLastAck(c)
  <2> DEFINE r == [rcv[c] EXCEPT !.pc = "close"]
             s == [rcv[c] EXCEPT !.pc = "answer"]
  <2>1. UNCHANGED spoolVars /\ rcv[c].pc = "lastack" /\ (Become(c, r) \/ Become(c, s))
    BY <1>16 DEF SendLastAck
  <2>2. /\ r \in Receivers /\ r.pc = "close" /\ r.num = rcv[c].num /\ r.file = rcv[c].file
        /\ s \in Receivers /\ s.pc = "answer" /\ s.num = rcv[c].num /\ s.file = rcv[c].file
    BY <1>0 DEF Receivers, ReceiverPc
  <2> HIDE DEF r, s
  <2>3. Holds(c)'
    BY <1>a, <2>1, <2>2 DEF Holds, Holding
  <2> QED
    BY <2>1, <2>2, <2>3, SpoolAlone DEF Holding
<1>17. CASE AtEnd(c)
  <2> DEFINE p == CASE rcv[c].discard /\ rcv[c].num # Nobody                    -> "toolarge"
                    [] rcv[c].discard /\ rcv[c].num = Nobody                    -> "close"
                    [] ~rcv[c].discard /\ rcv[c].files = {}                     -> "close"
                    [] ~rcv[c].discard /\ rcv[c].files # {} /\ rcv[c].num # Nobody -> "check"
                    [] OTHER                                                    -> "dead"
             r == [rcv[c] EXCEPT !.next = "close", !.pc = p]
  <2>1. p \in {"toolarge", "close", "check", "dead"}
        /\ (p \in {"toolarge", "check"} => rcv[c].num # Nobody)
    OBVIOUS
  <2>2. Become(c, r) /\ UNCHANGED spoolVars /\ rcv[c].pc = "end"
    BY <1>17 DEF AtEnd
  <2> HIDE DEF p
  <2>3. r \in Receivers /\ r.pc = p /\ r.num = rcv[c].num /\ r.file = rcv[c].file
        /\ r.at = rcv[c].at
    BY <1>0, <2>1 DEF Receivers, ReceiverPc, Nexts
  <2> HIDE DEF r
  <2>4. Holds(c)'
    BY <1>0, <1>a, <2>1, <2>2, <2>3 DEF Holds, Holding
  <2> QED
    BY <2>1, <2>2, <2>3, <2>4, SpoolAlone DEF Holding
<1>18. CASE Close(c)
  <2> DEFINE r == [rcv[c] EXCEPT !.pc = "ended"]
  <2>1. r \in Receivers /\ r.pc = "ended" /\ r.num = rcv[c].num /\ r.file = rcv[c].file
    BY <1>0 DEF Receivers, ReceiverPc
  <2>2. Become(c, r) /\ UNCHANGED spoolVars /\ rcv[c].pc = "close"
    BY <1>18 DEF Close
  <2> HIDE DEF r
  <2> QED
    BY <2>1, <2>2, SpoolAlone DEF Holding
<1>19. CASE Error(c)
  <2> DEFINE r == [rcv[c] EXCEPT !.pc = "answer"]
  <2>1. Become(c, r) /\ rcv[c].pc = "error"
    BY <1>19 DEF Error
  <2>2. r.pc = "answer" /\ r \in Receivers /\ r.num = rcv[c].num /\ r.file = rcv[c].file
    BY <1>0 DEF Receivers, ReceiverPc
  <2>3. rcv'[c] = r
    BY <1>a, <2>1
  <2> HIDE DEF r
  <2>4. Owns(c)' /\ Holds(c)' /\ Opens(c)'
    BY <2>2, <2>3 DEF Owns, Holds, Opens, Holding
  <2>5. CASE rcv[c].num # Nobody
    <3>1. rcv[c].num \in Numbers /\ Unlink(rcv[c].num)
      BY <1>0, <1>19, <2>5 DEF Receivers, Error
    <3> QED
      BY <1>0, <2>4, <3>1, UnlinkNumbers, OnlyMine
  <2>6. CASE rcv[c].num = Nobody
    <3>1. UNCHANGED spoolVars
      BY <1>19, <2>6 DEF Error
    <3> QED
      BY <2>1, <2>2, <2>4, <3>1, SpoolAlone DEF Holding
  <2> QED
    BY <2>5, <2>6
<1>20. CASE AnswerError(c)
  <2> DEFINE r == [rcv[c] EXCEPT !.pc = "ended", !.error = TRUE]
  <2>1. r \in Receivers /\ r.pc = "ended" /\ r.num = rcv[c].num /\ r.file = rcv[c].file
    BY <1>0 DEF Receivers, ReceiverPc
  <2>2. Become(c, r) /\ UNCHANGED spoolVars /\ rcv[c].pc = "answer"
    BY <1>20 DEF AnswerError
  <2> HIDE DEF r
  <2> QED
    BY <2>1, <2>2, SpoolAlone DEF Holding
<1> QED
  BY <1>1, <1>2, <1>3, <1>4, <1>5, <1>6, <1>7, <1>8, <1>9, <1>10, <1>11, <1>12,
     <1>13, <1>14, <1>15, <1>16, <1>17, <1>18, <1>19, <1>20 DEF ReceiverStep

\* A receiver is gone.
LEMMA DiesMine ==
    ASSUME SpoolInv, OneAtATime, NEW c \in Conns, Dies(c), ~Stopped(c)
    PROVE  MineInv'
<1> SUFFICES ASSUME NEW d \in Conns, ~Stopped(d)' PROVE FALSE
  BY DEF MineInv
<1>1. rcv' = [rcv EXCEPT ![c].pc = "dead"] /\ rcv \in [Conns -> Receivers]
  BY DEF Dies, SpoolInv, SoloInv, SpoolTypes
<1>2. d # c /\ ~Stopped(d)
  BY <1>1 DEF Stopped, Receivers
<1> QED
  BY <1>2, OneActive DEF SpoolInv

\* The step of a sender that stays with its connection.
LEMMA SpoolStays ==
    ASSUME SpoolInv, UNCHANGED <<order, rcv, ticket, disk>>
    PROVE  MineInv' /\ NumberInv'
<1>1. \A g : Needed(g)' = Needed(g)
  BY DEF Needed, Script, Files
<1>2. NumberInv'
  BY <1>1 DEF SpoolInv, NumberInv
<1>3. MineInv'
  <2> SUFFICES ASSUME NEW c \in Conns, ~Stopped(c)'
               PROVE  Owns(c)' /\ Holds(c)' /\ Opens(c)'
    BY DEF MineInv
  <2>1. Owns(c) /\ Holds(c) /\ Opens(c)
    BY DEF SpoolInv, MineInv, Stopped
  <2>2. Owns(c)' /\ Opens(c)'
    BY <2>1 DEF Owns, Opens
  <2>3. Holds(c)'
    BY <1>1, <2>1 DEF Holds, Whole
  <2> QED
    BY <2>2, <2>3
<1> QED
  BY <1>2, <1>3

\* A process that clears away a ticket that no receiver has.
LEMMA ClearedMine ==
    ASSUME SpoolInv, NEW n \in Numbers, Unlink(n), UNCHANGED <<order, rcv>>,
           \/ ticket[n].state \in {"queued", "error"}
           \/ ticket[n].state = "incoming" /\ Stopped(ticket[n].pid)
    PROVE  MineInv'
<1> SUFFICES ASSUME NEW c \in Conns, ~Stopped(c)'
             PROVE  Owns(c)' /\ Holds(c)' /\ Opens(c)'
  BY DEF MineInv
<1>1. ~Stopped(c) /\ Owns(c) /\ Holds(c) /\ Opens(c) /\ rcv[c] \in Receivers
  BY DEF SpoolInv, MineInv, Stopped, SoloInv, SpoolTypes
<1>2. \A m \in Numbers \ {n} : ticket'[m] = ticket[m] /\ disk'[m] = disk[m]
  BY DEF Unlink, SpoolInv, SoloInv, SpoolTypes
<1>3. Owns(c)'
  <2> SUFFICES ASSUME rcv[c].pc \in Holding, rcv[c].num # Nobody
               PROVE  /\ ticket'[rcv[c].num] = ticket[rcv[c].num]
                      /\ disk'[rcv[c].num] = disk[rcv[c].num]
    BY <1>1 DEF Owns
  <2>1. rcv[c].num # n
    BY <1>1 DEF Owns
  <2> QED
    BY <1>1, <1>2, <2>1 DEF Receivers
<1>4. Opens(c)'
  <2> SUFFICES ASSUME rcv[c].pc = "lock", rcv[c].empty
               PROVE  ticket'[rcv[c].try] = ticket[rcv[c].try]
    BY <1>1 DEF Opens
  <2>1. rcv[c].try # n
    BY <1>1 DEF Opens
  <2> QED
    BY <1>1, <1>2, <2>1 DEF Receivers
<1>5. Holds(c)'
  BY <1>1 DEF Holds, Whole, Needed, Script, Files
<1> QED
  BY <1>3, <1>4, <1>5

\* A new connection, whose receiver has nothing.
LEMMA ConnectSpool ==
    ASSUME SpoolInv, OneAtATime, NEW j \in Jobs, Connect(j)
    PROVE  MineInv' /\ NumberInv'
<1>1. PICK c : c = <<j, sender[j].attempt + 1>>
  OBVIOUS
<1>2. /\ rcv' = [rcv EXCEPT ![c].pc = "request"] /\ rcv \in [Conns -> Receivers]
      /\ UNCHANGED <<order, ticket, disk>>
      /\ sender[j].attempt > 0 => Stopped(Conn(j))
  BY <1>1 DEF Connect, OneAtATime, spoolVars, SpoolInv, SoloInv, SpoolTypes
<1>3. sender[j].attempt \in Nat /\ sender[j].attempt + 1 \in 1 .. MaxAttempts
  BY AttemptAssumption DEF Connect, SpoolInv, SoloInv, SpoolTypes, SenderState
<1>4. c \in Conns /\ rcv[c].pc = "absent"
  BY <1>1, <1>3 DEF SpoolInv, SoloInv, AnnounceInv, FutureInv, Conns
<1>5. rcv'[c] = [Absent EXCEPT !.pc = "request"]
  BY <1>2, <1>4 DEF SpoolInv, SoloInv, FreshInv
<1>6. rcv'[c].pc = "request" /\ rcv'[c].num = Nobody /\ rcv'[c].control = 0
  BY <1>5 DEF Absent
<1>7. \A g : Needed(g)' = Needed(g)
  BY <1>2 DEF Needed, Script, Files
<1>8. NumberInv'
  BY <1>2, <1>7 DEF SpoolInv, NumberInv
<1>9. MineInv'
  <2> SUFFICES ASSUME NEW d \in Conns, ~Stopped(d)'
               PROVE  Owns(d)' /\ Holds(d)' /\ Opens(d)'
    BY DEF MineInv
  <2>1. CASE d = c
    BY <1>6, <2>1 DEF Owns, Holds, Opens, Holding
  <2>2. CASE d # c
    <3>1. PICK i \in Jobs, a \in 1 .. MaxAttempts : d = <<i, a>>
      BY DEF Conns
    <3>2. i = j /\ a # sender[j].attempt + 1
      BY <1>1, <2>2, <3>1 DEF OneAtATime
    <3>3. rcv'[d] = rcv[d] /\ ~Stopped(d)
      BY <1>2, <2>2 DEF Stopped
    <3>4. ~(a < sender[j].attempt) /\ ~(a > sender[j].attempt)
      BY <3>1, <3>2, <3>3 DEF SpoolInv, SoloInv, PastInv, AnnounceInv, FutureInv, Stopped
    <3>5. a = sender[j].attempt /\ a > 0
      BY <1>3, <3>4
    <3> QED
      BY <1>2, <3>1, <3>2, <3>3, <3>5 DEF Conn
  <2> QED
    BY <2>1, <2>2
<1> QED
  BY <1>8, <1>9

LEMMA StepSpool == OneAtATime /\ SpoolInv /\ [TransferNext]_vars => SpoolInv'
<1> SUFFICES ASSUME OneAtATime, SpoolInv, [TransferNext]_vars PROVE SpoolInv'
  OBVIOUS
<1>0. SoloInv'
  BY StepSolo DEF SpoolInv
<1>1. CASE UNCHANGED vars
  BY <1>0, <1>1, SpoolStays DEF vars, spoolVars, SpoolInv
<1>2. ASSUME NEW j \in Jobs, SenderStep(j) \/ SendCut(j) \/ TimesOut(j)
      PROVE  SpoolInv'
  <2>1. CASE Connect(j)
    BY <1>0, <2>1, ConnectSpool DEF SpoolInv
  <2>2. CASE Send(j) \/ GetAck(j) \/ NoAck(j) \/ SendCut(j) \/ TimesOut(j)
    <3>1. UNCHANGED <<order, rcv, ticket, disk>>
      BY <2>2 DEF Send, GetAck, NoAck, SendCut, TimesOut, spoolVars
    <3> QED
      BY <1>0, <3>1, SpoolStays DEF SpoolInv
  <2> QED
    BY <1>2, <2>1, <2>2 DEF SenderStep
<1>3. ASSUME NEW c \in Conns, ReceiverStep(c) \/ Break(c) \/ ReceiverDies(c)
      PROVE  SpoolInv'
  <2>1. CASE ReceiverStep(c)
    BY <1>0, <2>1, ReceiverSpool DEF SpoolInv
  <2>2. CASE Break(c)
    BY <1>0, <2>2, SpoolStays DEF SpoolInv, Break, spoolVars
  <2>3. CASE ReceiverDies(c)
    <3>1. MineInv' /\ UNCHANGED <<order, ticket, disk>>
      BY <2>3, DiesMine DEF ReceiverDies
    <3>2. \A g : Needed(g)' = Needed(g)
      BY <3>1 DEF Needed, Script, Files
    <3>3. NumberInv'
      BY <3>1, <3>2 DEF SpoolInv, NumberInv
    <3> QED
      BY <1>0, <3>1, <3>3 DEF SpoolInv
  <2> QED
    BY <1>3, <2>1, <2>2, <2>3
<1>4. ASSUME NEW n \in Numbers, LprmIncoming(n) \/ RemoveStale(n) \/ Serve(n)
      PROVE  SpoolInv'
  <2>1. Unlink(n) /\ order' = order
    BY <1>4 DEF LprmIncoming, RemoveStale, Serve
  <2>2. NumberInv'
    BY <2>1, UnlinkNumbers
  <2>3. CASE LprmIncoming(n)
    <3>1. ticket[n].pid \in Conns /\ Dies(ticket[n].pid) /\ ~Stopped(ticket[n].pid)
      BY <2>3 DEF LprmIncoming, SpoolInv, NumberInv
    <3> QED
      BY <1>0, <2>2, <3>1, DiesMine DEF SpoolInv
  <2>4. CASE RemoveStale(n) \/ Serve(n)
    <3>1. MineInv'
      BY <2>1, <2>4, ClearedMine DEF RemoveStale, Serve
    <3> QED
      BY <1>0, <2>2, <3>1 DEF SpoolInv
  <2> QED
    BY <1>4, <2>3, <2>4
<1> QED
  BY <1>1, <1>2, <1>3, <1>4 DEF TransferNext

\* As long as transfers do not overlap, a job that can be printed has its data
\* files, and they came with it (Check_for_missing_files() of lpd_rcvjob.c).
THEOREM QueuedJobsAreWhole ==
    ASSUME OneAtATime PROVE TransferSpec => []QueuedIsWhole
<1>1. SpoolInv => QueuedIsWhole
  BY DEF SpoolInv, NumberInv, QueuedIsWhole
<1> QED
  BY <1>1, InitSpool, StepSpool, PTL DEF TransferSpec

\* And the ticket under the number a receiver has is the one it made:
\* Find_non_colliding_job_number() gives no number away twice.
THEOREM NumbersAreKept ==
    ASSUME OneAtATime PROVE TransferSpec => []TicketIsMine
<1>1. SpoolInv => TicketIsMine
  <2> SUFFICES ASSUME SpoolInv, NEW c \in Conns, ~Stopped(c), rcv[c].num # Nobody,
                      rcv[c].pc \notin {"error", "answer", "close", "lastack"}
               PROVE  /\ ticket[rcv[c].num].pid = c
                      /\ ticket[rcv[c].num].state = "incoming"
    BY DEF TicketIsMine
  <2>1. Owns(c) /\ Holds(c) /\ rcv[c].pc \in ReceiverPc
    BY DEF SpoolInv, MineInv, SoloInv, SpoolTypes, Receivers
  <2>2. rcv[c].pc \in Holding
    BY <2>1 DEF Holds, Holding, Stopped, ReceiverPc
  <2> QED
    BY <2>1, <2>2 DEF Owns
<1> QED
  BY <1>1, InitSpool, StepSpool, PTL DEF TransferSpec

-----------------------------------------------------------------------------
(* What the sender was told.                                                *)

Forms == {"whole", "partial", "unterminated"}

LineTypes ==
    /\ link \in [Conns -> {"none", "open", "closed", "down"}]
    /\ wire \in [Conns -> Seq(Forms)]
    /\ acks \in [Conns -> Seq({"yes", "no"})]

\* The receiver waits for message k.
Reads(r, k) ==
    /\ r.at = k
    /\ r.pc = IF k = 1 THEN "request" ELSE IF IsBody(k) THEN "body" ELSE "line"

Judging == {"check", "toolarge", "write"}

\* Where a receiver can be in the dialogue.
Place(c) ==
    LET r == rcv[c] IN
    /\ r.pc = "request" => r.at = 1
    /\ r.pc = "line" => r.at >= 2 /\ r.at % 2 = 0 /\ order # "block"
    /\ r.pc \in {"body", "open", "lock", "ack"} => IsBody(r.at) /\ r.at <= Messages
    /\ r.pc \in {"ack", "end"} => order # "block"
    /\ r.pc \in {"blockdata", "lastack"} => order = "block"
    /\ order = "block" /\ r.pc \in Judging \cup {"blockdata", "lastack"} => r.at = 2
    /\ r.pc \in Judging =>
         /\ order = "block" <=> r.next = "lastack"
         /\ order = "control" => r.next = "close"
         /\ order = "pair" => r.next \in {"open", "close"}
         /\ order = "data" => r.next # "open"
         /\ r.next \in {"open", "ack"} => IsBody(r.at) /\ r.at <= Messages
    /\ r.refused => r.pc \in {"error", "answer"}

\* A message waits for a receiver that is about to read it.
Waits(c) ==
    wire[c] # <<>> =>
      /\ \E form \in Forms : wire[c] = <<form>>
      /\ rcv[c].pc \in {"request", "line", "body"} /\ rcv[c].at <= Messages

\* The data files that came before message k, with the control file first.
Before(k) == {i \in Needed(1) : 2 * i + 1 < k}

\* What a receiver has of the job, by the order of the files.
ControlFirst(c) ==
    LET r == rcv[c] IN
    order = "control" =>
      /\ r.pc \in {"request", "line", "body", "open", "lock"} =>
           r.discard \/ r.files = Before(r.at)
      /\ r.pc = "ack" => r.discard \/ r.files = Before(r.at + 1)
      /\ r.pc \in {"request", "line", "body"} => r.control = IF r.at > 3 THEN 1 ELSE 0
      /\ r.pc \in {"open", "lock", "ack"} => r.control = 1
      /\ r.pc \in {"open", "lock"} => r.at = 3

DataFirst(c) ==
    LET r == rcv[c] IN
    order = "data" =>
      /\ r.pc \in {"request", "line", "body"} /\ r.at <= Messages => r.control = 0
      /\ r.pc = "ack" /\ r.at < Messages => r.control = 0
      /\ r.pc \in {"open", "lock"} => r.at >= Messages
      /\ r.pc \in Judging /\ r.next = "ack" => r.at >= Messages
      /\ \/ r.pc \in {"line", "body"} /\ r.at > 3 /\ r.at <= Messages
         \/ r.pc = "ack" /\ r.at < Messages
         \/ r.pc \in {"open", "lock"}
         => r.files # {} \/ r.discard
      /\ r.pc \in {"ack", "line"} /\ r.at >= Messages =>
           kept[c] > 0 \/ (r.discard /\ r.control # 0)

InPairs(c) ==
    LET r == rcv[c] IN
    order = "pair" =>
      /\ r.at > 7 \/ (r.at = 7 /\ r.pc \in {"open", "lock", "ack"}) => kept[c] > 0
      /\ r.pc \in {"open", "lock", "ack"} => r.control # 0
      /\ r.pc \in {"line", "body"} /\ r.at > 3 => r.control # 0

\* A block with no data file under the limit: the job is removed, and the
\* sender is told that it arrived.
Emptied(r) ==
    /\ order = "block" /\ r.discard /\ r.files = {}
    /\ r.pc \in {"lastack", "close", "ended", "dead"}

InBlock(c) ==
    order = "block" /\ rcv[c].pc \in {"lastack", "close"} => kept[c] > 0 \/ Emptied(rcv[c])

Dialogue(c) ==
    ~Stopped(c) => /\ Place(c) /\ Waits(c)
                   /\ ControlFirst(c) /\ DataFirst(c) /\ InPairs(c) /\ InBlock(c)

\* All has come, and the ticket is still to be written.
Pending(r) ==
    \/ /\ order \in {"control", "data"} /\ r.discard /\ r.control # 0
       /\ r.pc \in {"line", "end", "toolarge", "dead"}
    \/ /\ order = "control" /\ ~r.discard /\ r.control = 1 /\ Whole(r)
       /\ r.pc \in {"line", "end", "check", "write", "dead"}

\* AckedIsKept of one connection.
Accounted(c) ==
    LET r == rcv[c] IN
    \/ kept[c] > 0
    \/ Emptied(r)
    \/ Pending(r)
    \/ order = "control" /\ r.refused

Busy == {"ack", "open", "lock", "blockdata", "check", "toolarge", "write", "lastack",
         "error", "answer", "ended"}

\* An open connection: what is on its way, and where its two ends are.
Nay(s, c) == s.state = "wait" /\ wire[c] = <<>> /\ acks[c] = <<"no">> /\ rcv[c].pc = "ended"
Idle(s, c) == s.state = "send" /\ wire[c] = <<>> /\ acks[c] = <<>> /\ Reads(rcv[c], s.pos)
Sent(s, c) == s.state = "wait" /\ wire[c] = <<"whole">> /\ acks[c] = <<>> /\ Reads(rcv[c], s.pos)
Works(s, c) ==
    /\ s.state = "wait" /\ wire[c] = <<>> /\ acks[c] = <<>>
    /\ rcv[c].at = s.pos /\ rcv[c].pc \in Busy
    /\ rcv[c].pc \in Judging => rcv[c].next # "close"
Yea(s, c) ==
    /\ s.state = "wait" /\ wire[c] = <<>> /\ acks[c] = <<"yes">>
    /\ s.pos < Messages => Reads(rcv[c], s.pos + 1)
    /\ s.pos = Messages => /\ Accounted(c)
                           /\ \/ rcv[c].pc = "line"
                              \/ /\ rcv[c].pc \in {"close", "ended"}
                                 /\ kept[c] > 0 \/ Emptied(rcv[c])

InStep(j) ==
    LET c == Conn(j)
        s == sender[j]
    IN  s.state \in {"send", "wait"} =>
          /\ s.attempt \in 1 .. MaxAttempts /\ s.pos \in 1 .. Messages
          /\ link[c] \in {"open", "down"}
          /\ link[c] = "down" => wire[c] = <<>> /\ acks[c] = <<>>
          /\ link[c] = "open" => \/ Nay(s, c) \/ Idle(s, c) \/ Sent(s, c)
                                 \/ Works(s, c) \/ Yea(s, c)

Settled == {"line", "end", "check", "toolarge", "write", "close", "error", "answer",
            "ended", "dead"}

Told(j) ==
    LET c == Conn(j) IN
    sender[j].state = "sent" =>
      /\ sender[j].attempt \in 1 .. MaxAttempts
      /\ Accounted(c) /\ wire[c] = <<>>
      /\ kept[c] > 0 \/ rcv[c].pc \in Settled

Unused(j) ==
    \A a \in 1 .. MaxAttempts :
      a > sender[j].attempt => wire[<<j, a>>] = <<>> /\ acks[<<j, a>>] = <<>>

DialogueInv ==
    /\ LineTypes
    /\ \A c \in Conns : Dialogue(c)
    /\ \A j \in Jobs : InStep(j) /\ Told(j) /\ Unused(j)

\* What is sent, and what it is made of.
LEMMA ScriptFacts ==
    ASSUME order \in Orders
    PROVE  /\ order = "block" => Messages = 2
           /\ order \in {"control", "data"} => Messages = 2 * DataFiles + 3
           /\ order = "pair" => Messages = 9
           /\ order = "control" =>
                /\ Needed(1) = 2 .. (DataFiles + 1) /\ Script[1] = "control"
                /\ \A i \in 2 .. (DataFiles + 1) : Script[i] = "data"
           /\ order = "data" => /\ Script[DataFiles + 1] = "control"
                                /\ \A i \in 1 .. DataFiles : Script[i] = "data"
           /\ order = "pair" => /\ Script[1] = "control" /\ Script[2] = "data"
                                /\ Script[3] = "control" /\ Script[4] = "data"
<1>0. DataFiles \in Nat \ {0} /\ order \in {"control", "data", "block", "pair"}
  BY AttemptAssumption, OrderAssumption
<1> DEFINE F == Files(DataFiles)
<1>1. F \in Seq({"data"}) /\ Len(F) = DataFiles /\ \A i \in 1 .. DataFiles : F[i] = "data"
  BY <1>0 DEF Files
<1> HIDE DEF F
<1>2. ASSUME order = "data"
      PROVE  /\ Len(Script) = DataFiles + 1 /\ Script[DataFiles + 1] = "control"
             /\ \A i \in 1 .. DataFiles : Script[i] = "data"
  <2>1. Script = F \o <<"control">>
    BY <1>2 DEF Script, F
  <2> QED
    BY <1>0, <1>1, <2>1
<1>3. ASSUME order = "control"
      PROVE  /\ Len(Script) = DataFiles + 1 /\ Script[1] = "control"
             /\ \A i \in 2 .. (DataFiles + 1) : Script[i] = "data"
  <2>1. Script = <<"control">> \o F
    BY <1>3 DEF Script, F
  <2>2. Len(Script) = DataFiles + 1 /\ Script[1] = "control"
    BY <1>0, <1>1, <2>1
  <2>3. ASSUME NEW i \in 2 .. (DataFiles + 1) PROVE Script[i] = "data"
    <3>1. i - 1 \in 1 .. DataFiles /\ Script[i] = F[i - 1]
      BY <1>0, <1>1, <2>1
    <3> QED
      BY <1>1, <3>1
  <2> QED
    BY <2>2, <2>3
<1>4. ASSUME order = "control" PROVE Needed(1) = 2 .. (DataFiles + 1)
  <2>1. Needed(1) = {i \in 1 .. Len(Script) : Script[i] = "data"}
    BY <1>4 DEF Needed
  <2> SUFFICES ASSUME NEW i PROVE i \in Needed(1) <=> i \in 2 .. (DataFiles + 1)
    OBVIOUS
  <2>2. i \in Needed(1) <=> i \in 1 .. (DataFiles + 1) /\ Script[i] = "data"
    BY <1>3, <1>4, <2>1
  <2>3. i \in 1 .. (DataFiles + 1) <=> i = 1 \/ i \in 2 .. (DataFiles + 1)
    BY <1>0
  <2> QED
    BY <1>3, <1>4, <2>2, <2>3
<1>5. ASSUME order = "pair"
      PROVE  /\ Len(Script) = 4 /\ Script[1] = "control" /\ Script[2] = "data"
             /\ Script[3] = "control" /\ Script[4] = "data"
  BY <1>5 DEF Script
<1>6. order = "block" => Messages = 2
  BY DEF Messages
<1>7. order # "block" => Messages = 1 + 2 * Len(Script)
  BY DEF Messages
<1>8. order \in {"control", "data"} => Messages = 2 * DataFiles + 3
  BY <1>0, <1>2, <1>3, <1>7
<1>9. ASSUME order = "pair" PROVE Messages = 9
  <2>1. Len(Script) = 4 /\ order # "block"
    BY <1>5, <1>9
  <2>2. Messages = 1 + 2 * 4
    BY <1>7, <2>1
  <2> QED
    BY <2>2
<1> QED
  BY <1>2, <1>3, <1>4, <1>5, <1>6, <1>8, <1>9

LEMMA MessageFacts ==
    ASSUME order \in Orders
    PROVE  /\ Messages \in Nat /\ Messages >= 2
           /\ order = "block" => Messages = 2 /\ \A k \in Nat : IsBody(k) <=> k = 2
           /\ order # "block" =>
                /\ Messages % 2 = 1 /\ Messages >= 5
                /\ \A k \in Nat : IsBody(k) <=> k > 1 /\ k % 2 = 1
<1>0. DataFiles \in Nat \ {0} /\ order \in {"control", "data", "block", "pair"}
  BY AttemptAssumption, OrderAssumption
<1>1. Messages \in {2, 9, 2 * DataFiles + 3}
  BY <1>0, ScriptFacts
<1>2. order = "block" => Messages = 2 /\ \A k \in Nat : IsBody(k) <=> k = 2
  BY ScriptFacts DEF IsBody
<1>3. order # "block" => Messages \in {9, 2 * DataFiles + 3}
  BY <1>0, ScriptFacts
<1>4. (2 * DataFiles + 3) % 2 = 1
  BY <1>0
<1>5. order # "block" => \A k \in Nat : IsBody(k) <=> k > 1 /\ k % 2 = 1
  BY DEF IsBody
<1> QED
  BY <1>0, <1>1, <1>2, <1>3, <1>4, <1>5

LEMMA SameOrder ==
    ASSUME UNCHANGED order
    PROVE  /\ Messages' = Messages
           /\ \A k : IsBody(k)' = IsBody(k)
           /\ \A f : Needed(f)' = Needed(f)
           /\ \A k : Before(k)' = Before(k)
           /\ \A r : (Whole(r)' <=> Whole(r)) /\ (Emptied(r)' <=> Emptied(r))
                     /\ (Pending(r)' <=> Pending(r))
           /\ \A i : (Script[i])' = Script[i]
  BY DEF Messages, IsBody, Needed, Before, Script, Files, Whole, Emptied, Pending

\* A ticket that is to be written is there.
LEMMA TicketFound ==
    ASSUME SpoolInv, NEW c \in Conns, WriteTicket(c)
    PROVE  kept'[c] = kept[c] + 1 /\ kept'[c] > 0 /\ kept[c] \in Nat
<1>1. rcv[c].pc \in {"write", "toolarge"} /\ ~Stopped(c)
  BY DEF WriteTicket, Stopped
<1>2. Owns(c) /\ Holds(c) /\ kept \in [Conns -> Nat]
  BY <1>1 DEF SpoolInv, MineInv, SoloInv, SpoolTypes
<1>3. ticket[rcv[c].num].state = "incoming" /\ ticket[rcv[c].num].made = rcv[c].file
  BY <1>1, <1>2 DEF Owns, Holds, Holding
<1>4. kept' = [kept EXCEPT ![c] = @ + 1]
  BY <1>3 DEF WriteTicket, SameFile
<1> QED
  BY <1>2, <1>4

LEMMA AnswerTyped ==
    ASSUME LineTypes, NEW c \in Conns, NEW b \in {<<"yes">>, <<"no">>, <<>>}, NEW ok,
           Answer(c, b, ok)
    PROVE  /\ acks' \in [Conns -> Seq({"yes", "no"})]
           /\ \A d \in Conns \ {c} : acks'[d] = acks[d]
           /\ link[c] # "open" => acks'[c] = acks[c]
           /\ link[c] = "open" => ok /\ acks'[c] = acks[c] \o b
<1>1. acks \in [Conns -> Seq({"yes", "no"})]
  BY DEF LineTypes
<1>2. CASE link[c] = "open"
  <2>1. ok /\ acks' = [acks EXCEPT ![c] = acks[c] \o b]
    BY <1>2 DEF Answer
  <2>2. acks[c] \o b \in Seq({"yes", "no"})
    <3>1. b \in Seq({"yes", "no"})
      <4>1. <<"yes">> \in Seq({"yes", "no"})
        OBVIOUS
      <4>2. <<"no">> \in Seq({"yes", "no"})
        OBVIOUS
      <4>3. <<>> \in Seq({"yes", "no"})
        OBVIOUS
      <4> QED
        BY <4>1, <4>2, <4>3
    <3> QED
      BY <1>1, <3>1
  <2> QED
    BY <1>1, <1>2, <2>1, <2>2
<1>3. CASE link[c] # "open"
  BY <1>1, <1>3 DEF Answer
<1> QED
  BY <1>2, <1>3

LEMMA ReceiverLines ==
    ASSUME SpoolInv, LineTypes, NEW c \in Conns, ReceiverStep(c), Dialogue(c)
    PROVE  /\ LineTypes'
           /\ wire'[c] = <<>>
           /\ \A d \in Conns \ {c} : wire'[d] = wire[d] /\ acks'[d] = acks[d] /\ kept'[d] = kept[d]
           /\ kept[c] \in Nat /\ kept'[c] \in Nat /\ kept'[c] >= kept[c]
<1>1. ~Stopped(c) /\ UNCHANGED link /\ wire \in [Conns -> Seq(Forms)]
      /\ acks \in [Conns -> Seq({"yes", "no"})] /\ kept \in [Conns -> Nat]
  BY ReceiverAlone DEF LineTypes, SpoolInv, SoloInv, SpoolTypes
<1>2. Waits(c) /\ Place(c)
  BY <1>1 DEF Dialogue
<1>3. wire' = wire \/ (wire[c] # <<>> /\ wire' = [wire EXCEPT ![c] = Tail(@)])
  BY DEF ReceiverStep, TakeRequest, TakeBlockRequest, NoRequest, TakeLine, EndOfInput,
         TakeBody, TakeBlock, BodyFails, OpenTicket, LockTicket, BlockData, CheckFails,
         CheckPasses, WriteTicket, SendAck, SendLastAck, AtEnd, Close, Error, AnswerError,
         Take, GoodBody
<1>4. wire' = wire => wire[c] = <<>>
  <2>1. rcv[c].pc \in {"request", "line", "body"} /\ wire' = wire => wire[c] = <<>>
    <3>1. ASSUME wire[c] # <<>>, Take(c) PROVE wire' # wire
      <4>1. PICK form \in Forms : wire[c] = <<form>>
        BY <1>2, <3>1 DEF Waits
      <4>2. wire'[c] = <<>>
        BY <1>1, <3>1, <4>1 DEF Take
      <4> QED
        BY <3>1, <4>2
    <3>2. rcv[c].pc \in {"request", "line", "body"} => Take(c) \/ AtEof(c)
      BY DEF ReceiverStep, TakeRequest, TakeBlockRequest, NoRequest, TakeLine, EndOfInput,
         TakeBody, TakeBlock, BodyFails, OpenTicket, LockTicket, BlockData, CheckFails,
         CheckPasses, WriteTicket, SendAck, SendLastAck, AtEnd, Close, Error, AnswerError,
         GoodBody
    <3> QED
      BY <3>1, <3>2 DEF AtEof
  <2>2. rcv[c].pc \notin {"request", "line", "body"} => wire[c] = <<>>
    BY <1>2 DEF Waits
  <2> QED
    BY <2>1, <2>2
<1>5. wire'[c] = <<>> /\ wire' \in [Conns -> Seq(Forms)]
      /\ \A d \in Conns \ {c} : wire'[d] = wire[d]
  <2>1. CASE wire' = wire
    BY <1>1, <1>4, <2>1
  <2>2. CASE wire[c] # <<>> /\ wire' = [wire EXCEPT ![c] = Tail(@)]
    <3>1. PICK form \in Forms : wire[c] = <<form>>
      BY <1>2, <2>2 DEF Waits
    <3>2. Tail(wire[c]) = <<>> /\ <<>> \in Seq(Forms)
      BY <3>1
    <3> QED
      BY <1>1, <2>2, <3>2
  <2> QED
    BY <1>3, <2>1, <2>2
<1>6. acks' = acks \/ \E b \in {<<"yes">>, <<"no">>, <<>>}, ok \in BOOLEAN : Answer(c, b, ok)
  BY DEF ReceiverStep, TakeRequest, TakeBlockRequest, NoRequest, TakeLine, EndOfInput,
         TakeBody, TakeBlock, BodyFails, OpenTicket, LockTicket, BlockData, CheckFails,
         CheckPasses, WriteTicket, SendAck, SendLastAck, AtEnd, Close, Error, AnswerError
<1>7. acks' \in [Conns -> Seq({"yes", "no"})] /\ \A d \in Conns \ {c} : acks'[d] = acks[d]
  BY <1>1, <1>6, AnswerTyped
<1>8. kept' = kept \/ kept' = [kept EXCEPT ![c] = @ + 1]
  BY DEF ReceiverStep, TakeRequest, TakeBlockRequest, NoRequest, TakeLine, EndOfInput,
         TakeBody, TakeBlock, BodyFails, OpenTicket, LockTicket, BlockData, CheckFails,
         CheckPasses, WriteTicket, SendAck, SendLastAck, AtEnd, Close, Error, AnswerError
<1>9. kept[c] \in Nat /\ kept'[c] \in Nat /\ kept'[c] >= kept[c]
      /\ \A d \in Conns \ {c} : kept'[d] = kept[d]
  BY <1>1, <1>8
<1>10. LineTypes'
  BY <1>1, <1>5, <1>7 DEF LineTypes
<1> QED
  BY <1>5, <1>7, <1>9, <1>10

Reading == {"request", "line", "body"}

\* A receiver's place tells what an open connection has.
LEMMA OpenStage ==
    ASSUME NEW j \in Jobs, NEW c, c = Conn(j), InStep(j), sender[j].state \in {"send", "wait"},
           link[c] = "open", ~Stopped(c), order \in Orders
    PROVE  /\ rcv[c].pc \in Reading /\ wire[c] # <<>> => Sent(sender[j], c)
           /\ rcv[c].pc \in Busy => Works(sender[j], c)
           /\ rcv[c].pc = "close" => Yea(sender[j], c) /\ ~(sender[j].pos < Messages)
           /\ rcv[c].pc # "end"
<1>1. \/ Nay(sender[j], c) \/ Idle(sender[j], c) \/ Sent(sender[j], c)
      \/ Works(sender[j], c) \/ Yea(sender[j], c)
  BY DEF InStep
<1>2. \A k : Reads(rcv[c], k) => rcv[c].pc \in Reading
  BY DEF Reads, Reading
<1>3. Nay(sender[j], c) => wire[c] = <<>> /\ Stopped(c)
  BY DEF Nay, Stopped
<1>4. Idle(sender[j], c) => wire[c] = <<>> /\ rcv[c].pc \in Reading
  BY <1>2 DEF Idle
<1>5. Sent(sender[j], c) => rcv[c].pc \in Reading
  BY <1>2 DEF Sent
<1>6. Works(sender[j], c) => wire[c] = <<>> /\ rcv[c].pc \in Busy
  BY DEF Works
<1>7. Yea(sender[j], c) =>
        /\ wire[c] = <<>>
        /\ sender[j].pos < Messages => rcv[c].pc \in Reading
        /\ sender[j].pos = Messages => rcv[c].pc \in {"line", "close", "ended"}
  BY <1>2 DEF Yea
<1>8. sender[j].pos \in 1 .. Messages
  BY DEF InStep
<1>9. Yea(sender[j], c) =>
        rcv[c].pc \in Reading \cup {"ended"} \/ (rcv[c].pc = "close" /\ ~(sender[j].pos < Messages))
  <2> SUFFICES ASSUME Yea(sender[j], c)
               PROVE  \/ rcv[c].pc \in Reading \cup {"ended"}
                      \/ rcv[c].pc = "close" /\ ~(sender[j].pos < Messages)
    OBVIOUS
  <2>1. CASE sender[j].pos < Messages
    BY <1>7, <2>1
  <2>2. CASE ~(sender[j].pos < Messages)
    <3>1. sender[j].pos = Messages
      BY <1>8, <2>2, MessageFacts
    <3> QED
      BY <1>7, <2>2, <3>1 DEF Reading
  <2> QED
    BY <2>1, <2>2
<1> QED
  BY <1>1, <1>3, <1>4, <1>5, <1>6, <1>7, <1>9 DEF Reading, Busy, Stopped

\* What every step of a receiver has in common, for its sender.
Heard(j, c) ==
    /\ SpoolInv /\ DialogueInv /\ ReceiverStep(c) /\ c = Conn(j) /\ Conn(j)' = c
    /\ ~Stopped(c) /\ InStep(j) /\ Told(j) /\ Place(c) /\ Waits(c)
    /\ UNCHANGED <<order, sender, link>>
    /\ wire'[c] = <<>> /\ kept[c] \in Nat /\ kept'[c] \in Nat /\ kept'[c] >= kept[c]
    /\ Messages' = Messages /\ Messages \in Nat /\ order \in Orders
    /\ \A k : IsBody(k)' = IsBody(k)

LEMMA Hearing ==
    ASSUME SpoolInv, DialogueInv, NEW c \in Conns, ReceiverStep(c), NEW j \in Jobs, c = Conn(j)
    PROVE  Heard(j, c)
<1>1. ~Stopped(c) /\ UNCHANGED <<order, sender, link>>
  BY ReceiverAlone DEF SpoolInv, SoloInv
<1>2. Dialogue(c) /\ InStep(j) /\ Told(j) /\ LineTypes
  BY DEF DialogueInv
<1>3. Place(c) /\ Waits(c)
  BY <1>1, <1>2 DEF Dialogue
<1>4. wire'[c] = <<>> /\ kept[c] \in Nat /\ kept'[c] \in Nat /\ kept'[c] >= kept[c]
  BY <1>2, ReceiverLines
<1>5. Messages' = Messages /\ Messages \in Nat /\ order \in Orders
      /\ \A k : IsBody(k)' = IsBody(k)
  BY <1>1, SameOrder, MessageFacts DEF SpoolInv, SoloInv, SpoolTypes
<1>6. Conn(j)' = Conn(j)
  BY <1>1 DEF Conn
<1> QED
  BY <1>1, <1>2, <1>3, <1>4, <1>5, <1>6 DEF Heard

\* It works on, or begins to.
LEMMA WorksOn ==
    ASSUME NEW j \in Jobs, NEW c, Heard(j, c), acks'[c] = acks[c],
           link[c] = "open" /\ sender[j].state \in {"send", "wait"} =>
             /\ \/ rcv[c].pc \in Busy
                \/ rcv[c].pc \in Reading /\ wire[c] # <<>>
             /\ rcv'[c].pc \in Busy /\ rcv'[c].at = rcv[c].at
             /\ rcv'[c].pc \in Judging => rcv'[c].next # "close"
    PROVE  InStep(j)'
<1> SUFFICES ASSUME sender[j].state \in {"send", "wait"}
             PROVE  /\ link[c] = "down" => wire'[c] = <<>> /\ acks'[c] = <<>>
                    /\ link[c] = "open" => Works(sender[j], c)'
  BY DEF InStep, Heard
<1>1. link[c] = "down" => acks[c] = <<>> /\ wire'[c] = <<>>
  BY DEF InStep, Heard
<1>2. ASSUME link[c] = "open" PROVE Works(sender[j], c)'
  <2>1. Sent(sender[j], c) \/ Works(sender[j], c)
    BY <1>2, OpenStage DEF Heard
  <2>2. sender[j].state = "wait" /\ acks[c] = <<>> /\ rcv[c].at = sender[j].pos
    BY <2>1 DEF Sent, Works, Reads
  <2> QED
    BY <1>2, <2>2 DEF Works, Heard
<1> QED
  BY <1>1, <1>2

\* From one message to the next.
Answered(c) ==
    /\ rcv'[c].at = rcv[c].at + 1
    /\ rcv'[c].pc = IF IsBody(rcv[c].at + 1) THEN "body" ELSE "line"

LEMMA NextMessage ==
    ASSUME NEW j \in Jobs, NEW c, Heard(j, c), Answered(c), rcv[c].at = sender[j].pos,
           sender[j].pos \in 1 .. Messages
    PROVE  Reads(rcv[c], sender[j].pos + 1)'
<1>1. PICK k : k = sender[j].pos + 1
  OBVIOUS
<1>2. sender'[j].pos + 1 = k /\ k # 1 /\ rcv'[c].at = k
      /\ rcv'[c].pc = IF IsBody(k) THEN "body" ELSE "line"
  BY <1>1 DEF Heard, Answered
<1>3. IsBody(k)' = IsBody(k)
  BY DEF Heard
<1>4. Reads(rcv[c], k)'
  BY <1>2, <1>3 DEF Reads
<1> QED
  BY <1>2, <1>4

\* It takes a message and agrees at once.
LEMMA AgreesAtOnce ==
    ASSUME NEW j \in Jobs, NEW c \in Conns, Heard(j, c), Answer(c, <<"yes">>, TRUE),
           rcv[c].pc \in Reading, wire[c] # <<>>,
           link[c] = "open" => Answered(c) /\ rcv[c].at < Messages
    PROVE  InStep(j)'
<1> SUFFICES ASSUME sender[j].state \in {"send", "wait"}
             PROVE  /\ link[c] = "down" => wire'[c] = <<>> /\ acks'[c] = <<>>
                    /\ link[c] = "open" => Yea(sender[j], c)'
  BY DEF InStep, Heard
<1>0. LineTypes
  BY DEF Heard, DialogueInv
<1>1. link[c] = "down" => acks'[c] = <<>> /\ wire'[c] = <<>>
  BY <1>0, AnswerTyped DEF InStep, Heard
<1>2. ASSUME link[c] = "open" PROVE Yea(sender[j], c)'
  <2>1. Sent(sender[j], c)
    BY <1>2, OpenStage DEF Heard
  <2>2. sender[j].state = "wait" /\ acks[c] = <<>> /\ rcv[c].at = sender[j].pos
    BY <2>1 DEF Sent, Reads
  <2>3. acks'[c] = <<"yes">>
    <3>1. acks'[c] = acks[c] \o <<"yes">>
      BY <1>0, <1>2, AnswerTyped
    <3> QED
      BY <2>2, <3>1
  <2>4. sender[j].pos < Messages /\ sender[j].pos \in 1 .. Messages
    BY <1>2, <2>2 DEF Heard, InStep
  <2>5. sender'[j] = sender[j] /\ Messages' = Messages /\ wire'[c] = <<>>
    BY DEF Heard
  <2>6. Reads(rcv[c], sender[j].pos + 1)'
    BY <1>2, <2>2, <2>4, NextMessage
  <2>7. ~(sender[j].pos = Messages)
    BY <2>4
  <2> QED
    BY <2>2, <2>3, <2>5, <2>6, <2>7 DEF Yea
<1> QED
  BY <1>1, <1>2

\* It agrees after it has worked.
LEMMA Agrees ==
    ASSUME NEW j \in Jobs, NEW c \in Conns, Heard(j, c), NEW ok, Answer(c, <<"yes">>, ok),
           rcv[c].pc \in Busy,
           link[c] = "open" /\ rcv[c].at < Messages => Answered(c),
           link[c] = "open" /\ rcv[c].at = Messages =>
             /\ Accounted(c)'
             /\ \/ rcv'[c].pc = "line"
                \/ rcv'[c].pc = "close" /\ (kept'[c] > 0 \/ Emptied(rcv[c])')
    PROVE  InStep(j)'
<1> SUFFICES ASSUME sender[j].state \in {"send", "wait"}
             PROVE  /\ link[c] = "down" => wire'[c] = <<>> /\ acks'[c] = <<>>
                    /\ link[c] = "open" => Yea(sender[j], c)'
  BY DEF InStep, Heard
<1>0. LineTypes
  BY DEF Heard, DialogueInv
<1>1. link[c] = "down" => acks'[c] = <<>> /\ wire'[c] = <<>>
  BY <1>0, AnswerTyped DEF InStep, Heard
<1>2. ASSUME link[c] = "open" PROVE Yea(sender[j], c)'
  <2>1. Works(sender[j], c)
    BY <1>2, OpenStage DEF Heard
  <2>2. sender[j].state = "wait" /\ acks[c] = <<>> /\ rcv[c].at = sender[j].pos
    BY <2>1 DEF Works
  <2>3. acks'[c] = <<"yes">>
    <3>1. acks'[c] = acks[c] \o <<"yes">>
      BY <1>0, <1>2, AnswerTyped
    <3> QED
      BY <2>2, <3>1
  <2>4. sender'[j] = sender[j] /\ Messages' = Messages /\ wire'[c] = <<>>
    BY DEF Heard
  <2>5. sender[j].pos < Messages => Reads(rcv[c], sender[j].pos + 1)'
    BY <1>2, <2>2, NextMessage DEF Heard, InStep
  <2>6. sender[j].pos = Messages =>
          /\ Accounted(c)'
          /\ \/ rcv'[c].pc = "line"
             \/ rcv'[c].pc \in {"close", "ended"} /\ (kept'[c] > 0 \/ Emptied(rcv[c])')
    BY <1>2, <2>2
  <2> QED
    BY <2>2, <2>3, <2>4, <2>5, <2>6 DEF Yea
<1> QED
  BY <1>1, <1>2

\* It refuses.
LEMMA Refuses ==
    ASSUME NEW j \in Jobs, NEW c \in Conns, Heard(j, c), NEW ok, Answer(c, <<"no">>, ok),
           rcv[c].pc \in Busy, rcv'[c].pc = "ended"
    PROVE  InStep(j)'
<1> SUFFICES ASSUME sender[j].state \in {"send", "wait"}
             PROVE  /\ link[c] = "down" => wire'[c] = <<>> /\ acks'[c] = <<>>
                    /\ link[c] = "open" => Nay(sender[j], c)'
  BY DEF InStep, Heard
<1>0. LineTypes
  BY DEF Heard, DialogueInv
<1>1. link[c] = "down" => acks'[c] = <<>> /\ wire'[c] = <<>>
  BY <1>0, AnswerTyped DEF InStep, Heard
<1>2. ASSUME link[c] = "open" PROVE Nay(sender[j], c)'
  <2>1. Works(sender[j], c)
    BY <1>2, OpenStage DEF Heard
  <2>2. sender[j].state = "wait" /\ acks[c] = <<>>
    BY <2>1 DEF Works
  <2>3. acks'[c] = <<"no">>
    <3>1. acks'[c] = acks[c] \o <<"no">>
      BY <1>0, <1>2, AnswerTyped
    <3> QED
      BY <2>2, <3>1
  <2> QED
    BY <2>2, <2>3 DEF Nay, Heard
<1> QED
  BY <1>1, <1>2

\* It goes away, or finds that the sender has.
LEMMA Leaves ==
    ASSUME NEW j \in Jobs, NEW c, Heard(j, c), acks'[c] = acks[c],
           link[c] = "open" => \/ rcv[c].pc = "end"
                               \/ /\ rcv[c].pc = "close" /\ rcv'[c].pc = "ended"
                                  /\ rcv'[c].discard = rcv[c].discard
                                  /\ rcv'[c].files = rcv[c].files
    PROVE  InStep(j)'
<1> SUFFICES ASSUME sender[j].state \in {"send", "wait"}
             PROVE  /\ link[c] = "down" => wire'[c] = <<>> /\ acks'[c] = <<>>
                    /\ link[c] = "open" => Yea(sender[j], c)'
  BY DEF InStep, Heard
<1>1. link[c] = "down" => acks'[c] = <<>> /\ wire'[c] = <<>>
  BY DEF InStep, Heard
<1>2. ASSUME link[c] = "open" PROVE Yea(sender[j], c)'
  <2>1. /\ rcv[c].pc = "close" /\ rcv'[c].pc = "ended" /\ Yea(sender[j], c)
        /\ ~(sender[j].pos < Messages)
        /\ rcv'[c].discard = rcv[c].discard /\ rcv'[c].files = rcv[c].files
    BY <1>2, OpenStage DEF Heard
  <2>2. sender[j].pos = Messages => kept[c] > 0 \/ Emptied(rcv[c])
    BY <2>1 DEF Yea
  <2>3. sender[j].pos = Messages => kept'[c] > 0 \/ Emptied(rcv[c])'
    BY <2>1, <2>2 DEF Heard, Emptied
  <2>4. sender'[j] = sender[j] /\ Messages' = Messages /\ wire'[c] = <<>>
    BY DEF Heard
  <2> QED
    BY <2>1, <2>3, <2>4 DEF Yea, Accounted
<1> QED
  BY <1>1, <1>2

\* A job whose sender has done with it stays accounted for.
LEMMA StaysTold ==
    ASSUME NEW j \in Jobs, NEW c, Heard(j, c),
           rcv[c].pc \in Settled /\ wire[c] = <<>> /\ kept'[c] = 0 /\ Accounted(c) =>
             rcv'[c].pc \in Settled /\ Accounted(c)'
    PROVE  Told(j)'
<1> SUFFICES ASSUME sender[j].state = "sent"
             PROVE  Accounted(c)' /\ (kept'[c] > 0 \/ rcv'[c].pc \in Settled)
  BY DEF Told, Heard
<1>1. Accounted(c) /\ wire[c] = <<>> /\ (kept[c] > 0 \/ rcv[c].pc \in Settled)
  BY DEF Told, Heard
<1>2. CASE kept'[c] > 0
  BY <1>2 DEF Accounted
<1>3. CASE ~(kept'[c] > 0)
  <2>1. kept'[c] = 0 /\ ~(kept[c] > 0)
    BY <1>3 DEF Heard
  <2> QED
    BY <1>1, <2>1
<1> QED
  BY <1>2, <1>3

\* What is so of a connection that a step does not touch.
LEMMA StaysPlaced ==
    ASSUME NEW d, Dialogue(d), UNCHANGED order, rcv'[d] = rcv[d], kept'[d] = kept[d],
           wire'[d] \in {wire[d], <<>>}
    PROVE  Dialogue(d)'
<1> SUFFICES ASSUME ~Stopped(d)'
             PROVE  /\ Place(d)' /\ Waits(d)'
                    /\ ControlFirst(d)' /\ DataFirst(d)' /\ InPairs(d)' /\ InBlock(d)'
  BY DEF Dialogue
<1>1. /\ Messages' = Messages /\ \A k : IsBody(k)' = IsBody(k)
      /\ \A k : Before(k)' = Before(k)
      /\ \A r : Emptied(r)' <=> Emptied(r)
  BY SameOrder
<1>2. /\ Place(d) /\ Waits(d)
      /\ ControlFirst(d) /\ DataFirst(d) /\ InPairs(d) /\ InBlock(d)
  BY DEF Dialogue, Stopped
<1>3. Place(d)'
  BY <1>1, <1>2 DEF Place
<1>4. Waits(d)'
  BY <1>1, <1>2 DEF Waits
<1>5. ControlFirst(d)'
  BY <1>1, <1>2 DEF ControlFirst
<1>6. DataFirst(d)' /\ InPairs(d)'
  BY <1>1, <1>2 DEF DataFirst, InPairs
<1>7. InBlock(d)'
  BY <1>1, <1>2 DEF InBlock, Emptied
<1> QED
  BY <1>3, <1>4, <1>5, <1>6, <1>7

LEMMA StaysInStep ==
    ASSUME NEW j \in Jobs, InStep(j), Told(j), UNCHANGED order, sender'[j] = sender[j],
           NEW d, d = Conn(j), Conn(j)' = d,
           sender[j].attempt \in 1 .. MaxAttempts =>
             /\ rcv'[d] = rcv[d] /\ wire'[d] = wire[d] /\ acks'[d] = acks[d]
             /\ kept'[d] = kept[d] /\ link'[d] = link[d]
    PROVE  InStep(j)' /\ Told(j)'
<1>1. /\ Messages' = Messages /\ \A k : IsBody(k)' = IsBody(k)
      /\ \A r : (Emptied(r)' <=> Emptied(r)) /\ (Pending(r)' <=> Pending(r))
  BY SameOrder
<1>2. ASSUME sender[j].attempt \in 1 .. MaxAttempts
      PROVE  /\ Accounted(d) => Accounted(d)'
             /\ Emptied(rcv[d]) => Emptied(rcv[d])'
  <2>1. PICK r : r = rcv[d]
    OBVIOUS
  <2>2. rcv'[d] = r /\ kept'[d] = kept[d] /\ (Emptied(r) <=> Emptied(r)')
        /\ (Pending(r) <=> Pending(r)')
    BY <1>1, <1>2, <2>1
  <2> QED
    BY <2>1, <2>2 DEF Accounted
<1>3. Told(j)'
  BY <1>2 DEF Told
<1>4. InStep(j)'
  <2> SUFFICES ASSUME sender[j].state \in {"send", "wait"}
               PROVE  /\ link[d] = "down" => wire'[d] = <<>> /\ acks'[d] = <<>>
                      /\ link[d] = "open" =>
                           (\/ Nay(sender[j], d) \/ Idle(sender[j], d) \/ Sent(sender[j], d)
                            \/ Works(sender[j], d) \/ Yea(sender[j], d))'
    BY <1>1 DEF InStep
  <2>1. rcv'[d] = rcv[d] /\ wire'[d] = wire[d] /\ acks'[d] = acks[d] /\ kept'[d] = kept[d]
        /\ (Accounted(d) => Accounted(d)') /\ (Emptied(rcv[d]) => Emptied(rcv[d])')
    BY <1>2 DEF InStep
  <2>2. \A k : Reads(rcv[d], k) => Reads(rcv[d], k)'
    BY <1>1, <2>1 DEF Reads
  <2>3. Nay(sender[j], d) => Nay(sender[j], d)'
    BY <2>1 DEF Nay
  <2>4. Idle(sender[j], d) => Idle(sender[j], d)'
    BY <2>1, <2>2 DEF Idle
  <2>5. Sent(sender[j], d) => Sent(sender[j], d)'
    BY <2>1, <2>2 DEF Sent
  <2>6. Works(sender[j], d) => Works(sender[j], d)'
    BY <2>1 DEF Works
  <2>7. Yea(sender[j], d) => Yea(sender[j], d)'
    BY <1>1, <2>1, <2>2 DEF Yea
  <2>8. /\ link[d] = "down" => wire[d] = <<>> /\ acks[d] = <<>>
        /\ link[d] = "open" => \/ Nay(sender[j], d) \/ Idle(sender[j], d) \/ Sent(sender[j], d)
                              \/ Works(sender[j], d) \/ Yea(sender[j], d)
    BY DEF InStep
  <2>9. link[d] = "down" => wire'[d] = <<>> /\ acks'[d] = <<>>
    BY <2>1, <2>8
  <2> QED
    BY <2>3, <2>4, <2>5, <2>6, <2>7, <2>8, <2>9
<1> QED
  BY <1>3, <1>4

\* The step of a receiver, for the connections of all.
LEMMA DialogueOf ==
    ASSUME SpoolInv, DialogueInv, NEW c \in Conns, ReceiverStep(c),
           ~Stopped(c)' => /\ Place(c)' /\ ControlFirst(c)' /\ DataFirst(c)'
                           /\ InPairs(c)' /\ InBlock(c)',
           \A j \in Jobs : c = Conn(j) => InStep(j)' /\ Told(j)'
    PROVE  DialogueInv'
<1>1. /\ ~Stopped(c) /\ UNCHANGED <<order, sender, link>>
      /\ \A d \in Conns \ {c} : rcv'[d] = rcv[d]
  BY ReceiverAlone DEF SpoolInv, SoloInv
<1>2. LineTypes /\ \A d \in Conns : Dialogue(d)
  BY DEF DialogueInv
<1>3. /\ LineTypes' /\ wire'[c] = <<>>
      /\ \A d \in Conns \ {c} : wire'[d] = wire[d] /\ acks'[d] = acks[d] /\ kept'[d] = kept[d]
  BY <1>2, ReceiverLines
<1>4. ASSUME NEW d \in Conns PROVE Dialogue(d)'
  <2>1. CASE d = c
    BY <1>3, <2>1 DEF Dialogue, Waits
  <2>2. CASE d # c
    BY <1>1, <1>2, <1>3, <2>2, StaysPlaced
  <2> QED
    BY <2>1, <2>2
<1>5. ASSUME NEW j \in Jobs PROVE InStep(j)' /\ Told(j)'
  <2>1. CASE c = Conn(j)
    BY <2>1
  <2>2. CASE c # Conn(j)
    <3>1. PICK d : d = Conn(j)
      OBVIOUS
    <3>2. Conn(j)' = d /\ sender'[j] = sender[j] /\ InStep(j) /\ Told(j)
      BY <1>1, <3>1 DEF Conn, DialogueInv
    <3>3. sender[j].attempt \in 1 .. MaxAttempts => d \in Conns
      BY <3>1 DEF Conn, Conns
    <3> QED
      BY <1>1, <1>3, <2>2, <3>1, <3>2, <3>3, StaysInStep
  <2> QED
    BY <2>1, <2>2
<1>6. ASSUME NEW j \in Jobs PROVE Unused(j)'
  <2> SUFFICES ASSUME NEW a \in 1 .. MaxAttempts, a > sender[j].attempt
               PROVE  wire'[<<j, a>>] = <<>> /\ acks'[<<j, a>>] = <<>>
    BY <1>1 DEF Unused
  <2>1. <<j, a>> \in Conns /\ wire[<<j, a>>] = <<>> /\ acks[<<j, a>>] = <<>>
    BY DEF DialogueInv, Unused, Conns
  <2>2. rcv[<<j, a>>].pc = "absent"
    BY DEF SpoolInv, SoloInv, AnnounceInv, FutureInv
  <2>3. <<j, a>> # c
    BY <1>1, <2>2 DEF Stopped
  <2> QED
    BY <1>3, <2>1, <2>3
<1> QED
  BY <1>3, <1>4, <1>5, <1>6 DEF DialogueInv

-----------------------------------------------------------------------------
(* The steps of a receiver.                                                 *)

Placed(c) == Place(c) /\ ControlFirst(c) /\ DataFirst(c) /\ InPairs(c) /\ InBlock(c)

\* What a step of a receiver leaves as it was, where it goes, and on what message.
Keeps(c) ==
    /\ rcv'[c].files = rcv[c].files /\ rcv'[c].control = rcv[c].control
    /\ rcv'[c].discard = rcv[c].discard /\ rcv'[c].refused = rcv[c].refused
    /\ rcv'[c].next = rcv[c].next

Goes(c, to) == rcv'[c].pc = to /\ rcv'[c].at = rcv[c].at

\* What is known of a receiver that takes a step.
Acts(c) ==
    /\ SpoolInv /\ DialogueInv /\ ReceiverStep(c) /\ c \in Conns
    /\ rcv[c] \in Receivers /\ DOMAIN rcv = Conns /\ Placed(c) /\ Waits(c) /\ Holds(c)
    /\ order \in Orders /\ order \in {"control", "data", "block", "pair"}
    /\ UNCHANGED <<order, link>>
    /\ kept[c] \in Nat /\ kept'[c] \in Nat /\ kept'[c] >= kept[c]
    /\ Messages' = Messages /\ \A k : IsBody(k)' = IsBody(k) /\ Before(k)' = Before(k)
    /\ \A r : Whole(r)' <=> Whole(r)

\* What its step is to keep.
Fits(c) ==
    /\ ~Stopped(c)' => Placed(c)'
    /\ \A j \in Jobs : c = Conn(j) => InStep(j)' /\ Told(j)'

LEMMA Acting ==
    ASSUME SpoolInv, DialogueInv, NEW c \in Conns, ReceiverStep(c)
    PROVE  Acts(c)
<1>1. ~Stopped(c) /\ UNCHANGED <<order, sender, link>>
  BY ReceiverAlone DEF SpoolInv, SoloInv
<1>2. rcv[c] \in Receivers /\ DOMAIN rcv = Conns /\ Holds(c) /\ order \in Orders
  BY <1>1 DEF SpoolInv, MineInv, SoloInv, SpoolTypes
<1>3. Dialogue(c) /\ LineTypes
  BY DEF DialogueInv
<1>4. Placed(c) /\ Waits(c)
  BY <1>1, <1>3 DEF Dialogue, Placed
<1>5. kept[c] \in Nat /\ kept'[c] \in Nat /\ kept'[c] >= kept[c]
  BY <1>3, ReceiverLines
<1>6. /\ Messages' = Messages /\ \A k : IsBody(k)' = IsBody(k) /\ Before(k)' = Before(k)
      /\ \A r : Whole(r)' <=> Whole(r)
  BY <1>1, SameOrder
<1> QED
  BY <1>1, <1>2, <1>4, <1>5, <1>6, OrderAssumption DEF Acts

\* A step that leaves what the receiver has of the job.
LEMMA StaysWhole ==
    ASSUME NEW c, Acts(c), rcv'[c].files = rcv[c].files, rcv'[c].control = rcv[c].control,
           Whole(rcv[c])
    PROVE  Whole(rcv[c])'
<1>1. PICK r : r = rcv[c]
  OBVIOUS
<1>2. PICK q : q = rcv'[c]
  OBVIOUS
<1>3. \A f : Needed(f)' = Needed(f)
  BY SameOrder DEF Acts
<1> QED
  BY <1>3 DEF Whole

\* The two ends of the connection, once it is known where the receiver is.
LEMMA Ends ==
    ASSUME NEW c, Acts(c), ~Stopped(c)' => Placed(c)',
           \A j \in Jobs : Heard(j, c) => InStep(j)' /\ Told(j)'
    PROVE  Fits(c)
  BY Hearing DEF Acts, Fits

LEMMA Fails ==
    ASSUME NEW c, Acts(c), rcv'[c].pc \in {"error", "answer"},
           \/ rcv'[c].at = rcv[c].at
           \/ rcv[c].pc = "line" /\ rcv'[c].at = rcv[c].at + 1
    PROVE  Placed(c)'
<1>1. Place(c)' /\ ControlFirst(c)' /\ DataFirst(c)' /\ InBlock(c)'
  BY DEF Place, ControlFirst, DataFirst, InBlock, Judging
<1>2. InPairs(c)'
  <2> SUFFICES ASSUME order = "pair", rcv'[c].at > 7 PROVE kept'[c] > 0
    BY DEF InPairs, Acts
  <2>1. rcv[c].at > 7
    BY DEF Acts, Placed, Place, Receivers
  <2> QED
    BY <2>1 DEF InPairs, Acts, Placed
<1> QED
  BY <1>1, <1>2 DEF Placed

\* The connection has been closed by the other side.
LEMMA EofClosed ==
    ASSUME NEW c, AtEof(c) PROVE link[c] # "open" /\ wire[c] = <<>>
  BY DEF AtEof

\* An answer that is not sent.
LEMMA Unsent ==
    ASSUME NEW c, NEW b, Answer(c, b, FALSE) PROVE link[c] # "open" /\ acks' = acks
  BY DEF Answer

LEMMA SentOpen ==
    ASSUME NEW c, NEW b, NEW ok, Answer(c, b, ok), link[c] = "open" PROVE ok
  BY DEF Answer

LEMMA RequestFits ==
    ASSUME NEW c, Acts(c), TakeRequest(c) \/ TakeBlockRequest(c) \/ NoRequest(c)
    PROVE  Fits(c)
<1>0. /\ rcv[c].pc = "request" /\ rcv[c].at = 1 /\ ~rcv[c].refused
      /\ rcv[c] \in Receivers /\ DOMAIN rcv = Conns /\ c \in Conns
      /\ Messages \in Nat /\ 1 < Messages
  <2>1. rcv[c].pc = "request"
    BY DEF TakeRequest, TakeBlockRequest, NoRequest
  <2>2. Messages \in Nat /\ Messages >= 2
    BY MessageFacts DEF Acts
  <2> QED
    BY <2>1, <2>2 DEF Acts, Placed, Place, Receivers
<1>1. \A j \in Jobs : Heard(j, c) => Told(j)'
  <2>1. rcv[c].pc \notin Settled
    BY <1>0 DEF Settled
  <2> QED
    BY <2>1, StaysTold
<1>2. ASSUME Take(c), acks' = acks, Become(c, Failed(rcv[c])) PROVE Fits(c)
  <2>1. Goes(c, "error")
    BY <1>0, <1>2 DEF Become, Failed, Goes, Receivers
  <2>2. Placed(c)'
    BY <2>1, Fails DEF Goes
  <2>3. ASSUME NEW j \in Jobs, Heard(j, c) PROVE InStep(j)'
    BY <1>0, <1>2, <2>1, <2>3, WorksOn DEF Take, Goes, Reading, Busy, Judging
  <2> QED
    BY <1>1, <2>2, <2>3, Ends
<1>3. ASSUME Take(c), Answer(c, <<"yes">>, TRUE), Answered(c), Placed(c)' PROVE Fits(c)
  <2>1. ASSUME NEW j \in Jobs, Heard(j, c) PROVE InStep(j)'
    <3>1. wire[c] # <<>> /\ rcv[c].pc \in Reading
      BY <1>0, <1>3 DEF Take, Reading
    <3> QED
      BY <1>0, <1>3, <2>1, <3>1, AgreesAtOnce
  <2> QED
    BY <1>1, <1>3, <2>1, Ends
<1>4. CASE TakeRequest(c)
  <2> DEFINE r == [rcv[c] EXCEPT !.at = 2, !.pc = "line"]
  <2>1. order # "block" /\ Take(c)
    BY <1>4 DEF TakeRequest
  <2>2. \/ Become(c, Failed(rcv[c])) /\ acks' = acks
        \/ Answer(c, <<"yes">>, TRUE) /\ Become(c, r)
    BY <1>4, Unsent DEF TakeRequest
  <2>3. ASSUME Answer(c, <<"yes">>, TRUE), Become(c, r) PROVE Fits(c)
    <3>1. rcv'[c].pc = "line" /\ rcv'[c].at = 2 /\ Keeps(c)
      BY <1>0, <2>3 DEF Become, Receivers, Keeps
    <3>2. Answered(c) /\ Messages >= 5
      BY <1>0, <2>1, <3>1, MessageFacts DEF Answered, Acts
    <3>3. Place(c)' /\ InPairs(c)' /\ InBlock(c)'
      BY <1>0, <2>1, <3>1 DEF Keeps, Place, InPairs, InBlock, Acts, Judging
    <3>4. DataFirst(c)'
      <4>1. ~(rcv'[c].at >= Messages') /\ ~(rcv'[c].at > 3)
        BY <1>0, <3>1, <3>2 DEF Acts
      <4>2. rcv'[c].control = 0
        BY <1>0, <3>1 DEF Keeps, Acts, Holds
      <4> QED
        BY <3>1, <4>1, <4>2 DEF DataFirst, Judging
    <3>5. ControlFirst(c)'
      <4> SUFFICES ASSUME order = "control"
                   PROVE  /\ rcv'[c].discard \/ rcv'[c].files = Before(2)'
                          /\ rcv'[c].control = 0
        BY <3>1 DEF ControlFirst, Acts
      <4>1. (rcv[c].discard \/ rcv[c].files = Before(1)) /\ rcv[c].control = 0
        BY <1>0 DEF Acts, Placed, ControlFirst
      <4>2. Needed(1) = 2 .. (DataFiles + 1) /\ DataFiles \in Nat
        BY ScriptFacts, AttemptAssumption DEF Acts
      <4>3. Before(1) = {} /\ Before(2) = {}
        BY <4>2 DEF Before
      <4> QED
        BY <3>1, <4>1, <4>3 DEF Keeps, Acts
    <3> QED
      BY <1>3, <2>1, <2>3, <3>2, <3>3, <3>4, <3>5 DEF Placed
  <2> QED
    BY <1>2, <2>1, <2>2, <2>3
<1>5. CASE TakeBlockRequest(c)
  <2> DEFINE r == [rcv[c] EXCEPT !.at = 2, !.pc = "body", !.discard = large # 0]
  <2>1. order = "block" /\ Take(c)
    BY <1>5 DEF TakeBlockRequest
  <2>2. \/ Become(c, Failed(rcv[c])) /\ acks' = acks
        \/ Answer(c, <<"yes">>, TRUE) /\ Become(c, r)
    BY <1>5, Unsent DEF TakeBlockRequest
  <2>3. ASSUME Answer(c, <<"yes">>, TRUE), Become(c, r) PROVE Fits(c)
    <3>1. rcv'[c].pc = "body" /\ rcv'[c].at = 2 /\ rcv'[c].refused = rcv[c].refused
      BY <1>0, <2>3 DEF Become, Receivers
    <3>2. IsBody(2) /\ Messages = 2
      BY <2>1, MessageFacts DEF Acts
    <3>3. Answered(c)
      BY <1>0, <3>1, <3>2 DEF Answered
    <3>4. Place(c)'
      BY <1>0, <2>1, <3>1, <3>2 DEF Place, Acts, Judging
    <3>5. ControlFirst(c)' /\ DataFirst(c)' /\ InPairs(c)' /\ InBlock(c)'
      BY <2>1, <3>1 DEF ControlFirst, DataFirst, InPairs, InBlock, Acts
    <3> QED
      BY <1>3, <2>1, <2>3, <3>3, <3>4, <3>5 DEF Placed
  <2> QED
    BY <1>2, <2>1, <2>2, <2>3
<1>6. CASE NoRequest(c)
  <2>1. Goes(c, "ended")
    BY <1>0, <1>6 DEF NoRequest, Become, Receivers, Goes
  <2>2. link[c] # "open" /\ acks' = acks
    BY <1>6, EofClosed DEF NoRequest
  <2>3. ASSUME NEW j \in Jobs, Heard(j, c) PROVE InStep(j)'
    BY <2>2, <2>3, Leaves
  <2> QED
    BY <1>1, <2>1, <2>3, Ends DEF Stopped, Goes
<1> QED
  BY <1>4, <1>5, <1>6

LEMMA LineFits ==
    ASSUME NEW c, Acts(c), TakeLine(c) \/ EndOfInput(c)
    PROVE  Fits(c)
<1>0. /\ rcv[c].pc = "line" /\ order # "block" /\ rcv[c].at % 2 = 0 /\ ~rcv[c].refused
      /\ rcv[c].at \in Nat /\ rcv[c].at >= 2
      /\ rcv[c] \in Receivers /\ DOMAIN rcv = Conns /\ c \in Conns
  <2>1. rcv[c].pc = "line"
    BY DEF TakeLine, EndOfInput
  <2> QED
    BY <2>1 DEF Acts, Placed, Place, Receivers
<1>1. CASE EndOfInput(c)
  <2>1. Goes(c, "end") /\ Keeps(c) /\ acks' = acks
    BY <1>0, <1>1 DEF EndOfInput, Become, Receivers, Goes, Keeps
  <2>2. link[c] # "open"
    BY <1>1, EofClosed DEF EndOfInput
  <2>3. Placed(c)'
    BY <1>0, <2>1 DEF Goes, Keeps, Acts, Placed, Place, ControlFirst, DataFirst, InPairs,
                      InBlock, Judging
  <2>4. ASSUME Accounted(c), kept'[c] = 0 PROVE Accounted(c)'
    <3>1. Pending(rcv[c])
      BY <1>0, <2>4 DEF Accounted, Emptied, Acts
    <3>2. Whole(rcv[c]) => Whole(rcv[c])'
      BY <2>1, StaysWhole DEF Keeps
    <3>3. Pending(rcv[c])'
      BY <1>0, <2>1, <3>1, <3>2 DEF Pending, Goes, Keeps, Acts
    <3> QED
      BY <3>3 DEF Accounted
  <2>5. ASSUME NEW j \in Jobs, Heard(j, c) PROVE InStep(j)' /\ Told(j)'
    BY <1>0, <2>1, <2>2, <2>4, <2>5, Leaves, StaysTold DEF Goes, Settled
  <2> QED
    BY <2>3, <2>5, Ends
<1>2. CASE TakeLine(c)
  <2> DEFINE tooLarge == large = FileOf(rcv[c].at)
             d == rcv[c].discard \/ tooLarge
             k == rcv[c].at + 1
             r == [rcv[c] EXCEPT !.at = k, !.pc = "body", !.discard = d]
  <2>1. Take(c) /\ wire[c] # <<>>
    BY <1>2 DEF TakeLine, Take
  <2>2. \/ (Become(c, Failed(rcv[c])) \/ Become(c, Failed(r))) /\ acks' = acks
           /\ (Become(c, Failed(rcv[c])) \/ link[c] # "open")
        \/ Answer(c, <<"yes">>, TRUE) /\ Become(c, r)
    <3>1. [rcv[c] EXCEPT !.at = @ + 1, !.pc = "body", !.discard = @ \/ tooLarge] = r
      BY <1>0 DEF Receivers
    <3> QED
      BY <1>2, <3>1, Unsent DEF TakeLine
  <2>3. k \in Nat /\ k = rcv[c].at + 1 /\ d \in BOOLEAN /\ (rcv[c].discard => d)
    BY <1>0 DEF Receivers
  <2>4. \A j \in Jobs : Heard(j, c) => Told(j)'
    BY <2>1, StaysTold
  <2> HIDE DEF k, d
  <2>5. /\ r.pc = "body" /\ r.at = k /\ r.files = rcv[c].files
        /\ r.control = rcv[c].control /\ r.refused = rcv[c].refused
        /\ rcv[c].discard => r.discard
        /\ Failed(r).pc = "error" /\ Failed(r).at = k
    BY <1>0, <2>3 DEF Receivers, Failed
  <2>6. /\ Failed(rcv[c]).pc = "error" /\ Failed(rcv[c]).at = rcv[c].at
    BY <1>0 DEF Receivers, Failed
  <2> HIDE DEF r
  <2>7. \A q : Become(c, q) => rcv'[c] = q
    BY <1>0 DEF Become
  <2>8. ASSUME Become(c, Failed(rcv[c])) \/ Become(c, Failed(r)), acks' = acks,
               Become(c, Failed(rcv[c])) \/ link[c] # "open"
        PROVE  Fits(c)
    <3>1. Placed(c)'
      BY <1>0, <2>3, <2>5, <2>6, <2>7, <2>8, Fails
    <3>2. link[c] = "open" => Goes(c, "error")
      BY <2>6, <2>7, <2>8 DEF Goes
    <3>3. ASSUME NEW j \in Jobs, Heard(j, c) PROVE InStep(j)'
      BY <1>0, <2>1, <2>8, <3>2, <3>3, WorksOn DEF Goes, Reading, Busy, Judging
    <3> QED
      BY <2>4, <3>1, <3>3, Ends
  <2>9. ASSUME Answer(c, <<"yes">>, TRUE), Become(c, r) PROVE Fits(c)
    <3>0. /\ rcv'[c].pc = "body" /\ rcv'[c].at = k /\ rcv'[c].files = rcv[c].files
          /\ rcv'[c].control = rcv[c].control /\ rcv'[c].refused = rcv[c].refused
          /\ rcv[c].discard => rcv'[c].discard
      BY <2>5, <2>7, <2>9
    <3>1. Messages \in Nat /\ Messages % 2 = 1 /\ IsBody(k)
      BY <1>0, <2>3, MessageFacts DEF Acts
    <3>2. rcv[c].at <= Messages
      BY <2>1 DEF Acts, Waits
    <3>3. rcv[c].at < Messages /\ k <= Messages
      BY <1>0, <2>3, <3>1, <3>2
    <3>4. Answered(c)
      BY <2>3, <3>0, <3>1 DEF Answered
    <3>5. Place(c)'
      BY <1>0, <3>0, <3>1, <3>3 DEF Place, Acts, Judging
    <3>6. DataFirst(c)' /\ InBlock(c)'
      <4>1. k > 3 => rcv[c].at > 3
        BY <1>0, <2>3
      <4>2. DataFirst(c)
        BY DEF Acts, Placed
      <4> QED
        BY <1>0, <2>3, <3>0, <3>2, <4>1, <4>2 DEF DataFirst, InBlock, Acts, Judging
    <3>7. InPairs(c)'
      <4> SUFFICES ASSUME order = "pair"
                   PROVE  (k > 7 => kept'[c] > 0) /\ (k > 3 => rcv'[c].control # 0)
        BY <3>0 DEF InPairs, Acts
      <4>1. (k > 7 => rcv[c].at > 7) /\ (k > 3 => rcv[c].at > 3)
        BY <1>0, <2>3
      <4>2. rcv[c].at > 7 => kept[c] > 0
        BY DEF Acts, Placed, InPairs
      <4>3. rcv[c].at > 3 => rcv[c].control # 0
        BY <1>0 DEF Acts, Placed, InPairs
      <4> QED
        BY <3>0, <4>1, <4>2, <4>3 DEF Acts
    <3>8. ControlFirst(c)'
      <4> SUFFICES ASSUME order = "control"
                   PROVE  /\ rcv'[c].discard \/ rcv'[c].files = Before(k)
                          /\ rcv'[c].control = IF k > 3 THEN 1 ELSE 0
        BY <3>0 DEF ControlFirst, Acts
      <4>1. /\ rcv[c].discard \/ rcv[c].files = Before(rcv[c].at)
            /\ rcv[c].control = IF rcv[c].at > 3 THEN 1 ELSE 0
        BY <1>0 DEF Acts, Placed, ControlFirst
      <4>2. Needed(1) \subseteq Nat
        BY NeededFiles
      <4>3. ASSUME NEW i \in Nat PROVE 2 * i + 1 < k <=> 2 * i + 1 < rcv[c].at
        BY <1>0, <2>3
      <4>4. Before(k) = Before(rcv[c].at)
        BY <4>2, <4>3 DEF Before
      <4>5. k > 3 <=> rcv[c].at > 3
        BY <1>0, <2>3
      <4> QED
        BY <3>0, <4>1, <4>4, <4>5
    <3>9. ASSUME NEW j \in Jobs, Heard(j, c) PROVE InStep(j)'
      BY <1>0, <2>1, <2>9, <3>3, <3>4, <3>9, AgreesAtOnce DEF Reading, Acts
    <3> QED
      BY <2>4, <3>5, <3>6, <3>7, <3>8, <3>9, Ends DEF Placed
  <2> QED
    BY <2>2, <2>8, <2>9
<1> QED
  BY <1>1, <1>2

\* The place of a receiver that has read the bytes of a file.
LEMMA BodyFits ==
    ASSUME NEW c, Acts(c), TakeBody(c) PROVE Fits(c)
<1>0. /\ rcv[c].pc = "body" /\ order # "block" /\ ~rcv[c].refused
      /\ IsBody(rcv[c].at) /\ rcv[c].at <= Messages /\ rcv[c].at \in Nat
      /\ wire[c] # <<>> /\ acks' = acks
      /\ rcv[c] \in Receivers /\ DOMAIN rcv = Conns /\ c \in Conns
  BY DEF TakeBody, GoodBody, Take, Acts, Placed, Place, Receivers
<1>1. Messages \in Nat /\ Messages % 2 = 1 /\ rcv[c].at > 1 /\ rcv[c].at % 2 = 1
      /\ rcv[c].at >= 3
  BY <1>0, MessageFacts DEF Acts
<1>2. PICK f \in Nat : f = FileOf(rcv[c].at) /\ rcv[c].at = 2 * f + 1 /\ f >= 1
  <2>1. FileOf(rcv[c].at) \in Nat /\ rcv[c].at = 2 * FileOf(rcv[c].at) + 1
        /\ FileOf(rcv[c].at) >= 1
    BY <1>0, <1>1 DEF FileOf
  <2> QED
    BY <2>1
<1>3. \A q : Become(c, q) => rcv'[c] = q
  BY <1>0 DEF Become
<1>4. \A j \in Jobs : Heard(j, c) => Told(j)'
  BY <1>0, StaysTold DEF Settled
<1>5. ASSUME rcv'[c].pc \in {"ack", "open"} \cup Judging, rcv'[c].at = rcv[c].at,
             rcv'[c].pc \in Judging => rcv'[c].next = "open", Placed(c)'
      PROVE  Fits(c)
  <2>1. ASSUME NEW j \in Jobs, Heard(j, c) PROVE InStep(j)'
    BY <1>0, <1>5, <2>1, WorksOn DEF Reading, Busy, Judging
  <2> QED
    BY <1>4, <1>5, <2>1, Ends
<1>6. /\ order = "control" => /\ rcv[c].discard \/ rcv[c].files = Before(rcv[c].at)
                              /\ rcv[c].control = IF rcv[c].at > 3 THEN 1 ELSE 0
      /\ order = "pair" => (rcv[c].at > 7 => kept[c] > 0)
                           /\ (rcv[c].at > 3 => rcv[c].control # 0)
      /\ order = "data" => /\ rcv[c].control = 0
                           /\ rcv[c].at > 3 => rcv[c].files # {} \/ rcv[c].discard
  BY <1>0 DEF Acts, Placed, ControlFirst, InPairs, DataFirst
<1>7. /\ order = "pair" => /\ Script[1] = "control" /\ Script[2] = "data"
                           /\ Script[3] = "control" /\ Script[4] = "data"
      /\ order = "control" =>
           /\ Messages = 2 * DataFiles + 3
           /\ Needed(1) = 2 .. (DataFiles + 1) /\ Script[1] = "control"
           /\ \A i \in 2 .. (DataFiles + 1) : Script[i] = "data"
      /\ order = "data" => /\ Script[DataFiles + 1] = "control"
                           /\ \A i \in 1 .. DataFiles : Script[i] = "data"
                           /\ Messages = 2 * DataFiles + 3
      /\ DataFiles \in Nat /\ "control" # "data"
  BY ScriptFacts, AttemptAssumption DEF Acts
<1>8. CASE Script[f] = "data"
  <2> DEFINE F == IF rcv[c].discard THEN rcv[c].files ELSE rcv[c].files \cup {f}
             r == [rcv[c] EXCEPT !.pc = "ack", !.files = F]
  <2>0. [rcv[c] EXCEPT !.pc = "ack", !.files = IF rcv[c].discard THEN @ ELSE @ \cup {f}] = r
    BY <1>0 DEF Receivers
  <2>1. rcv'[c] = r
    BY <1>2, <1>3, <1>8, <2>0 DEF TakeBody
  <2>2. rcv[c].discard \/ F = rcv[c].files \cup {f}
    OBVIOUS
  <2> HIDE DEF F
  <2>3. /\ rcv'[c].pc = "ack" /\ rcv'[c].at = rcv[c].at
        /\ rcv'[c].discard = rcv[c].discard
        /\ rcv'[c].discard \/ rcv'[c].files = rcv[c].files \cup {f}
        /\ rcv'[c].control = rcv[c].control /\ rcv'[c].refused = rcv[c].refused
    BY <1>0, <2>1, <2>2 DEF Receivers
  <2> HIDE DEF r
  <2>4. Place(c)' /\ InBlock(c)'
    BY <1>0, <2>3 DEF Place, InBlock, Acts, Judging
  <2>5. DataFirst(c)'
    <3> SUFFICES ASSUME order = "data"
                 PROVE  /\ ~(rcv[c].at >= Messages) /\ rcv'[c].control = 0
                        /\ rcv'[c].files # {} \/ rcv'[c].discard
      BY <2>3 DEF DataFirst, Acts, Judging
    <3>1. f # DataFiles + 1
      BY <1>7, <1>8
    <3>2. ~(rcv[c].at >= Messages)
      BY <1>0, <1>1, <1>2, <1>7, <3>1
    <3> QED
      BY <1>6, <2>3, <3>2
  <2>6. InPairs(c)'
    <3> SUFFICES ASSUME order = "pair"
                 PROVE  (rcv[c].at >= 7 => kept'[c] > 0) /\ rcv'[c].control # 0
      BY <1>0, <2>3 DEF InPairs, Acts
    <3>1. f # 1 /\ f # 3
      BY <1>7, <1>8
    <3>2. rcv[c].at > 3 /\ rcv[c].at # 7
      BY <1>2, <3>1
    <3> QED
      BY <1>0, <1>6, <2>3, <3>2 DEF Acts
  <2>7. ControlFirst(c)'
    <3> SUFFICES ASSUME order = "control"
                 PROVE  /\ rcv'[c].discard \/ rcv'[c].files = Before(rcv[c].at + 1)
                        /\ rcv'[c].control = 1
      BY <2>3 DEF ControlFirst, Acts
    <3>1. f # 1
      BY <1>7, <1>8
    <3>2. rcv[c].at > 3 /\ f \in 2 .. (DataFiles + 1)
      BY <1>0, <1>2, <1>7, <3>1
    <3>3. ASSUME NEW i \in Nat
          PROVE  2 * i + 1 < rcv[c].at + 1 <=> 2 * i + 1 < rcv[c].at \/ i = f
      BY <1>0, <1>2
    <3>4. Before(rcv[c].at + 1) = Before(rcv[c].at) \cup {f}
      BY <1>7, <3>2, <3>3 DEF Before
    <3> QED
      BY <1>6, <2>3, <3>2, <3>4
  <2> QED
    BY <1>5, <2>3, <2>4, <2>5, <2>6, <2>7 DEF Placed, Judging
<1>9. CASE Script[f] # "data" /\ rcv[c].control = 0
  <2> DEFINE r == [rcv[c] EXCEPT !.pc = "open", !.control = f]
  <2>1. rcv'[c] = r
    BY <1>2, <1>3, <1>9 DEF TakeBody
  <2>2. /\ rcv'[c].pc = "open" /\ rcv'[c].at = rcv[c].at
        /\ rcv'[c].files = rcv[c].files /\ rcv'[c].control = f
        /\ rcv'[c].refused = rcv[c].refused /\ rcv'[c].discard = rcv[c].discard
    BY <1>0, <2>1 DEF Receivers
  <2> HIDE DEF r
  <2>3. Place(c)' /\ InBlock(c)' /\ DataFirst(c)'
    <3>1. Place(c)' /\ InBlock(c)'
      BY <1>0, <2>2 DEF Place, InBlock, Acts, Judging
    <3>2. ASSUME order = "data"
          PROVE  rcv[c].at >= Messages /\ (rcv[c].files # {} \/ rcv[c].discard)
      <4>1. ~(f \in 1 .. DataFiles)
        BY <1>7, <1>9, <3>2
      <4>2. rcv[c].at >= Messages
        BY <1>0, <1>1, <1>2, <1>7, <3>2, <4>1
      <4>3. rcv[c].at > 3
        BY <1>0, <1>1, <4>2, MessageFacts DEF Acts
      <4> QED
        BY <1>6, <3>2, <4>2, <4>3
    <3>3. DataFirst(c)'
      BY <2>2, <3>2 DEF DataFirst, Acts, Judging
    <3> QED
      BY <3>1, <3>3
  <2>4. order \in {"pair", "control"} => rcv[c].at = 3
    BY <1>0, <1>1, <1>6, <1>9
  <2>5. InPairs(c)'
    BY <1>2, <2>2, <2>4 DEF InPairs, Acts
  <2>6. ControlFirst(c)'
    <3> SUFFICES ASSUME order = "control"
                 PROVE  /\ rcv'[c].discard \/ rcv'[c].files = Before(rcv[c].at)
                        /\ f = 1 /\ rcv[c].at = 3
      BY <2>2 DEF ControlFirst, Acts
    <3> QED
      BY <1>2, <1>6, <2>2, <2>4
  <2> QED
    BY <1>5, <2>2, <2>3, <2>5, <2>6 DEF Placed, Judging
<1>10. CASE Script[f] # "data" /\ rcv[c].control # 0
  <2> DEFINE q == IF rcv[c].discard THEN "toolarge" ELSE "check"
             r == [rcv[c] EXCEPT !.pc = q, !.next = "open"]
  <2>1. rcv'[c] = r /\ q \in {"toolarge", "check"}
    BY <1>2, <1>3, <1>10 DEF TakeBody
  <2> HIDE DEF q
  <2>2. /\ rcv'[c].pc \in {"toolarge", "check"} /\ rcv'[c].at = rcv[c].at
        /\ rcv'[c].next = "open" /\ rcv'[c].control = rcv[c].control
        /\ rcv'[c].refused = rcv[c].refused
    BY <1>0, <2>1 DEF Receivers
  <2> HIDE DEF r
  <2>3. order # "control"
    <3>1. ASSUME order = "control" PROVE FALSE
      <4>1. f # 1
        BY <1>2, <1>6, <1>10, <3>1
      <4>2. f \in 2 .. (DataFiles + 1)
        BY <1>0, <1>2, <1>7, <3>1, <4>1
      <4> QED
        BY <1>7, <1>10, <3>1, <4>2
    <3> QED
      BY <3>1
  <2>4. Place(c)' /\ ControlFirst(c)' /\ InBlock(c)' /\ DataFirst(c)'
    BY <1>0, <1>6, <1>10, <2>2, <2>3 DEF Place, ControlFirst, InBlock, DataFirst, Acts, Judging
  <2>5. InPairs(c)'
    BY <1>6, <2>2 DEF InPairs, Acts
  <2> QED
    BY <1>5, <2>2, <2>4, <2>5 DEF Placed, Judging
<1> QED
  BY <1>8, <1>9, <1>10

LEMMA FileFits ==
    ASSUME NEW c, Acts(c), TakeBlock(c) \/ BodyFails(c)
    PROVE  Fits(c)
<1>0. /\ rcv[c].pc = "body" /\ ~rcv[c].refused /\ IsBody(rcv[c].at)
      /\ rcv[c].at <= Messages /\ acks' = acks
      /\ rcv[c] \in Receivers /\ DOMAIN rcv = Conns /\ c \in Conns
  <2>1. rcv[c].pc = "body" /\ acks' = acks
    BY DEF TakeBlock, BodyFails
  <2> QED
    BY <2>1 DEF Acts, Placed, Place
<1>1. \A j \in Jobs : Heard(j, c) => Told(j)'
  <2>1. rcv[c].pc \notin Settled
    BY <1>0 DEF Settled
  <2> QED
    BY <2>1, StaysTold
<1>2. CASE TakeBlock(c)
  <2>1. Goes(c, "open") /\ rcv'[c].refused = rcv[c].refused /\ order = "block"
    BY <1>0, <1>2 DEF TakeBlock, Become, Receivers, Goes
  <2>2. Placed(c)'
    BY <1>0, <2>1 DEF Goes, Placed, Place, ControlFirst, DataFirst, InPairs, InBlock,
                      Acts, Judging
  <2>3. ASSUME NEW j \in Jobs, Heard(j, c) PROVE InStep(j)'
    <3>1. wire[c] # <<>>
      BY <1>2 DEF TakeBlock, GoodBody, Take
    <3> QED
      BY <1>0, <2>1, <2>3, <3>1, WorksOn DEF Goes, Reading, Busy, Judging
  <2> QED
    BY <1>1, <2>2, <2>3, Ends
<1>3. CASE BodyFails(c)
  <2>1. Goes(c, "error")
    BY <1>0, <1>3 DEF BodyFails, Become, Failed, Receivers, Goes
  <2>2. Placed(c)'
    BY <2>1, Fails DEF Goes
  <2>3. ASSUME NEW j \in Jobs, Heard(j, c) PROVE InStep(j)'
    <3>1. wire[c] # <<>> \/ link[c] # "open"
      BY <1>3, EofClosed DEF BodyFails, Take
    <3> QED
      BY <1>0, <2>1, <2>3, <3>1, WorksOn DEF Goes, Reading, Busy, Judging
  <2> QED
    BY <1>1, <2>2, <2>3, Ends
<1> QED
  BY <1>2, <1>3

\* A receiver that goes on with the message it has.
LEMMA Working ==
    ASSUME NEW c, Acts(c), rcv[c].pc \in Busy \ Settled, acks' = acks,
           rcv'[c].at = rcv[c].at, rcv'[c].pc \in Busy,
           rcv'[c].pc \in Judging => rcv'[c].next # "close",
           Placed(c)'
    PROVE  Fits(c)
<1>1. ASSUME NEW j \in Jobs, Heard(j, c) PROVE InStep(j)' /\ Told(j)'
  BY <1>1, WorksOn, StaysTold
<1> QED
  BY <1>1, Ends

LEMMA TicketFits ==
    ASSUME NEW c, Acts(c), OpenTicket(c) \/ LockTicket(c) \/ BlockData(c)
    PROVE  Fits(c)
<1>0. /\ rcv[c] \in Receivers /\ DOMAIN rcv = Conns /\ c \in Conns /\ acks' = acks
      /\ order \in {"control", "data", "block", "pair"} /\ rcv[c].at \in Nat
      /\ Placed(c)
  BY DEF Acts, OpenTicket, LockTicket, BlockData, Receivers
<1>1. CASE OpenTicket(c)
  <2> DEFINE n == rcv[c].try
             e == ticket[n].state \in {"none", "empty"}
             f == IF ticket[n].state = "none" THEN <<c, rcv[c].control>> ELSE ticket[n].made
             r == [rcv[c] EXCEPT !.pc = "lock", !.empty = e, !.file = f]
  <2>1. rcv[c].pc = "open" /\ rcv'[c] = r
    BY <1>0, <1>1 DEF OpenTicket, Become
  <2> HIDE DEF e, f
  <2>2. Goes(c, "lock") /\ Keeps(c)
    BY <1>0, <2>1 DEF Goes, Keeps, Receivers
  <2>3. Placed(c)'
    BY <2>1, <2>2 DEF Goes, Keeps, Acts, Placed, Place, ControlFirst, DataFirst, InPairs,
                      InBlock, Judging
  <2> QED
    BY <1>0, <2>1, <2>2, <2>3, Working DEF Goes, Busy, Settled, Judging
<1>2. CASE LockTicket(c)
  <2> DEFINE n == rcv[c].try
             hold == order = "data" /\ rcv[c].files # {}
             to == CASE hold /\ rcv[c].discard  -> "toolarge"
                     [] hold /\ ~rcv[c].discard -> "check"
                     [] order = "block"               -> "blockdata"
                     [] OTHER                         -> "ack"
             next == NextNumber(n)
             r == [rcv[c] EXCEPT !.num = n, !.locked = hold, !.next = "ack", !.pc = to]
             q == [rcv[c] EXCEPT !.try = next, !.pc = "open"]
  <2>0. rcv[c].pc = "lock"
    BY <1>2 DEF LockTicket
  <2>1. \/ rcv'[c] = r
        \/ rcv'[c] = Failed(rcv[c])
        \/ rcv'[c] = q
    BY <1>0, <1>2 DEF LockTicket, Become
  <2>2. /\ order = "data" => \/ to \in {"toolarge", "check"}
                             \/ to = "ack" /\ rcv[c].files = {}
        /\ order = "block" => to = "blockdata"
        /\ order \in {"control", "pair"} => to = "ack"
    BY <1>0 DEF Receivers
  <2> HIDE DEF n, hold, to, next
  <2>3. r.pc = to /\ r.next = "ack" /\ r.at = rcv[c].at /\ r.files = rcv[c].files
        /\ r.control = rcv[c].control /\ r.refused = rcv[c].refused
        /\ r.discard = rcv[c].discard
    BY <1>0 DEF Receivers
  <2>4. q.pc = "open" /\ q.at = rcv[c].at /\ q.files = rcv[c].files
        /\ q.control = rcv[c].control /\ q.refused = rcv[c].refused
        /\ q.discard = rcv[c].discard
    BY <1>0 DEF Receivers
  <2>5. Failed(rcv[c]).pc = "error" /\ Failed(rcv[c]).at = rcv[c].at
    BY <1>0 DEF Failed, Receivers
  <2> HIDE DEF r, q
  <2>6. /\ IsBody(rcv[c].at) /\ rcv[c].at <= Messages /\ ~rcv[c].refused
        /\ order = "control" => /\ rcv[c].discard \/ rcv[c].files = Before(3)
                                /\ rcv[c].at = 3 /\ rcv[c].control = 1
        /\ order = "data" => /\ rcv[c].files # {} \/ rcv[c].discard
                             /\ rcv[c].at >= Messages
        /\ order = "pair" => (rcv[c].at >= 7 => kept[c] > 0) /\ rcv[c].control # 0
        /\ rcv[c].control # 0
    BY <1>0, <2>0 DEF Placed, Place, ControlFirst, DataFirst, InPairs, Acts, Holds
  <2>7. CASE rcv'[c] = r
    <3>1. Place(c)'
      <4>1. order = "block" => rcv[c].at = 2
        BY <1>0, <2>6, MessageFacts DEF Acts
      <4> QED
        BY <1>0, <2>2, <2>3, <2>6, <2>7, <4>1 DEF Place, Acts, Judging
    <3>2. InPairs(c)' /\ InBlock(c)'
      BY <1>0, <2>2, <2>3, <2>6, <2>7 DEF InPairs, InBlock, Acts
    <3>3. DataFirst(c)'
      <4>0. Messages \in Nat
        BY MessageFacts DEF Acts
      <4>1. rcv[c].at >= Messages => ~(rcv[c].at < Messages)
        BY <1>0, <4>0
      <4> QED
        BY <2>2, <2>3, <2>6, <2>7, <4>1 DEF DataFirst, Acts, Judging
    <3>4. ControlFirst(c)'
      <4> SUFFICES ASSUME order = "control"
                   PROVE  /\ rcv'[c].discard \/ rcv'[c].files = Before(3 + 1)
                          /\ rcv'[c].control = 1
        BY <2>2, <2>3, <2>6, <2>7 DEF ControlFirst, Acts
      <4>1. Needed(1) = 2 .. (DataFiles + 1) /\ DataFiles \in Nat
        BY ScriptFacts, AttemptAssumption DEF Acts
      <4>2. Before(3) = {} /\ Before(3 + 1) = {}
        BY <4>1 DEF Before
      <4> QED
        BY <2>3, <2>6, <2>7, <4>2
    <3>5. Placed(c)'
      BY <3>1, <3>2, <3>3, <3>4 DEF Placed
    <3> QED
      BY <1>0, <2>0, <2>2, <2>3, <2>7, <3>5, Working DEF Busy, Settled, Judging
  <2>8. CASE rcv'[c] = Failed(rcv[c])
    <3>1. Placed(c)'
      BY <2>5, <2>8, Fails
    <3> QED
      BY <1>0, <2>0, <2>5, <2>8, <3>1, Working DEF Busy, Settled, Judging
  <2>9. CASE rcv'[c] = q
    <3>1. Placed(c)'
      BY <1>0, <2>4, <2>6, <2>9 DEF Acts, Placed, Place, ControlFirst, DataFirst, InPairs,
                                InBlock, Judging
    <3> QED
      BY <1>0, <2>0, <2>4, <2>9, <3>1, Working DEF Busy, Settled, Judging
  <2> QED
    BY <2>1, <2>7, <2>8, <2>9
<1>3. CASE BlockData(c)
  <2> DEFINE nothing == rcv[c].discard /\ rcv[c].files = {}
             to == CASE nothing                     -> "lastack"
                     [] rcv[c].discard /\ ~nothing  -> "toolarge"
                     [] OTHER                       -> "check"
             r == [rcv[c] EXCEPT !.next = "lastack", !.pc = to]
  <2>1. rcv[c].pc = "blockdata" /\ rcv'[c] = r
    BY <1>0, <1>3 DEF BlockData, Become
  <2>2. to \in {"toolarge", "check"} \/ (to = "lastack" /\ nothing)
    BY <1>0 DEF Receivers
  <2> HIDE DEF to
  <2>3. rcv'[c].pc = to /\ rcv'[c].next = "lastack"
        /\ rcv'[c].at = rcv[c].at /\ rcv'[c].refused = rcv[c].refused
        /\ rcv'[c].files = rcv[c].files /\ rcv'[c].discard = rcv[c].discard
    BY <1>0, <2>1, <2>2 DEF Receivers
  <2> HIDE DEF r
  <2>4. order = "block" /\ rcv[c].at = 2 /\ ~rcv[c].refused
    BY <1>0, <2>1 DEF Placed, Place
  <2>5. Placed(c)'
    BY <1>0, <2>2, <2>3, <2>4 DEF Acts, Placed, Place, ControlFirst, DataFirst, InPairs,
                                  InBlock, Emptied, Judging
  <2> QED
    BY <1>0, <2>1, <2>2, <2>3, <2>5, Working DEF Busy, Settled, Judging
<1> QED
  BY <1>1, <1>2, <1>3

\* A sender that still waits has no receiver that is about to go.
LEMMA StillWaits ==
    ASSUME NEW j \in Jobs, NEW c, Heard(j, c), sender[j].state \in {"send", "wait"},
           link[c] = "open", rcv[c].pc \in Judging
    PROVE  rcv[c].next # "close"
<1>1. Works(sender[j], c)
  BY OpenStage DEF Heard, Judging, Busy
<1> QED
  BY <1>1 DEF Works

LEMMA CheckFits ==
    ASSUME NEW c, Acts(c), CheckFails(c) \/ CheckPasses(c) \/ WriteTicket(c)
    PROVE  Fits(c)
<1>0. /\ rcv[c] \in Receivers /\ DOMAIN rcv = Conns /\ c \in Conns /\ acks' = acks
      /\ rcv[c].pc \in Judging /\ ~rcv[c].refused /\ rcv[c].at \in Nat
      /\ rcv[c].pc \in Busy /\ rcv[c].pc \in Settled
      /\ order \in {"control", "data", "block", "pair"} /\ Placed(c)
  <2>1. rcv[c].pc \in Judging /\ acks' = acks
    BY DEF CheckFails, CheckPasses, WriteTicket, Judging
  <2> QED
    BY <2>1 DEF Acts, Placed, Place, Judging, Busy, Settled, Receivers
<1>1. CASE CheckFails(c)
  <2> DEFINE w == Whole(rcv[c])
             r == [rcv[c] EXCEPT !.pc = "error", !.refused = w]
  <2>1. rcv'[c] = r
    BY <1>0, <1>1 DEF CheckFails, Become
  <2> HIDE DEF w
  <2>2. /\ Goes(c, "error") /\ rcv'[c].files = rcv[c].files
        /\ rcv'[c].control = rcv[c].control /\ rcv'[c].discard = rcv[c].discard
    BY <1>0, <2>1 DEF Goes, Receivers
  <2>3. Placed(c)'
    BY <2>2, Fails DEF Goes
  <2>4. ASSUME Accounted(c), kept'[c] = 0 PROVE Accounted(c)'
    <3>1. order = "control" /\ Whole(rcv[c])
      BY <1>0, <1>1, <2>4 DEF Accounted, Emptied, Pending, Acts, CheckFails
    <3>2. rcv'[c].refused
      BY <1>0, <2>1, <3>1 DEF Receivers, w
    <3> QED
      BY <3>1, <3>2 DEF Accounted, Acts
  <2>5. ASSUME NEW j \in Jobs, Heard(j, c) PROVE InStep(j)' /\ Told(j)'
    BY <1>0, <2>2, <2>4, <2>5, WorksOn, StaysTold DEF Goes, Busy, Settled, Judging
  <2> QED
    BY <2>3, <2>5, Ends
<1>2. CASE CheckPasses(c)
  <2>1. Goes(c, "write") /\ Keeps(c)
    BY <1>0, <1>2 DEF CheckPasses, Become, Receivers, Goes, Keeps
  <2>2. Placed(c)'
    BY <1>0, <2>1 DEF Goes, Keeps, Acts, Placed, Place, ControlFirst, DataFirst, InPairs,
                      InBlock, Judging
  <2>3. ASSUME NEW j \in Jobs, Heard(j, c) PROVE InStep(j)'
    BY <1>0, <2>1, <2>3, WorksOn, StillWaits DEF Goes, Keeps, Busy, Judging
  <2>4. ASSUME Accounted(c), kept'[c] = 0 PROVE Accounted(c)'
    <3>1. order = "control" /\ ~rcv[c].discard /\ rcv[c].control = 1 /\ Whole(rcv[c])
      BY <1>0, <1>2, <2>4 DEF Accounted, Emptied, Pending, Acts, CheckPasses
    <3>2. Whole(rcv[c])'
      BY <2>1, <3>1, StaysWhole DEF Keeps
    <3> QED
      BY <2>1, <3>1, <3>2 DEF Accounted, Pending, Goes, Keeps, Acts
  <2>5. ASSUME NEW j \in Jobs, Heard(j, c) PROVE Told(j)'
    BY <1>0, <2>1, <2>4, <2>5, StaysTold DEF Goes, Settled
  <2> QED
    BY <2>2, <2>3, <2>5, Ends
<1>3. CASE WriteTicket(c)
  <2>0. kept'[c] > 0 /\ kept'[c] # 0
    BY <1>0, <1>3, TicketFound DEF Acts
  <2>1. rcv'[c] = Done(rcv[c])
    BY <1>0, <1>3 DEF WriteTicket, Become
  <2> DEFINE p == IF rcv[c].next = "open" THEN FileOf(rcv[c].at) ELSE 0
             r == [rcv[c] EXCEPT !.files = {}, !.num = Nobody, !.discard = FALSE,
                     !.locked = FALSE, !.control = p, !.try = FirstNumber,
                     !.pc = rcv[c].next]
             q == [rcv[c] EXCEPT !.locked = FALSE, !.discard = FALSE, !.pc = rcv[c].next]
  <2>2. (rcv'[c] = r /\ rcv[c].next \in {"open", "ack"})
        \/ (rcv'[c] = q /\ rcv[c].next \notin {"open", "ack"})
    BY <2>1 DEF Done
  <2>3. rcv[c].next = "open" => p = FileOf(rcv[c].at)
    OBVIOUS
  <2> HIDE DEF p
  <2>4. rcv'[c].pc = rcv[c].next /\ rcv'[c].at = rcv[c].at /\ rcv'[c].refused = rcv[c].refused
        /\ (rcv[c].next = "open" => rcv'[c].control = FileOf(rcv[c].at))
    <3>1. r.pc = rcv[c].next /\ r.at = rcv[c].at /\ r.refused = rcv[c].refused
          /\ r.control = p
      BY <1>0 DEF Receivers
    <3>2. q.pc = rcv[c].next /\ q.at = rcv[c].at /\ q.refused = rcv[c].refused
      BY <1>0 DEF Receivers
    <3> QED
      BY <2>2, <2>3, <3>1, <3>2
  <2> HIDE DEF r, q
  <2>5. rcv[c].next \in {"open", "ack", "lastack", "close"}
    BY <1>0 DEF Receivers, Nexts
  <2>6. /\ order = "block" <=> rcv[c].next = "lastack"
        /\ order = "block" => rcv[c].at = 2
        /\ order = "control" => rcv[c].next = "close"
        /\ order = "pair" => rcv[c].next \in {"open", "close"}
        /\ order = "data" => rcv[c].next # "open"
        /\ order = "data" /\ rcv[c].next = "ack" => rcv[c].at >= Messages
        /\ rcv[c].next \in {"open", "ack"} => IsBody(rcv[c].at) /\ rcv[c].at <= Messages
    BY <1>0 DEF Placed, Place, DataFirst, Judging
  <2>7. rcv[c].next = "open" => FileOf(rcv[c].at) # 0
    <3>1. rcv[c].at >= 2
      BY <1>0 DEF Acts, Holds, Holding, Judging
    <3> QED
      BY <1>0, <3>1 DEF FileOf
  <2>8. Place(c)'
    BY <1>0, <2>4, <2>5, <2>6 DEF Place, Acts, Judging
  <2>9. ControlFirst(c)' /\ DataFirst(c)' /\ InPairs(c)' /\ InBlock(c)'
    <3>1. ControlFirst(c)' /\ InPairs(c)' /\ InBlock(c)'
      BY <2>0, <2>4, <2>5, <2>6, <2>7 DEF ControlFirst, InPairs, InBlock, Acts
    <3>2. Messages \in Nat
      BY MessageFacts DEF Acts
    <3>3. rcv[c].at >= Messages => ~(rcv[c].at < Messages)
      BY <1>0, <3>2
    <3>4. DataFirst(c)'
      BY <2>0, <2>4, <2>5, <2>6, <3>3 DEF DataFirst, Acts, Judging
    <3> QED
      BY <3>1, <3>4
  <2>10. ASSUME NEW j \in Jobs, Heard(j, c) PROVE InStep(j)'
    BY <1>0, <2>4, <2>5, <2>10, WorksOn, StillWaits DEF Busy, Judging
  <2>11. ASSUME NEW j \in Jobs, Heard(j, c) PROVE Told(j)'
    BY <2>0, <2>11, StaysTold
  <2> QED
    BY <2>8, <2>9, <2>10, <2>11, Ends DEF Placed
<1> QED
  BY <1>1, <1>2, <1>3

LEMMA AckFits ==
    ASSUME NEW c, Acts(c), SendAck(c) \/ SendLastAck(c) PROVE Fits(c)
<1>0. /\ rcv[c] \in Receivers /\ DOMAIN rcv = Conns /\ c \in Conns
      /\ rcv[c].pc \in {"ack", "lastack"} /\ ~rcv[c].refused /\ rcv[c].at \in Nat
      /\ order \in {"control", "data", "block", "pair"} /\ Placed(c)
      /\ rcv[c].pc \in Busy
  <2>1. rcv[c].pc \in {"ack", "lastack"}
    BY DEF SendAck, SendLastAck
  <2> QED
    BY <2>1 DEF Acts, Placed, Place, Receivers, Busy
<1>1. \A j \in Jobs : Heard(j, c) => Told(j)'
  <2>1. rcv[c].pc \notin Settled
    BY <1>0 DEF Settled
  <2> QED
    BY <2>1, StaysTold
<1>2. CASE SendAck(c)
  <2> DEFINE k == rcv[c].at + 1
             r == [rcv[c] EXCEPT !.pc = "line", !.at = k]
             q == [rcv[c] EXCEPT !.pc = "end"]
  <2>1. PICK ok \in BOOLEAN : Answer(c, <<"yes">>, ok) /\ Become(c, IF ok THEN r ELSE q)
    BY <1>0, <1>2 DEF SendAck, Receivers
  <2>2. rcv[c].pc = "ack" /\ k = rcv[c].at + 1 /\ k \in Nat
    BY <1>0, <1>2 DEF SendAck
  <2>3. (link[c] = "open" => ok) /\ rcv'[c] = IF ok THEN r ELSE q
    BY <1>0, <2>1, SentOpen DEF Become
  <2> HIDE DEF k
  <2>4. /\ ok => rcv'[c].pc = "line" /\ rcv'[c].at = k /\ Keeps(c)
        /\ ~ok => Goes(c, "end") /\ Keeps(c)
    BY <1>0, <2>3 DEF Receivers, Goes, Keeps
  <2> HIDE DEF r, q
  <2>5. /\ order # "block" /\ IsBody(rcv[c].at) /\ rcv[c].at <= Messages
        /\ order = "control" => /\ rcv[c].discard \/ rcv[c].files = Before(k)
                                /\ rcv[c].control = 1
        /\ order = "data" =>
             /\ rcv[c].at >= Messages =>
                  kept[c] > 0 \/ (rcv[c].discard /\ rcv[c].control # 0)
             /\ rcv[c].at < Messages =>
                  rcv[c].control = 0 /\ (rcv[c].files # {} \/ rcv[c].discard)
        /\ order = "pair" => (rcv[c].at >= 7 => kept[c] > 0) /\ rcv[c].control # 0
    BY <1>0, <2>2 DEF Placed, Place, ControlFirst, DataFirst, InPairs
  <2>6. /\ Messages \in Nat /\ Messages % 2 = 1 /\ rcv[c].at % 2 = 1 /\ rcv[c].at >= 3
        /\ k % 2 = 0 /\ ~IsBody(k)
    <3>1. /\ Messages \in Nat /\ Messages % 2 = 1
          /\ \A i \in Nat : IsBody(i) <=> i > 1 /\ i % 2 = 1
      BY <2>5, MessageFacts DEF Acts
    <3>2. rcv[c].at % 2 = 1 /\ rcv[c].at >= 3
      BY <1>0, <2>5, <3>1
    <3>3. k % 2 = 0
      BY <1>0, <2>2, <3>2
    <3> QED
      BY <2>2, <3>1, <3>2, <3>3
  <2>7. Placed(c)'
    <3>1. CASE ok
      <4>1. Place(c)' /\ InBlock(c)'
        BY <1>0, <2>2, <2>4, <2>5, <2>6, <3>1 DEF Place, InBlock, Keeps, Acts, Judging
      <4>2. DataFirst(c)'
        <5>1. (k >= Messages => rcv[c].at >= Messages) /\ (k <= Messages => rcv[c].at < Messages)
          BY <1>0, <2>2, <2>5, <2>6
        <5> QED
          BY <2>4, <2>5, <3>1, <5>1 DEF DataFirst, Keeps, Acts, Judging
      <4>3. InPairs(c)'
        <5> SUFFICES ASSUME order = "pair"
                     PROVE  (k > 7 => kept'[c] > 0) /\ rcv'[c].control # 0
          BY <2>4, <3>1 DEF InPairs, Acts
        <5>1. k > 7 => rcv[c].at >= 7
          BY <1>0, <2>2
        <5> QED
          BY <2>4, <2>5, <3>1, <5>1 DEF Keeps, Acts
      <4>4. ControlFirst(c)'
        <5>1. k > 3
          BY <1>0, <2>2, <2>6
        <5> QED
          BY <2>4, <2>5, <3>1, <5>1 DEF ControlFirst, Keeps, Acts
      <4> QED
        BY <4>1, <4>2, <4>3, <4>4 DEF Placed
    <3>2. CASE ~ok
      BY <1>0, <2>2, <2>4, <2>5, <3>2 DEF Goes, Keeps, Acts, Placed, Place, ControlFirst,
                                     DataFirst, InPairs, InBlock, Judging
    <3> QED
      BY <3>1, <3>2
  <2>8. ASSUME ok, rcv[c].at = Messages PROVE Accounted(c)'
    <3>1. CASE order = "control"
      <4>1. /\ Messages = 2 * DataFiles + 3 /\ Needed(1) = 2 .. (DataFiles + 1)
            /\ DataFiles \in Nat
        BY <3>1, ScriptFacts, AttemptAssumption DEF Acts
      <4>2. Before(k) = Needed(1)
        BY <2>2, <2>8, <4>1 DEF Before
      <4>3. rcv[c].discard \/ Whole(rcv[c])
        BY <2>5, <3>1, <4>2 DEF Whole
      <4>4. Whole(rcv[c]) => Whole(rcv[c])'
        BY <2>4, <2>8, StaysWhole DEF Keeps
      <4>5. rcv'[c].discard \in BOOLEAN
        BY <1>0, <2>4, <2>8 DEF Keeps, Receivers
      <4> QED
        BY <2>4, <2>5, <2>8, <3>1, <4>3, <4>4, <4>5 DEF Accounted, Pending, Keeps, Acts
    <3>2. CASE order = "data"
      <4>1. kept[c] > 0 \/ (rcv[c].discard /\ rcv[c].control # 0)
        BY <2>5, <2>6, <2>8, <3>2
      <4>2. CASE kept[c] > 0
        BY <4>2 DEF Accounted, Acts
      <4>3. CASE rcv[c].discard /\ rcv[c].control # 0
        BY <2>4, <2>8, <3>2, <4>3 DEF Accounted, Pending, Keeps, Acts
      <4> QED
        BY <4>1, <4>2, <4>3
    <3>3. CASE order = "pair"
      <4>1. Messages = 9
        BY <3>3, ScriptFacts DEF Acts
      <4>2. kept'[c] > 0
        BY <2>5, <2>8, <3>3, <4>1 DEF Acts
      <4> QED
        BY <4>2 DEF Accounted
    <3> QED
      BY <1>0, <2>5, <3>1, <3>2, <3>3
  <2>9. ASSUME NEW j \in Jobs, Heard(j, c) PROVE InStep(j)'
    <3>1. link[c] = "open" => Answered(c) /\ rcv'[c].pc = "line"
      BY <2>2, <2>3, <2>4, <2>6 DEF Answered
    <3> QED
      BY <1>0, <2>1, <2>3, <2>8, <2>9, <3>1, Agrees
  <2> QED
    BY <1>1, <2>7, <2>9, Ends
<1>3. CASE SendLastAck(c)
  <2> DEFINE r == [rcv[c] EXCEPT !.pc = "close"]
             q == [rcv[c] EXCEPT !.pc = "answer"]
  <2>1. PICK ok \in BOOLEAN : Answer(c, <<"yes">>, ok) /\ Become(c, IF ok THEN r ELSE q)
    BY <1>3 DEF SendLastAck
  <2>2. rcv[c].pc = "lastack"
    BY <1>3 DEF SendLastAck
  <2>3. (link[c] = "open" => ok) /\ rcv'[c] = IF ok THEN r ELSE q
    BY <1>0, <2>1, SentOpen DEF Become
  <2>4. /\ ok => Goes(c, "close") /\ Keeps(c)
        /\ ~ok => Goes(c, "answer") /\ Keeps(c)
    BY <1>0, <2>3 DEF Receivers, Goes, Keeps
  <2> HIDE DEF r, q
  <2>5. order = "block" /\ rcv[c].at = 2 /\ (kept[c] > 0 \/ Emptied(rcv[c]))
    BY <1>0, <2>2 DEF Placed, Place, InBlock
  <2>6. (ok => kept'[c] > 0 \/ Emptied(rcv[c])') /\ Messages = 2
    BY <2>4, <2>5, ScriptFacts DEF Acts, Emptied, Goes, Keeps
  <2>7. Placed(c)'
    <3>1. CASE ok
      BY <1>0, <2>4, <2>5, <2>6, <3>1 DEF Goes, Keeps, Acts, Placed, Place, ControlFirst,
                                     DataFirst, InPairs, InBlock, Judging
    <3>2. CASE ~ok
      BY <2>4, <3>2, Fails DEF Goes
    <3> QED
      BY <3>1, <3>2
  <2>8. ASSUME NEW j \in Jobs, Heard(j, c) PROVE InStep(j)'
    <3>1. ~(rcv[c].at < Messages)
      BY <2>5, <2>6
    <3>2. ok => Accounted(c)'
      BY <2>6 DEF Accounted
    <3> QED
      BY <1>0, <2>1, <2>3, <2>4, <2>6, <2>8, <3>1, <3>2, Agrees DEF Goes
  <2> QED
    BY <1>1, <2>7, <2>8, Ends
<1> QED
  BY <1>2, <1>3

LEMMA EndFits ==
    ASSUME NEW c, Acts(c), AtEnd(c) \/ Close(c) \/ Error(c) \/ AnswerError(c)
    PROVE  Fits(c)
<1>0. /\ rcv[c] \in Receivers /\ DOMAIN rcv = Conns /\ c \in Conns
      /\ order \in {"control", "data", "block", "pair"} /\ Placed(c)
      /\ rcv[c].pc \in {"end", "close", "error", "answer"} /\ rcv[c].pc \in Settled
  <2>1. rcv[c].pc \in {"end", "close", "error", "answer"}
    BY DEF AtEnd, Close, Error, AnswerError
  <2> QED
    BY <2>1 DEF Acts, Settled
<1>1. ASSUME rcv'[c].pc \in Settled, Accounted(c) /\ kept'[c] = 0 => Accounted(c)'
      PROVE  \A j \in Jobs : Heard(j, c) => Told(j)'
  BY <1>0, <1>1, StaysTold
<1>2. CASE AtEnd(c)
  <2> DEFINE o == rcv[c]
             to == CASE o.discard /\ o.num # Nobody                    -> "toolarge"
                     [] o.discard /\ o.num = Nobody                    -> "close"
                     [] ~o.discard /\ o.files = {}                     -> "close"
                     [] ~o.discard /\ o.files # {} /\ o.num # Nobody   -> "check"
                     [] OTHER                                          -> "dead"
             r == [rcv[c] EXCEPT !.next = "close", !.pc = to]
  <2>1. rcv'[c] = r /\ rcv[c].pc = "end" /\ acks' = acks
    BY <1>0, <1>2 DEF AtEnd, Become
  <2>2. to \in {"toolarge", "close", "check", "dead"}
    OBVIOUS
  <2> HIDE DEF to
  <2>3. /\ rcv'[c].pc \in {"toolarge", "close", "check", "dead"} /\ rcv'[c].next = "close"
        /\ rcv'[c].pc = to
        /\ rcv'[c].at = rcv[c].at /\ rcv'[c].files = rcv[c].files
        /\ rcv'[c].control = rcv[c].control /\ rcv'[c].discard = rcv[c].discard
        /\ rcv'[c].refused = rcv[c].refused
    BY <1>0, <2>1, <2>2 DEF Receivers
  <2> HIDE DEF r
  <2>4. Placed(c)'
    BY <1>0, <2>1, <2>3 DEF Acts, Placed, Place, ControlFirst, DataFirst, InPairs, InBlock,
                            Judging
  <2>5. ASSUME NEW j \in Jobs, Heard(j, c) PROVE InStep(j)'
    BY <2>1, <2>5, Leaves
  <2>6. ASSUME Accounted(c), kept'[c] = 0 PROVE Accounted(c)'
    <3>1. Pending(rcv[c]) /\ order # "block" /\ ~rcv[c].refused /\ rcv[c].control # 0
      BY <1>0, <2>1, <2>6 DEF Accounted, Emptied, Pending, Acts, Placed, Place
    <3>2. rcv[c].num # Nobody
      BY <2>1, <3>1 DEF Acts, Holds
    <3>3. CASE rcv[c].discard
      <4>1. to = "toolarge"
        BY <3>2, <3>3 DEF to
      <4> QED
        BY <1>0, <2>1, <2>3, <3>1, <3>3, <4>1 DEF Accounted, Pending, Acts, Receivers
    <3>4. CASE ~rcv[c].discard
      <4>1. order = "control" /\ Whole(rcv[c]) /\ rcv[c].control = 1
        BY <3>1, <3>4 DEF Pending
      <4>2. Needed(1) = 2 .. (DataFiles + 1) /\ DataFiles \in Nat \ {0}
        BY <4>1, ScriptFacts, AttemptAssumption DEF Acts
      <4>3. rcv[c].files # {}
        <5>1. 2 \in Needed(1)
          BY <4>2
        <5> QED
          BY <4>1, <5>1 DEF Whole
      <4>4. to = "check"
        BY <3>2, <3>4, <4>3 DEF to
      <4>5. Whole(rcv[c])'
        BY <2>3, <4>1, StaysWhole
      <4> QED
        BY <1>0, <2>1, <2>3, <3>1, <3>4, <4>1, <4>4, <4>5
           DEF Accounted, Pending, Acts, Receivers
    <3> QED
      BY <3>3, <3>4
  <2> QED
    BY <1>1, <2>3, <2>4, <2>5, <2>6, Ends DEF Settled
<1>3. CASE Close(c)
  <2>1. Goes(c, "ended") /\ Keeps(c) /\ acks' = acks /\ rcv[c].pc = "close"
    BY <1>0, <1>3 DEF Close, Become, Receivers, Goes, Keeps
  <2>2. ASSUME NEW j \in Jobs, Heard(j, c) PROVE InStep(j)'
    BY <2>1, <2>2, Leaves DEF Goes, Keeps
  <2>3. ASSUME Accounted(c), kept'[c] = 0 PROVE Accounted(c)'
    <3>1. Emptied(rcv[c])
      BY <1>0, <2>1, <2>3 DEF Accounted, Pending, Acts, Placed, Place
    <3> QED
      BY <2>1, <3>1 DEF Accounted, Emptied, Goes, Keeps, Acts
  <2> QED
    BY <1>1, <2>1, <2>2, <2>3, Ends DEF Goes, Settled, Stopped
<1>4. CASE Error(c)
  <2>1. Goes(c, "answer") /\ Keeps(c) /\ acks' = acks /\ rcv[c].pc = "error"
    BY <1>0, <1>4 DEF Error, Become, Receivers, Goes, Keeps
  <2>2. ASSUME NEW j \in Jobs, Heard(j, c) PROVE InStep(j)'
    BY <2>1, <2>2, WorksOn DEF Goes, Busy, Judging
  <2>3. Placed(c)'
    BY <2>1, Fails DEF Goes
  <2>4. ASSUME Accounted(c), kept'[c] = 0 PROVE Accounted(c)'
    BY <2>1, <2>4 DEF Accounted, Emptied, Pending, Goes, Keeps, Acts
  <2> QED
    BY <1>1, <2>1, <2>2, <2>3, <2>4, Ends DEF Goes, Settled
<1>5. CASE AnswerError(c)
  <2>1. Goes(c, "ended") /\ Keeps(c) /\ rcv[c].pc = "answer"
    BY <1>0, <1>5 DEF AnswerError, Become, Receivers, Goes, Keeps
  <2>2. PICK ok \in BOOLEAN, b \in {<<"no">>, <<>>} : Answer(c, b, ok)
    BY <1>5 DEF AnswerError
  <2>3. ASSUME NEW j \in Jobs, Heard(j, c) PROVE InStep(j)'
    <3>1. CASE b = <<"no">>
      BY <1>0, <2>1, <2>2, <2>3, <3>1, Refuses DEF Goes, Busy
    <3>2. CASE b = <<>>
      <4>1. acks'[c] = acks[c]
        <5>1. acks[c] \in Seq({"yes", "no"})
          BY <1>0 DEF Acts, DialogueInv, LineTypes
        <5>2. acks[c] \o <<>> = acks[c]
          BY <5>1
        <5>3. acks \in [Conns -> Seq({"yes", "no"})]
          BY DEF Acts, DialogueInv, LineTypes
        <5> QED
          BY <1>0, <2>2, <3>2, <5>2, <5>3 DEF Answer
      <4> QED
        BY <2>1, <2>3, <4>1, WorksOn DEF Goes, Busy, Judging
    <3> QED
      BY <3>1, <3>2
  <2>4. ASSUME Accounted(c), kept'[c] = 0 PROVE Accounted(c)'
    BY <2>1, <2>4 DEF Accounted, Emptied, Pending, Goes, Keeps, Acts
  <2> QED
    BY <1>1, <2>1, <2>3, <2>4, Ends DEF Goes, Settled, Stopped
<1> QED
  BY <1>2, <1>3, <1>4, <1>5

LEMMA ReceiverDialogue ==
    ASSUME SpoolInv, DialogueInv, NEW c \in Conns, ReceiverStep(c)
    PROVE  DialogueInv'
<1>1. Acts(c)
  BY Acting
<1>2. Fits(c)
  BY <1>1, RequestFits, LineFits, BodyFits, FileFits, TicketFits, CheckFits, AckFits, EndFits
     DEF ReceiverStep
<1> QED
  BY <1>2, DialogueOf DEF Fits, Placed

-----------------------------------------------------------------------------
(* The steps of the others.                                                 *)

\* A step that touches no connection but one of j's, and no sender but j.
LEMMA OneLine ==
    ASSUME DialogueInv, UNCHANGED order, NEW j \in Jobs, NEW a \in 1 .. MaxAttempts,
           NEW c, c = <<j, a>>, LineTypes',
           \A i \in Jobs \ {j} : sender'[i] = sender[i],
           \A d \in Conns \ {c} :
             /\ link'[d] = link[d] /\ wire'[d] = wire[d] /\ acks'[d] = acks[d]
             /\ rcv'[d] = rcv[d] /\ kept'[d] = kept[d],
           Dialogue(c)', InStep(j)', Told(j)', Unused(j)'
    PROVE  DialogueInv'
<1>1. ASSUME NEW d \in Conns PROVE Dialogue(d)'
  <2>1. CASE d = c
    BY <2>1
  <2>2. CASE d # c
    BY <2>2, StaysPlaced DEF DialogueInv
  <2> QED
    BY <2>1, <2>2
<1>2. ASSUME NEW i \in Jobs, i # j PROVE InStep(i)' /\ Told(i)' /\ Unused(i)'
  <2>1. PICK d : d = Conn(i)
    OBVIOUS
  <2>2. Conn(i)' = d /\ sender'[i] = sender[i] /\ InStep(i) /\ Told(i) /\ Unused(i)
    BY <1>2, <2>1 DEF Conn, DialogueInv
  <2>3. sender[i].attempt \in 1 .. MaxAttempts => d \in Conns \ {c}
    BY <1>2, <2>1 DEF Conn, Conns
  <2>4. InStep(i)' /\ Told(i)'
    BY <2>1, <2>2, <2>3, StaysInStep
  <2>5. ASSUME NEW b \in 1 .. MaxAttempts, b > sender[i].attempt
        PROVE  wire'[<<i, b>>] = <<>> /\ acks'[<<i, b>>] = <<>>
    <3>1. <<i, b>> \in Conns \ {c}
      BY <1>2 DEF Conns
    <3> QED
      BY <2>2, <2>5, <3>1 DEF Unused
  <2> QED
    BY <2>2, <2>4, <2>5 DEF Unused
<1>3. ASSUME NEW i \in Jobs PROVE InStep(i)' /\ Told(i)' /\ Unused(i)'
  BY <1>2
<1> QED
  BY <1>1, <1>3 DEF DialogueInv

LEMMA ClosedLink ==
    ASSUME LineTypes, NEW c \in Conns, link' = Closed(c)
    PROVE  /\ link' \in [Conns -> {"none", "open", "closed", "down"}]
           /\ \A d \in Conns \ {c} : link'[d] = link[d]
  BY DEF LineTypes, Closed

\* A sender gives up an attempt.
LEMMA GivesUp ==
    ASSUME SpoolInv, DialogueInv, NEW j \in Jobs, sender[j].state \in {"send", "wait"},
           SendFails(j), UNCHANGED <<order, rcv, kept>>, LineTypes',
           \A d \in Conns \ {Conn(j)} : wire'[d] = wire[d] /\ acks'[d] = acks[d],
           \/ wire' = wire
           \/ /\ \E form \in Forms : wire'[Conn(j)] = <<form>>
              /\ rcv[Conn(j)].pc \in Reading /\ rcv[Conn(j)].at <= Messages
    PROVE  DialogueInv'
<1>1. sender[j].attempt \in 1 .. MaxAttempts /\ Unused(j) /\ LineTypes
      /\ sender \in [Jobs -> SenderState]
  BY DEF DialogueInv, InStep, SpoolInv, SoloInv, SpoolTypes
<1>2. PICK c \in Conns : c = Conn(j) /\ c = <<j, sender[j].attempt>>
  BY <1>1 DEF Conn, Conns
<1>3. \A d \in Conns \ {c} : link'[d] = link[d]
  BY <1>1, <1>2, ClosedLink DEF SendFails
<1>4. /\ sender'[j].state \in {"idle", "gaveup"} /\ sender'[j].attempt = sender[j].attempt
      /\ \A i \in Jobs \ {j} : sender'[i] = sender[i]
  BY <1>1 DEF SendFails, Give, SenderState
<1>5. InStep(j)' /\ Told(j)'
  BY <1>4 DEF InStep, Told
<1>6. Unused(j)'
  <2> SUFFICES ASSUME NEW b \in 1 .. MaxAttempts, b > sender[j].attempt
               PROVE  wire'[<<j, b>>] = <<>> /\ acks'[<<j, b>>] = <<>>
    BY <1>4 DEF Unused
  <2>1. <<j, b>> \in Conns \ {c}
    BY <1>1, <1>2 DEF Conns
  <2> QED
    BY <1>1, <1>2, <2>1 DEF Unused
<1>7. Dialogue(c)'
  <2>1. Dialogue(c)
    BY DEF DialogueInv
  <2>2. CASE wire' = wire
    BY <2>1, <2>2, StaysPlaced
  <2>3. CASE /\ \E form \in Forms : wire'[c] = <<form>>
             /\ rcv[c].pc \in Reading /\ rcv[c].at <= Messages
    <3>1. Messages' = Messages
      BY SameOrder
    <3>2. Waits(c)'
      BY <2>3, <3>1 DEF Waits, Reading
    <3>3. ASSUME ~Stopped(c)'
          PROVE  /\ Place(c)' /\ ControlFirst(c)' /\ DataFirst(c)'
                 /\ InPairs(c)' /\ InBlock(c)'
      <4>1. /\ \A k : IsBody(k)' = IsBody(k) /\ Before(k)' = Before(k)
            /\ Place(c) /\ ControlFirst(c) /\ DataFirst(c) /\ InPairs(c) /\ InBlock(c)
        BY <2>1, <3>3, SameOrder DEF Dialogue, Stopped
      <4>2. Place(c)' /\ ControlFirst(c)'
        BY <3>1, <4>1 DEF Place, ControlFirst
      <4>3. DataFirst(c)' /\ InPairs(c)' /\ InBlock(c)'
        BY <3>1, <4>1 DEF DataFirst, InPairs, InBlock, Emptied
      <4> QED
        BY <4>2, <4>3
    <3> QED
      BY <3>2, <3>3 DEF Dialogue
  <2> QED
    BY <1>2, <2>2, <2>3
<1> QED
  BY <1>1, <1>2, <1>3, <1>4, <1>5, <1>6, <1>7, OneLine

LEMMA ConnectDialogue ==
    ASSUME SpoolInv, DialogueInv, NEW j \in Jobs, Connect(j)
    PROVE  DialogueInv'
<1>1. /\ sender[j] \in SenderState /\ sender[j].attempt < MaxAttempts /\ LineTypes
      /\ sender \in [Jobs -> SenderState] /\ rcv \in [Conns -> Receivers]
      /\ order \in Orders /\ MaxAttempts \in Nat
  BY AttemptAssumption DEF Connect, SpoolInv, SoloInv, SpoolTypes, DialogueInv
<1>2. PICK a \in 1 .. MaxAttempts : a = sender[j].attempt + 1 /\ a > sender[j].attempt
  BY <1>1 DEF SenderState
<1>3. PICK c \in Conns : c = <<j, a>>
  BY DEF Conns
<1>4. /\ sender' = [sender EXCEPT ![j] = [state |-> "send", attempt |-> a, pos |-> 1]]
      /\ link' = [link EXCEPT ![c] = "open"] /\ rcv' = [rcv EXCEPT ![c].pc = "request"]
      /\ UNCHANGED <<order, wire, acks, kept>>
  BY <1>2, <1>3 DEF Connect
<1>5. rcv[c] = Absent /\ wire[c] = <<>> /\ acks[c] = <<>>
  <2>1. rcv[c].pc = "absent"
    BY <1>2, <1>3 DEF SpoolInv, SoloInv, AnnounceInv, FutureInv
  <2>2. rcv[c] = Absent
    BY <2>1 DEF SpoolInv, SoloInv, FreshInv
  <2> QED
    BY <1>2, <1>3, <2>2 DEF DialogueInv, Unused
<1>6. /\ rcv'[c].pc = "request" /\ rcv'[c].at = 1 /\ rcv'[c].files = {}
      /\ rcv'[c].control = 0 /\ ~rcv'[c].refused /\ link'[c] = "open"
      /\ wire'[c] = <<>> /\ acks'[c] = <<>>
  BY <1>1, <1>4, <1>5 DEF Absent, LineTypes
<1>7. Messages' = Messages /\ Messages \in Nat /\ Messages >= 2
  BY <1>1, <1>4, SameOrder, MessageFacts
<1>8. LineTypes'
  BY <1>1, <1>4 DEF LineTypes
<1>9. /\ \A i \in Jobs \ {j} : sender'[i] = sender[i]
      /\ \A d \in Conns \ {c} : link'[d] = link[d] /\ rcv'[d] = rcv[d]
      /\ sender'[j].state = "send" /\ sender'[j].attempt = a /\ sender'[j].pos = 1
  BY <1>1, <1>4 DEF LineTypes
<1>10. Dialogue(c)'
  <2>1. Place(c)' /\ Waits(c)' /\ DataFirst(c)' /\ InPairs(c)' /\ InBlock(c)'
    BY <1>6 DEF Place, Waits, DataFirst, InPairs, InBlock, Judging
  <2>2. ControlFirst(c)'
    <3>1. Before(1) = {}
      BY NeededFiles DEF Before
    <3>2. Before(1)' = {}
      BY <1>4, <3>1, SameOrder
    <3> QED
      BY <1>6, <3>2 DEF ControlFirst
  <2> QED
    BY <2>1, <2>2 DEF Dialogue
<1>11. Conn(j)' = c
  BY <1>3, <1>9 DEF Conn
<1>12. InStep(j)'
  <2>1. Idle(sender[j], c)'
    BY <1>6, <1>9 DEF Idle, Reads
  <2> QED
    BY <1>6, <1>7, <1>9, <1>11, <2>1 DEF InStep
<1>13. Told(j)' /\ Unused(j)'
  <2>1. Told(j)'
    BY <1>9 DEF Told
  <2>2. ASSUME NEW b \in 1 .. MaxAttempts, b > a
        PROVE  wire'[<<j, b>>] = <<>> /\ acks'[<<j, b>>] = <<>>
    <3>1. b > sender[j].attempt
      BY <1>1, <1>2, <2>2 DEF SenderState
    <3> QED
      BY <1>4, <3>1 DEF DialogueInv, Unused
  <2> QED
    BY <1>9, <2>1, <2>2 DEF Unused
<1> QED
  BY <1>3, <1>4, <1>8, <1>9, <1>10, <1>12, <1>13, OneLine

LEMMA SendDialogue ==
    ASSUME SpoolInv, DialogueInv, NEW j \in Jobs, Send(j) \/ SendCut(j)
    PROVE  DialogueInv'
<1>1. /\ sender[j].state = "send" /\ sender[j].attempt \in 1 .. MaxAttempts
      /\ sender[j].pos \in 1 .. Messages /\ InStep(j) /\ Unused(j) /\ LineTypes
      /\ sender \in [Jobs -> SenderState] /\ order \in Orders /\ DOMAIN rcv = Conns
      /\ UNCHANGED <<order, acks, rcv, kept>>
  BY DEF Send, SendCut, InStep, DialogueInv, SpoolInv, SoloInv, SpoolTypes
<1>2. PICK c \in Conns : c = Conn(j) /\ c = <<j, sender[j].attempt>>
  BY <1>1 DEF Conn, Conns
<1>3. link[c] = "open" => /\ wire[c] = <<>> /\ acks[c] = <<>>
                          /\ Reads(rcv[c], sender[j].pos)
  BY <1>1, <1>2 DEF InStep, Nay, Idle, Sent, Works, Yea
<1>4. ASSUME link[c] = "open", NEW form \in Forms,
             wire' = [wire EXCEPT ![c] = Append(@, form)]
      PROVE  /\ wire'[c] = <<form>> /\ wire' \in [Conns -> Seq(Forms)]
             /\ \A d \in Conns \ {c} : wire'[d] = wire[d]
             /\ rcv[c].pc \in Reading /\ rcv[c].at <= Messages
  <2>1. wire'[c] = <<form>> /\ <<form>> \in Seq(Forms)
    BY <1>1, <1>3, <1>4 DEF LineTypes
  <2>2. rcv[c].pc \in Reading /\ rcv[c].at = sender[j].pos
    BY <1>3, <1>4 DEF Reads, Reading
  <2>3. rcv[c].at <= Messages
    BY <1>1, <2>2, MessageFacts
  <2> QED
    BY <1>1, <1>4, <2>1, <2>2, <2>3 DEF LineTypes
<1>5. CASE SendFails(j) /\ link[c] # "open" /\ UNCHANGED wire
  <2>1. LineTypes'
    BY <1>1, <1>2, <1>5, ClosedLink DEF SendFails, LineTypes
  <2> QED
    BY <1>1, <1>5, <2>1, GivesUp
<1>6. CASE SendCut(j)
  <2>1. PICK form \in {"partial", "unterminated"} : wire' = [wire EXCEPT ![c] = Append(@, form)]
    BY <1>2, <1>6 DEF SendCut
  <2>2. form \in Forms /\ link[c] = "open" /\ SendFails(j)
    BY <1>2, <1>6 DEF SendCut, Forms
  <2>3. /\ wire'[c] = <<form>> /\ wire' \in [Conns -> Seq(Forms)]
        /\ \A d \in Conns \ {c} : wire'[d] = wire[d]
        /\ rcv[c].pc \in Reading /\ rcv[c].at <= Messages
    BY <1>4, <2>1, <2>2
  <2>4. LineTypes'
    BY <1>1, <1>2, <2>2, <2>3, ClosedLink DEF SendFails, LineTypes
  <2> QED
    BY <1>1, <1>2, <2>2, <2>3, <2>4, GivesUp
<1>7. CASE Send(j) /\ link[c] = "open"
  <2>1. /\ wire' = [wire EXCEPT ![c] = Append(@, "whole")]
        /\ sender' = [sender EXCEPT ![j].state = "wait"] /\ UNCHANGED link
    BY <1>2, <1>7 DEF Send
  <2>2. /\ wire'[c] = <<"whole">> /\ wire' \in [Conns -> Seq(Forms)]
        /\ \A d \in Conns \ {c} : wire'[d] = wire[d]
        /\ rcv[c].pc \in Reading /\ rcv[c].at <= Messages
    BY <1>4, <1>7, <2>1 DEF Forms
  <2>3. /\ sender'[j].state = "wait" /\ sender'[j].attempt = sender[j].attempt
        /\ sender'[j].pos = sender[j].pos
        /\ \A i \in Jobs \ {j} : sender'[i] = sender[i]
    BY <1>1, <2>1 DEF SenderState
  <2>4. LineTypes'
    BY <1>1, <2>1, <2>2 DEF LineTypes
  <2>5. Conn(j)' = c /\ Messages' = Messages /\ \A k : IsBody(k)' = IsBody(k) /\ Before(k)' = Before(k)
    BY <1>1, <1>2, <2>3, SameOrder DEF Conn
  <2>6. Dialogue(c)'
    <3>1. Waits(c)'
      BY <1>1, <2>2, <2>5 DEF Waits, Reading, Forms
    <3>2. ASSUME ~Stopped(c)'
          PROVE  /\ Place(c)' /\ ControlFirst(c)' /\ DataFirst(c)'
                 /\ InPairs(c)' /\ InBlock(c)'
      <4>1. Place(c) /\ ControlFirst(c) /\ DataFirst(c) /\ InPairs(c) /\ InBlock(c)
        BY <1>1, <3>2 DEF DialogueInv, Dialogue, Stopped
      <4>2. Place(c)' /\ ControlFirst(c)'
        BY <1>1, <2>5, <4>1 DEF Place, ControlFirst
      <4>3. DataFirst(c)' /\ InPairs(c)' /\ InBlock(c)'
        BY <1>1, <2>5, <4>1 DEF DataFirst, InPairs, InBlock, Emptied
      <4> QED
        BY <4>2, <4>3
    <3> QED
      BY <3>1, <3>2 DEF Dialogue
  <2>7. InStep(j)'
    <3>1. PICK k : k = sender[j].pos
      OBVIOUS
    <3>2. Reads(rcv[c], k)'
      BY <1>1, <1>3, <1>7, <2>5, <3>1 DEF Reads
    <3>3. Sent(sender[j], c)'
      BY <1>1, <1>3, <1>7, <2>2, <2>3, <3>1, <3>2 DEF Sent
    <3> QED
      BY <1>1, <1>7, <2>1, <2>3, <2>5, <3>3 DEF InStep
  <2>8. Told(j)'
    BY <2>3 DEF Told
  <2>9. Unused(j)'
    <3> SUFFICES ASSUME NEW b \in 1 .. MaxAttempts, b > sender[j].attempt
                 PROVE  wire'[<<j, b>>] = <<>> /\ acks'[<<j, b>>] = <<>>
      BY <2>3 DEF Unused
    <3>1. <<j, b>> \in Conns \ {c}
      BY <1>1, <1>2 DEF Conns
    <3> QED
      BY <1>1, <2>2, <3>1 DEF Unused
  <2> QED
    BY <1>1, <1>2, <2>1, <2>2, <2>3, <2>4, <2>6, <2>7, <2>8, <2>9, OneLine
<1>8. CASE Send(j) /\ link[c] # "open"
  BY <1>2, <1>5, <1>8 DEF Send
<1> QED
  BY <1>6, <1>7, <1>8

LEMMA AnswerDialogue ==
    ASSUME SpoolInv, DialogueInv, NEW j \in Jobs, GetAck(j)
    PROVE  DialogueInv'
<1>1. /\ sender[j].state = "wait" /\ sender[j].attempt \in 1 .. MaxAttempts
      /\ sender[j].pos \in 1 .. Messages /\ InStep(j) /\ Unused(j) /\ LineTypes
      /\ sender \in [Jobs -> SenderState] /\ order \in Orders /\ DOMAIN rcv = Conns
      /\ UNCHANGED <<order, wire, rcv, kept>>
  BY DEF GetAck, InStep, DialogueInv, SpoolInv, SoloInv, SpoolTypes
<1>2. PICK c \in Conns : c = Conn(j) /\ c = <<j, sender[j].attempt>>
  BY <1>1 DEF Conn, Conns
<1>3. acks[c] # <<>> /\ acks' = [acks EXCEPT ![c] = Tail(@)]
  BY <1>2 DEF GetAck
<1>4. link[c] = "open" /\ (Nay(sender[j], c) \/ Yea(sender[j], c))
  BY <1>1, <1>2, <1>3 DEF InStep, Idle, Sent, Works
<1>5. wire[c] = <<>> /\ \E b \in {"yes", "no"} : acks[c] = <<b>>
  BY <1>4 DEF Nay, Yea
<1>6. /\ acks' \in [Conns -> Seq({"yes", "no"})] /\ acks'[c] = <<>>
      /\ \A d \in Conns \ {c} : acks'[d] = acks[d]
  BY <1>1, <1>3, <1>5 DEF LineTypes
<1>7. CASE Nay(sender[j], c)
  <2>1. SendFails(j)
    BY <1>2, <1>7 DEF GetAck, Nay
  <2>2. LineTypes'
    BY <1>1, <1>2, <1>6, <2>1, ClosedLink DEF SendFails, LineTypes
  <2> QED
    BY <1>1, <1>2, <1>6, <2>1, <2>2, GivesUp
<1>8. CASE Yea(sender[j], c)
  <2>1. Head(acks[c]) = "yes"
    BY <1>8 DEF Yea
  <2>2. Dialogue(c)'
    BY <1>1, StaysPlaced DEF DialogueInv
  <2>3. Messages' = Messages /\ Messages \in Nat /\ \A k : IsBody(k)' = IsBody(k)
    BY <1>1, SameOrder, MessageFacts
  <2>4. ASSUME sender'[j].attempt = sender[j].attempt PROVE Conn(j)' = c /\ Unused(j)'
    <3>1. Conn(j)' = c
      BY <1>2, <2>4 DEF Conn
    <3> SUFFICES ASSUME NEW b \in 1 .. MaxAttempts, b > sender[j].attempt
                 PROVE  wire'[<<j, b>>] = <<>> /\ acks'[<<j, b>>] = <<>>
      BY <2>4, <3>1 DEF Unused
    <3>2. <<j, b>> \in Conns \ {c}
      BY <1>1, <1>2 DEF Conns
    <3> QED
      BY <1>1, <1>6, <3>2 DEF Unused
  <2>5. CASE sender[j].pos < Messages
    <3> DEFINE k == sender[j].pos + 1
    <3>1. sender' = [sender EXCEPT ![j].state = "send", ![j].pos = @ + 1] /\ UNCHANGED link
      BY <1>2, <2>1, <2>5 DEF GetAck
    <3>2. k \in 1 .. Messages /\ sender[j] \in SenderState
      BY <1>1, <2>3, <2>5
    <3>3. /\ sender'[j].state = "send" /\ sender'[j].attempt = sender[j].attempt
          /\ sender'[j].pos = k /\ \A i \in Jobs \ {j} : sender'[i] = sender[i]
      BY <1>1, <3>1 DEF SenderState
    <3>4. LineTypes'
      BY <1>1, <1>6, <3>1 DEF LineTypes
    <3>5. Reads(rcv[c], k)
      BY <1>8, <2>5 DEF Yea
    <3> HIDE DEF k
    <3>6. PICK n : n = k
      OBVIOUS
    <3>7. Reads(rcv[c], n)'
      BY <1>1, <2>3, <3>5, <3>6 DEF Reads
    <3>8. Idle(sender[j], c)'
      BY <1>1, <1>5, <1>6, <3>3, <3>6, <3>7 DEF Idle
    <3>9. InStep(j)' /\ Told(j)'
      BY <1>1, <1>4, <2>3, <2>4, <3>1, <3>2, <3>3, <3>8 DEF InStep, Told
    <3> QED
      BY <1>1, <1>2, <1>6, <2>2, <2>4, <3>1, <3>3, <3>4, <3>9, OneLine
  <2>6. CASE ~(sender[j].pos < Messages)
    <3>1. sender[j].pos = Messages
      BY <1>1, <2>3, <2>6
    <3>2. sender' = [sender EXCEPT ![j].state = "sent"] /\ link' = Closed(c)
      BY <1>2, <2>1, <2>6 DEF GetAck
    <3>3. /\ sender'[j].state = "sent" /\ sender'[j].attempt = sender[j].attempt
          /\ \A i \in Jobs \ {j} : sender'[i] = sender[i]
      BY <1>1, <3>2 DEF SenderState
    <3>4. LineTypes' /\ \A d \in Conns \ {c} : link'[d] = link[d]
      BY <1>1, <1>6, <3>2, ClosedLink DEF LineTypes
    <3>5. /\ Accounted(c)
          /\ kept[c] > 0 \/ rcv[c].pc \in Settled
      BY <1>8, <3>1 DEF Yea, Settled
    <3>6. Accounted(c)'
      <4>1. \A f : Needed(f)' = Needed(f)
        BY <1>1, SameOrder
      <4> QED
        BY <1>1, <3>5, <4>1 DEF Accounted, Emptied, Pending, Whole
    <3>7. Told(j)'
      BY <1>1, <1>5, <2>4, <3>3, <3>5, <3>6 DEF Told
    <3>8. InStep(j)'
      BY <3>3 DEF InStep
    <3> QED
      BY <1>1, <1>2, <1>6, <2>2, <2>4, <3>3, <3>4, <3>7, <3>8, OneLine
  <2> QED
    BY <2>5, <2>6
<1> QED
  BY <1>4, <1>7, <1>8

\* The end of a connection, for those who are on it.
LEMMA DownDialogue ==
    ASSUME SpoolInv, DialogueInv, NEW c \in Conns, UNCHANGED <<order, sender, kept>>,
           link' = [link EXCEPT ![c] = "down"], wire' = [wire EXCEPT ![c] = <<>>],
           acks' = [acks EXCEPT ![c] = <<>>],
           UNCHANGED rcv \/ rcv' = [rcv EXCEPT ![c].pc = "dead"]
    PROVE  DialogueInv'
<1>1. LineTypes /\ rcv \in [Conns -> Receivers]
  BY DEF DialogueInv, SpoolInv, SoloInv, SpoolTypes
<1>2. PICK j \in Jobs, a \in 1 .. MaxAttempts : c = <<j, a>>
  BY DEF Conns
<1>3. /\ link'[c] = "down" /\ wire'[c] = <<>> /\ acks'[c] = <<>>
      /\ \A d \in Conns \ {c} :
           link'[d] = link[d] /\ wire'[d] = wire[d] /\ acks'[d] = acks[d] /\ rcv'[d] = rcv[d]
  BY <1>1 DEF LineTypes
<1>4. rcv'[c] = rcv[c] \/ rcv'[c] = [rcv[c] EXCEPT !.pc = "dead"]
  BY <1>1
<1>5. rcv[c] \in Receivers
  BY <1>1
<1>6. rcv'[c].pc \in {rcv[c].pc, "dead"} /\ (rcv'[c] = rcv[c] \/ rcv'[c].pc = "dead")
  BY <1>4, <1>5 DEF Receivers
<1>7. LineTypes'
  <2>1. <<>> \in Seq(Forms) /\ <<>> \in Seq({"yes", "no"})
    OBVIOUS
  <2> QED
    BY <1>1, <2>1 DEF LineTypes
<1>8. Dialogue(c)'
  <2>1. CASE rcv'[c] = rcv[c]
    BY <1>3, <2>1, StaysPlaced DEF DialogueInv
  <2>2. CASE rcv'[c].pc = "dead"
    BY <2>2 DEF Dialogue, Stopped
  <2> QED
    BY <1>6, <2>1, <2>2
<1>9. InStep(j) /\ Told(j) /\ Unused(j)
  BY DEF DialogueInv
<1>10. Conn(j)' = Conn(j) /\ Messages' = Messages
  BY SameOrder DEF Conn
<1>11. InStep(j)' /\ Told(j)'
  <2>1. CASE c = Conn(j)
    <3>1. InStep(j)'
      BY <1>3, <1>9, <1>10, <2>1 DEF InStep
    <3>2. Accounted(c) => Accounted(c)'
      <4>1. \A f : Needed(f)' = Needed(f)
        BY SameOrder
      <4>2. rcv'[c].pc \in {rcv[c].pc, "dead"} /\ rcv'[c].files = rcv[c].files
            /\ rcv'[c].control = rcv[c].control /\ rcv'[c].discard = rcv[c].discard
            /\ rcv'[c].refused = rcv[c].refused
        BY <1>4, <1>5 DEF Receivers
      <4>3. Emptied(rcv[c]) => Emptied(rcv[c])'
        BY <4>2 DEF Emptied
      <4>4. Pending(rcv[c]) => Pending(rcv[c])'
        BY <4>1, <4>2 DEF Pending, Whole
      <4> QED
        BY <4>2, <4>3, <4>4 DEF Accounted
    <3>3. Told(j)'
      BY <1>3, <1>6, <1>9, <1>10, <2>1, <3>2 DEF Told, Settled
    <3> QED
      BY <3>1, <3>3
  <2>2. CASE c # Conn(j)
    <3>1. PICK d : d = Conn(j)
      OBVIOUS
    <3>2. sender[j].attempt \in 1 .. MaxAttempts => d \in Conns \ {c}
      BY <2>2, <3>1 DEF Conn, Conns
    <3> QED
      BY <1>3, <1>9, <1>10, <3>1, <3>2, StaysInStep
  <2> QED
    BY <2>1, <2>2
<1>12. Unused(j)'
  <2> SUFFICES ASSUME NEW b \in 1 .. MaxAttempts, b > sender[j].attempt
               PROVE  wire'[<<j, b>>] = <<>> /\ acks'[<<j, b>>] = <<>>
    BY DEF Unused
  <2>1. <<j, b>> \in Conns /\ wire[<<j, b>>] = <<>> /\ acks[<<j, b>>] = <<>>
    BY <1>9 DEF Unused, Conns
  <2> QED
    BY <1>3, <2>1
<1> QED
  BY <1>2, <1>3, <1>7, <1>8, <1>11, <1>12, OneLine

LEMMA DialogueStays ==
    ASSUME DialogueInv, UNCHANGED <<order, sender, link, wire, acks, rcv, kept>>
    PROVE  DialogueInv'
<1>1. LineTypes'
  BY DEF DialogueInv, LineTypes
<1>2. ASSUME NEW c \in Conns PROVE Dialogue(c)'
  BY StaysPlaced DEF DialogueInv
<1>3. ASSUME NEW j \in Jobs PROVE InStep(j)' /\ Told(j)' /\ Unused(j)'
  <2>1. PICK d : d = Conn(j)
    OBVIOUS
  <2>2. Conn(j)' = d
    BY <2>1 DEF Conn
  <2>3. InStep(j)' /\ Told(j)'
    BY <2>1, <2>2, StaysInStep DEF DialogueInv
  <2>4. Unused(j)'
    BY DEF DialogueInv, Unused
  <2> QED
    BY <2>3, <2>4
<1> QED
  BY <1>1, <1>2, <1>3 DEF DialogueInv

LEMMA InitDialogue == TransferInit => DialogueInv
<1> SUFFICES ASSUME TransferInit PROVE DialogueInv
  OBVIOUS
<1>1. LineTypes
  <2>1. <<>> \in Seq(Forms) /\ <<>> \in Seq({"yes", "no"})
    OBVIOUS
  <2> QED
    BY <2>1 DEF TransferInit, LineTypes
<1>2. \A c \in Conns : Dialogue(c)
  BY AbsentFields DEF TransferInit, Dialogue, Stopped
<1>3. ASSUME NEW j \in Jobs PROVE InStep(j) /\ Told(j) /\ Unused(j)
  <2>1. sender[j].state = "idle"
    BY DEF TransferInit
  <2>2. \A a \in 1 .. MaxAttempts : <<j, a>> \in Conns
    BY DEF Conns
  <2> QED
    BY <2>1, <2>2 DEF TransferInit, InStep, Told, Unused
<1> QED
  BY <1>1, <1>2, <1>3 DEF DialogueInv

LEMMA StepDialogue == SpoolInv /\ DialogueInv /\ [TransferNext]_vars => DialogueInv'
<1> SUFFICES ASSUME SpoolInv, DialogueInv, [TransferNext]_vars PROVE DialogueInv'
  OBVIOUS
<1>1. CASE UNCHANGED vars
  BY <1>1, DialogueStays DEF vars
<1>2. ASSUME NEW j \in Jobs, SenderStep(j) \/ SendCut(j) \/ TimesOut(j)
      PROVE  DialogueInv'
  <2>1. CASE Connect(j)
    BY <2>1, ConnectDialogue
  <2>2. CASE Send(j) \/ SendCut(j)
    BY <2>2, SendDialogue
  <2>3. CASE GetAck(j)
    BY <2>3, AnswerDialogue
  <2>4. CASE NoAck(j) \/ TimesOut(j)
    <3>1. /\ sender[j].state \in {"send", "wait"} /\ SendFails(j)
          /\ UNCHANGED <<order, rcv, kept, wire, acks>> /\ LineTypes
      BY <2>4 DEF NoAck, TimesOut, DialogueInv
    <3>2. Conn(j) \in Conns
      BY <3>1 DEF DialogueInv, InStep, Conn, Conns
    <3>3. LineTypes'
      BY <3>1, <3>2, ClosedLink DEF SendFails, LineTypes
    <3> QED
      BY <3>1, <3>3, GivesUp
  <2> QED
    BY <1>2, <2>1, <2>2, <2>3, <2>4 DEF SenderStep
<1>3. ASSUME NEW c \in Conns, ReceiverStep(c) \/ Break(c) \/ ReceiverDies(c)
      PROVE  DialogueInv'
  <2>1. CASE ReceiverStep(c)
    BY <2>1, ReceiverDialogue
  <2>2. CASE Break(c)
    BY <2>2, DownDialogue DEF Break
  <2>3. CASE ReceiverDies(c)
    BY <2>3, DownDialogue DEF ReceiverDies, Dies
  <2> QED
    BY <1>3, <2>1, <2>2, <2>3
<1>4. ASSUME NEW n \in Numbers, LprmIncoming(n) \/ RemoveStale(n) \/ Serve(n)
      PROVE  DialogueInv'
  <2>1. CASE LprmIncoming(n)
    <3>1. PICK c \in Conns : c = ticket[n].pid
      BY <2>1 DEF LprmIncoming, SpoolInv, NumberInv
    <3> QED
      BY <2>1, <3>1, DownDialogue DEF LprmIncoming, Dies
  <2>2. CASE RemoveStale(n) \/ Serve(n)
    BY <2>2, DialogueStays DEF RemoveStale, Serve
  <2> QED
    BY <1>4, <2>1, <2>2
<1> QED
  BY <1>1, <1>2, <1>3, <1>4 DEF TransferNext

(***************************************************************************)
(* A job whose sender was told that it arrived (and which a forwarding     *)
(* queue then removes) is in the queue, or all of it has come and its      *)
(* receiver has still to check it, or to write the ticket of a job that is *)
(* too large: an answer is only sent for what has come, and with the data  *)
(* files first, in a block or with a second job behind it, only after      *)
(* Check_for_missing_files().  The one exception is the code's own: a      *)
(* block with no data file under Max_job_size is removed and answered with *)
(* a 0.  As long as the transfers do not overlap it is so after any        *)
(* breaks, cuts, timeouts and deaths.                                      *)
(***************************************************************************)
THEOREM AckedJobsAreKept ==
    ASSUME OneAtATime PROVE TransferSpec => []AckedIsKept
<1>1. TransferInit => SpoolInv /\ DialogueInv
  BY InitSpool, InitDialogue
<1>2. SpoolInv /\ DialogueInv /\ [TransferNext]_vars => (SpoolInv /\ DialogueInv)'
  BY StepSpool, StepDialogue
<1>3. SpoolInv /\ DialogueInv => AckedIsKept
  <2> SUFFICES ASSUME DialogueInv, NEW j \in Jobs, sender[j].state = "sent"
               PROVE  \E a \in 1 .. MaxAttempts :
                        LET r == rcv[<<j, a>>] IN
                        \/ kept[<<j, a>>] > 0
                        \/ order # "block" /\ r.discard /\ r.pc # "ended"
                        \/ order = "block" /\ r.discard /\ r.files = {}
                        \/ /\ order \in {"control", "pair"}
                           /\ (Whole(r) /\ r.pc # "ended") \/ r.refused
    BY DEF AckedIsKept
  <2>1. sender[j].attempt \in 1 .. MaxAttempts /\ Accounted(<<j, sender[j].attempt>>)
    BY DEF DialogueInv, Told, Conn
  <2> QED
    BY <2>1 DEF Accounted, Emptied, Pending
<1> QED
  BY <1>1, <1>2, <1>3, PTL DEF TransferSpec

=============================================================================

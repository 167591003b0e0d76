---------------------------- MODULE JobTransfer ----------------------------
(***************************************************************************)
(* The transfer of a job to lpd: Send_job() of sendjob.c on one side (run  *)
(* by lpr or by the worker of a forwarding queue), Receive_job() and       *)
(* Receive_block_job() of lpd_rcvjob.c on the other, over a connection     *)
(* that can break, with the tickets the receivers make in one spool        *)
(* directory.                                                              *)
(*                                                                         *)
(* An attempt to send a job is a connection, and every connection has a    *)
(* receiver process of its own.  A message is "whole", "unterminated" (the *)
(* bytes of a file without the 0 byte that follows them) or "partial"; its *)
(* meaning follows from its position.  A ticket is a name in the spool     *)
(* directory; the file behind it is identified by who created it, because  *)
(* a name can be unlinked and created again while a descriptor is open.    *)
(*                                                                         *)
(* Abstractions: of sizes only which file, if any, takes a job over        *)
(* Max_job_size; of the decisions of permissions, filters, free space and  *)
(* sp_disabled that they may go either way; Fifo is off; the user filter   *)
(* of lpr and its standard input, after which no answer is read, are left  *)
(* out.                                                                    *)
(***************************************************************************)
EXTENDS Naturals, Sequences, FiniteSets

CONSTANTS Jobs,         \* jobs to send
          MaxAttempts,  \* bound: connections made for a job
          DataFiles,    \* data files of a job
          Orders,       \* how jobs are sent: "control" file or "data" files
                        \* first, "block", or a "pair" of jobs at once
          MaxNumber,    \* max in Find_non_colliding_job_number()
          DiscardLarge, \* Discard_large_jobs_DYN
          QuickRetry,   \* whether an attempt can begin before the receiver
                        \* of the one before it has ended
          MaxFaults,    \* bound: breaks, cuts, timeouts, kills together
          Nobody        \* not a connection

ASSUME AttemptAssumption == MaxAttempts \in Nat /\ DataFiles \in Nat \ {0}
ASSUME NumberAssumption == MaxNumber \in Nat \ {0} /\ MaxFaults \in Nat
ASSUME OrderAssumption == Orders \subseteq {"control", "data", "block", "pair"}
ASSUME FlagAssumption == DiscardLarge \in BOOLEAN /\ QuickRetry \in BOOLEAN

Conns == Jobs \X (1 .. MaxAttempts)
Numbers == 0 .. MaxNumber
ASSUME NobodyAssumption == Nobody \notin Conns \cup Numbers

VARIABLES
    order,     \* how the jobs are sent
    large,     \* the file that takes the job over Max_job_size, 0 for none
    sender,    \* Send_job() for each job
    link,      \* each connection, seen from the receiver
    wire,      \* sent and not yet read
    acks,      \* answers not yet read
    rcv,       \* the receiver of each connection
    ticket,    \* the job tickets of the spool directory, by number
    lockOf,    \* who has a ticket file locked
    disk,      \* data files under the names made from a number
    announced, \* receivers that wrote the queue name to lpd
    kept,      \* history: tickets a receiver has put into the queue
    faults     \* faults so far

spoolVars == <<ticket, lockOf, disk>>
vars == <<order, large, sender, link, wire, acks, rcv, ticket, lockOf, disk,
          announced, kept, faults>>

-----------------------------------------------------------------------------
(* The messages of a transfer                                              *)

Files(n) == [i \in 1 .. n |-> "data"]

\* The files in the order they are sent.
Script ==
    CASE order = "data" -> Files(DataFiles) \o <<"control">>
      [] order = "pair" -> <<"control", "data", "control", "data">>
      [] OTHER          -> <<"control">> \o Files(DataFiles)

\* The request line, and for every file its line and its bytes; a block is
\* one file after the request.
Messages == IF order = "block" THEN 2 ELSE 1 + 2 * Len(Script)
FileOf(k) == k \div 2
IsBody(k) == IF order = "block" THEN k = 2 ELSE k > 1 /\ k % 2 = 1

\* The data files that control file f names.
Needed(f) ==
    IF order = "pair" THEN {f + 1}
    ELSE {i \in 1 .. Len(Script) : Script[i] = "data"}

\* The job is not over Max_job_size with file i.
InSize(i) == large = 0 \/ i < large

-----------------------------------------------------------------------------
Absent == [pc |-> "absent", at |-> 1, files |-> {}, control |-> 0, num |-> Nobody,
           try |-> 1, empty |-> FALSE, file |-> Nobody, locked |-> FALSE,
           discard |-> FALSE, next |-> "ack", error |-> FALSE, refused |-> FALSE]

NoTicket == [state |-> "none", made |-> Nobody, job |-> Nobody, pid |-> Nobody]

TransferInit ==
    /\ order \in Orders
    /\ large \in 0 .. Len(Script)
    /\ sender = [j \in Jobs |-> [state |-> "idle", attempt |-> 0, pos |-> 1]]
    /\ link = [c \in Conns |-> "none"]
    /\ wire = [c \in Conns |-> <<>>]
    /\ acks = [c \in Conns |-> <<>>]
    /\ rcv = [c \in Conns |-> Absent]
    /\ ticket = [n \in Numbers |-> NoTicket]
    /\ lockOf = [n \in Numbers |-> Nobody]
    /\ disk = [n \in Numbers |-> {}]
    /\ announced = {}
    /\ kept = [c \in Conns |-> 0]
    /\ faults = 0

Fault == faults < MaxFaults /\ faults' = faults + 1
NoFault == faults' = faults
Stopped(c) == rcv[c].pc \in {"absent", "ended", "dead"}

-----------------------------------------------------------------------------
(* Send_job()                                                              *)

Conn(j) == <<j, sender[j].attempt>>

\* The status of Send_job() is not 0: the connection is closed, and the job
\* is tried again as long as Send_try allows.
Give(j) ==
    sender' = [sender EXCEPT ![j] =
                 [state |-> IF @.attempt < MaxAttempts THEN "idle" ELSE "gaveup",
                  attempt |-> @.attempt, pos |-> 1]]

Closed(c) == [link EXCEPT ![c] = IF @ = "open" THEN "closed" ELSE @]

SendFails(j) == Give(j) /\ link' = Closed(Conn(j))

Connect(j) ==
    /\ sender[j].state = "idle"
    /\ sender[j].attempt < MaxAttempts
    /\ sender[j].attempt > 0 => QuickRetry \/ Stopped(Conn(j))
    /\ LET c == <<j, sender[j].attempt + 1>> IN
         /\ sender' = [sender EXCEPT ![j] =
                         [state |-> "send", attempt |-> c[2], pos |-> 1]]
         /\ link' = [link EXCEPT ![c] = "open"]
         /\ rcv' = [rcv EXCEPT ![c].pc = "request"]
    /\ NoFault
    /\ UNCHANGED <<order, large, wire, acks, spoolVars, announced, kept>>

\* Link_send() or Link_copy() writes; a write to a broken connection fails.
Send(j) ==
    /\ sender[j].state = "send"
    /\ IF link[Conn(j)] = "open"
       THEN /\ wire' = [wire EXCEPT ![Conn(j)] = Append(@, "whole")]
            /\ sender' = [sender EXCEPT ![j].state = "wait"]
            /\ UNCHANGED link
       ELSE SendFails(j) /\ UNCHANGED wire
    /\ NoFault
    /\ UNCHANGED <<order, large, acks, rcv, spoolVars, announced, kept>>

\* Link_copy() cannot read or write to the end of a file, or the sender is
\* killed in the middle of it.  A data file and its 0 are two writes.
SendCut(j) ==
    /\ sender[j].state = "send"
    /\ IsBody(sender[j].pos)
    /\ link[Conn(j)] = "open"
    /\ Fault
    /\ \E form \in {"partial", "unterminated"} :
         /\ form = "unterminated" =>
              order = "block" \/ Script[FileOf(sender[j].pos)] = "data"
         /\ wire' = [wire EXCEPT ![Conn(j)] = Append(@, form)]
    /\ SendFails(j)
    /\ UNCHANGED <<order, large, acks, rcv, spoolVars, announced, kept>>

\* The answer: on a 0 the next message, or the job is sent and, on a
\* forwarding queue, removed.
GetAck(j) ==
    LET c == Conn(j) IN
    /\ sender[j].state = "wait"
    /\ acks[c] # <<>>
    /\ acks' = [acks EXCEPT ![c] = Tail(@)]
    /\ CASE Head(acks[c]) = "no" -> SendFails(j)
         [] Head(acks[c]) = "yes" /\ sender[j].pos < Messages ->
              /\ sender' = [sender EXCEPT ![j].state = "send", ![j].pos = @ + 1]
              /\ UNCHANGED link
         [] OTHER -> /\ sender' = [sender EXCEPT ![j].state = "sent"]
                     /\ link' = Closed(c)
    /\ NoFault
    /\ UNCHANGED <<order, large, wire, rcv, spoolVars, announced, kept>>

\* The read of the answer ends in an error or an end of file.
NoAck(j) ==
    /\ sender[j].state = "wait"
    /\ acks[Conn(j)] = <<>>
    /\ link[Conn(j)] = "down" \/ Stopped(Conn(j))
    /\ SendFails(j)
    /\ NoFault
    /\ UNCHANGED <<order, large, wire, acks, rcv, spoolVars, announced, kept>>

\* The answer does not come within transfer_timeout.
TimesOut(j) ==
    /\ sender[j].state = "wait"
    /\ Fault
    /\ SendFails(j)
    /\ UNCHANGED <<order, large, wire, acks, rcv, spoolVars, announced, kept>>

\* What is on its way in either direction is lost with the connection.
Break(c) ==
    /\ link[c] \in {"open", "closed"}
    /\ Fault
    /\ link' = [link EXCEPT ![c] = "down"]
    /\ wire' = [wire EXCEPT ![c] = <<>>]
    /\ acks' = [acks EXCEPT ![c] = <<>>]
    /\ UNCHANGED <<order, large, sender, rcv, spoolVars, announced, kept>>

SenderStep(j) == Connect(j) \/ Send(j) \/ GetAck(j) \/ NoAck(j)

-----------------------------------------------------------------------------
(* Receive_job() and Receive_block_job()                                   *)

Become(c, r) == rcv' = [rcv EXCEPT ![c] = r]

\* Link_send() of an answer: it arrives, unless the sender has gone; then
\* the write may succeed (into the buffers of the kernel) or fail.
Answer(c, bytes, ok) ==
    IF link[c] = "open"
    THEN ok /\ acks' = [acks EXCEPT ![c] = @ \o bytes]
    ELSE UNCHANGED acks

AtEof(c) == wire[c] = <<>> /\ link[c] \in {"closed", "down"}
Take(c) == wire[c] # <<>> /\ wire' = [wire EXCEPT ![c] = Tail(@)]

Failed(r) == [r EXCEPT !.pc = "error"]

\* The request line: the queue cannot be set up or is disabled, or the
\* answer cannot be sent.
TakeRequest(c) ==
    /\ rcv[c].pc = "request" /\ order # "block"
    /\ Take(c)
    /\ \/ Become(c, Failed(rcv[c])) /\ UNCHANGED acks
       \/ \E ok \in BOOLEAN :
            /\ Answer(c, <<"yes">>, ok)
            /\ Become(c, IF ok THEN [rcv[c] EXCEPT !.at = 2, !.pc = "line"]
                              ELSE Failed(rcv[c]))
    /\ NoFault
    /\ UNCHANGED <<order, large, sender, link, spoolVars, announced, kept>>

\* The request of a block has its size: it may be too large, or there is no
\* space.  One that is to be discarded is read all the same.
TakeBlockRequest(c) ==
    LET r == [rcv[c] EXCEPT !.at = 2, !.pc = "body", !.discard = large # 0] IN
    /\ rcv[c].pc = "request" /\ order = "block"
    /\ Take(c)
    /\ \/ Become(c, Failed(rcv[c])) /\ UNCHANGED acks
       \/ /\ large # 0 => DiscardLarge
          /\ \E ok \in BOOLEAN :
               Answer(c, <<"yes">>, ok) /\ Become(c, IF ok THEN r ELSE Failed(rcv[c]))
    /\ NoFault
    /\ UNCHANGED <<order, large, sender, link, spoolVars, announced, kept>>

\* The connection ended before a request was read.
NoRequest(c) ==
    /\ rcv[c].pc = "request"
    /\ AtEof(c)
    /\ Become(c, [rcv[c] EXCEPT !.pc = "ended"])
    /\ NoFault
    /\ UNCHANGED <<order, large, sender, link, wire, acks, spoolVars, announced, kept>>

\* The line of a file: Max_job_size, then Check_space().
TakeLine(c) ==
    LET tooLarge == large = FileOf(rcv[c].at)
        r == [rcv[c] EXCEPT !.at = @ + 1, !.pc = "body", !.discard = @ \/ tooLarge]
    IN
    /\ rcv[c].pc = "line"
    /\ Take(c)
    /\ \/ ~r.discard /\ Become(c, Failed(rcv[c])) /\ UNCHANGED acks
       \/ tooLarge /\ ~DiscardLarge /\ Become(c, Failed(rcv[c])) /\ UNCHANGED acks
       \/ /\ tooLarge => DiscardLarge
          /\ \E ok \in BOOLEAN : Answer(c, <<"yes">>, ok) /\ Become(c, IF ok THEN r ELSE Failed(r))
    /\ NoFault
    /\ UNCHANGED <<order, large, sender, link, spoolVars, announced, kept>>

\* Mutant of EndOfInput: a failed read is not taken as the end.
EndOfInputClosed(c) ==
    /\ rcv[c].pc = "line"
    /\ wire[c] = <<>> /\ link[c] = "closed"
    /\ Become(c, [rcv[c] EXCEPT !.pc = "end"])
    /\ NoFault
    /\ UNCHANGED <<order, large, sender, link, wire, acks, spoolVars, announced, kept>>

\* "treat like normal closing of connection"
EndOfInput(c) ==
    /\ rcv[c].pc = "line"
    /\ AtEof(c)
    /\ Become(c, [rcv[c] EXCEPT !.pc = "end"])
    /\ NoFault
    /\ UNCHANGED <<order, large, sender, link, wire, acks, spoolVars, announced, kept>>

\* Link_file_read(): an end of file where the last 0 should be is accepted.
GoodBody(c) == Take(c) /\ Head(wire[c]) \in {"whole", "unterminated"}

\* A data file that is discarded goes to /dev/null and is not listed.  A
\* second control file ends the job that is in progress.
TakeBody(c) ==
    LET f == FileOf(rcv[c].at)
        got == IF Script[f] = "data"
               THEN [rcv[c] EXCEPT !.pc = "ack",
                                   !.files = IF rcv[c].discard THEN @ ELSE @ \cup {f}]
               ELSE IF rcv[c].control = 0
               THEN [rcv[c] EXCEPT !.pc = "open", !.control = f]
               ELSE [rcv[c] EXCEPT !.pc = IF rcv[c].discard THEN "toolarge" ELSE "check",
                                   !.next = "open"]
    IN
    /\ rcv[c].pc = "body" /\ order # "block"
    /\ GoodBody(c)
    /\ Become(c, got)
    /\ NoFault
    /\ UNCHANGED <<order, large, sender, link, acks, spoolVars, announced, kept>>

\* Scan_block_file() discards from the file that is too large on.
TakeBlock(c) ==
    /\ rcv[c].pc = "body" /\ order = "block"
    /\ GoodBody(c)
    /\ Become(c, [rcv[c] EXCEPT !.pc = "open", !.control = 1,
                                !.files = {i \in Needed(1) : InSize(i)}])
    /\ NoFault
    /\ UNCHANGED <<order, large, sender, link, acks, spoolVars, announced, kept>>

BodyFails(c) ==
    /\ rcv[c].pc = "body"
    /\ \/ Take(c) /\ Head(wire[c]) = "partial"
       \/ AtEof(c) /\ UNCHANGED wire
    /\ Become(c, Failed(rcv[c]))
    /\ NoFault
    /\ UNCHANGED <<order, large, sender, link, acks, spoolVars, announced, kept>>

-----------------------------------------------------------------------------
(* Find_non_colliding_job_number() and Setup_temporary_job_ticket_file()   *)

\* Checkwrite() opens the file, creating it if need be, and reads its size.
OpenTicket(c) ==
    LET n == rcv[c].try
        new == ticket[n].state = "none"
        id == <<c, rcv[c].control>>
    IN
    /\ rcv[c].pc = "open"
    /\ ticket' = IF new THEN [ticket EXCEPT ![n].state = "empty", ![n].made = id] ELSE ticket
    /\ Become(c, [rcv[c] EXCEPT !.pc = "lock",
                    !.empty = ticket[n].state \in {"none", "empty"},
                    !.file = IF new THEN id ELSE ticket[n].made])
    /\ NoFault
    /\ UNCHANGED <<order, large, sender, link, wire, acks, lockOf, disk, announced, kept>>

\* The name still leads to the file that was opened.
SameFile(r, n) == ticket[n].state # "none" /\ ticket[n].made = r.file

NextNumber(n) == IF n = MaxNumber THEN 0 ELSE n + 1
FirstNumber == 1

\* The lock is had and the size that was read before is 0: the ticket is
\* written and marked as incoming.  With data files already listed the job
\* is finished under the lock, otherwise the lock is given up and the job is
\* in progress.  If the number cannot be had the next is tried, until all
\* have been.
LockTicket(c) ==
    LET r == rcv[c]
        n == r.try
        free == SameFile(r, n) => lockOf[n] = Nobody
        hold == order = "data" /\ r.files # {}
    IN
    /\ r.pc = "lock"
    /\ IF free /\ r.empty
       THEN /\ ticket' = IF SameFile(r, n)
                         THEN [ticket EXCEPT ![n].state = "incoming", ![n].pid = c,
                                         ![n].job = <<c, r.control>>]
                         ELSE ticket
            /\ lockOf' = IF SameFile(r, n) /\ hold THEN [lockOf EXCEPT ![n] = c] ELSE lockOf
            /\ Become(c, [r EXCEPT !.num = n, !.locked = hold, !.next = "ack",
                            !.pc = CASE hold /\ r.discard  -> "toolarge"
                                     [] hold /\ ~r.discard -> "check"
                                     [] order = "block"    -> "blockdata"
                                     [] OTHER              -> "ack"])
       ELSE /\ Become(c, IF NextNumber(n) = FirstNumber THEN Failed(r)
                         ELSE [r EXCEPT !.try = NextNumber(n), !.pc = "open"])
            /\ UNCHANGED <<ticket, lockOf>>
    /\ NoFault
    /\ UNCHANGED <<order, large, sender, link, wire, acks, disk, announced, kept>>

\* unlink() of a name, whatever file it leads to now.
Unlink(n) ==
    /\ ticket' = [ticket EXCEPT ![n] = NoTicket]
    /\ lockOf' = [lockOf EXCEPT ![n] = Nobody]
    /\ disk' = [disk EXCEPT ![n] = {}]

\* Mutant of BlockData: the answer is sent before the check.
BlockDataUnchecked(c) ==
    /\ rcv[c].pc = "blockdata"
    /\ Become(c, [rcv[c] EXCEPT !.pc = "lastack"])
    /\ NoFault
    /\ UNCHANGED <<order, large, sender, link, wire, acks, spoolVars, announced, kept>>

\* Scan_block_file() comes to the end of the block.  With no data file left
\* of a job that is too large, the job is removed and the status is 0.
BlockData(c) ==
    LET r == rcv[c]
        nothing == r.discard /\ r.files = {}
    IN
    /\ r.pc = "blockdata"
    /\ Become(c, [r EXCEPT !.next = "lastack",
                    !.pc = CASE nothing                 -> "lastack"
                             [] r.discard /\ ~nothing   -> "toolarge"
                             [] OTHER                   -> "check"])
    /\ IF nothing THEN Unlink(r.num) ELSE UNCHANGED spoolVars
    /\ NoFault
    /\ UNCHANGED <<order, large, sender, link, wire, acks, announced, kept>>

-----------------------------------------------------------------------------
(* Check_for_missing_files() and the tickets of discarded jobs             *)

\* Mutant of Whole: only that there are data files is checked.
WholeEnough(r) == r.files # {}

Whole(r) == r.files = Needed(r.control)

\* A data file is missing or there is one too many; or permissions, the
\* incoming control filter or the routing filter refuse the job.
CheckFails(c) ==
    /\ rcv[c].pc = "check"
    /\ Unlink(rcv[c].num)
    /\ Become(c, [rcv[c] EXCEPT !.pc = "error", !.refused = Whole(rcv[c])])
    /\ NoFault
    /\ UNCHANGED <<order, large, sender, link, wire, acks, announced, kept>>

\* The data files get the names made from the job number.
CheckPasses(c) ==
    /\ rcv[c].pc = "check"
    /\ Whole(rcv[c])
    /\ disk' = [disk EXCEPT ![rcv[c].num] =
                 {d \in @ : d[2] \notin rcv[c].files} \cup ({c} \X rcv[c].files)]
    /\ Become(c, [rcv[c] EXCEPT !.pc = "write"])
    /\ NoFault
    /\ UNCHANGED <<order, large, sender, link, wire, acks, ticket, lockOf, announced, kept>>

\* The receiver is done with this job: the files and the job are freed, and
\* the descriptor of the ticket is closed.
Done(r) ==
    IF r.next \in {"open", "ack"}
    THEN [r EXCEPT !.files = {}, !.num = Nobody, !.discard = FALSE, !.locked = FALSE,
                   !.control = IF r.next = "open" THEN FileOf(r.at) ELSE 0,
                   !.try = FirstNumber, !.pc = r.next]
    ELSE [r EXCEPT !.locked = FALSE, !.discard = FALSE, !.pc = r.next]

\* Set_job_ticket_file(): to the open descriptor, or by name.  A name that
\* is not there any more is not an error.
WriteTicket(c) ==
    LET r == rcv[c]
        n == r.num
        found == IF r.locked THEN SameFile(r, n) ELSE ticket[n].state # "none"
    IN
    /\ r.pc \in {"write", "toolarge"}
    /\ ~r.locked => lockOf[n] = Nobody
    /\ IF found
       THEN /\ ticket' = [ticket EXCEPT ![n].pid = Nobody,
                            ![n].job = <<c, r.control>>,
                            ![n].state = IF r.pc = "write" THEN "queued" ELSE "error"]
            /\ kept' = [kept EXCEPT ![c] = @ + 1]
       ELSE UNCHANGED <<ticket, kept>>
    /\ lockOf' = IF lockOf[n] = c THEN [lockOf EXCEPT ![n] = Nobody] ELSE lockOf
    /\ Become(c, Done(r))
    /\ NoFault
    /\ UNCHANGED <<order, large, sender, link, wire, acks, disk, announced>>

-----------------------------------------------------------------------------
(* The end of a file, of the connection and of the receiver                *)

\* "sending 0 ACK transfer done": a failure ends the loop, and nothing else.
SendAck(c) ==
    /\ rcv[c].pc = "ack"
    /\ \E ok \in BOOLEAN :
         /\ Answer(c, <<"yes">>, ok)
         /\ Become(c, IF ok THEN [rcv[c] EXCEPT !.pc = "line", !.at = @ + 1]
                            ELSE [rcv[c] EXCEPT !.pc = "end"])
    /\ NoFault
    /\ UNCHANGED <<order, large, sender, link, wire, spoolVars, announced, kept>>

\* The answer to a block: a failure is an error.
SendLastAck(c) ==
    /\ rcv[c].pc = "lastack"
    /\ \E ok \in BOOLEAN :
         /\ Answer(c, <<"yes">>, ok)
         /\ Become(c, IF ok THEN [rcv[c] EXCEPT !.pc = "close"]
                            ELSE [rcv[c] EXCEPT !.pc = "answer"])
    /\ NoFault
    /\ UNCHANGED <<order, large, sender, link, wire, spoolVars, announced, kept>>

\* Mutant of AtEnd: a job finished earlier is forgotten.
AtEndQuiet(c) ==
    LET r == rcv[c] IN
    /\ r.pc = "end"
    /\ Become(c, [r EXCEPT !.next = "close",
                    !.pc = CASE r.num # Nobody /\ r.discard                  -> "toolarge"
                             [] r.num # Nobody /\ ~r.discard /\ r.files # {} -> "check"
                             [] OTHER                                        -> "ended"])
    /\ NoFault
    /\ UNCHANGED <<order, large, sender, link, wire, acks, spoolVars, announced, kept>>

\* What is left when the connection has ended: a job that is too large gets
\* its ticket, one with data files is checked, a control file alone is left
\* as it is, and data files alone end in a fatal "LOGIC ERROR".
AtEnd(c) ==
    LET r == rcv[c] IN
    /\ r.pc = "end"
    /\ Become(c, [r EXCEPT !.next = "close",
                    !.pc = CASE r.discard /\ r.num # Nobody                    -> "toolarge"
                             [] r.discard /\ r.num = Nobody                    -> "close"
                             [] ~r.discard /\ r.files = {}                     -> "close"
                             [] ~r.discard /\ r.files # {} /\ r.num # Nobody   -> "check"
                             [] OTHER                                          -> "dead"])
    /\ NoFault
    /\ UNCHANGED <<order, large, sender, link, wire, acks, spoolVars, announced, kept>>

\* The queue is named to lpd.
Close(c) ==
    /\ rcv[c].pc = "close"
    /\ announced' = announced \cup {c}
    /\ Become(c, [rcv[c] EXCEPT !.pc = "ended"])
    /\ NoFault
    /\ UNCHANGED <<order, large, sender, link, wire, acks, spoolVars, kept>>

\* On an error the name of the ticket is unlinked, a second time if
\* Check_for_missing_files() has failed.
Error(c) ==
    /\ rcv[c].pc = "error"
    /\ IF rcv[c].num # Nobody THEN Unlink(rcv[c].num) ELSE UNCHANGED spoolVars
    /\ Become(c, [rcv[c] EXCEPT !.pc = "answer"])
    /\ NoFault
    /\ UNCHANGED <<order, large, sender, link, wire, acks, announced, kept>>

\* The message of the error.  Receive_block_job() puts ack before it and counts
\* the bytes with strlen(): when no value was chosen yet, before the block, ack
\* is 0 and nothing is sent.
AnswerError(c) ==
    /\ rcv[c].pc = "answer"
    /\ \E ok \in BOOLEAN, bytes \in {<<"no">>, <<>>} :
         /\ bytes = <<>> => order = "block" /\ rcv[c].at = 1
         /\ Answer(c, bytes, ok)
    /\ Become(c, [rcv[c] EXCEPT !.pc = "ended", !.error = TRUE])
    /\ NoFault
    /\ UNCHANGED <<order, large, sender, link, wire, spoolVars, announced, kept>>

ReceiverStep(c) ==
    \/ TakeRequest(c) \/ TakeBlockRequest(c) \/ NoRequest(c) \/ TakeLine(c)
    \/ EndOfInput(c) \/ TakeBody(c) \/ TakeBlock(c) \/ BodyFails(c)
    \/ OpenTicket(c) \/ LockTicket(c) \/ BlockData(c) \/ CheckFails(c) \/ CheckPasses(c) \/ WriteTicket(c)
    \/ SendAck(c) \/ SendLastAck(c) \/ AtEnd(c) \/ Close(c) \/ Error(c)
    \/ AnswerError(c)

-----------------------------------------------------------------------------
(* Others                                                                  *)

Dies(c) ==
    /\ rcv' = [rcv EXCEPT ![c].pc = "dead"]
    /\ link' = [link EXCEPT ![c] = "down"]
    /\ wire' = [wire EXCEPT ![c] = <<>>]
    /\ acks' = [acks EXCEPT ![c] = <<>>]

ReceiverDies(c) ==
    /\ ~Stopped(c)
    /\ Fault
    /\ Dies(c)
    /\ lockOf' = [n \in Numbers |-> IF lockOf[n] = c THEN Nobody ELSE lockOf[n]]
    /\ UNCHANGED <<order, large, sender, ticket, disk, announced, kept>>

\* lprm of an incoming job: SIGINT to its receiver, and Remove_job().
LprmIncoming(n) ==
    /\ ticket[n].state = "incoming"
    /\ lockOf[n] = Nobody
    /\ ~Stopped(ticket[n].pid)
    /\ Fault
    /\ Dies(ticket[n].pid)
    /\ Unlink(n)
    /\ UNCHANGED <<order, large, sender, announced, kept>>

\* Mutant of RemoveStale: INCOMING_PID is not asked after.
RemoveStaleUnasked(n) ==
    /\ ticket[n].state = "incoming"
    /\ lockOf[n] = Nobody
    /\ Unlink(n)
    /\ NoFault
    /\ UNCHANGED <<order, large, sender, link, wire, acks, rcv, announced, kept>>

\* Remove_done_jobs() of a queue process: "we have a stale incoming job".
RemoveStale(n) ==
    /\ ticket[n].state = "incoming"
    /\ lockOf[n] = Nobody
    /\ Stopped(ticket[n].pid)
    /\ Unlink(n)
    /\ NoFault
    /\ UNCHANGED <<order, large, sender, link, wire, acks, rcv, announced, kept>>

\* A job in the queue is printed or removed.
Serve(n) ==
    /\ ticket[n].state \in {"queued", "error"}
    /\ lockOf[n] = Nobody
    /\ Unlink(n)
    /\ NoFault
    /\ UNCHANGED <<order, large, sender, link, wire, acks, rcv, announced, kept>>

TransferNext ==
    \/ \E j \in Jobs : SenderStep(j) \/ SendCut(j) \/ TimesOut(j)
    \/ \E c \in Conns : ReceiverStep(c) \/ Break(c) \/ ReceiverDies(c)
    \/ \E n \in Numbers : LprmIncoming(n) \/ RemoveStale(n) \/ Serve(n)

\* Send_job() and the receivers are processes that run until they end; the
\* queue process is started by lpd, which is not promised here.
TransferFairness ==
    /\ \A j \in Jobs : WF_vars(SenderStep(j))
    /\ \A c \in Conns : WF_vars(ReceiverStep(c))

TransferSpec == TransferInit /\ [][TransferNext]_vars /\ TransferFairness

-----------------------------------------------------------------------------
(* Properties                                                              *)

ReceiverPc == {"absent", "request", "line", "body", "open", "lock", "blockdata",
               "check", "toolarge", "write", "ack", "lastack", "end", "close",
               "error", "answer", "ended", "dead"}

\* The variables have their types.
TransferTypeOK ==
    /\ order \in Orders /\ large \in 0 .. Len(Script) /\ faults \in 0 .. MaxFaults
    /\ sender \in [Jobs -> [state : {"idle", "send", "wait", "sent", "gaveup"},
                            attempt : 0 .. MaxAttempts, pos : 1 .. Messages]]
    /\ link \in [Conns -> {"none", "open", "closed", "down"}]
    /\ \A c \in Conns : /\ wire[c] \in Seq({"whole", "partial", "unterminated"})
                         /\ acks[c] \in Seq({"yes", "no"})
    /\ rcv \in [Conns -> [pc : ReceiverPc, at : 1 .. Messages + 1,
                          files : SUBSET (1 .. Len(Script)), control : 0 .. Len(Script),
                          num : Numbers \cup {Nobody}, try : Numbers, empty : BOOLEAN,
                          file : (Conns \X (0 .. Len(Script))) \cup {Nobody},
                          locked : BOOLEAN, discard : BOOLEAN,
                          next : {"open", "ack", "lastack", "close"},
                          error : BOOLEAN, refused : BOOLEAN]]
    /\ ticket \in [Numbers -> [state : {"none", "empty", "incoming", "queued", "error"},
                               made : (Conns \X (0 .. Len(Script))) \cup {Nobody},
                               job : (Conns \X (0 .. Len(Script))) \cup {Nobody},
                               pid : Conns \cup {Nobody}]]
    /\ lockOf \in [Numbers -> Conns \cup {Nobody}]
    /\ disk \in [Numbers -> SUBSET (Conns \X (1 .. Len(Script)))]
    /\ announced \subseteq Conns
    /\ kept \in [Conns -> Nat]

\* A job that can be printed has its data files, and they came with it: no
\* break of the connection leaves half a job in the queue, and no receiver
\* gives its files to the ticket of another.
QueuedIsWhole ==
    \A n \in Numbers :
      ticket[n].state = "queued" =>
        disk[n] = {ticket[n].job[1]} \X Needed(ticket[n].job[2])

\* While a receiver has a job number, the ticket of that number is the one it
\* made: no other receiver, queue process or second unlink takes it away.
TicketIsMine ==
    \A c \in Conns :
      /\ ~Stopped(c) /\ rcv[c].num # Nobody
      /\ rcv[c].pc \notin {"error", "answer", "close", "lastack"}
      => /\ ticket[rcv[c].num].pid = c
         /\ ticket[rcv[c].num].state = "incoming"

\* A receiver that has put a job into the queue and ended has told lpd, or
\* has told the sender that the job failed.
KeptIsAnnounced ==
    \A c \in Conns :
      rcv[c].pc = "ended" /\ kept[c] > 0 => c \in announced \/ rcv[c].error

\* The job is somewhere when its sender has deleted it: it has been put into
\* the queue, or a receiver has all of it and has still to check it, which
\* only happens with the control file first.  A job that is too large is
\* "accepted and then discarded": unless it came as a block with no data
\* file under the limit, it leaves a ticket with an error, which a receiver
\* has still to write when the connection has ended.
AckedIsKept ==
    \A j \in Jobs : sender[j].state = "sent" =>
      \E a \in 1 .. MaxAttempts :
        LET r == rcv[<<j, a>>] IN
        \/ kept[<<j, a>>] > 0
        \/ order # "block" /\ r.discard /\ r.pc # "ended"
        \/ order = "block" /\ r.discard /\ r.files = {}
        \/ order \in {"control", "pair"} /\ ((Whole(r) /\ r.pc # "ended") \/ r.refused)

\* Every transfer comes to an end, on both sides, whatever is lost.
TransferEnds ==
    <>[](/\ \A j \in Jobs : sender[j].state \in {"sent", "gaveup"}
         /\ \A c \in Conns : Stopped(c))

=============================================================================

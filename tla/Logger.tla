------------------------------ MODULE Logger ------------------------------
(***************************************************************************)
(* The logger process of lpd (common/lpd_logger.c) between the processes   *)
(* that change the queues and the host of logger_destination.              *)
(*                                                                         *)
(* Every change of a queue is followed by a message into one pipe, whose   *)
(* reader is the logger.  The logger keeps a connection to the remote      *)
(* host; when it opens one it writes the state of all queues, the dump,    *)
(* into a temporary file, and what it reads from the pipe behind that.     *)
(* The file goes to the host piece by piece.  Without a connection what    *)
(* comes from the pipe is thrown away: the next dump tells it anyway.      *)
(*                                                                         *)
(* An item is something whose state is logged, a job or the control file   *)
(* of a queue.  Who writes a ticket he has open keeps its lock until he    *)
(* has logged the change; who opens it for this one change gives the lock  *)
(* up before, and control files are written without any lock: then several *)
(* writers have changes to log, and log them in any order.  A line on its  *)
(* way is cut in two pieces, so that a read or a write can end inside it;  *)
(* the newline is in the second one.  A state is the number of changes the *)
(* item has seen.                                                          *)
(***************************************************************************)
EXTENDS Connection, Sequences, SequencesExt

CONSTANTS Items,       \* how many items there are, 1..Items
          Locked,      \* those whose writers all log before they unlock
          MaxChanges,  \* bound: changes of all items
          PipeSize,    \* pieces the pipe holds
          WireSize,    \* pieces the connection holds
          Chunk,       \* pieces one read of the temporary file returns
          MaxFaults    \* bound: faults of the remote host and the logger

VARIABLES queue,   \* the state of each item, as the files in the spool tell it
          pending, \* the changes the item's writers have yet to log
          said,    \* history: the state the last message about it gave
          pipe,    \* pieces of lines on their way to the logger
          closed,  \* lpd and all its servers are gone
          logger,  \* the logger process
          remote,  \* the host of logger_destination
          torn,    \* a buffer of an old connection went to a new one
          faults

ASSUME LoggerAssumption ==
    Items \in Nat /\ Chunk \in Nat /\ Locked \subseteq 1 .. Items

ItemSet == 1 .. Items
End == 0

vars == <<conf, call, last, queue, pending, said, pipe, closed, logger, remote,
          torn, faults>>
daemon == <<queue, pending, said, pipe, closed>>

Line(i, v) == << <<i, v, 1>>, <<i, v, 2>> >>

\* fd is writefd: "up", or why there is none: "lost" (-2) or "failed" (-1).
\* due: logger_timeout seconds are over since the last attempt.
NewLogger == [at |-> "top", input |-> TRUE, out |-> <<>>, file |-> <<>>,
              read |-> FALSE, fd |-> "lost", due |-> FALSE, next |-> 1]

\* known: what the host has heard of each item over this connection, 0 nothing.
NewRemote(state, link) ==
    [state |-> state, link |-> link, wire |-> <<>>, line |-> <<>>,
     known |-> [i \in ItemSet |-> 0], end |-> FALSE]

Init ==
    /\ conf \in Settings
    /\ call = NoCall
    /\ last = 0
    /\ queue = [i \in ItemSet |-> 1]
    /\ pending = [i \in ItemSet |-> {}]
    /\ said = [i \in ItemSet |-> 1]
    /\ pipe = <<>>
    /\ closed = FALSE
    /\ logger = NewLogger
    /\ remote = NewRemote("up", "none")
    /\ torn = FALSE
    /\ faults = 0

------------------------------------------------------------------------------
(* lpd and its servers.                                                     *)

\* A ticket or a control file is written.
Change(i) ==
    /\ ~closed
    /\ i \in Locked => pending[i] = {}
    /\ FoldSet(LAMBDA k, n : n + queue[k], 0, ItemSet) < Items + MaxChanges
    /\ queue' = [queue EXCEPT ![i] = @ + 1]
    /\ pending' = [pending EXCEPT ![i] = @ \cup {queue[i] + 1}]
    /\ UNCHANGED <<conf, call, last, said, pipe, closed, logger, remote, torn,
                   faults>>

\* Then the message is, with what this writer wrote, whoever wrote since; the
\* write waits while the pipe is full.
Log(i) ==
    /\ Len(pipe) + 2 <= PipeSize
    /\ \E v \in pending[i] :
          /\ pipe' = pipe \o Line(i, v)
          /\ pending' = [pending EXCEPT ![i] = @ \ {v}]
          /\ said' = [said EXCEPT ![i] = v]
    /\ UNCHANGED <<conf, call, last, queue, closed, logger, remote, torn, faults>>

\* The last of them ends.
Hangup ==
    /\ ~closed /\ \A i \in ItemSet : pending[i] = {}
    /\ closed' = TRUE
    /\ UNCHANGED <<conf, call, last, queue, pending, said, pipe, logger, remote,
                   torn, faults>>

\* lpd starts a logger again that died, on the same pipe.
Restart ==
    /\ logger.at = "dead" /\ ~closed
    /\ logger' = NewLogger
    /\ UNCHANGED <<conf, call, last, daemon, remote, torn, faults>>

------------------------------------------------------------------------------
(* The logger.                                                              *)

Take(n, s) == SubSeq(s, 1, IF n < Len(s) THEN n ELSE Len(s))
Drop(n, s) == SubSeq(s, n + 1, Len(s))

\* The next piece of the temporary file is read when the buffer is empty; a
\* short read is the end of the file, which is then truncated.
Filled ==
    IF logger.out = <<>> /\ logger.read
    THEN [logger EXCEPT !.out  = Take(Chunk, logger.file),
                        !.file = Drop(Chunk, logger.file),
                        !.read = Len(logger.file) >= Chunk]
    ELSE logger

\* The top of the loop: fill the buffer, leave, open a connection, or wait.
Top ==
    /\ logger.at = "top"
    /\ \/ /\ ~Filled.input /\ Filled.out = <<>>
          /\ logger' = [Filled EXCEPT !.at = "exit"]
          /\ UNCHANGED <<conf, call, last>>
       \/ /\ Filled.input \/ Filled.out # <<>>
          /\ Filled.fd = "up" \/ (Filled.fd = "failed" /\ ~Filled.due)
          /\ logger' = [Filled EXCEPT !.at = "select"]
          /\ UNCHANGED <<conf, call, last>>
       \/ /\ Filled.input \/ Filled.out # <<>>
          /\ Filled.fd = "lost" \/ (Filled.fd = "failed" /\ Filled.due)
          /\ logger' = [Filled EXCEPT !.at = "open"]
          /\ Open
    /\ UNCHANGED <<daemon, remote, torn, faults>>

\* Or the name of the host is not found.
HostUnknown ==
    /\ logger.at = "top" /\ faults < MaxFaults
    /\ Filled.input \/ Filled.out # <<>>
    /\ Filled.fd = "lost" \/ (Filled.fd = "failed" /\ Filled.due)
    /\ logger' = [Filled EXCEPT !.at = "open"]
    /\ NotFound
    /\ faults' = faults + 1
    /\ UNCHANGED <<daemon, remote, torn>>

\* A socket is bound.
LoggerBinds ==
    /\ logger.at = "open"
    /\ Bind
    /\ UNCHANGED <<daemon, logger, remote, torn, faults>>

\* connect() is answered at one of the addresses the host listens on.
LoggerConnects ==
    /\ logger.at = "open"
    /\ Connected
    /\ remote.state # "down" /\ call.address \in conf.answers
    /\ remote' = NewRemote(remote.state, "open")
    /\ UNCHANGED <<daemon, logger, torn, faults>>

\* It is not, or the pair of addresses is in use.
LoggerRefused ==
    /\ logger.at = "open"
    /\ \/ /\ remote.state = "down" \/ call.address \notin conf.answers
          /\ \E error \in {"refused", "timedout"} : ConnectFails(error)
          /\ UNCHANGED faults
       \/ /\ faults < MaxFaults /\ ConnectFails("inuse")
          /\ faults' = faults + 1
    /\ UNCHANGED <<daemon, logger, remote, torn>>

\* A bug: without a dump.
OpenedPlain ==
    /\ logger.at = "open" /\ call.at = "done"
    /\ logger' =
         IF call.result = "open"
         THEN [logger EXCEPT !.at = "top", !.fd = "up", !.file = <<>>]
         ELSE [logger EXCEPT !.at = "select", !.fd = "failed",
                             !.due = (conf.timeout = 0)]
    /\ torn' = (torn \/ (call.result = "open" /\ logger.out # <<>>))
    /\ call' = NoCall
    /\ UNCHANGED <<conf, last, daemon, remote, faults>>

\* Link_open returned.  With a connection the file is emptied and the dump
\* begins; without, the time of the attempt is noted, and a timeout of 0 is
\* over at once.
Opened ==
    /\ logger.at = "open" /\ call.at = "done"
    /\ logger' =
         IF call.result = "open"
         THEN [logger EXCEPT !.at = "dump", !.fd = "up", !.file = <<>>,
                             !.next = 1]
         ELSE [logger EXCEPT !.at = "select", !.fd = "failed",
                             !.due = (conf.timeout = 0)]
    /\ torn' = (torn \/ (call.result = "open" /\ logger.out # <<>>))
    /\ call' = NoCall
    /\ UNCHANGED <<conf, last, daemon, remote, faults>>

\* A bug: the last item is left out.
DumpShort ==
    /\ logger.at = "dump"
    /\ logger' =
         IF logger.next < Items
         THEN [logger EXCEPT !.file = @ \o Line(logger.next, queue[logger.next]),
                             !.next = @ + 1]
         ELSE [logger EXCEPT !.file = Append(@, <<End, 0, 2>>),
                             !.read = TRUE, !.at = "top"]
    /\ UNCHANGED <<conf, call, last, daemon, remote, torn, faults>>

\* Dump_queue_status: the state of one item after the other, then END.
Dump ==
    /\ logger.at = "dump"
    /\ logger' =
         IF logger.next \in ItemSet
         THEN [logger EXCEPT !.file = @ \o Line(logger.next, queue[logger.next]),
                             !.next = @ + 1]
         ELSE [logger EXCEPT !.file = Append(@, <<End, 0, 2>>),
                             !.read = TRUE, !.at = "top"]
    /\ UNCHANGED <<conf, call, last, daemon, remote, torn, faults>>

\* What select() may find.
LinkClosed == logger.fd = "up" /\ remote.link = "closed"

InputReady == logger.input /\ (pipe # <<>> \/ closed)
Room == IF remote.link = "open" THEN WireSize - Len(remote.wire) ELSE 0
CanWrite == logger.fd = "up" /\ logger.out # <<>> /\ Room > 0

\* The pipe is read: with a connection into the temporary file, without one
\* into nothing.  No bytes mean that nobody writes to it any more.
AfterInput(p) ==
    IF ~InputReady THEN p
    ELSE IF pipe = <<>> THEN [p EXCEPT !.input = FALSE]
    ELSE IF p.fd = "up" THEN [p EXCEPT !.file = @ \o pipe, !.read = TRUE]
    ELSE p

\* A bug: the descriptor is kept.
SelectIgnoresEnd ==
    /\ logger.at = "select" /\ LinkClosed
    /\ logger' = AfterInput([logger EXCEPT !.out = <<>>, !.at = "top"])
    /\ pipe' = IF InputReady THEN <<>> ELSE pipe
    /\ UNCHANGED <<conf, call, last, queue, pending, said, closed, remote, torn,
                   faults>>

\* The host closed the connection: the buffer is given up.
SelectFindsEnd ==
    /\ logger.at = "select" /\ LinkClosed
    /\ logger' = AfterInput([logger EXCEPT !.out = <<>>, !.fd = "lost",
                                           !.at = "top"])
    /\ pipe' = IF InputReady THEN <<>> ELSE pipe
    /\ UNCHANGED <<conf, call, last, queue, pending, said, closed, remote, torn,
                   faults>>

\* The host closed it after select() returned: the write fails, and what is in
\* the buffer stays there.
WriteFails ==
    /\ logger.at = "select" /\ LinkClosed /\ logger.out # <<>>
    /\ logger' = [AfterInput(logger) EXCEPT !.fd = "lost", !.at = "top"]
    /\ pipe' = IF InputReady THEN <<>> ELSE pipe
    /\ UNCHANGED <<conf, call, last, queue, pending, said, closed, remote, torn,
                   faults>>

\* Otherwise there is input, or some of the buffer goes out.
SelectFindsWork ==
    /\ logger.at = "select" /\ ~LinkClosed
    /\ InputReady \/ CanWrite
    /\ \E n \in IF CanWrite THEN 1 .. Room ELSE {0} :
          /\ n <= Len(logger.out)
          /\ logger' = [AfterInput(logger) EXCEPT !.out = Drop(n, @), !.at = "top"]
          /\ remote' = [remote EXCEPT !.wire = @ \o Take(n, logger.out)]
    /\ pipe' = IF InputReady THEN <<>> ELSE pipe
    /\ UNCHANGED <<conf, call, last, queue, pending, said, closed, torn, faults>>

\* The time to the next attempt is over while select() finds nothing; it has a
\* timeout only if logger_timeout is set.
Tick ==
    /\ logger.fd = "failed" /\ ~logger.due /\ logger.at = "select"
    /\ conf.timeout > 0 /\ ~InputReady
    /\ logger' = [logger EXCEPT !.due = TRUE, !.at = "top"]
    /\ UNCHANGED <<conf, call, last, daemon, remote, torn, faults>>

\* The logger is killed.
Kill ==
    /\ faults < MaxFaults /\ ~closed
    /\ logger.at \notin {"dead", "exit"}
    /\ logger' = [NewLogger EXCEPT !.at = "dead"]
    /\ call' = NoCall /\ last' = 0
    /\ remote' = [remote EXCEPT !.link = IF @ = "open" THEN "gone" ELSE @]
    /\ faults' = faults + 1
    /\ UNCHANGED <<conf, daemon, torn>>

------------------------------------------------------------------------------
(* The remote host: the receiver of common/monitor.c.                       *)

\* A newline ends a line; Decode makes sense of it if its two pieces are those
\* of one line.
Receive ==
    LET piece == Head(remote.wire)
        line  == Append(remote.line, piece)
    IN  /\ remote.state = "up" /\ remote.link \in {"open", "gone"}
        /\ remote.wire # <<>>
        /\ remote' =
             IF piece[3] = 1
             THEN [remote EXCEPT !.wire = Tail(@), !.line = line]
             ELSE [remote EXCEPT
                     !.wire = Tail(@), !.line = <<>>,
                     !.end = @ \/ line = << <<End, 0, 2>> >>,
                     !.known = [i \in ItemSet |->
                                  IF line = Line(i, piece[2]) THEN piece[2]
                                                              ELSE @[i]]]
        /\ UNCHANGED <<conf, call, last, daemon, logger, torn, faults>>

\* It closes the connection, ends, stops reading, or comes back.
RemoteFault ==
    /\ faults < MaxFaults
    /\ faults' = faults + 1
    /\ \/ /\ remote.link = "open"
          /\ remote' = NewRemote(remote.state, "closed")
       \/ /\ remote.state # "down"
          /\ remote' = NewRemote("down", IF remote.link = "open" THEN "closed"
                                         ELSE remote.link)
       \/ /\ remote.state = "up"
          /\ remote' = [remote EXCEPT !.state = "stuck"]
    /\ UNCHANGED <<conf, call, last, daemon, logger, torn>>

RemoteReturns ==
    /\ remote.state # "up"
    /\ remote' = [remote EXCEPT !.state = "up"]
    /\ UNCHANGED <<conf, call, last, daemon, logger, torn, faults>>

------------------------------------------------------------------------------
LoggerSteps == \/ Top \/ HostUnknown \/ LoggerBinds \/ LoggerConnects \/ LoggerRefused
               \/ Opened \/ Dump \/ SelectFindsEnd \/ WriteFails
               \/ SelectFindsWork

Next ==
    \/ \E i \in ItemSet : Change(i) \/ Log(i)
    \/ Hangup \/ Restart \/ Tick \/ Kill
    \/ LoggerSteps
    \/ Receive \/ RemoteFault \/ RemoteReturns

\* Processes run, lpd restarts its logger, time passes and the host reads what
\* it got; changes, faults and the return of a host need not happen.
Fairness ==
    /\ \A i \in ItemSet : WF_vars(Log(i))
    /\ WF_vars(Restart) /\ WF_vars(LoggerSteps) /\ WF_vars(Tick)
    /\ WF_vars(Receive)

Spec == Init /\ [][Next]_vars /\ Fairness

------------------------------------------------------------------------------
\* The logger, its queue of status lines, the pipe and the remote host keep
\* their types.
LoggerTypeOK ==
    /\ conf \in Settings
    /\ call.at \in {"idle", "bind", "connect", "done"}
    /\ last \in Nat
    /\ queue \in [ItemSet -> 1 .. MaxChanges + 1]
    /\ pending \in [ItemSet -> SUBSET (2 .. MaxChanges + 1)]
    /\ said \in [ItemSet -> 1 .. MaxChanges + 1]
    /\ Len(pipe) <= PipeSize
    /\ closed \in BOOLEAN /\ torn \in BOOLEAN
    /\ logger.at \in {"top", "open", "dump", "select", "exit", "dead"}
    /\ logger.fd \in {"up", "lost", "failed"}
    /\ Len(logger.out) <= Chunk
    /\ remote.state \in {"up", "stuck", "down"}
    /\ remote.link \in {"none", "open", "closed", "gone"}
    /\ Len(remote.wire) <= WireSize
    /\ faults \in 0 .. MaxFaults

\* While the connection stands no change is lost (lpd_logger.c:247-269, 323):
\* whatever the host has heard of an item, is on its way to it, or waits in the
\* buffer, the file and the pipe, the last of it is the state of the item, as
\* soon as its writers have said so.  The dump covers what was thrown away
\* before, and what it says of one item while another is looked at.  Of an item
\* whose writers do not hold a lock it may be the last message instead, and that
\* message an older state: nothing corrects it before the next change or dump.
InFlight == remote.line \o remote.wire \o logger.out \o logger.file \o pipe
LastSaid(i) ==
    LET k == SelectLastInSeq(InFlight, LAMBDA p : p[1] = i)
    IN  IF k = 0 THEN remote.known[i] ELSE InFlight[k][2]
NothingMissed ==
    logger.fd = "up" /\ remote.link = "open" /\ ~torn =>
       \A i \in ItemSet :
          \/ pending[i] # {}
          \/ logger.at = "dump" /\ i >= logger.next
          \/ LastSaid(i) = queue[i]
          \/ i \notin Locked /\ LastSaid(i) = said[i]

\* CHANGES:4008-4014: END says that all the queue information has arrived.
EndMeansAll ==
    remote.end /\ ~torn => \A i \in ItemSet : remote.known[i] # 0

\* With logger_timeout set, a host that stays up learns the last state of
\* every item, or lpd ends before; of an item whose writers do not hold a lock,
\* the last state or the last message.
LogCatchesUp ==
    conf.timeout > 0 /\ <>[](remote.state = "up") =>
       <>[](\/ torn \/ closed
            \/ \A i \in ItemSet : \/ remote.known[i] = queue[i]
                                  \/ i \notin Locked /\ remote.known[i] = said[i])

=============================================================================

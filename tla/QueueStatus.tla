---------------------------- MODULE QueueStatus ----------------------------
(***************************************************************************)
(* lpq and lprm requests and the cache of status reports: Job_status() and *)
(* Get_queue_status() of lpd_status.c, Job_remove() and Get_queue_remove() *)
(* of lpd_remove.c, Send_request() of sendreq.c.  lpd runs a process for   *)
(* every request.  A request walks from queue to queue: a queue may have   *)
(* subservers (sv) or destinations, or forward to another queue of this    *)
(* host, and the "all" request goes through the printcap.                  *)
(*                                                                         *)
(* Every queue has an index file (lpq_status_file) that names, for each    *)
(* query, the file with the report made for it.  A process locks the index *)
(* before it reads it and keeps the lock while it makes a report.  To      *)
(* flush the cache everybody else removes the index file, so that an open  *)
(* or locked index may no longer be the one in the directory: a queue has  *)
(* one index after the other, numbered here.                               *)
(*                                                                         *)
(* A report is the query and the number of changes of the queue it shows.  *)
(* Abstractions: whether a report is too old, or the status files changed  *)
(* since, is left open (a miss is always possible); permissions are given; *)
(* the other host of a forwarded request answers, refuses or times out.    *)
(***************************************************************************)
EXTENDS Naturals, Sequences, FiniteSets, SequencesExt

CONSTANTS Names,       \* names of queues, aliases among them
          PrimaryOf,   \* the queue a name stands for, or None
          Below,       \* the names a queue has in sv, destinations or rp
          Remote,      \* the queues that forward to another host
          Queries,     \* kinds of lpq query: the keys of the cache
          Starts,      \* what requests ask for: sequences of names
          Procs,       \* process ids
          Cached,      \* lpq_status_cached: entries of an index
          MaxRequests, \* bound: requests
          MaxFlushes,  \* bound: flushes by other processes
          MaxFaults,   \* bound: failed writes and clients that went away
          None

Queues == {PrimaryOf[n] : n \in Names} \ {None}

ASSUME NamesAssumption ==
    /\ PrimaryOf \in [Names -> Queues \cup {None}]
    /\ Below \in [Queues -> Seq(Names)]
    /\ Remote \subseteq Queues
    /\ Starts \subseteq Seq(Names)
ASSUME ProcsAssumption == Procs \subseteq Nat /\ None \notin Procs
ASSUME CacheAssumption == Cached \in Nat \ {0} /\ None \notin Queries \cup Queues
ASSUME StatusBoundAssumption ==
    MaxRequests \in Nat /\ MaxFlushes \in Nat /\ MaxFaults \in Nat

VARIABLES
    version,   \* how often the jobs of a queue changed
    current,   \* the number of the index file in the directory, or 0
    index,     \* the index files of a queue: what query each entry is for
    holder,    \* the process that has the lock on an index file, or None
    report,    \* the files with the reports: lpq.0, lpq.1 ...
    proc,      \* the processes
    requests,  \* requests so far
    flushes,   \* flushes by others so far
    faults,    \* failures so far
    flushed,   \* history: the version at the last flush
    late       \* history: a report was put in place for an index already gone

vars == <<version, current, index, holder, report, proc, requests, flushes,
          faults, flushed, late>>
bounds == <<requests, flushes, faults>>
history == <<flushed, late>>

Entries == 1..Cached
NoReport == [key |-> None, seen |-> 0]
EmptyIndex == [e \in Entries |-> None]
Resting == [at |-> "idle", kind |-> None, key |-> None, asked |-> <<>>,
            todo |-> <<>>, done |-> <<>>, fd |-> 0, entry |-> 0, seen |-> 0]

Init ==
    /\ version = [q \in Queues |-> 0]
    /\ current = [q \in Queues |-> 0]
    /\ index = [q \in Queues |-> <<>>]
    /\ holder = [q \in Queues |-> <<>>]
    /\ report = [q \in Queues |-> [e \in Entries |-> NoReport]]
    /\ proc = [p \in Procs |-> Resting]
    /\ requests = 0 /\ flushes = 0 /\ faults = 0
    /\ flushed = [q \in Queues |-> 0]
    /\ late = [q \in Queues |-> FALSE]

-----------------------------------------------------------------------------
(* A request goes from queue to queue.  What is below a queue comes before  *)
(* the rest, as Get_queue_status() and Get_queue_remove() call themselves.  *)

At(p, where) == proc[p].at = where
Is(p, kind) == proc[p].kind = kind
Queue(p) == Last(proc[p].done)
Opened(p) == proc[p].fd

\* Setup_printer() finds the queue behind a name; a name without one, and a queue
\* that is in done_list, is passed over.
RepeatedNext(q, done) == done # <<>> /\ Last(done) = q   \* as a bug would have it
Repeated(q, done) == Contains(done, q)
New(name, done) == PrimaryOf[name] # None /\ ~ Repeated(PrimaryOf[name], done)
Ahead(p) ==
    LET todo == proc[p].todo
        new == {i \in DOMAIN todo : New(todo[i], proc[p].done)}
    IN  IF new = {} THEN <<>>
        ELSE SubSeq(todo, CHOOSE i \in new : \A j \in new : i <= j, Len(todo))

\* A queue was dealt with: its subservers, its destinations or the queue of this
\* host it forwards to are next, or the request is sent to another host.
Onward(q, todo) == (IF q \in Remote THEN <<>> ELSE Below[q]) \o todo
Deeper(r, q) ==
    [r EXCEPT !.at = IF q \in Remote THEN "forward" ELSE "next",
              !.todo = Onward(q, @),
              !.fd = 0, !.entry = 0, !.seen = 0]

\* The kernel frees the locks of a process that ends.
Ends(p) ==
    /\ proc' = [proc EXCEPT ![p] = Resting]
    /\ holder' = [q \in Queues |-> [i \in DOMAIN holder[q] |->
                     IF holder[q][i] = p THEN None ELSE holder[q][i]]]

\* Job_status() and Job_remove(): "all" is the names of the printcap.  Which pid a
\* process gets does not matter: it is the lowest one that is free.
Begin(p) ==
    /\ At(p, "idle") /\ requests < MaxRequests
    /\ \A o \in Procs : At(o, "idle") => p <= o
    /\ requests' = requests + 1
    /\ \E s \in Starts, kind \in {"lpq", "lprm"}, key \in Queries :
          /\ kind = "lprm" => key = CHOOSE k \in Queries : TRUE   \* has no key
          /\ proc' = [proc EXCEPT ![p] = [Resting EXCEPT
                         !.at = "next", !.kind = kind, !.key = key,
                         !.asked = s, !.todo = s]]
    /\ UNCHANGED <<version, current, index, holder, report, flushes, faults, history>>

Finish(p) ==
    /\ At(p, "next") /\ Ahead(p) = <<>>
    /\ Ends(p)
    /\ UNCHANGED <<version, current, index, report, bounds, history>>

Visit(p) ==
    /\ At(p, "next") /\ Ahead(p) # <<>>
    /\ proc' = [proc EXCEPT ![p].todo = Tail(Ahead(p)),
                  ![p].done = Append(@, PrimaryOf[Head(Ahead(p))]),
                  ![p].at = IF Is(p, "lpq") THEN "open" ELSE "remove"]
    /\ UNCHANGED <<version, current, index, holder, report, bounds, history>>

\* Send_request(): what the other host sends before it closes or the timeout comes
\* is passed on, or that there is no connection.
Forward(p) ==
    /\ At(p, "forward")
    /\ proc' = [proc EXCEPT ![p].at = "next"]
    /\ UNCHANGED <<version, current, index, holder, report, bounds, history>>

-----------------------------------------------------------------------------
(* lpq: the cached report of a queue                                       *)

OpenIndex(p) ==
    /\ At(p, "open") /\ current[Queue(p)] # 0
    /\ proc' = [proc EXCEPT ![p].at = "lock", ![p].fd = current[Queue(p)]]
    /\ UNCHANGED <<version, current, index, holder, report, bounds, history>>

CreateIndex(p) ==
    /\ At(p, "open") /\ current[Queue(p)] = 0
    /\ LET q == Queue(p)
           i == Len(index[q]) + 1
       IN  /\ proc' = [proc EXCEPT ![p].at = "lock", ![p].fd = i]
           /\ current' = [current EXCEPT ![q] = i]
           /\ index' = [index EXCEPT ![q] = Append(@, EmptyIndex)]
           /\ holder' = [holder EXCEPT ![q] = Append(@, None)]
    /\ UNCHANGED <<version, report, bounds, history>>

LockIndex(p) ==
    /\ At(p, "lock")
    /\ IF holder[Queue(p)][Opened(p)] = None
       THEN /\ holder' = [holder EXCEPT ![Queue(p)][Opened(p)] = p]
            /\ proc' = [proc EXCEPT ![p].at = "look"]
       ELSE /\ proc' = [proc EXCEPT ![p].at = "wait"]
            /\ UNCHANGED holder
    /\ UNCHANGED <<version, current, index, report, bounds, history>>

\* The wait for the lock; then the file is closed and opened anew.
WaitForLock(p) ==
    /\ At(p, "wait") /\ holder[Queue(p)][Opened(p)] = None
    /\ proc' = [proc EXCEPT ![p].at = "open", ![p].fd = 0]
    /\ UNCHANGED <<version, current, index, holder, report, bounds, history>>

\* The entry for the query, 0 when there is none.
EntryOf(table, key) ==
    IF \E e \in Entries : table[e] = key
    THEN CHOOSE e \in Entries : table[e] = key
    ELSE 0
Entry(p) == EntryOf(index[Queue(p)][Opened(p)], proc[p].key)

\* The report is sent as it is.  The lock is not given back.
Hit(p) ==
    /\ At(p, "look") /\ Entry(p) # 0
    /\ proc' = [proc EXCEPT ![p] = Deeper(@, Queue(p))]
    /\ UNCHANGED <<version, current, index, holder, report, bounds, history>>

\* There is no report or it is not used: the tickets are read into a new file.
Scans(p, v) ==
    /\ At(p, "look")
    /\ proc' = [proc EXCEPT ![p].at = "rename", ![p].entry = Entry(p), ![p].seen = v]

Scan(p) ==
    /\ Scans(p, version[Queue(p)])
    /\ UNCHANGED <<version, current, index, holder, report, bounds, history>>

Unlink(q) ==
    /\ current' = [current EXCEPT ![q] = 0]
    /\ flushed' = [flushed EXCEPT ![q] = version'[q]]

\* Remove_done_jobs() takes a job away and flushes before the tickets are read.
ScanExpires(p) ==
    /\ flushes < MaxFlushes
    /\ flushes' = flushes + 1
    /\ LET q == Queue(p)
       IN  /\ Scans(p, version[q] + 1)
           /\ version' = [version EXCEPT ![q] = @ + 1]
           /\ Unlink(q)
    /\ UNCHANGED <<index, holder, report, requests, faults, late>>

\* The entry a new report may have: the one of its query, else the first free
\* one, else one with the oldest report, which times of whole seconds leave open.
Free(table) == {e \in Entries : table[e] = None}
EntriesFor(table, entry) ==
    IF entry # 0 THEN {entry}
    ELSE IF Free(table) # {}
         THEN {e \in Free(table) : \A f \in Free(table) : e <= f}
         ELSE Entries

\* The report is sent, and its file becomes that of an entry.
Rename(p) ==
    /\ At(p, "rename")
    /\ LET q == Queue(p)
       IN  \E e \in EntriesFor(index[q][Opened(p)], proc[p].entry) :
             /\ report' = [report EXCEPT ![q][e] = [key |-> proc[p].key, seen |-> proc[p].seen]]
             /\ proc' = [proc EXCEPT ![p].at = "index", ![p].entry = e]
             /\ late' = [late EXCEPT ![q] = @ \/ current[q] # Opened(p)]
    /\ UNCHANGED <<version, current, index, holder, bounds, flushed>>

\* The index is written and closed.
WriteIndex(p) ==
    /\ At(p, "index")
    /\ LET q == Queue(p)
           i == Opened(p)
       IN  /\ index' = [index EXCEPT ![q][i][proc[p].entry] = proc[p].key]
           /\ holder' = [holder EXCEPT ![q][i] = None]
           /\ proc' = [proc EXCEPT ![p] = Deeper(@, q)]
    /\ UNCHANGED <<version, current, report, bounds, history>>

\* The disk is full: the index, which has been truncated, is removed.
IndexKept(p) ==        \* as a bug would have it
    /\ At(p, "index") /\ faults < MaxFaults
    /\ faults' = faults + 1
    /\ Ends(p)
    /\ UNCHANGED <<version, current, index, report, requests, flushes, history>>

IndexFails(p) ==
    /\ At(p, "index") /\ faults < MaxFaults
    /\ faults' = faults + 1
    /\ UNCHANGED version
    /\ Unlink(Queue(p))
    /\ Ends(p)
    /\ UNCHANGED <<index, report, requests, flushes, late>>

\* A write to the client fails.
ClientGone(p) ==
    /\ proc[p].at \in {"look", "forward"} /\ Is(p, "lpq")
    /\ faults < MaxFaults
    /\ faults' = faults + 1
    /\ Ends(p)
    /\ UNCHANGED <<version, current, index, report, requests, flushes, history>>

-----------------------------------------------------------------------------
(* lprm, and others that change a queue                                    *)

\* Get_queue_remove() removes the jobs that match, and then the index.
RemoveJob(p) ==
    /\ At(p, "remove")
    /\ version' = [version EXCEPT ![Queue(p)] = @ + 1]
    /\ proc' = [proc EXCEPT ![p].at = "flush"]
    /\ UNCHANGED <<current, index, holder, report, bounds, history>>

FlushJob(p) ==
    /\ At(p, "flush")
    /\ UNCHANGED version
    /\ Unlink(Queue(p))
    /\ proc' = [proc EXCEPT ![p] = Deeper(@, Queue(p))]
    /\ UNCHANGED <<index, holder, report, bounds, late>>

\* No job matches.
NothingToRemove(p) ==
    /\ At(p, "remove")
    /\ proc' = [proc EXCEPT ![p] = Deeper(@, Queue(p))]
    /\ UNCHANGED <<version, current, index, holder, report, bounds, history>>

\* A file of the job stays: what is below the queue is not looked at.
RemoveFails(p) ==
    /\ At(p, "flush") /\ faults < MaxFaults
    /\ faults' = faults + 1
    /\ UNCHANGED version
    /\ Unlink(Queue(p))
    /\ proc' = [proc EXCEPT ![p].at = "next"]
    /\ UNCHANGED <<index, holder, report, requests, flushes, late>>

\* lpc flush, and a server that starts or ends.
FlushByOthers(q) ==
    /\ current[q] # 0 /\ flushes < MaxFlushes
    /\ flushes' = flushes + 1
    /\ UNCHANGED version
    /\ Unlink(q)
    /\ UNCHANGED <<index, holder, report, proc, requests, faults, late>>

-----------------------------------------------------------------------------
Walk(p) == Visit(p) \/ Finish(p) \/ Forward(p)
Show(p) == OpenIndex(p) \/ CreateIndex(p) \/ LockIndex(p) \/ WaitForLock(p) \/ Hit(p)
           \/ Scan(p) \/ Rename(p) \/ WriteIndex(p)
Change(p) == RemoveJob(p) \/ FlushJob(p) \/ NothingToRemove(p)
Fault(p) == IndexFails(p) \/ ClientGone(p) \/ RemoveFails(p) \/ ScanExpires(p)

StatusNext ==
    \/ \E p \in Procs : Begin(p) \/ Walk(p) \/ Show(p) \/ Change(p) \/ Fault(p)
    \/ \E q \in Queues : FlushByOthers(q)

StatusSpec == Init /\ [][StatusNext]_vars

-----------------------------------------------------------------------------
(* Properties                                                              *)

\* Type invariant: an open index exists, and its lock is had by a process that
\* visits or has visited the queue (Get_queue_status() keeps the lock on a hit).
StatusTypeOK ==
    /\ version \in [Queues -> Nat] /\ flushed \in [Queues -> Nat]
    /\ late \in [Queues -> BOOLEAN]
    /\ report \in [Queues -> [Entries -> [key : Queries \cup {None}, seen : Nat]]]
    /\ \A q \in Queues :
          /\ current[q] \in 0..Len(index[q])
          /\ DOMAIN holder[q] = DOMAIN index[q]
          /\ \A i \in DOMAIN index[q] :
                /\ index[q][i] \in [Entries -> Queries \cup {None}]
                /\ holder[q][i] # None => Contains(proc[holder[q][i]].done, q)
    /\ \A p \in Procs :
          /\ proc[p].fd # 0 => proc[p].fd \in DOMAIN index[Queue(p)]
          /\ proc[p].at \in {"look", "rename", "index"} => holder[Queue(p)][Opened(p)] = p

\* The queues a request for these names is about.
Reached(s) ==
    LET Of(names) == {PrimaryOf[names[i]] : i \in DOMAIN names} \ {None}
        f[n \in 0..Cardinality(Queues)] ==
          IF n = 0 THEN Of(s)
          ELSE f[n - 1] \cup UNION {Of(Below[q]) : q \in f[n - 1] \ Remote}
    IN  f[Cardinality(Queues)]

\* When nobody has the lock on the index in the directory, each entry leads to a
\* report made for its query and since the last flush, failed writes included,
\* unless a report was put in place for an index that had been removed meanwhile.
IndexIsTrue ==
    \A q \in Queues :
      LET i == current[q]
      IN  (i # 0 /\ holder[q][i] = None /\ ~ late[q]) =>
            \A e \in Entries : index[q][i][e] # None =>
               /\ report[q][e].key = index[q][i][e]
               /\ report[q][e].seen >= flushed[q]

\* Requests meet the queues in one order: there are walks, of what a request has done
\* and has to do, that hold every start and with a walk the one that has visited one
\* queue more, the first that is new, and along each of them rank falls.
Fresh(x, i) == PrimaryOf[x.todo[i]] \notin {None} \cup {x.done[j] : j \in DOMAIN x.done}
OneOrder(walks, rank) ==
    /\ rank \in [Queues -> Nat]
    /\ \A s \in Starts : [done |-> <<>>, todo |-> s] \in walks
    /\ \A x \in walks : \A i \in DOMAIN x.todo :
         LET q == PrimaryOf[x.todo[i]]
             rest == SubSeq(x.todo, i + 1, Len(x.todo))
         IN  Fresh(x, i) /\ (\A j \in 1..i - 1 : ~Fresh(x, j)) =>
               [done |-> Append(x.done, q), todo |-> Onward(q, rest)] \in walks
    /\ \A x \in walks : \A i, j \in DOMAIN x.done :
         i < j => rank[x.done[i]] > rank[x.done[j]]

\* No processes wait for each other's locks, which would be for good: a process that
\* was served from the cache of one queue keeps that lock while it waits for others.
NoCircularWait ==
    ~ \E S \in SUBSET Procs :
        /\ S # {}
        /\ \A p \in S : At(p, "wait") /\ holder[Queue(p)][Opened(p)] \in S

=============================================================================

--------------------------- MODULE QueueStatusProofs ---------------------------
(***************************************************************************)
(* Theorems about QueueStatus: the cache of status reports is true, for    *)
(* any queues, requests, processes, flushes and failures; and requests     *)
(* that meet the queues in one order do not wait for each other's locks.   *)
(***************************************************************************)
EXTENDS QueueStatus, TLAPS, SequenceTheorems, WellFoundedInduction

USE NamesAssumption, ProcsAssumption, CacheAssumption

-----------------------------------------------------------------------------
(* Types, and what a process that uses an index file has of it.            *)

Places == {"idle", "next", "forward", "open", "lock", "wait", "look", "rename",
           "index", "remove", "flush"}
Owner == {"look", "rename", "index"}
Using == {"lock", "wait"} \cup Owner

Key == Queries \cup {None}
Table == [Entries -> Key]
Report == [key : Key, seen : Nat]

Process ==
    [at : Places, kind : {"lpq", "lprm", None}, key : Key,
     asked : Seq(Names), todo : Seq(Names), done : Seq(Queues),
     fd : Nat, entry : Entries \cup {0}, seen : Nat]

\* The process p is in the state r, with these index files and their locks.
Own(p, r, files, locks) ==
    /\ r.at \in Using => r.fd \in 1..Len(files[Last(r.done)])
    /\ r.at \in Owner => locks[Last(r.done)][r.fd] = p
    /\ r.at \notin Using => r.fd = 0
    /\ r.at = "index" => r.entry \in Entries
    /\ r.at \notin {"idle", "next", "forward"} => r.done # <<>>

FilesInv ==
    /\ index \in [Queues -> Seq(Table)]
    /\ holder \in [Queues -> Seq(Procs \cup {None})]
    /\ current \in [Queues -> Nat]
    /\ \A q \in Queues : /\ Len(holder[q]) = Len(index[q])
                         /\ current[q] <= Len(index[q])

CountsInv ==
    /\ version \in [Queues -> Nat] /\ flushed \in [Queues -> Nat]
    /\ late \in [Queues -> BOOLEAN]
    /\ report \in [Queues -> [Entries -> Report]]

ProcsInv ==
    /\ proc \in [Procs -> Process]
    /\ \A p \in Procs : Own(p, proc[p], index, holder)

TypeInv == FilesInv /\ CountsInv /\ ProcsInv

LEMMA RestShape == Resting \in Process /\ Resting.at = "idle" /\ Resting.fd = 0
BY EmptySeq DEF Resting, Process, Places, Key

\* The queue that a process is at.
LEMMA QueueShape ==
    ASSUME ProcsInv, NEW p \in Procs,
           proc[p].at \notin {"idle", "next", "forward"}
    PROVE  Queue(p) \in Queues /\ proc[p].done \in Seq(Queues)
<1>1. proc[p].done \in Seq(Queues) /\ proc[p].done # <<>>
  BY DEF ProcsInv, Process, Own
<1> QED
  BY <1>1, LenProperties, ElementOfSeq, EmptySeq DEF Queue, Last

\* When a queue was dealt with, the process goes on without an index file.
LEMMA DeeperShape ==
    ASSUME NEW r \in Process, NEW q \in Queues
    PROVE  /\ Deeper(r, q) \in Process
           /\ Deeper(r, q).at \in {"next", "forward"} /\ Deeper(r, q).fd = 0
<1> DEFINE a == IF q \in Remote THEN "forward" ELSE "next"
           t == Onward(q, r.todo)
<1>1. t \in Seq(Names)
  <2>1. (IF q \in Remote THEN <<>> ELSE Below[q]) \in Seq(Names)
    BY EmptySeq
  <2> QED
    BY <2>1, ConcatProperties DEF Process, Onward
<1>2. Deeper(r, q) = [r EXCEPT !.at = a, !.todo = t, !.fd = 0, !.entry = 0, !.seen = 0]
  BY DEF Deeper
<1>3. a \in {"next", "forward"}
  OBVIOUS
<1> HIDE DEF a, t
<1>4. a \in Places
  BY <1>3 DEF Places
<1> DEFINE d == [r EXCEPT !.at = a, !.todo = t, !.fd = 0, !.entry = 0, !.seen = 0]
<1>5. d \in Process /\ d.at = a /\ d.fd = 0
  BY <1>1, <1>4 DEF Process
<1> HIDE DEF d
<1> QED
  BY <1>2, <1>3, <1>5 DEF d

\* The names that are left begin with one of a queue that is new.
LEMMA AheadShape ==
    ASSUME ProcsInv, NEW p \in Procs, Ahead(p) # <<>>
    PROVE  /\ PrimaryOf[Head(Ahead(p))] \in Queues
           /\ Tail(Ahead(p)) \in Seq(Names)
           /\ \E i \in DOMAIN proc[p].todo :
                /\ Fresh(proc[p], i) /\ \A j \in 1..i - 1 : ~Fresh(proc[p], j)
                /\ Head(Ahead(p)) = proc[p].todo[i]
                /\ Tail(Ahead(p)) = SubSeq(proc[p].todo, i + 1, Len(proc[p].todo))
<1> DEFINE todo == proc[p].todo
           new == {i \in DOMAIN todo : New(todo[i], proc[p].done)}
           first == CHOOSE i \in new : \A j \in new : i <= j
<1>0. todo \in Seq(Names)
  BY DEF ProcsInv, Process
<1>1. new # {} /\ Ahead(p) = SubSeq(todo, first, Len(todo))
  BY DEF Ahead
<1>2. new \subseteq Nat
  BY <1>0, LenProperties
<1>3. \E i \in new : \A j \in new : i <= j
  <2> HIDE DEF new
  <2>1. PICK i \in new : \A j \in new : ~(<<j, i>> \in OpToRel(<, Nat))
    BY <1>1, <1>2, NatLessThanWellFounded, WFMin, Zenon
  <2>2. ASSUME NEW j \in new PROVE i <= j
    <3>1. <<j, i>> \in Nat \X Nat
      BY <1>2
    <3>2. ~(j < i)
      BY <2>1, <3>1 DEF OpToRel
    <3> QED
      BY <1>2, <3>2
  <2> QED
    BY <2>2
<1>4. first \in new
  BY <1>3
<1>5. first \in 1..Len(todo) /\ PrimaryOf[todo[first]] # None
  BY <1>0, <1>4, LenProperties DEF New
<1>6. Fresh(proc[p], first) /\ \A j \in 1..first - 1 : ~Fresh(proc[p], j)
  <2>1. proc[p].done \in Seq(Queues)
    BY DEF ProcsInv, Process
  <2> DEFINE d == proc[p].done
  <2>2. DOMAIN d = 1..Len(d)
    BY <2>1, LenProperties
  <2> HIDE DEF d
  <2>3. \A n : Contains(d, n) <=> n \in {d[j] : j \in DOMAIN d}
    BY <2>2 DEF Contains
  <2>4. \A i \in DOMAIN todo : Fresh(proc[p], i) <=> i \in new
    BY <2>3 DEF New, Repeated, Fresh, d
  <2>5. \A i \in new : first <= i
    BY <1>3
  <2> HIDE DEF new, first, todo
  <2>6. ASSUME NEW j \in 1..first - 1 PROVE j \in DOMAIN todo /\ j \notin new
    BY <1>0, <1>5, <2>5, LenProperties
  <2>7. first \in DOMAIN todo
    BY <1>0, <1>5, LenProperties
  <2> QED
    BY <1>4, <2>4, <2>6, <2>7
<1> HIDE DEF todo, new, first
<1>7. Ahead(p) \in Seq(Names) /\ Ahead(p)[1] = todo[first]
  BY <1>0, <1>1, <1>5, SubSeqProperties
<1>8. Head(Ahead(p)) = todo[first] /\ Tail(Ahead(p)) \in Seq(Names)
  BY <1>7, HeadTailProperties
<1>9. todo[first] \in Names
  BY <1>0, <1>5, ElementOfSeq
<1>10. Tail(Ahead(p)) = SubSeq(todo, first + 1, Len(todo))
  <2> DEFINE a == Ahead(p)
             t == Tail(a)
             u == SubSeq(todo, first + 1, Len(todo))
  <2>1. first \in Nat /\ Len(todo) \in Nat /\ 1 <= first /\ first <= Len(todo)
    BY <1>0, <1>5, LenProperties
  <2>2. /\ a \in Seq(Names) /\ Len(a) = Len(todo) - first + 1
        /\ \A i \in 1..Len(todo) - first + 1 : a[i] = todo[first + i - 1]
    BY <1>0, <1>1, <1>5, <2>1, SubSeqProperties
  <2>3. u \in Seq(Names) /\ Len(u) = Len(todo) - first
    BY <1>0, <2>1
  <2>4. \A i \in 1..Len(todo) - first : u[i] = todo[first + i]
    BY <1>0, <2>1
  <2> HIDE DEF a, u
  <2>5. t \in Seq(Names) /\ Len(t) = Len(todo) - first
    BY <2>1, <2>2
  <2>6. \A i \in 1..Len(t) : t[i] = a[i + 1]
    BY <2>1, <2>2
  <2> HIDE DEF t
  <2>7. ASSUME NEW i \in 1..Len(t) PROVE t[i] = u[i]
    <3>1. i + 1 \in 1..Len(todo) - first + 1 /\ i \in 1..Len(todo) - first
      BY <2>1, <2>5
    <3>2. t[i] = a[i + 1] /\ a[i + 1] = todo[first + (i + 1) - 1]
      BY <2>2, <2>6, <3>1
    <3>3. first + (i + 1) - 1 = first + i
      BY <2>1, <3>1
    <3> QED
      BY <2>4, <3>1, <3>2, <3>3
  <2>8. t = u
    BY <2>3, <2>5, <2>7, SeqEqual
  <2> QED
    BY <2>8 DEF a, t, u
<1>11. first \in DOMAIN todo
  BY <1>0, <1>5, LenProperties
<1> QED
  BY <1>5, <1>6, <1>8, <1>9, <1>10, <1>11 DEF todo

-----------------------------------------------------------------------------
(* A step changes one process, and the others keep what they have.         *)

\* The process p goes on as r.
Becomes(p, r) == proc' = [proc EXCEPT ![p] = r]

LEMMA ProcsStep ==
    ASSUME TypeInv, NEW p \in Procs, NEW r \in Process, Becomes(p, r),
           Own(p, r, index', holder'),
           \A q \in Queues :
               /\ Len(index[q]) <= Len(index'[q])
               /\ Len(index[q]) \in Nat /\ Len(index'[q]) \in Nat
               /\ \A i \in 1..Len(index[q]) :
                     holder[q][i] \in Procs \ {p} => holder'[q][i] = holder[q][i]
    PROVE  ProcsInv'
<1>1. proc' \in [Procs -> Process] /\ proc'[p] = r
      /\ \A o \in Procs : o # p => proc'[o] = proc[o]
  BY DEF Becomes, TypeInv, ProcsInv
<1>2. ASSUME NEW o \in Procs, o # p
      PROVE  Own(o, proc[o], index', holder')
  <2>1. Own(o, proc[o], index, holder)
    BY DEF TypeInv, ProcsInv
  <2>2. proc[o].at \in Using => Last(proc[o].done) \in Queues
    BY QueueShape DEF TypeInv, Using, Owner, Queue
  <2>3. proc[o].at \in Owner => proc[o].at \in Using
    BY DEF Using
  <2> QED
    BY <1>2, <2>1, <2>2, <2>3 DEF Own
<1> QED
  BY <1>1, <1>2 DEF ProcsInv

LEMMA InitTypes == Init => TypeInv
<1> SUFFICES ASSUME Init PROVE TypeInv
  OBVIOUS
<1>1. FilesInv
  BY EmptySeq DEF Init, FilesInv
<1>2. CountsInv
  BY DEF Init, CountsInv, NoReport, Report, Key
<1>3. ProcsInv
  BY RestShape DEF Init, ProcsInv, Own, Using, Owner
<1> QED
  BY <1>1, <1>2, <1>3 DEF TypeInv

-----------------------------------------------------------------------------
(* What each step makes of the process that takes it.                      *)

\* A process ends: it has no index file, and its locks are free.
LEMMA EndsShape ==
    ASSUME TypeInv, NEW p \in Procs, Ends(p)
    PROVE  /\ Becomes(p, Resting)
           /\ holder' \in [Queues -> Seq(Procs \cup {None})]
           /\ \A q \in Queues :
                 /\ Len(holder'[q]) = Len(holder[q])
                 /\ \A i \in 1..Len(holder[q]) :
                       holder'[q][i] = IF holder[q][i] = p THEN None ELSE holder[q][i]
<1>1. Becomes(p, Resting)
  BY DEF Ends, Becomes
<1>2. ASSUME NEW q \in Queues
      PROVE  /\ holder'[q] \in Seq(Procs \cup {None})
             /\ Len(holder'[q]) = Len(holder[q])
             /\ \A i \in 1..Len(holder[q]) :
                   holder'[q][i] = IF holder[q][i] = p THEN None ELSE holder[q][i]
  <2>1. holder[q] \in Seq(Procs \cup {None})
    BY DEF TypeInv, FilesInv
  <2>2. holder'[q] = [i \in 1..Len(holder[q]) |-> IF holder[q][i] = p THEN None ELSE holder[q][i]]
    BY <2>1, LenProperties DEF Ends
  <2>3. \A i \in 1..Len(holder[q]) :
           (IF holder[q][i] = p THEN None ELSE holder[q][i]) \in Procs \cup {None}
    BY <2>1, ElementOfSeq
  <2>4. Len(holder[q]) \in Nat
    BY <2>1, LenProperties
  <2> QED
    BY <2>2, <2>3, <2>4
<1>3. holder' = [q \in Queues |-> holder'[q]]
  BY DEF Ends, TypeInv, FilesInv
<1> QED
  BY <1>1, <1>2, <1>3

\* A process that goes from queue to queue has no index file.
LEMMA WalkShape ==
    ASSUME TypeInv, NEW p \in Procs, Begin(p) \/ Visit(p) \/ Forward(p) \/ RemoveJob(p)
    PROVE  \E r \in Process : /\ Becomes(p, r) /\ Own(p, r, index, holder)
                              /\ r.at \notin Using
<1> DEFINE x == proc[p]
<1>0. x \in Process /\ Own(p, x, index, holder)
  BY DEF TypeInv, ProcsInv
<1>1. CASE Begin(p)
  <2>1. PICK s \in Starts, kind \in {"lpq", "lprm"}, key \in Queries :
           proc' = [proc EXCEPT ![p] = [Resting EXCEPT
                         !.at = "next", !.kind = kind, !.key = key,
                         !.asked = s, !.todo = s]]
    BY <1>1 DEF Begin
  <2> DEFINE r == [Resting EXCEPT !.at = "next", !.kind = kind, !.key = key,
                                  !.asked = s, !.todo = s]
  <2>2. s \in Seq(Names)
    OBVIOUS
  <2>3. r \in Process /\ r.at = "next" /\ r.fd = 0
    BY <2>2, EmptySeq DEF Resting, Process, Places, Key
  <2>4. Becomes(p, r)
    BY <2>1 DEF Becomes
  <2> HIDE DEF r
  <2> QED
    BY <2>3, <2>4 DEF Own, Using, Owner
<1>2. CASE Visit(p)
  <2> DEFINE q == PrimaryOf[Head(Ahead(p))]
             t == Tail(Ahead(p))
             d == Append(x.done, q)
             a == IF Is(p, "lpq") THEN "open" ELSE "remove"
             r == [x EXCEPT !.todo = t, !.done = d, !.at = a]
  <2>1. Becomes(p, r) /\ x.at = "next"
    BY <1>2 DEF Visit, Becomes, At
  <2>2. q \in Queues /\ t \in Seq(Names)
    BY <1>2, AheadShape DEF Visit, TypeInv
  <2>3. x.done \in Seq(Queues)
    BY <1>0 DEF Process
  <2> HIDE DEF q
  <2>4. d \in Seq(Queues) /\ d # <<>> /\ a \in {"open", "remove"}
    <3> DEFINE w == x.done
    <3>1. w \in Seq(Queues)
      BY <2>3
    <3> HIDE DEF w
    <3>2. Append(w, q) \in Seq(Queues) /\ Append(w, q) # <<>>
      BY <2>2, <3>1, AppendProperties
    <3> QED
      BY <3>2 DEF w
  <2> HIDE DEF t, d, a
  <2>5. x.fd = 0
    BY <1>0, <2>1 DEF Own, Using, Owner
  <2>6. a \in Places
    BY <2>4 DEF Places
  <2>7. r \in Process /\ r.at = a /\ r.done = d /\ r.fd = x.fd
    BY <1>0, <2>2, <2>4, <2>6 DEF Process
  <2> HIDE DEF x, r
  <2>8. r.at \notin Using /\ Own(p, r, index, holder)
    BY <2>4, <2>5, <2>7 DEF Own, Using, Owner
  <2> QED
    BY <2>1, <2>7, <2>8
<1>3. CASE Forward(p)
  <2> DEFINE r == [x EXCEPT !.at = "next"]
  <2>1. Becomes(p, r) /\ x.at = "forward"
    BY <1>3 DEF Forward, Becomes, At
  <2>2. r \in Process /\ r.at = "next" /\ r.fd = x.fd
    BY <1>0 DEF Process, Places
  <2>3. x.fd = 0
    BY <1>0, <2>1 DEF Own, Using, Owner
  <2> HIDE DEF x, r
  <2> QED
    BY <2>1, <2>2, <2>3 DEF Own, Using, Owner
<1>4. CASE RemoveJob(p)
  <2> DEFINE r == [x EXCEPT !.at = "flush"]
  <2>1. Becomes(p, r) /\ x.at = "remove"
    BY <1>4 DEF RemoveJob, Becomes, At
  <2>2. r \in Process /\ r.at = "flush" /\ r.fd = x.fd /\ r.done = x.done
    BY <1>0 DEF Process, Places
  <2>3. x.fd = 0 /\ x.done # <<>>
    BY <1>0, <2>1 DEF Own, Using, Owner
  <2> HIDE DEF x, r
  <2> QED
    BY <2>1, <2>2, <2>3 DEF Own, Using, Owner
<1> QED
  BY <1>1, <1>2, <1>3, <1>4

\* A process is done with a queue, and has no index file.
LEMMA LeavesShape ==
    ASSUME TypeInv, NEW p \in Procs,
           Hit(p) \/ WriteIndex(p) \/ FlushJob(p) \/ NothingToRemove(p) \/ RemoveFails(p)
    PROVE  \E r \in Process : /\ Becomes(p, r) /\ r.at \in {"next", "forward"} /\ r.fd = 0
<1> DEFINE x == proc[p]
<1>0. x \in Process /\ Own(p, x, index, holder)
  BY DEF TypeInv, ProcsInv
<1>1. CASE RemoveFails(p)
  <2> DEFINE r == [x EXCEPT !.at = "next"]
  <2>1. Becomes(p, r) /\ x.at = "flush"
    BY <1>1 DEF RemoveFails, Becomes, At
  <2>2. r \in Process /\ r.at = "next" /\ r.fd = x.fd
    BY <1>0 DEF Process, Places
  <2>3. x.fd = 0
    BY <1>0, <2>1 DEF Own, Using, Owner
  <2> HIDE DEF x, r
  <2> QED
    BY <2>1, <2>2, <2>3
<1>2. CASE Hit(p) \/ WriteIndex(p) \/ FlushJob(p) \/ NothingToRemove(p)
  <2>1. Becomes(p, Deeper(x, Queue(p))) /\ x.at \in {"look", "index", "flush", "remove"}
    BY <1>2 DEF Hit, WriteIndex, FlushJob, NothingToRemove, Becomes, At
  <2>2. Queue(p) \in Queues
    BY <2>1, QueueShape DEF TypeInv
  <2> QED
    BY <1>0, <2>1, <2>2, DeeperShape
<1> QED
  BY <1>1, <1>2


\* The index file that a process opens, waits for and locks.
LEMMA OpenShape ==
    ASSUME TypeInv, NEW p \in Procs, OpenIndex(p) \/ CreateIndex(p) \/ LockIndex(p) \/ WaitForLock(p)
    PROVE  \E r \in Process :
              /\ Becomes(p, r) /\ r.done = proc[p].done
              /\ OpenIndex(p) => r.at = "lock" /\ r.fd = current[Queue(p)]
              /\ CreateIndex(p) => r.at = "lock" /\ r.fd = Len(index[Queue(p)]) + 1
              /\ LockIndex(p) => /\ r.fd = proc[p].fd
                                 /\ r.at = IF holder[Queue(p)][Opened(p)] = None
                                           THEN "look" ELSE "wait"
              /\ WaitForLock(p) => r.at = "open" /\ r.fd = 0
<1> DEFINE x == proc[p]
<1>0. x \in Process /\ Own(p, x, index, holder)
  BY DEF TypeInv, ProcsInv
<1>1. CASE OpenIndex(p)
  <2> DEFINE f == current[Queue(p)]
             r == [x EXCEPT !.at = "lock", !.fd = f]
  <2>1. Becomes(p, r) /\ x.at = "open" /\ f \in Nat
    <3>1. x.at = "open"
      BY <1>1 DEF OpenIndex, At
    <3>2. Queue(p) \in Queues
      BY <3>1, QueueShape DEF TypeInv
    <3>3. f \in Nat
      BY <3>2 DEF TypeInv, FilesInv
    <3>4. Becomes(p, r)
      BY <1>1 DEF OpenIndex, Becomes
    <3> QED
      BY <3>1, <3>3, <3>4
  <2> HIDE DEF f
  <2>2. r \in Process /\ r.at = "lock" /\ r.fd = f /\ r.done = x.done
    BY <1>0, <2>1 DEF Process, Places
  <2>3. ~CreateIndex(p) /\ ~LockIndex(p) /\ ~WaitForLock(p)
    BY <1>1 DEF OpenIndex, CreateIndex, LockIndex, WaitForLock, At
  <2> HIDE DEF x, r
  <2> QED
    BY <2>1, <2>2, <2>3 DEF f, x
<1>2. CASE CreateIndex(p)
  <2> DEFINE f == Len(index[Queue(p)]) + 1
             r == [x EXCEPT !.at = "lock", !.fd = f]
  <2>1. Becomes(p, r) /\ x.at = "open" /\ f \in Nat
    <3>1. x.at = "open"
      BY <1>2 DEF CreateIndex, At
    <3>2. Queue(p) \in Queues
      BY <3>1, QueueShape DEF TypeInv
    <3>3. Len(index[Queue(p)]) \in Nat
      BY <3>2, LenProperties DEF TypeInv, FilesInv
    <3>4. f \in Nat
      BY <3>3
    <3>5. proc' = [proc EXCEPT ![p].at = "lock", ![p].fd = f]
      BY <1>2 DEF CreateIndex
    <3> HIDE DEF f
    <3> QED
      BY <3>1, <3>4, <3>5 DEF Becomes
  <2> HIDE DEF f
  <2>2. r \in Process /\ r.at = "lock" /\ r.fd = f /\ r.done = x.done
    BY <1>0, <2>1 DEF Process, Places
  <2>3. ~OpenIndex(p) /\ ~LockIndex(p) /\ ~WaitForLock(p)
    BY <1>2 DEF OpenIndex, CreateIndex, LockIndex, WaitForLock, At
  <2> HIDE DEF x, r
  <2> QED
    BY <2>1, <2>2, <2>3 DEF f, x
<1>3. CASE LockIndex(p)
  <2> DEFINE a == IF holder[Queue(p)][Opened(p)] = None THEN "look" ELSE "wait"
             r == [x EXCEPT !.at = a]
  <2>1. Becomes(p, r) /\ x.at = "lock"
    BY <1>3 DEF LockIndex, Becomes, At
  <2>2. a \in Places
    BY DEF Places
  <2> HIDE DEF a
  <2>3. r \in Process /\ r.at = a /\ r.fd = x.fd /\ r.done = x.done
    BY <1>0, <2>2 DEF Process
  <2>4. ~OpenIndex(p) /\ ~CreateIndex(p) /\ ~WaitForLock(p)
    BY <1>3 DEF OpenIndex, CreateIndex, LockIndex, WaitForLock, At
  <2> HIDE DEF x, r
  <2> QED
    BY <2>1, <2>3, <2>4 DEF a, x
<1>4. CASE WaitForLock(p)
  <2> DEFINE r == [x EXCEPT !.at = "open", !.fd = 0]
  <2>1. Becomes(p, r)
    BY <1>4 DEF WaitForLock, Becomes
  <2>2. r \in Process /\ r.at = "open" /\ r.fd = 0 /\ r.done = x.done
    BY <1>0 DEF Process, Places
  <2>3. ~OpenIndex(p) /\ ~CreateIndex(p) /\ ~LockIndex(p)
    BY <1>4 DEF OpenIndex, CreateIndex, LockIndex, WaitForLock, At
  <2> HIDE DEF x, r
  <2> QED
    BY <2>1, <2>2, <2>3 DEF x
<1> QED
  BY <1>1, <1>2, <1>3, <1>4

\* The entry that a key is looked up as.
LEMMA EntryShape == \A table, key : EntryOf(table, key) \in Entries \cup {0}
BY DEF EntryOf

\* The tickets are read for a new report, when the queue has changed v times.
LEMMA ScanShape ==
    ASSUME TypeInv, NEW p \in Procs, NEW v \in Nat, Scans(p, v)
    PROVE  \E r \in Process :
              /\ Becomes(p, r) /\ r.done = proc[p].done /\ r.fd = proc[p].fd
              /\ r.key = proc[p].key /\ r.at = "rename" /\ r.seen = v
<1> DEFINE x == proc[p]
           e == Entry(p)
           r == [x EXCEPT !.at = "rename", !.entry = e, !.seen = v]
<1>1. x \in Process
  BY DEF TypeInv, ProcsInv
<1>2. Becomes(p, r)
  BY DEF Scans, Becomes
<1>3. e \in Entries \cup {0}
  BY EntryShape DEF Entry
<1> HIDE DEF e
<1>4. /\ r \in Process /\ r.at = "rename" /\ r.fd = x.fd /\ r.done = x.done
      /\ r.key = x.key /\ r.seen = v
  BY <1>1, <1>3 DEF Process, Places
<1> HIDE DEF x, r
<1> QED
  BY <1>2, <1>4 DEF x

\* The report gets an entry.
LEMMA RenameShape ==
    ASSUME TypeInv, NEW p \in Procs, Rename(p)
    PROVE  \E r \in Process :
              /\ Becomes(p, r) /\ r.done = proc[p].done /\ r.fd = proc[p].fd
              /\ r.key = proc[p].key /\ r.at = "index" /\ r.entry \in Entries
              /\ report' = [report EXCEPT ![Queue(p)][r.entry] =
                               [key |-> proc[p].key, seen |-> proc[p].seen]]
<1> DEFINE x == proc[p]
<1>0. x \in Process
  BY DEF TypeInv, ProcsInv
<1>1. PICK e \in EntriesFor(index[Queue(p)][Opened(p)], proc[p].entry) :
         /\ report' = [report EXCEPT ![Queue(p)][e] = [key |-> proc[p].key, seen |-> proc[p].seen]]
         /\ proc' = [proc EXCEPT ![p].at = "index", ![p].entry = e]
  BY DEF Rename
<1>2. e \in Entries
  BY <1>0, <1>1 DEF EntriesFor, Free, Process
<1> DEFINE r == [x EXCEPT !.at = "index", !.entry = e]
<1>3. Becomes(p, r)
  BY <1>1 DEF Becomes
<1>4. /\ r \in Process /\ r.at = "index" /\ r.fd = x.fd /\ r.done = x.done
      /\ r.key = x.key /\ r.entry = e
  BY <1>0, <1>2 DEF Process, Places
<1> HIDE DEF r
<1> QED
  BY <1>1, <1>2, <1>3, <1>4

-----------------------------------------------------------------------------
(* Every step keeps the types.                                             *)

\* The lock files of a step that keeps them, but for what p has.
LEMMA SameFiles ==
    ASSUME TypeInv, NEW p \in Procs, NEW r \in Process, Becomes(p, r),
           index' = index, Own(p, r, index, holder),
           holder' = holder
    PROVE  ProcsInv'
<1>1. \A q \in Queues : Len(index[q]) \in Nat
  BY LenProperties DEF TypeInv, FilesInv
<1> QED
  BY <1>1, ProcsStep

\* A process that uses no file, and is where it needs no queue or has one.
LEMMA OwnsNothing ==
    ASSUME NEW p, NEW r, NEW files, NEW locks,
           r.at \in {"idle", "next", "forward"}, r.fd = 0
    PROVE  Own(p, r, files, locks)
BY DEF Own, Using, Owner

LEMMA WalkTypes ==
    ASSUME TypeInv, NEW p \in Procs,
           \/ Begin(p) \/ Visit(p) \/ Forward(p) \/ RemoveJob(p)
           \/ Hit(p) \/ NothingToRemove(p)
    PROVE  TypeInv'
<1>1. index' = index /\ holder' = holder /\ current' = current
  BY DEF Begin, Visit, Forward, RemoveJob, Hit, NothingToRemove
<1>2. ProcsInv'
  <2>1. CASE Begin(p) \/ Visit(p) \/ Forward(p) \/ RemoveJob(p)
    BY <1>1, <2>1, WalkShape, SameFiles
  <2>2. CASE Hit(p) \/ NothingToRemove(p)
    BY <1>1, <2>2, LeavesShape, OwnsNothing, SameFiles
  <2> QED
    BY <2>1, <2>2
<1>3. CountsInv'
  <2>1. CASE RemoveJob(p)
    <3>1. Queue(p) \in Queues
      BY <2>1, QueueShape DEF RemoveJob, At, TypeInv
    <3> QED
      BY <2>1, <3>1 DEF RemoveJob, TypeInv, CountsInv, history
  <2>2. CASE ~RemoveJob(p)
    BY <2>2 DEF Begin, Visit, Forward, Hit, NothingToRemove, TypeInv, CountsInv, history
  <2> QED
    BY <2>1, <2>2
<1> QED
  BY <1>1, <1>2, <1>3 DEF TypeInv, FilesInv

LEMMA EndTypes ==
    ASSUME TypeInv, NEW p \in Procs, Finish(p) \/ ClientGone(p) \/ IndexFails(p)
    PROVE  TypeInv'
<1>1. index' = index /\ Ends(p) /\ version' = version /\ report' = report
  BY DEF Finish, ClientGone, IndexFails
<1>2. /\ holder' \in [Queues -> Seq(Procs \cup {None})]
      /\ \A q \in Queues : Len(holder'[q]) = Len(holder[q])
  BY <1>1, EndsShape
<1>3. /\ current' \in [Queues -> Nat] /\ \A q \in Queues : current'[q] \in {current[q], 0}
      /\ CountsInv'
  <2>1. CASE IndexFails(p)
    <3>1. Queue(p) \in Queues
      BY <2>1, QueueShape DEF IndexFails, At, TypeInv
    <3> QED
      BY <2>1, <3>1 DEF IndexFails, Unlink, TypeInv, CountsInv, FilesInv
  <2>2. CASE Finish(p) \/ ClientGone(p)
    BY <2>2 DEF Finish, ClientGone, TypeInv, CountsInv, FilesInv, history
  <2> QED
    BY <2>1, <2>2, <1>1
<1>4. FilesInv'
  <2>1. \A q \in Queues : Len(index[q]) \in Nat
    BY LenProperties DEF TypeInv, FilesInv
  <2>2. ASSUME NEW q \in Queues PROVE current'[q] <= Len(index[q])
    <3>1. current[q] <= Len(index[q]) /\ Len(index[q]) \in Nat
      BY <2>1 DEF TypeInv, FilesInv
    <3>2. current'[q] = current[q] \/ current'[q] = 0
      BY <1>3
    <3> QED
      BY <3>1, <3>2
  <2> QED
    BY <1>1, <1>2, <1>3, <2>2 DEF TypeInv, FilesInv
<1>5. ProcsInv'
  <2>1. \A q \in Queues : Len(index[q]) \in Nat /\ Len(holder[q]) = Len(index[q])
    BY LenProperties DEF TypeInv, FilesInv
  <2>2. \A q \in Queues : \A i \in 1..Len(index[q]) :
           holder[q][i] \in Procs \ {p} => holder'[q][i] = holder[q][i]
    BY <1>1, <2>1, EndsShape
  <2>3. Becomes(p, Resting)
    BY <1>1, EndsShape
  <2>4. Own(p, Resting, index', holder')
    BY RestShape, OwnsNothing
  <2>5. \A q \in Queues :
           /\ Len(index[q]) <= Len(index'[q])
           /\ Len(index[q]) \in Nat /\ Len(index'[q]) \in Nat
           /\ \A i \in 1..Len(index[q]) :
                 holder[q][i] \in Procs \ {p} => holder'[q][i] = holder[q][i]
    <3> SUFFICES ASSUME NEW q \in Queues
                 PROVE  /\ Len(index[q]) <= Len(index'[q])
                        /\ Len(index[q]) \in Nat /\ Len(index'[q]) \in Nat
      BY <2>2
    <3>1. Len(index[q]) \in Nat
      BY <2>1
    <3>2. index'[q] = index[q]
      BY <1>1
    <3> QED
      BY <3>1, <3>2
  <2>6. Resting \in Process
    BY RestShape
  <2> QED
    BY <2>3, <2>4, <2>5, <2>6, ProcsStep
<1> QED
  BY <1>3, <1>4, <1>5 DEF TypeInv

LEMMA FlushTypes ==
    ASSUME TypeInv,
           \/ \E p \in Procs : FlushJob(p) \/ RemoveFails(p)
           \/ \E q \in Queues : FlushByOthers(q)
    PROVE  TypeInv'
<1>1. PICK q \in Queues : Unlink(q)
  BY QueueShape DEF FlushJob, RemoveFails, FlushByOthers, At, TypeInv
<1>2. UNCHANGED <<index, holder, report, version, late>>
  BY DEF FlushJob, RemoveFails, FlushByOthers
<1>3. FilesInv' /\ CountsInv'
  BY <1>1, <1>2 DEF Unlink, TypeInv, FilesInv, CountsInv
<1>4. ProcsInv'
  <2>1. CASE \E s \in Queues : FlushByOthers(s)
    BY <1>2, <2>1 DEF FlushByOthers, TypeInv, ProcsInv
  <2>2. ASSUME NEW p \in Procs, FlushJob(p) \/ RemoveFails(p)
        PROVE  ProcsInv'
    BY <1>2, <2>2, LeavesShape, OwnsNothing, SameFiles
  <2> QED
    BY <2>1, <2>2
<1> QED
  BY <1>3, <1>4 DEF TypeInv


LEMMA OpenTypes ==
    ASSUME TypeInv, NEW p \in Procs, OpenIndex(p) \/ LockIndex(p) \/ WaitForLock(p)
    PROVE  TypeInv'
<1>1. /\ UNCHANGED <<index, current, report, version, flushed, late>>
      /\ proc[p].at \in {"open", "lock", "wait"}
  BY DEF OpenIndex, LockIndex, WaitForLock, At, history
<1>2. CountsInv'
  BY <1>1 DEF TypeInv, CountsInv
<1>3. Queue(p) \in Queues /\ Own(p, proc[p], index, holder)
  BY <1>1, QueueShape DEF TypeInv, ProcsInv
<1>4. \A q \in Queues : Len(index[q]) \in Nat /\ Len(holder[q]) = Len(index[q])
  BY LenProperties DEF TypeInv, FilesInv
<1>5. PICK r \in Process :
         /\ Becomes(p, r) /\ r.done = proc[p].done
         /\ OpenIndex(p) => r.at = "lock" /\ r.fd = current[Queue(p)]
         /\ LockIndex(p) => /\ r.fd = proc[p].fd
                            /\ r.at = IF holder[Queue(p)][Opened(p)] = None
                                      THEN "look" ELSE "wait"
         /\ WaitForLock(p) => r.at = "open" /\ r.fd = 0
  BY OpenShape
<1>6. Last(r.done) = Queue(p) /\ r.done # <<>>
  BY <1>1, <1>3, <1>5 DEF Own, Queue
<1>7. CASE OpenIndex(p) \/ WaitForLock(p) \/ (LockIndex(p) /\ holder[Queue(p)][Opened(p)] # None)
  <2>1. holder' = holder
    BY <1>7 DEF OpenIndex, WaitForLock, LockIndex
  <2>2. Own(p, r, index, holder)
    <3>1. CASE OpenIndex(p)
      <4>1. current[Queue(p)] \in 1..Len(index[Queue(p)])
        BY <1>3, <1>4, <3>1 DEF OpenIndex, TypeInv, FilesInv
      <4> QED
        BY <1>5, <1>6, <3>1, <4>1 DEF Own, Using, Owner
    <3>2. CASE WaitForLock(p)
      BY <1>5, <1>6, <3>2 DEF Own, Using, Owner
    <3>3. CASE LockIndex(p) /\ holder[Queue(p)][Opened(p)] # None
      <4>1. proc[p].fd \in 1..Len(index[Queue(p)])
        BY <1>3, <3>3 DEF LockIndex, At, Own, Using, Queue
      <4>2. r.at = "wait" /\ r.fd = proc[p].fd
        BY <1>5, <3>3
      <4> QED
        BY <1>6, <4>1, <4>2 DEF Own, Using, Owner
    <3> QED
      BY <1>7, <3>1, <3>2, <3>3
  <2>3. ProcsInv'
    BY <1>1, <1>5, <2>1, <2>2, SameFiles
  <2> QED
    BY <1>1, <1>2, <2>1, <2>3 DEF TypeInv, FilesInv
<1>8. CASE LockIndex(p) /\ holder[Queue(p)][Opened(p)] = None
  <2> DEFINE q == Queue(p)
             i == Opened(p)
  <2>1. i \in 1..Len(index[q])
    BY <1>3, <1>8 DEF LockIndex, At, Own, Using, Queue, Opened
  <2>2. holder' = [holder EXCEPT ![q][i] = p]
    BY <1>8 DEF LockIndex
  <2>3. r.at = "look" /\ r.fd = i
    BY <1>5, <1>8 DEF Opened
  <2>4. q \in Queues /\ Last(r.done) = q /\ r.done # <<>> /\ holder[q][i] = None
    BY <1>3, <1>6, <1>8
  <2> HIDE DEF q, i
  <2>5. /\ holder[q] \in Seq(Procs \cup {None}) /\ Len(holder[q]) = Len(index[q])
        /\ holder \in [Queues -> Seq(Procs \cup {None})]
    BY <1>4, <2>4 DEF TypeInv, FilesInv
  <2>6. /\ [holder[q] EXCEPT ![i] = p] \in Seq(Procs \cup {None})
        /\ Len([holder[q] EXCEPT ![i] = p]) = Len(index[q])
        /\ \A j \in 1..Len(index[q]) :
              [holder[q] EXCEPT ![i] = p][j] = IF j = i THEN p ELSE holder[q][j]
    BY <2>1, <2>5, ExceptSeq
  <2>7. /\ holder' \in [Queues -> Seq(Procs \cup {None})]
        /\ \A s \in Queues : Len(holder'[s]) = Len(index[s])
        /\ holder'[q][i] = p
    BY <1>4, <2>1, <2>2, <2>4, <2>5, <2>6
  <2>8. \A s \in Queues : \A j \in 1..Len(index[s]) :
           holder[s][j] \in Procs \ {p} => holder'[s][j] = holder[s][j]
    BY <2>2, <2>4, <2>5, <2>6
  <2>9. Own(p, r, index, holder')
    BY <2>1, <2>3, <2>4, <2>7 DEF Own, Using, Owner
  <2>10. \A s \in Queues : /\ Len(index[s]) <= Len(index'[s])
                            /\ Len(index[s]) \in Nat /\ Len(index'[s]) \in Nat
    BY <1>1, <1>4
  <2>11. Own(p, r, index', holder')
    BY <1>1, <2>9
  <2>12. Becomes(p, r)
    BY <1>5
  <2>13. ProcsInv'
    BY <2>8, <2>10, <2>11, <2>12, ProcsStep
  <2> QED
    BY <1>1, <1>2, <2>7, <2>13 DEF TypeInv, FilesInv
<1> QED
  BY <1>7, <1>8

LEMMA CreateTypes ==
    ASSUME TypeInv, NEW p \in Procs, CreateIndex(p)
    PROVE  /\ TypeInv'
           /\ current'[Queue(p)] = Len(index[Queue(p)]) + 1
           /\ index'[Queue(p)][Len(index[Queue(p)]) + 1] = EmptyIndex
           /\ \A s \in Queues : s # Queue(p) =>
                 current'[s] = current[s] /\ index'[s] = index[s]
<1> DEFINE q == Queue(p)
           i == Len(index[q]) + 1
<1>1. /\ proc[p].at = "open" /\ current' = [current EXCEPT ![q] = i]
      /\ index' = [index EXCEPT ![q] = Append(@, EmptyIndex)]
      /\ holder' = [holder EXCEPT ![q] = Append(@, None)]
      /\ UNCHANGED <<report, version, flushed, late>>
  BY DEF CreateIndex, At, history
<1>2. q \in Queues /\ Own(p, proc[p], index, holder)
  BY <1>1, QueueShape DEF TypeInv, ProcsInv
<1>3. PICK r \in Process :
         Becomes(p, r) /\ r.done = proc[p].done /\ r.at = "lock" /\ r.fd = i
  BY OpenShape
<1>4. Last(r.done) = q /\ r.done # <<>>
  BY <1>1, <1>2, <1>3 DEF Own, Queue
<1> HIDE DEF q
<1>5. \A s \in Queues : /\ index[s] \in Seq(Table) /\ holder[s] \in Seq(Procs \cup {None})
                        /\ Len(index[s]) \in Nat /\ Len(holder[s]) = Len(index[s])
                        /\ current[s] \in Nat /\ current[s] <= Len(index[s])
  BY LenProperties DEF TypeInv, FilesInv
<1>6. EmptyIndex \in Table
  BY DEF EmptyIndex, Table, Key
<1>7. /\ Append(index[q], EmptyIndex) \in Seq(Table) /\ Len(Append(index[q], EmptyIndex)) = i
      /\ Append(index[q], EmptyIndex)[i] = EmptyIndex
  BY <1>2, <1>5, <1>6, AppendProperties
<1>8. /\ Append(holder[q], None) \in Seq(Procs \cup {None}) /\ Len(Append(holder[q], None)) = i
      /\ \A j \in 1..Len(index[q]) : Append(holder[q], None)[j] = holder[q][j]
  <2> DEFINE h == holder[q]
  <2>1. h \in Seq(Procs \cup {None}) /\ Len(h) = Len(index[q])
    BY <1>2, <1>5
  <2> HIDE DEF h
  <2>2. /\ Append(h, None) \in Seq(Procs \cup {None}) /\ Len(Append(h, None)) = Len(h) + 1
        /\ \A j \in 1..Len(h) : Append(h, None)[j] = h[j]
    BY <2>1, AppendProperties
  <2> QED
    BY <2>1, <2>2 DEF h
<1>9. /\ index \in [Queues -> Seq(Table)] /\ holder \in [Queues -> Seq(Procs \cup {None})]
      /\ current \in [Queues -> Nat]
  BY DEF TypeInv, FilesInv
<1>10. \A s \in Queues :
          /\ index'[s] = IF s = q THEN Append(index[q], EmptyIndex) ELSE index[s]
          /\ holder'[s] = IF s = q THEN Append(holder[q], None) ELSE holder[s]
          /\ current'[s] = IF s = q THEN i ELSE current[s]
  BY <1>1, <1>9
<1>11. i \in Nat /\ Len(index[q]) < i
  BY <1>2, <1>5
<1>12. FilesInv'
  <2>1. \A s \in Queues : /\ index'[s] \in Seq(Table) /\ holder'[s] \in Seq(Procs \cup {None})
                          /\ current'[s] \in Nat /\ Len(holder'[s]) = Len(index'[s])
                          /\ current'[s] <= Len(index'[s])
    <3>1. ASSUME NEW s \in Queues, s = q
          PROVE  /\ index'[s] \in Seq(Table) /\ holder'[s] \in Seq(Procs \cup {None})
                 /\ current'[s] \in Nat /\ Len(holder'[s]) = Len(index'[s])
                 /\ current'[s] <= Len(index'[s])
      <4>1. /\ index'[s] = Append(index[q], EmptyIndex) /\ current'[s] = i
            /\ holder'[s] = Append(holder[q], None)
        BY <1>10, <3>1
      <4>2. i \in Nat
        BY <1>11
      <4> HIDE DEF i
      <4>3. index'[s] \in Seq(Table) /\ Len(index'[s]) = i
        BY <1>7, <4>1, Zenon
      <4>4. holder'[s] \in Seq(Procs \cup {None}) /\ Len(holder'[s]) = i
        BY <1>8, <4>1, Zenon
      <4>5. current'[s] \in Nat /\ current'[s] <= i
        BY <4>1, <4>2
      <4> QED
        BY <4>3, <4>4, <4>5, Zenon
    <3>2. ASSUME NEW s \in Queues, s # q
          PROVE  /\ index'[s] \in Seq(Table) /\ holder'[s] \in Seq(Procs \cup {None})
                 /\ current'[s] \in Nat /\ Len(holder'[s]) = Len(index'[s])
                 /\ current'[s] <= Len(index'[s])
      <4>1. index'[s] = index[s] /\ current'[s] = current[s] /\ holder'[s] = holder[s]
        BY <1>10, <3>2
      <4> QED
        BY <1>5, <4>1, Zenon
    <3> QED
      BY <3>1, <3>2
  <2>2. /\ index' \in [Queues -> Seq(Table)] /\ holder' \in [Queues -> Seq(Procs \cup {None})]
        /\ current' \in [Queues -> Nat]
    BY <1>1, <1>9, <2>1
  <2> QED
    BY <2>1, <2>2 DEF FilesInv
<1>13. ProcsInv'
  <2>1. \A s \in Queues :
           /\ Len(index[s]) <= Len(index'[s])
           /\ Len(index[s]) \in Nat /\ Len(index'[s]) \in Nat
           /\ \A j \in 1..Len(index[s]) :
                 holder[s][j] \in Procs \ {p} => holder'[s][j] = holder[s][j]
    <3>1. ASSUME NEW s \in Queues, s = q
          PROVE  /\ Len(index[s]) <= Len(index'[s])
                 /\ Len(index[s]) \in Nat /\ Len(index'[s]) \in Nat
                 /\ \A j \in 1..Len(index[s]) : holder'[s][j] = holder[s][j]
      <4>1. Len(index'[s]) = i /\ holder'[s] = Append(holder[q], None)
        BY <1>7, <1>10, <3>1
      <4>2. i \in Nat /\ Len(index[s]) < i /\ Len(index[s]) \in Nat
        BY <1>5, <1>11, <3>1
      <4> HIDE DEF i
      <4>3. Len(index[s]) <= Len(index'[s]) /\ Len(index'[s]) \in Nat
        BY <4>1, <4>2
      <4> QED
        BY <1>8, <3>1, <4>1, <4>2, <4>3
    <3>2. ASSUME NEW s \in Queues, s # q
          PROVE  /\ Len(index[s]) <= Len(index'[s])
                 /\ Len(index[s]) \in Nat /\ Len(index'[s]) \in Nat
                 /\ \A j \in 1..Len(index[s]) : holder'[s][j] = holder[s][j]
      BY <1>5, <1>10, <3>2
    <3> QED
      BY <3>1, <3>2
  <2>2. Own(p, r, index', holder')
    <3>1. i \in 1..Len(index'[q])
      <4>1. Len(index'[q]) = i
        BY <1>2, <1>7, <1>10
      <4>2. i \in Nat /\ i >= 1
        BY <1>2, <1>5
      <4> HIDE DEF i
      <4> QED
        BY <4>1, <4>2
    <3> QED
      BY <1>3, <1>4, <3>1 DEF Own, Using, Owner
  <2> QED
    BY <1>3, <2>1, <2>2, ProcsStep
<1>14. CountsInv'
  BY <1>1 DEF TypeInv, CountsInv
<1> QED
  BY <1>2, <1>7, <1>10, <1>12, <1>13, <1>14 DEF TypeInv, q


LEMMA MakeTypes ==
    ASSUME TypeInv, NEW p \in Procs, Scan(p) \/ ScanExpires(p) \/ Rename(p)
    PROVE  TypeInv'
<1>1. index' = index /\ holder' = holder /\ proc[p].at \in {"look", "rename"}
  BY DEF Scan, ScanExpires, Scans, Rename, At
<1>2. Queue(p) \in Queues /\ Own(p, proc[p], index, holder)
  BY <1>1, QueueShape DEF TypeInv, ProcsInv
<1>3. version[Queue(p)] \in Nat /\ version[Queue(p)] + 1 \in Nat
  BY <1>2 DEF TypeInv, CountsInv
<1>4. \E r \in Process : /\ Becomes(p, r) /\ r.done = proc[p].done /\ r.fd = proc[p].fd
                         /\ \/ r.at = "rename"
                            \/ r.at = "index" /\ r.entry \in Entries
  <2>1. CASE Scan(p) \/ ScanExpires(p)
    <3>1. PICK v \in Nat : Scans(p, v)
      BY <1>3, <2>1 DEF Scan, ScanExpires
    <3> QED
      BY <3>1, ScanShape
  <2>2. CASE Rename(p)
    BY <2>2, RenameShape
  <2> QED
    BY <2>1, <2>2
<1>5. ProcsInv'
  <2>1. PICK r \in Process : /\ Becomes(p, r) /\ r.done = proc[p].done /\ r.fd = proc[p].fd
                             /\ \/ r.at = "rename"
                                \/ r.at = "index" /\ r.entry \in Entries
    BY <1>4
  <2>2. Own(p, r, index, holder)
    BY <1>1, <1>2, <2>1 DEF Own, Using, Owner
  <2> QED
    BY <1>1, <2>1, <2>2, SameFiles
<1>6. FilesInv' /\ CountsInv'
  <2>1. CASE Scan(p)
    BY <1>1, <2>1 DEF Scan, TypeInv, FilesInv, CountsInv, history
  <2>2. CASE ScanExpires(p)
    <3> DEFINE q == Queue(p)
    <3>1. /\ version' = [version EXCEPT ![q] = version[q] + 1]
          /\ current' = [current EXCEPT ![q] = 0]
          /\ flushed' = [flushed EXCEPT ![q] = version'[q]]
          /\ UNCHANGED <<report, late>>
      BY <2>2 DEF ScanExpires, Unlink
    <3>2. q \in Queues
      BY <1>2
    <3> HIDE DEF q
    <3>3. version' \in [Queues -> Nat]
      BY <3>1, <3>2 DEF TypeInv, CountsInv
    <3>4. flushed' \in [Queues -> Nat]
      BY <3>1, <3>2, <3>3 DEF TypeInv, CountsInv
    <3>5. \A s \in Queues : Len(index[s]) \in Nat
      BY LenProperties DEF TypeInv, FilesInv
    <3>6. FilesInv'
      BY <1>1, <3>1, <3>2, <3>5 DEF TypeInv, FilesInv
    <3> QED
      BY <3>1, <3>3, <3>4, <3>6 DEF TypeInv, CountsInv
  <2>3. CASE Rename(p)
    <3>1. PICK r \in Process : r.entry \in Entries /\
             report' = [report EXCEPT ![Queue(p)][r.entry] =
                            [key |-> proc[p].key, seen |-> proc[p].seen]]
      BY <2>3, RenameShape
    <3>2. [key |-> proc[p].key, seen |-> proc[p].seen] \in Report
      BY DEF TypeInv, ProcsInv, Process, Report
    <3>3. report' \in [Queues -> [Entries -> Report]]
      BY <1>2, <3>1, <3>2 DEF TypeInv, CountsInv
    <3>4. late' \in [Queues -> BOOLEAN]
      <4> DEFINE b == late[Queue(p)] \/ current[Queue(p)] # Opened(p)
      <4>1. late' = [late EXCEPT ![Queue(p)] = b] /\ b \in BOOLEAN
        BY <1>2, <2>3 DEF Rename, TypeInv, CountsInv
      <4> HIDE DEF b
      <4> QED
        BY <4>1 DEF TypeInv, CountsInv
    <3>5. UNCHANGED <<version, current, flushed>>
      BY <2>3 DEF Rename
    <3> QED
      BY <1>1, <3>3, <3>4, <3>5 DEF TypeInv, FilesInv, CountsInv
  <2> QED
    BY <2>1, <2>2, <2>3
<1> QED
  BY <1>5, <1>6 DEF TypeInv

\* The index has one more entry, and its lock is free.
LEMMA WriteTypes ==
    ASSUME TypeInv, NEW p \in Procs, WriteIndex(p)
    PROVE  /\ TypeInv'
           /\ Queue(p) \in Queues /\ Opened(p) \in 1..Len(index[Queue(p)])
           /\ proc[p].entry \in Entries
           /\ index'[Queue(p)][Opened(p)] =
                 [index[Queue(p)][Opened(p)] EXCEPT ![proc[p].entry] = proc[p].key]
           /\ \A s \in Queues : \A j \in 1..Len(index[s]) :
                 ~(s = Queue(p) /\ j = Opened(p)) => index'[s][j] = index[s][j]
<1> DEFINE q == Queue(p)
           i == Opened(p)
           e == proc[p].entry
           k == proc[p].key
<1>1. /\ proc[p].at = "index"
      /\ index' = [index EXCEPT ![q][i][e] = k]
      /\ holder' = [holder EXCEPT ![q][i] = None]
      /\ UNCHANGED <<version, current, report, flushed, late>>
  BY DEF WriteIndex, At, history
<1>2. q \in Queues /\ i \in 1..Len(index[q]) /\ e \in Entries /\ holder[q][i] = p /\ k \in Key
  <2>1. Own(p, proc[p], index, holder) /\ proc[p] \in Process
    BY DEF TypeInv, ProcsInv
  <2> QED
    BY <1>1, <2>1, QueueShape DEF TypeInv, Own, Using, Owner, Queue, Opened, Process
<1>3. PICK r \in Process : Becomes(p, r) /\ r.at \in {"next", "forward"} /\ r.fd = 0
  BY LeavesShape
<1> HIDE DEF q, i, e, k
<1>4. \A s \in Queues : /\ index[s] \in Seq(Table) /\ holder[s] \in Seq(Procs \cup {None})
                        /\ Len(index[s]) \in Nat /\ Len(holder[s]) = Len(index[s])
  BY LenProperties DEF TypeInv, FilesInv
<1>5. index[q][i] \in Table
  BY <1>2, <1>4, ElementOfSeq
<1> DEFINE t == [index[q][i] EXCEPT ![e] = k]
<1>6. t \in Table
  BY <1>2, <1>5 DEF Table
<1>7. index' = [index EXCEPT ![q] = [index[q] EXCEPT ![i] = t]]
  BY <1>1
<1> HIDE DEF t
<1>8. /\ [index[q] EXCEPT ![i] = t] \in Seq(Table) /\ Len([index[q] EXCEPT ![i] = t]) = Len(index[q])
      /\ \A j \in 1..Len(index[q]) :
            [index[q] EXCEPT ![i] = t][j] = IF j = i THEN t ELSE index[q][j]
  BY <1>2, <1>4, <1>6, ExceptSeq
<1>9. /\ [holder[q] EXCEPT ![i] = None] \in Seq(Procs \cup {None})
      /\ Len([holder[q] EXCEPT ![i] = None]) = Len(index[q])
      /\ \A j \in 1..Len(index[q]) :
            [holder[q] EXCEPT ![i] = None][j] = IF j = i THEN None ELSE holder[q][j]
  BY <1>2, <1>4, ExceptSeq
<1>10. index \in [Queues -> Seq(Table)] /\ holder \in [Queues -> Seq(Procs \cup {None})]
  BY DEF TypeInv, FilesInv
<1>11. /\ index' \in [Queues -> Seq(Table)]
       /\ \A s \in Queues : Len(index'[s]) = Len(index[s])
       /\ index'[q][i] = t
       /\ \A s \in Queues : \A j \in 1..Len(index[s]) :
             ~(s = q /\ j = i) => index'[s][j] = index[s][j]
  BY <1>2, <1>4, <1>7, <1>8, <1>10
<1>12. /\ holder' \in [Queues -> Seq(Procs \cup {None})]
       /\ \A s \in Queues : Len(holder'[s]) = Len(index[s])
       /\ \A s \in Queues : \A j \in 1..Len(index[s]) :
             ~(s = q /\ j = i) => holder'[s][j] = holder[s][j]
  BY <1>1, <1>2, <1>4, <1>9, <1>10
<1>13. FilesInv' /\ CountsInv'
  BY <1>1, <1>11, <1>12 DEF TypeInv, FilesInv, CountsInv
<1>14. ProcsInv'
  <2>1. \A s \in Queues :
           /\ Len(index[s]) <= Len(index'[s])
           /\ Len(index[s]) \in Nat /\ Len(index'[s]) \in Nat
           /\ \A j \in 1..Len(index[s]) :
                 holder[s][j] \in Procs \ {p} => holder'[s][j] = holder[s][j]
    BY <1>2, <1>4, <1>11, <1>12
  <2>2. Own(p, r, index', holder')
    BY <1>3, OwnsNothing
  <2> QED
    BY <1>3, <2>1, <2>2, ProcsStep
<1> QED
  BY <1>2, <1>11, <1>13, <1>14 DEF TypeInv, q, i, e, k, t

LEMMA TypeStep == TypeInv /\ [StatusNext]_vars => TypeInv'
<1> SUFFICES ASSUME TypeInv, [StatusNext]_vars PROVE TypeInv'
  OBVIOUS
<1>1. CASE UNCHANGED vars
  BY <1>1 DEF vars, history, TypeInv, FilesInv, CountsInv, ProcsInv
<1>2. ASSUME NEW p \in Procs, Begin(p) \/ Walk(p) \/ Show(p) \/ Change(p) \/ Fault(p)
      PROVE  TypeInv'
  BY <1>2, WalkTypes, EndTypes, FlushTypes, OpenTypes, CreateTypes, MakeTypes, WriteTypes
     DEF Walk, Show, Change, Fault
<1> QED
  BY <1>1, <1>2, FlushTypes DEF StatusNext

-----------------------------------------------------------------------------
(* The invariant.                                                          *)

\* The process p makes a report for the index file that is in the directory.
Making == {"rename", "index"}
On(p, where, q) == At(p, where) /\ Queue(p) = q /\ Opened(p) = current[q]

\* The report of an entry is for the query k, and not from before the flush.
Fits(q, e, k) == report[q][e].key = k /\ report[q][e].seen >= flushed[q]

\* What the index says is true of every entry but the one whose report the owner
\* of the lock has just put in place, and that report is the one the index will
\* name.  A report on its way is not from before the flush: whoever flushed took
\* the index away, and its number is not used again.
CacheOf(q) ==
    /\ \A p \in Procs :
          /\ On(p, "rename", q) => proc[p].seen >= flushed[q]
          /\ On(p, "index", q) => Fits(q, proc[p].entry, proc[p].key)
    /\ \A e \in Entries :
          /\ index[q][current[q]][e] # None
          /\ \A p \in Procs : ~(On(p, "index", q) /\ proc[p].entry = e)
          => Fits(q, e, index[q][current[q]][e])

CacheInv ==
    \A q \in Queues :
        /\ version[q] >= flushed[q]
        /\ current[q] # 0 /\ ~late[q] => CacheOf(q)

Inv == TypeInv /\ CacheInv

LEMMA InitCache == Init => CacheInv
BY DEF Init, CacheInv

\* An index file has one owner.
LEMMA OneOwner ==
    ASSUME TypeInv, NEW p \in Procs, NEW o \in Procs,
           proc[p].at \in Owner, proc[o].at \in Owner,
           Queue(p) = Queue(o), Opened(p) = Opened(o)
    PROVE  p = o
<1>1. Own(p, proc[p], index, holder) /\ Own(o, proc[o], index, holder)
  BY DEF TypeInv, ProcsInv
<1> QED
  BY <1>1 DEF Own, Queue, Opened

\* Steps that leave the cache of a queue, and who makes a report for it, alone.
LEMMA QuietQueue ==
    ASSUME NEW q \in Queues, current[q] # 0 /\ ~late[q] => CacheOf(q),
           current'[q] = current[q], index'[q] = index[q], report'[q] = report[q],
           flushed'[q] = flushed[q], late'[q] = late[q],
           \A o \in Procs :
               \/ proc'[o] = proc[o]
               \/ proc'[o].at \notin Making /\ proc[o].at \notin Making
    PROVE  current'[q] # 0 /\ ~late'[q] => CacheOf(q)'
<1> SUFFICES ASSUME current'[q] # 0, ~late'[q] PROVE CacheOf(q)'
  OBVIOUS
<1>1. CacheOf(q)
  OBVIOUS
<1>2. ASSUME NEW o \in Procs, proc'[o] = proc[o]
      PROVE  \A where : On(o, where, q)' <=> On(o, where, q)
  BY <1>2 DEF On, At, Queue, Opened
<1>3. ASSUME NEW o \in Procs, proc'[o].at \notin Making /\ proc[o].at \notin Making
      PROVE  \A where \in Making : ~On(o, where, q)' /\ ~On(o, where, q)
  BY <1>3 DEF On, At
<1>4. \A o \in Procs, where \in Making :
         /\ On(o, where, q)' <=> On(o, where, q)
         /\ On(o, where, q) => proc'[o] = proc[o]
  BY <1>2, <1>3
<1>5. "rename" \in Making /\ "index" \in Making
  BY DEF Making
<1>6. \A e, k : Fits(q, e, k)' <=> Fits(q, e, k)
  BY DEF Fits
<1>7. ASSUME NEW o \in Procs
      PROVE  /\ On(o, "rename", q)' => proc'[o].seen >= flushed'[q]
             /\ On(o, "index", q)' => Fits(q, proc[o].entry, proc[o].key)' /\ proc'[o] = proc[o]
  BY <1>1, <1>4, <1>5, <1>6 DEF CacheOf
<1>8. ASSUME NEW o \in Procs, On(o, "index", q)'
      PROVE  report'[q][proc'[o].entry].key = proc'[o].key
             /\ report'[q][proc'[o].entry].seen >= flushed'[q]
  BY <1>7, <1>8 DEF Fits
<1>9. ASSUME NEW e \in Entries, index'[q][current'[q]][e] # None,
             \A o \in Procs : ~(On(o, "index", q)' /\ proc'[o].entry = e)
      PROVE  report'[q][e].key = index'[q][current'[q]][e] /\ report'[q][e].seen >= flushed'[q]
  <2>1. index[q][current[q]][e] # None
    BY <1>9
  <2>2. \A o \in Procs : ~(On(o, "index", q) /\ proc[o].entry = e)
    BY <1>4, <1>5, <1>9
  <2>3. Fits(q, e, index[q][current[q]][e])
    BY <1>1, <2>1, <2>2 DEF CacheOf
  <2> QED
    BY <2>3 DEF Fits
<1> QED
  BY <1>7, <1>8, <1>9 DEF CacheOf, Fits


\* What p becomes, and what the others do not.
LEMMA BecomesOne ==
    ASSUME TypeInv, NEW p \in Procs, NEW r, Becomes(p, r)
    PROVE  proc'[p] = r /\ \A o \in Procs : o # p => proc'[o] = proc[o]
BY DEF Becomes, TypeInv, ProcsInv

\* The walk, lprm up to the flush, and lpq up to the report.
LEMMA QuietSteps ==
    ASSUME Inv, NEW p \in Procs,
           \/ Begin(p) \/ Visit(p) \/ Forward(p) \/ RemoveJob(p)
           \/ Hit(p) \/ NothingToRemove(p) \/ Finish(p) \/ ClientGone(p)
           \/ OpenIndex(p) \/ LockIndex(p) \/ WaitForLock(p)
    PROVE  CacheInv'
<1> USE DEF Inv
<1>1. /\ UNCHANGED <<current, index, report, flushed, late>>
      /\ proc[p].at \notin Making
  BY DEF Begin, Visit, Forward, RemoveJob, Hit, NothingToRemove, Finish, ClientGone,
     OpenIndex, LockIndex, WaitForLock, At, Making, history
<1>2. \E r : Becomes(p, r) /\ r.at \notin Making
  <2>1. CASE Begin(p) \/ Visit(p) \/ Forward(p) \/ RemoveJob(p)
    BY <2>1, WalkShape DEF Using, Owner, Making
  <2>2. CASE Hit(p) \/ NothingToRemove(p)
    BY <2>2, LeavesShape DEF Making
  <2>3. CASE Finish(p) \/ ClientGone(p)
    BY <2>3, RestShape DEF Finish, ClientGone, Ends, Becomes, Making
  <2>4. CASE OpenIndex(p) \/ LockIndex(p) \/ WaitForLock(p)
    BY <2>4, OpenShape DEF Making
  <2> QED
    BY <2>1, <2>2, <2>3, <2>4
<1>3. \A o \in Procs : \/ proc'[o] = proc[o]
                       \/ proc'[o].at \notin Making /\ proc[o].at \notin Making
  BY <1>1, <1>2, BecomesOne
<1>4. \A q \in Queues : version'[q] >= flushed'[q]
  <2>1. version' = version \/ RemoveJob(p)
    BY DEF Begin, Visit, Forward, Hit, NothingToRemove, Finish, ClientGone,
       OpenIndex, LockIndex, WaitForLock
  <2>2. version' = version \/ version' = [version EXCEPT ![Queue(p)] = @ + 1]
    BY <2>1 DEF RemoveJob
  <2>3. \A q \in Queues : version[q] \in Nat /\ flushed[q] \in Nat /\ version[q] >= flushed[q]
    BY DEF TypeInv, CountsInv, CacheInv
  <2>4. \A q \in Queues : version'[q] = version[q] \/ version'[q] = version[q] + 1
    BY <2>2 DEF TypeInv, CountsInv
  <2>5. flushed' = flushed
    BY <1>1
  <2> SUFFICES ASSUME NEW q \in Queues PROVE version'[q] >= flushed'[q]
    OBVIOUS
  <2>6. version[q] \in Nat /\ flushed[q] \in Nat /\ version[q] >= flushed[q]
    BY <2>3
  <2> QED
    BY <2>4, <2>5, <2>6
<1>5. \A q \in Queues : current[q] # 0 /\ ~late[q] => CacheOf(q)
  BY DEF CacheInv
<1>6. ASSUME NEW q \in Queues PROVE current'[q] # 0 /\ ~late'[q] => CacheOf(q)'
  <2> HIDE DEF Inv
  <2> QED
    BY <1>1, <1>3, <1>5, QuietQueue
<1> QED
  BY <1>4, <1>6 DEF CacheInv

\* The queue q is flushed: its index is gone, and those of the other queues are
\* as they were.
LEMMA FlushSteps ==
    ASSUME Inv, NEW q \in Queues, Unlink(q), index' = index, report' = report, late' = late,
           version' \in [Queues -> Nat], \A s \in Queues : version'[s] >= version[s],
           \A o \in Procs :
               \/ proc'[o] = proc[o]
               \/ /\ proc'[o].at \notin Making \/ Last(proc'[o].done) = q
                  /\ proc[o].at \notin Making \/ Last(proc[o].done) = q
    PROVE  CacheInv'
<1> USE DEF Inv
<1>1. /\ \A s \in Queues : current'[s] = IF s = q THEN 0 ELSE current[s]
      /\ \A s \in Queues : flushed'[s] = IF s = q THEN version'[q] ELSE flushed[s]
  BY DEF Unlink, TypeInv, FilesInv, CountsInv
<1>2. ASSUME NEW s \in Queues PROVE version'[s] >= flushed'[s]
  <2>1. version[s] \in Nat /\ version'[s] \in Nat /\ flushed[s] \in Nat
        /\ version[s] >= flushed[s] /\ version'[s] >= version[s]
    BY DEF TypeInv, CountsInv, CacheInv
  <2> QED
    BY <1>1, <2>1
<1>3. ASSUME NEW s \in Queues, s # q, current'[s] # 0, ~late'[s]
      PROVE  CacheOf(s)'
  <2>1. /\ current'[s] = current[s] /\ flushed'[s] = flushed[s] /\ CacheOf(s)
    BY <1>1, <1>3 DEF CacheInv
  <2>2. \A o \in Procs, where \in Making :
           /\ On(o, where, s)' <=> On(o, where, s)
           /\ On(o, where, s) => proc'[o] = proc[o]
    <3>1. ASSUME NEW o \in Procs, proc'[o] = proc[o]
          PROVE  \A where : On(o, where, s)' <=> On(o, where, s)
      BY <2>1, <3>1 DEF On, At, Queue, Opened
    <3>2. ASSUME NEW o \in Procs, NEW where \in Making,
                 proc'[o].at \notin Making \/ Last(proc'[o].done) = q,
                 proc[o].at \notin Making \/ Last(proc[o].done) = q
          PROVE  ~On(o, where, s)' /\ ~On(o, where, s)
      BY <1>3, <3>2 DEF On, At, Queue
    <3> QED
      BY <3>1, <3>2
  <2>3. "rename" \in Making /\ "index" \in Making
    BY DEF Making
  <2>4. ASSUME NEW o \in Procs
        PROVE  /\ On(o, "rename", s)' => proc'[o].seen >= flushed'[s]
               /\ On(o, "index", s)' =>
                     /\ report'[s][proc'[o].entry].key = proc'[o].key
                     /\ report'[s][proc'[o].entry].seen >= flushed'[s]
    <3>1. On(o, "rename", s) => proc[o].seen >= flushed[s]
      BY <2>1 DEF CacheOf
    <3>2. On(o, "index", s) => /\ report[s][proc[o].entry].key = proc[o].key
                               /\ report[s][proc[o].entry].seen >= flushed[s]
      BY <2>1 DEF CacheOf, Fits
    <3> QED
      BY <2>1, <2>2, <2>3, <3>1, <3>2
  <2>5. ASSUME NEW e \in Entries, index'[s][current'[s]][e] # None,
               \A o \in Procs : ~(On(o, "index", s)' /\ proc'[o].entry = e)
        PROVE  report'[s][e].key = index'[s][current'[s]][e] /\ report'[s][e].seen >= flushed'[s]
    <3>1. index[s][current[s]][e] # None
      BY <2>1, <2>5
    <3>2. \A o \in Procs : ~(On(o, "index", s) /\ proc[o].entry = e)
      BY <2>2, <2>3, <2>5
    <3>3. Fits(s, e, index[s][current[s]][e])
      BY <2>1, <3>1, <3>2 DEF CacheOf
    <3> QED
      BY <2>1, <3>3 DEF Fits
  <2> QED
    BY <2>4, <2>5 DEF CacheOf, Fits
<1> QED
  BY <1>1, <1>2, <1>3 DEF CacheInv

LEMMA FlushKeeps ==
    ASSUME Inv,
           \/ \E p \in Procs : ScanExpires(p) \/ IndexFails(p) \/ FlushJob(p) \/ RemoveFails(p)
           \/ \E q \in Queues : FlushByOthers(q)
    PROVE  CacheInv'
<1> USE DEF Inv
<1>0. version \in [Queues -> Nat] /\ \A s \in Queues : version[s] >= version[s]
  BY DEF TypeInv, CountsInv
<1>1. ASSUME NEW q \in Queues, FlushByOthers(q) PROVE CacheInv'
  BY <1>0, <1>1, FlushSteps DEF FlushByOthers
<1>2. ASSUME NEW p \in Procs, ScanExpires(p) PROVE CacheInv'
  <2>1. proc[p].at = "look"
    BY <1>2 DEF ScanExpires, Scans, At
  <2>2. Queue(p) \in Queues
    BY <2>1, QueueShape DEF TypeInv
  <2>3. version[Queue(p)] + 1 \in Nat
    BY <1>0, <2>2
  <2>4. PICK r : Becomes(p, r) /\ r.done = proc[p].done
    BY <1>2, <2>3, ScanShape DEF ScanExpires
  <2>5. \A o \in Procs :
           \/ proc'[o] = proc[o]
           \/ /\ proc'[o].at \notin Making \/ Last(proc'[o].done) = Queue(p)
              /\ proc[o].at \notin Making \/ Last(proc[o].done) = Queue(p)
    BY <2>4, BecomesOne DEF Queue
  <2>6. version' \in [Queues -> Nat] /\ \A s \in Queues : version'[s] >= version[s]
    BY <1>0, <1>2, <2>2 DEF ScanExpires
  <2>7. Unlink(Queue(p)) /\ UNCHANGED <<index, report, late>>
    BY <1>2 DEF ScanExpires
  <2> QED
    BY <2>2, <2>5, <2>6, <2>7, FlushSteps
<1>3. ASSUME NEW p \in Procs, IndexFails(p) PROVE CacheInv'
  <2>1. proc[p].at = "index"
    BY <1>3 DEF IndexFails, At
  <2>2. Queue(p) \in Queues
    BY <2>1, QueueShape DEF TypeInv
  <2>3. Becomes(p, Resting)
    BY <1>3 DEF IndexFails, Ends, Becomes
  <2>4. \A o \in Procs :
           \/ proc'[o] = proc[o]
           \/ /\ proc'[o].at \notin Making \/ Last(proc'[o].done) = Queue(p)
              /\ proc[o].at \notin Making \/ Last(proc[o].done) = Queue(p)
    BY <2>3, BecomesOne, RestShape DEF Queue, Making
  <2>5. Unlink(Queue(p)) /\ UNCHANGED <<version, index, report, late>>
    BY <1>3 DEF IndexFails
  <2> QED
    BY <1>0, <2>2, <2>4, <2>5, FlushSteps
<1>4. ASSUME NEW p \in Procs, FlushJob(p) \/ RemoveFails(p) PROVE CacheInv'
  <2>1. proc[p].at = "flush"
    BY <1>4 DEF FlushJob, RemoveFails, At
  <2>2. Queue(p) \in Queues
    BY <2>1, QueueShape DEF TypeInv
  <2>3. PICK r : Becomes(p, r) /\ r.at \in {"next", "forward"}
    BY <1>4, LeavesShape
  <2>4. \A o \in Procs :
           \/ proc'[o] = proc[o]
           \/ /\ proc'[o].at \notin Making \/ Last(proc'[o].done) = Queue(p)
              /\ proc[o].at \notin Making \/ Last(proc[o].done) = Queue(p)
    BY <2>1, <2>3, BecomesOne DEF Making
  <2>5. Unlink(Queue(p)) /\ UNCHANGED <<version, index, report, late>>
    BY <1>4 DEF FlushJob, RemoveFails
  <2> QED
    BY <1>0, <2>2, <2>4, <2>5, FlushSteps
<1> QED
  BY <1>1, <1>2, <1>3, <1>4


\* A new index file has no entries, and a number nobody has yet.
LEMMA CreateKeeps ==
    ASSUME Inv, NEW p \in Procs, CreateIndex(p)
    PROVE  CacheInv'
<1> USE DEF Inv
<1> PICK q : q = Queue(p)
  OBVIOUS
<1>1. proc[p].at = "open" /\ UNCHANGED <<version, report, flushed, late>>
  BY DEF CreateIndex, At, history
<1>2. q \in Queues /\ Len(index[q]) \in Nat
  BY <1>1, QueueShape, LenProperties DEF TypeInv, FilesInv
<1>3. PICK r : Becomes(p, r) /\ r.at = "lock"
  BY OpenShape
<1>4. \A o \in Procs : \/ proc'[o] = proc[o]
                       \/ proc'[o].at \notin Making /\ proc[o].at \notin Making
  BY <1>1, <1>3, BecomesOne DEF Making
<1>5. /\ current'[q] = Len(index[q]) + 1
      /\ index'[q][Len(index[q]) + 1] = EmptyIndex
      /\ \A s \in Queues : s # q => current'[s] = current[s] /\ index'[s] = index[s]
  BY CreateTypes
<1>6. ASSUME NEW s \in Queues, s # q
      PROVE  current'[s] # 0 /\ ~late'[s] => CacheOf(s)'
  BY <1>1, <1>4, <1>5, <1>6, QuietQueue DEF CacheInv
<1>7. CacheOf(q)'
  <2>1. ASSUME NEW o \in Procs, NEW where \in Making PROVE ~On(o, where, q)'
    <3> SUFFICES ASSUME On(o, where, q)' PROVE FALSE
      OBVIOUS
    <3>1. proc'[o] = proc[o]
      BY <1>4, <2>1 DEF On, At
    <3>2. proc[o].at \in Using /\ Last(proc[o].done) = q /\ proc[o].fd = current'[q]
      BY <2>1, <3>1 DEF On, At, Queue, Opened, Using, Owner, Making
    <3>3. proc[o].fd \in 1..Len(index[q])
      BY <3>2 DEF TypeInv, ProcsInv, Own
    <3> QED
      BY <1>2, <1>5, <3>2, <3>3
  <2>2. ASSUME NEW e \in Entries PROVE index'[q][current'[q]][e] = None
    BY <1>5 DEF EmptyIndex
  <2> QED
    BY <2>1, <2>2 DEF CacheOf, Making
<1>8. \A s \in Queues : version'[s] >= flushed'[s]
  BY <1>1 DEF CacheInv
<1> QED
  BY <1>6, <1>7, <1>8 DEF CacheInv

\* The report shows the queue as it is now.
LEMMA ScanKeeps ==
    ASSUME Inv, NEW p \in Procs, Scan(p)
    PROVE  CacheInv'
<1> USE DEF Inv
<1> PICK q : q = Queue(p)
  OBVIOUS
<1>1. proc[p].at = "look" /\ UNCHANGED <<version, current, index, report, flushed, late>>
  BY DEF Scan, Scans, At, history
<1>2. q \in Queues /\ version[q] \in Nat
  BY <1>1, QueueShape DEF TypeInv, CountsInv
<1>3. PICK r : /\ Becomes(p, r) /\ r.done = proc[p].done /\ r.fd = proc[p].fd
               /\ r.at = "rename" /\ r.seen = version[q]
  BY <1>2, ScanShape DEF Scan
<1>4. proc'[p] = r /\ \A o \in Procs : o # p => proc'[o] = proc[o]
  BY <1>3, BecomesOne
<1>5. ASSUME NEW s \in Queues, current'[s] # 0, ~late'[s]
      PROVE  CacheOf(s)'
  <2>1. CacheOf(s)
    BY <1>1, <1>5 DEF CacheInv
  <2>2. \A o \in Procs : o # p =>
           \A where : On(o, where, s)' <=> On(o, where, s)
    BY <1>1, <1>4 DEF On, At, Queue, Opened
  <2>3. /\ ~On(p, "index", s)' /\ ~On(p, "index", s)
        /\ On(p, "rename", s)' => s = q
    BY <1>1, <1>3, <1>4 DEF On, At, Queue
  <2>4. \A o \in Procs : /\ On(o, "index", s)' <=> On(o, "index", s)
                         /\ On(o, "index", s) => proc'[o] = proc[o]
    BY <1>4, <2>2, <2>3
  <2>5. ASSUME NEW o \in Procs, On(o, "rename", s)' PROVE proc'[o].seen >= flushed'[s]
    <3>1. CASE o # p
      BY <1>1, <1>4, <2>1, <2>2, <2>5, <3>1 DEF CacheOf
    <3>2. CASE o = p
      BY <1>1, <1>2, <1>3, <1>4, <2>3, <2>5, <3>2 DEF CacheInv
    <3> QED
      BY <3>1, <3>2
  <2>6. ASSUME NEW o \in Procs, On(o, "index", s)'
        PROVE  report'[s][proc'[o].entry].key = proc'[o].key
               /\ report'[s][proc'[o].entry].seen >= flushed'[s]
    BY <1>1, <2>1, <2>4, <2>6 DEF CacheOf, Fits
  <2>7. ASSUME NEW e \in Entries, index'[s][current'[s]][e] # None,
               \A o \in Procs : ~(On(o, "index", s)' /\ proc'[o].entry = e)
        PROVE  report'[s][e].key = index'[s][current'[s]][e] /\ report'[s][e].seen >= flushed'[s]
    <3>1. \A o \in Procs : ~(On(o, "index", s) /\ proc[o].entry = e)
      BY <2>4, <2>7
    <3>2. Fits(s, e, index[s][current[s]][e])
      BY <1>1, <2>1, <2>7, <3>1 DEF CacheOf
    <3> QED
      BY <1>1, <3>2 DEF Fits
  <2> QED
    BY <2>5, <2>6, <2>7 DEF CacheOf, Fits
<1>6. \A s \in Queues : version'[s] >= flushed'[s]
  BY <1>1 DEF CacheInv
<1> QED
  BY <1>5, <1>6 DEF CacheInv

\* A report is put in place by the owner of the lock, or it is late.
LEMMA RenameKeeps ==
    ASSUME Inv, NEW p \in Procs, Rename(p)
    PROVE  CacheInv'
<1> USE DEF Inv
<1> PICK q : q = Queue(p)
  OBVIOUS
<1>1. /\ proc[p].at = "rename" /\ UNCHANGED <<version, current, index, flushed>>
      /\ late' = [late EXCEPT ![q] = @ \/ current[q] # Opened(p)]
  BY DEF Rename, At
<1>2. q \in Queues
  BY <1>1, QueueShape DEF TypeInv
<1>3. PICK r : /\ Becomes(p, r) /\ r.done = proc[p].done /\ r.fd = proc[p].fd
               /\ r.key = proc[p].key /\ r.at = "index" /\ r.entry \in Entries
               /\ report' = [report EXCEPT ![q][r.entry] =
                                [key |-> proc[p].key, seen |-> proc[p].seen]]
  BY RenameShape
<1>4. proc'[p] = r /\ \A o \in Procs : o # p => proc'[o] = proc[o]
  BY <1>3, BecomesOne
<1>5. /\ report'[q][r.entry] = [key |-> proc[p].key, seen |-> proc[p].seen]
      /\ \A e \in Entries : e # r.entry => report'[q][e] = report[q][e]
      /\ \A s \in Queues : s # q => report'[s] = report[s] /\ late'[s] = late[s]
      /\ ~late'[q] => ~late[q] /\ current[q] = Opened(p)
  BY <1>1, <1>2, <1>3 DEF TypeInv, CountsInv
<1>6. ASSUME NEW s \in Queues, s # q, current'[s] # 0, ~late'[s]
      PROVE  CacheOf(s)'
  <2>1. CacheOf(s)
    BY <1>1, <1>5, <1>6 DEF CacheInv
  <2>2. \A o \in Procs : \A where :
          /\ On(o, where, s)' <=> On(o, where, s)
          /\ On(o, where, s) => o # p
    BY <1>1, <1>3, <1>4, <1>6 DEF On, At, Queue, Opened
  <2>3. \A o \in Procs : \A where : On(o, where, s) => proc'[o] = proc[o]
    BY <1>4, <2>2
  <2>4. ASSUME NEW o \in Procs, On(o, "rename", s)' PROVE proc'[o].seen >= flushed'[s]
    BY <1>1, <2>1, <2>2, <2>3, <2>4 DEF CacheOf
  <2>5. ASSUME NEW o \in Procs, On(o, "index", s)'
        PROVE  report'[s][proc'[o].entry].key = proc'[o].key
               /\ report'[s][proc'[o].entry].seen >= flushed'[s]
    BY <1>1, <1>5, <1>6, <2>1, <2>2, <2>3, <2>5 DEF CacheOf, Fits
  <2>6. ASSUME NEW e \in Entries, index'[s][current'[s]][e] # None,
               \A o \in Procs : ~(On(o, "index", s)' /\ proc'[o].entry = e)
        PROVE  report'[s][e].key = index'[s][current'[s]][e] /\ report'[s][e].seen >= flushed'[s]
    <3>1. \A o \in Procs : ~(On(o, "index", s) /\ proc[o].entry = e)
      BY <2>2, <2>3, <2>6
    <3>2. Fits(s, e, index[s][current[s]][e])
      BY <1>1, <2>1, <2>6, <3>1 DEF CacheOf
    <3> QED
      BY <1>1, <1>5, <1>6, <3>2 DEF Fits
  <2> QED
    BY <2>4, <2>5, <2>6 DEF CacheOf, Fits
<1>7. ASSUME current'[q] # 0, ~late'[q]
      PROVE  CacheOf(q)'
  <2>1. CacheOf(q) /\ current[q] = Opened(p)
    BY <1>1, <1>2, <1>5, <1>7 DEF CacheInv
  <2>2. On(p, "rename", q) /\ On(p, "index", q)' /\ ~On(p, "index", q)
    BY <1>1, <1>3, <1>4, <2>1 DEF On, At, Queue, Opened
  <2>3. proc[p].seen >= flushed[q]
    BY <2>1, <2>2 DEF CacheOf
  <2>4. ASSUME NEW o \in Procs, NEW where \in Making, o # p
        PROVE  ~On(o, where, q) /\ ~On(o, where, q)'
    <3>1. On(o, where, q)' <=> On(o, where, q)
      BY <1>1, <1>4, <2>4 DEF On, At, Queue, Opened
    <3>2. ~On(o, where, q)
      BY <1>1, <2>1, <2>4, OneOwner DEF On, At, Making, Owner
    <3> QED
      BY <3>1, <3>2
  <2>5. "rename" \in Making /\ "index" \in Making
    BY DEF Making
  <2>6. ASSUME NEW o \in Procs
        PROVE  /\ ~On(o, "rename", q)'
               /\ On(o, "index", q)' =>
                     /\ report'[q][proc'[o].entry].key = proc'[o].key
                     /\ report'[q][proc'[o].entry].seen >= flushed'[q]
    <3>1. CASE o # p
      BY <2>4, <2>5, <3>1
    <3>2. CASE o = p
      <4>1. ~On(p, "rename", q)'
        BY <1>3, <1>4 DEF On, At
      <4> QED
        BY <1>1, <1>3, <1>4, <1>5, <2>3, <3>2, <4>1
    <3> QED
      BY <3>1, <3>2
  <2>7. ASSUME NEW e \in Entries, index'[q][current'[q]][e] # None,
               \A o \in Procs : ~(On(o, "index", q)' /\ proc'[o].entry = e)
        PROVE  report'[q][e].key = index'[q][current'[q]][e] /\ report'[q][e].seen >= flushed'[q]
    <3>1. e # r.entry
      BY <1>4, <2>2, <2>7
    <3>2. \A o \in Procs : ~On(o, "index", q)
      BY <2>2, <2>4, <2>5
    <3>3. Fits(q, e, index[q][current[q]][e])
      BY <1>1, <2>1, <2>7, <3>2 DEF CacheOf
    <3> QED
      BY <1>1, <1>5, <3>1, <3>3 DEF Fits
  <2> QED
    BY <2>6, <2>7 DEF CacheOf, Fits
<1>8. \A s \in Queues : version'[s] >= flushed'[s]
  BY <1>1 DEF CacheInv
<1> QED
  BY <1>6, <1>7, <1>8 DEF CacheInv

\* The index names the report that the owner of its lock put in place.
LEMMA WriteKeeps ==
    ASSUME Inv, NEW p \in Procs, WriteIndex(p)
    PROVE  CacheInv'
<1> USE DEF Inv
<1> PICK q, i, d, k : q = Queue(p) /\ i = Opened(p) /\ d = proc[p].entry /\ k = proc[p].key
  OBVIOUS
<1>1. /\ proc[p].at = "index" /\ UNCHANGED <<version, current, report, flushed, late>>
  BY DEF WriteIndex, At, history
<1>2. /\ q \in Queues /\ i \in 1..Len(index[q]) /\ d \in Entries
      /\ index'[q][i] = [index[q][i] EXCEPT ![d] = k]
      /\ \A s \in Queues : \A j \in 1..Len(index[s]) :
            ~(s = q /\ j = i) => index'[s][j] = index[s][j]
  <2>1. /\ Queue(p) \in Queues /\ Opened(p) \in 1..Len(index[Queue(p)])
        /\ proc[p].entry \in Entries
        /\ index'[Queue(p)][Opened(p)] =
              [index[Queue(p)][Opened(p)] EXCEPT ![proc[p].entry] = proc[p].key]
        /\ \A s \in Queues : \A j \in 1..Len(index[s]) :
              ~(s = Queue(p) /\ j = Opened(p)) => index'[s][j] = index[s][j]
    BY WriteTypes
  <2> QED
    BY <2>1, Zenon
<1>3. PICK r : Becomes(p, r) /\ r.at \in {"next", "forward"}
  BY LeavesShape
<1>4. proc'[p] = r /\ \A o \in Procs : o # p => proc'[o] = proc[o]
  BY <1>3, BecomesOne
<1>5. index[q][i] \in [Entries -> Key]
  BY <1>2, ElementOfSeq DEF TypeInv, FilesInv, Table
<1>6. ASSUME NEW s \in Queues, current'[s] # 0, ~late'[s]
      PROVE  CacheOf(s)'
  <2>1. CacheOf(s) /\ current[s] \in 1..Len(index[s])
    <3>1. CacheOf(s)
      BY <1>1, <1>6 DEF CacheInv
    <3>2. current[s] \in Nat /\ current[s] # 0 /\ current[s] <= Len(index[s])
      BY <1>1, <1>6 DEF TypeInv, FilesInv
    <3>3. Len(index[s]) \in Nat
      BY LenProperties DEF TypeInv, FilesInv
    <3> QED
      BY <3>1, <3>2, <3>3
  <2>2. \A o \in Procs : o # p => \A where : On(o, where, s)' <=> On(o, where, s)
    BY <1>1, <1>4 DEF On, At, Queue, Opened
  <2>3. \A where \in Making : ~On(p, where, s)'
    BY <1>3, <1>4 DEF On, At, Making
  <2>4. "rename" \in Making /\ "index" \in Making
    BY DEF Making
  <2>5. ASSUME NEW o \in Procs
        PROVE  /\ On(o, "rename", s)' => proc'[o].seen >= flushed'[s]
               /\ On(o, "index", s)' =>
                     /\ report'[s][proc'[o].entry].key = proc'[o].key
                     /\ report'[s][proc'[o].entry].seen >= flushed'[s]
    <3>1. CASE o = p
      BY <2>3, <2>4, <3>1
    <3>2. CASE o # p
      BY <1>1, <1>4, <2>1, <2>2, <3>2 DEF CacheOf, Fits
    <3> QED
      BY <3>1, <3>2
  <2>6. ASSUME NEW e \in Entries, index'[s][current'[s]][e] # None,
               \A o \in Procs : ~(On(o, "index", s)' /\ proc'[o].entry = e)
        PROVE  report'[s][e].key = index'[s][current'[s]][e] /\ report'[s][e].seen >= flushed'[s]
    <3>1. CASE s = q /\ current[s] = i /\ e = d
      <4>1. On(p, "index", q)
        BY <1>1, <3>1 DEF On, At
      <4>2. Fits(q, d, k)
        BY <2>1, <3>1, <4>1 DEF CacheOf
      <4>3. index'[s][current'[s]][e] = k
        BY <1>1, <1>2, <1>5, <3>1
      <4> QED
        BY <1>1, <3>1, <4>2, <4>3 DEF Fits
    <3>2. CASE ~(s = q /\ current[s] = i /\ e = d)
      <4>1. index'[s][current'[s]][e] = index[s][current[s]][e]
        BY <1>1, <1>2, <1>5, <2>1, <3>2
      <4>2. ~(On(p, "index", s) /\ proc[p].entry = e)
        BY <3>2 DEF On
      <4>3. \A o \in Procs : ~(On(o, "index", s) /\ proc[o].entry = e)
        BY <1>4, <2>2, <2>6, <4>2
      <4>4. Fits(s, e, index[s][current[s]][e])
        BY <2>1, <2>6, <4>1, <4>3 DEF CacheOf
      <4> QED
        BY <1>1, <4>1, <4>4 DEF Fits
    <3> QED
      BY <3>1, <3>2
  <2> QED
    BY <2>5, <2>6 DEF CacheOf, Fits
<1>7. \A s \in Queues : version'[s] >= flushed'[s]
  BY <1>1 DEF CacheInv
<1> QED
  BY <1>6, <1>7 DEF CacheInv

\* What a process, a flush or a failure does to the types and to the cache.
LEMMA InvStep == Inv /\ [StatusNext]_vars => Inv'
<1> SUFFICES ASSUME Inv, [StatusNext]_vars PROVE CacheInv'
  BY TypeStep DEF Inv
<1>1. CASE UNCHANGED vars
  BY <1>1 DEF vars, history, Inv, CacheInv, CacheOf, On, At, Queue, Opened, Fits
<1>2. ASSUME NEW p \in Procs, Begin(p) \/ Walk(p) \/ Show(p) \/ Change(p) \/ Fault(p)
      PROVE  CacheInv'
  BY <1>2, QuietSteps, FlushKeeps, CreateKeeps, ScanKeeps, RenameKeeps, WriteKeeps
     DEF Walk, Show, Change, Fault
<1> QED
  BY <1>1, <1>2, FlushKeeps DEF StatusNext

-----------------------------------------------------------------------------
(* The order of the locks.  W is a set of walks, and rank falls along them. *)

\* What a request has done and has to do: at a queue, what is under it is next.
Walked(r) ==
    [done |-> r.done,
     todo |-> IF r.at \in {"next", "forward"} THEN r.todo ELSE Onward(Last(r.done), r.todo)]

Opening == {"open", "lock", "wait"}

\* A request is on one of the walks, and only lpq looks at an index.
OnWalk(r, W) ==
    /\ r.kind = "lpq" /\ r.at # "idle" => Walked(r) \in W
    /\ r.at \in Opening \cup Owner => r.kind = "lpq"
    /\ r.at \in {"remove", "flush"} => r.kind # "lpq"

\* A request that has a lock of a queue q has come to q, and to a queue after it
\* if it is about to lock one.
Passed(r, q) ==
    /\ r.kind = "lpq" /\ r.at # "idle"
    /\ \E k \in 1..Len(r.done) :
         r.done[k] = q /\ (r.at \in Opening => k < Len(r.done))

OrderInv(W) ==
    /\ \A p \in Procs : OnWalk(proc[p], W)
    /\ \A q \in Queues : \A i \in 1..Len(holder[q]) :
         holder[q][i] # None => Passed(proc[holder[q][i]], q)

\* Nobody gets a lock but the process of the step, and it has passed the queue.
LEMMA OrderStep ==
    ASSUME NEW W, TypeInv, TypeInv', OrderInv(W), NEW p \in Procs,
           \A o \in Procs \ {p} : proc'[o] = proc[o],
           OnWalk(proc'[p], W),
           \A q \in Queues : \A i \in 1..Len(holder'[q]) :
               \/ holder'[q][i] = None
               \/ i \in 1..Len(holder[q]) /\ holder'[q][i] = holder[q][i]
                  /\ holder[q][i] # p
               \/ holder'[q][i] = p /\ Passed(proc'[p], q)
    PROVE  OrderInv(W)'
<1>1. ASSUME NEW o \in Procs PROVE OnWalk(proc'[o], W)
  BY DEF OrderInv
<1>2. ASSUME NEW q \in Queues, NEW i \in 1..Len(holder'[q]), holder'[q][i] # None
      PROVE  Passed(proc'[holder'[q][i]], q)
  <2>1. CASE holder'[q][i] = p /\ Passed(proc'[p], q)
    BY <2>1
  <2>2. CASE i \in 1..Len(holder[q]) /\ holder'[q][i] = holder[q][i] /\ holder[q][i] # p
    <3>1. holder[q][i] \in Procs
      BY <1>2, <2>2, ElementOfSeq DEF TypeInv, FilesInv
    <3>2. Passed(proc[holder[q][i]], q)
      BY <1>2, <2>2 DEF OrderInv
    <3> QED
      BY <2>2, <3>1, <3>2
  <2> QED
    BY <1>2, <2>1, <2>2
<1> QED
  BY <1>1, <1>2 DEF OrderInv

\* A step that leaves the locks as they are.
LEMMA SameLocks ==
    ASSUME NEW W, TypeInv, TypeInv', OrderInv(W), NEW p \in Procs,
           \A o \in Procs \ {p} : proc'[o] = proc[o],
           OnWalk(proc'[p], W), UNCHANGED holder,
           \A q \in Queues : Passed(proc[p], q) => Passed(proc'[p], q)
    PROVE  OrderInv(W)'
<1>1. ASSUME NEW q \in Queues, NEW i \in 1..Len(holder'[q]), holder[q][i] # None
      PROVE  \/ holder[q][i] # p
             \/ holder[q][i] = p /\ Passed(proc'[p], q)
  BY <1>1 DEF OrderInv
<1> QED
  BY <1>1, OrderStep

\* A new request has no lock, and begins one of the walks.
LEMMA BeginOrder ==
    ASSUME NEW W, NEW rank, OneOrder(W, rank), TypeInv, TypeInv', OrderInv(W),
           NEW p \in Procs, Begin(p)
    PROVE  OrderInv(W)'
<1>1. PICK s \in Starts, kind \in {"lpq", "lprm"}, key \in Queries :
        proc' = [proc EXCEPT ![p] = [Resting EXCEPT
                    !.at = "next", !.kind = kind, !.key = key, !.asked = s, !.todo = s]]
  BY DEF Begin
<1> DEFINE r == [Resting EXCEPT !.at = "next", !.kind = kind, !.key = key,
                                !.asked = s, !.todo = s]
<1>2. proc'[p] = r /\ \A o \in Procs \ {p} : proc'[o] = proc[o]
  BY <1>1 DEF TypeInv, ProcsInv
<1>3. r.at = "next" /\ r.done = <<>> /\ r.todo = s
  BY DEF Resting
<1> HIDE DEF r
<1>4. Walked(r) \in W
  BY <1>3 DEF OneOrder, Walked
<1>5. OnWalk(proc'[p], W)
  BY <1>2, <1>3, <1>4 DEF OnWalk, Opening, Owner
<1>6. (\A q : ~Passed(proc[p], q)) /\ UNCHANGED holder
  BY DEF Begin, At, Passed
<1> QED
  BY <1>2, <1>5, <1>6, SameLocks

\* The queue that is visited is the next of the walk; the locks the request has
\* are of queues before it.
LEMMA VisitOrder ==
    ASSUME NEW W, NEW rank, OneOrder(W, rank), TypeInv, TypeInv', OrderInv(W),
           NEW p \in Procs, Visit(p)
    PROVE  OrderInv(W)'
<1> DEFINE a == Ahead(p)
           q == PrimaryOf[Head(a)]
           r == proc[p]
           t == proc'[p]
<1>1. /\ a # <<>> /\ r.at = "next" /\ UNCHANGED holder
      /\ \A o \in Procs \ {p} : proc'[o] = proc[o]
      /\ t.at = IF r.kind = "lpq" THEN "open" ELSE "remove"
      /\ t.kind = r.kind /\ t.done = Append(r.done, q) /\ t.todo = Tail(a)
  BY DEF Visit, At, Is, TypeInv, ProcsInv, Process
<1>2. r.done \in Seq(Queues) /\ r.kind \in {"lpq", "lprm", None}
  BY DEF TypeInv, ProcsInv, Process
<1>3. q \in Queues
  BY <1>1, AheadShape DEF TypeInv
<1>4. OnWalk(r, W)
  BY DEF OrderInv
<1> HIDE DEF a, q, r, t
<1>5. /\ Len(t.done) = Len(r.done) + 1 /\ Len(r.done) \in Nat
      /\ \A k \in 1..Len(r.done) : t.done[k] = r.done[k]
      /\ t.done[Len(t.done)] = q
  BY <1>1, <1>2, <1>3, AppendProperties
<1>6. Last(t.done) = q
  BY <1>5 DEF Last
<1>7. OnWalk(t, W)
  <2>1. CASE r.kind = "lpq"
    <3>1. [done |-> r.done, todo |-> r.todo] \in W
      BY <1>1, <1>4, <2>1 DEF OnWalk, Walked
    <3> DEFINE x == [done |-> r.done, todo |-> r.todo]
    <3>2. PICK i \in DOMAIN r.todo :
            /\ Fresh(r, i) /\ \A j \in 1..i - 1 : ~Fresh(r, j)
            /\ Head(a) = r.todo[i] /\ Tail(a) = SubSeq(r.todo, i + 1, Len(r.todo))
      BY <1>1, AheadShape DEF TypeInv, a, r
    <3>3. x.done = r.done /\ x.todo = r.todo /\ x \in W
      BY <3>1
    <3> HIDE DEF x
    <3>4. \A j : Fresh(x, j) <=> Fresh(r, j)
      BY <3>3 DEF Fresh
    <3>5. [done |-> Append(r.done, q), todo |-> Onward(q, Tail(a))] \in W
      BY <3>2, <3>3, <3>4 DEF OneOrder, q
    <3> QED
      BY <1>1, <1>6, <2>1, <3>5 DEF OnWalk, Walked
  <2>2. CASE r.kind # "lpq"
    BY <1>1, <2>2 DEF OnWalk, Opening, Owner
  <2> QED
    BY <2>1, <2>2
<1>8. ASSUME NEW s \in Queues, Passed(r, s) PROVE Passed(t, s)
  BY <1>1, <1>5, <1>8 DEF Passed
<1> QED
  BY <1>1, <1>7, <1>8, SameLocks DEF r, t

\* A request that goes on where it is stays on its walk and keeps what it passed.
LEMMA StaysOn ==
    ASSUME NEW W, NEW r, NEW t, OnWalk(r, W),
           t.kind = r.kind /\ t.done = r.done /\ t.todo = r.todo,
           \/ r.at = "forward" /\ t.at = "next"
           \/ r.at \in Opening \cup Owner /\ t.at \in Opening \cup Owner
              /\ (t.at \in Opening => r.at \in Opening)
           \/ r.at = "remove" /\ t.at = "flush"
    PROVE  OnWalk(t, W) /\ \A q : Passed(r, q) => Passed(t, q)
<1>1. Walked(t) = Walked(r)
  BY DEF Walked, Opening, Owner
<1>2. r.at # "idle"
  BY DEF Opening, Owner
<1> QED
  BY <1>1, <1>2 DEF OnWalk, Passed, Opening, Owner

\* The steps of a request at a queue that lock nothing.
LEMMA StayOrder ==
    ASSUME NEW W, TypeInv, TypeInv', OrderInv(W), NEW p \in Procs,
           \/ Forward(p) \/ OpenIndex(p) \/ WaitForLock(p) \/ Scan(p) \/ ScanExpires(p)
           \/ Rename(p) \/ RemoveJob(p)
    PROVE  OrderInv(W)'
<1> DEFINE r == proc[p]
           t == proc'[p]
<1> USE DEF TypeInv, ProcsInv, Process, At
<1>1. /\ UNCHANGED holder /\ \A o \in Procs \ {p} : proc'[o] = proc[o]
      /\ t.kind = r.kind /\ t.done = r.done /\ t.todo = r.todo
      /\ \/ r.at = "forward" /\ t.at = "next"
         \/ r.at = "open" /\ t.at = "lock"
         \/ r.at = "wait" /\ t.at = "open"
         \/ r.at = "look" /\ t.at = "rename"
         \/ r.at = "rename" /\ t.at = "index"
         \/ r.at = "remove" /\ t.at = "flush"
  <2>1. CASE Forward(p)     BY <2>1 DEF Forward
  <2>2. CASE OpenIndex(p)   BY <2>2 DEF OpenIndex
  <2>3. CASE WaitForLock(p) BY <2>3 DEF WaitForLock
  <2>4. CASE Scan(p)        BY <2>4 DEF Scan, Scans
  <2>5. CASE ScanExpires(p) BY <2>5 DEF ScanExpires, Scans
  <2>6. CASE Rename(p)
    <3>1. PICK e : proc' = [proc EXCEPT ![p].at = "index", ![p].entry = e]
      BY <2>6 DEF Rename
    <3>2. UNCHANGED holder /\ r.at = "rename"
      BY <2>6 DEF Rename
    <3> QED
      BY <3>1, <3>2
  <2>7. CASE RemoveJob(p)   BY <2>7 DEF RemoveJob
  <2> QED
    BY <2>1, <2>2, <2>3, <2>4, <2>5, <2>6, <2>7
<1>2. OnWalk(r, W)
  BY DEF OrderInv
<1> HIDE DEF r, t
<1>3. OnWalk(t, W) /\ \A q : Passed(r, q) => Passed(t, q)
  BY <1>1, <1>2, StaysOn DEF Opening, Owner
<1> QED
  BY <1>1, <1>3, SameLocks DEF r, t

\* A request that goes on to what is under a queue is where it was on its walk.
LEMMA GoesOn ==
    ASSUME NEW W, NEW r \in Process, r.at \notin {"idle", "next", "forward"}, OnWalk(r, W)
    PROVE  /\ OnWalk(Deeper(r, Last(r.done)), W)
           /\ \A q : Passed(r, q) => Passed(Deeper(r, Last(r.done)), q)
<1> DEFINE t == Deeper(r, Last(r.done))
<1>1. /\ t.at \in {"next", "forward"} /\ t.kind = r.kind /\ t.done = r.done
      /\ t.todo = Onward(Last(r.done), r.todo)
  BY DEF Deeper, Process
<1> HIDE DEF t
<1>2. Walked(t) = Walked(r)
  BY <1>1 DEF Walked
<1> QED
  BY <1>1, <1>2 DEF OnWalk, Passed, Opening, Owner, t

\* The steps that end a visit.
LEMMA DeeperOrder ==
    ASSUME NEW W, TypeInv, TypeInv', OrderInv(W), NEW p \in Procs,
           Hit(p) \/ WriteIndex(p) \/ FlushJob(p) \/ NothingToRemove(p)
    PROVE  OrderInv(W)'
<1> DEFINE r == proc[p]
           t == proc'[p]
<1>1. /\ r \in Process /\ r.at \notin {"idle", "next", "forward"} /\ OnWalk(r, W)
      /\ t = Deeper(r, Last(r.done)) /\ \A o \in Procs \ {p} : proc'[o] = proc[o]
  BY DEF Hit, WriteIndex, FlushJob, NothingToRemove, At, Queue, TypeInv, ProcsInv, OrderInv
<1> HIDE DEF t
<1>2. OnWalk(t, W) /\ \A q : Passed(r, q) => Passed(t, q)
  BY <1>1, GoesOn
<1>3. CASE UNCHANGED holder
  BY <1>1, <1>2, <1>3, SameLocks DEF t
<1>4. CASE WriteIndex(p)
  <2>1. ASSUME NEW q \in Queues, NEW i \in 1..Len(holder'[q]),
               holder'[q][i] # None
        PROVE  i \in 1..Len(holder[q]) /\ holder'[q][i] = holder[q][i]
    <3>1. holder' = [holder EXCEPT ![Queue(p)][Opened(p)] = None]
      BY <1>4 DEF WriteIndex
    <3>2. holder[q] \in Seq(Procs \cup {None}) /\ holder \in [Queues -> Seq(Procs \cup {None})]
      BY DEF TypeInv, FilesInv
    <3>3. CASE q # Queue(p)
      BY <3>1, <3>2, <3>3
    <3>4. CASE q = Queue(p)
      <4>1. holder'[q] = [holder[q] EXCEPT ![Opened(p)] = None]
        BY <3>1, <3>2, <3>4
      <4>2. Len(holder'[q]) = Len(holder[q])
        BY <3>2, <4>1
      <4> QED
        BY <2>1, <3>2, <4>1, <4>2
    <3> QED
      BY <3>3, <3>4
  <2>2. ASSUME NEW q \in Queues, NEW i \in 1..Len(holder'[q]), holder'[q][i] = p
        PROVE  Passed(t, q)
    <3>1. holder[q][i] = p /\ i \in 1..Len(holder[q]) /\ p # None
      BY <2>1, <2>2
    <3> QED
      BY <1>2, <3>1 DEF OrderInv, r
  <2> QED
    BY <1>1, <1>2, <2>1, <2>2, OrderStep DEF t
<1> QED
  BY <1>3, <1>4 DEF Hit, FlushJob, NothingToRemove

\* lprm, which has no lock, does not look under a queue where it failed.
LEMMA FailOrder ==
    ASSUME NEW W, TypeInv, TypeInv', OrderInv(W), NEW p \in Procs, RemoveFails(p)
    PROVE  OrderInv(W)'
<1> DEFINE r == proc[p]
           t == proc'[p]
<1>1. /\ UNCHANGED holder /\ \A o \in Procs \ {p} : proc'[o] = proc[o]
      /\ r.at = "flush" /\ t.at = "next" /\ t.kind = r.kind
  BY DEF RemoveFails, At, TypeInv, ProcsInv, Process
<1>2. r.kind # "lpq"
  BY <1>1 DEF OrderInv, OnWalk
<1> HIDE DEF r, t
<1>3. OnWalk(t, W) /\ \A q : ~Passed(r, q)
  BY <1>1, <1>2 DEF OnWalk, Passed, Opening, Owner
<1> QED
  BY <1>1, <1>3, SameLocks DEF r, t

\* A process that locks an index has come to the queue; a new index is nobody's.
LEMMA LockOrder ==
    ASSUME NEW W, TypeInv, TypeInv', OrderInv(W), NEW p \in Procs,
           CreateIndex(p) \/ LockIndex(p)
    PROVE  OrderInv(W)'
<1> DEFINE r == proc[p]
           t == proc'[p]
           q == Queue(p)
           i == Opened(p)
<1>1. /\ \A o \in Procs \ {p} : proc'[o] = proc[o]
      /\ t.kind = r.kind /\ t.done = r.done /\ t.todo = r.todo
      /\ \/ r.at = "open" /\ t.at = "lock" /\ holder' = [holder EXCEPT ![q] = Append(@, None)]
         \/ r.at = "lock" /\ t.at = "wait" /\ UNCHANGED holder
         \/ r.at = "lock" /\ t.at = "look" /\ holder' = [holder EXCEPT ![q][i] = p]
  <2> USE DEF At, TypeInv, ProcsInv, Process
  <2>1. CASE CreateIndex(p)
    BY <2>1 DEF CreateIndex
  <2>2. CASE LockIndex(p)
    <3>1. CASE holder[q][i] = None
      BY <2>2, <3>1 DEF LockIndex
    <3>2. CASE holder[q][i] # None
      BY <2>2, <3>2 DEF LockIndex
    <3> QED
      BY <3>1, <3>2
  <2> QED
    BY <2>1, <2>2
<1>2. q \in Queues /\ r.done \in Seq(Queues) /\ OnWalk(r, W)
  BY <1>1, QueueShape DEF TypeInv, OrderInv
<1>3. holder \in [Queues -> Seq(Procs \cup {None})]
  BY DEF TypeInv, FilesInv
<1>4. r.done # <<>> /\ q = Last(r.done)
  BY <1>1 DEF TypeInv, ProcsInv, Own, Queue
<1>5. Len(r.done) \in 1..Len(r.done) /\ r.done[Len(r.done)] = q
  BY <1>2, <1>4, LenProperties, EmptySeq DEF Last
<1> HIDE DEF r, t, q, i
<1>6. OnWalk(t, W)
  <2>1. Walked(t) = Walked(r)
    BY <1>1 DEF Walked
  <2> QED
    BY <1>1, <1>2, <2>1 DEF OnWalk, Opening, Owner
<1>7. ASSUME NEW s \in Queues, Passed(r, s) PROVE Passed(t, s)
  BY <1>1, <1>7 DEF Passed, Opening
<1>8. CASE UNCHANGED holder
  BY <1>1, <1>6, <1>7, <1>8, SameLocks DEF r, t
<1>9. CASE holder' = [holder EXCEPT ![q] = Append(@, None)]
  <2>1. ASSUME NEW s \in Queues, NEW j \in 1..Len(holder'[s]), holder'[s][j] # None
        PROVE  j \in 1..Len(holder[s]) /\ holder'[s][j] = holder[s][j]
    BY <1>2, <1>3, <1>9, <2>1
  <2>2. ASSUME NEW s \in Queues, NEW j \in 1..Len(holder'[s]), holder'[s][j] = p
        PROVE  Passed(t, s)
    <3>1. holder[s][j] = p /\ j \in 1..Len(holder[s]) /\ p # None
      BY <2>1, <2>2
    <3> QED
      BY <1>7, <3>1 DEF OrderInv, r
  <2> QED
    BY <1>1, <1>6, <2>1, <2>2, OrderStep DEF t
<1>10. CASE t.at = "look" /\ holder' = [holder EXCEPT ![q][i] = p]
  <2>1. Passed(t, q)
    BY <1>1, <1>2, <1>5, <1>10 DEF Passed, OnWalk, Opening, Owner
  <2>2. ASSUME NEW s \in Queues, NEW j \in 1..Len(holder'[s])
        PROVE  /\ j \in 1..Len(holder[s])
               /\ holder'[s][j] = holder[s][j] \/ (s = q /\ holder'[s][j] = p)
    <3>1. CASE s # q
      BY <1>2, <1>3, <1>10, <3>1
    <3>2. CASE s = q
      <4>1. holder'[q] = [holder[q] EXCEPT ![i] = p]
        BY <1>2, <1>3, <1>10
      <4>2. Len(holder'[q]) = Len(holder[q]) /\ holder[q] \in Seq(Procs \cup {None})
        BY <1>2, <1>3, <4>1
      <4> QED
        BY <3>2, <4>1, <4>2
    <3> QED
      BY <3>1, <3>2
  <2>3. ASSUME NEW s \in Queues, NEW j \in 1..Len(holder'[s]), holder'[s][j] = p
        PROVE  Passed(t, s)
    <3>1. CASE s = q
      BY <2>1, <3>1
    <3>2. CASE s # q
      <4>1. holder[s][j] = p /\ j \in 1..Len(holder[s]) /\ p # None
        BY <2>2, <2>3, <3>2
      <4> QED
        BY <1>7, <4>1 DEF OrderInv, r
    <3> QED
      BY <3>1, <3>2
  <2> QED
    BY <1>1, <1>6, <2>2, <2>3, OrderStep DEF t
<1> QED
  BY <1>1, <1>8, <1>9, <1>10

\* A process that ends has no locks.
LEMMA EndOrder ==
    ASSUME NEW W, TypeInv, TypeInv', OrderInv(W), NEW p \in Procs, Ends(p)
    PROVE  OrderInv(W)'
<1>1. /\ proc'[p] = Resting /\ \A o \in Procs \ {p} : proc'[o] = proc[o]
      /\ holder' = [q \in Queues |-> [i \in DOMAIN holder[q] |->
                       IF holder[q][i] = p THEN None ELSE holder[q][i]]]
  BY DEF Ends, TypeInv, ProcsInv
<1>2. OnWalk(proc'[p], W)
  BY <1>1 DEF OnWalk, Resting, Opening, Owner
<1>3. ASSUME NEW q \in Queues, NEW i \in 1..Len(holder'[q])
      PROVE  \/ holder'[q][i] = None
             \/ i \in 1..Len(holder[q]) /\ holder'[q][i] = holder[q][i]
                /\ holder[q][i] # p
  <2>1. holder[q] \in Seq(Procs \cup {None})
    BY DEF TypeInv, FilesInv
  <2>2. holder'[q] = [j \in 1..Len(holder[q]) |->
                        IF holder[q][j] = p THEN None ELSE holder[q][j]]
    BY <1>1, <2>1
  <2>3. Len(holder'[q]) = Len(holder[q])
    BY <2>1, <2>2
  <2> QED
    BY <2>2, <2>3
<1>4. \A o \in Procs \ {p} : proc'[o] = proc[o]
  BY <1>1
<1> QED
  BY <1>2, <1>3, <1>4, OrderStep

\* Every step keeps the requests on their walks.
LEMMA OrderNext ==
    ASSUME NEW W, NEW rank, OneOrder(W, rank)
    PROVE  TypeInv /\ OrderInv(W) /\ [StatusNext]_vars => (TypeInv /\ OrderInv(W))'
<1> SUFFICES ASSUME TypeInv, OrderInv(W), [StatusNext]_vars PROVE (TypeInv /\ OrderInv(W))'
  OBVIOUS
<1>1. TypeInv'
  BY TypeStep
<1>2. CASE UNCHANGED vars
  BY <1>1, <1>2 DEF vars, OrderInv
<1>3. ASSUME NEW q \in Queues, FlushByOthers(q) PROVE OrderInv(W)'
  BY <1>3 DEF FlushByOthers, OrderInv
<1>4. ASSUME NEW p \in Procs, Begin(p) \/ Walk(p) PROVE OrderInv(W)'
  BY <1>1, <1>4, BeginOrder, VisitOrder, StayOrder, EndOrder DEF Walk, Finish
<1>5. ASSUME NEW p \in Procs, Show(p) PROVE OrderInv(W)'
  BY <1>1, <1>5, StayOrder, DeeperOrder, LockOrder DEF Show
<1>6. ASSUME NEW p \in Procs, Change(p) \/ Fault(p) PROVE OrderInv(W)'
  BY <1>1, <1>6, StayOrder, DeeperOrder, FailOrder, EndOrder
     DEF Change, Fault, IndexFails, ClientGone
<1> QED
  BY <1>1, <1>2, <1>3, <1>4, <1>5, <1>6 DEF StatusNext

\* Of the processes in a circle one is farthest on its walk; the queue it waits for
\* is behind the process that has the lock of it, which is then farther.
LEMMA NoCircle ==
    ASSUME NEW W, NEW rank, OneOrder(W, rank), TypeInv, OrderInv(W)
    PROVE  NoCircularWait
<1> SUFFICES ASSUME NEW S \in SUBSET Procs, S # {},
                    \A p \in S : At(p, "wait") /\ holder[Queue(p)][Opened(p)] \in S
             PROVE  FALSE
  BY DEF NoCircularWait
<1> DEFINE T == {rank[Queue(p)] : p \in S}
<1>1. ASSUME NEW p \in S
      PROVE  /\ Queue(p) \in Queues /\ proc[p].done \in Seq(Queues)
             /\ proc[p].done # <<>> /\ Queue(p) = proc[p].done[Len(proc[p].done)]
             /\ rank[Queue(p)] \in Nat
  <2>1. Queue(p) \in Queues /\ proc[p].done \in Seq(Queues)
    BY QueueShape DEF TypeInv, At
  <2>2. proc[p].done # <<>>
    BY DEF TypeInv, ProcsInv, Own, At
  <2> QED
    BY <2>1, <2>2 DEF Queue, Last, OneOrder
<1>2. T \subseteq Nat /\ T # {}
  <2>1. \A p \in S : rank[Queue(p)] \in Nat
    BY <1>1
  <2>2. T \subseteq Nat
    BY <2>1
  <2>3. PICK p \in S : TRUE
    OBVIOUS
  <2>4. rank[Queue(p)] \in T
    OBVIOUS
  <2> QED
    BY <2>2, <2>4
<1>3. PICK p \in S : \A o \in S : rank[Queue(p)] <= rank[Queue(o)]
  <2> HIDE DEF T
  <2>1. PICK n \in T : \A m \in T : ~(<<m, n>> \in OpToRel(<, Nat))
    BY <1>2, NatLessThanWellFounded, WFMin, Zenon
  <2>2. ASSUME NEW m \in T PROVE n <= m
    <3>1. <<m, n>> \in Nat \X Nat
      BY <1>2
    <3>2. ~(m < n)
      BY <2>1, <3>1 DEF OpToRel
    <3> QED
      BY <1>2, <3>2
  <2>3. PICK p \in S : n = rank[Queue(p)]
    BY DEF T
  <2>4. \A o \in S : rank[Queue(o)] \in T
    BY DEF T
  <2> QED
    BY <2>2, <2>3, <2>4
<1> DEFINE q == Queue(p)
           o == holder[q][Opened(p)]
           d == proc[o].done
<1>4. o \in S /\ q \in Queues /\ Opened(p) \in 1..Len(holder[q])
  <2>1. Opened(p) \in 1..Len(index[q])
    BY DEF TypeInv, ProcsInv, Own, Using, Owner, Opened, At, Queue
  <2> QED
    BY <1>1, <2>1 DEF TypeInv, FilesInv
<1>5. Passed(proc[o], q) /\ o # None /\ o \in Procs
  BY <1>4 DEF OrderInv
<1>6. proc[o].at = "wait"
  BY <1>4 DEF At
<1>7. PICK k \in 1..Len(d) : d[k] = q /\ k < Len(d)
  BY <1>5, <1>6 DEF Passed, Opening
<1>8. Walked(proc[o]) \in W /\ Walked(proc[o]).done = d
  BY <1>5, <1>6 DEF OrderInv, OnWalk, Passed, Walked
<1>9. d \in Seq(Queues) /\ Queue(o) = d[Len(d)] /\ rank[Queue(o)] \in Nat
  BY <1>1, <1>4
<1> HIDE DEF d
<1>10. rank[d[k]] > rank[d[Len(d)]]
  <2>1. k \in DOMAIN d /\ Len(d) \in DOMAIN d
    BY <1>7, <1>9, LenProperties
  <2> QED
    BY <1>7, <1>8, <2>1 DEF OneOrder
<1> QED
  BY <1>1, <1>3, <1>4, <1>7, <1>9, <1>10

-----------------------------------------------------------------------------
(* Theorems.                                                               *)

\* When nobody has the lock of an index, each entry leads to a report for its
\* query that is not from before the last flush, however many requests look,
\* scan, remove, flush and fail at once; but for a queue where a report was put
\* in place for an index that was gone (Get_queue_status, Get_queue_remove).
THEOREM CacheIsTrue == StatusSpec => []IndexIsTrue
<1>1. Inv => IndexIsTrue
  <2> SUFFICES ASSUME Inv, NEW q \in Queues, current[q] # 0,
                      holder[q][current[q]] = None, ~late[q],
                      NEW e \in Entries, index[q][current[q]][e] # None
               PROVE  /\ report[q][e].key = index[q][current[q]][e]
                      /\ report[q][e].seen >= flushed[q]
    BY DEF IndexIsTrue
  <2>1. CacheOf(q)
    BY DEF Inv, CacheInv
  <2>2. ASSUME NEW p \in Procs PROVE ~On(p, "index", q)
    <3>1. Own(p, proc[p], index, holder)
      BY DEF Inv, TypeInv, ProcsInv
    <3> QED
      BY <3>1 DEF On, At, Queue, Opened, Own, Owner
  <2> QED
    BY <2>1, <2>2 DEF CacheOf, Fits
<1>2. Init => Inv
  BY InitTypes, InitCache DEF Inv
<1> QED
  BY <1>1, <1>2, InvStep, PTL DEF StatusSpec

\* Requests that meet the queues in one order, however they begin, where they end
\* and what is flushed meanwhile, never wait for each other's locks in a circle,
\* although each keeps the lock of every queue it was served from the cache of
\* (Get_queue_status).
THEOREM OneOrderNoCircularWait ==
    ASSUME NEW CONSTANT W, NEW CONSTANT rank, OneOrder(W, rank)
    PROVE  StatusSpec => []NoCircularWait
<1>1. Init => TypeInv /\ OrderInv(W)
  <2> SUFFICES ASSUME Init PROVE OrderInv(W)
    BY InitTypes
  <2>1. \A p \in Procs : proc[p] = Resting
    BY DEF Init
  <2>2. \A q \in Queues : Len(holder[q]) = 0
    BY DEF Init
  <2> QED
    BY <2>1, <2>2 DEF OrderInv, OnWalk, Resting, Opening, Owner
<1> QED
  BY <1>1, OrderNext, NoCircle, PTL DEF StatusSpec
=============================================================================

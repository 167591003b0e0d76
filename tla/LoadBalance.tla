---- MODULE LoadBalance ----
(***************************************************************************)
(* A load balance queue: the master process of Do_queue_jobs for a queue   *)
(* with "sv", its list of server queues, the chooser, Move_job, and the    *)
(* processes of the server queues with their lock files (lpd_jobs.c).      *)
(*                                                                         *)
(* A process for the master queue reads its control file before it tries   *)
(* the lock, and decides by what it read: a master may come and go in      *)
(* between. Taking the lock, or reading the pid of its holder and sending  *)
(* the signal, is one step here, and so are the end of the loop and the    *)
(* release of the lock; QueueServer has what is between. A master that is  *)
(* signalled after its release goes again with its own copy of the control *)
(* file: it is then a process that has read the file just after it.        *)
(***************************************************************************)
EXTENDS Integers, FiniteSets, Sequences, SequencesExt, FiniteSetsExt

CONSTANTS
    Server_names,   \* :sv=, the server queues in the order of the printcap
    Jobs,           \* numbers: the order of Sort_order
    Accepts,        \* the jobs whose class each server queue does not hold
    Scenes,         \* settings of the master queue, the server queues that are
                    \* stopped at first, the queues each job may be sent to and
                    \* the kinds of events that may happen
    Pids,           \* identities for the processes of one server queue
    Starters,       \* identities for processes that do not have the lock of
                    \* the master queue yet
    MaxEvents       \* processes killed, copies failed, printers aborted, lpc commands

VARIABLES
    conf,       \* [chooser, scan (chooser_scan_queue), stopped, sent, events]
    tickets,    \* job tickets of the master queue, 0, and of the server queues
    control,    \* spool control files of the server queues
    order,      \* SERVER_ORDER in the control file of the master queue
    changed,    \* CHANGE in that file
    starter,    \* processes started for the master queue: "start", or "ready" for
                \* the lock with what they read of its control file
    receiver,   \* per job: Idle, or the queue it came to and the SERVER_ORDER
                \* that was read
    master,     \* the process that holds the lock of the master queue
    proc,       \* processes of the server queues
    printed,    \* history: how often a job was printed
    cut,        \* history: jobs a killed process was moving or printing
    longer,     \* history: <<a, b>>: a was seen free in a second before b was
    died,       \* history: a process of a server queue was killed
    events

vars == <<conf, tickets, control, order, changed, starter, receiver, master,
          proc, printed, cut, longer, died, events>>

Servers == ToSet(Server_names)
Queues == {0} \union Servers

\* The numbers of the server queues stand for their names, 0 for the master queue.
ASSUME NamesAssumption == Servers \subseteq Nat \ {0}
ASSUME ListAssumption == Server_names \in Seq(Servers)
ASSUME JobsAssumption == Jobs \subseteq Nat

Idle == [to |-> -1, order |-> <<>>]

Waiting(q, j) == tickets[q][j] = "ready"
InQueue(q) == {j \in Jobs : Waiting(q, j)}

\* an entry of the servers list: the queue, its process (0: none is known),
\* what is known of its control file, and DONE_TIME. Only the order of the
\* times matters; "now" tells a finish seen by this process from the i+1 of
\* the start.
Entry(s, i) == [pr |-> s, server |-> 0, change |-> control[s].change,
                stopped |-> control[s].stopped, done |-> i, now |-> FALSE]

NoStarter == [at |-> "none", order |-> <<>>, change |-> FALSE]

\* the master: where it is, Susr1, Sort_order, the servers list and CHANGE in its
\* Spool_control; a chooser or a list without a server for a job
\* (chooser_did_not_find_server); the job in Move_job and where it goes; whether
\* Wait_for_subserver collected a child
NoMaster == [at |-> "none", susr1 |-> FALSE, sort |-> {}, list |-> <<>>, change |-> FALSE,
             dnf |-> FALSE, job |-> 0, to |-> 0, reaped |-> FALSE]
\* a process of a server queue: Sort_order, what it knows of its control file,
\* Susr1 and the job it prints
NoProc == [at |-> "none", jobs |-> {}, stopped |-> FALSE, susr1 |-> FALSE, job |-> 0]

\* the elements of S in the order of the pairs in before
InOrder(S, before) ==
    [n \in 1..Cardinality(S) |->
        CHOOSE i \in S : Cardinality({k \in S : <<k, i>> \in before}) = n - 1]

\* the list once more in the order of DONE_TIME; equal times keep their
\* places, and the times become their ranks
Earlier(list) ==
    {x \in (DOMAIN list) \X (DOMAIN list) :
        \/ list[x[1]].done < list[x[2]].done
        \/ list[x[1]].done = list[x[2]].done /\ x[1] < x[2]}
Rank(list, i) ==
    Cardinality({list[k].done : k \in DOMAIN list} \cap 0..(list[i].done - 1))
ByDoneTime(list) ==
    LET at == InOrder(DOMAIN list, Earlier(list))
    IN  [n \in DOMAIN list |-> [list[at[n]] EXCEPT !.done = Rank(list, at[n])]]

ListOrder(list) == [i \in DOMAIN list |-> list[i].pr]

-----------------------------------------------------------------------------

Init ==
    /\ conf \in Scenes
    /\ tickets = [q \in Queues |-> [j \in Jobs |-> "none"]]
    /\ control = [s \in Servers |-> [change |-> FALSE, stopped |-> s \in conf.stopped]]
    /\ order = <<>> /\ changed = FALSE
    /\ starter = [n \in Starters |-> NoStarter]
    /\ receiver = [j \in Jobs |-> Idle]
    /\ master = NoMaster
    /\ proc = [s \in Servers |-> [p \in Pids |-> NoProc]]
    /\ printed = [j \in Jobs |-> 0]
    /\ cut = {} /\ longer = {} /\ died = FALSE /\ events = 0

Happens(kind) == kind \in conf.events /\ events < MaxEvents /\ events' = events + 1

-----------------------------------------------------------------------------
(* Jobs and commands from outside *)

New(j) == \A q \in Queues : tickets[q][j] = "none"

\* a request to lpd for the master queue: a process is started
Request == \E n \in Starters : /\ starter[n].at = "none"
                               /\ starter' = [starter EXCEPT ![n] = [NoStarter EXCEPT !.at = "start"]]

\* SIGUSR1 to the process that holds the lock
Woken == IF master.at = "none" THEN master ELSE [master EXCEPT !.susr1 = TRUE]

\* Receive_job: the job is complete, the control file of the queue read
Arrive(q, j) ==
    /\ New(j) /\ \A i \in Jobs : i < j => ~New(i)
    /\ q \in conf.sent[j]
    /\ tickets' = [tickets EXCEPT ![q][j] = "ready"]
    /\ receiver' = [receiver EXCEPT ![j] = [to |-> q, order |-> order]]
    /\ UNCHANGED <<conf, control, order, changed, starter, master, proc, printed,
                   cut, longer, died, events>>

\* ... and written again with CHANGE, which undoes what a master saved since;
\* and the request
Announce(j) ==
    LET q == receiver[j].to
    IN  /\ q # -1
        /\ order' = IF q = 0 THEN receiver[j].order ELSE order
        /\ changed' = (changed \/ q = 0)
        /\ longer' = IF order' = order \/ master.at # "none" THEN longer ELSE {}
        /\ control' = [s \in Servers |-> [control[s] EXCEPT !.change = @ \/ s = q]]
        /\ receiver' = [receiver EXCEPT ![j] = Idle]
        /\ Request
        /\ UNCHANGED <<conf, tickets, master, proc, printed, cut, died, events>>

Alive(s) == {p \in Pids : proc[s][p].at \in {"serve", "print"}}

Signalled(s) == [p \in Pids |-> [proc[s][p] EXCEPT !.susr1 = @ \/ p \in Alive(s)]]

\* lpc stop or start of a server queue: both processes are signalled, and a start
\* is a request as well
LpcSets(s) ==
    /\ Happens("lpc")
    /\ control' = [control EXCEPT ![s] = [change |-> TRUE, stopped |-> ~@.stopped]]
    /\ proc' = [proc EXCEPT ![s] = Signalled(s)]
    /\ master' = Woken
    /\ IF control[s].stopped THEN Request ELSE UNCHANGED starter
    /\ UNCHANGED <<conf, tickets, order, changed, receiver, printed, cut, longer, died>>

\* Service_all: a queue without a process has work
HasWork ==
    \/ master.at = "none" /\ (changed \/ InQueue(0) # {})
    \/ \E s \in Servers :
          /\ Alive(s) = {}
          /\ control[s].change \/ (InQueue(s) # {} /\ ~control[s].stopped)

\* poll_time is long for a process that is starting or looking for work
Poll ==
    /\ HasWork /\ master.at \in {"none", "wait"} /\ ~master.susr1
    /\ \A n \in Starters : starter[n].at = "none"
    /\ Request
    /\ UNCHANGED <<conf, tickets, control, order, changed, receiver, master, proc,
                   printed, cut, longer, died, events>>

-----------------------------------------------------------------------------
(* The master: starting, scanning *)

\* Setup_printer reads the control file
SetUp(n) ==
    /\ starter[n].at = "start"
    /\ starter' = [starter EXCEPT ![n] = [at |-> "ready", order |-> order, change |-> changed]]
    /\ UNCHANGED <<conf, tickets, control, order, changed, receiver, master, proc,
                   printed, cut, longer, died, events>>

\* the lock is held: its holder is signalled
SignalMaster(n) ==
    /\ starter[n].at = "ready" /\ master.at # "none"
    /\ starter' = [starter EXCEPT ![n] = NoStarter]
    /\ master' = Woken
    /\ UNCHANGED <<conf, tickets, control, order, changed, receiver, proc,
                   printed, cut, longer, died, events>>

\* Fork_subserver: a child that has not yet tried the lock
Spare(s) == CHOOSE p \in Pids : proc[s][p].at = "none"
CanFork(s) == \E p \in Pids : proc[s][p].at = "none"
Forked(which) ==
    [s \in Servers |->
        IF s \in which THEN [proc[s] EXCEPT ![Spare(s)] = [NoProc EXCEPT !.at = "start"]]
        ELSE proc[s]]
Known(list, which) ==
    [i \in DOMAIN list |->
        [list[i] EXCEPT !.server = IF list[i].pr \in which THEN Spare(list[i].pr) ELSE @,
                        !.change = FALSE]]

\* Get_subserver_info: each name where it is first
Firsts(names) == {i \in DOMAIN names : \A k \in 1..i - 1 : names[k] # names[i]}
Listed(names) ==
    LET S == Firsts(names)
        at == InOrder(S, {x \in S \X S : x[1] < x[2]})
    IN  [n \in DOMAIN at |-> Entry(names[at[n]], n - 1)]

\* Mutant of ServerInfo: :sv= before the saved order.
NamesFirst(names) == Listed(Server_names \o names)

\* Mutant of NeedsStart: only CHANGE is looked at.
OnlyChanged(e) == e.change

ServerInfo(names) == Listed(names \o Server_names)

\* the server queues that need a process of their own
NeedsStart(e) == e.change \/ (InQueue(e.pr) # {} /\ ~e.stopped)

\* the lock is free: the process goes by what it read. With CHANGE it writes that
\* back, and what was saved since is lost.
Begin(n) ==
    /\ starter[n].at = "ready" /\ master.at = "none"
    /\ LET spool == starter[n]
           info == ServerInfo(spool.order)
           which == {e.pr : e \in {e \in ToSet(info) : NeedsStart(e)}}
       IN  /\ \A s \in which : CanFork(s)
           /\ proc' = Forked(which)
           /\ order' = IF spool.change THEN spool.order ELSE order
           /\ changed' = (changed /\ ~spool.change)
           /\ longer' = IF spool.order = order THEN longer ELSE {}
           /\ master' = [NoMaster EXCEPT !.at = "loop", !.sort = InQueue(0),
                                         !.list = Known(info, which), !.change = changed']
    /\ starter' = [starter EXCEPT ![n] = NoStarter]
    /\ UNCHANGED <<conf, tickets, control, receiver, printed, cut, died, events>>

\* Update_spool_info keeps the process and DONE_TIME
Updated(list) ==
    [i \in DOMAIN list |-> [list[i] EXCEPT !.change = control[list[i].pr].change,
                                           !.stopped = control[list[i].pr].stopped]]

Rescan ==
    /\ master.at = "loop" /\ master.susr1
    /\ LET list == Updated(master.list)
           which == {e.pr : e \in {e \in ToSet(list) : e.change /\ e.server = 0}}
       IN  /\ \A s \in which : CanFork(s)
           /\ proc' = Forked(which)
           /\ master' = [master EXCEPT !.susr1 = FALSE, !.sort = InQueue(0),
                                       !.list = Known(list, which), !.change = changed]
    /\ UNCHANGED <<conf, tickets, control, order, changed, starter, receiver,
                   printed, cut, longer, died, events>>

-----------------------------------------------------------------------------
(* The master: a job and a server for it. The search reads only what the   *)
(* master keeps, and the chooser's answers, so that it is one step.        *)

Candidates == {j \in master.sort : Waiting(0, j)}

Usable(e, j) == ~e.stopped /\ e.server = 0 /\ j \in Accepts[e.pr]
UsableFor(j) == {i \in DOMAIN master.list : Usable(master.list[i], j)}
UsableNames(j) == {master.list[i].pr : i \in UsableFor(j)}

NoAnswer == 0
Hold == -1
Wrong == -2

\* one of the list it was given; no answer or JFAIL; JHOLD; a name that is not
\* in the list, which is logged
Answers(j) == UsableNames(j) \union {NoAnswer, Hold, Wrong}

\* what decides: the first in the list, or the chooser's answers
Decisions ==
    IF conf.chooser
    THEN {a \in [Candidates -> Servers \union {NoAnswer, Hold, Wrong}] :
             \A j \in Candidates :
                 a[j] \in IF UsableFor(j) = {} THEN {NoAnswer} ELSE Answers(j)}
    ELSE {[j \in Candidates |->
             IF UsableFor(j) = {} THEN NoAnswer ELSE master.list[Min(UsableFor(j))].pr]}

Found(a, j) == a[j] \in Servers
Missed(a, j) == a[j] \in {NoAnswer, Hold}
\* the job is looked at: no job was found before, and a chooser or a list
\* without a server for a job ends the search, unless chooser_scan_queue
Reached(a, j) ==
    \A i \in Candidates : i < j => ~Found(a, i) /\ (Missed(a, i) => conf.scan)
LookedAt(a) == {j \in Candidates : Reached(a, j)}

Working == \E i \in DOMAIN master.list : master.list[i].server # 0

HoldJobs(a) ==
    tickets' = [tickets EXCEPT ![0] = [j \in Jobs |->
                   IF j \in LookedAt(a) /\ a[j] = Hold THEN "held" ELSE @[j]]]

\* SERVER and START_TIME are written into the ticket
Assign(a) ==
    \E j \in LookedAt(a) :
        /\ Found(a, j)
        /\ master' = [master EXCEPT !.at = "move", !.job = j, !.to = a[j]]
        /\ UNCHANGED <<order, changed>>

SavedOrder == ListOrder(master.list)

\* nothing to do: Spool_control is written with SERVER_ORDER, the lock released
Leave(a) ==
    /\ \A j \in LookedAt(a) : ~Found(a, j) /\ ~Missed(a, j)
    /\ ~Working
    /\ order' = SavedOrder /\ changed' = master.change
    /\ master' = NoMaster

StartWaiting(a) ==
    /\ \A j \in LookedAt(a) : ~Found(a, j)
    /\ LET dnf == \E j \in LookedAt(a) : Missed(a, j)
       IN  /\ dnf \/ Working
           /\ master' = [master EXCEPT !.at = "wait", !.dnf = dnf, !.reaped = FALSE]
    /\ UNCHANGED <<order, changed>>

Look ==
    /\ master.at = "loop" /\ ~master.susr1
    /\ \E a \in Decisions :
          /\ HoldJobs(a)
          /\ Assign(a) \/ Leave(a) \/ StartWaiting(a)
    /\ UNCHANGED <<conf, control, starter, receiver, proc, printed, cut, longer,
                   died, events>>

-----------------------------------------------------------------------------
(* The master: Move_job and the process for the moved job *)

\* the data files are copied and the copy's ticket made valid
Copy ==
    /\ master.at = "move"
    /\ tickets' = [tickets EXCEPT ![master.to][master.job] = "ready"]
    /\ master' = [master EXCEPT !.at = "moved"]
    /\ UNCHANGED <<conf, control, order, changed, starter, receiver, proc,
                   printed, cut, longer, died, events>>

\* Update_status(JFAIL) leaves the job to be tried again
CopyFails ==
    /\ master.at = "move" /\ Happens("copy")
    /\ master' = [master EXCEPT !.at = "loop", !.job = 0, !.to = 0]
    /\ UNCHANGED <<conf, tickets, control, order, changed, starter, receiver,
                   proc, printed, cut, longer, died>>

\* Update_status(JSUCC) on the original
MoveEnds ==
    /\ master.at = "moved"
    /\ tickets' = [tickets EXCEPT ![0][master.job] = "done"]
    /\ master' = [master EXCEPT !.at = "fork"]
    /\ UNCHANGED <<conf, control, order, changed, starter, receiver, proc,
                   printed, cut, longer, died, events>>

ForkSubserver ==
    /\ master.at = "fork" /\ CanFork(master.to)
    /\ proc' = Forked({master.to})
    /\ master' = [master EXCEPT
                    !.at = "loop", !.job = 0, !.to = 0,
                    !.list = [i \in DOMAIN @ |->
                                IF @[i].pr = master.to
                                THEN [@[i] EXCEPT !.server = Spare(master.to)] ELSE @[i]]]
    /\ UNCHANGED <<conf, tickets, control, order, changed, starter, receiver,
                   printed, cut, longer, died, events>>

-----------------------------------------------------------------------------
(* The master: Wait_for_subserver *)

\* the child of the i-th entry is collected, in the second of the last one
\* collected or in a later one
Finished(list, i, same) ==
    LET last == Max({list[k].done : k \in DOMAIN list})
    IN  [list EXCEPT ![i].server = 0, ![i].now = TRUE,
                     ![i].done = IF same THEN last ELSE last + 1]

EndedChild(i) ==
    LET e == master.list[i]
    IN  e.server # 0 /\ proc[e.pr][e.server].at = "ended"

Reap(i, same) ==
    /\ master.at = "wait" /\ i \in DOMAIN master.list /\ EndedChild(i)
    /\ same => LET last == Max({master.list[k].done : k \in DOMAIN master.list})
               IN  \E e \in ToSet(master.list) : e.now /\ e.done = last
    /\ LET s == master.list[i].pr
           after == Finished(master.list, i, same)
       IN  /\ master' = [master EXCEPT !.list = ByDoneTime(after), !.reaped = TRUE]
           /\ proc' = [proc EXCEPT ![s][master.list[i].server] = NoProc]
           /\ longer' = IF conf.chooser THEN {} ELSE
                        {x \in longer : s \notin {x[1], x[2]}}
                        \union {<<e.pr, s>> : e \in {e \in ToSet(after) : e.done < after[i].done}}
    /\ UNCHANGED <<conf, tickets, control, order, changed, starter, receiver,
                   printed, cut, died, events>>

\* all that ended were collected, a signal came, or the interval is over
WaitEnds ==
    /\ master.at = "wait"
    /\ ~\E i \in DOMAIN master.list : EndedChild(i)
    /\ master.reaped \/ master.susr1 \/ master.dnf
    /\ master' = [master EXCEPT !.at = "loop", !.dnf = FALSE, !.reaped = FALSE]
    /\ UNCHANGED <<conf, tickets, control, order, changed, starter, receiver,
                   proc, printed, cut, longer, died, events>>

-----------------------------------------------------------------------------
(* A process of a server queue *)

\* what is left of a process: a zombie for its parent, or nothing
Parent(s, p) == \E i \in DOMAIN master.list :
                   master.list[i].pr = s /\ master.list[i].server = p
Gone(s, p) == IF Parent(s, p) THEN [NoProc EXCEPT !.at = "ended"] ELSE NoProc

Takes(s, p) ==
    /\ proc' = [proc EXCEPT ![s][p] = [NoProc EXCEPT !.at = "serve", !.jobs = InQueue(s),
                                                     !.stopped = control[s].stopped]]
    /\ control' = [control EXCEPT ![s].change = FALSE]
    /\ UNCHANGED <<conf, tickets, order, changed, starter, receiver, master,
                   printed, cut, longer, died, events>>

\* Mutant of TakeLock: the result of Do_lock is not looked at.
TakesAnyway(s, p) == proc[s][p].at = "start" /\ Takes(s, p)

\* the lock is free: CHANGE is cleared and the queue scanned
TakeLock(s, p) == proc[s][p].at = "start" /\ Alive(s) = {} /\ Takes(s, p)

\* the lock is held: its holder is signalled
LockTaken(s, p) ==
    /\ proc[s][p].at = "start" /\ Alive(s) # {}
    /\ proc' = [proc EXCEPT ![s] = [Signalled(s) EXCEPT ![p] = Gone(s, p)]]
    /\ UNCHANGED <<conf, tickets, control, order, changed, starter, receiver,
                   master, printed, cut, longer, died, events>>

SubRescan(s, p) ==
    /\ proc[s][p].at = "serve" /\ proc[s][p].susr1
    /\ proc' = [proc EXCEPT ![s][p] = [@ EXCEPT !.susr1 = FALSE, !.jobs = InQueue(s),
                                                !.stopped = control[s].stopped]]
    /\ UNCHANGED <<conf, tickets, control, order, changed, starter, receiver,
                   master, printed, cut, longer, died, events>>

ToPrint(s, p) == IF proc[s][p].stopped THEN {} ELSE proc[s][p].jobs \cap InQueue(s)

StartPrint(s, p) ==
    /\ proc[s][p].at = "serve" /\ ~proc[s][p].susr1 /\ ToPrint(s, p) # {}
    /\ LET j == Min(ToPrint(s, p))
       IN  /\ proc' = [proc EXCEPT ![s][p].at = "print", ![s][p].job = j]
           /\ printed' = [printed EXCEPT ![j] = @ + 1]
    /\ UNCHANGED <<conf, tickets, control, order, changed, starter, receiver,
                   master, cut, longer, died, events>>

Printed(s, p) ==
    /\ proc[s][p].at = "print"
    /\ tickets' = [tickets EXCEPT ![s][proc[s][p].job] = "done"]
    /\ proc' = [proc EXCEPT ![s][p].at = "serve", ![s][p].job = 0]
    /\ UNCHANGED <<conf, control, order, changed, starter, receiver, master,
                   printed, cut, longer, died, events>>

\* JABORT with stop_on_abort: the job is in error and the queue stopped
Aborts(s, p) ==
    /\ proc[s][p].at = "print" /\ Happens("abort")
    /\ tickets' = [tickets EXCEPT ![s][proc[s][p].job] = "failed"]
    /\ control' = [control EXCEPT ![s].stopped = TRUE]
    /\ proc' = [proc EXCEPT ![s][p].at = "serve", ![s][p].job = 0, ![s][p].stopped = TRUE]
    /\ UNCHANGED <<conf, order, changed, starter, receiver, master, printed,
                   cut, longer, died>>

SubLeaves(s, p) ==
    /\ proc[s][p].at = "serve" /\ ~proc[s][p].susr1 /\ ToPrint(s, p) = {}
    /\ proc' = [proc EXCEPT ![s][p] = Gone(s, p)]
    /\ UNCHANGED <<conf, tickets, control, order, changed, starter, receiver,
                   master, printed, cut, longer, died, events>>

-----------------------------------------------------------------------------
(* Killed processes *)

\* the master while it moves a job: its children go on without it, those that
\* ended are gone
MasterKilled ==
    /\ master.at \in {"move", "moved", "fork"} /\ Happens(master.at)
    /\ cut' = IF master.at = "moved" THEN cut \union {master.job} ELSE cut
    /\ master' = NoMaster
    /\ longer' = {}
    /\ proc' = [s \in Servers |-> [p \in Pids |->
                  IF proc[s][p].at = "ended" THEN NoProc ELSE proc[s][p]]]
    /\ UNCHANGED <<conf, tickets, control, order, changed, starter, receiver,
                   printed, died>>

SubKilled(s, p) ==
    /\ proc[s][p].at \notin {"none", "ended"}
    /\ Happens("sub")
    /\ cut' = IF proc[s][p].at = "print" THEN cut \union {proc[s][p].job} ELSE cut
    /\ died' = TRUE
    /\ proc' = [proc EXCEPT ![s][p] = Gone(s, p)]
    /\ UNCHANGED <<conf, tickets, control, order, changed, starter, receiver,
                   master, printed, longer>>

-----------------------------------------------------------------------------

MasterStep ==
    \/ Rescan \/ Look
    \/ Copy \/ MoveEnds \/ ForkSubserver
    \/ \E i \in 1..Len(Server_names), same \in BOOLEAN : Reap(i, same)
    \/ WaitEnds

StarterStep(n) == SetUp(n) \/ SignalMaster(n) \/ Begin(n)

SubStep(s, p) ==
    \/ TakeLock(s, p) \/ LockTaken(s, p) \/ SubRescan(s, p)
    \/ StartPrint(s, p) \/ Printed(s, p) \/ SubLeaves(s, p)

Next ==
    \/ \E q \in Queues, j \in Jobs : Arrive(q, j)
    \/ \E j \in Jobs : Announce(j)
    \/ \E s \in Servers : LpcSets(s)
    \/ Poll
    \/ \E n \in Starters : StarterStep(n)
    \/ MasterStep \/ CopyFails \/ MasterKilled
    \/ \E s \in Servers, p \in Pids :
          SubStep(s, p) \/ Aborts(s, p) \/ SubKilled(s, p)

Fairness ==
    /\ \A j \in Jobs : WF_vars(Announce(j))
    /\ WF_vars(Poll) /\ WF_vars(MasterStep)
    /\ \A n \in Starters : WF_vars(StarterStep(n))
    /\ \A s \in Servers : WF_vars(\E p \in Pids : SubStep(s, p))

Spec == Init /\ [][Next]_vars /\ Fairness

-----------------------------------------------------------------------------

(* A job is printed once, wherever it arrived and whatever was started     *)
(* twice; only a process killed between the copy and the end of the        *)
(* original's ticket, or while printing, makes it print again (Move_job,   *)
(* the lock files of the server queues).                                   *)
PrintedOnce == \A j \in Jobs : printed[j] <= 1 \/ j \in cut

(* Without a chooser a job goes to the usable server that has been free    *)
(* longest, as far as the masters of this queue saw it end: over the       *)
(* Mergesort by DONE_TIME, SERVER_ORDER and the next master's list. What   *)
(* they saw is forgotten where the code loses it: a receiver, or a process *)
(* that begins, has a control file read before the last master saved its   *)
(* order (lpd_rcvjob.c:493-495, lpd_jobs.c:415 before 460).                *)
LongestFreeFirst ==
    [][ master.at = "loop" /\ master'.at = "move" /\ ~conf.chooser =>
          \A s \in UsableNames(master'.job) : <<s, master'.to>> \notin longer ]_vars

(* A job that waits in a queue with a printer for it does not wait for     *)
(* ever, as long as lpd polls: not in the master queue unless a job before *)
(* it waits for stopped printers only, and not in a server queue, whoever  *)
(* brought it there. A killed process of a server queue is not replaced    *)
(* while the master waits for the printers of another job.                 *)
NoPrinter(j) == \A s \in Servers : j \in Accepts[s] => control[s].stopped
Blocking(j) == Waiting(0, j) /\ NoPrinter(j)
Stuck(q, j) ==
    IF q = 0 THEN NoPrinter(j) \/ (~conf.scan /\ \E i \in Jobs : i < j /\ Blocking(i))
    ELSE control[q].stopped \/ (died /\ \E i \in Jobs : Blocking(i))
JobsGoOn ==
    ~conf.chooser =>
        <>[](\A q \in Queues, j \in Jobs : Waiting(q, j) => Stuck(q, j))

====

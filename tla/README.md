# LPRng in TLA+

This directory is a verification project for LPRng, the print spooler in
`src/`: TLA+ modules translated from the C sources, TLC configurations that
check them on small instances, and theorems that TLAPS proves for instances of
any size. `PROJECT.json` holds, for every definition, the source lines it
stands for, and for every property a plausible bug of those lines that breaks
it.

All line numbers below are of files in `src/src/common/` unless another
directory is named.

## 1. The system

`lpd` is one long-lived process. Everything it does for a request or for a
queue happens in a process it forks (`Start_worker`, `lpd_worker.c`). The
processes share no memory. They meet in the files of a spool directory, on
one pipe to `lpd`, through record locks and through signals.

| Component | State it keeps | Operations | Interacts with |
|---|---|---|---|
| lpd main (`lpd.c`, `lpd_worker.c`, `child.c`) | `Servers_line_list`, `Started_server`, `start_pid`, `last_fork_pid_value`, `Process_list` | read the request pipe, accept, start a queue process, start a poll, reap, restart the logger | forks every other process of the daemon |
| Queue poll (`Service_all`, `lpd_dispatch.c`) | none; one pass over all queues | scan a queue, write `.queue` to the pipe | reads tickets, control files; feeds lpd |
| Queue server (`Do_queue_jobs`, `lpd_jobs.c`, `lockfile.c`) | lock file, `Sort_order`, `servers`, `Spool_control`, `Susr1` | lock or signal, scan, rescan, choose, fork a worker, wait, update, leave | tickets, control file, workers, signals |
| Printing worker (`Service_worker`, `Local_job`, `Remote_job`) | its own pid in the ticket | read the ticket, back off, print or send, exit with a status | parent through the exit status; `sendjob.c` |
| Job tickets (`getqueue.c`) | one `hf` file per job: SERVER, ATTEMPT, DONE_TIME, ERROR_TIME, HOLD_TIME, REMOVE_TIME, COPY_DONE, destinations | read, rewrite, remove | server, workers, lpc, lprm, receiver |
| lpc and the control file (`lpd_control.c`, `getqueue.c`) | `Queue_control_file` | stop, start, enable, disable, abort, kill, up, down, hold, release, redo, topq, move, redirect, holdall, class | signals the server, asks lpd for one |
| lprm (`lpd_remove.c`) | none | select, kill the workers, remove tickets | tickets, server |
| Receiver (`lpd_rcvjob.c`) | temporary and real ticket, data files | receive control and data files, or a block; check; commit | tickets, control file, lpd |
| Sender (`sendjob.c`, `linksupport.c`, `sendreq.c`) | connection, retry state | connect, send files or a block, read acknowledgements | a remote receiver; exit status of the worker |
| Load balance queues, `Move_job` (`lpd_jobs.c`) | `servers` with an entry per subqueue | start subservers, choose, move a job | the other queue's spool directory |
| Permissions (`permission.c`) | rules | match a request | receiver, lpc, lprm |
| lpq and its cache (`lpd_status.c`, `lpq.c`, `monitor.c`) | cached status files | collect, cache, show | reads all of the above |
| Logger (`lpd_logger.c`) | queue of messages for one host | buffer, connect, send | status pipe |
| Filters, banner, accounting (`printjob.c`, `lpbanner.c`, `accounting.c`, `lpf.c`) | files and pipes | run programs | decide the worker's exit status |
| Authentication (`lpd_secure.c`, `sendauth.c`, `../auth`) | keys | handshake around a transfer | receiver, sender |
| Configuration and line lists (`linelist.c`, `initialize.c`, `gethostinfo.c`) | `*_DYN` variables | parse, sort, look up | everything, as constants |
| Clients (`lpr.c`, `lpc.c`, `lprm.c`, `lpstat.c`) | none | one request each | lpd |
| checkpc (`checkpc.c`) | none | check and repair permissions | spool directories |
| Utilities (`globmatch.c`, `merge.c`, `md5.c`, `plp_snprintf.c`, `getopt.c`) | none | pure functions | everything |

### What makes it hard

* Any number of queue processes are started for a queue; the lock file picks
  one, and the others have to make sure that it looks at their work.
* The lock file carries a pid that outlives its process, and `kill()` finds a
  process that no longer looks at signals.
* Every file is read as a whole, changed in memory, and written back as a
  whole. Nothing is locked meanwhile for the control file.
* The server decides with copies (`Sort_order`, `Spool_control`, `servers`)
  and learns of a change only by SIGUSR1.
* The server and its workers may be killed at any time, and a fork may fail
  after the ticket was already marked.
* Jobs fail, are retried with a growing delay, and are removed, held, moved
  and redone while they print.
* A transfer may end at any byte, and its last acknowledgement may be lost.

### What makes each part correct

* Queue server: one server per queue; no job without somebody who will look at
  it; a job that was printed or removed is not printed again; a worker has a
  parent that waits for it; in the end every job leaves the queue.
* Settings: a stop or abort reaches the server; a queue that may print does;
  an abort lasts until it is cleared; `lpc up` gets a server going.
* Tickets: an active job has a worker; copies are counted once; a finished job
  is final until a user redoes it; finished jobs are bounded by `done_jobs`.
* lpd: a request is never dropped, and is served when there is room; the limit
  on processes holds; a poll is always possible again.
* Transfer: a job is queued whole or not at all; an acknowledged job is queued.
* Load balance: a job is in one queue once its move is complete.
* Algorithms: sorting is a permutation in order, matching agrees with its
  definition, the delay is bounded, the search for a job number ends.

`PROJECT.json` lists the components with what is modelled of each, and the
hazards with their source lines and the properties aimed at them.

## 2. Modules

| Module | What it is |
|---|---|
| `PrintQueue` | abstract specification: what a print queue promises to users |
| `QueueServer`, `MCQueueServer`, `QueueServerProofs` | the processes that serve one queue, the lock file, SIGUSR1, workers, crashes |
| `QueueControl`, `MCQueueControl` | the control file, its copies, the commands that change it, the abort |
| `JobTicket`, `MCJobTicket`, `JobTicketProofs` | the fields of the tickets, from spooling to expiry, and who writes them |
| `LpdMain`, `LpdMainProofs` | the main process of lpd: its loop, its pipes, its children, its limits |
| `JobTransfer`, `MCJobTransfer`, `JobTransferProofs` | sending and receiving a job over a connection that breaks |
| `LoadBalance`, `MCLoadBalance`, `LoadBalanceProofs` | a master queue with server queues: choice, move, SERVER_ORDER |
| `PrintJob` | the worker with its OF and IF filters and the program behind `lp=` |
| `QueueWorkProofs` | theorems about `QueueControl` and `PrintJob`, the settings and the worker of a queue |
| `LineList`, `Printcap`, `MCPrintcap` | line lists, lpd.conf, printcap and the setup of a queue |
| `QueueStatus`, `MCQueueStatus`, `QueueStatusProofs` | lpq and lprm over queues, and the cache of reports |
| `Connection`, `Logger`, `MCLogger`, `LoggerProofs` | `getconnection()`, and the logger that uses it |
| `Globs`, `Permissions` | patterns; lpd.perms and `Perms_check` against the manual's meaning |
| `ControlFile`, `Submission`, `MCSubmission` | control files; a job from lpr's command line to the last host's printer |

How they fit together: `QueueServer` is the handshake, and the modules that need
a server take it as one step (`QueueControl`, `JobTicket`) or, in `LoadBalance`, as two,
the reading of the control file and the lock.
`Logger` extends `Connection`, `Printcap` extends `LineList`, `Submission` extends
`ControlFile` and `Permissions`, which both extend `Globs`: these are
compositions, whose runs exercise all of them. `QueueServer` implements
`PrintQueue`. What `QueueServer` leaves to chance (when lpd starts a process, how a
worker ends, when a job arrives) is what `LpdMain`, `PrintJob` and `JobTransfer`
are about.

### QueueServer

State and code:

| Variable | In the code |
|---|---|
| `queue`, `server`, `attempt` | tickets that are printable, their SERVER and ATTEMPT |
| `lockHolder`, `lockPid` | the lock on `Queue_lock_file` and the pid in it |
| `notify`, `request` | the receiver's line before and after it is in the request pipe or in `Servers_line_list` |
| `pc`, `seen`, `order` | where a process is in `Do_queue_jobs`, the pid it read, its `Sort_order` |
| `sigPending`, `susr1` | a blocked SIGUSR1 and the flag its handler sets |
| `workers` | processes in `Service_worker`, with parent, job and exit status |

`pc` has one value for every place where another process can observe or
disturb `Do_queue_jobs`: between the failed lock and the reading of the pid,
between that and the signal, between the lock and `Write_pid`, between the
truncation, the close, the unblocking of signals and the sleep on the way out.
SIGUSR1 is blocked except where the code unblocks it (the main loop,
`sigpause`, the way out), and becomes `susr1` there. A process in `exit` still
receives a signal with success and never looks at it, as in `cleanup()`.

Crashes (`Crash`) model SIGKILL at any place. The kernel frees the lock and
keeps the file, so the pid in it is stale; workers go on without a parent,
because `Make_lpd_call` closed the lock file in them.

Abstractions: one printer; a job is printable or gone; printing is one step
with either outcome; the action after the last failed attempt is removal (the
default). `Poll` fires only when the processes are settled, since `Poll_time`
(600 s by default) is long. It does not look for a live server because
`Service_all` reads the pid from a file named after the printer
(lpd_dispatch.c:98) and not from `Queue_lock_file`.

### PrintQueue and the refinement

`PrintQueue` has the jobs that wait, the job on the press and the jobs that
need no more printing. `QueueServer` implements it with `waiting <- queue`,
`press <-` the job of the running worker, and `over <-` the jobs that left the
queue together with those whose worker ended well and was not yet waited for.
The run `handshake` checks `Abstract!Spec`. It holds without crashes only: the
`QueueServer!NewServerWaitsForWorkers` (section 5) shows why.

### QueueControl

| Variable | In the code |
|---|---|
| `control` | flags set in the control file: PRINTING_DISABLED, PRINTING_ABORTED, SPOOLING_DISABLED, CHANGE (here `stopped`, `aborted`, `closed`, `change`) |
| `mem`, `sp` | the server's `Spool_control` and its `servers.list[0]` |
| `order`, `sig`, `worker` | `Sort_order`, `Susr1`, the one worker |
| `lockPid` | whose pid the lock file has: nobody's, the server's, a dead process's |
| `request`, `started` | a start request and `Started_server` |
| `lpc` | each `Do_queue_control`: its step, its command, its own `Spool_control`, whether it found a pid |
| `rcv` | each `Receive_job`: its step and its own `Spool_control` |

The steps of an lpc are those of `Do_queue_control` (256-570): read, edit (and
change a ticket for hold and release), write and rename, signal, ask for a
server. `Sets` and `Clears` are the switch over the command. SIGINT (`abort`,
`kill`) ends the server with its worker and leaves its pid in the file.

Abstractions: one process at a time is in the part of `Do_queue_jobs` after the
lock, which `LockedServer` of `QueueServerProofs` justifies; a starter that
finds the lock taken, reads the pid and signals is the one step `SignalServer`,
and an lpc reads the pid and signals in one step, because the races between
reading a pid and signalling it are the subject of `QueueServer`. `release`
stands for `redo` and `topq`, which treat the flags alike; `msg` for every
command that writes the file and changes none of these flags. A worker ends
with JSUCC or JABORT; failures and retries are in `QueueServer`. `WaitReap` writes
the abort of `stop_on_abort` and reads the file again (`Update_spool_info`) in one step.

### JobTicket

| Variable | In the code |
|---|---|
| `present`, `ticket` | the `hf` files: HOLD_TIME, DONE_TIME, ERROR_TIME, ATTEMPT and COPY_DONE of the job (`part[0]`) and of each destination (`part[r]`), SERVER, DESTINATION, MOVE, REMOVE_TIME |
| `fresh` | jobs that are not yet spooled |
| `pc`, `order`, `doneCount` | where the server is in `Do_queue_jobs`, `Sort_order`, `Done_count` |
| `victims` | the list `Remove_done_jobs` made in its first loop, for its second |
| `mover` | the job whose move the server waits for |
| `worker` | the one process in `Service_worker`: its job, its destination, its status |
| `poke` | a start request, or a SIGUSR1 |
| `printed`, `sent`, `touched`, `clock` | history, for the properties: copies that came out, jobs moved, jobs redone or moved by a user, jobs finished |

`Get_job_ticket_file` takes a lock that is kept until the ticket is written
back, so the change of one ticket is one step. Between two such steps of the
server anybody else may write the ticket: between choosing a job and its
worker's own read, while it prints, between the end of the worker and
`Update_status`, between the two loops of `Remove_done_jobs`, and while a job
is moved to another host. `Updated` is `Update_status`, with one operator for
each outcome; it keeps what the code does to some jobs and not to others: a
JABORT of a destination is never written (lpd_jobs.c:2133-2143), only the last
destination of the list makes the job done (1960), an error does not overwrite
a REMOVE_TIME. `Lpc` is `Do_job_ticket_file`; release and topq leave
REMOVE_TIME alone, and redo leaves the job's COPY_DONE alone.

Abstractions: a time is zero or not, except REMOVE_TIME, whose order decides
what expires first and which is a rank (two jobs that finish within one second
are told apart, in the code by their place in `Sort_order`). Any job of
`Sort_order` may be chosen, where the code takes the first by priority and
age. JTIMEOUT is treated as JFAIL by the code, and the statuses without a case
as JABORT. Left out: classes, `Check_print_perms`, jobs without data, the age
limit, save_on_error and save_when_done, a MOVE of one destination, a broken
write of a ticket, and crashes, which are in `QueueServer`.

### LpdMain

| Variable | In the code |
|---|---|
| `pc`, `timer`, `accepting`, `ready`, `interrupted` | the place in the loop of `main()` (lpd.c:375-650) and its call of `select()` |
| `startFd`, `list`, `startedServer`, `forkFailed`, `loop`, `rereadConfig` | `start_fd`, `Servers_line_list`, `Started_server`, `last_fork_pid_value`, the counters of the loop that starts processes, `Reread_config` |
| `stale` | a pid in `Process_list` that was reaped |
| `requestPipe`, `wake`, `pollPipe`, `backlog` | the pipe of requests, with the line feed SIGCHLD's handler writes, the pipe of the poll process, connections to accept |
| `logger`, `poll`, `todo`, `talking`, `spooled`, `serving`, `zombies` | children, counted by kind |
| `needy` | queues with work and nobody at it |
| `pollDue`, `startDue` | `Poll_time` and `Poll_start_interval` have passed |

SIGCHLD does something only between `Setup_waitpid_break` and the return of
`select()` (652-657); a child that ends before is a zombie nobody announces. The
actions are the passes of the loop: `Reap`, `StartAll` (the poll process),
`StartServer`, `Timeout`, `Wait`, `SelectReturns`, `HandleReady`, and those of the
children. A fault is a failed fork, a killed child or a SIGHUP.

### JobTransfer

| Variable | In the code |
|---|---|
| `order`, `large` | how `Send_job` sends: control file first, data files first, a block, two jobs at once; which file takes the job over `Max_job_size`, if any |
| `sender` | `Send_job` for each job: what it is doing, its attempt, its place in the dialogue |
| `link`, `wire`, `acks` | the connection of each attempt, what is under way in either direction |
| `rcv` | `Receive_job` or `Receive_block_job` of each connection |
| `ticket`, `lockOf`, `disk` | tickets by job number, their locks, data files under names made from a number |
| `announced`, `kept` | queue names written to lpd; history: jobs put in the queue |

The receiver's actions follow the control flow of lpd_rcvjob.c: the line that
announces a file, its bytes, the search for a job number (open, lock, look,
next number), the temporary ticket, the check for missing files, the ticket made
valid, the answer, and on an error the removal of what was made and the answer
that says so. Connections break, lines are cut, waiting ends by a timeout, and
receivers are killed, at any place. `LprmIncoming` and `RemoveStale` are what
others do with the ticket of a receiver that died. With `Discard_large_jobs` a data
file over the limit is read to /dev/null and not listed, and so is every later
file of its job: any of the files may be the first, so that a job is left with all,
some or none of its data files. The ticket is locked when the control file came behind
listed data files, and only then.

### LoadBalance

| Variable | In the code |
|---|---|
| `conf` | `chooser`, `chooser_scan_queue`, printers stopped at first, the queues each job may be sent to, the event that may happen |
| `tickets` | of the master queue, 0, and of the server queues: nothing, ready, held, done, failed |
| `control` | control files of the server queues |
| `order`, `changed` | SERVER_ORDER and CHANGE in the control file of the master queue |
| `starter` | a process started for the master queue that does not have the lock yet: before `Setup_printer` ("start"), or after it ("ready") with what it read of the control file |
| `receiver` | `Receive_job`'s last steps: it has read the master's control file and has yet to write it |
| `master` | the process with the master's lock: `Sort_order`, its list of servers, `Susr1`, the job it moves |
| `proc` | up to two processes for each server queue |
| `printed`, `cut`, `longer`, `died` | history, for the properties |

`Look` is one search of the master: `Decisions` gives, for the jobs in order and the
servers in the order they became free, the first job with a usable server, held
class included, and with a chooser whichever the program says. A move is three
steps, the copy, the end of the original and the start of a process for the
copy, and the master may be killed between them. DONE_TIME counts in seconds:
two ends in one second are equal, and the stable sort decides.

A process started for the master queue reads the control file in `Setup_printer`
(lpd_jobs.c:415, `SetUp`) and tries the lock later (460): it takes it and goes by its
copy (512-533, `Begin`), or signals the master (`SignalMaster`). Masters and receivers
may write the file in between.

Abstractions: to take the lock, and to read the pid in it and send the signal, is one
step each, and so are the end of the loop, the write of SERVER_ORDER and the release of the
lock; a master that is signalled after its release goes round with its own copy of the
control file (`goto again`, 423), which is what a starter that read the file just
then does. `@` answers of the chooser, its JABORT and `CHOOSER_ROUTINE`; destinations;
settings of the master queue other than CHANGE and SERVER_ORDER. `Poll` finds the
master absent or waiting and no process starting, since `poll_time` is long.

### PrintJob

`cfg` is the queue (where output goes, which filters there are and how they end,
banners, separators), `w` the worker, `of`, `ofPipe`, `ifp` and `lp` the OF filter with
the pipe to it, the IF filter and the program behind `lp=|program`, `out` what has
been put out. Output is cut into items: what precedes the first file, a
separator, two halves of each copy of each file, what follows the last. The worker's
actions follow `Local_job`, `Printer_open`, `Print_job` and `Remote_job` in their
order; programs read, print, suspend themselves or end between any two of them.
Left out: the status file that extends a timeout, `poll_for_status`, the stderr of
filters.

### LineList and Printcap

`LineList` has the searches and insertions of linelist.c as operators; its binary
search is the code's, on lists that need not be sorted. In `Printcap`, `files` is the
text on disk and `stage` what the process does with it: `model` and `frames` are the
list `Read_file_list` builds and its stack of included files, `raw`, `keyid`, `names`,
`order`, `input` the tables of `Build_printcap_info`, `calls` the recursion of
`Find_pc_info` over `tc`, `info` and `vars` the entry and the variables of the queue that
`Setup_printer` turned to. `Meant` is the reference: what a reader of lpd.conf(5) and
printcap(5) takes the variables of a queue to be, defined on the text alone.
Left out: printcap programs, the client's half of `Fix_Rm_Rp_info`, `%` expansion.

### QueueStatus

`version` counts the changes of a queue; `current` is the index file in the directory,
`index` the contents of every index there was, `holder` their locks, `report` the
files `lpq.N`; `proc` is a process of lpd with the queues it still has to show.
The actions are those of `Get_queue_status`: open or create the index, lock it, look,
make a report, rename it, write the index, or go on from a cached report with the
lock still held, and then the walk to subservers and to the queue forwarded to. lprm
walks the same way and flushes. `late` marks the one case that the property has
to except: a report renamed after its index was removed.

### Connection and Logger

`Connection` is `getconnection()`: `call` is the address, port and count it is at, `last`
the static `last_port_used`. `Logger` extends it: `queue` is the true state of each item,
`pending` the changes its writers have yet to log, `said` (a history) what the last message
about it gave, `pipe` the logger's pipe, `logger` the process with its buffer (`out`), its temporary file and its timers, `remote` the other
host with what it has understood so far. A line travels in two pieces, so that a
cut can fall inside it. `torn` marks connections that began with the rest of an
old buffer (see section 5). `Locked` are the items each of whose writers holds the
ticket open, and its lock, until he has logged (`Set_job_ticket_file` with a descriptor).
Control files (`Set_spool_control`, no lock at all) and tickets opened for one write
(getqueue.c:697-716; lpd_jobs.c:1531, lpd_rcvjob.c:373, 461) are not: several changes wait
there, and are logged in any order. Left out: a writer killed between its write and
its message, which loses the message.

### Permissions, ControlFile and Submission

`Permissions` follows `Perms_check` token by token, and has beside it `Documented`,
which reads the same rules as lpd.perms(5) describes them: `HasValue`, `RemoteUserIn`,
`RemoteHostIn` and `HostIn` are the columns of its table (lpd.perms.n:186-213; the row of LPC is
in conf/lpd.perms.in:51 only), not the code. Where they differ is `Disputed`, and a
file is left out only if one of its lines turns on such a key. `ControlFile` is what is
done to control files: written by lpr or lpd (`Fix_control`), read
(`Set_job_ticket_from_cf_info`), checked against data files and renamed
(`Check_for_missing_files`). `Submission` puts both to work: `scene` is a command or the
message of a foreign program, the client's setup, the chain of hosts, the user who
removes jobs and gives lpc commands; `stage`, `job`, `tries`, `wire` are lpr and its
message, `queue` and `out` the hosts and the last printer, `verdict` the permission
checks of the last step, `gone` the files `lpr -r` removed. A file has something in
it, is empty, binary, absent, or there and unreadable. Bytes, answers and spool
files are `JobTransfer`'s: here a message arrives or is lost.

Left out: `-k`, `-Y` directly to a printer, filters that change the control file,
fonts, HP's variant; of permissions netgroups, authentication, IPv6. Rules that
`PermsAsDocumented` leaves out because code and manual differ are listed in
section 5.

## 3. Runs

Every run ends without an error.

| Run | Instance | Properties | What it shows |
|---|---|---|---|
| `handshake` | 3 processes, 2 jobs, 2 attempts, 2 kicks, no crash, prompt signals, no poll | `TypeOK`, `ServerHasLock`, `LockFileNamesServer`, `WorkersOfServer`, `NoLostWork`, `ImplementsPrintQueue` | the lock file and SIGUSR1 by themselves lose no job, and the queue is a `PrintQueue` |
| `recovery` | 2 processes, 1 job, 2 attempts, 1 crash, 1 fork error, late signals, poll | `JobsLeaveQueue`, `StartersSettle` | whatever was lost, the poll finds it |
| `settings` | 1 lpc, 1 job, 2 commands out of 6 kinds, stop_on_abort, force_poll | `TypeOK`, `StaleSettingsSignalled`, `PrintsWhenPermitted` | a server with old settings is told; a queue that may print does |
| `copies` | a job of 2 copies, one of 2 destinations, 2 attempts, done_jobs 1, one command at any time | `TypeOK`, `CopiesCounted`, `OneHandlerPerJob`, `ExpiryCatchesUp`, `JobsSettle` | tickets through every outcome |
| `daemon` | 1 queue, max_servers 4 with a reserve of 1, 1 connection, 1 fault | `ServersBounded`, `RequestsTaken` | the limit holds and no request is forgotten |
| `transfer` | 1 job, 2 attempts, 2 data files, 4 orders, job numbers 0 to 2, large files discarded, 1 fault | `QueuedIsWhole`, `TicketIsMine`, `KeptIsAnnounced`, `AckedIsKept`, `TransferEnds` | no half job, no lost job, no silent job |
| `printing` | 2 files, 2 copies, 4 outputs, 2 attempts to open, 2 faults | `OutputInOrder`, `SuccessIsPrinted`, `PrintEnds` | three programs write one output |
| `lookup` | 3 printcap lines out of 12, 3 queues, 2 setups in a row | `SetupIsMeant` | the tables give what the text means |
| `status` | 2 processes, 3 requests, 1 cached entry, 2 queries, 1 flush, 1 fault | `IndexIsTrue`, `NoCircularWait` | the cache is not wrong, and its locks do not block for good |
| `logging` | 2 items (1 with locks), 2 changes, 2 settings, a pipe of 2 pieces, a wire of 1, 1 fault | `NothingMissed`, `EndMeansAll`, `LogCatchesUp` | the remote host learns the state |
| `submit` | 26 commands and foreign messages, 8 clients, 6 chains of hosts; rule files with 3 users, 4 removers, 2 ports; 1 message lost | `PrintsAsked`, `OneNamePerFile`, `LinesKept`, `PermsAsDocumented`, `RemovedWhenKept` | a job comes out as it was asked for; permissions are the documented ones |
| `balance` | 2 server queues, 2 jobs, 8 scenes, 1 starting process, 1 event | `PrintedOnce`, `LongestFreeFirst`, `JobsGoOn` | nothing printed twice, left behind, or sent to the wrong printer |

Deadlock is not checked: once every job is printed and every bound is used up
the system has nothing left to do, and that is correct.

The type invariants of `LpdMain`, `JobTransfer`, `PrintJob`, `Printcap`, `QueueStatus`
and `Logger` are written down as what their variables hold, and hold in these
instances; they are not among the properties of the runs.

### Bounds

* Three processes are the smallest number with a server that leaves, a starter
  that signals it and a third that takes the lock in between. Two jobs are
  needed for a job that arrives while another prints. With two attempts there
  is a retry and a last attempt. Two kicks start all three processes.
* `recovery` has one process to crash and one to take over; a second job adds
  no new way to lose one. One crash and one fork error may hit the same job.
* `settings`: the three writers of the control file (lpc, receiver, server) are
  all there, and two commands of one lpc give a stale copy, a command that
  undoes another and a dead server. The six commands are one of each kind:
  sets a flag, clears some, changes a ticket, ends the server, asks for a
  server always, if there is none, or never.
* `copies`: two copies are a first and a last one, two destinations a first and
  a last one, two attempts a retry and a last one. With `done_jobs` 1 the
  second job to finish makes the first one expire. One command by a user may
  hit any place of any job; exit statuses JHOLD, JREMOVE and JFAILNORETRY are
  left to the proofs, where they cost nothing. With two commands the run has
  tens of millions of states.
* `daemon`: with `MaxServers` 4 and a reserve of 1 the limit is reached by queue
  processes alone and by connections. `PollServersStarted` 1 makes the poll's names
  wait for each other. One queue is enough for the properties, which are about
  one request, as names are compared only with themselves.
* `transfer`: two attempts are a job that may be there twice. Two data files
  are a first and a last one. Few job numbers make the search meet a used one
  and wrap around. One fault at any place is followed by a whole attempt.
* `printing`: two files of two copies have a separator, a second copy and a
  second file. Two faults are a failure and a failure of its clean-up.
* `lookup`: three lines make an entry that continues, a `tc` of an entry that is
  defined twice, an included file and an alias that another entry has as its
  name. The second setup must forget the first one.
* `status`: two processes are needed for a lock, three requests to fill the
  cache, use it and replace its only entry. Requests begin with either queue, but
  meet the two in one order (`Starts <- InOrder`): "b" forwards and leads nowhere.
* `logging`: two items are one the dump has looked at and one it has not. A pipe
  of one message, which is two pieces, and a wire of one piece make every writer wait.
* `submit`: two letters instead of 52 for data files, two words instead of 31 characters
  for a line, job numbers to 10: files, lines and numbers beyond the
  limit are in the commands.
* `balance`: two server queues are a choice; two jobs are one that waits and one that
  passes it, or both ends of two printers in one second. One process that has read
  the control file and has no lock yet may wait through the whole life of a master; a
  second request waits until it is gone, where lpd has a process more.
  The scenes are two with a printer stopped at first, one each for an abort and a failed
  copy, two in which the master is killed (in one, while a process of the other printer
  outlives it), and two with a chooser; each has one kind of event or a few, and where the
  second job matters little it is sent to one queue only.

Symmetry is used in `handshake` only; the runs that check liveness have none.

### Fairness

All fairness is weak but for the passing of time in `LpdMain`. A process that can
run is run by the kernel: queue processes, lpc, receivers that have accepted a job,
senders, workers, filters, the logger. lpd's loop comes back to its list of requests
and to its poll for ever (`lpd.c`, `do ... while(1)`). A worker ends at some time,
by its timeouts if not otherwise. Nobody is obliged to submit, remove or command,
and no fault is ever obliged to happen. `PollTimePasses` and `StartIntervalPasses`
have strong fairness, because they can happen only while lpd sleeps in `select()`
and time passes however often something wakes it before. In `transfer` the queue
process need not run. `QueueStatus` and `Submission` have no fairness and no
liveness: that a status request ends is the absence of circular waits there.
`LogCatchesUp` supposes that `logger_timeout` is set: with its default of 0 the
logger does not try again until it has something to say.

`PromptSignals` is the one timing assumption. It is the "brutal assumption" of
the comment at lpd_jobs.c:450-457: a starter that has read a pid signals it
before that process has left its last sleep. `handshake` makes it, since
`NoLostWork` is false without it; `recovery` does not.

In `settings`, `ForcePoll` is TRUE because without `force_poll` lpd polls only if
`Started_server` was set since the last poll; section 5 says what that costs.

### Exceptions the properties make

* `PrintedOnce` leaves out jobs that a killed process was moving or printing.
* `LongestFreeFirst` forgets what the masters saw when a receiver writes an older control
  file back, when a new master begins by a control file that was read before the last SERVER_ORDER
  was saved (lpd_jobs.c:415, 460, 533), and when a master is killed.
* `JobsGoOn` is about queues without a chooser, whose answers are anything. It
  leaves out stopped printers, jobs behind such a job without
  `chooser_scan_queue`, and a killed process of a server queue while the master
  waits for the printers of another job.
* `IndexIsTrue` leaves out a report renamed after its index was flushed, `NothingMissed`,
  `EndMeansAll` and `LogCatchesUp` a connection that began with a rest of the
  one before; of an item whose writers log without a lock `NothingMissed` and
  `LogCatchesUp` say that the host ends with its state or with the last message
  about it, which may be of an older state (section 5). `OutputInOrder` what follows a filter's timeout, because the filter
  goes on printing.
* `SuccessIsPrinted` is about output to a device and jobs filtered before they
  are sent; for `lp=|program` see section 5.
* `AckedIsKept` lets a receiver that gets the control file first refuse the job
  after its last answer, which is what the code does (lpd_rcvjob.c:65-68), and leaves out
  a job over `Max_job_size` of which nothing is left: a block with no data file under
  the limit is answered with yes and removed (798, 914-941, 672), and
  the ticket of a job in another order is still to be written.
* `PermsAsDocumented` leaves out permission files of which a line turns on a key that the
  manual's table and `Perms_check` treat differently for that service (`Disputed`; section 5).
* `RemovedWhenKept` is about files that lpr could open: `-r` removes the others too.
* `PrintsAsked` does not look at file names when `Nline_after_file` is set and the same
  file is given twice in a row.
* `CopiesCounted` leaves out jobs that a user redid or moved.
* `ExpiryCatchesUp` leaves out the same jobs, and those that are held or have a held
  destination: a job that was held while it printed may be out of `Sort_order`,
  where `Remove_done_jobs` looks, until the next scan.

## 4. Proofs

All theorems hold for every value of the constants under the named assumptions
of the modules (`None` is not a process, bounds are natural numbers, switches are
Booleans) and, where it is said, under hypotheses of their own. They say nothing
about fairness and need none.

`QueueServerProofs`:

* `TypeCorrect`: `Spec => []TypeOK`.
* `LockedServer`, `NamedServer`, `OwnedWorkers`: `ServerHasLock`,
  `LockFileNamesServer` and `WorkersOfServer` are invariants of `Spec`, crashes,
  fork errors and late signals included.

The inductive invariant is `LockInv`, the conjunction of the three, with
`TypeOK`. None is inductive alone. That the file names the server depends on
who else may write it, which is a process that has the lock; that a server has
at most one worker depends on there being one server; and `ServerHasLock` must
be an equivalence, since from "a server has the lock" alone a process could
still own a lock it never gives back. The step proof has a case per action;
actions outside the lock, and those of workers, are closed by one lemma each.

For the constants under which the property is true (`MaxCrashes` 0,
`MaxForkErrors` 0, `PromptSignals`):

* `HandshakeLosesNothing`: `Spec => []NoLostWork`. A printable job is never left
  with no worker, no process that will look at it and no start request.

A process that was to look at a job stops to be the one only by looking, by
finding nothing, or by passing the duty on to the server with a signal.
`DutyInv` says why none of these drops the job: the pid
that is read from the lock file and then signalled is that of a process that has
not yet left `Do_queue_jobs` (`PidIsLive`, `SignalArrives`); a process in its
last sleep was told at once of every signal (`SleepersKnow`); a ticket has
SERVER set only while there is a worker for it (`ServerMeansWorker`), whose job
is still in its server's list when it is waited for (`WorkersKnown`), so a
failed job is tried again. One failed fork breaks `ServerMeansWorker`, a crash
breaks `WorkersKnown`, a late signal breaks `SignalArrives`: what saves the jobs
then is lpd's poll, which is the subject of the run `recovery`.

For `MaxCrashes` 0 and `None` not a job:

* `QueueIsPrintQueue`: `Spec => ImplementsPrintQueue`. Every step of the
  processes is a step of `PrintQueue` or a stutter, fork errors, late signals and
  polls included.

`AttendedInv` says that every worker has its server. With `LockInv` there is
then at most one worker (`OneWorker`), which is what makes "the job on the
press" a function of the state: `OneOnPress` computes the mapping for one worker
and `IdlePress` for none, and each action is one of four abstract steps.

`QueueWorkProofs`, the part about `QueueControl`:

* `SettingsTypeCorrect`: `Spec => []TypeOK`.
* `StaleCopiesSignalled`: `Spec => []StaleSettingsSignalled`. A server that would
  print by copies of the settings that the file no longer supports has been
  signalled, or whoever wrote the file, or lpd, has yet to do so.

The inductive invariant is `SettingsInv`, which adds that the lock file names
the server exactly while it is past `Write_pid` and before the truncation.
Without that a writer's signal could miss the server. The argument has three
sorts of step. A writer of the file announces its signal with the write
(`AnnouncingStep`), and when it signals it reaches the server, ends it, or
there is none whose copies matter. Most server steps change nothing the
invariant is about (`QuietStep`). The rest copy the file at a place where no
signal can be lost: after `Write_pid` (`ReadInfo`) or after `Susr1` was cleared
(`Rescan`, `UpdateInfo`).

`QueueWorkProofs`, the part about `PrintJob`:

* `PrintTypeCorrect`: `PrintSpec => []PrintTypeOK`.
* `PrintsInOrder`: `PrintSpec => []OutputInOrder`. Whatever the worker, the OF
  filter and the IF filters write, and whenever one of them fails, what is out is the
  job in its order.
* `SuccessMeansPrinted`: `PrintSpec => []SuccessIsPrinted`. A job that ends with
  JSUCC, on a device or filtered before it is sent, is out, and nothing had failed.

They hold for any number of files, copies, attempts and failures and for every kind
of output; the assumptions say only that these numbers are natural numbers. The
configuration of a queue never changes, so the inductive invariant `PrintInv(c)` is
stated for a fixed one, and the items of the job and their order become constants
(`Whole(c)`, `Below(c, x)`), about which there are lemmas. `OutputInOrder` alone is
not inductive: it does not say what comes next. `OutInv` says, for every place of
the worker, which items are out there: for instance all those below `Half(piece,
half)` while it writes a file, or all up to the item of a gap once the OF filter has
written it. It rests on `ProcInv`: the OF filter's pipe holds at most the item of
the gap and the stop behind it, the worker passes a gap only when the pipe is empty
and the filter suspended, and a filter of a file runs only while the worker waits
for it. Those are what keeps three writers of one output apart. `StatusInv` is for
the status: a failure is either known to the worker (`err`) or will be, since a
program that has ended with a nonzero code is waited for before the status is
decided. After a timeout a filter may write on, so `OutInv` is claimed only until
then, while `PlaceInv` says that a timeout ends the job without JSUCC.

`JobTicketProofs`:

* `TicketTypeCorrect`: `Spec => []TypeOK`, with a lemma for each outcome of
  `Update_status`: what it leaves is a ticket.
* `OneHandler`: `Spec => []OneHandlerPerJob`. A job is not moved while it prints.

The inductive invariant is `HandlerInv`. It adds to the property why the server
may trust SERVER: while a worker exists its job has SERVER set, from the
server's choice until the worker is reaped (`WorkerInv`), and the step that
clears SERVER in every ticket comes only when there is no worker. A user's
command never writes SERVER, and a spooled job is never spooled again. The
first open destination of a job needs that a set of numbers has a smallest
one, which is taken from the library's theorem on well-founded relations.

* `CopiesAreCounted`: `Spec => []CopiesCounted`, if no failure action is "succ".
  Each copy that came out is counted once, for any number of copies and
  attempts, holds, errors and commands. With a `failure_action` of "succ"
  `Update_status` counts a copy that was not printed, by intent.

`CountInv` is the property with the reaping in it: what came out is COPY_DONE, and
one more while a worker that printed is not reaped. It needs `OwnInv`: the worker's
destination is the one the ticket names, and open, so that the server counts for
the destination that printed.

* `ExpiryHasCaughtUp`: `Spec => []ExpiryCatchesUp`, for finitely many jobs.

`KeptInv` says that from the choice of the jobs to be removed (`Collect`) to the end of
the server no more than `done_jobs` finished jobs are left besides those chosen.
The choice is of `Sort_order`, the property of the spool directory: `KnownInv` says
that the finished jobs are in `Sort_order` unless a rescan is due, and that the
one being printed will be. `RouteInv` says that a job with destinations is done
when all of them are, so that no job becomes finished without a worker. The
rest are cardinalities of finite sets.

`JobTransferProofs`:

* `KeptIsToldToLpd`: `TransferSpec => []KeptIsAnnounced`. A receiver that put a job
  into the queue and ended has named the queue to lpd or told its sender of an
  error, for any number of jobs, attempts, files, job numbers and faults.

The inductive invariant is `AnnounceInv`. A receiver that has not read a request
has put nothing into the queue, and its only ways to the end lead through
`Close`, which announces, or `AnswerError`, which tells; the receivers of
attempts that were not made yet are absent (`FutureInv`), so that a new
connection starts with nothing put into the queue.

For transfers that do not overlap (`OneAtATime`: one job, and no second attempt
while a receiver of the first lives), which is where the claims are true, since
two receivers may take one job number (section 5):

* `QueuedJobsAreWhole`: `TransferSpec => []QueuedIsWhole`. A job that can be printed has
  the data files its control file names, and they came with it.
* `NumbersAreKept`: `TransferSpec => []TicketIsMine`. The ticket under the number of a
  receiver is its own.
* `AckedJobsAreKept`: `TransferSpec => []AckedIsKept`. A job whose sender has its last
  answer is in the queue, or with a receiver that has all of it or has yet to write
  the ticket of what is over the limit, or was a block of which nothing was left.

The last is the theorem that says what a spooler is trusted with: the sender removes
its copy. `SoloInv` says that one receiver lives; `SpoolInv` that its ticket and its
files on the disk are its own from the lock to the end of the job (`Owns`, `Holds`,
`Opens`, `NumberInv`), which gives the first two. For the third the invariant
has to relate the two ends of the connection: `DialogueInv` says that an open
connection is in one of five situations. The receiver waits for the message the
sender is to send (`Idle`), or it is on the wire (`Sent`), or the receiver works on it
(`Works`), or its answer is on the way, which is yes (`Yea`) or no (`Nay`). `Place` and
the four orders (`ControlFirst`, `DataFirst`, `InPairs`, `InBlock`) say what the receiver
has at each message, so that at the last yes it has all. For a job over the limit that is `Pending`, one that has come and has
yet to get its ticket, or `Emptied`, a block without a data file. A connection that broke
keeps only what the sender may have heard.

`LpdMainProofs`:

* `QueueProcessesBounded`: `LpdSpec => []ServersBounded`. lpd never has more queue
  processes than `max_servers` less the reserve, for any number of queues,
  connections and faults and any limit.

The inductive invariant is `LimitInv`. The count is taken once in a pass and then
kept by hand while processes end and are forked; it says that while lpd may
start a process its two counters together exceed the processes there are.

`LoadBalanceProofs`:

* `JobsPrintOnce`: `Spec => []PrintedOnce`, for any server queues, jobs, choosers and
  processes. A job is printed once, unless a process was killed with it.
* `FreeLongestGetsJob`: `Spec => LongestFreeFirst`, an action property. Without a
  chooser a job goes to the usable server queue that has been free longest, as far
  as the masters of the queue saw and with the exceptions of section 3.

`PlaceInv` says that a job is in one queue, but for the time between the copy and
the end of the original, when the master is the only one that knows both;
`MoveInv` that what the master copies still waits in its own queue; `PrintInv` that
a job that is in no server queue, or waits there with nobody printing it, was never
printed. `LockInv` gives one process to a server queue.

`OrderInv` carries the other theorem from one choice to the next. `longer` holds the
pairs of servers of which one was free in an earlier second; the invariant says that
every such pair is in that order in the list of the master while there is one
(`Behind(ListOrder(master.list), ..)`), that the list has every server once and is
sorted by DONE_TIME, and that between two masters the pair is in that order in the saved
SERVER_ORDER. `ByDoneTimeShape` and `ListedShape` are what the two reorderings keep: the
sort puts a server behind those with an earlier time and those with its own that
were before it, and a name of the saved order and of `:sv=` stays where it is first.
Both rest on `InOrderShape`: how many come before an element is its place. The copies that
receivers and starting processes hold are some sequence of servers, and no more is known of them:
a receiver that writes an old SERVER_ORDER back, a new master whose copy is not the
saved order, and a master that is killed undo what was seen, and `longer` with it.

The assumptions are that a job's number is a natural number, that `:sv=` is a
sequence, and that the master's queue is none of its servers.

`QueueStatusProofs`:

* `CacheIsTrue`: `StatusSpec => []IndexIsTrue`. An entry of an index that nobody has locked
  leads to a report for its query that is not from before the last flush.

`CacheInv` states it for every entry but the one whose report the owner of the lock
has just renamed and not yet written into the index. It needs that an index has
one owner (`ProcsInv`), through any number of index files that were unlinked while
others had them open, and that a report on its way to an index that is still in
the directory is not from before the flush: a flush takes the index away, and the
next one is another file.

* `OneOrderNoCircularWait`: `StatusSpec => []NoCircularWait`, when requests meet the
  queues in one order, for any number of processes, requests, flushes and failures.

The hypothesis is `OneOrder(W, rank)`: W is a set of walks, each of what a request has
visited and of the names it has left, that holds the starts and is closed under a
visit, and rank falls along every walk. It is about the printcap and
the names that users ask for, and not about what the processes do: in which order a request
opens, locks, is served, writes or fails is free. It is needed, since section 5 has
a counterexample without it, and it can be met: in the run `status` TLC
evaluates it for the run's queues and requests (`OrderAssumption` of
`MCQueueStatus`). The inductive invariant is
`OrderInv(W)`: every request is on one of the walks, and whoever holds a lock of a queue
has come to that queue and, if it is about to lock one, to another
one after it. In a circle of processes, the one whose queue has the smallest rank would
then wait for a process that waits for a queue of a smaller one (`NoCircle`).

`LoggerProofs`:

* `NothingIsMissed`: `Spec => []NothingMissed`. While a connection stands no change
  of a queue is lost: the last that the host has heard of an item, or that is on
  its way, or that waits in the buffer, the file or the pipe, is the state of the item, unless
  a writer has yet to log it or the dump has yet to come to it. Of an item whose writers
  log without a lock it is that state or the last message.
* `EndSaysAll`: `Spec => []EndMeansAll`. A host that has read END knows of every item.

Both are for any number of items and changes, any size of pipe, connection and
reads, and any faults; `LoggerAssumption` says that the number of items and the
pieces a read returns are natural numbers, and `Locked` some of the items. `LogInv` looks at the pieces on the `Way`
from the buffers to the host as one sequence, which the steps of logger and host
only push on at one end and read at the other. `HeardInv` is `NothingMissed` with
the pipe kept apart, since without a connection the pipe is thrown away and the way
is not. It needs `WayInv`: the pieces are those of whole lines, so that what the
host reads as a line is one, and an END comes behind a line of every item;
`DumpInv`: in a dump every item before the next one is listed; `PipeInv`: what is in
the pipe of an item ends with its last message; `LockInv`: of a locked item that is
its state, unless the writer of the state is about to log it; and `OpenInv`:
a connection that the logger does not yet have carries nothing. A dump may be
followed by an older state that was still in the pipe; `PipeInv` says that the last
message comes behind that. `~torn`, the hypothesis of the properties, is needed for
`WayInv`.

Only model-checked: liveness, which TLAPS cannot reach, and all of `Printcap` and
`Submission`. What is decided by walking over data (`LineList`, `ControlFile`,
`Permissions`, `Globs`) is compared with a reference definition by TLC, over the
inputs of the instances: folds and recursive functions are out of the provers'
reach for every input.

## 5. Where documents and code differ

### Claims the code does not keep

The modules state these claims of the manuals, CHANGES and comments as
properties too. They are in no run, since the code breaks them; with the
constants given here in place of those of the module's run, TLC shows how.

| Property | Claim | What happens | To see it |
|---|---|---|---|
| `QueueServer!NewServerWaitsForWorkers` | comment at lpd_jobs.c:117-119: a new master cannot serve until all slaves are dead, since they keep the lock file open | `Make_lpd_call` (lpd_worker.c:78-82) closes it in them; after the server was killed the next one clears SERVER and forks a second worker for a job that is being printed | `Procs` of 2, `Jobs` of 1, `MaxCrashes` 1, `MaxKicks` 1, `Polling` TRUE |
| `QueueServer!SignalIsSeen` | comment at lpd_jobs.c:453: the exiting process sleeps 2 seconds | it sleeps 500 microseconds (1267); a starter may signal it after its last look at `Susr1` | `MaxCrashes` 0, `PromptSignals` FALSE |
| `QueueControl!AbortIsSticky` | CHANGES:4544-4548: the abort lasts until start, up, kill, topq, release or redo | a receiver or an lpc that read the control file before the abort writes its copy back (getqueue.c:783-839) | `Commands <- MsgOnly`, `MaxCommands` 1 |
| `QueueControl!StartsServerIfNecessary` | comment at lpd_control.c:542: "start the server if necessary" | a dead server's pid in the lock file counts as a server (476, 552): after `lpc abort`, `lpc up` starts none | `Commands <- AbortAndUp`, `StopOnAbort` and `ForcePoll` FALSE |
| `JobTicket!OnlyFinishedExpire` | lpc.n:350-352, CHANGES:1428-1430: a released job is printed; the oldest done job is removed | `Remove_done_jobs` takes REMOVE_TIME for the sign of a finished job (lpd_jobs.c:2744), and release does not clear it | 2 jobs, `Routed` empty, `Copies` and `SendTry` 1, `Exits <- PrintOrGiveUp`, `Commands <- ReleaseOnly` |
| `JobTicket!MovedWasSent` | lpc.n:313-316: move sends the job to the destination | given while the job prints, the end of the print is taken for that of the move (lpd_jobs.c:1979): nothing is sent | the same with 1 job, `Commands <- MoveOnly` |
| `LpdMain!PollFindsWork` | lpd.n:119-125, lpd.conf.n:279-280: lpd polls at an interval | a poll process that ends between the collection of children (lpd.c:415) and `select()` is not noticed, and with `start_pid` set lpd arranges no timeout | as in `daemon` |
| `LpdMain!WaitedForIsForgotten` | comment at child.c:38: the pid that was waited for is removed from `Process_list` | `plp_waitpid` forgets the pid it was asked for, -1 (child.c:87) | as in `daemon` |
| `JobTransfer!TicketIsMine` with two jobs | comment at lpd_rcvjob.c:1424: a non-colliding job number | the size that tells a free number is read before the lock is had (1447-1450): two receivers take one number | `Jobs` of 2, `MaxAttempts` 1, `DataFiles` 1, `Orders` {"control"}, `MaxFaults` 0, `DiscardLarge` FALSE |
| `PrintJob!FailureIsReported` | lpd.n:1320-1335: a filter's nonzero status fails the job | with `lp=\|program` that program's status replaces the filter's (lpd_jobs.c:1577-1580) | `Files` and `Copies` 1, `Outputs` {"pipe"}, `SendTry` 1, `MaxFaults` 1 |
| `Printcap!ConfigIsWhole` | lpd.conf.n:97-98: include puts files into lpd.conf | `Read_file_list` takes included lines to be appended (linelist.c:1312-1335), but lpd.conf's list is sorted: lines get out of order and are not found, or one is lost | `Contents <- ConfigContents`, `Setups` {3}, `MaxSetups` 1 |
| `Submission!PermsAsTable` | lpd.perms.n:186-213: the keys that have a value for each service, and which value | `Perms_check` has a table of its own (permission.c:143-386), see below | as in `submit` |
| `Submission!RemovedOnlyKept` | lpr.n:236-242: lpr deletes the files after spooling them | a file that cannot be opened is warned of and passed over (lpr.c:1162-1166); when the others were sent, `-r` unlinks every name of the command line (360-370) | as in `submit` |
| `QueueStatus!NoCircularWait` with two orders | CHANGES:2115-2117: the second of two equal requests simply reads the cached data | it keeps the lock on the index while it waits for the next queue's (lpd_status.c:458); two requests that meet two queues in opposite orders wait for ever | `Starts <- EitherFirst`, `Queries` {"short"}, `Remote` empty, `MaxRequests` 4, no flush and no fault |

### Seen while modelling

Tickets and the queue server:

* JABORT of a destination is not written to the ticket (lpd_jobs.c:2133), so
  SERVER stays set and the job waits for the next start of a server, which
  tries the destination again; errorcodes.h:26 says "do not try again".
* A fork that fails leaves SERVER set as well (1225), until the next start; so
  does a move to a queue that does not exist (1171).
* A job whose last destination fails never becomes done; one whose last
  destination is done becomes done while an earlier one is held, and may expire
  before that is released. One whose last destination was moved is never done (1944).
* lpc redo of a job of several copies prints one more copy, since the job's
  COPY_DONE is not cleared (lpd_control.c:721-731).
* lpc move on a job with destinations does not move it.
* `Set_job_ticket_file` truncates and then writes (getqueue.c:692): a crash in
  between leaves an empty ticket; it returns 0 when it cannot open one (679).
* `lpc disable` also stops the printing of jobs that are queued
  (`Sp_disabled(sp)`, lpd_jobs.c:867), though the manual says it turns spooling
  off. `lpc kill` does not clear the abort, though CHANGES:4548 lists it.
* `goto again` (lpd_jobs.c:423) keeps the `Spool_control` of before; the server
  that goes round again decides by it until its first rescan.

lpd:

* `Read_server_status` splits what one read returned (lpd.c:855): a name at its
  end may be cut. A report still in the old pipe is lost when a new poll starts.

Load balance queues:

* `Receive_job` writes back the control file of the master queue that it read
  before: a SERVER_ORDER, CHANGE or stop saved meanwhile is undone
  (lpd_jobs.c:1251-1252, lpd_rcvjob.c:493-495). `receiver` in `LoadBalance` does this.
* A process for the queue reads the control file in `Setup_printer` (415) before it tries the
  lock (460). If the master leaves in between, having saved SERVER_ORDER (1251-1252), the
  new one sorts its servers by the older order (533) and may choose the printer that
  became free later; with CHANGE in its copy it writes the older order back (512-517).
  `SetUp` and `Begin` in `LoadBalance` do this.
* HF_NAME is not set for server queues, so that their control files are not read
  again when their process ends (1726): the master goes on moving jobs to a
  printer that stopped itself.
* A killed process of a server queue is not replaced while the master waits for
  the stopped printers of another job (664-667 starts only those with CHANGE).
* A crash between copy and end of the original prints the job twice (2909).
* CHANGES:2893-2900 has a server queue started when it is available and its
  change flag set; the code does not look at the first.

Transfer:

* A temporary ticket is unlinked twice (lpd_rcvjob.c:482, 1364), the second time by name.
* A data-first job cut before its control file ends in a logic error that leaves
  data files behind; discarding such a job discards its control file as well.
* A block over `Max_job_size` none of whose data files is under it is removed, with no
  ticket and no error, and answered with ACK 0 (lpd_rcvjob.c:798, 914-941, 672); its user
  is not told. CHANGES:236-238 calls it "accepted and then discarded"; with one
  data file under the limit, or in another order, a ticket with an error remains.
* After a discarded file the flag is only reset when the next job begins (374), after its
  control file has been read: that of the second of two jobs on a connection goes to
  /dev/null as well (316-318), and the job is queued without what it said.
* When the answer to a block fails after the job was queued, lpd is not told. Of two
  jobs on one connection the first is announced only after the second.
* `Link_file_read` takes the end of the connection for the 0 byte after a file. The
  data file from standard input is sent with no answer read.

Printing:

* An OF filter that exits with 0 where it should suspend itself ends the job with
  JSUCC and nothing printed (printjob.c:692). A banner that fails at the end
  leaves it stopped.
* The IF filter is not killed when its time is over (459).
* The reading of an accounting answer never moves its length (accounting.c:166).
* A failing local accounting writes the ticket without its lock (lpd_jobs.c:1531).
  `Filter_files_in_job` does not restore `lp`; `Remote_job` does not look at the
  status of `Print_job` (1346).

Configuration:

* Of two include lines in lpd.conf the list keeps one. `lp`, `rm` and `rp` of
  lpd.conf are cleared (getprinter.c:91-98). A queue whose name is already an alias is
  not in the order list. Keywords are compared without case, and
  printcap(5) says with.

lpq, lprm and lpc:

* A flush while a report is being made is followed by its rename (CHANGES:2095-2098
  means to prevent it); a process that opened the index before a flush still
  uses it.
* `sv` and destinations of the form pr@host are never asked by lpd
  (getprinter.c:207). Two hosts that forward to each other ask without end. lprm
  without arguments removes a job in each queue it reaches.

Logger:

* Messages of two writers can cross. `Set_spool_control` renames the control file and
  then logs it, without a lock (getqueue.c:811-846); `Set_job_ticket_file` without an open
  descriptor gives the lock up (697-699) before it logs (716). The host then keeps the older
  state until the next change of that item or the next dump: nothing sends a dump
  while a connection stands. `NothingMissed` and `LogCatchesUp` hold with the exception of
  section 3.
* What is left of an old connection's buffer goes to the new one before the dump
  (CHANGES:4008-4014 has it thrown away). With the default timeouts of 0 the logger
  reconnects only when there is a message.
* The loop over ports tries one fewer than there are (linksupport.c:424-425), and its
  count goes on over `again`.

lpr, control files and permissions:

* The result of `Check_format` is not used (lpd_rcvjob.c:1390), FORMAT_ERROR never read
  (getqueue.c:1307), and `Xlate_incoming_format` has no effect.
* `-f` of lp sets the class, though its usage text says the format. With options in `lpr=`
  arguments are read twice (lpr.c:109-137). Empty standard input makes a data file
  of length 0, which no server takes.
* The letter of a BSD client's control file becomes the class and with it the priority; a
  priority that lpr asked for is overwritten on receipt.
* `Nline_after_file` with a file twice and then another gives the other the wrong name.
* The table of lpd.perms(5) and `Perms_check` differ. PORT has a value at R and Q
  (lpd.perms.n:195), the code looks at it at X, M and C only (permission.c:186-194). HOST is
  the remote host at X (193), where the code answers every test about a job with yes
  (145, 166), USER, GROUP, CONTROLLINE, SAMEHOST and others as well. SERVER has no value at X and P
  (205) and is tested at both (372-379). At P SAMEHOST, FORWARD, AUTH, AUTHTYPE and AUTHUSER
  have none and are tested; REMOTEHOST is the host of the job (197) and the code takes the sender's.
  AUTHSAMEUSER and AUTHJOB have one at R (209, 211) and are not tested there. At Q
  FORWARD has none and is tested, and REMOTEUSER is the user of the job (196), while
  `Perm_check` holds the user who asks, or none (lpd_status.c:350). conf/lpd.perms.in has
  another table than the manual: PORT at P, AUTH at P, a row for LPC. Services S and C: the table
  gives both to lpc, the code asks with C only.
* `lpr -r` unlinks files that it could not open and did not send (lpr.c:360-370).
* In lpd.perms two stars at the end of a pattern, `!` with a host, FORWARD and
  NOT CONTROLLINE where no job is known, a range from high to low and `*` in SERVICE
  do not do what lpd.perms(5) says; `PermsAsDocumented` is checked on rules without
  them. lpr's `In_group` and the daemon's `ingroup` differ. The check for the
  connection of an lpc keeps its host where that for its queue clears it, so that
  SAMEHOST may be answered differently.

## 6. Not modelled

* Authentication (`lpd_secure.c`, `sendauth.c`, `user_auth.c`, `../auth`): handshakes with
  cryptographic libraries; a model of what the libraries promise would be about
  them. No module has authentication as an input.
* checkpc, stty, md5, plp_snprintf, getopt, proctitle, lpf and the drawing of
  banners: sequential programs and functions without state, whose results are
  bytes, files' owners or terminal settings.
* lpq, lprm, lpc and lpstat as clients, and monitor: one request each, and the display of
  an answer.
* Queue order by class and priority, age limits of finished jobs, save_on_error and
  save_when_done, a MOVE of one destination, holdall, redirect and class of lpc,
  routing filters, control filters, Fifo.
* A crash between the truncation and the writing of a file.

What could follow: the transfer theorems for jobs that
overlap but never meet on a number; a run of `LoadBalance` over the whole handshake
of `QueueServer`.

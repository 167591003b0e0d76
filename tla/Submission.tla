----------------------------- MODULE Submission -----------------------------
(***************************************************************************)
(* A job from lpr's command line to the last host's printer: lpr makes the *)
(* job of its options and files and sends it (lpr.c), each lpd makes a job *)
(* of the control file it receives, checks the permissions, and prints it  *)
(* or sends it on, by its routes if it has any, as a new control file.  A  *)
(* user may remove it on the way.                                          *)
(*                                                                         *)
(* What is written and read is ControlFile's, what is permitted is         *)
(* Permissions'.  A scene says who does what: the command, or the message  *)
(* of a program that is not LPRng's; how the client is set up; the hosts   *)
(* the job goes through, the last of which prints; the user who may try to *)
(* remove it.  The bytes, the acknowledgements and the spool files are     *)
(* JobTransfer's; here a message arrives or does not.                      *)
(***************************************************************************)
EXTENDS ControlFile, Permissions, TLC

CONSTANTS
  Scenes,          \* function to what may happen
  FileKind,        \* function from names of files, and "-" for standard input,
                   \* to "text", "binary", "empty", "absent", or
                   \* "unreadable": there, but not for lpr to open
  HostTable,       \* function from host names to their names and addresses
  MaxLost          \* messages lost

ASSUME SubmissionAssumption == MaxLost \in Nat

VARIABLES
  scene,
  parms,     \* lpr: what the options set
  stage,     \* lpr: parms, make, send, done, failed; other for another program
  job,       \* lpr's job
  tries,     \* lpr's attempts to send it
  wire,      \* a message on its way, or Silence
  queue,     \* function from hosts to their jobs
  out,       \* what the last host has printed, job by job
  verdict,   \* the permission checks of the last step
  gone,      \* files removed by lpr -r
  kept,      \* history: what the first host has stored
  lost       \* messages lost

vars == <<scene, parms, stage, job, tries, wire, queue, out, verdict, gone, kept, lost>>

Hosts == 1..Len(scene.hosts)
LastHost == Len(scene.hosts)
Peer(h) == IF h = 1 THEN scene.client.host ELSE scene.hosts[h - 1].host
HostOf(name) == IF name \in DOMAIN HostTable THEN HostTable[name] ELSE NoHost

Silence == [to |-> 0]
NoJob == [lines |-> [k \in {} |-> None], prio |-> None, number |-> 0, copies |-> 0,
          fhost |-> None, files |-> <<>>]

-----------------------------------------------------------------------------
(* The options.  One is [k, v]; a letter or a count is its value for -F,   *)
(* -K and -q, a sequence of words otherwise.                               *)

NoParms == [die |-> FALSE, copies |-> 0, fmt |-> "0", class |-> None, name |-> None,
            user |-> None, prio |-> None, noHeader |-> FALSE, binary |-> FALSE,
            remove |-> FALSE, check |-> TRUE, queue |-> FALSE, acct |-> None,
            mail |-> None, opts |-> None, files |-> <<>>]

AddOption(p, v) == [p EXCEPT !.opts = @ \o v]
SetFormat(p, f) == IF p.fmt # "0" THEN [p EXCEPT !.die = TRUE] ELSE [p EXCEPT !.fmt = f]
SetCopies(p, n) == [p EXCEPT !.copies = n, !.die = @ \/ n <= 0]

(* Called as lp.                                                           *)
LpOption(p, o) ==
  CASE p.die -> p
    [] o.k = "f" -> [p EXCEPT !.class = o.v]
    [] o.k = "m" -> [p EXCEPT !.mail = scene.client.user]
    [] o.k = "n" -> SetCopies(p, o.v)
    [] o.k = "nobanner" -> [p EXCEPT !.noHeader = TRUE]
    [] o.k \in {"o", "S", "T", "y"} -> AddOption(p, o.v)
    [] o.k = "q" -> [p EXCEPT !.prio = <<o.v>>]
    [] o.k = "t" -> [p EXCEPT !.name = o.v]
    [] o.k \in {"c", "p", "r", "w", "s", "H", "P"} -> p
    [] OTHER -> [p EXCEPT !.die = TRUE]

LprOption(p, o) ==
  CASE p.die -> p
    [] o.k = "C" -> [p EXCEPT !.class = o.v]
    [] o.k = "F" -> SetFormat(p, o.v)
    [] o.k \in Formats \ {"l", "m"} -> SetFormat(p, o.k)
    [] o.k \in {"l", "b"} -> [p EXCEPT !.binary = TRUE]
    [] o.k \in {"K", "#"} -> SetCopies(p, o.v)
    [] o.k = "J" -> [p EXCEPT !.name = o.v]
    [] o.k = "N" -> [p EXCEPT !.check = FALSE]
    [] o.k = "Q" -> [p EXCEPT !.queue = TRUE]
    [] o.k = "R" -> [p EXCEPT !.acct = o.v]
    [] o.k = "U" -> [p EXCEPT !.user = o.v]
    [] o.k \in {"Z", "o"} -> AddOption(p, o.v)
    [] o.k = "h" -> [p EXCEPT !.noHeader = TRUE]
    [] o.k = "m" -> [p EXCEPT !.mail = o.v]
    [] o.k = "r" -> [p EXCEPT !.remove = TRUE]
    [] o.k = "s" -> p
    [] OTHER -> [p EXCEPT !.die = TRUE]

(* Get_parms: what the options say is added to what is set already.        *)
GetParms(p, options, files) ==
  LET q == FoldLeft(LAMBDA r, o : IF scene.cmd.lp THEN LpOption(r, o) ELSE LprOption(r, o),
                    p, options)
  IN [q EXCEPT !.files = @ \o files]

(* main: Get_parms of the arguments, and, when the printcap has options    *)
(* for lpr, once more of these and the arguments; only the files are       *)
(* forgotten in between.                                                   *)
Parms ==
  LET p == GetParms(NoParms, scene.cmd.options, scene.cmd.files) IN
  IF scene.client.lprOpts = <<>> \/ p.die THEN p
  ELSE GetParms([p EXCEPT !.files = <<>>], scene.client.lprOpts \o scene.cmd.options,
                scene.cmd.files)

-----------------------------------------------------------------------------
(* Make_job.  The files of a job have no transfer name yet: their path.    *)

(* Checkread: a file that cannot be opened is warned of and passed over.   *)
Opens(f) == FileKind[f] \notin {"absent", "unreadable"}

(* Check_lpr_printable: yes, no, or the whole of lpr ends.                 *)
Printable(p, f, fmt) ==
  CASE ~p.check \/ ~scene.client.conf.check -> "yes"
    [] FileKind[f] = "empty" -> IF f = "-" THEN "yes" ELSE "no"    \* -1 is taken for yes
    [] FileKind[f] = "binary" /\ fmt \in {"p", "f"} -> "die"
    [] OTHER -> "yes"

FormatOf(p) ==
  IF p.binary THEN "l"
  ELSE IF p.fmt # "0" THEN p.fmt
  ELSE IF scene.client.format # "0" THEN scene.client.format ELSE "f"

(* Make_job's "-" alone is no file, that is, standard input.               *)
FilesOf(p) == IF p.files = <<>> THEN <<"-">> ELSE p.files

(* Check_files and Copy_STDIN.                                             *)
Taken(p) ==
  SelectSeq(FilesOf(p), LAMBDA f : Opens(f) /\ Printable(p, f, FormatOf(p)) = "yes")

ClassOf(p, prio) ==
  IF p.class # None THEN p.class
  ELSE IF scene.client.conf.bsd THEN scene.client.host ELSE <<prio>>

ClientPriority(p) ==
  LET conf == scene.client.conf
      c == IF p.prio # None THEN p.prio[1]
           ELSE IF p.class # None /\ ~conf.break THEN p.class[1]
           ELSE IF conf.defprio # None THEN conf.defprio[1] ELSE "A"
  IN Upper(c)

UserOf(p) == IF p.user # None /\ scene.client.mayRename THEN p.user ELSE scene.client.user

JobName(p) == IF p.name # None THEN p.name ELSE FilesOf(p)

Banner(p) == IF p.noHeader \/ scene.client.conf.noHeader THEN None ELSE UserOf(p)

QueueName(p) ==
  IF scene.client.conf.force # None THEN scene.client.conf.force
  ELSE IF p.queue THEN scene.client.queueName ELSE None

JobLines(p) ==
  LET given == [A |-> None, C |-> ClassOf(p, ClientPriority(p)), H |-> scene.client.host,
                J |-> JobName(p), L |-> Banner(p), M |-> p.mail, P |-> UserOf(p),
                Q |-> QueueName(p), R |-> p.acct, Z |-> p.opts]
  IN [k \in {l \in DOMAIN given : given[l] # None} |-> given[k]]

(* Nothing to print is no file left, or only empty ones.                   *)
Refused(p) ==
  LET conf == scene.client.conf IN
  \/ p.die
  \/ ClientPriority(p) \notin Capitals
  \/ FormatOf(p) \notin scene.client.formats
  \/ conf.maxFiles > 0 /\ Len(p.files) > conf.maxFiles
  \/ conf.maxCopies > 0 /\ p.copies > conf.maxCopies
  \/ \E f \in Range(FilesOf(p)) : Opens(f) /\ Printable(p, f, FormatOf(p)) = "die"
  \/ \A i \in DOMAIN Taken(p) : FileKind[Taken(p)[i]] = "empty"
  \/ ~InRestrictedGroup(scene.client.groups, UserOf(p))
  \/ ~scene.client.remote

NewJob(p) ==
  [lines  |-> JobLines(p), prio |-> <<ClientPriority(p)>>,
   number |-> Fix_job_number(scene.client.pid),
   copies |-> IF p.copies = 0 THEN 1 ELSE p.copies,
   fhost  |-> scene.client.host,
   files  |-> [i \in DOMAIN Taken(p) |->
                 [fmt |-> FormatOf(p), copies |-> 1, df |-> <<Taken(p)[i]>>,
                  content |-> Taken(p)[i],
                  name |-> <<IF Taken(p)[i] = "-" THEN "(STDIN)" ELSE Taken(p)[i]>>]]]

-----------------------------------------------------------------------------
(* lpr.                                                                    *)

ReadOptions ==
  /\ stage = "parms" /\ parms' = Parms /\ stage' = "make"
  /\ verdict' = <<>>
  /\ UNCHANGED <<scene, job, tries, wire, queue, out, gone, kept, lost>>

MakeJob ==
  /\ stage = "make"
  /\ IF Refused(parms) \/ TooMany(NewJob(parms)) THEN stage' = "failed" /\ UNCHANGED job
     ELSE stage' = "send" /\ job' = NewJob(parms)
  /\ verdict' = <<>>
  /\ UNCHANGED <<scene, parms, tries, wire, queue, out, gone, kept, lost>>

Empty(j) == \E i \in DOMAIN j.files : FileKind[j.files[i].content] = "empty"

(* As a bug would have it: the error of the last try is forgotten.         *)
TryFailsQuietly ==
  /\ tries' = tries + 1
  /\ stage' = IF tries + 1 < scene.client.sendTry THEN "send" ELSE "accepted"

(* A try that fails, as each does that comes to an empty file.             *)
TryFails == tries' = tries + 1 /\ stage' = IF tries + 1 < scene.client.sendTry THEN "send" ELSE "failed"

Send ==
  /\ stage = "send" /\ wire = Silence
  /\ IF Empty(job) THEN TryFails /\ UNCHANGED wire
     ELSE /\ wire' = [to |-> 1,
                      msg |-> Message(job, NoDest, scene.client.conf, <<>>)]
          /\ stage' = "sent" /\ UNCHANGED tries
  /\ verdict' = <<>>
  /\ UNCHANGED <<scene, parms, job, queue, out, gone, kept, lost>>

(* A file is removed whether it was opened, found printable, or neither.   *)
Removed(p) == IF p.remove THEN {f \in Range(p.files) : f # "-" /\ FileKind[f] # "absent"} ELSE {}

LprEnds ==
  /\ stage = "accepted"
  /\ gone' = Removed(parms) /\ stage' = "done"
  /\ verdict' = <<>>
  /\ UNCHANGED <<scene, parms, job, tries, wire, queue, out, kept, lost>>

(* Another program sends the job as it likes.                              *)
SendOther ==
  /\ stage = "other"
  /\ wire' = [to |-> 1, msg |-> scene.cmd.msg] /\ stage' = "done"
  /\ verdict' = <<>>
  /\ UNCHANGED <<scene, parms, job, tries, queue, out, gone, kept, lost>>

-----------------------------------------------------------------------------
(* lpd: the permission checks, each with the fields its caller sets.       *)

Request(service, h, from) ==
  [service |-> service, printer |-> scene.hosts[h].printer, user |-> Null, remoteuser |-> Null,
   host |-> NoHost, remotehost |-> HostOf(from), port |-> scene.port, lpc |-> Null,
   unix |-> FALSE, authuser |-> Null, authtype |-> Null, jobauth |-> Null,
   lines |-> [k \in {} |-> None]]

OfJob(r, j) == [r EXCEPT !.user = Value(j.lines, "P"), !.lines = j.lines,
                         !.host = HostOf(Value(j.lines, "H"))]
SelfRequest(r) == [r EXCEPT !.remoteuser = r.user]

Connects(h, from) == [Request("X", h, from) EXCEPT !.host = HostOf(from)]
Arrives(h, j) == SelfRequest(OfJob(Request("R", h, Peer(h)), j))
Prints(h, j) == SelfRequest(OfJob(Request("P", h, Peer(h)), j))
Controls(h, who) == [Request("C", h, who.host) EXCEPT !.remoteuser = who.user]
Removes(h, who, j) ==
  [OfJob(Request("M", h, who.host), j) EXCEPT !.remoteuser = who.user]

Decision(h, r, jobcheck) ==
  [rules |-> scene.hosts[h].rules, r |-> r, jobcheck |-> jobcheck,
   answer |-> PermsCheck(scene.hosts[h].rules, r, jobcheck, "ACCEPT")]

(* lpc: Job_control checks the command against the first queue it names,   *)
(* with the host the connection left there; that decides the commands to   *)
(* lpd itself and the status.  Do_queue_control checks the others anew, on *)
(* each of the queues.                                                     *)
ServerOps == {"reread", "lpd", "defaultq"}
ListOps == {"status", "stop", "start", "disable", "enable", "abort", "up", "down",
            "holdall", "noholdall"}

OfCommand(h, who, c, printer) ==
  [Controls(h, who) EXCEPT !.lpc = c.word, !.printer = printer]
AsksServer(h, who, c) ==
  [OfCommand(h, who, c, c.printers[1]) EXCEPT !.host = HostOf(who.host)]

(* Do_printer_work: "all" is every queue of the printcap.                  *)
QueuesOf(h, printer) ==
  IF printer = <<"all">> THEN scene.hosts[h].queues
  ELSE SelectSeq(scene.hosts[h].queues, LAMBDA q : q = printer)

(* The one queue, or all that are listed.                                  *)
Listed(h, c) ==
  IF c.op \in ListOps THEN FlattenSeq([i \in DOMAIN c.printers |-> QueuesOf(h, c.printers[i])])
  ELSE QueuesOf(h, c.printers[1])

(* What becomes of the first job of a sending host: a try that fails is    *)
(* made again, up to the host's limit, and one that does not ends a copy   *)
(* for the first of the routes, or the job.                                *)
Dropped(e, q) ==
  IF Len(e.dests) <= 1 THEN Tail(q)
  ELSE <<[e EXCEPT !.dests = Tail(@), !.tries = 0]>> \o Tail(q)

Failed(h, q) ==
  LET e == Head(q) IN
  IF e.tries + 1 >= scene.hosts[h].sendTry THEN Dropped(e, q)
  ELSE <<[e EXCEPT !.tries = @ + 1]>> \o Tail(q)

Sent(q) ==
  LET e == Head(q) IN
  IF e.dests = <<>> \/ e.dests[1].done + 1 >= e.dests[1].copies THEN Dropped(e, q)
  ELSE <<[e EXCEPT !.dests[1].done = @ + 1, !.tries = 0]>> \o Tail(q)

(* The sender of the message on its way learns what became of it.          *)
SenderFails ==
  IF wire.to = 1
    THEN /\ IF stage = "sent" THEN TryFails ELSE UNCHANGED <<tries, stage>>
         /\ UNCHANGED queue
    ELSE /\ queue' = [queue EXCEPT ![wire.to - 1] = Failed(wire.to - 1, @)]
         /\ UNCHANGED <<tries, stage>>

SenderLearns(entry) ==
  LET h == wire.to IN
  /\ stage' = IF h = 1 /\ stage = "sent" THEN "accepted" ELSE stage
  /\ queue' = [i \in DOMAIN queue |-> IF i = h THEN Append(queue[i], entry)
                                     ELSE IF i = h - 1 THEN Sent(queue[i]) ELSE queue[i]]
  /\ UNCHANGED tries

Lose ==
  /\ wire.to # 0 /\ lost < MaxLost
  /\ SenderFails /\ wire' = Silence /\ lost' = lost + 1 /\ verdict' = <<>>
  /\ UNCHANGED <<scene, parms, job, out, gone, kept>>

(* Receive_job and Check_for_missing_files.                                *)
Read(h, msg) == WithFiles(Identified(FromControlFile(msg, scene.hosts[h].conf), Peer(h)), msg)

Receive ==
  /\ wire.to # 0
  /\ LET h == wire.to
         host == scene.hosts[h]
         j == Read(h, wire.msg)
         connect == Decision(h, Connects(h, Peer(h)), FALSE)
         arrive == Decision(h, Arrives(h, j), TRUE)
         good == /\ connect.answer # "REJECT"
                 /\ arrive.answer # "REJECT" /\ FilesAgree(j, wire.msg)
         stored == Stored(j, wire.msg, host.conf, Peer(h))
     IN /\ verdict' = IF connect.answer = "REJECT" THEN <<connect>>
                      ELSE <<connect, arrive>>
        /\ IF good
             THEN /\ SenderLearns([job |-> stored, tries |-> 0,
                                   dests |-> Routed(host.routes, Shown(stored), stored.lines["A"])])
                  /\ kept' = IF h > 1 THEN kept
                             ELSE kept \cup {stored.files[i].content : i \in DOMAIN stored.files}
             ELSE SenderFails /\ UNCHANGED kept
  /\ wire' = Silence
  /\ UNCHANGED <<scene, parms, job, out, gone, lost>>

(* A host that is not the last sends the first of its jobs on, to the      *)
(* first of its routes that is not done.                                   *)
Forward(h) ==
  /\ h < LastHost /\ wire = Silence /\ queue[h] # <<>>
  /\ LET e == Head(queue[h])
         p == Decision(h, Prints(h, e.job), TRUE)
         dest == IF e.dests = <<>> THEN NoDest ELSE e.dests[1]
     IN /\ verdict' = <<p>>
        /\ IF p.answer = "REJECT"
             THEN queue' = [queue EXCEPT ![h] = Tail(@)] /\ UNCHANGED wire
             ELSE /\ wire' = [to |-> h + 1,
                              msg |-> Message(e.job, dest, scene.hosts[h].conf, scene.hosts[h].conf.xlate)]
                  /\ UNCHANGED queue
  /\ UNCHANGED <<scene, parms, stage, job, tries, out, gone, kept, lost>>

(* Print_job: each data file as often as its entry says.                   *)
Output(j) == FlattenSeq([i \in DOMAIN j.files |->
               Repeat(IF j.files[i].copies = 0 THEN 1 ELSE j.files[i].copies,
                      <<[fmt |-> j.files[i].fmt, name |-> j.files[i].name,
                         content |-> j.files[i].content]>>)])

PrintJob(h) ==
  /\ h = LastHost /\ queue[h] # <<>>
  /\ LET e == Head(queue[h])
         p == Decision(h, Prints(h, e.job), TRUE)
     IN /\ verdict' = <<p>>
        /\ out' = IF p.answer = "REJECT" THEN out
                  ELSE Append(out, [files |-> Output(e.job), lines |-> e.job.lines])
  /\ queue' = [queue EXCEPT ![h] = Tail(@)]
  /\ UNCHANGED <<scene, parms, stage, job, tries, wire, gone, kept, lost>>

(* lprm: who may control the queue may remove all, others what the check   *)
(* of the job lets them.  A job on its way is its server's.                *)
JobRemove(h) ==
  /\ queue[h] # <<>> /\ wire = Silence /\ scene.who.user # None
  /\ LET e == Head(queue[h])
         c == Decision(h, Controls(h, scene.who), FALSE)
         m == Decision(h, Removes(h, scene.who, e.job), TRUE)
     IN /\ verdict' = IF c.answer = "ACCEPT" THEN <<c>> ELSE <<c, m>>
        /\ queue' = IF c.answer = "ACCEPT" \/ m.answer # "REJECT"
                    THEN [queue EXCEPT ![h] = Tail(@)] ELSE queue
  /\ UNCHANGED <<scene, parms, stage, job, tries, wire, out, gone, kept, lost>>

(* What the command then does to a queue is QueueControl's.                *)
JobControl(h) ==
  /\ \E c \in scene.who.lpc :
       LET first == Decision(h, AsksServer(h, scene.who, c), FALSE)
           queues == IF \/ c.op \in ServerOps
                        \/ c.op = "status" /\ first.answer = "REJECT" THEN <<>>
                     ELSE Listed(h, c)
       IN verdict' = <<first>>
            \o [i \in DOMAIN queues |-> Decision(h, OfCommand(h, scene.who, c, queues[i]), FALSE)]
  /\ UNCHANGED <<scene, parms, stage, job, tries, wire, queue, out, gone, kept, lost>>

Init ==
  /\ \E i \in DOMAIN Scenes : scene = Scenes[i]
  /\ stage = IF scene.cmd.other THEN "other" ELSE "parms"
  /\ parms = NoParms /\ job = NoJob /\ tries = 0 /\ wire = Silence
  /\ queue = [h \in Hosts |-> <<>>]
  /\ out = <<>> /\ verdict = <<>> /\ gone = {} /\ kept = {} /\ lost = 0

Next ==
  \/ ReadOptions \/ MakeJob \/ Send \/ LprEnds \/ SendOther
  \/ Lose \/ Receive
  \/ \E h \in Hosts : Forward(h) \/ PrintJob(h) \/ JobRemove(h) \/ JobControl(h)

Spec == Init /\ [][Next]_vars

-----------------------------------------------------------------------------
(* The job has the parts and the numbers the code gives it, at each place. *)
IsJob(j) ==
  /\ DOMAIN j.lines \subseteq Keys /\ None \notin Range(j.lines)
  /\ j.number \in 0..MaxNumber - 1
  /\ \A i \in DOMAIN j.files : /\ j.files[i].fmt \in Formats
                              /\ j.files[i].copies \in Nat \ {0}
                              /\ j.files[i].content \in DOMAIN FileKind
SubmitTypeOK ==
  /\ stage \in {"parms", "make", "send", "sent", "accepted", "done", "failed", "other"}
  /\ IsJob(job) /\ tries \in 0..scene.client.sendTry
  /\ wire.to \in 0..LastHost
  /\ \A h \in Hosts : \A i \in DOMAIN queue[h] : IsJob(queue[h][i].job)
  /\ gone \subseteq DOMAIN FileKind /\ kept \subseteq DOMAIN FileKind
  /\ lost \in 0..MaxLost

(* What was asked for: every file that can be printed, as often as copies  *)
(* were asked for, in the order of the command; with the formats the hosts *)
(* on the way translate to.                                                *)
Senders == (IF scene.cmd.other THEN <<>> ELSE <<scene.client.conf>>)
           \o [h \in 1..LastHost - 1 |-> scene.hosts[h].conf]

FinalFormat(fmt) ==
  FoldLeft(LAMBDA f, h : Translated(scene.hosts[h].conf.xlate, f), fmt,
           [h \in 1..LastHost - 1 |-> h])

Asked ==
  IF scene.cmd.other THEN scene.cmd.asked
  ELSE LET names == SelectSeq(FilesOf(parms), LAMBDA f : FileKind[f] \in {"text", "binary"})
       IN Repeat(IF parms.copies = 0 THEN 1 ELSE parms.copies,
                 [i \in DOMAIN names |->
                    [fmt |-> FormatOf(parms), content |-> names[i],
                     name |-> <<IF names[i] = "-" THEN "(STDIN)" ELSE names[i]>>]])

NamesMix == /\ \E i \in DOMAIN Senders : Senders[i].nAfter
            /\ \E i \in 1..Len(Asked) - 1 : Asked[i].content = Asked[i + 1].content

(* Through control files written, read, checked, renumbered and written    *)
(* again, copies, retries and routes, a job prints exactly the files it    *)
(* was asked to print, in their order, format and number, each under its   *)
(* own name.  Only Nline_after_file with a file twice in a row mixes names *)
(* (Fix_datafile_infox against Set_job_ticket_from_cf_info).               *)
PrintsAsked ==
  \A n \in DOMAIN out :
    /\ Len(out[n].files) = Len(Asked)
    /\ \A i \in DOMAIN Asked :
         /\ out[n].files[i].content = Asked[i].content
         /\ out[n].files[i].fmt = FinalFormat(Asked[i].fmt)
         /\ NamesMix \/ out[n].files[i].name = Asked[i].name

(* On the wire two data files share a name exactly when they are one file, *)
(* and the control file names the files that follow it: otherwise the      *)
(* receiver's second file takes the place of its first, or it refuses the  *)
(* job (Fix_datafile_infox, Check_for_missing_files).                      *)
OneNamePerFile ==
  wire.to # 0 /\ ~(scene.cmd.other /\ wire.to = 1) =>
    LET f == wire.msg.files
        named == {wire.msg.cf[i].t : i \in {j \in DOMAIN wire.msg.cf : wire.msg.cf[j].c \in Formats}}
    IN /\ \A i, j \in DOMAIN f : f[i][1] = f[j][1] <=> f[i][2] = f[j][2]
       /\ named \in {{}, {f[i][1] : i \in DOMAIN f}}

(* A line that every sender's order lets through, and no BSD limit cuts,   *)
(* reaches the printer as the user gave it, or as the job's route has it;  *)
(* the options of -Z lose those a host takes out and no other, and keep    *)
(* their order (Fix_Z_opts); the copies and destinations of one job carry  *)
(* identifiers of their own (Fix_control).                                 *)
Carried(c, v) ==
  \A i \in DOMAIN Senders :
    LET conf == Senders[i] IN
    /\ conf.bsd => Len(v) <= MaxLine
    /\ IF conf.order # None THEN {c, "*"} \cap Range(conf.order) # {}
       ELSE conf.bsd => c \in Range(BsdOrder)
  /\ \A h \in Hosts : c \notin Range(scene.hosts[h].conf.toZ)

(* Of the options of -Z those no host takes out, in their order, and what  *)
(* the hosts put around them.                                              *)
OptionsLeft(v) ==
  SelectSeq(v, LAMBDA o : \A h \in Hosts : LET r == scene.hosts[h].conf.removeZ
                                           IN \A i \in DOMAIN r : ~Globmatch(r[i], <<o>>))
AddedOptions ==
  UNION {Range(scene.hosts[h].conf.prefixZ) \cup Range(scene.hosts[h].conf.appendZ) : h \in Hosts}
Own(v) == SelectSeq(v, LAMBDA o : o \notin AddedOptions)

LinesKept ==
  /\ \A n \in DOMAIN out, c \in {"P", "J", "M", "C"} :
       LET over == {scene.hosts[1].routes[i].lines[c] :
                      i \in {r \in DOMAIN scene.hosts[1].routes :
                               c \in DOMAIN scene.hosts[1].routes[r].lines}}
           v == Value(job.lines, c)
       IN ~scene.cmd.other /\ v # None /\ Carried(c, v)
            => Value(out[n].lines, c) \in {v} \cup over
  /\ \A n \in DOMAIN out :
       ~scene.cmd.other /\ scene.hosts[1].routes = <<>> /\ Carried("Z", Value(job.lines, "Z"))
         => Own(Value(out[n].lines, "Z")) = OptionsLeft(Value(job.lines, "Z"))
  /\ scene.hosts[1].routes # <<>> /\ LastHost > 1 =>
       \A n, m \in DOMAIN out : n # m => out[n].lines["A"] # out[m].lines["A"]

(* Every answer of Perms_check, for the connection, the job that arrives,  *)
(* the job to print, lprm and lpc, with the fields each of them fills in,  *)
(* is what lpd.perms(5) says of the file, unless a line of it turns on a   *)
(* key for which the table of the manual and the code differ.              *)
AnswerOf(v) == Documented(v.rules, v.r, v.jobcheck, "ACCEPT")
PermsAsDocumented ==
  \A i \in DOMAIN verdict :
    LET v == verdict[i] IN
    Undisputed(v.rules, v.r, v.jobcheck) => v.answer = AnswerOf(v)

(* The same without the exception, lpd.perms.n:186-213: the code does not  *)
(* keep it.                                                                *)
PermsAsTable == \A i \in DOMAIN verdict : verdict[i].answer = AnswerOf(verdict[i])

(* lpr -r removes no file that it could open, with something in it, that   *)
(* the first host has not stored, whatever was refused, lost or tried      *)
(* again on the way.                                                       *)
RemovedWhenKept == \A f \in gone : Opens(f) /\ FileKind[f] # "empty" => f \in kept

(* The same of every file: the code does not keep it.  One that cannot be  *)
(* opened is warned of, the others are sent, and -r then unlinks all       *)
(* (lpr.c:1162-1166, 360-370).                                             *)
RemovedOnlyKept == \A f \in gone : FileKind[f] # "empty" => f \in kept
=============================================================================

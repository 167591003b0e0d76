---------------------------- MODULE ControlFile ----------------------------
(***************************************************************************)
(* A job's control file: how a program writes it from what it knows of the *)
(* job (Fix_control, Fix_datafile_infox), how the next host makes a job of *)
(* it again (Check_format, Set_job_ticket_from_cf_info), checks it against *)
(* the data files that came with it and names these anew                   *)
(* (Check_for_missing_files).                                              *)
(*                                                                         *)
(* A job is [lines, prio, number, copies, fhost, files]: the values of its *)
(* control file letters, its priority, its number, lpr's count of copies,  *)
(* the host name in its file names, and its data files [fmt, name, copies, *)
(* df, content].  A value is a sequence of words, the empty one no value.  *)
(* A transfer name is a path at first and then <<group, letter, number,    *)
(* host>>.  A line of a control file is [c, v, t]: its letter, and a value *)
(* or, for a data file, a transfer name.                                   *)
(*                                                                         *)
(* A configuration holds the variables that bear on this: nAfter           *)
(* (Nline_after_file), bsd (Backwards_compatible), noHeader                *)
(* (Suppress_header), always (Always_banner), order                        *)
(* (Control_file_line_order), queue (the name of Use_queuename), defprio   *)
(* (Default_priority), ignore (Ignore_requested_user_priority), break      *)
(* (Break_classname_priority_link), xlate (Xlate_format), namefix          *)
(* (Accounting_namefixup), and, for the options of -Z, toZ                 *)
(* (Prefix_option_to_option), removeZ, appendZ and prefixZ.  The control   *)
(* filters, the date, HP's variant of the format, and the cleaning of      *)
(* unprintable characters are left out.                                    *)
(***************************************************************************)
EXTENDS Integers, Sequences, SequencesExt, Folds, Globs

CONSTANTS
  Letters,      \* letters a data file name counts with: 52 in the code
  MaxLine,      \* words of a line that Backwards_compatible lets through
  MaxNumber     \* job numbers are taken modulo this

ASSUME ControlFileAssumption ==
    Letters \in Nat \ {0} /\ MaxLine \in Nat \ {0} /\ MaxNumber \in Nat \ {0}

None == <<>>
Formats == {"f", "l", "m", "p"}

(* The letters of the lines modelled, as job.info sorts them.              *)
AllKeys == <<"A", "C", "H", "J", "L", "M", "P", "Q", "R", "Z">>
Keys == Range(AllKeys)

LprngOrder == <<"H", "P", "J", "C", "L", "I", "M", "W", "T", "*">>
BsdOrder == <<"H", "P", "J", "C", "L", "I", "M", "W", "T">>

Upper(c) == CASE c = "a" -> "A" [] c = "b" -> "B" [] c = "h" -> "H" [] OTHER -> c
Capitals == {"A", "B", "C", "H", "Z"}

Value(lines, k) == IF k \in DOMAIN lines THEN lines[k] ELSE None
Set(lines, k, v) ==
  IF v = None THEN [l \in DOMAIN lines \ {k} |-> lines[l]]
  ELSE [l \in DOMAIN lines \cup {k} |-> IF l = k THEN v ELSE lines[l]]
Override(lines, new) ==
  [l \in DOMAIN lines \cup DOMAIN new |-> IF l \in DOMAIN new THEN new[l] ELSE lines[l]]

HeaderLine(c, v) == [c |-> c, v |-> v, t |-> None]
FileLine(c, t) == [c |-> c, v |-> None, t |-> t]
Repeat(n, s) == FlattenSeq([i \in 1..n |-> s])

-----------------------------------------------------------------------------
(* Writing a control file.                                                 *)

(* Fix_job_number.                                                         *)
Fix_job_number(n) == n % MaxNumber

(* Make_identifier.                                                        *)
Identifier(job) ==
  IF Value(job.lines, "A") # None THEN job.lines["A"]
  ELSE (IF Value(job.lines, "P") = None THEN <<"nobody">> ELSE job.lines["P"])
       \o (IF Value(job.lines, "H") = None THEN <<"unknown">> ELSE job.lines["H"])
       \o <<ToString(job.number)>>

(* The different data files, in the order of their first line.             *)
Different(files) ==
  FoldLeft(LAMBDA s, f : IF f.df \in Range(s) THEN s ELSE Append(s, f.df), <<>>, files)

TooMany(job) == Len(Different(job.files)) > Letters * Letters

(* As a bug would have it: the count of letters starts again with each     *)
(* group, and the group is not in the name.                                *)
NewNameWithoutGroup(job, df) ==
  LET i == (CHOOSE j \in DOMAIN Different(job.files) : Different(job.files)[j] = df) - 1
  IN <<ToString(0), ToString(i % Letters), ToString(job.number), job.fhost>>

NewName(job, df) ==
  LET i == (CHOOSE j \in DOMAIN Different(job.files) : Different(job.files)[j] = df) - 1
  IN <<ToString(i \div Letters), ToString(i % Letters), ToString(job.number), job.fhost>>

Renamed(job) ==
  [job EXCEPT !.files = [i \in DOMAIN @ |-> [@[i] EXCEPT !.df = NewName(job, @)]]]

Translated(xlate, fmt) ==
  LET rules == {i \in DOMAIN xlate : xlate[i][1] \in {fmt, "*"}} IN
  IF rules = {} THEN fmt
  ELSE xlate[CHOOSE i \in rules : \A j \in rules : i <= j][2]

(* Fix_datafile_infox: every copy of the job lists every copy of every     *)
(* file; the files to be removed follow, each once.                        *)
DataLines(job, conf, xlate) ==
  LET One(f) ==
        LET n == IF f.name = None THEN <<>> ELSE <<HeaderLine("N", f.name)>>
            t == <<FileLine(Translated(xlate, f.fmt), f.df)>>
        IN Repeat(IF f.copies = 0 THEN 1 ELSE f.copies,
                  IF conf.nAfter THEN t \o n ELSE n \o t)
      all == FlattenSeq([i \in DOMAIN job.files |-> One(job.files[i])])
      u == [i \in DOMAIN Different(job.files) |-> FileLine("U", Different(job.files)[i])]
  IN Repeat(IF job.copies = 0 THEN 1 ELSE job.copies, all) \o u

(* ordercomp: the place of a letter is that in the order string, or past   *)
(* its end, wherever the star is.                                          *)
Place(order, c) ==
  IF c \in Range(order) THEN SelectInSeq(order, LAMBDA d : d = c) ELSE Len(order) + 1

(* Mergesort: those of the first place, then those of the second, and so   *)
(* on, and those of one place in the order they had.                       *)
Mergesort(letters, order) ==
  FlattenSeq([n \in 1..Len(order) + 1 |-> SelectSeq(letters, LAMBDA c : Place(order, c) = n)])

InOrder(order, letters) == Mergesort(SelectSeq(AllKeys, LAMBDA c : c \in letters), order)

NoDest == [lines |-> [k \in {} |-> None], prio |-> None, id |-> None, copies |-> 0, done |-> 0]

(* As a bug would have it: the route's lines come before the identifier,   *)
(* which the job's own takes the place of.                                 *)
ControlLinesOwnId(job, dest, conf) ==
  LET l == Set(Override(job.lines, dest.lines), "A", Identifier(job))
      letters == InOrder(LprngOrder, DOMAIN l)
  IN [i \in DOMAIN letters |-> HeaderLine(letters[i], l[letters[i]])]

(* Fix_control: the lines of the job, without the banner's where none is   *)
(* wanted, with the identifier of the destination and what the route       *)
(* overrides; lines the order does not name go unless it has a star.       *)
ControlLines(job, dest, conf) ==
  LET order == IF conf.order # None THEN conf.order
               ELSE IF conf.bsd THEN BsdOrder ELSE LprngOrder
      own == IF conf.noHeader /\ ~conf.always THEN Set(job.lines, "L", None) ELSE job.lines
      id == IF dest = NoDest THEN Identifier(job)
            ELSE IF dest.copies > 1 THEN dest.id \o <<"C", ToString(dest.done + 1)>>
            ELSE dest.id
      named == LET l == Set(own, "A", id) IN
               IF conf.queue # None /\ Value(l, "Q") = None THEN Set(l, "Q", conf.queue) ELSE l
      all == Override(named, dest.lines)
      kept == {c \in DOMAIN all : "*" \in Range(order) \/ c \in Range(order)}
      Cut(v) == IF conf.bsd /\ Len(v) > MaxLine THEN SubSeq(v, 1, MaxLine) ELSE v
      letters == InOrder(order, kept)
  IN [i \in DOMAIN letters |-> HeaderLine(letters[i], Cut(all[letters[i]]))]

Priority(job, dest, conf) ==
  IF dest.prio # None THEN dest.prio[1]
  ELSE IF job.prio # None THEN job.prio[1]
  ELSE IF conf.defprio # None THEN conf.defprio[1] ELSE "A"

(* What Send_job then sends: the control file with its name and the data   *)
(* files, one for each entry of the job.                                   *)
Message(job, dest, conf, xlate) ==
  LET j == Renamed(job) IN
  [name  |-> <<Priority(job, dest, conf), ToString(job.number), job.fhost>>,
   cf    |-> ControlLines(job, dest, conf) \o DataLines(j, conf, xlate),
   number |-> job.number, fhost |-> job.fhost,
   files |-> [i \in DOMAIN j.files |-> <<j.files[i].df, j.files[i].content>>]]

-----------------------------------------------------------------------------
(* Reading one.                                                            *)

(* Set_job_ticket_from_cf_info.  A data line of another file or format     *)
(* ends the entry that has a file, and so does an N line when the entry    *)
(* has its name already; the last entry counts if it has a file.           *)
NoEntry == [fmt |-> "f", name |-> None, copies |-> 0, df |-> None, content |-> None]

EndEntry(s) == [s EXCEPT !.files = Append(@, s.cur), !.cur = NoEntry]

ParseData(s, l) ==
  LET u == IF s.cur.df # None /\ (s.cur.df # l.t \/ s.cur.fmt # l.c) THEN EndEntry(s) ELSE s
  IN [u EXCEPT !.cur.fmt = l.c, !.cur.df = l.t, !.cur.copies = @ + 1]

(* As a bug would have it: a name does not end the entry of a file that    *)
(* has its own.                                                            *)
ParseNameKept(s, l) == [s EXCEPT !.cur.name = IF @ = None THEN l.v ELSE @]

ParseName(s, l) ==
  LET u == IF s.cur.df # None /\ s.cur.name # None THEN EndEntry(s) ELSE s
  IN [u EXCEPT !.cur.name = l.v]

ParseLine(s, l) ==
  CASE l.c \in Formats -> ParseData(s, l)
    [] l.c = "N" -> ParseName(s, l)
    [] l.c = "U" -> s
    [] OTHER -> [s EXCEPT !.lines = Set(@, l.c, l.v)]

Parsed(cf, lines) ==
  LET s == FoldLeft(ParseLine, [files |-> <<>>, cur |-> NoEntry, lines |-> lines], cf)
  IN [files |-> IF s.cur.df = None THEN s.files ELSE Append(s.files, s.cur),
      lines |-> s.lines]

(* The priority is that of the class, unless it is to be ignored; what the *)
(* name of the control file said is not looked at again.                   *)
PriorityOf(lines, conf) ==
  LET asked == IF conf.ignore \/ conf.break THEN None ELSE Value(lines, "C")
      from == IF asked # None THEN asked ELSE conf.defprio
      c == IF from = None THEN "A" ELSE Upper(from[1])
  IN IF c \in Capitals THEN c ELSE "A"

(* The number and the host are those of the control file's name, as        *)
(* Check_format takes them out of it; nobody asks whether the name has     *)
(* another error or the data files' names agree with it.                   *)
FromControlFile(msg, conf) ==
  LET p == Parsed(msg.cf, [k \in {} |-> None])
      prio == PriorityOf(p.lines, conf)
  IN [lines  |-> IF Value(p.lines, "C") = None THEN Set(p.lines, "C", <<prio>>) ELSE p.lines,
      prio   |-> <<prio>>, number |-> Fix_job_number(msg.number), copies |-> 0, fhost |-> msg.fhost,
      files  |-> p.files]

(* Check_for_missing_files, before the permissions are looked at: the      *)
(* identifier and the host the job comes from.                             *)
Identified(job, peer) ==
  LET lines == Set(job.lines, "A", Identifier(job))
  IN [job EXCEPT !.lines = IF Value(@, "H") = None THEN Set(lines, "H", peer) ELSE lines]

(* A control file without data files takes all that came.                  *)
WithFiles(job, msg) ==
  IF job.files # <<>> \/ msg.files = <<>> THEN job
  ELSE [job EXCEPT !.files =
          [i \in DOMAIN msg.files |-> [NoEntry EXCEPT !.df = msg.files[i][1], !.copies = 1]]]

FilesAgree(job, msg) ==
  {job.files[i].df : i \in DOMAIN job.files} = {msg.files[i][1] : i \in DOMAIN msg.files}

(* What a temporary file received under a name holds: a second file of the *)
(* name takes the place of the first.                                      *)
ContentOf(msg, df) ==
  msg.files[SelectLastInSeq(msg.files, LAMBDA f : f[1] = df)][2]

(* The accounting name, the queue's name, the host of the file names, and  *)
(* new names for the data files.                                           *)
NameFix(lines, conf, peer) ==
  LET entries == {i \in DOMAIN conf.namefix : peer \in conf.namefix[i][1]} IN
  IF entries = {} THEN lines
  ELSE LET name == conf.namefix[CHOOSE i \in entries : \A j \in entries : i <= j][2]
       IN IF name = None THEN lines ELSE Set(lines, "R", name)

(* Fix_Z_opts: the values of all but the last letter of toZ go in front of *)
(* that of the last, joined without a comma; then the options of Z that    *)
(* match a pattern of removeZ go, and appendZ and prefixZ are put around   *)
(* the others.  An option is a word of the value.                          *)
Joined(s, t) ==
  IF s = None THEN t ELSE IF t = None THEN s
  ELSE Front(s) \o <<Last(s) \o Head(t)>> \o Tail(t)

Moved(lines, letters) ==
  IF letters = <<>> THEN lines
  ELSE LET Take(s, c) == [str |-> Joined(s.str, Value(s.lines, c)), lines |-> Set(s.lines, c, None)]
           s == FoldLeft(Take, [str |-> None, lines |-> lines], Front(letters))
       IN Set(s.lines, Last(letters), s.str \o Value(s.lines, Last(letters)))

Fix_Z_opts(lines, conf) ==
  LET moved == Moved(lines, conf.toZ)
      left == SelectSeq(Value(moved, "Z"),
                LAMBDA o : \A i \in DOMAIN conf.removeZ : ~Globmatch(conf.removeZ[i], <<o>>))
  IN Set(moved, "Z", conf.prefixZ \o left \o conf.appendZ)

Stored(job, msg, conf, peer) ==
  LET l == NameFix(job.lines, conf, peer)
      named == IF conf.queue # None /\ Value(l, "Q") = None THEN Set(l, "Q", conf.queue) ELSE l
      filled == [job EXCEPT !.lines = Fix_Z_opts(named, conf), !.fhost = named["H"],
                   !.files = [i \in DOMAIN @ |-> [@[i] EXCEPT !.content = ContentOf(msg, job.files[i].df)]]]
  IN Renamed(filled)

(* Generate_control_file: what the filters of a queue are shown.           *)
Shown(job) ==
  LET letters == InOrder(AllKeys, DOMAIN job.lines)
      One(f) == (IF f.name = None THEN <<>> ELSE <<HeaderLine("N", f.name)>>)
                \o Repeat(f.copies, <<FileLine(f.fmt, f.df)>>)
  IN [i \in DOMAIN letters |-> HeaderLine(letters[i], job.lines[letters[i]])]
     \o FlattenSeq([i \in DOMAIN job.files |-> One(job.files[i])])
     \o [i \in DOMAIN job.files |-> FileLine("U", job.files[i].df)]

(* Get_route: the routing filter is shown the job and answers with entries *)
(* (here, each for any job or for one with a line of a letter); those that *)
(* name a destination become one, numbered in their order.                 *)
Routed(entries, shown, id) ==
  LET letters == {shown[i].c : i \in DOMAIN shown}
      dests == SelectSeq(entries, LAMBDA e : e.dest # None /\ e.when \in letters \cup {"any"})
  IN [i \in DOMAIN dests |->
        [lines |-> dests[i].lines, prio |-> dests[i].prio, copies |-> dests[i].copies,
         done |-> 0, id |-> id \o <<".", ToString(i)>>]]
=============================================================================

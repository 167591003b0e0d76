------------------------------ MODULE Printcap ------------------------------
(***************************************************************************)
(* How an LPRng process learns what its queues are: lpd.conf is read into  *)
(* a sorted list (Get_config), the printcap files into a plain one         *)
(* (Getprintcap_pathlist), both through Read_file_list, which follows      *)
(* include lines; the printcap becomes a list of entries and a list of     *)
(* names (Build_printcap_info); and every time the process turns to a      *)
(* queue, Setup_printer resets the variables, looks the queue up with the  *)
(* entries its tc options name (Select_pc_info, Find_pc_info), adds the    *)
(* values meant for the server alone and converts the result into          *)
(* variables (Fix_Rm_Rp_info, Set_var_list).  lpd does this for queue      *)
(* after queue in one process.                                             *)
(*                                                                         *)
(* A keyword is an integer, ordered as the words are.  An option is a line *)
(* [key, val]; a printcap line [key, names, opts, cont, bs]: its names and *)
(* options, whether it begins with one of Printcap_sep, and whether it     *)
(* ends with a backslash.  A line of either kind whose key is Include      *)
(* names a file in val.  The check of host names, the printcap filters,    *)
(* the client's half of Fix_Rm_Rp_info and what %-expansion makes of a     *)
(* value are left out; so are lines with no name and badly spelt ones.     *)
(***************************************************************************)
EXTENDS LineList, Integers, Sequences, SequencesExt

CONSTANTS
  Contents,     \* what the files may hold: functions from file names to lines
  Setups,       \* queues the process turns to, one after the other
  MaxSetups,    \* how many times it does
  ThisHost,     \* values of oh that name this host
  None          \* no value

ASSUME PrintcapAssumption == MaxSetups \in Nat

-----------------------------------------------------------------------------
(* Keywords, in the order of their spelling.                               *)

Bk == 1         \* bk, an ordinary option
Client == 2     \* client
Include == 3    \* include
Lp == 4         \* lp, the device, or printer@host
Oh == 5         \* oh
Rm == 6         \* rm
Sd == 7         \* sd
Server == 8     \* server
ServerLp == 9   \* server.lp
Tc == 10        \* tc
Tr == 11        \* tr, an ordinary option

VarKeys == {Bk, Lp, Rm, Sd, Tr}

MaxIncludeDepth == 4
MaxTcDepth == 5

(* The name that stands for every queue, and a pattern that stands for the *)
(* queues Globbed; "*" sorts before the letters.                           *)
Star == 0
Pattern == 1
Globbed == {5, 6}

DefaultHost == 50       \* default_remote_host
RemoteValues == {90, 91}    \* values of lp that have the form printer@host

-----------------------------------------------------------------------------
VARIABLES
  files,      \* the contents of the files
  stage,      \* what the process is doing
  model,      \* the list being read
  frames,     \* calls of Read_file_list, the outermost first
  config,     \* Config_line_list
  raw,        \* printcap lines not yet built into entries
  keyid,      \* Build_printcap_info: the entry being put together
  names, order, input,      \* PC_names, PC_order and PC_info lists
  calls,      \* calls of Find_pc_info, the outermost first
  info,       \* PC_entry_line_list
  vars,       \* the variables of Pc_var_list
  printer,    \* the queue the process last turned to
  setups      \* how often it has turned to one

tables == <<config, raw, keyid, names, order, input>>
pvars == <<files, stage, model, frames, tables, calls, info, vars, printer, setups>>

-----------------------------------------------------------------------------
(* Read_file_list.                                                         *)

Sorted == stage = "config"

(* A call of Read_file_list for one file: the file is split into the model *)
(* and the scan for include lines begins where the model ended before.     *)
ReadFile(m, name, sort) ==
  AddLines(m, files[name], sort, sort)

NewFrame(m, name, sort) ==
  [start |-> Len(m) + 1, end |-> Len(ReadFile(m, name, sort)) + 1]

(* What the caller does with the lines an include added: it takes the      *)
(* lines from end on to be the new ones, moves those from start to end - 1 *)
(* behind them, and drops the first it moved, the include line.            *)
AfterInclude(m, start, end) ==
  LET new == SubSeq(m, end, Len(m))
      old == SubSeq(m, start, end - 1)
  IN  SubSeq(m, 1, start - 1) \o new \o Tail(old)

Top == Last(frames)

(* The line at start is an include line: the file it names is read by a    *)
(* call of its own.  A missing file, or a chain that is too long, is the   *)
(* end of the process.                                                     *)
IncludeFile ==
  /\ stage \in {"config", "printcap"}
  /\ frames # <<>>
  /\ Top.start < Top.end
  /\ model[Top.start].key = Include
  /\ LET name == model[Top.start].val
     IN  IF Len(frames) > MaxIncludeDepth \/ name \notin DOMAIN files
         THEN stage' = "died" /\ UNCHANGED <<model, frames>>
         ELSE /\ model' = ReadFile(model, name, Sorted)
              /\ frames' = Append(frames, NewFrame(model, name, Sorted))
              /\ UNCHANGED stage
  /\ UNCHANGED <<files, tables, calls, info, vars, printer, setups>>

ScanLine ==
  /\ stage \in {"config", "printcap"}
  /\ frames # <<>>
  /\ Top.start < Top.end
  /\ model[Top.start].key # Include
  /\ frames' = [frames EXCEPT ![Len(frames)].start = @ + 1]
  /\ UNCHANGED <<files, stage, model, tables, calls, info, vars, printer, setups>>

IncludeDone ==
  /\ stage \in {"config", "printcap"}
  /\ Len(frames) > 1
  /\ Top.start >= Top.end
  /\ LET f == frames[Len(frames) - 1]
         n == f.end - f.start
         m == AfterInclude(model, f.start, f.end)
     IN  /\ model' = m
         /\ frames' = Append(SubSeq(frames, 1, Len(frames) - 2),
                             [start |-> Len(m) + 2 - n, end |-> Len(m) + 1])
  /\ UNCHANGED <<files, stage, tables, calls, info, vars, printer, setups>>

-----------------------------------------------------------------------------
(* Variables.                                                              *)

Default(k) == None

(* Set_var_list: each keyword that the list has.                           *)
SetVarList(v, l) ==
  [k \in VarKeys |-> IF Has(l, k) THEN LineOf(l, k).val ELSE v[k]]

\* Mutant: the variables of the queue before are not reset.
VarsKept == [vars EXCEPT ![Lp] = None, ![Rm] = None]

(* Reset_config, and the variables Fix_Rm_Rp_info clears after it.   *)
ResetVars ==
  LET v == SetVarList([k \in VarKeys |-> Default(k)], config)
  IN  [k \in VarKeys |-> IF k \in {Lp, Rm} THEN None ELSE v[k]]

(* Get_config once its file has been read, and the printcap file after it. *)
ConfigRead ==
  /\ stage = "config"
  /\ Len(frames) = 1
  /\ Top.start >= Top.end
  /\ config' = model
  /\ vars' = SetVarList([k \in VarKeys |-> Default(k)], model)
  /\ stage' = "printcap"
  /\ model' = ReadFile(<<>>, "printcap", FALSE)
  /\ frames' = <<NewFrame(<<>>, "printcap", FALSE)>>
  /\ UNCHANGED <<files, raw, keyid, names, order, input, calls, info, printer, setups>>

PrintcapRead ==
  /\ stage = "printcap"
  /\ Len(frames) = 1
  /\ Top.start >= Top.end
  /\ raw' = model
  /\ stage' = "build"
  /\ frames' = <<>>
  /\ UNCHANGED <<files, model, config, keyid, names, order, input, calls, info,
                 vars, printer, setups>>

-----------------------------------------------------------------------------
(* Build_printcap_info and Build_pc_names.                                 *)

Flag(opts, key) == Has(opts, key) /\ LineOf(opts, key).val # 0

(* Whether an entry is for this process: not when it has the client flag,  *)
(* as lpd is a server, and not when it has oh options and none of them     *)
(* names this host.  The options are sorted, those of a keyword in order.  *)
ForMe(opts) ==
  /\ ~ Flag(opts, Client)
  /\ \/ ~ Has(opts, Oh)
     \/ \E i \in DOMAIN LinesOf(opts, Oh) : LinesOf(opts, Oh)[i].val \in ThisHost

NameLines(entry) ==
  [i \in DOMAIN entry.names |-> [key |-> entry.names[i], val |-> entry.names[1]]]

(* An entry is finished: if it is for this process its names, primary name *)
(* first, go to names and its options, sorted, to input.                   *)
Finish(entry) ==
  LET opts == AddLines(<<>>, entry.opts, TRUE, FALSE)
      primary == entry.names[1]
  IN  IF ForMe(opts)
      THEN /\ names' = AddLines(names, NameLines(entry), TRUE, TRUE)
           /\ order' = IF Has(names, primary) THEN order ELSE Append(order, primary)
           /\ input' = AddLine(input, [key |-> primary, names |-> entry.names,
                                       opts |-> opts], FALSE)
      ELSE UNCHANGED <<names, order, input>>

(* A line that begins with a separator, or follows one that ended with a   *)
(* backslash, belongs to the entry before it.                              *)
Joins == keyid # None /\ (Head(raw).cont \/ keyid.bs)

ExtendEntry ==
  /\ stage = "build"
  /\ raw # <<>>
  /\ Joins
  /\ keyid' = [names |-> keyid.names \o Head(raw).names,
               opts |-> keyid.opts \o Head(raw).opts, bs |-> Head(raw).bs]
  /\ raw' = Tail(raw)
  /\ UNCHANGED <<files, stage, model, frames, config, names, order, input, calls,
                 info, vars, printer, setups>>

StartEntry ==
  /\ stage = "build"
  /\ raw # <<>>
  /\ ~ Joins
  /\ IF keyid = None THEN UNCHANGED <<names, order, input>> ELSE Finish(keyid)
  /\ keyid' = [names |-> Head(raw).names, opts |-> Head(raw).opts, bs |-> Head(raw).bs]
  /\ raw' = Tail(raw)
  /\ UNCHANGED <<files, stage, model, frames, config, calls, info, vars, printer, setups>>

EntriesBuilt ==
  /\ stage = "build"
  /\ raw = <<>>
  /\ IF keyid = None THEN UNCHANGED <<names, order, input>> ELSE Finish(keyid)
  /\ keyid' = None
  /\ stage' = "idle"
  /\ UNCHANGED <<files, model, frames, config, raw, calls, info, vars, printer, setups>>

-----------------------------------------------------------------------------
(* Setup_printer: Select_pc_info and Find_pc_info.                         *)

(* The primary name found for a name: that of the name itself; else, with  *)
(* wildcard, that of the first pattern that matches it, or of "*".         *)
Selected(id, wildcard) ==
  IF Has(names, id) THEN LineOf(names, id).val
  ELSE IF wildcard /\ id \in Globbed /\ Has(names, Pattern) THEN LineOf(names, Pattern).val
  ELSE IF wildcard /\ Has(names, Star) THEN LineOf(names, Star).val
  ELSE None

(* A call of Find_pc_info: the entries of the primary name still to do,    *)
(* the tc names of the one being done and the rest of its options.         *)
NewCall(primary) == [todo |-> LinesOf(input, primary), tc |-> <<>>, opts |-> <<>>]

Call == Last(calls)
Busy == Call.tc # <<>> \/ Call.opts # <<>>

SetupPrinter(id) ==
  /\ stage = "idle"
  /\ setups < MaxSetups
  /\ setups' = setups + 1
  /\ vars' = ResetVars
  /\ info' = <<>>
  /\ printer' = id
  /\ LET wild == Selected(id, TRUE)
         found == IF wild # None THEN wild ELSE Selected(Star, FALSE)
     IN  IF found = None THEN stage' = "set" /\ UNCHANGED calls
         ELSE IF ~ Has(input, found) THEN stage' = "died" /\ UNCHANGED calls
         ELSE stage' = "select" /\ calls' = <<NewCall(found)>>
  /\ UNCHANGED <<files, model, frames, tables>>

(* The next entry of the primary name: its tc options are taken out.       *)
TakeEntry ==
  /\ stage = "select"
  /\ calls # <<>>
  /\ ~ Busy
  /\ Call.todo # <<>>
  /\ LET opts == Head(Call.todo).opts
         tcs == LinesOf(opts, Tc)
     IN  calls' = [calls EXCEPT ![Len(calls)] =
           [todo |-> Tail(@.todo),
            tc |-> FlattenSeq([i \in DOMAIN tcs |-> tcs[i].val]),
            opts |-> SelectSeq(opts, LAMBDA o : o.key # Tc)]]
  /\ UNCHANGED <<files, stage, model, frames, tables, info, vars, printer, setups>>

(* A tc name is looked up like the queue was, without patterns, one level  *)
(* deeper; too deep, or not found, is the end of the process.              *)
SelectTc ==
  /\ stage = "select"
  /\ calls # <<>>
  /\ Call.tc # <<>>
  /\ LET found == Selected(Head(Call.tc), FALSE)
         rest == [calls EXCEPT ![Len(calls)].tc = Tail(@)]
     IN  IF Len(calls) > MaxTcDepth \/ found = None \/ ~ Has(input, found)
         THEN stage' = "died" /\ UNCHANGED calls
         ELSE calls' = Append(rest, NewCall(found)) /\ UNCHANGED stage
  /\ UNCHANGED <<files, model, frames, tables, info, vars, printer, setups>>

(* After those of its tc entries, the entry's own options.                 *)
AddOptions ==
  /\ stage = "select"
  /\ calls # <<>>
  /\ Call.tc = <<>>
  /\ Call.opts # <<>>
  /\ info' = AddLines(info, Call.opts, TRUE, TRUE)
  /\ calls' = [calls EXCEPT ![Len(calls)].opts = <<>>]
  /\ UNCHANGED <<files, stage, model, frames, tables, vars, printer, setups>>

CallDone ==
  /\ stage = "select"
  /\ calls # <<>>
  /\ ~ Busy
  /\ Call.todo = <<>>
  /\ calls' = Front(calls)
  /\ stage' = IF Len(calls) = 1 THEN "set" ELSE stage
  /\ UNCHANGED <<files, model, frames, tables, info, vars, printer, setups>>

-----------------------------------------------------------------------------
(* Fix_Rm_Rp_info, the server's half, once the entry has been selected.    *)

(* Find_tags: every line whose key begins with "server." is added without  *)
(* those letters to the list.                                              *)
TagCmp(k) == IF k < ServerLp THEN 1 ELSE IF k > ServerLp THEN -1 ELSE 0
TagSigns(l) == [i \in DOMAIN l |-> TagCmp(l[i].key)]
Untagged(line) == [line EXCEPT !.key = Lp]

FindTags(l, from) ==
  LET first == FirstOf(TagSigns(from)).at
      last == LastOf(TagSigns(from)).at
  IN  IF FirstOf(TagSigns(from)).cmp # 0 THEN l
      ELSE AddLines(l, [i \in 1..last - first + 1 |-> Untagged(from[first + i - 1])],
                    TRUE, TRUE)

(* The same when the list read is the list added to, and shifts under the  *)
(* scan: a step per line, from the first that is tagged.                   *)
FindOwnTags(l) ==
  LET first == FirstOf(TagSigns(l))
      step(a, i) ==
        IF a.at > Len(a.l) \/ TagCmp(a.l[a.at].key) # 0 THEN a
        ELSE [l |-> AddLine(a.l, Untagged(a.l[a.at]), TRUE), at |-> a.at + 1]
  IN  IF first.cmp # 0 THEN l
      ELSE FoldLeft(step, [l |-> l, at |-> first.at], [i \in 1..2 * Len(l) |-> i]).l

(* lp, when it has a value, decides alone between a device and another     *)
(* printer; without it the job goes to rm, or to the default host.         *)
FixRmRp(v) ==
  LET lp == v[Lp]
      remote == lp \in RemoteValues
  IN  [v EXCEPT ![Lp] = IF remote THEN None ELSE lp,
                ![Rm] = IF remote THEN lp
                        ELSE IF lp # None THEN None
                        ELSE IF v[Rm] # None THEN v[Rm] ELSE DefaultHost]

SetVars ==
  /\ stage = "set"
  /\ LET all == FindOwnTags(FindTags(info, config))
     IN  /\ info' = all
         /\ vars' = FixRmRp(SetVarList(vars, all))
  /\ stage' = "idle"
  /\ UNCHANGED <<files, model, frames, tables, calls, printer, setups>>

-----------------------------------------------------------------------------
Init ==
  /\ files \in Contents
  /\ stage = "config"
  /\ model = ReadFile(<<>>, "lpd.conf", TRUE)
  /\ frames = <<NewFrame(<<>>, "lpd.conf", TRUE)>>
  /\ config = <<>> /\ raw = <<>> /\ keyid = None
  /\ names = <<>> /\ order = <<>> /\ input = <<>>
  /\ calls = <<>> /\ info = <<>>
  /\ vars = [k \in VarKeys |-> None]
  /\ printer = None /\ setups = 0

Step ==
  \/ IncludeFile \/ ScanLine \/ IncludeDone \/ ConfigRead \/ PrintcapRead
  \/ ExtendEntry \/ StartEntry \/ EntriesBuilt
  \/ TakeEntry \/ SelectTc \/ AddOptions \/ CallDone \/ SetVars

PcNext == Step \/ \E id \in Setups : SetupPrinter(id)

PrintcapSpec == Init /\ [][PcNext]_pvars

-----------------------------------------------------------------------------
(* What the files mean, said of their text alone, without lists that are   *)
(* sorted and searched.                                                    *)

(* The lines of a file, an include line replaced by the file it names.     *)
Expansion(name) ==
  LET text[d \in 0..MaxIncludeDepth + 1, n \in DOMAIN files] ==
        IF d > MaxIncludeDepth THEN <<>>
        ELSE FlattenSeq([i \in DOMAIN files[n] |->
               IF files[n][i].key # Include THEN <<files[n][i]>>
               ELSE IF files[n][i].val \in DOMAIN files THEN text[d + 1, files[n][i].val]
               ELSE <<>>])
  IN  text[0, name]

(* The values of a keyword in the order given; the last one counts.        *)
Given(lines, key) == SelectSeq(lines, LAMBDA x : x.key = key)
LastGiven(lines, key) ==
  IF Given(lines, key) = <<>> THEN None ELSE Last(Given(lines, key)).val

(* The entries of the printcap that are for this process.                  *)
Entries ==
  LET join(es, x) ==
        IF es # <<>> /\ (x.cont \/ Last(es).bs)
        THEN Append(Front(es), [names |-> Last(es).names \o x.names,
                                opts |-> Last(es).opts \o x.opts, bs |-> x.bs])
        ELSE Append(es, [names |-> x.names, opts |-> x.opts, bs |-> x.bs])
      mine(e) ==
        /\ Given(e.opts, Client) = <<>> \/ Head(Given(e.opts, Client)).val = 0
        /\ \/ Given(e.opts, Oh) = <<>>
           \/ \E o \in ToSet(Given(e.opts, Oh)) : o.val \in ThisHost
  IN  SelectSeq(FoldLeft(join, <<>>, Expansion("printcap")), mine)

(* The queue a name stands for: that of the last entry that has the name.  *)
PrimaryOf(es, id) ==
  LET with == SelectSeq(es, LAMBDA e : id \in ToSet(e.names))
  IN  IF with = <<>> THEN None ELSE Last(with).names[1]

QueueOf(es, id) ==
  IF PrimaryOf(es, id) # None THEN PrimaryOf(es, id)
  ELSE IF id \in Globbed /\ PrimaryOf(es, Pattern) # None THEN PrimaryOf(es, Pattern)
  ELSE PrimaryOf(es, Star)

(* The options of a queue, entry by entry, those of its tc queues first.   *)
OptionsOf(es, queue) ==
  LET of(q) == SelectSeq(es, LAMBDA e : e.names[1] = q)
      tcs(e) == FlattenSeq([i \in DOMAIN Given(e.opts, Tc) |-> Given(e.opts, Tc)[i].val])
      own(e) == SelectSeq(e.opts, LAMBDA o : o.key # Tc)
      text[d \in 0..MaxTcDepth + 1, q \in Int] ==
        IF d > MaxTcDepth THEN <<>>
        ELSE FlattenSeq([i \in DOMAIN of(q) |->
               FlattenSeq([j \in DOMAIN tcs(of(q)[i]) |->
                             text[d + 1, PrimaryOf(es, tcs(of(q)[i])[j])]])
               \o own(of(q)[i])])
  IN  IF queue = None THEN <<>> ELSE text[0, queue]

(* What a keyword is worth, given the printcap's options and lpd.conf: the *)
(* last word of the printcap, or of lpd.conf, which has no say on lp and   *)
(* rm; server.lp stands before lp.                                         *)
Keywords == VarKeys \cup {ServerLp}

Meant(id) ==
  LET conf == Expansion("lpd.conf")
      es == Entries
      opts == OptionsOf(es, QueueOf(es, id))
      first(values) == LET known == SelectSeq(values, LAMBDA v : v # None)
                       IN  IF known = <<>> THEN None ELSE known[1]
      worth(k) ==
        CASE k = Lp -> first(<<LastGiven(opts, ServerLp), LastGiven(conf, ServerLp),
                               LastGiven(opts, Lp)>>)
          [] k = Rm -> LastGiven(opts, Rm)
          [] OTHER -> first(<<LastGiven(opts, k), LastGiven(conf, k)>>)
  IN  FixRmRp([k \in VarKeys |-> worth(k)])

-----------------------------------------------------------------------------
(* Properties.                                                             *)

(* Lists hold lines, the calls and frames are those the depths allow, and  *)
(* the searched lists are sorted while no include line has disordered      *)
(* lpd.conf's.                                                             *)
SortedList(l) == \A i, j \in DOMAIN l : i < j => l[i].key <= l[j].key
PcTypeOK ==
  /\ stage \in {"config", "printcap", "build", "idle", "select", "set", "died"}
  /\ Len(frames) <= MaxIncludeDepth + 1
  /\ Len(calls) <= MaxTcDepth + 1
  /\ SortedList(names) /\ SortedList(input) /\ SortedList(info)
  /\ \A i, j \in DOMAIN info : info[i].key = info[j].key => i = j
  /\ DOMAIN vars = VarKeys
  /\ setups \in 0..MaxSetups

(* Whatever queues the process turned to before, the variables it has when *)
(* Setup_printer returns are those the files mean for this queue: every    *)
(* keyword of its entries and of their tc entries, the last word first,    *)
(* over lpd.conf, and nothing left of another queue.  Names, entries and   *)
(* options all pass through sorted lists and binary searches on the way.   *)
SetupIsMeant ==
  stage = "idle" /\ printer # None => vars = Meant(printer)

(* man/lpd.conf.n says include can be used to include files into lpd.conf: *)
(* once it is read, looking a keyword up gives its last value in the text. *)
(* It may not: the lines are merged as if the list were not sorted.        *)
ConfigIsWhole ==
  stage \notin {"config", "died"} =>
    \A k \in Keywords :
      LastGiven(Expansion("lpd.conf"), k) = IF Has(config, k) THEN LineOf(config, k).val
                                          ELSE None

=============================================================================

------------------------------ MODULE PrintJob ------------------------------
(***************************************************************************)
(* Printing one job: Local_job() of lpd_jobs.c, Printer_open() of          *)
(* openprinter.c and Print_job() of printjob.c, with the processes a       *)
(* worker makes for it: the OF filter, which gets what goes between the    *)
(* files and is stopped while a file is printed, the IF filter of a file,  *)
(* and the program that stands in for the device when lp is "|program".    *)
(* Also the two uses Remote_job() has for filters before it sends a job:   *)
(* Print_job() into a file ("bounce") and Filter_files_in_job() ("filter").*)
(*                                                                         *)
(* Output is a sequence of items.  What precedes the first file (leader,   *)
(* form feed, banner) is one item, and so is what follows the last; a      *)
(* form feed separates files; a file is two items, so that it can be cut.  *)
(* A piece is one copy of one data file.                                   *)
(*                                                                         *)
(* Abstractions: the status file that extends a timeout is left out, a     *)
(* timeout may come whenever one is set; poll_for_status,                  *)
(* filter_stderr_to_status_file and generate_banner are off; the messages  *)
(* filters write to their stderr are not kept.                             *)
(***************************************************************************)
EXTENDS Naturals, Sequences, FiniteSets

CONSTANTS Files,      \* data files of the job
          Copies,     \* copies of each data file
          Outputs,    \* kinds of output: "device", "pipe", "bounce", "filter"
          SendTry,    \* send_try: attempts to open the device
          MaxFaults   \* bound: failures and timeouts

ASSUME SizeAssumption == Files \in Nat /\ Copies \in Nat \ {0}
ASSUME OutputAssumption == Outputs \subseteq {"device", "pipe", "bounce", "filter"}
ASSUME BoundAssumption == SendTry \in Nat \ {0} /\ MaxFaults \in Nat

Codes == {"JSUCC", "JFAIL", "JABORT", "JHOLD", "JREMOVE", "JTIMEOUT", "JWRERR"}

VARIABLES
    cfg,       \* the queue: where output goes, its filters, what is added
    w,         \* the worker
    of,        \* the OF filter
    ofPipe,    \* its standard input
    ifp,       \* the IF filter
    lp,        \* the program behind lp=|program
    out,       \* what went to the output, in order
    failed,    \* history: a program, a file or the device failed
    timedOut,  \* history: the worker stopped waiting for a program
    faults     \* faults so far

printVars == <<cfg, w, of, ofPipe, ifp, lp, out, failed, timedOut, faults>>

-----------------------------------------------------------------------------
(* Items                                                                   *)

\* Filter_files_in_job() leaves copies to the server that gets the job.
PerFile == IF cfg.out = "filter" THEN 1 ELSE Copies
Pieces == Files * PerFile
Leader == <<0, 0>>
Sep(k) == <<k, 0>>
Half(k, h) == <<k, h>>
Trailer == <<Pieces + 1, 0>>
Stop == <<0, 1>>       \* Filter_stop: the OF filter suspends itself

Before(a, b) == a[1] < b[1] \/ (a[1] = b[1] /\ a[2] < b[2])

\* The output of a job that is printed.
Wanted ==
    {Half(k, h) : k \in 1 .. Pieces, h \in 1 .. 2}
    \cup (IF cfg.out # "filter" /\ cfg.ends THEN {Leader, Trailer} ELSE {})
    \cup (IF cfg.out # "filter" /\ cfg.sep THEN {Sep(k) : k \in 2 .. Pieces} ELSE {})

-----------------------------------------------------------------------------
NoProcess == [state |-> "none", half |-> 1, code |-> "JSUCC"]
NewProcess == [NoProcess EXCEPT !.state = "running"]    \* Make_passthrough()

PrintInit ==
    /\ cfg \in [out : Outputs, of : {"none", "end", "suspend"}, if : BOOLEAN,
                ends : BOOLEAN, sep : BOOLEAN]
    /\ w = [pc |-> "account", at |-> "lead", piece |-> 1, half |-> 1, try |-> 1,
            err |-> "JSUCC", status |-> "JSUCC"]
    /\ of = NoProcess /\ ofPipe = <<>>
    /\ ifp = NoProcess /\ lp = NoProcess
    /\ out = <<>>
    /\ failed = FALSE /\ timedOut = FALSE /\ faults = 0

Go(to) == w' = [w EXCEPT !.pc = to]
\* Errorcode is set and control goes to a label.
Err(code, to) == w' = [w EXCEPT !.pc = to, !.err = code]
Finish(code) == w' = [w EXCEPT !.pc = "done", !.status = code]

Fault == faults < MaxFaults /\ faults' = faults + 1 /\ failed' = TRUE
NoFault == UNCHANGED <<faults, failed>>
\* A time limit passes: Send_job_rw_timeout, none for a job being sent on.
Timeout ==
    /\ cfg.out \in {"device", "pipe"}
    /\ faults < MaxFaults /\ faults' = faults + 1
    /\ timedOut' = TRUE
    /\ UNCHANGED failed

\* The output takes bytes, unless the program that reads them is gone.
Writable == cfg.out = "pipe" => lp.state = "running"
WriteFails == IF Writable THEN Fault ELSE failed' = TRUE /\ UNCHANGED faults

processes == <<of, ofPipe, ifp, lp>>

-----------------------------------------------------------------------------
(* Local_job() and Remote_job() up to Print_job()                          *)

\* The answers of Do_accounting() to the start record that refuse the job.
Refusals == {"JFAIL", "JABORT", "JHOLD", "JREMOVE"}

Account ==
    /\ w.pc = "account"
    /\ \/ Go("open")
       \/ \E code \in Refusals : Finish(code)
    /\ NoFault
    /\ UNCHANGED <<cfg, processes, out, timedOut>>

OpenFile ==
    /\ w.pc = "open"
    /\ cfg.out \in {"bounce", "filter"}
    /\ Go(IF cfg.out = "bounce" THEN "lead" ELSE "file")
    /\ NoFault
    /\ UNCHANGED <<cfg, processes, out, timedOut>>

OpenDevice ==
    /\ w.pc = "open"
    /\ cfg.out \in {"device", "pipe"}
    /\ lp' = IF cfg.out = "pipe" THEN NewProcess ELSE lp
    /\ Go("lead")
    /\ NoFault
    /\ UNCHANGED <<cfg, of, ofPipe, ifp, out, timedOut>>

\* The device cannot be opened or is locked; Printer_open() tries again.
CannotOpen ==
    /\ w.pc = "open"
    /\ cfg.out = "device"
    /\ IF w.try < SendTry THEN w' = [w EXCEPT !.try = @ + 1] ELSE Finish("JFAIL")
    /\ faults < MaxFaults /\ faults' = faults + 1
    /\ UNCHANGED failed
    /\ UNCHANGED <<cfg, processes, out, timedOut>>

\* Print_banner() or a fork fails: logerr_die(), and the worker exits.
Die ==
    /\ w.pc \in {"lead", "of_start", "copy", "tail"}
    /\ Fault
    /\ w' = [w EXCEPT !.pc = "died", !.status = "JFAIL"]
    /\ UNCHANGED <<cfg, processes, out, timedOut>>

-----------------------------------------------------------------------------
(* What goes to the output outside the files                               *)

Outbuf ==
    CASE w.at = "lead" -> IF cfg.ends THEN <<Leader>> ELSE <<>>
      [] w.at = "sep"  -> <<Sep(w.piece)>>
      [] w.at = "tail" -> IF cfg.ends THEN <<Trailer>> ELSE <<>>

\* Where Print_job() continues.
Resume == CASE w.at = "lead" -> "file" [] w.at = "sep" -> "print" [] OTHER -> "close"

Place(at) ==
    w' = [w EXCEPT !.at = at, !.pc = IF cfg.of = "none" THEN "write" ELSE "of_start"]

AtLead ==
    /\ w.pc = "lead"
    /\ Place("lead")
    /\ NoFault
    /\ UNCHANGED <<cfg, processes, out, timedOut>>

\* Write_outbuf_to_OF() on the device.
WriteOutbuf ==
    /\ w.pc = "write"
    /\ Outbuf = <<>> \/ Writable
    /\ out' = out \o Outbuf
    /\ Go(Resume)
    /\ NoFault
    /\ UNCHANGED <<cfg, processes, timedOut>>

\* A leader that fails ends the job at once, a separator by way of
\* end_of_job; an error of a file is not replaced by one of the trailer.
WriteOutbufFails ==
    /\ w.pc = "write"
    /\ Outbuf # <<>>
    /\ WriteFails
    /\ CASE w.at = "lead" -> Err("JFAIL", "close")
         [] w.at = "sep"  -> Err("JWRERR", "tail")
         [] OTHER -> Err(IF w.err = "JSUCC" THEN "JFAIL" ELSE w.err, "close")
    /\ UNCHANGED <<cfg, processes, out, timedOut>>

Suspending == cfg.of = "suspend" /\ w.at # "tail"

\* Mutant: the stopped filter gets no SIGCONT.
StartWithoutCont ==
    /\ w.pc = "of_start"
    /\ IF of.state = "none"
       THEN of' = NewProcess /\ ofPipe' = <<>>
       ELSE UNCHANGED <<of, ofPipe>>
    /\ Go("of_write")
    /\ NoFault
    /\ UNCHANGED <<cfg, ifp, lp, out, timedOut>>

\* Run_OF_filter(): a new filter, or SIGCONT to the one that is stopped.
StartOF ==
    /\ w.pc = "of_start"
    /\ \/ /\ of.state = "none"
          /\ of' = NewProcess
          /\ ofPipe' = <<>>
       \/ /\ of.state # "none"
          /\ of' = [of EXCEPT !.state = IF @ = "stopped" THEN "running" ELSE @]
          /\ UNCHANGED ofPipe
    /\ Go("of_write")
    /\ NoFault
    /\ UNCHANGED <<cfg, ifp, lp, out, timedOut>>

WriteOF ==
    /\ w.pc = "of_write"
    /\ LET text == Outbuf \o (IF Suspending THEN <<Stop>> ELSE <<>>) IN
         IF text # <<>> /\ of.state = "exited"
         THEN Err("JWRERR", "close") /\ UNCHANGED ofPipe
         ELSE Go("of_wait") /\ ofPipe' = ofPipe \o text
    /\ NoFault
    /\ UNCHANGED <<cfg, of, ifp, lp, out, timedOut>>

\* Mutant: the worker goes on before the filter has stopped.
SuspendedLater ==
    /\ w.pc = "of_wait"
    /\ Suspending
    /\ Go(Resume)
    /\ NoFault
    /\ UNCHANGED <<cfg, processes, out, timedOut>>

\* Get_status_from_OF() until the filter has stopped itself.
Suspended ==
    /\ w.pc = "of_wait"
    /\ Suspending
    /\ \/ of.state = "stopped" /\ Go(Resume)
       \/ of.state = "exited" /\ Err(of.code, "close")
    /\ NoFault
    /\ UNCHANGED <<cfg, processes, out, timedOut>>

\* Mutant: the exit status of the OF filter is not looked at.
EndedAnyhow ==
    /\ w.pc = "of_wait"
    /\ ~Suspending
    /\ of.state = "exited"
    /\ Go(Resume) /\ of' = NoProcess
    /\ NoFault
    /\ UNCHANGED <<cfg, ofPipe, ifp, lp, out, timedOut>>

\* The filter has its end of file; its exit is awaited.
Ended ==
    /\ w.pc = "of_wait"
    /\ ~Suspending
    /\ of.state = "exited"
    /\ IF of.code = "JSUCC"
       THEN Go(Resume) /\ of' = NoProcess
       ELSE Err(of.code, "close") /\ UNCHANGED of
    /\ NoFault
    /\ UNCHANGED <<cfg, ofPipe, ifp, lp, out, timedOut>>

OfTimeout ==
    /\ w.pc = "of_wait"
    /\ of.state = "running"
    /\ Timeout
    /\ Err("JTIMEOUT", "close")
    /\ UNCHANGED <<cfg, processes, out>>

-----------------------------------------------------------------------------
(* The data files                                                          *)

NextFile ==
    /\ w.pc = "file"
    /\ cfg.out # "filter"
    /\ Go(IF w.piece <= Pieces THEN "copy" ELSE "tail")
    /\ NoFault
    /\ UNCHANGED <<cfg, processes, out, timedOut>>

\* A data file cannot be opened or made printable: Checkread(), or the
\* program for format 'p'.
BadFile ==
    /\ w.pc = "file"
    /\ cfg.out # "filter"
    /\ w.piece <= Pieces
    /\ (w.piece - 1) % PerFile = 0
    /\ Fault
    /\ \E code \in {"JFAIL", "JABORT"} : Err(code, "tail")
    /\ UNCHANGED <<cfg, processes, out, timedOut>>

Separate ==
    /\ w.pc = "copy"
    /\ IF cfg.sep /\ w.piece > 1 THEN Place("sep") ELSE Go("print")
    /\ NoFault
    /\ UNCHANGED <<cfg, processes, out, timedOut>>

NextPiece == w' = [w EXCEPT !.pc = "file", !.piece = @ + 1, !.half = 1]

StartIF ==
    /\ w.pc = "print"
    /\ cfg.out # "filter"
    /\ cfg.if
    /\ ifp' = NewProcess
    /\ Go("if_wait")
    /\ NoFault
    /\ UNCHANGED <<cfg, of, ofPipe, lp, out, timedOut>>

NoFilter ==
    /\ w.pc = "print"
    /\ cfg.out # "filter"
    /\ ~cfg.if
    /\ Go("raw")
    /\ NoFault
    /\ UNCHANGED <<cfg, processes, out, timedOut>>

\* The end of file of its stderr and the exit status of the filter.
WaitIF ==
    /\ w.pc = "if_wait"
    /\ cfg.out # "filter"
    /\ ifp.state = "exited"
    /\ IF ifp.code = "JSUCC" THEN NextPiece ELSE Err(ifp.code, "tail")
    /\ ifp' = NoProcess
    /\ NoFault
    /\ UNCHANGED <<cfg, of, ofPipe, lp, out, timedOut>>

IfTimeout ==
    /\ w.pc = "if_wait"
    /\ ifp.state = "running"
    /\ Timeout
    /\ Err("JTIMEOUT", "tail")
    /\ UNCHANGED <<cfg, processes, out>>

\* Without a filter the worker copies the file to the output.
CopyHalf ==
    /\ w.pc = "raw"
    /\ Writable
    /\ out' = Append(out, Half(w.piece, w.half))
    /\ IF w.half = 1 THEN w' = [w EXCEPT !.half = 2] ELSE NextPiece
    /\ NoFault
    /\ UNCHANGED <<cfg, processes, timedOut>>

CopyFails ==
    /\ w.pc = "raw"
    /\ WriteFails
    /\ Err("JFAIL", "tail")
    /\ UNCHANGED <<cfg, processes, out, timedOut>>

AtTail ==
    /\ w.pc = "tail"
    /\ Place("tail")
    /\ NoFault
    /\ UNCHANGED <<cfg, processes, out, timedOut>>

-----------------------------------------------------------------------------
(* Filter_files_in_job(): every file goes through its filter into a file   *)
(* of its own, without a time limit.                                       *)

\* A file that has no filter is sent as it is.
SkipFile ==
    /\ w.pc = "file"
    /\ cfg.out = "filter"
    /\ ~cfg.if
    /\ w.piece <= Pieces
    /\ NextPiece
    /\ out' = out \o <<Half(w.piece, 1), Half(w.piece, 2)>>
    /\ NoFault
    /\ UNCHANGED <<cfg, processes, timedOut>>

FilterFile ==
    /\ w.pc = "file"
    /\ cfg.out = "filter"
    /\ cfg.if
    /\ w.piece <= Pieces
    /\ \/ Go("if_wait") /\ ifp' = NewProcess /\ NoFault
       \/ Err("JFAIL", "close") /\ UNCHANGED ifp /\ Fault
    /\ UNCHANGED <<cfg, of, ofPipe, lp, out, timedOut>>

\* The filter's end of file and exit status.
FilteredFile ==
    /\ w.pc = "if_wait"
    /\ cfg.out = "filter"
    /\ ifp.state = "exited"
    /\ IF ifp.code = "JSUCC" THEN NextPiece ELSE Err(ifp.code, "close")
    /\ ifp' = NoProcess
    /\ NoFault
    /\ UNCHANGED <<cfg, of, ofPipe, lp, out, timedOut>>

AllFiltered ==
    /\ w.pc = "file"
    /\ cfg.out = "filter"
    /\ w.piece > Pieces
    /\ Go("close")
    /\ NoFault
    /\ UNCHANGED <<cfg, processes, out, timedOut>>

-----------------------------------------------------------------------------
(* After Print_job()                                                       *)

\* The descriptors are closed, the device is shut down.
Close ==
    /\ w.pc = "close"
    /\ CASE cfg.out = "device" -> Finish(w.err)
         [] cfg.out = "pipe"   -> Go("lp_wait")
         [] cfg.out = "filter" ->
              IF w.err = "JSUCC" THEN Go("send") ELSE Finish(w.err)
         [] OTHER -> IF out = <<>> THEN Finish("JABORT") ELSE Go("send")
    /\ NoFault
    /\ UNCHANGED <<cfg, processes, out, timedOut>>

\* Local_job() waits for the program behind lp=|program: its exit status
\* becomes the status of the job.
WaitLP ==
    /\ w.pc = "lp_wait"
    /\ lp.state = "exited"
    /\ Finish(lp.code)
    /\ lp' = NoProcess
    /\ NoFault
    /\ UNCHANGED <<cfg, of, ofPipe, ifp, out, timedOut>>

LpTimeout ==
    /\ w.pc = "lp_wait"
    /\ lp.state = "running"
    /\ Timeout
    /\ Finish("JTIMEOUT")
    /\ UNCHANGED <<cfg, processes, out>>

SendOn ==
    /\ w.pc = "send"
    /\ \/ Finish("JSUCC") /\ NoFault
       \/ Finish("JFAIL") /\ Fault
    /\ UNCHANGED <<cfg, processes, out, timedOut>>

-----------------------------------------------------------------------------
(* The programs                                                            *)

\* The worker has closed the pipe to the OF filter, or is gone.
OfEof ==
    \/ w.pc \in {"close", "lp_wait", "send", "done", "died"}
    \/ w.pc = "of_wait" /\ ~Suspending

OfReads ==
    /\ of.state = "running"
    /\ ofPipe # <<>>
    /\ ofPipe' = SubSeq(ofPipe, 2, Len(ofPipe))
    /\ \/ /\ Head(ofPipe) = Stop
          /\ of' = [of EXCEPT !.state = "stopped"]
          /\ UNCHANGED out
       \/ /\ Head(ofPipe) # Stop
          /\ Writable
          /\ out' = Append(out, Head(ofPipe))
          /\ UNCHANGED of
    /\ NoFault
    /\ UNCHANGED <<cfg, w, ifp, lp, timedOut>>

OfEnds ==
    /\ of.state = "running"
    /\ \/ /\ ofPipe = <<>> /\ OfEof
          /\ of' = [of EXCEPT !.state = "exited"]
          /\ NoFault
       \/ /\ ofPipe # <<>> /\ ~Writable
          /\ of' = [of EXCEPT !.state = "exited", !.code = "JFAIL"]
          /\ WriteFails
    /\ UNCHANGED <<cfg, w, ofPipe, ifp, lp, out, timedOut>>

\* It fails by itself, or is killed, stopped or not.
OfFails ==
    /\ of.state \in {"running", "stopped"}
    /\ of' = [of EXCEPT !.state = "exited", !.code = "JFAIL"]
    /\ Fault
    /\ UNCHANGED <<cfg, w, ofPipe, ifp, lp, out, timedOut>>

IfPrints ==
    /\ ifp.state = "running"
    /\ ifp.half <= 2
    /\ Writable
    /\ out' = Append(out, Half(w.piece, ifp.half))
    /\ ifp' = [ifp EXCEPT !.half = @ + 1]
    /\ NoFault
    /\ UNCHANGED <<cfg, w, of, ofPipe, lp, timedOut>>

IfEnds ==
    /\ ifp.state = "running"
    /\ \/ ifp.half = 3 /\ ifp' = [ifp EXCEPT !.state = "exited"] /\ NoFault
       \/ /\ ifp.half <= 2 /\ ~Writable
          /\ ifp' = [ifp EXCEPT !.state = "exited", !.code = "JFAIL"]
          /\ WriteFails
    /\ UNCHANGED <<cfg, w, of, ofPipe, lp, out, timedOut>>

IfFails ==
    /\ ifp.state = "running"
    /\ \E code \in {"JFAIL", "JABORT"} :
         ifp' = [ifp EXCEPT !.state = "exited", !.code = code]
    /\ Fault
    /\ UNCHANGED <<cfg, w, of, ofPipe, lp, out, timedOut>>

\* The program behind lp ends with its input, or earlier with an error.
LpEnds ==
    /\ lp.state = "running"
    /\ w.pc \in {"lp_wait", "done", "died"}
    /\ lp' = [lp EXCEPT !.state = "exited"]
    /\ NoFault
    /\ UNCHANGED <<cfg, w, of, ofPipe, ifp, out, timedOut>>

LpFails ==
    /\ lp.state = "running"
    /\ lp' = [lp EXCEPT !.state = "exited", !.code = "JFAIL"]
    /\ Fault
    /\ UNCHANGED <<cfg, w, of, ofPipe, ifp, out, timedOut>>

-----------------------------------------------------------------------------
Work ==
    \/ Account \/ OpenFile \/ OpenDevice \/ AtLead \/ WriteOutbuf
    \/ StartOF \/ WriteOF \/ Suspended \/ Ended
    \/ NextFile \/ Separate \/ StartIF \/ NoFilter \/ WaitIF \/ CopyHalf
    \/ AtTail \/ SkipFile \/ FilterFile \/ FilteredFile \/ AllFiltered
    \/ Close \/ WaitLP \/ SendOn

Trouble ==
    \/ CannotOpen \/ Die \/ BadFile \/ WriteOutbufFails \/ CopyFails
    \/ OfTimeout \/ IfTimeout \/ LpTimeout \/ OfFails \/ IfFails \/ LpFails

Programs == OfReads \/ OfEnds \/ IfPrints \/ IfEnds \/ LpEnds

PrintNext == Work \/ Trouble \/ Programs

\* The worker runs on, and so does every program it starts: a filter that
\* hangs is one that a timeout ends the wait for.
PrintSpec ==
    /\ PrintInit /\ [][PrintNext]_printVars
    /\ WF_printVars(Work)
    /\ WF_printVars(WriteOutbufFails) /\ WF_printVars(CopyFails)
    /\ WF_printVars(OfReads) /\ WF_printVars(OfEnds)
    /\ WF_printVars(IfPrints) /\ WF_printVars(IfEnds)
    /\ WF_printVars(LpEnds)

-----------------------------------------------------------------------------
Alive(p) == p.state \in {"running", "stopped"}

\* The worker's state, its filters, the output and the OF filter's pipe keep
\* their types.
PrintTypeOK ==
    /\ w \in [pc : {"account", "open", "lead", "write", "of_start", "of_write",
                    "of_wait", "file", "copy", "print", "if_wait", "raw", "tail",
                    "close", "lp_wait", "send", "done", "died"},
              at : {"lead", "sep", "tail"}, piece : 1 .. Pieces + 1, half : 1 .. 2,
              try : 1 .. SendTry, err : Codes, status : Codes]
    /\ \A p \in {of, ifp, lp} :
         p \in [state : {"none", "running", "stopped", "exited"}, half : 1 .. 3,
                code : Codes]
    /\ out \in Seq(Wanted)
    /\ ofPipe \in Seq(Wanted \cup {Stop})
    /\ failed \in BOOLEAN /\ timedOut \in BOOLEAN /\ faults \in 0 .. MaxFaults

\* What Print_job() puts out is the job in its order, with nothing left out
\* in the middle and nothing twice, although three programs write it; a
\* failed job may break off, and then what belongs after the last file
\* follows.
OutputInOrder ==
    ~timedOut =>
        \A n \in 1 .. Len(out) :
            IF out[n] = Trailer THEN n = Len(out)
            ELSE {out[m] : m \in 1 .. n - 1} = {i \in Wanted : Before(i, out[n])}

\* JSUCC from Local_job() on a device, or from a job sent through filters:
\* the whole job went out, and no program, file or write had failed.
SuccessIsPrinted ==
    w.pc = "done" /\ w.status = "JSUCC" /\ cfg.out \in {"device", "filter"} =>
        ~failed /\ {out[n] : n \in 1 .. Len(out)} = Wanted

\* The worker finishes, whatever its filters do: none of its waits is for
\* a filter that itself waits, stopped or for more input.
PrintEnds == <>(w.pc \in {"done", "died"})

\* What the documentation says of filters: a nonzero status of one is the
\* status of the job.  Not where the output is a program: its status is.
FailureIsReported == w.pc = "done" /\ failed => w.status # "JSUCC"
=============================================================================

--------------------------- MODULE FFmpegEncoder ---------------------------
(***************************************************************************)
(* The hardware encoder (internal/encode/ffmpeg.go): the capture goroutine *)
(* of main, which calls Encode and at its end Close; one ffmpeg process    *)
(* per generation; and for each generation a writeLoop and a readNALs      *)
(* goroutine.  Those of an earlier generation may outlive a restart: they  *)
(* share e.stdin, e.nalCh and e.running with the new ones.                 *)
(*                                                                         *)
(* Raw frames have no identity here, and a NAL is the generation of the    *)
(* process that made it.  Every restart makes a write channel and a        *)
(* command, so that both are numbered by the generation.                   *)
(***************************************************************************)
EXTENDS Integers, Sequences

CONSTANTS
  NalCap,      \* capacity of nalCh
  WriteCap,    \* capacity of writeCh
  MaxPipe,     \* bound: NALs in a process's stdout and in readNALs' buffer
  MaxCrashes,  \* bound: processes that end by themselves
  MaxFails,    \* bound: restarts that fail
  MaxCmds      \* bound: generations; no restart is tried beyond it

ASSUME EncoderBounds ==
  /\ NalCap \in Nat \ {0} /\ WriteCap \in Nat \ {0}
  /\ MaxPipe \in Nat \ {0} /\ MaxCmds \in Nat \ {0}
  /\ MaxCrashes \in Nat /\ MaxFails \in Nat

VARIABLES
  prompt,   \* in this behaviour, are restart's 50 ms enough for old goroutines to end?
  pc,       \* capture goroutine: the step it makes next
  closing,  \* capture goroutine: has it called Close?
  first,    \* e.firstFrame
  cmd,      \* the generation of e.cmd and e.writeCh
  stdin,    \* e.stdin: the command whose pipe it is, 0 for nil
  running,  \* e.running
  nalCh,    \* e.nalCh
  queued,   \* write channel: frames in it
  wclosed,  \* write channel: is it closed?
  proc,     \* command: its process
  input,    \* command: is our end of its stdin open?
  output,   \* command: NALs written and not extracted yet
  writer,   \* generation: writeLoop's place
  from,     \* generation: the channel writeLoop ranges over
  to,       \* generation: the command writeLoop writes to
  reader,   \* generation: readNALs' place
  last,     \* history: the NAL that Encode returned last
  crashes,  \* processes that ended by themselves so far
  fails     \* restarts that failed so far

encVars == <<prompt, closing, first, cmd, stdin>>
chanVars == <<queued, wclosed>>
procVars == <<proc, input, crashes, fails>>
writerVars == <<writer, from, to>>
readerVars == <<reader, output>>
vars == <<pc, encVars, running, nalCh, last, chanVars, procVars, writerVars, readerVars>>

Gen == 1..MaxCmds

Step(a, b) == pc = a /\ pc' = b

(* NewFFmpegEncoder has started the first process. *)
Init ==
  /\ prompt \in BOOLEAN
  /\ pc = "frame" /\ closing = FALSE /\ first = TRUE
  /\ cmd = 1 /\ stdin = 1 /\ running = TRUE
  /\ nalCh = <<>> /\ last = 0
  /\ queued = [g \in Gen |-> 0]
  /\ wclosed = [g \in Gen |-> FALSE]
  /\ proc = [g \in Gen |-> IF g = 1 THEN "running" ELSE "unborn"]
  /\ input = [g \in Gen |-> g = 1]
  /\ output = [g \in Gen |-> 0]
  /\ writer = [g \in Gen |-> IF g = 1 THEN "spawned" ELSE "none"]
  /\ from = [g \in Gen |-> 0]
  /\ to = [g \in Gen |-> 0]
  /\ reader = [g \in Gen |-> IF g = 1 THEN "scan" ELSE "none"]
  /\ crashes = 0 /\ fails = 0

-----------------------------------------------------------------------------
(* Encode *)

(* Mutant of EncodeBegins: e.running is not looked at. *)
EncodeNoRestart ==
  /\ Step("frame", "drain")
  /\ UNCHANGED <<encVars, running, nalCh, last, chanVars, procVars, writerVars, readerVars>>

EncodeBegins ==
  /\ prompt => writer[cmd] # "spawned"
  /\ ~running => cmd < MaxCmds
  /\ Step("frame", IF running THEN "drain" ELSE "kill")
  /\ UNCHANGED <<encVars, running, nalCh, last, chanVars, procVars, writerVars, readerVars>>

Drain ==
  /\ pc = "drain" /\ nalCh # <<>>
  /\ nalCh' = Tail(nalCh)
  /\ last' = Head(nalCh)
  /\ UNCHANGED <<pc, encVars, running, chanVars, procVars, writerVars, readerVars>>

Drained ==
  /\ Step("drain", "send") /\ nalCh = <<>>
  /\ UNCHANGED <<encVars, running, nalCh, last, chanVars, procVars, writerVars, readerVars>>

(* Mutant of SendFrame: the channel has no capacity. *)
SendFrameUnbounded ==
  /\ Step("send", IF first THEN "first" ELSE "frame")
  /\ first' = FALSE
  /\ queued' = [queued EXCEPT ![cmd] = @ + 1]
  /\ UNCHANGED <<prompt, closing, cmd, stdin, running, nalCh, last, wclosed, procVars, writerVars, readerVars>>

(* A full channel loses the frame; the first frame waits for output. *)
SendFrame ==
  /\ Step("send", IF first THEN "first" ELSE "frame")
  /\ first' = FALSE
  /\ queued' = [queued EXCEPT ![cmd] = IF @ < WriteCap THEN @ + 1 ELSE @]
  /\ UNCHANGED <<prompt, closing, cmd, stdin, running, nalCh, last, wclosed, procVars, writerVars, readerVars>>

FirstNal ==
  /\ Step("first", "frame") /\ nalCh # <<>>
  /\ nalCh' = Tail(nalCh)
  /\ last' = Head(nalCh)
  /\ UNCHANGED <<encVars, running, chanVars, procVars, writerVars, readerVars>>

FirstTimesOut ==
  /\ Step("first", "frame")
  /\ UNCHANGED <<encVars, running, nalCh, last, chanVars, procVars, writerVars, readerVars>>

Encode == EncodeBegins \/ Drain \/ Drained \/ SendFrame \/ FirstNal \/ FirstTimesOut

-----------------------------------------------------------------------------
(* kill, called by restart and by Close, which cancels the context first *)

CloseBegins ==
  /\ Step("frame", "kill")
  /\ closing' = TRUE
  /\ UNCHANGED <<prompt, first, cmd, stdin, running, nalCh, last, chanVars, procVars, writerVars, readerVars>>

(* Mutant of CloseCh: writeLoop is left ranging over the channel. *)
CloseChForgotten ==
  /\ Step("kill", "stdin")
  /\ UNCHANGED <<encVars, running, nalCh, last, chanVars, procVars, writerVars, readerVars>>

(* close of a closed channel panics *)
CloseCh ==
  /\ Step("kill", IF wclosed[cmd] THEN "panicked" ELSE "stdin")
  /\ wclosed' = [wclosed EXCEPT ![cmd] = TRUE]
  /\ UNCHANGED <<encVars, running, nalCh, last, queued, procVars, writerVars, readerVars>>

CloseStdin ==
  /\ Step("stdin", "signal")
  /\ input' = [g \in Gen |-> input[g] /\ g # stdin]
  /\ UNCHANGED <<encVars, running, nalCh, last, chanVars, proc, crashes, fails, writerVars, readerVars>>

(* Mutant of Signal: kill does not wait. *)
SignalNoWait ==
  /\ Step("signal", "flush")
  /\ proc' = [proc EXCEPT ![cmd] = IF @ = "running" THEN "exited" ELSE @]
  /\ UNCHANGED <<encVars, running, nalCh, last, chanVars, input, crashes, fails, writerVars, readerVars>>

Signal ==
  /\ Step("signal", IF proc[cmd] = "unborn" THEN "flush" ELSE "wait")
  /\ proc' = [proc EXCEPT ![cmd] = IF @ = "running" THEN "exited" ELSE @]
  /\ UNCHANGED <<encVars, running, nalCh, last, chanVars, input, crashes, fails, writerVars, readerVars>>

Wait ==
  /\ Step("wait", "flush") /\ proc[cmd] = "exited"
  /\ proc' = [proc EXCEPT ![cmd] = "reaped"]
  /\ UNCHANGED <<encVars, running, nalCh, last, chanVars, input, crashes, fails, writerVars, readerVars>>

Flush ==
  /\ pc = "flush" /\ nalCh # <<>>
  /\ nalCh' = Tail(nalCh)
  /\ UNCHANGED <<pc, encVars, running, last, chanVars, procVars, writerVars, readerVars>>

Flushed ==
  /\ Step("flush", IF closing THEN "closed" ELSE "renew") /\ nalCh = <<>>
  /\ UNCHANGED <<encVars, running, nalCh, last, chanVars, procVars, writerVars, readerVars>>

Kill == CloseCh \/ CloseStdin \/ Signal \/ Wait \/ Flush \/ Flushed

-----------------------------------------------------------------------------
(* The rest of restart, and start *)

(* Mutant of Renew: the closed channel is kept. *)
RenewClosed ==
  /\ Step("renew", "sleep")
  /\ cmd' = cmd + 1
  /\ wclosed' = [wclosed EXCEPT ![cmd + 1] = TRUE]
  /\ UNCHANGED <<prompt, closing, first, stdin, running, nalCh, last, queued, procVars, writerVars, readerVars>>

Renew ==
  /\ Step("renew", "sleep")
  /\ cmd' = cmd + 1
  /\ UNCHANGED <<prompt, closing, first, stdin, running, nalCh, last, chanVars, procVars, writerVars, readerVars>>

(* Mutant of Sleep: start follows at once. *)
SleepSkipped ==
  /\ Step("sleep", "start")
  /\ UNCHANGED <<encVars, running, nalCh, last, chanVars, procVars, writerVars, readerVars>>

Sleep ==
  /\ prompt => \A g \in Gen : g < cmd => {writer[g], reader[g]} \subseteq {"none", "done"}
  /\ Step("sleep", "start")
  /\ UNCHANGED <<encVars, running, nalCh, last, chanVars, procVars, writerVars, readerVars>>

(* Mutant of Start: running stays false. *)
StartNotRunning ==
  /\ Step("start", "drain")
  /\ stdin' = cmd
  /\ proc' = [proc EXCEPT ![cmd] = "running"]
  /\ input' = [input EXCEPT ![cmd] = TRUE]
  /\ writer' = [writer EXCEPT ![cmd] = "spawned"]
  /\ reader' = [reader EXCEPT ![cmd] = "scan"]
  /\ UNCHANGED <<prompt, closing, first, cmd, running, nalCh, last, chanVars, crashes, fails, from, to, output>>

Start ==
  /\ Step("start", "drain")
  /\ stdin' = cmd
  /\ proc' = [proc EXCEPT ![cmd] = "running"]
  /\ input' = [input EXCEPT ![cmd] = TRUE]
  /\ running' = TRUE
  /\ writer' = [writer EXCEPT ![cmd] = "spawned"]
  /\ reader' = [reader EXCEPT ![cmd] = "scan"]
  /\ UNCHANGED <<prompt, closing, first, cmd, nalCh, last, chanVars, crashes, fails, from, to, output>>

(* StdinPipe fails and leaves nil; or StdoutPipe fails and leaves the pipe *)
(* open; or cmd.Start fails and closes it.  Encode returns the error.      *)
StartFails ==
  /\ fails < MaxFails
  /\ Step("start", "frame")
  /\ fails' = fails + 1
  /\ stdin' \in {0, cmd}
  /\ input' \in {input, [input EXCEPT ![cmd] = stdin' = cmd]}
  /\ UNCHANGED <<prompt, closing, first, cmd, running, nalCh, last, chanVars, proc, crashes, writerVars, readerVars>>

Restart == Renew \/ Sleep \/ Start \/ StartFails

-----------------------------------------------------------------------------
(* writeLoop of generation g: range reads e.writeCh once, when it begins;  *)
(* each Write reads e.stdin.                                               *)

WriterReturns(g) ==
  /\ writer' = [writer EXCEPT ![g] = "done"]
  /\ from' = [from EXCEPT ![g] = 0]
  /\ to' = [to EXCEPT ![g] = 0]

WriterBegins(g) ==
  /\ writer[g] = "spawned"
  /\ writer' = [writer EXCEPT ![g] = "range"]
  /\ from' = [from EXCEPT ![g] = cmd]
  /\ UNCHANGED <<pc, encVars, running, nalCh, last, chanVars, procVars, to, readerVars>>

WriterTakes(g) ==
  /\ writer[g] = "range" /\ queued[from[g]] > 0 /\ stdin # 0
  /\ queued' = [queued EXCEPT ![from[g]] = @ - 1]
  /\ writer' = [writer EXCEPT ![g] = "write"]
  /\ to' = [to EXCEPT ![g] = stdin]
  /\ UNCHANGED <<pc, encVars, running, nalCh, last, wclosed, procVars, from, readerVars>>

(* Write on a nil e.stdin ends the program: the capture goroutine makes no *)
(* further step, and what the others might still do is of no account.      *)
WriterPanics(g) ==
  /\ writer[g] = "range" /\ queued[from[g]] > 0 /\ stdin = 0
  /\ pc' = "panicked"
  /\ WriterReturns(g)
  /\ UNCHANGED <<encVars, running, nalCh, last, chanVars, procVars, readerVars>>

WriterEnds(g) ==
  /\ writer[g] = "range" /\ queued[from[g]] = 0 /\ wclosed[from[g]]
  /\ WriterReturns(g)
  /\ UNCHANGED <<pc, encVars, running, nalCh, last, chanVars, procVars, readerVars>>

WriterWrote(g) ==
  /\ writer[g] = "write" /\ input[to[g]] /\ proc[to[g]] = "running"
  /\ writer' = [writer EXCEPT ![g] = "range"]
  /\ to' = [to EXCEPT ![g] = 0]
  /\ UNCHANGED <<pc, encVars, running, nalCh, last, chanVars, procVars, from, readerVars>>

WriterFails(g) ==
  /\ writer[g] = "write"
  /\ ~input[to[g]] \/ proc[to[g]] \in {"exited", "reaped"}
  /\ WriterReturns(g)
  /\ running' = FALSE
  /\ UNCHANGED <<pc, encVars, nalCh, last, chanVars, procVars, readerVars>>

Writer(g) ==
  \/ WriterBegins(g) \/ WriterTakes(g) \/ WriterPanics(g) \/ WriterEnds(g)
  \/ WriterWrote(g) \/ WriterFails(g)

-----------------------------------------------------------------------------
(* readNALs of generation g: a NAL is complete when the next one begins. *)

(* A send that drops the NAL when the channel is full. *)
PushNal(g) == nalCh' = IF Len(nalCh) < NalCap THEN Append(nalCh, g) ELSE nalCh

Extract(g) ==
  /\ reader[g] = "scan" /\ output[g] > 1
  /\ output' = [output EXCEPT ![g] = @ - 1]
  /\ PushNal(g)
  /\ UNCHANGED <<pc, encVars, running, last, chanVars, procVars, writerVars, reader>>

(* The pipe is read to its end, or Wait closed it and what is in it is lost; *)
(* what is left in the buffer is one more NAL.                               *)
Eof(g) ==
  /\ reader[g] = "scan"
  /\ proc[g] = "reaped" \/ (proc[g] = "exited" /\ output[g] <= 1)
  /\ reader' = [reader EXCEPT ![g] = "eof"]
  /\ output' = [output EXCEPT ![g] = 0]
  /\ IF output[g] > 0 THEN PushNal(g) ELSE UNCHANGED nalCh
  /\ UNCHANGED <<pc, encVars, running, last, chanVars, procVars, writerVars>>

ReaderEnds(g) ==
  /\ reader[g] = "eof"
  /\ reader' = [reader EXCEPT ![g] = "done"]
  /\ running' = FALSE
  /\ UNCHANGED <<pc, encVars, nalCh, last, chanVars, procVars, writerVars, output>>

Reader(g) == Extract(g) \/ Eof(g) \/ ReaderEnds(g)

-----------------------------------------------------------------------------
(* ffmpeg *)

Emit(g) ==
  /\ proc[g] = "running" /\ output[g] < MaxPipe
  /\ output' = [output EXCEPT ![g] = @ + 1]
  /\ UNCHANGED <<pc, encVars, running, nalCh, last, chanVars, procVars, writerVars, reader>>

Crash(g) ==
  /\ proc[g] = "running" /\ crashes < MaxCrashes
  /\ proc' = [proc EXCEPT ![g] = "exited"]
  /\ crashes' = crashes + 1
  /\ UNCHANGED <<pc, encVars, running, nalCh, last, chanVars, input, fails, writerVars, readerVars>>

CtxKills(g) ==
  /\ closing /\ proc[g] = "running"
  /\ proc' = [proc EXCEPT ![g] = "exited"]
  /\ UNCHANGED <<pc, encVars, running, nalCh, last, chanVars, input, crashes, fails, writerVars, readerVars>>

Next ==
  \/ Encode \/ CloseBegins \/ Kill \/ Restart
  \/ \E g \in Gen : Writer(g) \/ Reader(g) \/ Emit(g) \/ Crash(g) \/ CtxKills(g)

(* Frames keep coming until Close, and goroutines run.  ffmpeg need not    *)
(* crash, write or read, and nobody need call Close.                       *)
Fairness ==
  /\ WF_vars(Encode \/ Kill \/ Restart)
  /\ \A g \in Gen :
       /\ WF_vars(\/ WriterBegins(g) \/ WriterTakes(g) \/ WriterPanics(g)
                  \/ WriterEnds(g) \/ WriterFails(g))
       /\ WF_vars(Reader(g))

Spec == Init /\ [][Next]_vars
FairSpec == Spec /\ Fairness

-----------------------------------------------------------------------------
(* Properties *)

(* Every variable has its type; nalCh and writeCh stay within their        *)
(* capacities.                                                             *)
TypeOK ==
  /\ pc \in {"frame", "drain", "send", "first", "kill", "stdin", "signal", "wait", "flush",
             "renew", "sleep", "start", "closed", "panicked"}
  /\ prompt \in BOOLEAN /\ closing \in BOOLEAN /\ first \in BOOLEAN /\ running \in BOOLEAN
  /\ cmd \in Gen /\ stdin \in Gen \cup {0} /\ last \in Gen \cup {0}
  /\ nalCh \in Seq(Gen) /\ Len(nalCh) <= NalCap
  /\ queued \in [Gen -> 0..WriteCap]
  /\ wclosed \in [Gen -> BOOLEAN]
  /\ proc \in [Gen -> {"unborn", "running", "exited", "reaped"}]
  /\ input \in [Gen -> BOOLEAN]
  /\ output \in [Gen -> 0..MaxPipe]
  /\ writer \in [Gen -> {"none", "spawned", "range", "write", "done"}]
  /\ from \in [Gen -> Gen \cup {0}] /\ to \in [Gen -> Gen \cup {0}]
  /\ reader \in [Gen -> {"none", "scan", "eof", "done"}]
  /\ crashes \in 0..MaxCrashes /\ fails \in 0..MaxFails

(* Whatever the goroutines of earlier generations still do, a restart      *)
(* never leaves an earlier ffmpeg running or unreaped.                     *)
OneProcess == \A g \in Gen : g < cmd => proc[g] \in {"unborn", "reaped"}

(* ffmpegs succeed each other as SupervisedProcess says, whatever failed   *)
(* starts and goroutines of earlier generations do in between: restart     *)
(* begins one when the last is reaped, and after Close there is no other.  *)
Super == INSTANCE SupervisedProcess
           WITH Process <- Gen, cur <- cmd, life <- proc, stopped <- closing, cleared <- FALSE
ImplementsSupervised == Super!Spec

(* After Close every goroutine of every generation ends, the ones that     *)
(* were blocked on a pipe or ranged over a later channel included.         *)
Ended ==
  /\ pc = "closed"
  /\ \A g \in Gen : {writer[g], reader[g]} \subseteq {"none", "done"} /\ proc[g] # "running"
CloseEndsAll == closing ~> (Ended \/ pc = "panicked")

(* product-guidelines: "Encoder failure: log error, attempt restart".  An  *)
(* ffmpeg that ended, or could not be started, is replaced.                *)
EncoderRecovers ==
  (prompt /\ proc[cmd] # "running") ~> (proc[cmd] = "running" \/ closing)

(* If the 50 ms are enough, restart is only ever called on an ffmpeg that  *)
(* has ended: no goroutine of an earlier generation clears e.running late. *)
NoNeedlessRestart == prompt /\ pc = "kill" /\ ~closing => proc[cmd] # "running"

(* If the 50 ms are enough, no goroutine writes to a nil e.stdin or closes *)
(* a closed channel: "The server should never crash during streaming".     *)
EncoderNeverPanics == prompt => pc # "panicked"

(* If the 50 ms are enough, Encode never returns a NAL of an earlier       *)
(* process after one of a later process.                                   *)
StreamsInOrder == [][prompt => last' >= last]_last
=============================================================================

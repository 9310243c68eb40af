------------------------ MODULE FFmpegEncoderProofs ------------------------
(***************************************************************************)
(* That the hardware encoder keeps its types, has one ffmpeg at a time,    *)
(* supervised as the abstract supervisor does, panics for a cause only     *)
(* and, if restart's pause is long enough, neither panics nor restarts an  *)
(* ffmpeg that runs: for all capacities and any number of restarts,        *)
(* failing restarts and crashes.                                           *)
(***************************************************************************)
EXTENDS FFmpegEncoder, TLAPS

Killing == {"kill", "stdin", "signal", "wait", "flush"}

(* Restarts stay within their bound, and a writeLoop that ranges over a    *)
(* channel, or writes, has one, and a command to write to.                 *)
TypeInv ==
  /\ TypeOK
  /\ pc \in Killing => closing \/ cmd < MaxCmds
  /\ pc = "renew" => cmd < MaxCmds
  /\ \A g \in Gen : writer[g] \in {"range", "write"} => from[g] \in Gen
  /\ \A g \in Gen : writer[g] = "write" => to[g] \in Gen

LEMMA CmdInGen == \A g : g \in Gen <=> g \in Nat /\ 1 <= g /\ g <= MaxCmds
BY EncoderBounds DEF Gen

NalsOK == nalCh \in Seq(Gen) /\ Len(nalCh) <= NalCap

LEMMA TailOfNals ==
  ASSUME NalsOK, nalCh # <<>>
  PROVE  Head(nalCh) \in Gen /\ Tail(nalCh) \in Seq(Gen) /\ Len(Tail(nalCh)) <= NalCap
BY EncoderBounds DEF NalsOK

LEMMA PushedNals ==
  ASSUME NalsOK, NEW g \in Gen, PushNal(g)
  PROVE  NalsOK'
BY EncoderBounds DEF NalsOK, PushNal

(* A channel or a pipe gives or takes one, within its capacity.            *)
LEMMA OneLess ==
  ASSUME NEW S, NEW n \in Nat, NEW f \in [S -> 0..n], NEW x \in S, f[x] > 0
  PROVE  [f EXCEPT ![x] = @ - 1] \in [S -> 0..n]
OBVIOUS

LEMMA OneMore ==
  ASSUME NEW S, NEW n \in Nat, NEW f \in [S -> 0..n], NEW x \in S, f[x] < n
  PROVE  [f EXCEPT ![x] = @ + 1] \in [S -> 0..n]
OBVIOUS

LEMMA EncodeKeepsTypes == TypeInv /\ (Encode \/ CloseBegins) => TypeInv'
<1> SUFFICES ASSUME TypeInv, Encode \/ CloseBegins PROVE TypeInv'
  OBVIOUS
<1> USE EncoderBounds
    DEF TypeInv, TypeOK, Killing, Step, vars, encVars, chanVars, procVars, writerVars,
        readerVars
<1>1. CASE EncodeBegins
  BY <1>1, CmdInGen DEF EncodeBegins
<1>2. CASE Drain
  BY <1>2, TailOfNals DEF Drain, NalsOK
<1>3. CASE Drained
  BY <1>3 DEF Drained
<1>4. CASE SendFrame
  <2>1. queued' \in [Gen -> 0..WriteCap]
    BY <1>4 DEF SendFrame
  <2>2. pc' \in {"first", "frame"} /\ first' \in BOOLEAN
    BY <1>4 DEF SendFrame
  <2>3. QED BY <1>4, <2>1, <2>2 DEF SendFrame
<1>5. CASE FirstNal
  BY <1>5, TailOfNals DEF FirstNal, NalsOK
<1>6. CASE FirstTimesOut
  BY <1>6 DEF FirstTimesOut
<1>7. CASE CloseBegins
  BY <1>7 DEF CloseBegins
<1>8. QED BY <1>1, <1>2, <1>3, <1>4, <1>5, <1>6, <1>7 DEF Encode

LEMMA KillKeepsTypes == TypeInv /\ Kill => TypeInv'
<1> SUFFICES ASSUME TypeInv, Kill PROVE TypeInv'
  OBVIOUS
<1> USE EncoderBounds
    DEF TypeInv, TypeOK, Killing, Step, vars, encVars, chanVars, procVars, writerVars,
        readerVars
<1>1. CASE CloseCh
  BY <1>1 DEF CloseCh
<1>2. CASE CloseStdin
  BY <1>2 DEF CloseStdin
<1>3. CASE Signal
  BY <1>3 DEF Signal
<1>4. CASE Wait
  BY <1>4 DEF Wait
<1>5. CASE Flush
  BY <1>5, TailOfNals DEF Flush, NalsOK
<1>6. CASE Flushed
  BY <1>6 DEF Flushed
<1>7. QED BY <1>1, <1>2, <1>3, <1>4, <1>5, <1>6 DEF Kill

LEMMA RestartKeepsTypes == TypeInv /\ Restart => TypeInv'
<1> SUFFICES ASSUME TypeInv, Restart PROVE TypeInv'
  OBVIOUS
<1> USE EncoderBounds
    DEF TypeInv, TypeOK, Killing, Step, vars, encVars, chanVars, procVars, writerVars,
        readerVars
<1>1. CASE Renew
  <2>1. cmd \in 1..MaxCmds /\ cmd < MaxCmds
    BY <1>1 DEF Renew, Gen
  <2>2. cmd + 1 \in Gen
    BY <2>1 DEF Gen
  <2>3. QED BY <1>1, <2>2 DEF Renew
<1>2. CASE Sleep
  BY <1>2 DEF Sleep
<1>3. CASE Start
  BY <1>3 DEF Start
<1>4. CASE StartFails
  <2>1. input' \in [Gen -> BOOLEAN]
    BY <1>4 DEF StartFails
  <2>2. stdin' \in Gen \cup {0} /\ fails' \in 0..MaxFails
    BY <1>4 DEF StartFails
  <2>3. QED BY <1>4, <2>1, <2>2 DEF StartFails
<1>5. QED BY <1>1, <1>2, <1>3, <1>4 DEF Restart

LEMMA OthersKeepTypes ==
  TypeInv /\ (\E g \in Gen : Writer(g) \/ Reader(g) \/ Emit(g) \/ Crash(g) \/ CtxKills(g)) => TypeInv'
<1> SUFFICES ASSUME TypeInv, NEW g \in Gen,
                    Writer(g) \/ Reader(g) \/ Emit(g) \/ Crash(g) \/ CtxKills(g)
             PROVE  TypeInv'
  OBVIOUS
<1> USE EncoderBounds
    DEF TypeInv, TypeOK, Killing, Step, vars, encVars, chanVars, procVars, writerVars,
        readerVars
<1>1. CASE WriterBegins(g)
  BY <1>1 DEF WriterBegins
<1>2. CASE WriterTakes(g)
  <2>1. from[g] \in Gen /\ queued[from[g]] > 0 /\ queued' = [queued EXCEPT ![from[g]] = @ - 1]
    BY <1>2 DEF WriterTakes
  <2>2. queued' \in [Gen -> 0..WriteCap]
    <3> HIDE DEF TypeInv
    <3>1. queued \in [Gen -> 0..WriteCap] /\ WriteCap \in Nat
      BY DEF TypeInv
    <3>2. QED BY <2>1, <3>1, OneLess
  <2>3. /\ writer' \in [Gen -> {"none", "spawned", "range", "write", "done"}]
        /\ to' \in [Gen -> Gen \cup {0}]
    BY <1>2 DEF WriterTakes
  <2>4. QED BY <1>2, <2>2, <2>3 DEF WriterTakes
<1>3. CASE WriterPanics(g)
  BY <1>3 DEF WriterPanics, WriterReturns
<1>4. CASE WriterEnds(g)
  BY <1>4 DEF WriterEnds, WriterReturns
<1>5. CASE WriterWrote(g)
  BY <1>5 DEF WriterWrote
<1>6. CASE WriterFails(g)
  BY <1>6 DEF WriterFails, WriterReturns
<1>7. CASE Extract(g)
  <2>1. NalsOK'
    BY <1>7, PushedNals DEF Extract, NalsOK
  <2>2. output' \in [Gen -> 0..MaxPipe]
    <3>1. output[g] \in 0..MaxPipe /\ output[g] > 1 /\ output' = [output EXCEPT ![g] = output[g] - 1]
      BY <1>7 DEF Extract
    <3>2. output[g] - 1 \in 0..MaxPipe
      BY <3>1
    <3>3. QED BY <3>1, <3>2
  <2>3. QED BY <1>7, <2>1, <2>2 DEF Extract, NalsOK
<1>8. CASE Eof(g)
  <2>1. NalsOK'
    BY <1>8, PushedNals DEF Eof, NalsOK
  <2>2. reader' \in [Gen -> {"none", "scan", "eof", "done"}] /\ output' \in [Gen -> 0..MaxPipe]
    BY <1>8 DEF Eof
  <2>3. QED BY <1>8, <2>1, <2>2 DEF Eof, NalsOK
<1>9. CASE ReaderEnds(g)
  BY <1>9 DEF ReaderEnds
<1>10. CASE Emit(g)
  <2>1. output[g] < MaxPipe /\ output' = [output EXCEPT ![g] = @ + 1]
    BY <1>10 DEF Emit
  <2>2. output' \in [Gen -> 0..MaxPipe]
    <3> HIDE DEF TypeInv
    <3>1. output \in [Gen -> 0..MaxPipe] /\ MaxPipe \in Nat
      BY DEF TypeInv
    <3>2. QED BY <2>1, <3>1, OneMore
  <2>3. QED BY <1>10, <2>2 DEF Emit
<1>11. CASE Crash(g)
  BY <1>11 DEF Crash
<1>12. CASE CtxKills(g)
  BY <1>12 DEF CtxKills
<1>13. QED BY <1>1, <1>2, <1>3, <1>4, <1>5, <1>6, <1>7, <1>8, <1>9, <1>10, <1>11, <1>12
    DEF Writer, Reader

LEMMA InitTypes == Init => TypeInv
<1> SUFFICES ASSUME Init PROVE TypeInv
  OBVIOUS
<1>1. 1 \in Gen
  BY EncoderBounds, CmdInGen
<1>2. nalCh \in Seq(Gen) /\ Len(nalCh) <= NalCap
  BY EncoderBounds DEF Init
<1>3. /\ queued \in [Gen -> 0..WriteCap] /\ output \in [Gen -> 0..MaxPipe]
      /\ crashes \in 0..MaxCrashes /\ fails \in 0..MaxFails
  BY EncoderBounds DEF Init
<1>4. QED BY <1>1, <1>2, <1>3 DEF Init, TypeInv, TypeOK, Killing

LEMMA TypeInvHolds == Spec => []TypeInv
<1>1. TypeInv /\ [Next]_vars => TypeInv'
  <2>1. CASE UNCHANGED vars
    BY <2>1 DEF TypeInv, TypeOK, vars, encVars, chanVars, procVars, writerVars, readerVars
  <2>2. QED BY <2>1, EncodeKeepsTypes, KillKeepsTypes, RestartKeepsTypes, OthersKeepTypes
      DEF Next
<1>2. QED BY <1>1, InitTypes, PTL DEF Spec

(* Every variable of the encoder keeps its type; nalCh and the write       *)
(* channels stay within their capacities.                                  *)
THEOREM EncoderTypeCorrect == Spec => []TypeOK
<1>1. TypeInv => TypeOK
  BY DEF TypeInv
<1>2. QED BY <1>1, TypeInvHolds, PTL
-----------------------------------------------------------------------------
(* Processes, channels and goroutines *)

Over == {"none", "done"}

(* Earlier processes are reaped and later ones unborn, and restart goes on *)
(* only when the current one has been reaped or was never started.         *)
ProcInv ==
  /\ OneProcess
  /\ \A g \in Gen : g > cmd \/ (g = cmd /\ pc \in {"sleep", "start"}) =>
       proc[g] = "unborn" /\ writer[g] = "none" /\ reader[g] = "none"
  /\ pc \in {"flush", "renew"} => proc[cmd] \in {"unborn", "reaped"}
  /\ \A g \in Gen : reader[g] \in {"eof", "done"} => proc[g] \in {"exited", "reaped"}

(* Only channels of earlier generations are closed, and the current one    *)
(* from CloseCh to Renew.                                                  *)
ChanInv ==
  \A g \in Gen : wclosed[g] =>
    \/ g < cmd
    \/ g = cmd /\ pc \in {"stdin", "signal", "wait", "flush", "renew", "closed", "panicked"}

(* The current writeLoop writes to the current process; if the pause is    *)
(* enough, goroutines of the generation before last are over, those of the *)
(* last one are when start is called, and nobody is there to write to nil. *)
WriterInv ==
  /\ writer[cmd] # "none" => stdin = cmd
  /\ writer[cmd] = "write" => to[cmd] = cmd
  /\ prompt =>
       /\ pc # "panicked"
       /\ \A g \in Gen : g < cmd /\ ~(pc = "sleep" /\ g = cmd - 1) =>
            writer[g] \in Over /\ reader[g] \in Over
       /\ stdin = 0 => \A g \in Gen : writer[g] \in Over

(* If the pause is enough, e.running is true while the process runs.       *)
RunInv ==
  prompt =>
    /\ pc \in {"frame", "drain", "send", "first"} /\ proc[cmd] = "running" =>
         running /\ input[cmd]
    /\ pc = "kill" /\ ~closing => proc[cmd] # "running"

SafeInv == TypeInv /\ ProcInv /\ ChanInv /\ WriterInv /\ RunInv

(* What the steps below need of the types. *)
LEMMA EncoderFacts ==
  ASSUME TypeInv
  PROVE  /\ cmd \in Gen /\ Gen \subseteq Nat
         /\ proc \in [Gen -> {"unborn", "running", "exited", "reaped"}]
         /\ input \in [Gen -> BOOLEAN] /\ wclosed \in [Gen -> BOOLEAN]
         /\ writer \in [Gen -> {"none", "spawned", "range", "write", "done"}]
         /\ reader \in [Gen -> {"none", "scan", "eof", "done"}]
         /\ to \in [Gen -> Gen \cup {0}]
BY CmdInGen DEF TypeInv, TypeOK

LEMMA EncodeKeepsSafe == SafeInv /\ (Encode \/ CloseBegins) => SafeInv'
<1> SUFFICES ASSUME SafeInv, Encode \/ CloseBegins PROVE SafeInv'
  OBVIOUS
<1>0. TypeInv'
  BY EncodeKeepsTypes DEF SafeInv
<1>f. /\ cmd \in Gen /\ Gen \subseteq Nat
      /\ proc \in [Gen -> {"unborn", "running", "exited", "reaped"}]
      /\ input \in [Gen -> BOOLEAN] /\ wclosed \in [Gen -> BOOLEAN]
      /\ writer \in [Gen -> {"none", "spawned", "range", "write", "done"}]
      /\ reader \in [Gen -> {"none", "scan", "eof", "done"}]
      /\ to \in [Gen -> Gen \cup {0}]
  BY EncoderFacts DEF SafeInv
<1> USE DEF Step, encVars, chanVars, procVars, writerVars, readerVars
<1>1. CASE EncodeBegins
  BY <1>0, <1>1, <1>f
     DEF SafeInv, ProcInv, OneProcess, ChanInv, WriterInv, RunInv, Over, EncodeBegins
<1>2. CASE Drain
  BY <1>0, <1>2, <1>f
     DEF SafeInv, ProcInv, OneProcess, ChanInv, WriterInv, RunInv, Over, Drain
<1>3. CASE Drained
  BY <1>0, <1>3, <1>f
     DEF SafeInv, ProcInv, OneProcess, ChanInv, WriterInv, RunInv, Over, Drained
<1>4. CASE SendFrame
  BY <1>0, <1>4, <1>f
     DEF SafeInv, ProcInv, OneProcess, ChanInv, WriterInv, RunInv, Over, SendFrame
<1>5. CASE FirstNal
  BY <1>0, <1>5, <1>f
     DEF SafeInv, ProcInv, OneProcess, ChanInv, WriterInv, RunInv, Over, FirstNal
<1>6. CASE FirstTimesOut
  BY <1>0, <1>6, <1>f
     DEF SafeInv, ProcInv, OneProcess, ChanInv, WriterInv, RunInv, Over, FirstTimesOut
<1>7. CASE CloseBegins
  BY <1>0, <1>7, <1>f
     DEF SafeInv, ProcInv, OneProcess, ChanInv, WriterInv, RunInv, Over, CloseBegins
<1>8. QED BY <1>1, <1>2, <1>3, <1>4, <1>5, <1>6, <1>7 DEF Encode

LEMMA KillKeepsSafe == SafeInv /\ (Kill) => SafeInv'
<1> SUFFICES ASSUME SafeInv, Kill PROVE SafeInv'
  OBVIOUS
<1>0. TypeInv'
  BY KillKeepsTypes DEF SafeInv
<1>f. /\ cmd \in Gen /\ Gen \subseteq Nat
      /\ proc \in [Gen -> {"unborn", "running", "exited", "reaped"}]
      /\ input \in [Gen -> BOOLEAN] /\ wclosed \in [Gen -> BOOLEAN]
      /\ writer \in [Gen -> {"none", "spawned", "range", "write", "done"}]
      /\ reader \in [Gen -> {"none", "scan", "eof", "done"}]
      /\ to \in [Gen -> Gen \cup {0}]
  BY EncoderFacts DEF SafeInv
<1> USE DEF Step, encVars, chanVars, procVars, writerVars, readerVars
<1>1. CASE CloseCh
  BY <1>0, <1>1, <1>f
     DEF SafeInv, ProcInv, OneProcess, ChanInv, WriterInv, RunInv, Over, CloseCh
<1>2. CASE CloseStdin
  BY <1>0, <1>2, <1>f
     DEF SafeInv, ProcInv, OneProcess, ChanInv, WriterInv, RunInv, Over, CloseStdin
<1>3. CASE Signal
  BY <1>0, <1>3, <1>f
     DEF SafeInv, ProcInv, OneProcess, ChanInv, WriterInv, RunInv, Over, Signal
<1>4. CASE Wait
  BY <1>0, <1>4, <1>f
     DEF SafeInv, ProcInv, OneProcess, ChanInv, WriterInv, RunInv, Over, Wait
<1>5. CASE Flush
  BY <1>0, <1>5, <1>f
     DEF SafeInv, ProcInv, OneProcess, ChanInv, WriterInv, RunInv, Over, Flush
<1>6. CASE Flushed
  BY <1>0, <1>6, <1>f
     DEF SafeInv, ProcInv, OneProcess, ChanInv, WriterInv, RunInv, Over, Flushed
<1>7. QED BY <1>1, <1>2, <1>3, <1>4, <1>5, <1>6 DEF Kill

LEMMA RestartKeepsSafe == SafeInv /\ (Restart) => SafeInv'
<1> SUFFICES ASSUME SafeInv, Restart PROVE SafeInv'
  OBVIOUS
<1>0. TypeInv'
  BY RestartKeepsTypes DEF SafeInv
<1>f. /\ cmd \in Gen /\ Gen \subseteq Nat
      /\ proc \in [Gen -> {"unborn", "running", "exited", "reaped"}]
      /\ input \in [Gen -> BOOLEAN] /\ wclosed \in [Gen -> BOOLEAN]
      /\ writer \in [Gen -> {"none", "spawned", "range", "write", "done"}]
      /\ reader \in [Gen -> {"none", "scan", "eof", "done"}]
      /\ to \in [Gen -> Gen \cup {0}]
  BY EncoderFacts DEF SafeInv
<1> USE DEF Step, encVars, chanVars, procVars, writerVars, readerVars
<1>1. CASE Renew
  <2>1. ProcInv'
    BY <1>1, <1>f DEF SafeInv, ProcInv, OneProcess, ChanInv, WriterInv, RunInv, Over, Renew
  <2>2. ChanInv'
    BY <1>1, <1>f DEF SafeInv, ProcInv, OneProcess, ChanInv, WriterInv, RunInv, Over, Renew
  <2>3. WriterInv'
    <3>1. cmd' \in Gen /\ cmd' = cmd + 1 /\ UNCHANGED <<prompt, stdin, writer, reader, to>> /\ pc' = "sleep"
      BY <1>0, <1>1 DEF TypeInv, TypeOK, Renew
    <3>2. writer[cmd'] = "none"
      BY <1>f, <3>1 DEF SafeInv, ProcInv
    <3>3. prompt => \A g \in Gen : g < cmd => writer[g] \in Over /\ reader[g] \in Over
      BY <1>1, <1>f DEF SafeInv, WriterInv, Renew
    <3>4. prompt /\ stdin = 0 => \A g \in Gen : writer[g] \in Over
      BY DEF SafeInv, WriterInv
    <3>5. writer'[cmd'] = "none"
      BY <3>1, <3>2
    <3>6. prompt' => \A g \in Gen : g < cmd' /\ ~(pc' = "sleep" /\ g = cmd' - 1) =>
            writer'[g] \in Over /\ reader'[g] \in Over
      <4> SUFFICES ASSUME prompt', NEW g \in Gen, g < cmd', g # cmd' - 1
                   PROVE  writer[g] \in Over /\ reader[g] \in Over
        BY <3>1
      <4>1. g < cmd
        BY <1>f, <3>1
      <4>2. QED BY <3>1, <3>3, <4>1
    <3>7. QED BY <3>1, <3>4, <3>5, <3>6 DEF WriterInv
  <2>4. RunInv'
    BY <1>1, <1>f DEF SafeInv, ProcInv, OneProcess, ChanInv, WriterInv, RunInv, Over, Renew
  <2>5. QED BY <1>0, <2>1, <2>2, <2>3, <2>4 DEF SafeInv
<1>2. CASE Sleep
  BY <1>0, <1>2, <1>f
     DEF SafeInv, ProcInv, OneProcess, ChanInv, WriterInv, RunInv, Over, Sleep
<1>3. CASE Start
  <2>1. ProcInv'
    BY <1>3, <1>f DEF SafeInv, ProcInv, OneProcess, ChanInv, WriterInv, RunInv, Over, Start
  <2>2. ChanInv'
    BY <1>3, <1>f DEF SafeInv, ProcInv, OneProcess, ChanInv, WriterInv, RunInv, Over, Start
  <2>3. WriterInv'
    <3>1. cmd' = cmd /\ stdin' = cmd /\ writer'[cmd] = "spawned" /\ cmd # 0 /\ pc' = "drain"
      BY <1>3, <1>f, CmdInGen DEF Start
    <3>2. \A g \in Gen : g < cmd => writer'[g] = writer[g] /\ reader'[g] = reader[g]
      BY <1>3, <1>f DEF Start
    <3>3. prompt => \A g \in Gen : g < cmd => writer[g] \in Over /\ reader[g] \in Over
      BY <1>3, <1>f DEF SafeInv, WriterInv, Start
    <3>4. prompt' = prompt
      BY <1>3 DEF Start
    <3>5. QED BY <3>1, <3>2, <3>3, <3>4 DEF WriterInv
  <2>4. RunInv'
    BY <1>3, <1>f DEF SafeInv, ProcInv, OneProcess, ChanInv, WriterInv, RunInv, Over, Start
  <2>5. QED BY <1>0, <2>1, <2>2, <2>3, <2>4 DEF SafeInv
<1>4. CASE StartFails
  BY <1>0, <1>4, <1>f
     DEF SafeInv, ProcInv, OneProcess, ChanInv, WriterInv, RunInv, Over, StartFails
<1>5. QED BY <1>1, <1>2, <1>3, <1>4 DEF Restart

LEMMA OthersKeepSafe ==
  SafeInv /\ (\E g \in Gen : Writer(g) \/ Reader(g) \/ Emit(g) \/ Crash(g) \/ CtxKills(g)) => SafeInv'
<1> SUFFICES ASSUME SafeInv, NEW g \in Gen,
                    Writer(g) \/ Reader(g) \/ Emit(g) \/ Crash(g) \/ CtxKills(g)
             PROVE  SafeInv'
  OBVIOUS
<1>0. TypeInv'
  BY OthersKeepTypes DEF SafeInv
<1>f. /\ cmd \in Gen /\ Gen \subseteq Nat
      /\ proc \in [Gen -> {"unborn", "running", "exited", "reaped"}]
      /\ input \in [Gen -> BOOLEAN] /\ wclosed \in [Gen -> BOOLEAN]
      /\ writer \in [Gen -> {"none", "spawned", "range", "write", "done"}]
      /\ reader \in [Gen -> {"none", "scan", "eof", "done"}]
      /\ to \in [Gen -> Gen \cup {0}]
  BY EncoderFacts DEF SafeInv
<1> USE DEF Step, encVars, chanVars, procVars, writerVars, readerVars
<1>1. CASE WriterBegins(g)
  BY <1>0, <1>1, <1>f
     DEF SafeInv, ProcInv, OneProcess, ChanInv, WriterInv, RunInv, Over, WriterBegins
<1>2. CASE WriterTakes(g)
  BY <1>0, <1>2, <1>f
     DEF SafeInv, ProcInv, OneProcess, ChanInv, WriterInv, RunInv, Over, WriterTakes
<1>3. CASE WriterPanics(g)
  BY <1>0, <1>3, <1>f
     DEF SafeInv, ProcInv, OneProcess, ChanInv, WriterInv, RunInv, Over, WriterPanics,
         WriterReturns
<1>4. CASE WriterEnds(g)
  BY <1>0, <1>4, <1>f
     DEF SafeInv, ProcInv, OneProcess, ChanInv, WriterInv, RunInv, Over, WriterEnds,
         WriterReturns
<1>5. CASE WriterWrote(g)
  BY <1>0, <1>5, <1>f
     DEF SafeInv, ProcInv, OneProcess, ChanInv, WriterInv, RunInv, Over, WriterWrote
<1>6. CASE WriterFails(g)
  BY <1>0, <1>6, <1>f
     DEF SafeInv, ProcInv, OneProcess, ChanInv, WriterInv, RunInv, Over, WriterFails,
         WriterReturns
<1>7. CASE Extract(g)
  BY <1>0, <1>7, <1>f
     DEF SafeInv, ProcInv, OneProcess, ChanInv, WriterInv, RunInv, Over, Extract
<1>8. CASE Eof(g)
  BY <1>0, <1>8, <1>f
     DEF SafeInv, ProcInv, OneProcess, ChanInv, WriterInv, RunInv, Over, Eof
<1>9. CASE ReaderEnds(g)
  BY <1>0, <1>9, <1>f
     DEF SafeInv, ProcInv, OneProcess, ChanInv, WriterInv, RunInv, Over, ReaderEnds
<1>10. CASE Emit(g)
  BY <1>0, <1>10, <1>f
     DEF SafeInv, ProcInv, OneProcess, ChanInv, WriterInv, RunInv, Over, Emit
<1>11. CASE Crash(g)
  BY <1>0, <1>11, <1>f
     DEF SafeInv, ProcInv, OneProcess, ChanInv, WriterInv, RunInv, Over, Crash
<1>12. CASE CtxKills(g)
  BY <1>0, <1>12, <1>f
     DEF SafeInv, ProcInv, OneProcess, ChanInv, WriterInv, RunInv, Over, CtxKills
<1>13. QED BY <1>1, <1>2, <1>3, <1>4, <1>5, <1>6, <1>7, <1>8, <1>9, <1>10, <1>11, <1>12
    DEF Writer, Reader

LEMMA SafeInvHolds == Spec => []SafeInv
<1>1. Init => SafeInv
  <2> SUFFICES ASSUME Init PROVE SafeInv
    OBVIOUS
  <2>1. TypeInv
    BY InitTypes
  <2>2. cmd = 1 /\ \A g \in Gen : g \in Nat /\ 1 <= g
    BY CmdInGen DEF Init
  <2>3. ProcInv /\ ChanInv
    BY <2>1, <2>2, EncoderFacts DEF Init, ProcInv, OneProcess, ChanInv
  <2>4. WriterInv /\ RunInv
    BY <2>1, <2>2, EncoderFacts DEF Init, WriterInv, RunInv
  <2>5. QED BY <2>1, <2>3, <2>4 DEF SafeInv
<1>2. SafeInv /\ [Next]_vars => SafeInv'
  <2>1. CASE UNCHANGED vars
    BY <2>1 DEF SafeInv, TypeInv, TypeOK, ProcInv, OneProcess, ChanInv, WriterInv, RunInv,
                vars, encVars, chanVars, procVars, writerVars, readerVars
  <2>2. QED BY <2>1, EncodeKeepsSafe, KillKeepsSafe, RestartKeepsSafe, OthersKeepSafe
      DEF Next
<1>3. QED BY <1>1, <1>2, PTL DEF Spec

(* A restart never leaves an earlier ffmpeg running or unreaped, whatever  *)
(* the goroutines of earlier generations still do.                         *)
THEOREM EncoderOneProcess == Spec => []OneProcess
<1>1. SafeInv => OneProcess
  BY DEF SafeInv, ProcInv
<1>2. QED BY <1>1, SafeInvHolds, PTL

(* Close is the end of the capture goroutine's calls.                      *)
CloseInv ==
  closing => pc \in {"kill", "stdin", "signal", "wait", "flush", "closed", "panicked"}

LEMMA CloseInvHolds == Spec => []CloseInv
<1>1. Init => CloseInv
  BY DEF Init, CloseInv
<1>2. CloseInv /\ [Next]_vars => CloseInv'
  <2> SUFFICES ASSUME CloseInv, [Next]_vars PROVE CloseInv'
    OBVIOUS
  <2> USE DEF CloseInv, encVars
  <2>1. CASE UNCHANGED vars
    BY <2>1 DEF vars
  <2>2. CASE Encode \/ CloseBegins
    BY <2>2 DEF Encode, EncodeBegins, Drain, Drained, SendFrame, FirstNal, FirstTimesOut,
                CloseBegins, Step
  <2>3. CASE Kill \/ Restart
    BY <2>3 DEF Kill, CloseCh, CloseStdin, Signal, Wait, Flush, Flushed, Restart, Renew, Sleep,
                Start, StartFails, Step
  <2>4. ASSUME NEW g \in Gen, Writer(g) \/ Reader(g) \/ Emit(g) \/ Crash(g) \/ CtxKills(g)
        PROVE  CloseInv'
    BY <2>4 DEF Writer, WriterBegins, WriterTakes, WriterPanics, WriterEnds, WriterWrote,
                WriterFails, Reader, Extract, Eof, ReaderEnds, Emit, Crash, CtxKills
  <2>5. QED BY <2>1, <2>2, <2>3, <2>4 DEF Next
<1>3. QED BY <1>1, <1>2, PTL DEF Spec

(* The steps of SupervisedProcess under the mapping: it is always the      *)
(* newest ffmpeg that ends.                                                *)
LEMMA EndOfProcess ==
  ASSUME SafeInv, NEW g \in Gen, proc[g] = "running",
         proc' = [proc EXCEPT ![g] = "exited"], UNCHANGED <<cmd, closing>>
  PROVE  Super!Next
<1>1. g = cmd
  <2>1. g \in Nat /\ cmd \in Nat /\ ~(g < cmd) /\ ~(g > cmd)
    BY EncoderFacts DEF SafeInv, ProcInv, OneProcess
  <2>2. QED BY <2>1
<1>2. QED BY <1>1 DEF Super!Next, Super!End, Super!Become

LEMMA KillIsSupervised ==
  ASSUME SafeInv, Kill
  PROVE  [Super!Next]_Super!vars
<1>1. /\ cmd \in Gen /\ UNCHANGED <<cmd, closing>>
      /\ proc \in [Gen -> {"unborn", "running", "exited", "reaped"}]
  BY EncoderFacts DEF SafeInv, Kill, CloseCh, CloseStdin, Signal, Wait, Flush, Flushed, encVars
<1>2. CASE Signal
  <2>1. CASE proc[cmd] = "running"
    BY <1>1, <1>2, <2>1, EndOfProcess DEF Signal
  <2>2. CASE proc[cmd] # "running"
    BY <1>1, <1>2, <2>2 DEF Signal, Super!vars
  <2>3. QED BY <2>1, <2>2
<1>3. CASE Wait
  BY <1>1, <1>3 DEF Wait, Super!Next, Super!Reap, Super!Become
<1>4. CASE CloseCh \/ CloseStdin \/ Flush \/ Flushed
  BY <1>1, <1>4 DEF CloseCh, CloseStdin, Flush, Flushed, procVars, Super!vars
<1>5. QED BY <1>2, <1>3, <1>4 DEF Kill

LEMMA RestartIsSupervised ==
  ASSUME SafeInv, SafeInv', CloseInv, Restart
  PROVE  [Super!Next]_Super!vars
<1>1. CASE Renew
  <2>1. pc = "renew" /\ cmd' = cmd + 1 /\ UNCHANGED <<proc, closing>>
    BY <1>1 DEF Renew, Step, procVars
  <2>2. proc[cmd] \in {"unborn", "reaped"} /\ cmd' \in Gen
    BY <2>1, EncoderFacts DEF SafeInv, ProcInv, TypeInv, TypeOK
  <2>3. QED BY <2>1, <2>2 DEF Super!Next, Super!Replace
<1>2. CASE Start
  <2>1. /\ pc = "start" /\ proc' = [proc EXCEPT ![cmd] = "running"] /\ UNCHANGED <<cmd, closing>>
    BY <1>2 DEF Start, Step
  <2>2. proc[cmd] = "unborn" /\ ~closing
    BY <2>1, EncoderFacts DEF SafeInv, ProcInv, CloseInv
  <2>3. QED BY <2>1, <2>2 DEF Super!Next, Super!Begin, Super!Birth, Super!Become
<1>3. CASE Sleep \/ StartFails
  BY <1>3 DEF Sleep, StartFails, encVars, procVars, Super!vars
<1>4. QED BY <1>1, <1>2, <1>3 DEF Restart

(* The encoder implements SupervisedProcess: ffmpegs succeed each other,   *)
(* each begun when the last is reaped or never ran, and none after Close,  *)
(* whatever fails and however long old goroutines live.                    *)
THEOREM EncoderImplementsSupervised == Spec => ImplementsSupervised
<1>1. Init => Super!Init
  BY DEF Init, Super!Init
<1>2. SafeInv /\ SafeInv' /\ CloseInv /\ [Next]_vars => [Super!Next]_Super!vars
  <2> SUFFICES ASSUME SafeInv, SafeInv', CloseInv, [Next]_vars PROVE [Super!Next]_Super!vars
    OBVIOUS
  <2>1. CASE UNCHANGED vars
    BY <2>1 DEF vars, encVars, procVars, Super!vars
  <2>2. CASE Encode
    BY <2>2 DEF Encode, EncodeBegins, Drain, Drained, SendFrame, FirstNal, FirstTimesOut,
                encVars, procVars, Super!vars
  <2>3. CASE CloseBegins
    <3>1. closing' = TRUE /\ UNCHANGED <<cmd, proc>> /\ closing \in BOOLEAN
      BY <2>3 DEF CloseBegins, procVars, SafeInv, TypeInv, TypeOK
    <3>2. QED BY <3>1 DEF Super!vars, Super!Next, Super!Stop
  <2>4. ASSUME NEW g \in Gen, Writer(g) \/ Reader(g) \/ Emit(g) PROVE UNCHANGED Super!vars
    BY <2>4 DEF Writer, WriterBegins, WriterTakes, WriterPanics, WriterEnds, WriterWrote,
                WriterFails, Reader, Extract, Eof, ReaderEnds, Emit, encVars, procVars, Super!vars
  <2>5. ASSUME NEW g \in Gen, Crash(g) \/ CtxKills(g) PROVE Super!Next
    BY <2>5, EndOfProcess DEF Crash, CtxKills, encVars
  <2>6. QED BY <2>1, <2>2, <2>3, <2>4, <2>5, KillIsSupervised, RestartIsSupervised DEF Next
<1>3. QED BY <1>1, <1>2, SafeInvHolds, CloseInvHolds, PTL DEF Spec, ImplementsSupervised, Super!Spec

(* kill closes no write channel twice, however restarts that succeed,      *)
(* restarts that fail, and Close follow each other.                        *)
NoDoubleClose == pc = "kill" => ~wclosed[cmd]

(* This holds also where the pause is too short.                           *)
THEOREM NeverDoubleClose == Spec => []NoDoubleClose
<1>1. SafeInv => NoDoubleClose
  BY EncoderFacts DEF SafeInv, ChanInv, NoDoubleClose
<1>2. QED BY <1>1, SafeInvHolds, PTL

(* With a pause that is long enough, no restart is called on an ffmpeg     *)
(* that runs.                                                              *)
THEOREM RestartsNeeded == Spec => []NoNeedlessRestart
<1>1. SafeInv => NoNeedlessRestart
  BY DEF SafeInv, RunInv, NoNeedlessRestart
<1>2. QED BY <1>1, SafeInvHolds, PTL

(* With a pause that is long enough, no goroutine panics.                  *)
THEOREM NeverPanics == Spec => []EncoderNeverPanics
<1>1. SafeInv => EncoderNeverPanics
  BY DEF SafeInv, WriterInv, EncoderNeverPanics
<1>2. QED BY <1>1, SafeInvHolds, PTL

(* Only a restart that failed leaves no pipe to write to.                  *)
FailInv ==
  /\ stdin = 0 => fails > 0
  /\ pc = "panicked" => fails > 0

LEMMA FailInvHolds == Spec => []FailInv
<1>1. Init => FailInv
  BY DEF Init, FailInv
<1>2. SafeInv /\ NoDoubleClose /\ FailInv /\ [Next]_vars => FailInv'
  <2> SUFFICES ASSUME SafeInv, NoDoubleClose, FailInv, [Next]_vars PROVE FailInv'
    OBVIOUS
  <2>1. fails \in Nat /\ cmd # 0
    BY EncoderBounds, CmdInGen DEF SafeInv, TypeInv, TypeOK
  <2> USE DEF encVars, procVars
  <2>2. CASE UNCHANGED vars
    BY <2>2 DEF vars, FailInv
  <2>3. CASE Encode \/ CloseBegins
    BY <2>3 DEF Encode, EncodeBegins, Drain, Drained, SendFrame, FirstNal, FirstTimesOut,
                CloseBegins, Step, FailInv
  <2>4. CASE Kill
    BY <2>4 DEF Kill, CloseCh, CloseStdin, Signal, Wait, Flush, Flushed, Step, NoDoubleClose,
                FailInv
  <2>5. CASE StartFails
    BY <2>1, <2>5 DEF StartFails, Step, FailInv
  <2>6. CASE Renew \/ Sleep \/ Start
    BY <2>1, <2>6 DEF Renew, Sleep, Start, Step, FailInv
  <2>7. ASSUME NEW g \in Gen, Writer(g) PROVE FailInv'
    BY <2>7 DEF Writer, WriterBegins, WriterTakes, WriterPanics, WriterEnds, WriterWrote,
                WriterFails, FailInv
  <2>8. ASSUME NEW g \in Gen, Reader(g) \/ Emit(g) \/ Crash(g) \/ CtxKills(g) PROVE FailInv'
    BY <2>8 DEF Reader, Extract, Eof, ReaderEnds, Emit, Crash, CtxKills, FailInv
  <2>9. QED BY <2>2, <2>3, <2>4, <2>5, <2>6, <2>7, <2>8 DEF Next, Restart
<1>3. QED BY <1>1, <1>2, SafeInvHolds, NeverDoubleClose, PTL DEF Spec

(* A panic needs both a restart that failed and, in it, goroutines of an   *)
(* earlier generation that outlived the 50 ms.                             *)
PanicsForCause == pc = "panicked" => fails > 0 /\ ~prompt

(* However ffmpegs crash and goroutines of earlier generations linger, the *)
(* encoder does not end the program unless a restart has failed.           *)
THEOREM PanicsOnlyForCause == Spec => []PanicsForCause
<1>1. FailInv /\ EncoderNeverPanics => PanicsForCause
  BY DEF FailInv, EncoderNeverPanics, PanicsForCause
<1>2. QED BY <1>1, FailInvHolds, NeverPanics, PTL

-----------------------------------------------------------------------------
(* The order of the streams *)

UpTo(g) == last <= g /\ \A i \in 1..Len(nalCh) : nalCh[i] <= g

(* If the pause is enough, nalCh is sorted, starts no earlier than what    *)
(* was returned last, and ends no later than what a readNALs still at work *)
(* may send.                                                               *)
OrderInv ==
  prompt =>
    /\ \A i, j \in 1..Len(nalCh) : i <= j => nalCh[i] <= nalCh[j]
    /\ \A i \in 1..Len(nalCh) : last <= nalCh[i]
    /\ UpTo(cmd)
    /\ \A g \in Gen : reader[g] = "scan" => UpTo(g)

LEMMA SentIn ==
  ASSUME SafeInv
  PROVE  /\ cmd \in Nat /\ last \in Nat /\ Gen \subseteq Nat
         /\ nalCh \in Seq(Gen) /\ Len(nalCh) \in Nat
         /\ \A i \in 1..Len(nalCh) : nalCh[i] \in Nat
<1>1. cmd \in Gen /\ last \in Gen \cup {0} /\ nalCh \in Seq(Gen)
  BY DEF SafeInv, TypeInv, TypeOK
<1>2. Gen \subseteq Nat
  BY CmdInGen
<1>3. Len(nalCh) \in Nat /\ \A i \in 1..Len(nalCh) : nalCh[i] \in Gen
  BY <1>1
<1>4. cmd \in Nat /\ last \in Nat
  BY <1>1, <1>2
<1>5. \A i \in 1..Len(nalCh) : nalCh[i] \in Nat
  BY <1>2, <1>3
<1>6. QED BY <1>1, <1>2, <1>3, <1>4, <1>5

(* A NAL leaves nalCh and is returned, or is thrown away by kill.          *)
LEMMA TakenInOrder ==
  ASSUME SafeInv, OrderInv, nalCh # <<>>, nalCh' = Tail(nalCh), last' \in {last, Head(nalCh)},
         UNCHANGED <<prompt, cmd, reader>>
  PROVE  OrderInv' /\ (prompt => last' >= last)
<1>1. Len(nalCh) \in Nat \ {0} /\ Head(nalCh) = nalCh[1] /\ Len(nalCh') = Len(nalCh) - 1
  BY SentIn
<1>2. \A i \in 1..Len(nalCh') : nalCh'[i] = nalCh[i + 1] /\ i + 1 \in 1..Len(nalCh)
  BY SentIn, <1>1
<1>3. 1 \in 1..Len(nalCh)
  BY <1>1
<1> SUFFICES ASSUME prompt PROVE OrderInv' /\ last' >= last
  BY DEF OrderInv
<1>4. /\ \A i, j \in 1..Len(nalCh') : i <= j => nalCh'[i] <= nalCh'[j]
      /\ \A i \in 1..Len(nalCh') : last' <= nalCh'[i]
  BY SentIn, <1>1, <1>2, <1>3 DEF OrderInv
<1>5. \A g : UpTo(g) => (UpTo(g))'
  BY <1>1, <1>2, <1>3 DEF UpTo
<1>6. last' >= last
  BY SentIn, <1>1, <1>3 DEF OrderInv
<1>7. QED BY <1>4, <1>5, <1>6 DEF OrderInv

(* A readNALs sends: no other one is at work.                              *)
LEMMA SentInOrder ==
  ASSUME SafeInv, OrderInv, NEW g \in Gen, reader[g] = "scan", PushNal(g),
         UNCHANGED <<prompt, cmd, last>>, \A h \in Gen : reader'[h] = "scan" => reader[h] = "scan"
  PROVE  OrderInv'
<1> SUFFICES ASSUME prompt, nalCh' = Append(nalCh, g) PROVE OrderInv'
  BY DEF PushNal, OrderInv, UpTo
<1>1. \A h \in Gen : reader[h] = "scan" => h = g
  <2>1. cmd \in Nat /\ Gen \subseteq Nat
    BY EncoderFacts DEF SafeInv
  <2>2. \A h \in Gen : reader[h] = "scan" => ~(h > cmd) /\ ~(h = cmd /\ pc = "sleep")
    BY DEF SafeInv, ProcInv
  <2>3. \A h \in Gen : reader[h] = "scan" => ~(h < cmd) \/ (pc = "sleep" /\ h = cmd - 1)
    BY DEF SafeInv, WriterInv, Over
  <2>4. \A h \in Gen : reader[h] = "scan" => h = IF pc = "sleep" THEN cmd - 1 ELSE cmd
    BY <2>1, <2>2, <2>3
  <2>5. QED BY <2>4
<1>2. g <= cmd
  BY EncoderFacts DEF SafeInv, ProcInv
<1>3. /\ Len(nalCh') = Len(nalCh) + 1 /\ nalCh'[Len(nalCh) + 1] = g /\ g \in Nat
      /\ \A i \in 1..Len(nalCh) : nalCh'[i] = nalCh[i]
  BY SentIn
<1>4. UpTo(g) /\ UpTo(cmd)
  BY DEF OrderInv
<1>5. /\ \A i, j \in 1..Len(nalCh') : i <= j => nalCh'[i] <= nalCh'[j]
      /\ \A i \in 1..Len(nalCh') : last' <= nalCh'[i]
  BY SentIn, <1>3, <1>4 DEF OrderInv, UpTo
<1>6. (UpTo(g))' /\ (UpTo(cmd))'
  BY SentIn, <1>2, <1>3, <1>4 DEF UpTo
<1>7. QED BY <1>1, <1>5, <1>6 DEF OrderInv

(* No NAL moves; a readNALs may start, in the newest generation.           *)
LEMMA NothingSent ==
  ASSUME SafeInv, OrderInv, UNCHANGED <<prompt, nalCh, last>>, cmd' \in {cmd, cmd + 1},
         \A h \in Gen : reader'[h] = "scan" => reader[h] = "scan" \/ h = cmd'
  PROVE  OrderInv'
<1> SUFFICES ASSUME prompt PROVE OrderInv'
  BY DEF OrderInv
<1>1. UpTo(cmd')
  BY SentIn DEF OrderInv, UpTo
<1>2. \A g : UpTo(g) <=> (UpTo(g))'
  BY DEF UpTo
<1>3. QED BY <1>1, <1>2 DEF OrderInv

LEMMA StepInOrder == SafeInv /\ OrderInv /\ [Next]_vars => OrderInv' /\ (prompt => last' >= last)
<1> SUFFICES ASSUME SafeInv, OrderInv, [Next]_vars PROVE OrderInv' /\ (prompt => last' >= last)
  OBVIOUS
<1> USE DEF vars, encVars, chanVars, procVars, writerVars, readerVars
<1>1. CASE Drain \/ FirstNal \/ Flush
  BY <1>1, TakenInOrder DEF Drain, FirstNal, Flush
<1>2. ASSUME NEW g \in Gen, Extract(g) \/ Eof(g) PROVE OrderInv' /\ (prompt => last' >= last)
  <2>1. reader[g] = "scan" /\ UNCHANGED <<prompt, cmd, last>>
    BY <1>2 DEF Extract, Eof
  <2>2. \A h \in Gen : reader'[h] = "scan" => reader[h] = "scan"
    BY <1>2, EncoderFacts DEF SafeInv, Extract, Eof
  <2>3. PushNal(g) \/ UNCHANGED nalCh
    BY <1>2 DEF Extract, Eof
  <2>4. last' >= last
    BY <2>1, SentIn
  <2>5. QED BY <2>1, <2>2, <2>3, <2>4, SentInOrder, NothingSent
<1>3. CASE Start
  <2>1. \A h \in Gen : reader'[h] = "scan" => reader[h] = "scan" \/ h = cmd'
    BY <1>3, EncoderFacts DEF SafeInv, Start
  <2>2. QED BY <1>3, <2>1, NothingSent, SentIn DEF Start
<1>4. CASE EncodeBegins \/ Drained \/ SendFrame \/ FirstTimesOut \/ CloseBegins
  BY <1>4, NothingSent, SentIn
     DEF EncodeBegins, Drained, SendFrame, FirstTimesOut, CloseBegins
<1>5. CASE CloseCh \/ CloseStdin \/ Signal \/ Wait \/ Flushed
  BY <1>5, NothingSent, SentIn DEF CloseCh, CloseStdin, Signal, Wait, Flushed
<1>6. CASE Renew \/ Sleep \/ StartFails
  BY <1>6, NothingSent, SentIn DEF Renew, Sleep, StartFails
<1>7. ASSUME NEW g \in Gen, Writer(g) \/ Emit(g) \/ Crash(g) \/ CtxKills(g)
      PROVE  OrderInv' /\ (prompt => last' >= last)
  BY <1>7, NothingSent, SentIn
     DEF Writer, WriterBegins, WriterTakes, WriterPanics, WriterEnds, WriterWrote, WriterFails,
         Emit, Crash, CtxKills
<1>8. ASSUME NEW g \in Gen, ReaderEnds(g) PROVE OrderInv' /\ (prompt => last' >= last)
  <2>1. \A h \in Gen : reader'[h] = "scan" => reader[h] = "scan"
    BY <1>8, EncoderFacts DEF SafeInv, ReaderEnds
  <2>2. QED BY <1>8, <2>1, NothingSent, SentIn DEF ReaderEnds
<1>9. CASE UNCHANGED vars
  BY <1>9, NothingSent, SentIn
<1>10. QED BY <1>1, <1>2, <1>3, <1>4, <1>5, <1>6, <1>7, <1>8, <1>9
    DEF Next, Encode, Kill, Restart, Reader

(* With a pause that is long enough, Encode never returns a NAL of an      *)
(* earlier process after one of a later process.                           *)
THEOREM StreamsKeepOrder == Spec => StreamsInOrder
<1>1. Init => OrderInv
  BY CmdInGen DEF Init, OrderInv, UpTo
<1>2. SafeInv /\ OrderInv /\ [Next]_vars => OrderInv' /\ [prompt => last' >= last]_last
  BY StepInOrder
<1>3. QED BY <1>1, <1>2, SafeInvHolds, PTL DEF Spec, StreamsInOrder
=============================================================================

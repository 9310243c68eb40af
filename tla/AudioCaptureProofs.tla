------------------------- MODULE AudioCaptureProofs -------------------------
(***************************************************************************)
(* That the drop-oldest channel keeps the latest chunks in order and never *)
(* holds up readLoop, that pw-cats succeed each other as under the abstract *)
(* supervisor, and that a panic or a readLoop left in Wait has its cause,  *)
(* for every capacity and however often pw-cat ends.                       *)
(***************************************************************************)
EXTENDS AudioCapture, TLAPS

ChannelInv == TypeOK /\ LatestKept /\ NeverBlocks

(* The places where the chunk that was read is not yet in the channel. *)
Pushing == {"push", "drop", "push again"}

LEMMA CapIsPositive == Cap \in Nat /\ Cap >= 1
<1>1. Cap \in Nat \ {0}
  BY AudioBounds
<1>2. QED BY <1>1

(* What Append and Tail do to a run of chunks.                             *)
LEMMA AppendFacts ==
  ASSUME NEW s \in Seq(Nat), NEW n \in Nat
  PROVE  /\ Append(s, n) \in Seq(Nat) /\ Len(s) \in Nat
         /\ Len(Append(s, n)) = Len(s) + 1
         /\ \A i \in 1..Len(s) : Append(s, n)[i] = s[i]
         /\ Append(s, n)[Len(s) + 1] = n
  OBVIOUS

LEMMA TailFacts ==
  ASSUME NEW s \in Seq(Nat), s # <<>>
  PROVE  /\ Tail(s) \in Seq(Nat) /\ Head(s) = s[1] /\ s[1] \in Nat
         /\ Len(s) \in Nat /\ Len(s) >= 1 /\ Len(Tail(s)) = Len(s) - 1
         /\ \A i \in 1..(Len(s) - 1) : Tail(s)[i] = s[i + 1]
  OBVIOUS

(* A number counted up stays a number.                                     *)
LEMMA CountUp == \A n \in Nat : n + 1 \in Nat
  OBVIOUS

(* Arithmetic of one more chunk read, and of one more in the channel.      *)
LEMMA OneMore ==
  ASSUME NEW n \in Nat
  PROVE  /\ n + 1 - 1 = n
         /\ \A t, len \in Nat : t <= n - 1 - len => t <= n - (len + 1)
  OBVIOUS

LEMMA AppendKeepsType ==
  ASSUME NEW s \in Seq(Nat), NEW n \in Nat, Len(s) < Cap
  PROVE  Append(s, n) \in Seq(Nat) /\ Len(Append(s, n)) <= Cap
<1>1. Cap \in Nat /\ Len(s) \in Nat
  BY CapIsPositive
<1>2. QED BY <1>1, AppendFacts

LEMMA TailKeepsType ==
  ASSUME NEW s \in Seq(Nat), s # <<>>, Len(s) <= Cap
  PROVE  Tail(s) \in Seq(Nat) /\ Len(Tail(s)) <= Cap
<1>1. Cap \in Nat
  BY CapIsPositive
<1>2. QED BY <1>1, TailFacts

(* The steps of a Wait keep the types. *)
LEMMA WaitTypes ==
  ASSUME TypeOK, NEW t \in Thread, Wait(t)
  PROVE  TypeOK'
<1>1. AfterWait(t) \in {"sleep", "join all"}
  BY DEF AfterWait
<1>2. UNCHANGED <<cmd, stdout, ch, closed, got, taken, crashes, fails, ctxDone>>
  BY DEF Wait, chanVars, runVars
<1> USE DEF TypeOK, Step, Goto, Waiting
<1>3. CASE WaitCheck(t, AfterWait(t))
  BY <1>1, <1>2, <1>3 DEF WaitCheck
<1>4. CASE WaitReap(t)
  BY <1>2, <1>4 DEF WaitReap
<1>5. CASE WaitAssign(t)
  BY <1>2, <1>5 DEF WaitAssign
<1>6. CASE WaitResult(t, AfterWait(t))
  BY <1>1, <1>2, <1>6 DEF WaitResult
<1>7. QED BY <1>3, <1>4, <1>5, <1>6 DEF Wait, WaitCall

(* readLoop keeps the types; an append is made only below the capacity.    *)
LEMMA ReaderTypes ==
  ASSUME TypeOK, Reader
  PROVE  TypeOK'
<1>1. Top \in {"return", "read"}
  BY DEF Top
<1> USE <1>1
    DEF TypeOK, Move, Step, Goto, Waiting, procVars, chanVars, runVars, Kill
<1>2. CASE ReadChunk
  <2>1. got' \in Nat
    BY <1>2, CountUp DEF ReadChunk
  <2>2. QED BY <1>2, <2>1 DEF ReadChunk
<1>3. CASE Push
  <2>1. ch' \in Seq(Nat) /\ Len(ch') <= Cap
    BY <1>3, AppendKeepsType DEF Push
  <2>2. QED BY <1>3, <2>1 DEF Push
<1>4. CASE DropOldest
  <2>1. ch' \in Seq(Nat) /\ Len(ch') <= Cap
    BY <1>4, TailKeepsType DEF DropOldest
  <2>2. QED BY <1>4, <2>1 DEF DropOldest
<1>5. CASE PushAgain
  <2>1. ch' \in Seq(Nat) /\ Len(ch') <= Cap
    BY <1>5, AppendKeepsType DEF PushAgain
  <2>2. QED BY <1>5, <2>1 DEF PushAgain
<1>6. CASE ReadNil
  BY <1>6 DEF ReadNil
<1>7. CASE ReadError
  BY <1>7 DEF ReadError
<1>8. CASE Reconnect
  BY <1>8 DEF Reconnect
<1>9. CASE Recheck
  BY <1>9 DEF Recheck
<1>10. CASE MakeCmd
  BY <1>10 DEF MakeCmd
<1>11. CASE MakePipe
  BY <1>11 DEF MakePipe
<1>12. CASE PipeFails
  <2>1. fails' \in Nat
    BY <1>12, CountUp DEF PipeFails
  <2>2. QED BY <1>12, <2>1 DEF PipeFails
<1>13. CASE StartChecks \/ Start
  BY <1>13 DEF StartChecks, Start
<1>14. CASE StartFails
  <2>1. fails' \in Nat
    BY <1>14, CountUp DEF StartFails
  <2>2. pc' = [pc EXCEPT !["reader"] = Top] /\ UNCHANGED <<procVars, chanVars, cmd, stdout, crashes, ctxDone>>
    BY <1>14 DEF StartFails
  <2>3. QED BY <2>1, <2>2
<1>15. CASE Return
  BY <1>15 DEF Return
<1>16. QED
  BY <1>2, <1>3, <1>4, <1>5, <1>6, <1>7, <1>8, <1>9, <1>10, <1>11, <1>12, <1>13,
     <1>14, <1>15 DEF Reader

(* The broadcast goroutine, main and the processes keep the types.         *)
LEMMA OthersTypes ==
  ASSUME TypeOK,
         \/ Broadcast \/ RangeEnds \/ Main
         \/ \E p \in Cmd : Crash(p) \/ CtxKills(p)
  PROVE  TypeOK'
<1> USE DEF TypeOK, Move, Step, Goto, Waiting, procVars, chanVars, runVars, Kill
<1>1. CASE Broadcast
  <2>1. ch' \in Seq(Nat) /\ Len(ch') <= Cap /\ taken' \in Nat
    BY <1>1, TailKeepsType, TailFacts DEF Broadcast
  <2>2. QED BY <1>1, <2>1 DEF Broadcast
<1>2. CASE RangeEnds
  BY <1>2 DEF RangeEnds
<1>3. CASE Main
  BY <1>3 DEF Main, Cancel, CloseLooks, CloseKills, CloseWaits, JoinAll
<1>4. ASSUME NEW p \in Cmd, Crash(p) PROVE TypeOK'
  <2>1. crashes' \in Nat
    BY <1>4, CountUp DEF Crash
  <2>2. QED BY <1>4, <2>1 DEF Crash
<1>5. ASSUME NEW p \in Cmd, CtxKills(p) PROVE TypeOK'
  BY <1>5 DEF CtxKills
<1>6. QED BY <1>1, <1>2, <1>3, <1>4, <1>5

LEMMA TypesKept == TypeOK /\ [Next]_vars => TypeOK'
<1> SUFFICES ASSUME TypeOK, [Next]_vars PROVE TypeOK'
  OBVIOUS
<1>1. CASE UNCHANGED vars
  BY <1>1 DEF TypeOK, vars, procVars, chanVars, runVars
<1>2. QED BY <1>1, WaitTypes, ReaderTypes, OthersTypes DEF Next

-----------------------------------------------------------------------------
(* Steps that leave the channel alone, and leave readLoop as far from its  *)
(* push as it was, keep LatestKept and NeverBlocks.                        *)
LEMMA ChannelStill ==
  ASSUME ChannelInv, UNCHANGED <<ch, got, taken>>,
         \/ pc'["reader"] = pc["reader"]
         \/ pc["reader"] \notin Pushing /\ pc'["reader"] \notin Pushing
  PROVE  LatestKept' /\ NeverBlocks'
<1>1. Pushed' = Pushed
  BY DEF Pushed, Pushing
<1>2. QED BY <1>1 DEF ChannelInv, LatestKept, NeverBlocks, Pushing

LEMMA WaitStill ==
  ASSUME ChannelInv, NEW t \in Thread, Wait(t)
  PROVE  LatestKept' /\ NeverBlocks'
<1>1. AfterWait(t) \notin Pushing
  BY DEF AfterWait, Pushing
<1>2. /\ UNCHANGED <<ch, got, taken>>
      /\ \E to : pc' = [pc EXCEPT ![t] = to] /\ to \notin Pushing /\ pc[t] \in Waiting
  BY <1>1 DEF Wait, WaitCall, WaitCheck, WaitReap, WaitAssign, WaitResult, Step, Goto,
              Waiting, Pushing, chanVars
<1>3. pc \in [Thread -> {"read", "push", "drop", "push again", "reconnect", "sleep", "make",
                        "pipe", "start", "exec", "return", "panicked", "serve", "close", "kill",
                        "close wait", "join all", "stopped", "range", "done"} \cup Waiting]
      /\ "reader" \in Thread
  BY DEF ChannelInv, TypeOK, Thread
<1>4. QED BY <1>2, <1>3, ChannelStill DEF Waiting, Pushing

(* s is a run of consecutive chunks that ends at the last.                 *)
Run(s, last) == \A i \in 1..Len(s) : s[i] = last - Len(s) + i

LEMMA KeptIsRun == LatestKept <=> Run(ch, Pushed) /\ taken <= Pushed - Len(ch)
  BY DEF LatestKept, Run

LEMMA AppendRun ==
  ASSUME NEW s \in Seq(Nat), NEW n \in Nat, Run(s, n - 1)
  PROVE  Run(Append(s, n), n)
<1> SUFFICES ASSUME NEW i \in 1..Len(Append(s, n))
             PROVE  Append(s, n)[i] = n - Len(Append(s, n)) + i
  BY DEF Run
<1>1. Len(s) \in Nat /\ Len(Append(s, n)) = Len(s) + 1 /\ i \in 1..(Len(s) + 1)
  BY AppendFacts
<1>2. CASE i = Len(s) + 1
  <2>1. Append(s, n)[i] = n
    BY <1>2, AppendFacts
  <2>2. QED BY <1>1, <1>2, <2>1
<1>3. CASE i # Len(s) + 1
  <2>1. i \in 1..Len(s)
    BY <1>1, <1>3
  <2>2. Append(s, n)[i] = n - 1 - Len(s) + i
    BY <2>1, AppendFacts DEF Run
  <2>3. QED BY <1>1, <2>1, <2>2
<1>4. QED BY <1>2, <1>3

LEMMA TailRun ==
  ASSUME NEW s \in Seq(Nat), s # <<>>, NEW last \in Int, Run(s, last)
  PROVE  Run(Tail(s), last) /\ s[1] = last - Len(Tail(s))
<1>1. Len(s) \in Nat /\ Len(s) >= 1 /\ Len(Tail(s)) = Len(s) - 1
  BY TailFacts
<1>2. 1 \in 1..Len(s)
  BY <1>1
<1>3. s[1] = last - Len(s) + 1
  BY <1>2 DEF Run
<1>4. ASSUME NEW i \in 1..Len(Tail(s)) PROVE Tail(s)[i] = last - Len(Tail(s)) + i
  <2>1. i \in 1..(Len(s) - 1) /\ i + 1 \in 1..Len(s)
    BY <1>1
  <2>2. Tail(s)[i] = s[i + 1]
    BY <2>1, TailFacts
  <2>3. s[i + 1] = last - Len(s) + (i + 1)
    BY <2>1 DEF Run
  <2>4. QED BY <1>1, <2>1, <2>2, <2>3
<1>5. s[1] = last - Len(Tail(s))
  BY <1>1, <1>3
<1>6. QED BY <1>4, <1>5 DEF Run

(* Taking the head of the channel, whoever does it, keeps it a run.        *)
LEMMA TakeHead ==
  ASSUME ChannelInv, ch # <<>>, ch' = Tail(ch), Pushed' = Pushed
  PROVE  /\ Run(ch', Pushed') /\ Len(ch') < Cap
         /\ ch[1] = Pushed' - Len(ch') /\ taken <= Pushed' - Len(ch')
<1>1. ch \in Seq(Nat) /\ got \in Nat /\ taken \in Nat /\ Len(ch) <= Cap
  BY DEF ChannelInv, TypeOK
<1>2. Pushed \in Int
  <2>1. got - 1 \in Int /\ got \in Int
    BY <1>1
  <2>2. QED BY <2>1 DEF Pushed
<1>3. Run(ch, Pushed) /\ taken <= Pushed - Len(ch)
  BY KeptIsRun DEF ChannelInv
<1>4. Run(ch', Pushed') /\ ch[1] = Pushed' - Len(ch')
  BY <1>1, <1>2, <1>3, TailRun
<1>5. Len(ch) \in Nat /\ Len(ch') = Len(ch) - 1
  BY <1>1, TailFacts
<1>6. Len(ch') < Cap
  BY <1>1, <1>5, CapIsPositive
<1>7. taken <= Pushed - Len(ch')
  BY <1>1, <1>2, <1>3, <1>5
<1>8. QED BY <1>4, <1>6, <1>7

(* Putting the chunk in hand in the channel keeps it a run.                *)
LEMMA PutChunk ==
  ASSUME ChannelInv, ch' = Append(ch, got), UNCHANGED <<got, taken>>,
         pc["reader"] \in {"push", "push again"}, pc'["reader"] \in {"read", "return"}
  PROVE  LatestKept' /\ NeverBlocks'
<1>1. ch \in Seq(Nat) /\ got \in Nat /\ taken \in Nat
  BY DEF ChannelInv, TypeOK
<1>2. Pushed = got - 1 /\ Pushed' = got
  BY DEF Pushed
<1>3. Run(ch, got - 1) /\ taken <= got - 1 - Len(ch)
  BY <1>2, KeptIsRun DEF ChannelInv
<1>4. Run(ch', Pushed')
  BY <1>1, <1>2, <1>3, AppendRun
<1>5. Len(ch) \in Nat /\ Len(ch') = Len(ch) + 1
  BY <1>1, AppendFacts
<1>6. taken <= got - Len(ch')
  <2>1. taken <= got - (Len(ch) + 1)
    BY <1>1, <1>3, <1>5, OneMore
  <2>2. QED BY <1>5, <2>1
<1>7. LatestKept'
  BY <1>2, <1>4, <1>6 DEF LatestKept, Run
<1>8. QED BY <1>7 DEF NeverBlocks

(* One case for each step of readLoop that touches the channel or the      *)
(* chunk in hand.                                                          *)
LEMMA ReaderChannel ==
  ASSUME ChannelInv, Reader
  PROVE  LatestKept' /\ NeverBlocks'
<1>1. Top \in {"return", "read"}
  BY DEF Top
<1>2. ASSUME NEW from, NEW to, Move("reader", from, to)
      PROVE  pc["reader"] = from /\ pc'["reader"] = to
  BY <1>2 DEF Move, Step, Goto, ChannelInv, TypeOK, Thread
<1>3. CASE ReadChunk
  <2>1. /\ pc["reader"] = "read" /\ pc'["reader"] = "push"
        /\ got' = got + 1 /\ UNCHANGED <<ch, taken>>
    BY <1>2, <1>3 DEF ReadChunk
  <2>2. got \in Nat
    BY DEF ChannelInv, TypeOK
  <2>3. Pushed' = Pushed
    <3>1. Pushed = got /\ Pushed' = got' - 1
      BY <2>1 DEF Pushed
    <3>2. got' = got + 1 /\ got \in Nat
      BY <2>1, <2>2
    <3>3. got' - 1 = got
      BY ONLY <3>2
    <3>4. QED BY <3>1, <3>3
  <2>4. QED BY <2>1, <2>3 DEF ChannelInv, LatestKept, NeverBlocks
<1>4. CASE Push
  <2>1. CASE Len(ch) < Cap
    BY <1>1, <1>2, <1>4, <2>1, PutChunk DEF Push
  <2>2. CASE ~(Len(ch) < Cap)
    <3>1. pc["reader"] = "push" /\ pc'["reader"] = "drop" /\ UNCHANGED <<ch, got, taken>>
      BY <1>2, <1>4, <2>2 DEF Push
    <3>2. Pushed' = Pushed
      BY <3>1 DEF Pushed
    <3>3. QED BY <3>1, <3>2 DEF ChannelInv, LatestKept, NeverBlocks
  <2>3. QED BY <2>1, <2>2
<1>5. CASE DropOldest
  <2>1. /\ pc["reader"] = "drop" /\ pc'["reader"] = "push again"
        /\ UNCHANGED <<got, taken>> /\ ch' = IF ch = <<>> THEN ch ELSE Tail(ch)
    BY <1>2, <1>5 DEF DropOldest
  <2>2. Pushed' = Pushed
    BY <2>1 DEF Pushed
  <2>3. CASE ch = <<>>
    <3>1. ch' = ch /\ Len(ch') = 0
      BY <2>1, <2>3
    <3>2. Len(ch') < Cap
      BY <3>1, CapIsPositive
    <3>3. QED BY <2>1, <2>2, <3>1, <3>2 DEF ChannelInv, LatestKept, NeverBlocks
  <2>4. CASE ch # <<>>
    BY <2>1, <2>2, <2>4, TakeHead DEF LatestKept, NeverBlocks, Run
  <2>5. QED BY <2>3, <2>4
<1>6. CASE PushAgain
  BY <1>1, <1>2, <1>6, PutChunk DEF PushAgain
<1>7. CASE ReadNil \/ ReadError \/ Reconnect \/ Recheck \/ MakeCmd \/ MakePipe \/ PipeFails
           \/ StartChecks \/ Start \/ StartFails \/ Return
  <2>1. UNCHANGED <<ch, got, taken>>
    BY <1>7 DEF ReadNil, ReadError, Reconnect, Recheck, MakeCmd, MakePipe, PipeFails,
                StartChecks, Start, StartFails, Return, chanVars
  <2>2. \E from, to \in {"read", "panicked", "return", "reconnect", "sleep", "wait", "make",
                         "pipe", "start", "exec", "done"} : Move("reader", from, to)
    BY <1>1, <1>7
       DEF ReadNil, ReadError, Reconnect, Recheck, MakeCmd, MakePipe, PipeFails,
           StartChecks, Start, StartFails, Return
  <2>3. pc["reader"] \notin Pushing /\ pc'["reader"] \notin Pushing
    BY <1>2, <2>2 DEF Pushing
  <2>4. QED BY <2>1, <2>3, ChannelStill
<1>8. QED BY <1>3, <1>4, <1>5, <1>6, <1>7 DEF Reader

(* The broadcast goroutine takes the head, which is the next chunk or a    *)
(* later one.                                                              *)
LEMMA BroadcastChannel ==
  ASSUME ChannelInv, Broadcast
  PROVE  LatestKept' /\ NeverBlocks'
<1>1. ch # <<>> /\ ch' = Tail(ch) /\ taken' = Head(ch) /\ UNCHANGED <<pc, got>>
  BY DEF Broadcast
<1>2. Pushed' = Pushed
  BY <1>1 DEF Pushed
<1>3. Head(ch) = ch[1] /\ ch[1] \in Nat /\ Tail(ch) \in Seq(Nat)
  BY <1>1, TailFacts DEF ChannelInv, TypeOK
<1>4. /\ Run(ch', Pushed') /\ Len(ch') < Cap
      /\ taken' = Pushed' - Len(ch') /\ taken' \in Nat
  BY <1>1, <1>2, <1>3, TakeHead
<1>5. taken' <= Pushed' - Len(ch')
  BY <1>4
<1>6. QED BY <1>4, <1>5 DEF LatestKept, NeverBlocks, Run

LEMMA ChannelInvHolds == Spec => []ChannelInv
<1>1. Init => ChannelInv
  <2> SUFFICES ASSUME Init PROVE ChannelInv
    OBVIOUS
  <2>1. 1 \in Cmd
    BY AudioBounds DEF Cmd
  <2>2. ch = <<>> /\ Len(ch) = 0 /\ got = 0 /\ taken = 0 /\ ch \in Seq(Nat)
    BY DEF Init
  <2>3. pc["reader"] = "read"
    BY DEF Init, Thread
  <2>4. pc \in [Thread -> {"read", "serve", "range"}]
    BY DEF Init, Thread
  <2>5. TypeOK
    <3>1. Len(ch) <= Cap /\ 0 \in Nat
      BY <2>2, CapIsPositive
    <3>2. pc \in [Thread -> {"read", "push", "drop", "push again", "reconnect", "sleep", "make",
                        "pipe", "start", "exec", "return", "panicked", "serve", "close", "kill",
                        "close wait", "join all", "stopped", "range", "done"} \cup Waiting]
      BY <2>4
    <3>3. QED BY <2>1, <2>2, <3>1, <3>2 DEF Init, TypeOK
  <2>6. Pushed = 0
    BY <2>2, <2>3 DEF Pushed
  <2>7. QED BY <2>2, <2>3, <2>5, <2>6 DEF ChannelInv, LatestKept, NeverBlocks
<1>2. ChannelInv /\ [Next]_vars => ChannelInv'
  <2> SUFFICES ASSUME ChannelInv, [Next]_vars PROVE ChannelInv'
    OBVIOUS
  <2>1. TypeOK'
    BY TypesKept DEF ChannelInv
  <2>2. CASE UNCHANGED vars
    BY <2>1, <2>2, ChannelStill DEF vars, chanVars, ChannelInv
  <2>3. CASE RangeEnds \/ Main \/ \E p \in Cmd : Crash(p) \/ CtxKills(p)
    <3>1. UNCHANGED <<ch, got, taken>> /\ pc'["reader"] = pc["reader"]
      BY <2>3 DEF RangeEnds, Main, Cancel, CloseLooks, CloseKills, CloseWaits, JoinAll,
                  Crash, CtxKills, Move, Step, Goto, chanVars, ChannelInv, TypeOK, Thread
    <3>2. QED BY <2>1, <3>1, ChannelStill DEF ChannelInv
  <2>4. QED
    BY <2>1, <2>2, <2>3, WaitStill, ReaderChannel, BroadcastChannel DEF Next, ChannelInv
<1>3. QED BY <1>1, <1>2, PTL DEF Spec

-----------------------------------------------------------------------------
(* OneProcess is inductive once readLoop is known to make a command only   *)
(* after its own Wait on the current one has seen that command reaped, by  *)
(* itself or by Close, or when it never started.                           *)
PwInv ==
  /\ TypeOK
  /\ OneProcess
  /\ \A p \in Cmd : p > cmd => proc[p] = "unborn"
  /\ \A p \in Cmd : state[p] => proc[p] = "reaped"
  /\ \A t \in Thread : pc[t] \in Waiting => on[t] \in Cmd
  /\ \A t \in Thread : pc[t] \in {"assign state", "result"} => proc[on[t]] = "reaped"
  /\ pc["reader"] \in Waiting => on["reader"] = cmd
  /\ pc["reader"] \in {"sleep", "make"} => proc[cmd] \in {"unborn", "reaped"}
  /\ pc["reader"] \in {"pipe", "start", "exec"} => proc[cmd] = "unborn"

(* A goroutine moves on and nothing happens to the processes.              *)
LEMMA MoveKeepsPw ==
  ASSUME PwInv, TypeOK', NEW t \in Thread, NEW to, to \notin Waiting,
         pc' = [pc EXCEPT ![t] = to], UNCHANGED <<on, proc, state, cmd>>,
         t = "reader" =>
           /\ to \in {"sleep", "make"} => proc[cmd] \in {"unborn", "reaped"}
           /\ to \in {"pipe", "start", "exec"} => proc[cmd] = "unborn"
  PROVE  PwInv'
<1>1. /\ "reader" \in Thread /\ pc'[t] = to
      /\ \A u \in Thread : u # t => pc'[u] = pc[u]
  BY DEF PwInv, TypeOK, Thread
<1>2. \A u \in Thread : pc'[u] \in Waiting => pc[u] \in Waiting /\ pc'[u] = pc[u]
  BY <1>1
<1>3. OneProcess'
  BY DEF PwInv, OneProcess
<1>4. /\ pc'["reader"] \in {"sleep", "make"} => proc[cmd] \in {"unborn", "reaped"}
      /\ pc'["reader"] \in {"pipe", "start", "exec"} => proc[cmd] = "unborn"
  BY <1>1 DEF PwInv
<1>5. QED BY <1>1, <1>2, <1>3, <1>4 DEF PwInv, Waiting

(* A kill only turns running processes into exited ones.                   *)
LEMMA KillFacts ==
  ASSUME PwInv, NEW p \in Cmd, Kill(p)
  PROVE  /\ UNCHANGED cmd => OneProcess'
         /\ \A q \in Cmd : proc[q] \in {"unborn", "reaped"} => proc'[q] = proc[q]
<1>1. \A q \in Cmd : proc[q] \in {"unborn", "reaped"} => proc'[q] = proc[q]
  BY DEF Kill, PwInv, TypeOK
<1>2. QED BY <1>1 DEF PwInv, OneProcess

LEMMA WaitKeepsPw ==
  ASSUME PwInv, NEW t \in Thread, Wait(t)
  PROVE  PwInv'
<1>1. TypeOK'
  BY WaitTypes DEF PwInv
<1>2. /\ t = "reader" => AfterWait(t) = "sleep"
      /\ t # "reader" => AfterWait(t) = "join all"
      /\ UNCHANGED cmd /\ "reader" \in Thread
  BY DEF AfterWait, Wait, runVars, Thread
<1> USE <1>1, <1>2 DEF PwInv, TypeOK, OneProcess, Waiting, Step, Goto
<1>3. CASE WaitCheck(t, AfterWait(t))
  <2>1. on[t] \in Cmd /\ pc[t] = "wait"
    BY <1>3 DEF WaitCheck
  <2>2. CASE state[on[t]]
    <3>1. /\ pc' = [pc EXCEPT ![t] = AfterWait(t)] /\ UNCHANGED <<on, proc, state>>
          /\ proc[on[t]] = "reaped"
      BY <1>3, <2>1, <2>2 DEF WaitCheck
    <3>2. t = "reader" => proc[cmd] = "reaped"
      BY <2>1, <3>1
    <3>3. AfterWait(t) \notin Waiting
      BY DEF AfterWait, Waiting
    <3>4. QED BY <3>1, <3>2, <3>3, MoveKeepsPw
  <2>3. CASE ~state[on[t]]
    BY <1>3, <2>1, <2>3 DEF WaitCheck
  <2>4. QED BY <2>2, <2>3
<1>4. CASE WaitReap(t)
  <2>1. on[t] \in Cmd /\ pc[t] = "reap" /\ proc[on[t]] # "unborn"
    BY <1>4 DEF WaitReap
  <2>2. proc \in [Cmd -> {"unborn", "running", "exited", "reaped"}]
    OBVIOUS
  <2>3. proc' = [proc EXCEPT ![on[t]] = "reaped"]
    BY <1>4 DEF WaitReap
  <2> HIDE DEF PwInv, TypeOK, OneProcess
  <2>4. proc'[on[t]] = "reaped" /\ \A p \in Cmd : p # on[t] => proc'[p] = proc[p]
    BY <2>1, <2>2, <2>3
  <2>5. /\ \A p \in Cmd : proc[p] = "reaped" => proc'[p] = "reaped"
        /\ \A p \in Cmd : proc[p] = "unborn" => proc'[p] = "unborn"
    BY <2>1, <2>4
  <2> USE DEF PwInv, TypeOK, OneProcess
  <2>6. OneProcess'
    BY <1>4, <2>4, <2>5 DEF WaitReap
  <2>7. /\ \A p \in Cmd : p > cmd => proc'[p] = "unborn"
        /\ \A p \in Cmd : state'[p] => proc'[p] = "reaped"
    BY <1>4, <2>5 DEF WaitReap
  <2>8. \A u \in Thread : pc'[u] \in {"assign state", "result"} => proc'[on[u]] = "reaped"
    BY <1>4, <2>1, <2>4, <2>5 DEF WaitReap
  <2>9. /\ \A u \in Thread : pc'[u] \in Waiting => on[u] \in Cmd
        /\ pc'["reader"] \in Waiting => on["reader"] = cmd
    <3>1. \A u \in Thread : pc'[u] \in Waiting => pc[u] \in Waiting
      BY <1>4, <2>1 DEF WaitReap
    <3>2. QED BY <1>2, <3>1
  <2>10. /\ pc'["reader"] \in {"sleep", "make"} => proc'[cmd] \in {"unborn", "reaped"}
         /\ pc'["reader"] \in {"pipe", "start", "exec"} => proc'[cmd] = "unborn"
    <3>1. pc'["reader"] \in {"sleep", "make", "pipe", "start", "exec"} => pc'["reader"] = pc["reader"]
      BY <1>4, <2>1 DEF WaitReap
    <3>2. QED BY <2>5, <3>1
  <2>11. UNCHANGED <<on, cmd>>
    BY <1>4, <1>2 DEF WaitReap
  <2>12. QED BY <2>6, <2>7, <2>8, <2>9, <2>10, <2>11
<1>5. CASE WaitAssign(t)
  <2>1. on[t] \in Cmd /\ pc[t] = "assign state" /\ proc[on[t]] = "reaped"
    BY <1>5 DEF WaitAssign
  <2>2. \A p \in Cmd : state'[p] => proc[p] = "reaped"
    BY <1>5, <2>1 DEF WaitAssign
  <2>3. QED BY <1>5, <2>1, <2>2 DEF WaitAssign
<1>6. CASE WaitResult(t, AfterWait(t))
  <2>1. on[t] \in Cmd /\ pc[t] = "result" /\ proc[on[t]] = "reaped"
    BY <1>6 DEF WaitResult
  <2>2. QED BY <1>6, <2>1 DEF WaitResult
<1>7. QED BY <1>3, <1>4, <1>5, <1>6 DEF Wait, WaitCall

LEMMA NextCmd ==
  ASSUME cmd \in Cmd, cmd + 1 \in Cmd
  PROVE  /\ cmd + 1 > cmd
         /\ \A p \in Cmd : p < cmd + 1 => p < cmd \/ p = cmd
         /\ \A p \in Cmd : p > cmd + 1 => p > cmd
  BY AudioBounds DEF Cmd

(* start replaces c.cmd only when the current command is done with.        *)
LEMMA MakeKeepsPw ==
  ASSUME PwInv, MakeCmd
  PROVE  PwInv'
<1>1. TypeOK'
  BY ReaderTypes DEF PwInv, Reader
<1>2. /\ pc["reader"] = "make" /\ "reader" \in Thread
      /\ pc' = [pc EXCEPT !["reader"] = "pipe"]
      /\ cmd' = cmd + 1 /\ cmd + 1 \in Cmd /\ UNCHANGED <<on, reaper, proc, state, watch>>
  BY DEF MakeCmd, Move, Step, Goto, Thread, procVars
<1>3. /\ cmd + 1 > cmd /\ cmd \in Cmd
      /\ \A p \in Cmd : p < cmd + 1 => p < cmd \/ p = cmd
      /\ \A p \in Cmd : p > cmd + 1 => p > cmd
  BY <1>2, NextCmd DEF PwInv, TypeOK
<1>4. OneProcess'
  BY <1>2, <1>3 DEF PwInv, OneProcess
<1>5. proc'[cmd'] = "unborn" /\ \A p \in Cmd : p > cmd' => proc'[p] = "unborn"
  BY <1>2, <1>3 DEF PwInv
<1>6. /\ pc'["reader"] = "pipe"
      /\ \A t \in Thread : pc'[t] \in Waiting => pc[t] \in Waiting /\ pc'[t] = pc[t]
  BY <1>2 DEF PwInv, TypeOK, Waiting
<1>7. QED BY <1>1, <1>2, <1>4, <1>5, <1>6 DEF PwInv, Waiting

LEMMA StartKeepsPw ==
  ASSUME PwInv, Start
  PROVE  PwInv'
<1>1. TypeOK'
  BY ReaderTypes DEF PwInv, Reader
<1>2. /\ pc["reader"] = "exec" /\ "reader" \in Thread
      /\ pc' = [pc EXCEPT !["reader"] = "read"]
      /\ proc' = [proc EXCEPT ![cmd] = "running"]
      /\ UNCHANGED <<on, reaper, state, cmd>>
  BY DEF Start, Move, Step, Goto, Thread, procVars, runVars
<1>3. proc[cmd] = "unborn" /\ \A p \in Cmd : p # cmd => proc'[p] = proc[p]
  BY <1>2 DEF PwInv, TypeOK
<1>4. \A p \in Cmd : p < cmd \/ p > cmd => p # cmd
  <2>1. cmd \in Cmd
    BY DEF PwInv, TypeOK
  <2>2. Cmd \subseteq Int
    BY AudioBounds DEF Cmd
  <2>3. QED BY <2>1, <2>2
<1>5. OneProcess' /\ \A p \in Cmd : p > cmd => proc'[p] = "unborn"
  BY <1>2, <1>3, <1>4 DEF PwInv, OneProcess
<1>6. \A p \in Cmd : proc[p] = "reaped" => proc'[p] = "reaped"
  BY <1>3
<1>7. /\ pc'["reader"] = "read"
      /\ \A t \in Thread : pc'[t] \in Waiting => pc[t] \in Waiting /\ pc'[t] = pc[t]
  BY <1>2 DEF PwInv, TypeOK, Waiting
<1>8. QED BY <1>1, <1>2, <1>5, <1>6, <1>7 DEF PwInv, Waiting

(* reconnect kills what runs and waits for it, unless nothing was started. *)
LEMMA ReconnectKeepsPw ==
  ASSUME PwInv, Reconnect
  PROVE  PwInv'
<1>1. TypeOK' /\ "reader" \in Thread /\ cmd \in Cmd
  BY ReaderTypes DEF PwInv, TypeOK, Reader, Thread
<1>2. /\ pc'["reader"] = (IF proc[cmd] = "unborn" THEN "sleep" ELSE "wait")
      /\ on'["reader"] = cmd /\ UNCHANGED <<state, cmd>> /\ Kill(cmd)
      /\ \A t \in Thread : t # "reader" => pc'[t] = pc[t] /\ on'[t] = on[t]
  BY <1>1 DEF Reconnect, Move, Step, Goto, PwInv, TypeOK, runVars
<1>3. OneProcess' /\ \A q \in Cmd : proc[q] \in {"unborn", "reaped"} => proc'[q] = proc[q]
  BY <1>1, <1>2, KillFacts
<1>4. /\ \A p \in Cmd : p > cmd => proc'[p] = "unborn"
      /\ \A p \in Cmd : state'[p] => proc'[p] = "reaped"
  BY <1>2, <1>3 DEF PwInv
<1>5. \A t \in Thread : pc'[t] \in Waiting => on'[t] \in Cmd
  BY <1>1, <1>2 DEF PwInv
<1>6. ASSUME NEW t \in Thread, pc'[t] \in {"assign state", "result"}
      PROVE  proc'[on'[t]] = "reaped"
  <2>1. t # "reader"
    BY <1>2, <1>6
  <2>2. pc[t] \in {"assign state", "result"} /\ on'[t] = on[t]
    BY <1>2, <1>6, <2>1
  <2>3. proc[on[t]] = "reaped" /\ on[t] \in Cmd
    BY <2>2 DEF PwInv, Waiting
  <2>4. QED BY <1>3, <2>2, <2>3
<1>7. /\ pc'["reader"] \in {"sleep", "make"} => proc'[cmd] \in {"unborn", "reaped"}
      /\ pc'["reader"] \notin {"pipe", "start", "exec"}
  BY <1>1, <1>2, <1>3
<1>8. QED BY <1>1, <1>2, <1>3, <1>4, <1>5, <1>6, <1>7 DEF PwInv

LEMMA ReaderKeepsPw ==
  ASSUME PwInv, Reader
  PROVE  PwInv'
<1>1. /\ TypeOK' /\ "reader" \in Thread /\ Top \in {"return", "read"}
      /\ {"push", "drop", "push again", "read", "return", "reconnect", "panicked", "done",
          "make", "start", "exec"} \cap Waiting = {}
  BY ReaderTypes DEF PwInv, Top, Thread, Waiting
<1>2. CASE ReadChunk \/ Push \/ DropOldest \/ PushAgain \/ ReadNil \/ ReadError
           \/ PipeFails \/ StartFails \/ Return
  <2>1. \E to \in {"push", "drop", "push again", "read", "return", "reconnect", "panicked",
                   "done"} :
          pc' = [pc EXCEPT !["reader"] = to] /\ UNCHANGED <<on, proc, state, cmd>>
    BY <1>1, <1>2 DEF ReadChunk, Push, DropOldest, PushAgain, ReadNil, ReadError, PipeFails,
                      StartFails, Return, Move, Step, Goto, procVars, runVars
  <2>2. QED BY <1>1, <2>1, MoveKeepsPw
<1>3. CASE Recheck
  <2>1. \E to \in {"return", "make"} :
          pc' = [pc EXCEPT !["reader"] = to] /\ UNCHANGED <<on, proc, state, cmd>>
    BY <1>3 DEF Recheck, Move, Step, Goto, procVars, runVars
  <2>2. proc[cmd] \in {"unborn", "reaped"}
    BY <1>3 DEF Recheck, Move, Step, PwInv
  <2>3. QED BY <1>1, <2>1, <2>2, MoveKeepsPw
<1>4. CASE MakePipe
  <2>1. pc' = [pc EXCEPT !["reader"] = "start"] /\ UNCHANGED <<on, proc, state, cmd>>
    BY <1>4 DEF MakePipe, Move, Step, Goto, procVars
  <2>2. proc[cmd] = "unborn"
    BY <1>4 DEF MakePipe, Move, Step, PwInv
  <2>3. QED BY <1>1, <2>1, <2>2, MoveKeepsPw
<1>5. CASE StartChecks
  <2>1. pc' = [pc EXCEPT !["reader"] = "exec"] /\ UNCHANGED <<on, proc, state, cmd>>
    BY <1>5 DEF StartChecks, Move, Step, Goto, procVars, runVars
  <2>2. proc[cmd] = "unborn"
    BY <1>5 DEF StartChecks, Move, Step, PwInv
  <2>3. QED BY <1>1, <2>1, <2>2, MoveKeepsPw
<1>6. QED
  BY <1>2, <1>3, <1>4, <1>5, MakeKeepsPw, StartKeepsPw, ReconnectKeepsPw DEF Reader

(* A process is killed, and no goroutine but main moves.                   *)
LEMMA KillKeepsPw ==
  ASSUME PwInv, TypeOK', NEW p \in Cmd, Kill(p), UNCHANGED <<on, state, cmd>>,
         \A t \in Thread : pc'[t] \in Waiting \/ t = "reader" => pc'[t] = pc[t]
  PROVE  PwInv'
<1>1. OneProcess' /\ \A q \in Cmd : proc[q] \in {"unborn", "reaped"} => proc'[q] = proc[q]
  BY KillFacts
<1>2. /\ \A q \in Cmd : q > cmd => proc'[q] = "unborn"
      /\ \A q \in Cmd : state[q] => proc'[q] = "reaped"
  BY <1>1 DEF PwInv
<1>3. \A t \in Thread : pc'[t] \in Waiting => on[t] \in Cmd
  BY DEF PwInv
<1>4. \A t \in Thread : pc'[t] \in {"assign state", "result"} => proc'[on[t]] = "reaped"
  BY <1>1 DEF PwInv, Waiting
<1>5. pc'["reader"] = pc["reader"] /\ cmd \in Cmd
  BY DEF Thread, PwInv, TypeOK
<1>6. QED BY <1>1, <1>2, <1>3, <1>4, <1>5 DEF PwInv

LEMMA OthersKeepPw ==
  ASSUME PwInv,
         \/ Broadcast \/ RangeEnds \/ Main
         \/ \E p \in Cmd : Crash(p) \/ CtxKills(p)
  PROVE  PwInv'
<1>1. /\ TypeOK' /\ {"reader", "main", "broadcast"} = Thread /\ cmd \in Cmd
      /\ {"close", "join all", "kill", "done", "stopped", "panicked", "close wait"}
          \cap Waiting = {}
  BY OthersTypes DEF PwInv, TypeOK, Thread, Waiting
<1>2. CASE Broadcast
  BY <1>1, <1>2 DEF Broadcast, PwInv, OneProcess, procVars, runVars
<1>3. CASE RangeEnds \/ Cancel \/ CloseLooks \/ JoinAll
  <2>1. \E t \in {"main", "broadcast"}, to \in {"close", "join all", "kill", "done", "stopped"} :
          pc' = [pc EXCEPT ![t] = to] /\ UNCHANGED <<on, proc, state, cmd>>
    BY <1>3 DEF RangeEnds, Cancel, CloseLooks, JoinAll, Move, Step, Goto, procVars, runVars
  <2>2. QED BY <1>1, <2>1, MoveKeepsPw
<1>4. CASE CloseKills
  <2>1. /\ Kill(cmd) /\ UNCHANGED <<on, state, cmd>>
        /\ pc' = [pc EXCEPT !["main"] = IF proc[cmd] = "unborn" THEN "panicked" ELSE "close wait"]
    BY <1>4 DEF CloseKills, Move, Step, Goto, runVars
  <2>2. \A t \in Thread : pc'[t] \in Waiting \/ t = "reader" => pc'[t] = pc[t]
    BY <1>1, <2>1 DEF PwInv, TypeOK
  <2>3. QED BY <1>1, <2>1, <2>2, KillKeepsPw
<1>5. CASE CloseWaits
  <2>1. /\ UNCHANGED <<proc, state, cmd>> /\ on'["main"] = cmd
        /\ pc'["main"] \in {"join all", "wait"}
        /\ \A t \in Thread : t # "main" => pc'[t] = pc[t] /\ on'[t] = on[t]
    BY <1>1, <1>5 DEF CloseWaits, Move, Step, Goto, runVars, PwInv, TypeOK
  <2>2. OneProcess'
    BY <2>1 DEF PwInv, OneProcess
  <2>3. \A t \in Thread : pc'[t] \in Waiting => on'[t] \in Cmd
    BY <1>1, <2>1 DEF PwInv
  <2>4. ASSUME NEW t \in Thread, pc'[t] \in {"assign state", "result"}
        PROVE  proc[on'[t]] = "reaped"
    <3>1. t # "main"
      BY <2>1, <2>4
    <3>2. pc[t] \in {"assign state", "result"} /\ on'[t] = on[t]
      BY <2>1, <2>4, <3>1
    <3>3. QED BY <3>2 DEF PwInv
  <2>5. pc'["reader"] = pc["reader"] /\ on'["reader"] = on["reader"]
    BY <1>1, <2>1
  <2>6. QED BY <1>1, <2>1, <2>2, <2>3, <2>4, <2>5 DEF PwInv
<1>6. ASSUME NEW p \in Cmd, Crash(p) \/ CtxKills(p) PROVE PwInv'
  <2>1. Kill(p) /\ UNCHANGED <<pc, on, state, cmd>>
    BY <1>6 DEF Crash, CtxKills, runVars
  <2>2. QED BY <1>1, <2>1, KillKeepsPw
<1>7. QED BY <1>2, <1>3, <1>4, <1>5, <1>6 DEF Main

LEMMA PwInvHolds == Spec => []PwInv
<1>1. Init /\ TypeOK => PwInv
  <2> SUFFICES ASSUME Init, TypeOK PROVE PwInv
    OBVIOUS
  <2>1. \A t \in Thread : pc[t] \in {"read", "serve", "range"}
    BY DEF Init, Thread
  <2>2. /\ cmd = 1 /\ "reader" \in Thread /\ pc["reader"] = "read"
        /\ \A p \in Cmd : ~state[p] /\ (p > 1 => proc[p] = "unborn") /\ ~(p < 1)
    BY AudioBounds DEF Init, Cmd, Thread
  <2>3. QED BY <2>1, <2>2 DEF PwInv, OneProcess, Waiting
<1>2. PwInv /\ [Next]_vars => PwInv'
  <2> SUFFICES ASSUME PwInv, [Next]_vars PROVE PwInv'
    OBVIOUS
  <2>1. CASE UNCHANGED vars
    BY <2>1, TypesKept DEF vars, procVars, runVars, PwInv, OneProcess
  <2>2. QED BY <2>1, WaitKeepsPw, ReaderKeepsPw, OthersKeepPw DEF Next
<1>3. Spec => []TypeOK
  <2>1. ChannelInv => TypeOK
    BY DEF ChannelInv
  <2>2. QED BY <2>1, ChannelInvHolds, PTL
<1>4. QED BY <1>1, <1>2, <1>3, PTL DEF Spec

(* Every pw-cat but the newest never ran or is dead and reaped, however    *)
(* reconnect, Close and the context's watcher meet.                        *)
THEOREM AudioOneProcess == Spec => []OneProcess
<1>1. PwInv => OneProcess
  BY DEF PwInv
<1>2. QED BY <1>1, PwInvHolds, PTL

(* The places of a goroutine: the codomain of pc in TypeOK. *)
Place == {"read", "push", "drop", "push again", "reconnect", "sleep", "make", "pipe", "start", "exec",
          "return", "panicked", "serve", "close", "kill", "close wait", "join all", "stopped",
          "range", "done"} \cup Waiting

(* The steps of SupervisedProcess under the mapping: whoever kills or      *)
(* reaps, it is the newest pw-cat that ends.                               *)
LEMMA NewestLives ==
  ASSUME PwInv, NEW p \in Cmd, proc[p] \in {"running", "exited"}
  PROVE  p = cmd
<1>1. Cmd \subseteq Int
  BY AudioBounds DEF Cmd
<1>2. p \in Int /\ cmd \in Int /\ ~(p < cmd) /\ ~(p > cmd)
  BY <1>1 DEF PwInv, TypeOK, OneProcess
<1>3. QED BY <1>2

LEMMA KillIsEnd ==
  ASSUME PwInv, NEW p \in Cmd, Kill(p), UNCHANGED <<cmd, ctxDone>>,
         UNCHANGED (pc["reader"] = "exec")
  PROVE  [Super!Next]_Super!vars
<1>1. proc \in [Cmd -> {"unborn", "running", "exited", "reaped"}]
  BY DEF PwInv, TypeOK
<1>2. CASE proc[p] = "running"
  BY <1>1, <1>2, NewestLives DEF Kill, Super!Next, Super!End, Super!Become
<1>3. CASE proc[p] # "running"
  BY <1>1, <1>3 DEF Kill, Super!vars
<1>4. QED BY <1>2, <1>3

LEMMA WaitIsReap ==
  ASSUME PwInv, NEW t \in Thread, Wait(t)
  PROVE  [Super!Next]_Super!vars
<1>1. UNCHANGED <<cmd, ctxDone>> /\ UNCHANGED (pc["reader"] = "exec")
  <2>1. \E to \in Waiting \cup {AfterWait(t)} : pc[t] \in Waiting /\ pc' = [pc EXCEPT ![t] = to]
    BY DEF Wait, WaitCall, WaitCheck, WaitReap, WaitAssign, WaitResult, Step, Goto, Waiting
  <2>2. pc \in [Thread -> Place] /\ "exec" \notin Waiting \cup {AfterWait(t)}
    BY DEF PwInv, TypeOK, Place, AfterWait, Waiting
  <2>3. CASE t = "reader"
    <3>1. pc["reader"] # "exec" /\ pc'["reader"] # "exec"
      BY <2>1, <2>2, <2>3
    <3>2. QED BY <3>1 DEF Wait, runVars
  <2>4. CASE t # "reader"
    <3>1. pc'["reader"] = pc["reader"]
      BY <2>1, <2>2, <2>4 DEF Thread
    <3>2. QED BY <3>1 DEF Wait, runVars
  <2>5. QED BY <2>3, <2>4
<1>2. CASE UNCHANGED proc
  BY <1>1, <1>2 DEF Super!vars
<1>3. CASE WaitReap(t)
  <2>1. /\ on[t] \in Cmd /\ proc[on[t]] \in {"exited", "reaped"}
        /\ proc' = [proc EXCEPT ![on[t]] = "reaped"]
    BY <1>3 DEF WaitReap, Step, PwInv, Waiting
  <2>2. CASE proc[on[t]] = "exited"
    BY <1>1, <2>1, <2>2, NewestLives DEF Super!Next, Super!Reap, Super!Become
  <2>3. CASE proc[on[t]] = "reaped"
    BY <1>1, <2>1, <2>3 DEF PwInv, TypeOK, Super!vars
  <2>4. QED BY <2>1, <2>2, <2>3
<1>4. QED BY <1>2, <1>3 DEF Wait, WaitCall, WaitCheck, WaitAssign, WaitResult

(* The look at the context clears a start, the start uses that up, and a   *)
(* failure abandons it.                                                    *)
LEMMA ReaderIsSupervised ==
  ASSUME PwInv, Reader
  PROVE  [Super!Next]_Super!vars
<1>0. pc \in [Thread -> Place] /\ ctxDone \in BOOLEAN /\ "reader" \in Thread
      /\ Top \in {"return", "read"}
  BY DEF PwInv, TypeOK, Place, Thread, Top
<1>1. CASE MakeCmd
  <2>1. /\ pc["reader"] = "make" /\ pc'["reader"] = "pipe"
        /\ cmd + 1 \in Cmd /\ cmd' = cmd + 1 /\ UNCHANGED <<proc, ctxDone>>
    BY <1>0, <1>1 DEF MakeCmd, Move, Step, Goto, procVars
  <2>2. proc[cmd] \in {"unborn", "reaped"}
    BY <2>1 DEF PwInv
  <2>3. QED BY <2>1, <2>2 DEF Super!Next, Super!Replace
<1>2. CASE StartChecks
  <2>1. /\ pc["reader"] = "start" /\ pc'["reader"] = "exec" /\ ~ctxDone
        /\ UNCHANGED <<cmd, proc, ctxDone>>
    BY <1>0, <1>2 DEF StartChecks, Move, Step, Goto, procVars, runVars
  <2>2. QED BY <2>1 DEF Super!Next, Super!Clear
<1>3. CASE Start
  <2>1. /\ pc["reader"] = "exec" /\ pc'["reader"] = "read" /\ UNCHANGED <<cmd, ctxDone>>
        /\ proc' = [proc EXCEPT ![cmd] = "running"]
    BY <1>0, <1>3 DEF Start, Move, Step, Goto, runVars
  <2>2. proc[cmd] = "unborn"
    BY <2>1 DEF PwInv
  <2>3. QED BY <2>1, <2>2 DEF Super!Next, Super!Begin, Super!Birth, Super!Become
<1>4. CASE StartFails
  <2>1. pc'["reader"] # "exec" /\ UNCHANGED <<cmd, proc, ctxDone>>
    BY <1>0, <1>4 DEF StartFails, Move, Step, Goto, procVars
  <2>2. CASE pc["reader"] = "exec"
    BY <2>1, <2>2 DEF Super!Next, Super!Abandon
  <2>3. CASE pc["reader"] # "exec"
    BY <2>1, <2>3 DEF Super!vars
  <2>4. QED BY <2>2, <2>3
<1>5. CASE Reconnect
  <2>1. cmd \in Cmd /\ Kill(cmd) /\ UNCHANGED <<cmd, ctxDone>>
        /\ pc["reader"] # "exec" /\ pc'["reader"] # "exec"
    BY <1>0, <1>5 DEF Reconnect, Move, Step, Goto, PwInv, TypeOK, runVars
  <2>2. QED BY <2>1, KillIsEnd
<1>6. CASE ReadChunk \/ Push \/ DropOldest \/ PushAgain \/ ReadNil \/ ReadError \/ Recheck
           \/ MakePipe \/ PipeFails \/ Return
  <2>1. UNCHANGED <<cmd, proc, ctxDone>> /\ pc["reader"] # "exec" /\ pc'["reader"] # "exec"
    BY <1>0, <1>6
       DEF ReadChunk, Push, DropOldest, PushAgain, ReadNil, ReadError, Recheck, MakePipe,
           PipeFails, Return, Move, Step, Goto, procVars, runVars
  <2>2. QED BY <2>1 DEF Super!vars
<1>7. QED BY <1>1, <1>2, <1>3, <1>4, <1>5, <1>6 DEF Reader

(* The capturer implements SupervisedProcess: pw-cats succeed each other,  *)
(* each started when the last is dead and reaped or never ran, and after a *)
(* cancel only one whose Start had looked at the context before it,        *)
(* however reconnect, Close and the watcher meet.                          *)
THEOREM AudioImplementsSupervised == Spec => ImplementsSupervised
<1>1. Init => Super!Init
  <2> SUFFICES ASSUME Init PROVE Super!Init
    OBVIOUS
  <2>1. pc["reader"] = "read"
    BY DEF Init, Thread
  <2>2. QED BY <2>1 DEF Init, Super!Init
<1>2. PwInv /\ [Next]_vars => [Super!Next]_Super!vars
  <2> SUFFICES ASSUME PwInv, [Next]_vars PROVE [Super!Next]_Super!vars
    OBVIOUS
  <2>0. pc \in [Thread -> Place] /\ ctxDone \in BOOLEAN /\ Thread = {"reader", "main", "broadcast"}
    BY DEF PwInv, TypeOK, Place, Thread
  <2>1. CASE UNCHANGED vars
    BY <2>1 DEF vars, procVars, runVars, Super!vars
  <2>2. CASE Broadcast \/ RangeEnds \/ CloseLooks \/ CloseWaits \/ JoinAll
    <3>1. pc'["reader"] = pc["reader"]
      BY <2>0, <2>2 DEF Broadcast, RangeEnds, CloseLooks, CloseWaits, JoinAll, Move, Step, Goto
    <3>2. UNCHANGED <<cmd, proc, ctxDone>>
      BY <2>2 DEF Broadcast, RangeEnds, CloseLooks, CloseWaits, JoinAll, procVars, runVars
    <3>3. QED BY <3>1, <3>2 DEF Super!vars
  <2>3. CASE Cancel
    <3>1. ctxDone' = TRUE /\ UNCHANGED <<cmd, proc>> /\ pc'["reader"] = pc["reader"]
      BY <2>0, <2>3 DEF Cancel, Move, Step, Goto, procVars
    <3>2. QED BY <2>0, <3>1 DEF Super!vars, Super!Next, Super!Stop
  <2>4. CASE CloseKills
    <3>1. cmd \in Cmd /\ Kill(cmd) /\ UNCHANGED <<cmd, ctxDone>> /\ pc'["reader"] = pc["reader"]
      BY <2>0, <2>4 DEF CloseKills, Move, Step, Goto, PwInv, TypeOK, runVars
    <3>2. QED BY <3>1, KillIsEnd
  <2>5. ASSUME NEW p \in Cmd, Crash(p) \/ CtxKills(p) PROVE [Super!Next]_Super!vars
    BY <2>5, KillIsEnd DEF Crash, CtxKills, runVars
  <2>6. QED BY <2>1, <2>2, <2>3, <2>4, <2>5, WaitIsReap, ReaderIsSupervised DEF Next, Main
<1>3. QED BY <1>1, <1>2, PwInvHolds, PTL DEF Spec, ImplementsSupervised, Super!Spec

-----------------------------------------------------------------------------
(* What a panic and a held-up readLoop need                                *)

(* Only a start that failed leaves readLoop without a pipe. *)
FailInv ==
  /\ stdout = 0 => fails > 0
  /\ pc["reader"] = "panicked" => fails > 0

(* main closes after the cancel, and waits for no command before.          *)
PlaceInv ==
  /\ pc["broadcast"] \in {"range", "done"}
  /\ pc["main"] # "serve" <=> ctxDone
  /\ pc["main"] \in {"serve", "close", "kill", "close wait"} => on["main"] = 0
  /\ FailInv

(* Until a pw-cat ends by itself the first one is the only one, and only   *)
(* a cancel ends it, so that readLoop never reconnects.                    *)
CalmInv ==
  crashes = 0 =>
    /\ cmd = 1 /\ stdout = 1 /\ proc[1] # "unborn"
    /\ proc[1] # "running" => ctxDone
    /\ pc["reader"] \in {"read", "push", "drop", "push again", "return", "done"}
    /\ pc["main"] # "panicked"

(* What readLoop alone has done to command p: it reaps before it assigns   *)
(* the state, and receives the result only once the state is set.          *)
OwnAt(p) ==
  /\ ~watch[p] => state[p]
  /\ proc[p] = "reaped" /\ ~state[p] =>
       on["reader"] = p /\ pc["reader"] = "assign state" /\ reaper["reader"]
  /\ on["reader"] = p =>
       /\ pc["reader"] \in {"reap", "assign state", "result"} => watch[p]
       /\ pc["reader"] = "reap" => ~state[p]
       /\ pc["reader"] = "assign state" => reaper["reader"]
       /\ pc["reader"] = "result" => state[p]

OwnInv == \A p \in Cmd : on["main"] # p /\ proc[p] # "unborn" => OwnAt(p)

LEMMA CmdFacts == 1 \in Cmd /\ 0 \notin Cmd /\ Cmd \subseteq Int
<1>1. MaxCmds \in Nat /\ MaxCmds >= 1
  BY AudioBounds
<1>2. QED BY <1>1 DEF Cmd

LEMMA PlaceInvHolds == Spec => []PlaceInv
<1>1. Init => PlaceInv
  BY CmdFacts DEF Init, PlaceInv, FailInv, Thread
<1>2. PwInv /\ PlaceInv /\ [Next]_vars => PlaceInv'
  <2> SUFFICES ASSUME PwInv, PlaceInv, [Next]_vars PROVE PlaceInv'
    OBVIOUS
  <2>1. /\ {"reader", "main", "broadcast"} = Thread /\ fails \in Nat
        /\ pc \in [Thread -> Place] /\ on \in [Thread -> Cmd \cup {0}] /\ cmd \in Cmd
    BY DEF PwInv, TypeOK, Thread, Place
  <2>2. CASE UNCHANGED vars
    BY <2>2 DEF vars, procVars, runVars, PlaceInv, FailInv
  <2>3. ASSUME NEW t \in Thread, Wait(t) PROVE PlaceInv'
    <3>1. /\ pc[t] \in Waiting /\ UNCHANGED <<on, stdout, fails, ctxDone>>
          /\ \E to \in Waiting \cup {"sleep", "join all"} :
               pc' = [pc EXCEPT ![t] = to] /\ (to = "sleep" => t = "reader")
      BY <2>3 DEF Wait, WaitCall, WaitCheck, WaitReap, WaitAssign, WaitResult, Step, Goto,
                  AfterWait, Waiting, runVars
    <3>2. t # "broadcast"
      BY <3>1 DEF PlaceInv, Waiting
    <3>3. QED BY <2>1, <3>1, <3>2 DEF PlaceInv, FailInv, Waiting
  <2>4. CASE Reader
    <3>1. /\ UNCHANGED ctxDone /\ on'["main"] = on["main"] /\ pc["reader"] # "panicked"
          /\ pc'["main"] = pc["main"] /\ pc'["broadcast"] = pc["broadcast"]
      BY <2>1, <2>4
         DEF Reader, ReadChunk, Push, DropOldest, PushAgain, ReadNil, ReadError, Reconnect,
             Recheck, MakeCmd, MakePipe, PipeFails, StartChecks, Start, StartFails, Return, Move, Step, Goto,
             procVars, runVars, PwInv, TypeOK
    <3>2. fails' >= fails /\ (stdout' = 0 => fails' > 0)
      <4>1. cmd # 0
        BY CmdFacts DEF PwInv, TypeOK
      <4>2. \/ UNCHANGED <<stdout, fails>>
            \/ stdout' = cmd /\ UNCHANGED fails
            \/ fails' = fails + 1
            \/ StartFails
        BY <2>4
           DEF Reader, ReadChunk, Push, DropOldest, PushAgain, ReadNil, ReadError, Reconnect,
               Recheck, MakeCmd, MakePipe, PipeFails, StartChecks, Start, Return, runVars
      <4>3. StartFails => fails' \in {fails, fails + 1} /\ UNCHANGED stdout
        BY DEF StartFails
      <4>4. CASE UNCHANGED <<stdout, fails>>
        <5>1. stdout = 0 => fails > 0
          BY DEF PlaceInv, FailInv
        <5>2. QED BY <2>1, <4>4, <5>1
      <4>5. CASE stdout' = cmd /\ UNCHANGED fails
        BY <2>1, <4>1, <4>5
      <4>6. CASE fails' = fails + 1
        BY <2>1, <4>6
      <4>7. QED BY <4>2, <4>3, <4>4, <4>5, <4>6
    <3>3. pc'["reader"] = "panicked" => stdout = 0
      BY <2>1, <2>4
         DEF Reader, ReadChunk, Push, DropOldest, PushAgain, ReadNil, ReadError, Reconnect,
             Recheck, MakeCmd, MakePipe, PipeFails, StartChecks, Start, StartFails, Return, Move, Step, Goto,
             Top, PwInv, TypeOK
    <3>4. fails' \in Nat
      BY <2>4, ReaderTypes DEF PwInv, TypeOK
    <3>5. pc'["reader"] = "panicked" => fails' > 0
      <4>1. stdout = 0 => fails > 0
        BY DEF PlaceInv, FailInv
      <4>2. QED BY <2>1, <3>2, <3>3, <3>4, <4>1
    <3>6. FailInv'
      <4>1. fails' > 0 \/ stdout' # 0
        BY <3>2
      <4>2. QED BY <3>5, <4>1 DEF FailInv
    <3>7. QED BY <3>1, <3>6 DEF PlaceInv
  <2>5. CASE Main
    BY <2>1, <2>5 DEF Main, Cancel, CloseLooks, CloseKills, CloseWaits, JoinAll, Move, Step, Goto,
                      procVars, runVars, PlaceInv, FailInv, PwInv, TypeOK
  <2>6. CASE RangeEnds
    BY <2>1, <2>6 DEF RangeEnds, Move, Step, Goto, procVars, runVars, PlaceInv, FailInv
  <2>7. CASE Broadcast \/ \E p \in Cmd : Crash(p) \/ CtxKills(p)
    <3>1. UNCHANGED <<pc, on, stdout, fails, ctxDone>>
      BY <2>7 DEF Broadcast, Crash, CtxKills, procVars, runVars
    <3>2. QED BY <3>1 DEF PlaceInv, FailInv
  <2>8. QED BY <2>2, <2>3, <2>4, <2>5, <2>6, <2>7 DEF Next
<1>3. QED BY <1>1, <1>2, PwInvHolds, PTL DEF Spec

LEMMA CalmInvHolds == Spec => []CalmInv
<1>1. Init => CalmInv
  BY CmdFacts DEF Init, CalmInv, Thread
<1>2. PwInv /\ PlaceInv /\ CalmInv /\ [Next]_vars => CalmInv'
  <2> SUFFICES ASSUME PwInv, PlaceInv, CalmInv, [Next]_vars, crashes' = 0 PROVE CalmInv'
    BY DEF CalmInv
  <2>1. /\ {"reader", "main", "broadcast"} = Thread /\ 1 \in Cmd
        /\ proc \in [Cmd -> {"unborn", "running", "exited", "reaped"}]
        /\ pc \in [Thread -> Place]
    BY CmdFacts DEF PwInv, TypeOK, Thread, Place
  <2>2. crashes = 0 /\ (UNCHANGED vars \/ UNCHANGED crashes)
    <3>1. CASE \E p \in Cmd : Crash(p)
      <4>1. crashes' = crashes + 1 /\ crashes \in Nat
        BY <3>1 DEF Crash, PwInv, TypeOK
      <4>2. QED BY <4>1
    <3>2. CASE ~\E p \in Cmd : Crash(p)
      BY <3>2 DEF Next, vars, Wait, Reader, ReadChunk, Push, DropOldest, PushAgain, ReadNil,
                  ReadError, Reconnect, Recheck, MakeCmd, MakePipe, PipeFails, StartChecks, Start, StartFails,
                  Return, Broadcast, RangeEnds, Main, Cancel, CloseLooks, CloseKills, CloseWaits,
                  JoinAll, CtxKills, runVars
    <3>3. QED BY <3>1, <3>2
  <2>3. /\ cmd = 1 /\ stdout = 1 /\ proc[1] # "unborn"
        /\ proc[1] # "running" => ctxDone
        /\ pc["reader"] \in {"read", "push", "drop", "push again", "return", "done"}
        /\ pc["main"] # "panicked"
    BY <2>2 DEF CalmInv
  <2>4. stdout # 0
    <3>1. stdout = 1
      BY <2>2 DEF CalmInv
    <3>2. QED BY <3>1
  <2>5. CASE UNCHANGED vars
    BY <2>5 DEF vars, procVars, runVars, CalmInv
  <2>6. ASSUME NEW t \in Thread, Wait(t) PROVE CalmInv'
    <3>1. /\ UNCHANGED <<cmd, stdout, ctxDone>> /\ pc[t] \in Waiting
          /\ pc'[t] \in Waiting \cup {"sleep", "join all"}
          /\ \A u \in Thread \ {t} : pc'[u] = pc[u]
      BY <2>1, <2>6 DEF Wait, WaitCall, WaitCheck, WaitReap, WaitAssign, WaitResult, Step, Goto,
                        AfterWait, Waiting, runVars
    <3>2. t # "reader"
      BY <2>3, <3>1 DEF Waiting
    <3>3. UNCHANGED proc \/ \E p \in Cmd : /\ proc' = [proc EXCEPT ![p] = "reaped"]
                                          /\ proc[p] \in {"exited", "reaped"}
      <4>1. on[t] \in Cmd
        BY <3>1 DEF PwInv
      <4>2. QED BY <2>6, <4>1 DEF Wait, WaitCall, WaitCheck, WaitReap, WaitAssign, WaitResult
    <3>4. proc'[1] # "unborn" /\ (proc'[1] # "running" => proc[1] # "running")
      BY <2>1, <2>3, <3>3
    <3>5. pc'["main"] # "panicked"
      BY <2>1, <2>3, <3>1 DEF Waiting
    <3>6. QED BY <2>1, <2>3, <3>1, <3>2, <3>4, <3>5 DEF CalmInv
  <2>7. CASE Reader
    <3>1. ReadChunk \/ Push \/ DropOldest \/ PushAgain \/ ReadError \/ Return
      <4>1. ~ReadNil
        BY <2>4 DEF ReadNil
      <4>2. ~Reconnect /\ ~Recheck /\ ~MakeCmd
        BY <2>3 DEF Reconnect, Recheck, MakeCmd, Move, Step
      <4>3. ~MakePipe /\ ~PipeFails /\ ~StartChecks /\ ~Start /\ ~StartFails
        BY <2>3 DEF MakePipe, PipeFails, StartChecks, Start, StartFails, Move, Step
      <4>4. QED BY <2>7, <4>1, <4>2, <4>3 DEF Reader
    <3>2. UNCHANGED <<cmd, stdout, ctxDone, proc>>
      BY <3>1 DEF ReadChunk, Push, DropOldest, PushAgain, ReadError, Return, procVars, runVars
    <3>3. /\ pc'["reader"] \in {"read", "push", "drop", "push again", "return", "done"}
          /\ pc'["main"] = pc["main"]
      BY <2>1, <2>3, <3>1 DEF ReadChunk, Push, DropOldest, PushAgain, ReadError, Return, Move,
                              Step, Goto, Top
    <3>4. QED BY <2>3, <3>2, <3>3 DEF CalmInv
  <2>8. CASE Main \/ Broadcast \/ RangeEnds \/ \E p \in Cmd : CtxKills(p)
    <3>1. /\ UNCHANGED <<cmd, stdout>> /\ pc'["reader"] = pc["reader"]
          /\ pc'["main"] # "panicked" /\ (ctxDone => ctxDone')
      <4>1. CASE Main
        BY <2>1, <2>3, <4>1 DEF Main, Cancel, CloseLooks, CloseKills, CloseWaits, JoinAll, Move,
                                Step, Goto, procVars, runVars
      <4>2. CASE RangeEnds
        BY <2>1, <2>3, <4>2 DEF RangeEnds, Move, Step, Goto, procVars, runVars
      <4>3. CASE Broadcast \/ \E p \in Cmd : CtxKills(p)
        BY <2>3, <4>3 DEF Broadcast, CtxKills, procVars, runVars
      <4>4. QED BY <2>8, <4>1, <4>2, <4>3
    <3>2. UNCHANGED proc \/ (ctxDone /\ \E p \in Cmd : Kill(p))
      BY <2>8 DEF Main, Cancel, CloseLooks, CloseKills, CloseWaits, JoinAll, Broadcast,
                  RangeEnds, CtxKills, Move, Step, procVars, PlaceInv, PwInv, TypeOK
    <3>3. proc'[1] # "unborn"
      BY <2>1, <2>3, <3>2 DEF Kill
    <3>4. QED BY <2>3, <3>1, <3>2, <3>3 DEF CalmInv
  <2>9. CASE \E p \in Cmd : Crash(p)
    <3>1. crashes' = crashes + 1 /\ crashes \in Nat
      BY <2>9 DEF Crash, PwInv, TypeOK
    <3>2. QED BY <3>1
  <2>10. QED BY <2>5, <2>6, <2>7, <2>8, <2>9 DEF Next
<1>3. QED BY <1>1, <1>2, PwInvHolds, PlaceInvHolds, PTL DEF Spec

(* main waiting for another command does nothing to this one.              *)
LEMMA WaitKeepsOwn ==
  ASSUME PwInv, PlaceInv, OwnInv, NEW t \in Thread, Wait(t),
         NEW p \in Cmd, on'["main"] # p, proc'[p] # "unborn"
  PROVE  OwnAt(p)'
<1>1. /\ proc \in [Cmd -> {"unborn", "running", "exited", "reaped"}] /\ state \in [Cmd -> BOOLEAN]
      /\ watch \in [Cmd -> BOOLEAN] /\ reaper \in [Thread -> BOOLEAN]
      /\ {"reader", "main", "broadcast"} = Thread
      /\ pc \in [Thread -> Place]
  BY DEF PwInv, TypeOK, Thread, Place
<1>2. pc[t] \in Waiting /\ on[t] \in Cmd /\ UNCHANGED on
  BY DEF Wait, WaitCall, WaitCheck, WaitReap, WaitAssign, WaitResult, Step, Waiting, PwInv
<1>3. t # "broadcast"
  BY <1>2 DEF PlaceInv, Waiting
<1>4. proc[p] # "unborn"
  BY <1>1, <1>2 DEF Wait, WaitCall, WaitCheck, WaitReap, WaitAssign, WaitResult
<1>5. OwnAt(p)
  BY <1>2, <1>4 DEF OwnInv
<1>6. CASE on[t] # p
  <2>1. proc'[p] = proc[p] /\ state'[p] = state[p] /\ watch'[p] = watch[p]
    BY <1>1, <1>2, <1>6 DEF Wait, WaitCall, WaitCheck, WaitReap, WaitAssign, WaitResult
  <2>2. /\ t = "main" => pc'["reader"] = pc["reader"] /\ reaper'["reader"] = reaper["reader"]
        /\ t = "reader" => on["reader"] # p
    BY <1>1, <1>6
       DEF Wait, WaitCall, WaitCheck, WaitReap, WaitAssign, WaitResult, Step, Goto
  <2>3. QED BY <1>1, <1>2, <1>3, <1>5, <2>1, <2>2 DEF OwnAt
<1>7. CASE on[t] = p
  <2>1. t = "reader"
    BY <1>1, <1>2, <1>3, <1>7
  <2>2. CASE WaitCheck("reader", "sleep")
    BY <1>1, <1>2, <1>5, <1>7, <2>1, <2>2 DEF WaitCheck, Step, Goto, OwnAt, Waiting
  <2>3. CASE WaitReap("reader")
    BY <1>1, <1>2, <1>5, <1>7, <2>1, <2>3 DEF WaitReap, Step, Goto, OwnAt, Waiting
  <2>4. CASE WaitAssign("reader")
    BY <1>1, <1>2, <1>5, <1>7, <2>1, <2>4 DEF WaitAssign, Step, Goto, OwnAt, Waiting
  <2>5. CASE WaitResult("reader", "sleep")
    BY <1>1, <1>2, <1>5, <1>7, <2>1, <2>5 DEF WaitResult, Step, Goto, OwnAt, Waiting
  <2>6. QED BY <2>1, <2>2, <2>3, <2>4, <2>5 DEF Wait, WaitCall, AfterWait
<1>8. QED BY <1>6, <1>7

LEMMA ReaderKeepsOwn ==
  ASSUME PwInv, OwnInv, Reader, NEW p \in Cmd, on'["main"] # p, proc'[p] # "unborn"
  PROVE  OwnAt(p)'
<1>1. /\ proc \in [Cmd -> {"unborn", "running", "exited", "reaped"}] /\ watch \in [Cmd -> BOOLEAN]
      /\ {"reader", "main", "broadcast"} = Thread /\ cmd \in Cmd
      /\ on \in [Thread -> Cmd \cup {0}]
      /\ pc \in [Thread -> Place]
  BY DEF PwInv, TypeOK, Thread, Place
<1>2. /\ UNCHANGED <<reaper, state>> /\ on'["main"] = on["main"]
      /\ pc["reader"] \notin Waiting /\ pc'["reader"] \notin {"reap", "assign state", "result"}
  BY <1>1
     DEF Reader, ReadChunk, Push, DropOldest, PushAgain, ReadNil, ReadError, Reconnect,
         Recheck, MakeCmd, MakePipe, PipeFails, StartChecks, Start, StartFails, Return, Move, Step, Goto,
         Top, procVars, Waiting
<1>3. CASE Start /\ p = cmd
  <2>1. proc'[p] = "running" /\ watch'[p]
    BY <1>1, <1>3 DEF Start
  <2>2. QED BY <1>2, <2>1 DEF OwnAt
<1>4. CASE ~(Start /\ p = cmd)
  <2>1. /\ watch'[p] = watch[p]
        /\ proc'[p] = proc[p] \/ (proc[p] = "running" /\ proc'[p] = "exited")
    BY <1>1, <1>4
       DEF Reader, ReadChunk, Push, DropOldest, PushAgain, ReadNil, ReadError, Reconnect,
           Recheck, MakeCmd, MakePipe, PipeFails, StartChecks, Start, StartFails, Return, Kill, procVars
  <2>2. OwnAt(p)
    BY <1>2, <2>1 DEF OwnInv
  <2>3. QED BY <1>2, <2>1, <2>2 DEF OwnAt, Waiting
<1>5. QED BY <1>3, <1>4

LEMMA OthersKeepOwn ==
  ASSUME PwInv, PlaceInv, OwnInv,
         \/ Broadcast \/ RangeEnds \/ Main
         \/ \E p \in Cmd : Crash(p) \/ CtxKills(p),
         NEW p \in Cmd, on'["main"] # p, proc'[p] # "unborn"
  PROVE  OwnAt(p)'
<1>1. /\ {"reader", "main", "broadcast"} = Thread /\ cmd \in Cmd /\ 0 \notin Cmd
      /\ proc \in [Cmd -> {"unborn", "running", "exited", "reaped"}]
      /\ on \in [Thread -> Cmd \cup {0}] /\ pc \in [Thread -> Place]
  BY CmdFacts DEF PwInv, TypeOK, Thread, Place
<1>2. /\ UNCHANGED <<reaper, state, watch>>
      /\ pc'["reader"] = pc["reader"] /\ on'["reader"] = on["reader"]
      /\ on'["main"] # on["main"] => on["main"] = 0
  BY <1>1 DEF Broadcast, RangeEnds, Main, Cancel, CloseLooks, CloseKills, CloseWaits, JoinAll,
              Crash, CtxKills, Move, Step, Goto, procVars, PlaceInv
<1>3. proc'[p] = proc[p] \/ (proc[p] = "running" /\ proc'[p] = "exited")
  <2>1. UNCHANGED proc \/ \E q \in Cmd : Kill(q)
    BY <1>1 DEF Broadcast, RangeEnds, Main, Cancel, CloseLooks, CloseKills, CloseWaits, JoinAll,
                Crash, CtxKills, procVars
  <2>2. QED BY <1>1, <2>1 DEF Kill
<1>4. OwnAt(p)
  BY <1>1, <1>2, <1>3 DEF OwnInv
<1>5. QED BY <1>2, <1>3, <1>4 DEF OwnAt

LEMMA OwnInvHolds == Spec => []OwnInv
<1>1. Init => OwnInv
  <2> SUFFICES ASSUME Init, NEW p \in Cmd, proc[p] # "unborn" PROVE OwnAt(p)
    BY DEF OwnInv
  <2>1. proc[p] = "running" /\ watch[p] /\ pc["reader"] = "read"
    BY DEF Init, Thread
  <2>2. QED BY <2>1 DEF OwnAt
<1>2. PwInv /\ PlaceInv /\ OwnInv /\ [Next]_vars => OwnInv'
  <2> SUFFICES ASSUME PwInv, PlaceInv, OwnInv, [Next]_vars PROVE OwnInv'
    OBVIOUS
  <2>1. CASE UNCHANGED vars
    BY <2>1 DEF vars, procVars, OwnInv, OwnAt
  <2>2. CASE Next
    BY <2>2, WaitKeepsOwn, ReaderKeepsOwn, OthersKeepOwn DEF Next, OwnInv
  <2>3. QED BY <2>1, <2>2
<1>3. QED BY <1>1, <1>2, PwInvHolds, PlaceInvHolds, PTL DEF Spec

(* A panic, of readLoop on a nil pipe or of Close on a command without a   *)
(* process, comes only after a pw-cat has ended by itself, and then only   *)
(* if a start failed or the server is being stopped.                       *)
PanicsForCause == Panicked => crashes > 0 /\ (fails > 0 \/ ctxDone)

(* Stopping a server whose pw-cat has not ended by itself never panics,    *)
(* and streaming on never does until a start fails.                        *)
THEOREM PanicsOnlyForCause == Spec => []PanicsForCause
<1>1. PwInv /\ PlaceInv /\ CalmInv => PanicsForCause
  <2> SUFFICES ASSUME PwInv, PlaceInv, CalmInv, Panicked PROVE crashes > 0 /\ (fails > 0 \/ ctxDone)
    BY DEF PanicsForCause
  <2>1. crashes \in Nat /\ cmd \in Cmd
    BY DEF PwInv, TypeOK
  <2>2. pc["reader"] = "panicked" \/ pc["main"] = "panicked"
    BY DEF Panicked, Thread, PlaceInv
  <2>3. crashes # 0
    BY <2>2 DEF CalmInv
  <2>4. fails > 0 \/ ctxDone
    BY <2>2 DEF PlaceInv, FailInv
  <2>5. QED BY <2>1, <2>3, <2>4
<1>2. QED BY <1>1, PwInvHolds, PlaceInvHolds, CalmInvHolds, PTL

(* If readLoop is held up in Wait, for a result that another received, it  *)
(* is Close that received it: main waited for the same command.            *)
ReaderStuckByClose ==
  pc["reader"] = "result" /\ ~watch[on["reader"]] => ctxDone /\ on["main"] = on["reader"]

(* While the server runs, a reconnect is never held up, however often      *)
(* pw-cat ends and starts fail: the deadlock needs Close.                  *)
THEOREM OnlyCloseHoldsUpTheReader == Spec => []ReaderStuckByClose
<1>1. PwInv /\ PlaceInv /\ OwnInv => ReaderStuckByClose
  <2> SUFFICES ASSUME PwInv, PlaceInv, OwnInv, pc["reader"] = "result", ~watch[on["reader"]]
               PROVE  ctxDone /\ on["main"] = on["reader"]
    BY DEF ReaderStuckByClose
  <2>1. on["reader"] \in Cmd /\ proc[on["reader"]] = "reaped"
    BY DEF PwInv, Waiting, Thread
  <2>2. on["main"] = on["reader"]
    BY <2>1 DEF OwnInv, OwnAt
  <2>3. ctxDone
    BY <2>1, <2>2, CmdFacts DEF PlaceInv
  <2>4. QED BY <2>2, <2>3
<1>2. QED BY <1>1, PwInvHolds, PlaceInvHolds, OwnInvHolds, PTL

(* Every variable keeps its type, and the channel its capacity.            *)
THEOREM AudioTypeCorrect == Spec => []TypeOK
<1>1. ChannelInv => TypeOK
  BY DEF ChannelInv
<1>2. QED BY <1>1, ChannelInvHolds, PTL

(* The channel holds the latest chunks, in order and without gaps, all of  *)
(* them newer than what was broadcast: drop-oldest as readLoop does it.    *)
THEOREM LatestIsKept == Spec => []LatestKept
<1>1. ChannelInv => LatestKept
  BY DEF ChannelInv
<1>2. QED BY <1>1, ChannelInvHolds, PTL

(* The send that follows a drop in readLoop always finds room.             *)
THEOREM ReaderNeverBlocks == Spec => []NeverBlocks
<1>1. ChannelInv => NeverBlocks
  BY DEF ChannelInv
<1>2. QED BY <1>1, ChannelInvHolds, PTL
=============================================================================

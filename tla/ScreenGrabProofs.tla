-------------------------- MODULE ScreenGrabProofs --------------------------
(***************************************************************************)
(* That the capturer never has two capture processes, that it supervises   *)
(* them as the abstract supervisor does, composed with the server or not,  *)
(* and that only a Restart or a Close holds up the capture loop, for any   *)
(* number of joining clients, crashes and respawns.                        *)
(***************************************************************************)
EXTENDS Shutdown, TLAPS

(* TypeOK is inductive once c.cmd is tied to the capture loop's place and  *)
(* every goroutine in Wait has a started command; OneProcess is, once the  *)
(* loop is known to fork only after its own Wait on the current command    *)
(* has seen that command reaped, by itself or by somebody else.            *)
GrabInv ==
  /\ TypeOK
  /\ IF pc["grab"] = "assign cmd" THEN forked = cmd + 1 ELSE forked = cmd
  /\ pc["grab"] \in Waiting => on["grab"] = cmd
  /\ pc["grab"] \in {"recheck", "fork", "exec", "assign cmd"} => proc[cmd] = "reaped"
  /\ \A t \in Thread : pc[t] \in Waiting => on[t] \in Cmd
  /\ \A t \in Thread : pc[t] \in {"assign state", "result"} => proc[on[t]] = "reaped"
  /\ \A p \in Cmd : state[p] => proc[p] = "reaped"
  /\ \A p \in Cmd : p > forked => proc[p] = "unborn"
  /\ OneProcess

LEMMA WaitKeeps ==
  ASSUME GrabInv, NEW t \in Thread, Wait(t)
  PROVE  GrabInv'
<1>1. /\ t = "grab" => AfterWait(t) = "recheck"
      /\ t # "grab" => AfterWait(t) \in {"join all", "serve"}
  BY DEF AfterWait
<1>0. UNCHANGED <<cmd, forked, crashes, ctxDone>>
  BY DEF Wait
<1> USE <1>0 DEF GrabInv, TypeOK, OneProcess, Waiting, Step, Goto
<1>2. CASE WaitCheck(t, AfterWait(t))
  <2>1. on[t] \in Cmd /\ pc[t] = "wait" /\ "grab" \in Thread
    BY <1>2 DEF WaitCheck, Thread
  <2>2. CASE state[on[t]]
    BY <1>1, <1>2, <2>1, <2>2 DEF WaitCheck
  <2>3. CASE ~state[on[t]]
    BY <1>2, <2>1, <2>3 DEF WaitCheck
  <2>4. QED BY <2>2, <2>3
<1>3. CASE WaitReap(t)
  <2>1. on[t] \in Cmd /\ pc[t] = "reap" /\ "grab" \in Thread
    BY <1>3 DEF WaitReap, Thread
  <2>2. proc'[on[t]] = "reaped" /\ \A p \in Cmd : proc[p] = "reaped" => proc'[p] = "reaped"
    BY <1>3, <2>1 DEF WaitReap
  <2>3. \A p \in Cmd : p > forked => proc'[p] = "unborn"
    BY <1>3, <2>1 DEF WaitReap
  <2>4. TypeOK'
    BY <1>3, <2>1 DEF WaitReap
  <2>5. OneProcess' /\ \A p \in Cmd : state'[p] => proc'[p] = "reaped"
    BY <1>3, <2>2 DEF WaitReap
  <2>6. pc["grab"] \in {"recheck", "fork", "exec", "assign cmd"} => proc'[cmd] = "reaped"
    BY <2>2
  <2>7. \A u \in Thread : pc'[u] \in {"assign state", "result"} => proc'[on[u]] = "reaped"
    BY <1>3, <2>1, <2>2 DEF WaitReap
  <2>8. /\ IF pc'["grab"] = "assign cmd" THEN forked = cmd + 1 ELSE forked = cmd
        /\ pc'["grab"] \in Waiting => on["grab"] = cmd
        /\ pc'["grab"] \in {"recheck", "fork", "exec", "assign cmd"} =>
             pc["grab"] \in {"recheck", "fork", "exec", "assign cmd"}
        /\ \A u \in Thread : pc'[u] \in Waiting => on[u] \in Cmd
    BY <1>3, <2>1 DEF WaitReap
  <2>9. UNCHANGED on
    BY <1>3 DEF WaitReap
  <2>10. QED BY <2>3, <2>4, <2>5, <2>6, <2>7, <2>8, <2>9
<1>4. CASE WaitAssign(t)
  <2>1. on[t] \in Cmd /\ pc[t] = "assign state" /\ "grab" \in Thread /\ proc[on[t]] = "reaped"
    BY <1>4 DEF WaitAssign, Thread
  <2>2. \A p \in Cmd : state'[p] => proc[p] = "reaped"
    BY <1>4, <2>1 DEF WaitAssign
  <2>3. QED BY <1>4, <2>1, <2>2 DEF WaitAssign
<1>5. CASE WaitResult(t, AfterWait(t))
  <2>1. on[t] \in Cmd /\ pc[t] = "result" /\ "grab" \in Thread /\ proc[on[t]] = "reaped"
    BY <1>5 DEF WaitResult, Thread
  <2>2. QED BY <1>1, <1>5, <2>1 DEF WaitResult
<1>6. QED BY <1>2, <1>3, <1>4, <1>5 DEF Wait, WaitCall

LEMMA CmdIsNat == Cmd \subseteq Nat
<1>1. MaxCmds \in Nat
  BY BoundsAssumption
<1>2. QED BY <1>1 DEF Cmd

(* The one step that starts a process: the loop's own Wait has seen the    *)
(* current one reaped, and the next command has never been started.        *)
LEMMA ForkKeeps ==
  ASSUME GrabInv, Fork
  PROVE  GrabInv'
<1>1. /\ pc["grab"] = "exec" /\ "grab" \in Thread
      /\ pc' = [pc EXCEPT !["grab"] = "assign cmd"]
      /\ forked' = forked + 1 /\ forked + 1 \in Cmd
      /\ proc' = [proc EXCEPT ![forked + 1] = "running"]
      /\ watch' = [watch EXCEPT ![forked + 1] = TRUE]
      /\ UNCHANGED <<on, reaper, state, cmd, crashes, ctxDone>>
  BY DEF Fork, Step, Goto, Thread
<1>2. TypeOK /\ forked = cmd /\ proc[cmd] = "reaped"
  BY <1>1 DEF GrabInv
<1>3. Cmd \subseteq Nat /\ cmd \in Cmd
  BY <1>2, CmdIsNat DEF TypeOK
<1>4. proc[forked + 1] = "unborn"
  <2>1. forked + 1 > forked
    BY <1>2, <1>3
  <2>2. QED BY <1>1, <2>1 DEF GrabInv
<1>5. \A p \in Cmd : p # forked + 1 => proc'[p] = proc[p]
  BY <1>1, <1>2 DEF TypeOK
<1>6. \A p \in Cmd : proc[p] = "reaped" => proc'[p] = "reaped"
  BY <1>4, <1>5
<1>7. OneProcess'
  <2>1. ASSUME NEW p \in Cmd, p < forked' PROVE p = forked \/ p < forked
    <3>1. forked' = forked + 1 /\ forked \in Nat /\ p \in Nat
      BY <1>1, <1>2, <1>3
    <3>2. QED BY <2>1, <3>1
  <2>2. ASSUME NEW p \in Cmd, p < forked' PROVE proc[p] = "reaped"
    BY <1>2, <2>1, <2>2 DEF GrabInv, OneProcess
  <2>3. QED BY <1>6, <2>2 DEF OneProcess
<1>8. \A p \in Cmd : p > forked' => proc'[p] = "unborn"
  <2>1. ASSUME NEW p \in Cmd, p > forked' PROVE p > forked /\ p # forked + 1
    <3>1. forked' = forked + 1 /\ forked \in Nat /\ p \in Nat
      BY <1>1, <1>2, <1>3
    <3>2. QED BY <2>1, <3>1
  <2>2. QED BY <1>5, <2>1 DEF GrabInv
<1>9. TypeOK'
  BY <1>1, <1>2 DEF TypeOK
<1>10. \A t \in Thread : pc'[t] \in Waiting => pc[t] \in Waiting /\ pc'[t] = pc[t]
  BY <1>1, <1>2 DEF TypeOK, Waiting
<1>11. /\ \A t \in Thread : pc'[t] \in Waiting => on'[t] \in Cmd
       /\ \A t \in Thread : pc'[t] \in {"assign state", "result"} => proc'[on'[t]] = "reaped"
  BY <1>1, <1>6, <1>10 DEF GrabInv, Waiting
<1>12. \A p \in Cmd : state'[p] => proc'[p] = "reaped"
  BY <1>1, <1>6 DEF GrabInv
<1>13. pc'["grab"] = "assign cmd" /\ proc'[cmd'] = "reaped" /\ forked' = cmd' + 1
  BY <1>1, <1>2, <1>3, <1>6 DEF TypeOK
<1>14. QED
  BY <1>7, <1>8, <1>9, <1>11, <1>12, <1>13 DEF GrabInv, Waiting

LEMMA GrabKeeps ==
  ASSUME GrabInv, Grab
  PROVE  GrabInv'
<1> USE DEF GrabInv, TypeOK, OneProcess, Waiting, Step, Goto, Thread, Cmd
<1>1. CASE ReadFrame
  BY <1>1 DEF ReadFrame
<1>2. CASE ReadError
  BY <1>2 DEF ReadError
<1>3. CASE Recheck
  BY <1>3 DEF Recheck
<1>4. CASE StartChecks
  BY <1>4 DEF StartChecks
<1>5. CASE Fork
  BY <1>5, ForkKeeps
<1>6. CASE ForkFails
  <2>1. /\ pc["grab"] \in {"fork", "exec"} /\ pc' = [pc EXCEPT !["grab"] = IF ctxDone THEN "done" ELSE "read"]
        /\ UNCHANGED <<on, reaper, proc, state, watch, cmd, forked, crashes, ctxDone>>
    BY <1>6 DEF ForkFails
  <2>2. TypeOK'
    BY <2>1
  <2>3. QED BY <2>1, <2>2
<1>7. CASE AssignCmd
  BY <1>7 DEF AssignCmd
<1>8. QED BY <1>1, <1>2, <1>3, <1>4, <1>5, <1>6, <1>7 DEF Grab

LEMMA CrashBound == crashes \in 0..MaxCrashes /\ crashes < MaxCrashes => crashes + 1 \in 0..MaxCrashes
<1>1. MaxCrashes \in Nat
  BY BoundsAssumption
<1>2. QED BY <1>1

LEMMA OthersKeep ==
  ASSUME GrabInv,
         \/ \E h \in Joiner : Restart(h)
         \/ Main
         \/ \E p \in Cmd : Crash(p) \/ CtxKills(p)
  PROVE  GrabInv'
<1> USE BoundsAssumption
    DEF GrabInv, TypeOK, OneProcess, Waiting, Step, Goto, Thread, Kill
<1>1. ASSUME NEW h \in Joiner, RestartKills(h) PROVE GrabInv'
  BY <1>1 DEF RestartKills
<1>2. ASSUME NEW h \in Joiner, RestartWaits(h) PROVE GrabInv'
  BY <1>2 DEF RestartWaits
<1>3. CASE Cancel
  BY <1>3 DEF Cancel
<1>4. CASE Close
  BY <1>4 DEF Close
<1>5. CASE JoinAll
  BY <1>5 DEF JoinAll
<1>6. ASSUME NEW p \in Cmd, Crash(p) PROVE GrabInv'
  <2>1. crashes' \in 0..MaxCrashes
    BY <1>6, CrashBound DEF Crash
  <2>2. QED BY <1>6, <2>1 DEF Crash
<1>7. ASSUME NEW p \in Cmd, CtxKills(p) PROVE GrabInv'
  BY <1>7 DEF CtxKills
<1>8. QED
  BY <1>1, <1>2, <1>3, <1>4, <1>5, <1>6, <1>7 DEF Restart, Main

LEMMA GrabInvHolds == Spec => []GrabInv
<1>1. Init => GrabInv
  <2> SUFFICES ASSUME Init PROVE GrabInv
    OBVIOUS
  <2>1. /\ pc["grab"] = "read" /\ 1 \in Cmd /\ Cmd \subseteq Nat
        /\ \A t \in Thread : pc[t] \in {"read", "serve", "join"}
    <3>1. \A t \in Thread :
            pc[t] = CASE t = "grab" -> "read" [] t = "main" -> "serve" [] OTHER -> "join"
      BY DEF Init
    <3>2. "grab" \in Thread
      BY DEF Thread
    <3>3. 1 \in Cmd /\ Cmd \subseteq Nat
      BY BoundsAssumption DEF Cmd
    <3>4. ASSUME NEW t \in Thread PROVE pc[t] \in {"read", "serve", "join"}
      BY <3>1
    <3>5. QED BY <3>1, <3>2, <3>3, <3>4
  <2>2. TypeOK
    <3>1. pc \in [Thread -> {"read", "serve", "join"}]
      BY <2>1 DEF Init
    <3>2. 0 \in 0..MaxCrashes
      BY BoundsAssumption
    <3>3. QED BY <2>1, <3>1, <3>2 DEF Init, TypeOK
  <2>3. /\ forked = 1 /\ cmd = 1
        /\ \A p \in Cmd : ~state[p] /\ (p > 1 => proc[p] = "unborn") /\ ~(p < 1)
    BY <2>1, BoundsAssumption DEF Init, Cmd
  <2>4. QED BY <2>1, <2>2, <2>3 DEF GrabInv, OneProcess, Waiting
<1>2. GrabInv /\ [Next]_vars => GrabInv'
  <2>1. CASE UNCHANGED vars
    BY <2>1 DEF vars, GrabInv, TypeOK, OneProcess
  <2>2. QED BY <2>1, WaitKeeps, GrabKeeps, OthersKeep DEF Next
<1>3. QED BY <1>1, <1>2, PTL DEF Spec

(* Every variable of the capturer keeps its type; in particular c.cmd is   *)
(* the newest command or the one before it.                                *)
THEOREM ScreenTypeCorrect == Spec => []TypeOK
<1>1. GrabInv => TypeOK
  BY DEF GrabInv
<1>2. QED BY <1>1, GrabInvHolds, PTL

(* Every capture process but the newest is dead and reaped, whatever the   *)
(* handlers' Restarts and main's Close do meanwhile.                       *)
THEOREM OneProcessAtATime == Spec => []OneProcess
<1>1. GrabInv => OneProcess
  BY DEF GrabInv
<1>2. QED BY <1>1, GrabInvHolds, PTL

(* The places of a goroutine: the codomain of pc in TypeOK. *)
Place == {"read", "recheck", "fork", "exec", "assign cmd", "done", "join", "killed", "serve", "close",
          "join all", "stopped", "wait", "reap", "assign state", "result"}

(* The steps of SupervisedProcess under the mapping: whoever kills or      *)
(* reaps, it is the newest process that ends; no step but the loop's own   *)
(* bears on a start under way.                                             *)
LEMMA NewestLives ==
  ASSUME GrabInv, NEW p \in Cmd, proc[p] \in {"running", "exited"}
  PROVE  p = forked
<1>1. p \in Nat /\ forked \in Nat /\ ~(p < forked) /\ ~(p > forked)
  BY CmdIsNat DEF GrabInv, TypeOK, OneProcess
<1>2. QED BY <1>1

LEMMA KillIsEnd ==
  ASSUME GrabInv, NEW p \in Cmd, Kill(p), UNCHANGED <<forked, ctxDone>>, pc'["grab"] = pc["grab"]
  PROVE  [Super!Next]_Super!vars
<1>1. proc \in [Cmd -> {"unborn", "running", "exited", "reaped"}]
  BY DEF GrabInv, TypeOK
<1>2. CASE proc[p] = "running"
  BY <1>1, <1>2, NewestLives DEF Kill, Super!Next, Super!End, Super!Become
<1>3. CASE proc[p] # "running"
  BY <1>1, <1>3 DEF Kill, Super!vars
<1>4. QED BY <1>2, <1>3

LEMMA WaitIsReap ==
  ASSUME GrabInv, NEW t \in Thread, Wait(t)
  PROVE  [Super!Next]_Super!vars
<1>1. UNCHANGED <<forked, ctxDone>> /\ UNCHANGED (pc["grab"] = "exec")
  <2>1. \E to \in Waiting \cup {AfterWait(t)} : pc[t] \in Waiting /\ pc' = [pc EXCEPT ![t] = to]
    BY DEF Wait, WaitCall, WaitCheck, WaitReap, WaitAssign, WaitResult, Step, Goto, Waiting
  <2>2. pc \in [Thread -> Place]
    BY DEF GrabInv, TypeOK, Place
  <2>3. CASE t = "grab"
    <3>1. "exec" \notin Waiting \cup {AfterWait(t)}
      BY <2>3 DEF AfterWait, Waiting
    <3>2. pc["grab"] # "exec" /\ pc'["grab"] # "exec"
      BY <2>1, <2>2, <2>3, <3>1
    <3>3. QED BY <3>2 DEF Wait
  <2>4. CASE t # "grab"
    <3>1. pc'["grab"] = pc["grab"]
      BY <2>1, <2>2, <2>4 DEF Thread
    <3>2. QED BY <3>1 DEF Wait
  <2>5. QED BY <2>3, <2>4
<1>2. CASE UNCHANGED proc
  BY <1>1, <1>2 DEF Super!vars
<1>3. CASE WaitReap(t)
  <2>1. /\ on[t] \in Cmd /\ proc[on[t]] \in {"exited", "reaped"}
        /\ proc' = [proc EXCEPT ![on[t]] = "reaped"]
    BY <1>3 DEF WaitReap, Step, GrabInv, Waiting
  <2>2. CASE proc[on[t]] = "exited"
    BY <1>1, <2>1, <2>2, NewestLives DEF Super!Next, Super!Reap, Super!Become
  <2>3. CASE proc[on[t]] = "reaped"
    BY <1>1, <2>1, <2>3 DEF GrabInv, TypeOK, Super!vars
  <2>4. QED BY <2>1, <2>2, <2>3
<1>4. QED BY <1>2, <1>3 DEF Wait, WaitCall, WaitCheck, WaitAssign, WaitResult

(* A fork is a replacement begun at once: its own look at the context has  *)
(* cleared it.                                                             *)
LEMMA ForkIsReplace ==
  ASSUME GrabInv, Fork
  PROVE  Super!Next
<1>1. /\ pc["grab"] = "exec" /\ pc'["grab"] = "assign cmd"
      /\ forked + 1 \in Cmd /\ UNCHANGED ctxDone
  BY DEF Fork, Step, Goto, GrabInv, TypeOK, Thread
<1>2. forked = cmd /\ proc[forked] = "reaped"
  BY <1>1 DEF GrabInv
<1>3. proc[forked + 1] = "unborn"
  <2>1. forked \in Nat
    BY CmdIsNat DEF GrabInv, TypeOK
  <2>2. forked + 1 > forked
    BY <2>1
  <2>3. QED BY <1>1, <2>2 DEF GrabInv
<1>4. forked' = forked + 1 /\ proc' = [proc EXCEPT ![forked + 1] = "running"]
  BY DEF Fork
<1>5. Super!Replace
  BY <1>1, <1>2, <1>3, <1>4 DEF Super!Replace, Super!Birth, Super!Become
<1>6. QED BY <1>5 DEF Super!Next

(* The look at the context clears the start, a failure abandons it.        *)
LEMMA GrabIsSupervised ==
  ASSUME GrabInv, Grab
  PROVE  [Super!Next]_Super!vars
<1>1. pc \in [Thread -> Place] /\ ctxDone \in BOOLEAN /\ "grab" \in Thread
  BY DEF GrabInv, TypeOK, Place, Thread
<1>2. CASE Fork
  BY <1>2, ForkIsReplace
<1>3. CASE StartChecks
  <2>1. /\ pc["grab"] = "fork" /\ pc'["grab"] = "exec" /\ ~ctxDone
        /\ UNCHANGED <<forked, proc, ctxDone>>
    BY <1>1, <1>3 DEF StartChecks, Step, Goto
  <2>2. QED BY <2>1 DEF Super!Next, Super!Clear
<1>4. CASE ForkFails
  <2>1. pc'["grab"] # "exec" /\ UNCHANGED <<forked, proc, ctxDone>>
    BY <1>1, <1>4 DEF ForkFails, Step, Goto
  <2>2. CASE pc["grab"] = "exec"
    BY <2>1, <2>2 DEF Super!Next, Super!Abandon
  <2>3. CASE pc["grab"] # "exec"
    BY <2>1, <2>3 DEF Super!vars
  <2>4. QED BY <2>2, <2>3
<1>5. CASE ReadFrame \/ ReadError \/ Recheck \/ AssignCmd
  <2>1. /\ pc["grab"] # "exec" /\ pc'["grab"] # "exec"
        /\ UNCHANGED <<forked, proc, ctxDone>>
    BY <1>1, <1>5 DEF ReadFrame, ReadError, Recheck, AssignCmd, Step, Goto
  <2>2. QED BY <2>1 DEF Super!vars
<1>6. QED BY <1>2, <1>3, <1>4, <1>5 DEF Grab

(* The capturer implements SupervisedProcess: capture processes succeed    *)
(* each other, each forked when the last is dead and reaped, and after a   *)
(* cancel only one whose cmd.Start had looked at the context before it,    *)
(* for any number of joining clients, crashes and respawns.                *)
THEOREM GrabImplementsSupervised == Spec => ImplementsSupervised
<1>1. Init => Super!Init
  <2> SUFFICES ASSUME Init PROVE Super!Init
    OBVIOUS
  <2>1. pc["grab"] = "read"
    BY DEF Init, Thread
  <2>2. QED BY <2>1 DEF Init, Super!Init
<1>2. GrabInv /\ [Next]_vars => [Super!Next]_Super!vars
  <2> SUFFICES ASSUME GrabInv, [Next]_vars PROVE [Super!Next]_Super!vars
    OBVIOUS
  <2>1. CASE UNCHANGED vars
    BY <2>1 DEF vars, Super!vars
  <2>0. /\ pc \in [Thread -> Place] /\ ctxDone \in BOOLEAN /\ "grab" \in Thread
        /\ "grab" \notin Joiner /\ Joiner \subseteq Thread
    BY BoundsAssumption DEF GrabInv, TypeOK, Place, Thread
  <2>2. CASE Grab
    BY <2>2, GrabIsSupervised
  <2>3. CASE Main
    <3>1. pc'["grab"] = pc["grab"]
      BY <2>0, <2>3 DEF Main, Cancel, Close, JoinAll, Step, Goto
    <3>2. \/ UNCHANGED <<forked, proc, ctxDone>>
          \/ ctxDone' = TRUE /\ UNCHANGED <<forked, proc>>
      BY <2>3 DEF Main, Cancel, Close, JoinAll
    <3>3. QED BY <2>0, <3>1, <3>2 DEF Super!vars, Super!Next, Super!Stop
  <2>4. ASSUME NEW h \in Joiner, Restart(h) PROVE [Super!Next]_Super!vars
    <3>1. CASE RestartKills(h)
      <4>1. cmd \in Cmd /\ Kill(cmd) /\ UNCHANGED <<forked, ctxDone>> /\ pc'["grab"] = pc["grab"]
        BY <2>0, <3>1 DEF RestartKills, GrabInv, TypeOK, Step, Goto
      <4>2. QED BY <4>1, KillIsEnd
    <3>2. CASE RestartWaits(h)
      <4>1. pc'["grab"] = pc["grab"]
        BY <2>0, <3>2 DEF RestartWaits, Step, Goto
      <4>2. QED BY <3>2, <4>1 DEF RestartWaits, Super!vars
    <3>3. QED BY <2>4, <3>1, <3>2 DEF Restart
  <2>5. ASSUME NEW p \in Cmd, Crash(p) \/ CtxKills(p) PROVE [Super!Next]_Super!vars
    BY <2>5, KillIsEnd DEF Crash, CtxKills
  <2>6. QED BY <2>1, <2>2, <2>3, <2>4, <2>5, WaitIsReap DEF Next
<1>3. QED BY <1>1, <1>2, GrabInvHolds, PTL DEF Spec, ImplementsSupervised, Super!Spec

-----------------------------------------------------------------------------
(* Who can hold up the capture loop                                        *)

Alone(p) == \A u \in Thread \ {"grab"} : on[u] # p

(* What the loop alone has done to command p: it reaps before it assigns   *)
(* the state, and receives the result only once the state is set.          *)
SoloAt(p) ==
  /\ ~watch[p] => state[p]
  /\ proc[p] = "reaped" /\ ~state[p] =>
       on["grab"] = p /\ pc["grab"] = "assign state" /\ reaper["grab"]
  /\ on["grab"] = p =>
       /\ pc["grab"] \in {"reap", "assign state", "result"} => watch[p]
       /\ pc["grab"] = "reap" => ~state[p]
       /\ pc["grab"] = "assign state" => reaper["grab"]
       /\ pc["grab"] = "result" => state[p]

(* Handlers and main wait for one command each, in their lives.            *)
OnceInv ==
  /\ \A h \in Joiner : pc[h] \in {"join", "killed"} => on[h] = 0
  /\ pc["main"] \in {"serve", "close"} => on["main"] = 0

SoloInv == OnceInv /\ \A p \in Cmd : p <= forked /\ Alone(p) => SoloAt(p)

LEMMA ThreadFacts ==
  /\ "grab" \in Thread /\ "main" \in Thread /\ Joiner \subseteq Thread
  /\ "grab" \notin Joiner /\ "main" \notin Joiner
BY BoundsAssumption DEF Thread

LEMMA NoCmdIsZero == 0 \notin Cmd
<1>1. MaxCmds \in Nat
  BY BoundsAssumption
<1>2. QED BY <1>1 DEF Cmd

LEMMA WaitKeepsOnce ==
  ASSUME GrabInv, OnceInv, NEW t \in Thread, Wait(t)
  PROVE  OnceInv'
<1>1. /\ pc \in [Thread -> Place] /\ UNCHANGED on /\ pc[t] \in Waiting
      /\ \E to \in Waiting \cup {AfterWait(t)} : pc' = [pc EXCEPT ![t] = to]
  BY DEF Wait, WaitCall, WaitCheck, WaitReap, WaitAssign, WaitResult, Step, Goto, Waiting,
         GrabInv, TypeOK, Place
<1>2. \A h \in Joiner : pc'[h] \in {"join", "killed"} => pc'[h] = pc[h]
  BY <1>1, ThreadFacts DEF AfterWait, Waiting
<1>3. pc'["main"] \in {"serve", "close"} => pc'["main"] = pc["main"]
  BY <1>1, ThreadFacts DEF AfterWait, Waiting
<1>4. QED BY <1>1, <1>2, <1>3 DEF OnceInv

(* A caller that waits for another command does nothing to this one.       *)
LEMMA WaitKeepsSolo ==
  ASSUME GrabInv, SoloInv, NEW t \in Thread, Wait(t), NEW p \in Cmd, p <= forked, Alone(p)
  PROVE  SoloAt(p)'
<1>1. SoloAt(p) /\ UNCHANGED <<on, forked>>
  BY DEF SoloInv, Wait, WaitCall, WaitCheck, WaitReap, WaitAssign, WaitResult
<1>2. /\ proc \in [Cmd -> {"unborn", "running", "exited", "reaped"}] /\ state \in [Cmd -> BOOLEAN]
      /\ watch \in [Cmd -> BOOLEAN] /\ reaper \in [Thread -> BOOLEAN] /\ pc \in [Thread -> Place]
  BY DEF GrabInv, TypeOK, Place
<1>3. pc[t] \in Waiting /\ on[t] \in Cmd
  BY DEF Wait, WaitCall, WaitCheck, WaitReap, WaitAssign, WaitResult, Step, Waiting, GrabInv
<1>4. CASE on[t] # p
  <2>1. proc'[p] = proc[p] /\ state'[p] = state[p] /\ watch'[p] = watch[p]
    BY <1>2, <1>4 DEF Wait, WaitCall, WaitCheck, WaitReap, WaitAssign, WaitResult
  <2>2. /\ t # "grab" => pc'["grab"] = pc["grab"] /\ reaper'["grab"] = reaper["grab"]
        /\ t = "grab" => on["grab"] # p
    BY <1>2, <1>4, ThreadFacts
       DEF Wait, WaitCall, WaitCheck, WaitReap, WaitAssign, WaitResult, Step, Goto
  <2>3. QED BY <1>1, <2>1, <2>2 DEF SoloAt
<1>5. CASE on[t] = p
  <2>1. t = "grab"
    BY <1>5 DEF Alone
  <2>2. CASE WaitCheck("grab", "recheck")
    BY <1>1, <1>2, <1>5, <2>1, <2>2, ThreadFacts DEF WaitCheck, Step, Goto, SoloAt
  <2>3. CASE WaitReap("grab")
    BY <1>1, <1>2, <1>5, <2>1, <2>3, ThreadFacts DEF WaitReap, Step, Goto, SoloAt
  <2>4. CASE WaitAssign("grab")
    BY <1>1, <1>2, <1>5, <2>1, <2>4, ThreadFacts DEF WaitAssign, Step, Goto, SoloAt
  <2>5. CASE WaitResult("grab", "recheck")
    BY <1>1, <1>2, <1>5, <2>1, <2>5, ThreadFacts DEF WaitResult, Step, Goto, SoloAt
  <2>6. QED BY <2>1, <2>2, <2>3, <2>4, <2>5 DEF Wait, WaitCall, AfterWait
<1>6. QED BY <1>4, <1>5

LEMMA GrabKeepsSolo ==
  ASSUME GrabInv, SoloInv, Grab
  PROVE  SoloInv'
<1>1. /\ pc \in [Thread -> Place] /\ on \in [Thread -> Cmd \cup {0}]
      /\ proc \in [Cmd -> {"unborn", "running", "exited", "reaped"}] /\ watch \in [Cmd -> BOOLEAN]
  BY DEF GrabInv, TypeOK, Place
<1>2. /\ UNCHANGED <<reaper, state>> /\ pc'["grab"] \notin {"reap", "assign state", "result"}
      /\ pc["grab"] \notin Waiting
      /\ \A u \in Thread \ {"grab"} : pc'[u] = pc[u] /\ on'[u] = on[u]
  BY <1>1, ThreadFacts
     DEF Grab, ReadFrame, ReadError, Recheck, StartChecks, Fork, ForkFails, AssignCmd, Step, Goto, Waiting
<1>3. OnceInv'
  BY <1>2, ThreadFacts DEF OnceInv, SoloInv
<1>4. ASSUME NEW p \in Cmd, p <= forked', Alone(p)' PROVE SoloAt(p)'
  <2>1. Alone(p)
    BY <1>2, <1>4 DEF Alone
  <2>2. CASE Fork /\ p = forked + 1
    <3>1. proc'[p] = "running" /\ watch'[p]
      BY <1>1, <2>2 DEF Fork
    <3>2. QED BY <1>2, <3>1 DEF SoloAt
  <2>3. CASE ~(Fork /\ p = forked + 1)
    <3>1. p <= forked /\ proc'[p] = proc[p] /\ watch'[p] = watch[p]
      <4>1. CASE Fork
        <5>1. forked' = forked + 1 /\ p # forked + 1 /\ p \in Nat /\ forked \in Nat
          BY <2>3, <4>1, CmdIsNat DEF Fork, GrabInv, TypeOK
        <5>2. p <= forked
          BY <1>4, <5>1
        <5>3. QED BY <1>1, <4>1, <5>1, <5>2 DEF Fork
      <4>2. CASE ~Fork
        BY <1>4, <4>2 DEF Grab, ReadFrame, ReadError, Recheck, StartChecks, ForkFails, AssignCmd
      <4>3. QED BY <4>1, <4>2
    <3>2. SoloAt(p)
      BY <2>1, <3>1 DEF SoloInv
    <3>3. QED BY <1>2, <3>1, <3>2 DEF SoloAt, Waiting
  <2>4. QED BY <2>2, <2>3
<1>5. QED BY <1>3, <1>4 DEF SoloInv

LEMMA OthersKeepSolo ==
  ASSUME GrabInv, SoloInv,
         \/ \E h \in Joiner : Restart(h)
         \/ Main
         \/ \E p \in Cmd : Crash(p) \/ CtxKills(p)
  PROVE  SoloInv'
<1>1. /\ pc \in [Thread -> Place] /\ on \in [Thread -> Cmd \cup {0}] /\ cmd \in Cmd
      /\ proc \in [Cmd -> {"unborn", "running", "exited", "reaped"}]
  BY DEF GrabInv, TypeOK, Place
<1> USE DEF Restart, RestartKills, RestartWaits, Main, Cancel, Close, JoinAll, Crash, CtxKills,
            Step, Goto
<1>2. /\ UNCHANGED <<reaper, state, watch, forked>>
      /\ pc'["grab"] = pc["grab"] /\ on'["grab"] = on["grab"]
  BY <1>1, ThreadFacts
<1>3. \A p \in Cmd : proc'[p] = "reaped" => proc[p] = "reaped"
  <2>1. UNCHANGED proc \/ \E p \in Cmd : Kill(p)
    BY <1>1
  <2>2. QED BY <1>1, <2>1 DEF Kill
<1>4. OnceInv'
  <2>1. \A h \in Joiner : pc'[h] \in {"join", "killed"} => pc[h] \in {"join", "killed"} /\ on'[h] = on[h]
    BY <1>1, ThreadFacts
  <2>2. pc'["main"] \in {"serve", "close"} => pc["main"] \in {"serve", "close"} /\ on'["main"] = on["main"]
    BY <1>1, ThreadFacts
  <2>3. QED BY <2>1, <2>2 DEF OnceInv, SoloInv
<1>5. ASSUME NEW p \in Cmd, p <= forked, Alone(p)' PROVE SoloAt(p)'
  <2>1. \A u \in Thread \ {"grab"} : on'[u] = on[u] \/ on[u] = 0
    BY <1>1, ThreadFacts DEF OnceInv, SoloInv, Thread
  <2>2. p # 0
    BY NoCmdIsZero
  <2>3. Alone(p)
    BY <1>5, <2>1, <2>2 DEF Alone
  <2>4. SoloAt(p)
    BY <1>5, <2>3 DEF SoloInv
  <2>5. QED BY <1>2, <1>3, <2>4 DEF SoloAt
<1> HIDE DEF Restart, RestartKills, RestartWaits, Main, Cancel, Close, JoinAll, Crash, CtxKills,
             Step, Goto
<1>6. QED BY <1>2, <1>4, <1>5 DEF SoloInv

LEMMA SoloInvHolds == Spec => []SoloInv
<1>1. Init => SoloInv
  <2> SUFFICES ASSUME Init PROVE SoloInv
    OBVIOUS
  <2>1. /\ \A t \in Thread : on[t] = 0
        /\ pc["grab"] = "read" /\ forked = 1
    BY ThreadFacts DEF Init
  <2>2. ASSUME NEW p \in Cmd, p <= forked PROVE SoloAt(p)
    <3>1. p = 1
      BY <2>1, <2>2 DEF Cmd
    <3>2. proc[p] = "running" /\ watch[p]
      BY <2>2, <3>1 DEF Init
    <3>3. QED BY <2>1, <3>2 DEF SoloAt
  <2>3. QED BY <2>1, <2>2, ThreadFacts DEF SoloInv, OnceInv
<1>2. GrabInv /\ SoloInv /\ [Next]_vars => SoloInv'
  <2> SUFFICES ASSUME GrabInv, SoloInv, [Next]_vars PROVE SoloInv'
    OBVIOUS
  <2>1. CASE UNCHANGED vars
    BY <2>1 DEF vars, SoloInv, OnceInv, SoloAt, Alone
  <2>2. ASSUME NEW t \in Thread, Wait(t) PROVE SoloInv'
    <3>1. OnceInv'
      BY <2>2, WaitKeepsOnce DEF SoloInv
    <3>2. UNCHANGED <<on, forked>>
      BY <2>2 DEF Wait, WaitCall, WaitCheck, WaitReap, WaitAssign, WaitResult
    <3>3. \A p \in Cmd : Alone(p)' => Alone(p)
      BY <3>2 DEF Alone
    <3>4. QED BY <2>2, <3>1, <3>2, <3>3, WaitKeepsSolo DEF SoloInv
  <2>3. QED BY <2>1, <2>2, GrabKeepsSolo, OthersKeepSolo DEF Next
<1>3. QED BY <1>1, <1>2, GrabInvHolds, PTL DEF Spec

(* If the capture loop is held up in Wait, for the result that another     *)
(* caller received, there is such a caller: the handler of a client that   *)
(* joined, in Restart, or main, in Close, waited for the same command.     *)
LoopStuckByOthers ==
  pc["grab"] = "result" /\ ~watch[on["grab"]] => ~Alone(on["grab"])

(* The loop's own respawning never holds it up, however often capture      *)
(* processes crash and forks fail: the deadlock needs a Restart or a Close.*)
THEOREM OnlyOthersHoldUpTheLoop == Spec => []LoopStuckByOthers
<1>1. GrabInv /\ SoloInv => LoopStuckByOthers
  <2> SUFFICES ASSUME GrabInv, SoloInv, pc["grab"] = "result", ~watch[on["grab"]], Alone(on["grab"])
               PROVE  FALSE
    BY DEF LoopStuckByOthers
  <2>1. on["grab"] = cmd /\ cmd \in Cmd /\ forked = cmd
    BY DEF GrabInv, TypeOK, Waiting
  <2>2. SoloAt(cmd)
    <3>1. cmd <= forked
      BY <2>1, CmdIsNat
    <3>2. QED BY <2>1, <3>1 DEF SoloInv
  <2>3. QED BY <2>1, <2>2 DEF SoloAt
<1>2. QED BY <1>1, GrabInvHolds, SoloInvHolds, PTL

(* The capturer keeps its specification when the server's start and end    *)
(* are composed with it: a listener that fails is a cancel, and the        *)
(* rest of Server.Start is no step of the capturer.  What is proved of *)
(* ScreenGrab therefore holds of the composition.                          *)
THEOREM ServerImplementsGrab == ServerSpec => Spec
<1>1. ServerInit => Init
  BY DEF ServerInit
<1>2. [ServerNext]_ServerVars => [Next]_vars
  <2> SUFFICES ASSUME [ServerNext]_ServerVars PROVE [Next]_vars
    OBVIOUS
  <2>1. CASE UNCHANGED ServerVars
    BY <2>1 DEF ServerVars
  <2>2. CASE Serve
    <3>1. Listen \/ ServeReturns => UNCHANGED vars
      BY DEF Listen, ServeReturns, Quiet
    <3>2. StartFails \/ ServeFails => UNCHANGED vars \/ Cancel
      BY DEF StartFails, ServeFails, Quiet
    <3>3. QED BY <2>2, <3>1, <3>2 DEF Serve, Next, Main
  <2>3. CASE Elsewhere
    BY <2>3 DEF Elsewhere, Next, Main, Restart
  <2>4. QED BY <2>1, <2>2, <2>3 DEF ServerNext
<1>3. QED BY <1>1, <1>2, PTL DEF ServerSpec, Spec

(* With the server around it, there is still one capture process at most.  *)
THEOREM OneProcessWithServer == ServerSpec => []OneProcess
BY ServerImplementsGrab, OneProcessAtATime, PTL

(* And the composition supervises its capture processes as the capturer    *)
(* alone does: a start that fails is one more way to stop.                 *)
THEOREM SupervisedWithServer == ServerSpec => ImplementsSupervised
BY ServerImplementsGrab, GrabImplementsSupervised, PTL
=============================================================================

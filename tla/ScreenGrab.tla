----------------------------- MODULE ScreenGrab -----------------------------
(***************************************************************************)
(* The screen capturer (internal/capture/x11grab.go) with the three kinds  *)
(* of goroutine that use it: the capture loop of main, which reads frames  *)
(* and respawns the capture process when reading fails; the handlers of    *)
(* joining clients, whose onNewClient callback calls Restart; and main,    *)
(* which cancels the context and calls Close.  They share c.cmd with no    *)
(* lock, and call Wait on the same exec.Cmd (module ExecCmd).              *)
(***************************************************************************)
EXTENDS ExecCmd

CONSTANTS
  Joiner,      \* handlers of clients that join while the capture runs
  MaxCrashes,  \* bound: capture processes that end by themselves
  MaxCmds,     \* bound: capture processes started
  CanStop,     \* may the server be asked to stop?
  Screencast   \* is the capture process screencast.py, whose own child writes to the pipe?

ASSUME BoundsAssumption ==
  /\ {"grab", "main"} \cap Joiner = {}
  /\ MaxCrashes \in Nat /\ MaxCmds \in Nat \ {0}
  /\ CanStop \in BOOLEAN /\ Screencast \in BOOLEAN

VARIABLES
  cmd,      \* c.cmd
  forked,   \* the capture loop's local cmd in startProcess
  crashes,  \* processes that ended by themselves so far
  ctxDone   \* the context is cancelled

vars == <<pc, on, reaper, proc, state, watch, cmd, forked, crashes, ctxDone>>

Thread == Joiner \cup {"grab", "main"}
(* A respawn follows the end of a process, by a crash or a Restart, so that *)
(* 1 + MaxCrashes + (number of Joiners) commands are never too few.         *)
Cmd == 1..MaxCmds

(* NewX11Capturer has started the first process. *)
Init ==
  /\ pc = [t \in Thread |-> CASE t = "grab" -> "read" [] t = "main" -> "serve" [] OTHER -> "join"]
  /\ on = [t \in Thread |-> 0]
  /\ reaper = [t \in Thread |-> FALSE]
  /\ proc = [p \in Cmd |-> IF p = 1 THEN "running" ELSE "unborn"]
  /\ state = [p \in Cmd |-> FALSE]
  /\ watch = [p \in Cmd |-> p = 1]
  /\ cmd = 1
  /\ forked = 1
  /\ crashes = 0
  /\ ctxDone = FALSE

(* main returns: the program, with all its goroutines, is no more. *)
Alive == pc["main"] # "stopped"

-----------------------------------------------------------------------------
(* c.cmd.Wait(), in NextFrame, Restart and Close *)

AfterWait(t) == CASE t = "grab" -> "recheck" [] t = "main" -> "join all" [] OTHER -> "serve"

Wait(t) ==
  /\ Alive
  /\ WaitCall(t, AfterWait(t))
  /\ UNCHANGED <<cmd, forked, crashes, ctxDone>>

-----------------------------------------------------------------------------
(* The capture loop: NextFrame, startProcess, and the loop of main *)

(* A frame arrives; the loop looks at the context before the next one.     *)
(* screencast.py's child can go on when python is dead, until the end of   *)
(* a Wait closes the pipe.                                                 *)
ReadFrame ==
  /\ proc[cmd] = "running" \/ (Screencast /\ watch[cmd])
  /\ Step("grab", "read", IF ctxDone THEN "done" ELSE "read")
  /\ UNCHANGED <<on, reaper, proc, state, watch, cmd, forked, crashes, ctxDone>>

(* Mutant of ReadError: NextFrame respawns and does not wait. *)
ReadErrorNoWait ==
  /\ proc[cmd] # "running"
  /\ Step("grab", "read", IF ctxDone THEN "done" ELSE "recheck")
  /\ UNCHANGED <<on, reaper, proc, state, watch, cmd, forked, crashes, ctxDone>>

ReadError ==
  /\ proc[cmd] # "running"
  /\ Step("grab", "read", IF ctxDone THEN "done" ELSE "wait")
  /\ on' = [on EXCEPT !["grab"] = cmd]
  /\ UNCHANGED <<reaper, proc, state, watch, cmd, forked, crashes, ctxDone>>

(* After the 500 ms sleep. *)
Recheck ==
  /\ Step("grab", "recheck", IF ctxDone THEN "done" ELSE "fork")
  /\ UNCHANGED <<on, reaper, proc, state, watch, cmd, forked, crashes, ctxDone>>

(* cmd.Start looks at the context, and goes on without another look. *)
StartChecks ==
  /\ ~ctxDone
  /\ Step("grab", "fork", "exec")
  /\ UNCHANGED <<on, reaper, proc, state, watch, cmd, forked, crashes, ctxDone>>

(* Mutant of Fork: exec.Command in place of exec.CommandContext. *)
ForkNoContext ==
  LET p == forked + 1
  IN /\ p \in Cmd
     /\ Step("grab", "exec", "assign cmd")
     /\ forked' = p
     /\ proc' = [proc EXCEPT ![p] = "running"]
     /\ UNCHANGED <<on, reaper, state, watch, cmd, crashes, ctxDone>>

(* os.StartProcess, and the watcher that kills what a cancel comes upon. *)
Fork ==
  LET p == forked + 1
  IN /\ p \in Cmd
     /\ Step("grab", "exec", "assign cmd")
     /\ forked' = p
     /\ proc' = [proc EXCEPT ![p] = "running"]
     /\ watch' = [watch EXCEPT ![p] = TRUE]
     /\ UNCHANGED <<on, reaper, state, cmd, crashes, ctxDone>>

(* startProcess fails, as it does once the context is cancelled; the loop  *)
(* logs, sleeps and calls NextFrame again.                                 *)
ForkFails ==
  /\ \E at \in {"fork", "exec"} : Step("grab", at, IF ctxDone THEN "done" ELSE "read")
  /\ UNCHANGED <<on, reaper, proc, state, watch, cmd, forked, crashes, ctxDone>>

(* Mutant of AssignCmd: c.cmd keeps the old command. *)
AssignCmdForgotten ==
  /\ Step("grab", "assign cmd", "read")
  /\ UNCHANGED <<on, reaper, proc, state, watch, cmd, forked, crashes, ctxDone>>

AssignCmd ==
  /\ Step("grab", "assign cmd", "read")
  /\ cmd' = forked
  /\ UNCHANGED <<on, reaper, proc, state, watch, forked, crashes, ctxDone>>

Grab ==
  \/ ReadFrame \/ ReadError \/ Recheck
  \/ StartChecks \/ Fork \/ ForkFails \/ AssignCmd

-----------------------------------------------------------------------------
(* Restart reads c.cmd once for Kill and again for Wait. *)

RestartKills(h) ==
  /\ Alive
  /\ Step(h, "join", "killed")
  /\ Kill(cmd)
  /\ UNCHANGED <<on, reaper, state, watch, cmd, forked, crashes, ctxDone>>

RestartWaits(h) ==
  /\ Alive
  /\ Step(h, "killed", "wait")
  /\ on' = [on EXCEPT ![h] = cmd]
  /\ UNCHANGED <<reaper, proc, state, watch, cmd, forked, crashes, ctxDone>>

Restart(h) == RestartKills(h) \/ RestartWaits(h)

-----------------------------------------------------------------------------
(* main: the signal, Close, wg.Wait *)

Cancel ==
  /\ CanStop
  /\ Step("main", "serve", "close")
  /\ ctxDone' = TRUE
  /\ UNCHANGED <<on, reaper, proc, state, watch, cmd, forked, crashes>>

Close ==
  /\ Step("main", "close", "wait")
  /\ on' = [on EXCEPT !["main"] = cmd]
  /\ UNCHANGED <<reaper, proc, state, watch, cmd, forked, crashes, ctxDone>>

JoinAll ==
  /\ pc["grab"] = "done"
  /\ Step("main", "join all", "stopped")
  /\ UNCHANGED <<on, reaper, proc, state, watch, cmd, forked, crashes, ctxDone>>

Main == Cancel \/ Close \/ JoinAll

-----------------------------------------------------------------------------
(* The processes: they end by themselves, or their context's watcher kills them. *)

Crash(p) ==
  /\ proc[p] = "running" /\ crashes < MaxCrashes
  /\ crashes' = crashes + 1
  /\ Kill(p)
  /\ UNCHANGED <<pc, on, reaper, state, watch, cmd, forked, ctxDone>>

(* The watcher that Start made kills the process of a cancelled command,   *)
(* if the program is still there to do it.                                 *)
CtxKills(p) ==
  /\ Alive /\ ctxDone /\ watch[p] /\ proc[p] = "running"
  /\ Kill(p)
  /\ UNCHANGED <<pc, on, reaper, state, watch, cmd, forked, crashes, ctxDone>>

Next ==
  \/ \E t \in Thread : Wait(t)
  \/ Grab
  \/ \E h \in Joiner : Restart(h)
  \/ Main
  \/ \E p \in Cmd : Crash(p) \/ CtxKills(p)

(* Goroutines run; while the program does, a cancelled context kills its   *)
(* processes; respawning does not fail for ever.  Processes need not       *)
(* crash, clients need not join, and nobody need stop the server.          *)
Fairness ==
  /\ \A t \in Thread : WF_vars(Wait(t))
  /\ WF_vars(Grab) /\ SF_vars(StartChecks) /\ SF_vars(Fork)
  /\ \A h \in Joiner : WF_vars(RestartWaits(h))
  /\ WF_vars(Close \/ JoinAll)
  /\ \A p \in Cmd : WF_vars(CtxKills(p))

Spec == Init /\ [][Next]_vars
FairSpec == Spec /\ Fairness

-----------------------------------------------------------------------------
(* Properties *)

(* Every variable has its type, and respawns stay within their bound. *)
TypeOK ==
  /\ pc \in [Thread -> {"read", "recheck", "fork", "exec", "assign cmd", "done",
                        "join", "killed", "serve", "close", "join all", "stopped",
                        "wait", "reap", "assign state", "result"}]
  /\ on \in [Thread -> Cmd \cup {0}]
  /\ reaper \in [Thread -> BOOLEAN]
  /\ proc \in [Cmd -> {"unborn", "running", "exited", "reaped"}]
  /\ state \in [Cmd -> BOOLEAN]
  /\ watch \in [Cmd -> BOOLEAN]
  /\ cmd \in Cmd /\ forked \in {cmd, cmd + 1} \cap Cmd
  /\ crashes \in 0..MaxCrashes
  /\ ctxDone \in BOOLEAN

(* However Restart, Close and respawns interleave, there is never more     *)
(* than one capture process: every earlier one is dead and reaped before   *)
(* the next is forked, so none lingers as a zombie (NextFrame).            *)
OneProcess == \A p \in Cmd : p < forked => proc[p] = "reaped"

(* Whatever Restart, Close, crashes and the watcher do to them, capture    *)
(* processes succeed each other as SupervisedProcess says: the loop forks  *)
(* only when the last one is dead and reaped, and after a cancel only if   *)
(* cmd.Start had looked at the context before it, which is once at most.   *)
Super == INSTANCE SupervisedProcess
           WITH Process <- Cmd, cur <- forked, life <- proc, stopped <- ctxDone,
                cleared <- pc["grab"] = "exec"
ImplementsSupervised == Super!Spec

(* product-guidelines: "Capture failure ...: log error, wait, retry        *)
(* acquisition in loop".  The end of a capture process is followed by      *)
(* frames from a new one, unless the server is stopped.                    *)
CaptureRecovers ==
  (proc[cmd] # "running") ~> (ctxDone \/ (pc["grab"] = "read" /\ proc[cmd] = "running"))

(* kms spec: "Signal handling for graceful shutdown (SIGINT, SIGTERM)".    *)
(* Once the context is cancelled main reaches its end, unless it or the    *)
(* capture loop is left in Wait without the result that another received.  *)
StuckInWait == \E t \in {"grab", "main"} : pc[t] = "result" /\ ~watch[on[t]]
StopsOrStuck == ctxDone ~> (pc["main"] = "stopped" \/ StuckInWait)

(* Whatever is being restarted or waited for when the context is           *)
(* cancelled, in the end no capture process is left running: Close waits   *)
(* for the one in c.cmd, and the watchers kill every other while the       *)
(* program lasts.  Only a process forked after Close has read c.cmd, which *)
(* main therefore does not wait for, may survive the program.              *)
Orphan(p) == pc["main"] = "stopped" /\ p > on["main"]
CancelEndsProcesses ==
  ctxDone ~> [](\A p \in Cmd : proc[p] = "running" => Orphan(p))
=============================================================================

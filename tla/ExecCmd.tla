------------------------------ MODULE ExecCmd ------------------------------
(***************************************************************************)
(* The part of os/exec that the capturers rely on (external: modelled from *)
(* how internal/capture and internal/audio use it).  Several goroutines    *)
(* may call Wait on the same exec.Cmd.  Wait is modelled step by step:     *)
(* return if ProcessState is set; reap the process, which only one caller  *)
(* can do (the others get an error and no state); assign ProcessState;     *)
(* receive the one result that the command's context watcher ever sends.   *)
(***************************************************************************)
EXTENDS Integers

VARIABLES
  pc,      \* goroutine: the step it makes next
  on,      \* goroutine: the command it kills or waits for, 0 for none
  reaper,  \* goroutine: has its Process.Wait got a state to assign?
  proc,    \* command: its process
  state,   \* command: is ProcessState set?
  watch    \* command: has the watcher's result still to be received?

Waiting == {"wait", "reap", "assign state", "result"}

Goto(t, to) == pc' = [pc EXCEPT ![t] = to]
Step(t, from, to) == pc[t] = from /\ Goto(t, to)

(* Process.Kill and Signal(os.Kill); a process that has ended stays as it is. *)
Kill(p) == proc' = [proc EXCEPT ![p] = IF @ = "running" THEN "exited" ELSE @]

WaitCheck(t, to) ==
  /\ Step(t, "wait", IF state[on[t]] THEN to ELSE "reap")
  /\ UNCHANGED <<on, reaper, proc, state, watch>>

WaitReap(t) ==
  /\ Step(t, "reap", "assign state")
  /\ proc[on[t]] \in {"exited", "reaped"}
  /\ reaper' = [reaper EXCEPT ![t] = proc[on[t]] = "exited"]
  /\ proc' = [proc EXCEPT ![on[t]] = "reaped"]
  /\ UNCHANGED <<on, state, watch>>

WaitAssign(t) ==
  /\ Step(t, "assign state", "result")
  /\ state' = [state EXCEPT ![on[t]] = reaper[t]]
  /\ reaper' = [reaper EXCEPT ![t] = FALSE]
  /\ UNCHANGED <<on, proc, watch>>

WaitResult(t, to) ==
  /\ Step(t, "result", to)
  /\ watch[on[t]]
  /\ watch' = [watch EXCEPT ![on[t]] = FALSE]
  /\ UNCHANGED <<on, reaper, proc, state>>

(* One step of a Wait after which t goes on at `to'. *)
WaitCall(t, to) == WaitCheck(t, to) \/ WaitReap(t) \/ WaitAssign(t) \/ WaitResult(t, to)
=============================================================================

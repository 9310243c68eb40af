---------------------------- MODULE AudioCapture ----------------------------
(***************************************************************************)
(* The audio capturer (internal/audio/capture.go): readLoop, which moves   *)
(* PCM chunks from pw-cat to a bounded channel, drops the oldest when it   *)
(* is full, and reconnects when pw-cat ends; main, which cancels the       *)
(* context, calls Close and waits for the goroutines; and main's broadcast *)
(* goroutine, which ranges over the channel.  c.cmd is shared with no lock.*)
(* A chunk is its number: 1, 2, ... in the order they were recorded.       *)
(***************************************************************************)
EXTENDS ExecCmd, Sequences

CONSTANTS
  Cap,         \* capacity of the channel
  MaxChunks,   \* bound: chunks read from pw-cat
  MaxCrashes,  \* bound: pw-cat processes that end by themselves
  MaxFails,    \* bound: calls of start that fail while the server runs
  MaxCmds      \* bound: commands made; 1 + MaxCrashes + MaxFails are enough

ASSUME AudioBounds ==
  /\ Cap \in Nat \ {0} /\ MaxCmds \in Nat \ {0}
  /\ MaxChunks \in Nat /\ MaxCrashes \in Nat /\ MaxFails \in Nat

VARIABLES
  cmd,      \* c.cmd
  stdout,   \* the command whose pipe c.stdout is, 0 for nil
  ch,       \* c.ch
  closed,   \* is c.ch closed?
  got,     \* chunks read so far, so also the number of the latest
  taken,    \* the chunk broadcast last
  crashes,  \* pw-cat processes that ended by themselves so far
  fails,    \* calls of start that failed so far
  ctxDone   \* the context is cancelled

procVars == <<on, reaper, proc, state, watch>>
chanVars == <<ch, closed, got, taken>>
runVars == <<cmd, stdout, crashes, fails, ctxDone>>
vars == <<pc, procVars, chanVars, runVars>>

Thread == {"reader", "main", "broadcast"}
Cmd == 1..MaxCmds

(* NewCapturer has started pw-cat. *)
Init ==
  /\ pc = [t \in Thread |-> CASE t = "reader" -> "read" [] t = "main" -> "serve" [] OTHER -> "range"]
  /\ on = [t \in Thread |-> 0]
  /\ reaper = [t \in Thread |-> FALSE]
  /\ proc = [p \in Cmd |-> IF p = 1 THEN "running" ELSE "unborn"]
  /\ state = [p \in Cmd |-> FALSE]
  /\ watch = [p \in Cmd |-> p = 1]
  /\ cmd = 1 /\ stdout = 1
  /\ ch = <<>> /\ closed = FALSE
  /\ got = 0 /\ taken = 0
  /\ crashes = 0 /\ fails = 0
  /\ ctxDone = FALSE

(* A panic in any goroutine ends the program. *)
Panicked == \E t \in Thread : pc[t] = "panicked"

Move(t, from, to) == ~Panicked /\ Step(t, from, to)

-----------------------------------------------------------------------------
(* c.cmd.Wait(), in reconnect and Close *)

AfterWait(t) == IF t = "reader" THEN "sleep" ELSE "join all"

Wait(t) ==
  /\ ~Panicked
  /\ WaitCall(t, AfterWait(t))
  /\ UNCHANGED <<chanVars, runVars>>

-----------------------------------------------------------------------------
(* readLoop.  The top of the loop looks at the context. *)

Top == IF ctxDone THEN "return" ELSE "read"

(* A full chunk is in the pipe, perhaps the rest of what a dead pw-cat wrote. *)
ReadChunk ==
  /\ Move("reader", "read", "push")
  /\ stdout # 0 /\ proc[stdout] \in {"running", "exited"} /\ got < MaxChunks
  /\ got' = got + 1
  /\ UNCHANGED <<procVars, ch, closed, taken, runVars>>

(* Mutant of Push: the channel grows past its capacity. *)
PushUnbounded ==
  /\ Move("reader", "push", Top)
  /\ ch' = Append(ch, got)
  /\ UNCHANGED <<procVars, closed, got, taken, runVars>>

Push ==
  /\ Move("reader", "push", IF Len(ch) < Cap THEN Top ELSE "drop")
  /\ ch' = IF Len(ch) < Cap THEN Append(ch, got) ELSE ch
  /\ UNCHANGED <<procVars, closed, got, taken, runVars>>

(* Mutant of DropOldest: the inner select has lost its receive. *)
DropNone ==
  /\ Move("reader", "drop", "push again")
  /\ UNCHANGED <<procVars, chanVars, runVars>>

(* The broadcast goroutine may have emptied the channel since. *)
DropOldest ==
  /\ Move("reader", "drop", "push again")
  /\ ch' = IF ch = <<>> THEN ch ELSE Tail(ch)
  /\ UNCHANGED <<procVars, closed, got, taken, runVars>>

(* Mutant of PushAgain: the new chunk is lost as well. *)
PushSkipped ==
  /\ Move("reader", "push again", Top)
  /\ UNCHANGED <<procVars, chanVars, runVars>>

(* A send that blocks while the channel is full. *)
PushAgain ==
  /\ Move("reader", "push again", Top)
  /\ Len(ch) < Cap
  /\ ch' = Append(ch, got)
  /\ UNCHANGED <<procVars, closed, got, taken, runVars>>

(* io.ReadFull on a nil reader. *)
ReadNil ==
  /\ Move("reader", "read", "panicked")
  /\ stdout = 0
  /\ UNCHANGED <<procVars, chanVars, runVars>>

ReadError ==
  /\ Move("reader", "read", IF ctxDone THEN "return" ELSE "reconnect")
  /\ stdout # 0 /\ proc[stdout] # "running"
  /\ UNCHANGED <<procVars, chanVars, runVars>>

(* Mutant of Reconnect: pw-cat is killed and not waited for. *)
ReconnectNoWait ==
  /\ Move("reader", "reconnect", "sleep")
  /\ Kill(cmd)
  /\ UNCHANGED <<on, reaper, state, watch, chanVars, runVars>>

(* A command that never started has no Process: nothing to kill. *)
Reconnect ==
  /\ Move("reader", "reconnect", IF proc[cmd] = "unborn" THEN "sleep" ELSE "wait")
  /\ Kill(cmd)
  /\ on' = [on EXCEPT !["reader"] = cmd]
  /\ UNCHANGED <<reaper, state, watch, chanVars, runVars>>

(* After the 2 s sleep. *)
Recheck ==
  /\ Move("reader", "sleep", IF ctxDone THEN "return" ELSE "make")
  /\ UNCHANGED <<procVars, chanVars, runVars>>

(* start: c.cmd is replaced before the new command runs. *)
MakeCmd ==
  /\ cmd + 1 \in Cmd
  /\ Move("reader", "make", "pipe")
  /\ cmd' = cmd + 1
  /\ UNCHANGED <<procVars, chanVars, stdout, crashes, fails, ctxDone>>

MakePipe ==
  /\ Move("reader", "pipe", "start")
  /\ stdout' = cmd
  /\ UNCHANGED <<procVars, chanVars, cmd, crashes, fails, ctxDone>>

(* StdoutPipe returns nil and an error, which start passes on. *)
PipeFails ==
  /\ fails < MaxFails
  /\ Move("reader", "pipe", Top)
  /\ stdout' = 0
  /\ fails' = fails + 1
  /\ UNCHANGED <<procVars, chanVars, cmd, crashes, ctxDone>>

(* cmd.Start looks at the context, and goes on without another look. *)
StartChecks ==
  /\ ~ctxDone
  /\ Move("reader", "start", "exec")
  /\ UNCHANGED <<procVars, chanVars, runVars>>

Start ==
  /\ Move("reader", "exec", "read")
  /\ proc' = [proc EXCEPT ![cmd] = "running"]
  /\ watch' = [watch EXCEPT ![cmd] = TRUE]
  /\ UNCHANGED <<on, reaper, state, chanVars, runVars>>

(* cmd.Start fails, as it does once the context is cancelled. *)
StartFails ==
  /\ ctxDone \/ fails < MaxFails
  /\ \E at \in {"start", "exec"} : Move("reader", at, Top)
  /\ fails' = IF ctxDone THEN fails ELSE fails + 1
  /\ UNCHANGED <<procVars, chanVars, cmd, stdout, crashes, ctxDone>>

(* Mutant of Return: the channel stays open. *)
ReturnOpen ==
  /\ Move("reader", "return", "done")
  /\ UNCHANGED <<procVars, chanVars, runVars>>

Return ==
  /\ Move("reader", "return", "done")
  /\ closed' = TRUE
  /\ UNCHANGED <<procVars, ch, got, taken, runVars>>

Reader ==
  \/ ReadChunk \/ Push \/ DropOldest \/ PushAgain
  \/ ReadNil \/ ReadError \/ Reconnect \/ Recheck
  \/ MakeCmd \/ MakePipe \/ PipeFails \/ StartChecks \/ Start \/ StartFails \/ Return

-----------------------------------------------------------------------------
(* main's broadcast goroutine *)

Broadcast ==
  /\ ~Panicked /\ pc["broadcast"] = "range" /\ ch # <<>>
  /\ ch' = Tail(ch)
  /\ taken' = Head(ch)
  /\ UNCHANGED <<pc, procVars, closed, got, runVars>>

RangeEnds ==
  /\ closed /\ ch = <<>>
  /\ Move("broadcast", "range", "done")
  /\ UNCHANGED <<procVars, chanVars, runVars>>

-----------------------------------------------------------------------------
(* main: the signal; Close, which reads c.cmd three times; wg.Wait *)

Cancel ==
  /\ Move("main", "serve", "close")
  /\ ctxDone' = TRUE
  /\ UNCHANGED <<procVars, chanVars, cmd, stdout, crashes, fails>>

CloseLooks ==
  /\ Move("main", "close", IF proc[cmd] = "unborn" THEN "join all" ELSE "kill")
  /\ UNCHANGED <<procVars, chanVars, runVars>>

(* c.cmd may have been replaced by one that has no Process yet. *)
CloseKills ==
  /\ Move("main", "kill", IF proc[cmd] = "unborn" THEN "panicked" ELSE "close wait")
  /\ Kill(cmd)
  /\ UNCHANGED <<on, reaper, state, watch, chanVars, runVars>>

CloseWaits ==
  /\ Move("main", "close wait", IF proc[cmd] = "unborn" THEN "join all" ELSE "wait")
  /\ on' = [on EXCEPT !["main"] = cmd]
  /\ UNCHANGED <<reaper, proc, state, watch, chanVars, runVars>>

JoinAll ==
  /\ pc["broadcast"] = "done"
  /\ Move("main", "join all", "stopped")
  /\ UNCHANGED <<procVars, chanVars, runVars>>

Main == Cancel \/ CloseLooks \/ CloseKills \/ CloseWaits \/ JoinAll

-----------------------------------------------------------------------------
(* pw-cat ends by itself, or the context's watcher kills it while the      *)
(* program lasts.                                                          *)

Crash(p) ==
  /\ ~Panicked /\ proc[p] = "running" /\ crashes < MaxCrashes
  /\ Kill(p)
  /\ crashes' = crashes + 1
  /\ UNCHANGED <<pc, on, reaper, state, watch, chanVars, cmd, stdout, fails, ctxDone>>

CtxKills(p) ==
  /\ ~Panicked /\ pc["main"] # "stopped"
  /\ ctxDone /\ watch[p] /\ proc[p] = "running"
  /\ Kill(p)
  /\ UNCHANGED <<pc, on, reaper, state, watch, chanVars, runVars>>

Next ==
  \/ \E t \in Thread : Wait(t)
  \/ Reader
  \/ Broadcast \/ RangeEnds
  \/ Main
  \/ \E p \in Cmd : Crash(p) \/ CtxKills(p)

(* Goroutines run, and while the program does, a cancelled context kills   *)
(* its processes.  Sound need not arrive, pw-cat need not end, and nobody  *)
(* need stop the server.                                                   *)
Fairness ==
  /\ \A t \in Thread : WF_vars(Wait(t))
  /\ WF_vars(Reader /\ pc["reader"] # "read") /\ WF_vars(ReadNil \/ ReadError)
  /\ WF_vars(Broadcast \/ RangeEnds)
  /\ WF_vars(Main /\ pc["main"] # "serve")
  /\ \A p \in Cmd : WF_vars(CtxKills(p))

Spec == Init /\ [][Next]_vars
FairSpec == Spec /\ Fairness

-----------------------------------------------------------------------------
(* Properties *)

(* Every variable has its type; the channel stays within its capacity.     *)
TypeOK ==
  /\ pc \in [Thread -> {"read", "push", "drop", "push again", "reconnect", "sleep", "make",
                        "pipe", "start", "exec", "return", "panicked", "serve", "close", "kill",
                        "close wait", "join all", "stopped", "range", "done"} \cup Waiting]
  /\ on \in [Thread -> Cmd \cup {0}]
  /\ reaper \in [Thread -> BOOLEAN]
  /\ proc \in [Cmd -> {"unborn", "running", "exited", "reaped"}]
  /\ state \in [Cmd -> BOOLEAN]
  /\ watch \in [Cmd -> BOOLEAN]
  /\ cmd \in Cmd /\ stdout \in Cmd \cup {0}
  /\ ch \in Seq(Nat) /\ Len(ch) <= Cap
  /\ closed \in BOOLEAN
  /\ got \in Nat /\ taken \in Nat
  /\ crashes \in Nat /\ fails \in Nat
  /\ ctxDone \in BOOLEAN

(* The latest chunk that readLoop has put in the channel, or is past. *)
Pushed == IF pc["reader"] \in {"push", "drop", "push again"} THEN got - 1 ELSE got

(* However the broadcast goroutine and the drop race for the head of the   *)
(* channel, it holds the latest chunks with none missing in between, all   *)
(* newer than what was broadcast: only the oldest are ever lost, and sound *)
(* is never broadcast out of order or twice.                               *)
LatestKept ==
  /\ \A i \in 1..Len(ch) : ch[i] = Pushed - Len(ch) + i
  /\ taken <= Pushed - Len(ch)

(* After a drop the send has room, so readLoop is never held up by a slow  *)
(* broadcast, and pw-cat's pipe is drained.                                *)
NeverBlocks == pc["reader"] = "push again" => Len(ch) < Cap

(* Reconnecting never leaves an earlier pw-cat running or a zombie.        *)
OneProcess == \A p \in Cmd : p < cmd => proc[p] \in {"unborn", "reaped"}

(* pw-cats succeed each other as SupervisedProcess says, however           *)
(* reconnect, Close and the context's watcher meet: one is started only    *)
(* when the last is dead and reaped or never ran, and after a cancel only  *)
(* one whose Start had looked at the context before it.                    *)
Super == INSTANCE SupervisedProcess
           WITH Process <- Cmd, cur <- cmd, life <- proc, stopped <- ctxDone,
                cleared <- pc["reader"] = "exec"
ImplementsSupervised == Super!Spec

(* Every chunk in the channel, or one that is newer, is broadcast, also    *)
(* when the server is being stopped.                                       *)
SoundArrives ==
  \A n \in 1..MaxChunks : (Pushed = n) ~> (taken >= n \/ Panicked)

(* Once the context is cancelled main gets past wg.Wait, unless one of the *)
(* two Waits on a command is left without the result the other received.   *)
StuckInWait == \E t \in Thread : pc[t] = "result" /\ ~watch[on[t]]
StopsOrStuck == ctxDone ~> (pc["main"] = "stopped" \/ StuckInWait \/ Panicked)

(* product-guidelines: "The server should never crash during streaming."   *)
NeverPanics == ~Panicked
=============================================================================

------------------------- MODULE SupervisedProcess -------------------------
(***************************************************************************)
(* What a capturer or the hardware encoder promises of the external        *)
(* program it keeps running, without its goroutines, pipes and waits: the  *)
(* program's processes succeed each other, none is begun while an earlier  *)
(* one is alive or a zombie, one that is dead never comes back, and once   *)
(* the owner has been told to stop none is begun, but for the one whose    *)
(* start was allowed before and is still under way.                        *)
(***************************************************************************)
EXTENDS Integers

CONSTANT Process  \* numbers of the processes, in the order they are made

VARIABLES
  cur,     \* the process made last
  life,    \* process: unborn, running, exited (a zombie), or reaped
  stopped, \* the owner has been told to stop
  cleared  \* a start has been allowed and is under way

vars == <<cur, life, stopped, cleared>>

Init ==
  /\ cur = 1
  /\ life = [p \in Process |-> IF p = 1 THEN "running" ELSE "unborn"]
  /\ stopped = FALSE
  /\ cleared = FALSE

Become(p, from, to) == life[p] = from /\ life' = [life EXCEPT ![p] = to]

(* A start is allowed ahead of its time, or comes to nothing. *)
Clear == ~stopped /\ ~cleared /\ cleared' = TRUE /\ UNCHANGED <<cur, life, stopped>>
Abandon == cleared /\ cleared' = FALSE /\ UNCHANGED <<cur, life, stopped>>

(* p runs: one start uses up the permission. *)
Birth(p) ==
  /\ cleared \/ ~stopped
  /\ Become(p, "unborn", "running")
  /\ cleared' = FALSE

(* The next process takes the place of one that is over or never began; it *)
(* is begun at once or later.                                              *)
Replace ==
  /\ life[cur] \in {"unborn", "reaped"}
  /\ cur + 1 \in Process /\ cur' = cur + 1
  /\ Birth(cur + 1) \/ UNCHANGED <<life, cleared>>
  /\ UNCHANGED stopped

Begin == Birth(cur) /\ UNCHANGED <<cur, stopped>>
End == Become(cur, "running", "exited") /\ UNCHANGED <<cur, stopped, cleared>>
Reap == Become(cur, "exited", "reaped") /\ UNCHANGED <<cur, stopped, cleared>>
Stop == ~stopped /\ stopped' = TRUE /\ UNCHANGED <<cur, life, cleared>>

Next == Clear \/ Abandon \/ Replace \/ Begin \/ End \/ Reap \/ Stop

Spec == Init /\ [][Next]_vars
=============================================================================

---------------------------- MODULE ControlLease ----------------------------
(***************************************************************************)
(* What the server promises about keyboard and mouse control, without its  *)
(* handlers, sockets or queues: one connection at a time holds the lease,  *)
(* only the holder's input reaches the machine, the lease passes from one  *)
(* connection to another only through the vacant state, and a connection   *)
(* that has given it up never gets it or injects again.                    *)
(***************************************************************************)

CONSTANTS
  Client,    \* connections
  NoClient   \* the lease is vacant

VARIABLES
  holder,    \* the connection that holds the lease, or NoClient
  ended,     \* connections that are over
  injectedBy \* the connection whose input was injected last, or NoClient

vars == <<holder, ended, injectedBy>>

Init ==
  /\ holder = NoClient
  /\ ended = {}
  /\ injectedBy = NoClient

Acquire(c) ==
  /\ holder = NoClient
  /\ c \notin ended
  /\ holder' = c
  /\ UNCHANGED <<ended, injectedBy>>

Inject(c) ==
  /\ holder = c
  /\ injectedBy' = c
  /\ UNCHANGED <<holder, ended>>

Release(c) ==
  /\ holder = c
  /\ holder' = NoClient
  /\ ended' = ended \cup {c}
  /\ UNCHANGED injectedBy

(* A connection that never held the lease leaves without touching it. *)
Leave(c) ==
  /\ holder # c
  /\ ended' = ended \cup {c}
  /\ UNCHANGED <<holder, injectedBy>>

Next == \E c \in Client : Acquire(c) \/ Inject(c) \/ Release(c) \/ Leave(c)

Spec == Init /\ [][Next]_vars
=============================================================================

-------------------------- MODULE MCInputInjection --------------------------
(* InputInjection on small instances: one entry of browserToLinux. *)
EXTENDS InputInjection

SmallKeyMap == [KeyA |-> 30]
=============================================================================

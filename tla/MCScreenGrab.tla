---------------------------- MODULE MCScreenGrab ----------------------------
(* ScreenGrab on small instances. *)
EXTENDS ScreenGrab, TLC
=============================================================================

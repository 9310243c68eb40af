--------------------------- MODULE MCAudioCapture ---------------------------
(* AudioCapture on small instances. *)
EXTENDS AudioCapture, TLC
=============================================================================

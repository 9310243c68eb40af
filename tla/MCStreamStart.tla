--------------------------- MODULE MCStreamStart ---------------------------
(* StreamStart on small instances. *)
EXTENDS StreamStart
=============================================================================

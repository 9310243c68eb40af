-------------------------- MODULE MCFFmpegEncoder --------------------------
(* FFmpegEncoder on small instances. *)
EXTENDS FFmpegEncoder, TLC
=============================================================================

-------------------------- MODULE MCBrowserClient --------------------------
(* BrowserClient on small instances. *)
EXTENDS BrowserClient, TLC
=============================================================================

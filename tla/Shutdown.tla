------------------------------ MODULE Shutdown ------------------------------
(***************************************************************************)
(* ScreenGrab with the goroutine that runs the HTTP server (Server.Start): *)
(* clients join only while it listens, a listener that cannot be opened or *)
(* that gives up cancels the context like a signal does, and main's        *)
(* wg.Wait waits for this goroutine as well.  Shutdown does not wait for   *)
(* the handlers of /ws, whose connections are hijacked.                    *)
(***************************************************************************)
EXTENDS ScreenGrab

VARIABLE serve  \* the goroutine: where in Start

ServerInit == Init /\ serve = "start"

Quiet == UNCHANGED vars

Listen ==
  /\ serve = "start" /\ serve' = "serving"
  /\ Quiet

(* Mutant of StartFails: the error is logged and the context lives on. *)
StartFailsLogs ==
  /\ serve = "start" /\ serve' = "returned"
  /\ Quiet

(* No certificate, or the address cannot be listened on: log and cancel. *)
StartFails ==
  /\ serve = "start" /\ serve' = "returned"
  /\ IF ctxDone THEN Quiet ELSE Cancel

(* Shutdown closes the listener at once, also when it runs before Serve. *)
ServeReturns ==
  /\ serve = "serving" /\ ctxDone
  /\ serve' = "returned" /\ Quiet

(* Serve may also give up while the server runs: log and cancel. *)
ServeFails ==
  /\ serve = "serving" /\ serve' = "returned"
  /\ IF ctxDone THEN Quiet ELSE Cancel

Serve == Listen \/ StartFails \/ ServeFails \/ ServeReturns

(* The steps of ScreenGrab: a handler exists only if the server has        *)
(* listened, and main ends only after the server goroutine.                *)
Elsewhere ==
  /\ \/ \E t \in Thread : Wait(t)
     \/ Grab
     \/ \E h \in Joiner : RestartWaits(h) \/ (serve = "serving" /\ RestartKills(h))
     \/ Cancel \/ Close \/ (serve = "returned" /\ JoinAll)
     \/ \E p \in Cmd : Crash(p) \/ CtxKills(p)
  /\ UNCHANGED serve

ServerNext == Serve \/ Elsewhere
ServerVars == <<vars, serve>>

(* As in ScreenGrab, but respawning may fail for ever; and Start goes on,  *)
(* though Serve need not fail.                                             *)
ServerFairness ==
  /\ \A t \in Thread : WF_ServerVars(Wait(t) /\ UNCHANGED serve)
  /\ WF_ServerVars(Grab /\ UNCHANGED serve)
  /\ \A h \in Joiner : WF_ServerVars(RestartWaits(h) /\ UNCHANGED serve)
  /\ WF_ServerVars(Listen \/ StartFails \/ ServeReturns)
  /\ WF_ServerVars((Close \/ (serve = "returned" /\ JoinAll)) /\ UNCHANGED serve)
  /\ \A p \in Cmd : WF_ServerVars(CtxKills(p) /\ UNCHANGED serve)

ServerSpec == ServerInit /\ [][ServerNext]_ServerVars
FairServerSpec == ServerSpec /\ ServerFairness

-----------------------------------------------------------------------------
(* Properties *)

(* kms spec: "Signal handling for graceful shutdown (SIGINT, SIGTERM)".    *)
(* Asked to stop, or unable to listen, the program comes to its end rather *)
(* than go on capturing for nobody, unless main or the capture loop is     *)
(* left in Wait (main, Server.Start).                                      *)
ServerStops ==
  /\ StopsOrStuck
  /\ (serve = "start") ~> (serve = "serving" \/ pc["main"] = "stopped" \/ StuckInWait)
=============================================================================

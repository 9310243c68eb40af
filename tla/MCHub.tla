------------------------------- MODULE MCHub -------------------------------
(* Hub on small instances: connections are interchangeable. *)
EXTENDS Hub, TLC

Symmetry == Permutations(Client)

(* Two scenarios in one run: several clients, their roles and the sound,    *)
(* without video; or one viewer and the video.  Only steps that are not    *)
(* fair (to connect, to ask for control, to type, to capture, to encode)   *)
(* are held back, so that fairness loses nothing.                          *)
Scenario ==
  (nals # <<>> \/ stream # <<>>) =>
    /\ chunks = 0 /\ controller = NoClient /\ injectedBy = NoClient
    /\ Cardinality({c \in Client : pc[c] # "check"}) <= 1

ScenarioNext == Next /\ Scenario'
ScenarioSpec == Init /\ [][ScenarioNext]_vars /\ Fairness
=============================================================================

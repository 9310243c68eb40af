----------------------------- MODULE MCCapture -----------------------------
(* The two implementations of capture.Capturer on small instances: the     *)
(* X11 capturer with the server around it, or the KMS capturer alone.      *)
EXTENDS Shutdown, KmsCapture, TLC

VARIABLE backend

(* One kind of fault in a life of the KMS capturer. *)
OneFault == Cardinality(faults) <= 1

CaptureInit == backend \in {"x11", "kms"} /\ ServerInit /\ KmsInit
CaptureNext ==
  /\ \/ backend = "x11" /\ ServerNext /\ UNCHANGED kmsVars
     \/ backend = "kms" /\ KmsNext /\ OneFault' /\ UNCHANGED ServerVars
  /\ UNCHANGED backend

CaptureSpec == CaptureInit /\ [][CaptureNext]_<<ServerVars, kmsVars, backend>> /\ ServerFairness
=============================================================================

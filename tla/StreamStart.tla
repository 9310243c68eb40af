---------------------------- MODULE StreamStart ----------------------------
(***************************************************************************)
(* How the stream of a client that joins starts: its handler registers it  *)
(* and calls onNewClient, which asks the OpenH264 encoder for an IDR       *)
(* (openh264.go); the capture loop of main makes the encoder at the first  *)
(* frame, publishes the callback, encodes and broadcasts.  With            *)
(* uiIntraPeriod 0 an IDR is made on demand only.  The hub's cache and its *)
(* replay are in module Hub, the restarts of the capturer in ScreenGrab.   *)
(***************************************************************************)
EXTENDS Integers

CONSTANTS
  Client,   \* connections
  SendCap   \* capacity of a client's channel

ASSUME CapAssumption == SendCap \in Nat \ {0}

VARIABLES
  pc,        \* the capture loop: the step it makes next
  published, \* is onNewClient set?
  idr,       \* the encoder's request flag
  forced,    \* library: was ForceIntraFrame called since the last frame?
  fresh,     \* library: has it coded no frame yet?
  nal,       \* the NAL that Broadcast is at, "none" outside of it
  visit,     \* clients that its Range has still to visit
  client,    \* client: where its handler is
  queued,    \* client: messages in its channel
  heard,     \* history: parameter sets given to the client, and the IDR after both
  spoiled    \* history: its channel, or a failed frame, lost what it was to hear

encoderVars == <<idr, forced, fresh>>
castVars == <<nal, visit>>
clientVars == <<queued, heard, spoiled>>
vars == <<pc, published, encoderVars, castVars, client, clientVars>>

Start == {"sps", "pps", "idr"}
Registered == {c \in Client : client[c] \in {"stored", "request", "in"}}

(* The capture loop waits for its first frame. *)
Init ==
  /\ pc = "grab" /\ published = FALSE
  /\ idr = FALSE /\ forced = FALSE /\ fresh = TRUE
  /\ nal = "none" /\ visit = {}
  /\ client = [c \in Client |-> "out"]
  /\ queued = [c \in Client |-> 0]
  /\ heard = [c \in Client |-> {}]
  /\ spoiled = [c \in Client |-> FALSE]

-----------------------------------------------------------------------------
(* The capture loop *)

Goto(from, to) == pc = from /\ pc' = to

(* NextFrame returns a frame; the first one has the encoder made. *)
Grab ==
  /\ Goto("grab", IF published THEN "encode" ELSE "open")
  /\ UNCHANGED <<published, encoderVars, castVars, client, clientVars>>

(* The context is cancelled. *)
Stop ==
  /\ Goto("grab", "done")
  /\ UNCHANGED <<published, encoderVars, castVars, client, clientVars>>

(* NewH264Encoder: IDRs on demand only, no frame skipping; the flag is     *)
(* clear.                                                                  *)
Open ==
  /\ Goto("open", "publish")
  /\ UNCHANGED <<published, encoderVars, castVars, client, clientVars>>

(* No encoder: main cancels the context and the loop returns. *)
OpenFails ==
  /\ Goto("open", "done")
  /\ UNCHANGED <<published, encoderVars, castVars, client, clientVars>>

(* SetNewClientCallback, with no lock, while handlers may read it. *)
Publish ==
  /\ Goto("publish", "encode")
  /\ published' = TRUE
  /\ UNCHANGED <<encoderVars, castVars, client, clientVars>>

(* Encode takes the request, then codes the frame. *)
EncodeBegins ==
  /\ Goto("encode", "frame")
  /\ idr' = FALSE
  /\ forced' = (forced \/ idr)
  /\ UNCHANGED <<published, fresh, castVars, client, clientVars>>

(* The NALs of a frame, in the order of extractNALs. *)
FirstNal(isIDR) == IF isIDR THEN "sps" ELSE "slice"

(* Mutant of NextNal: the layers after the first one are forgotten. *)
NextNalOfLayer(n) == IF n = "sps" THEN "pps" ELSE "none"

NextNal(n) == CASE n = "sps" -> "pps" [] n = "pps" -> "idr" [] OTHER -> "none"

(* Mutant of EncodeFrame: the request is cleared when it was served. *)
EncodeFrameClears ==
  /\ Goto("frame", "range")
  /\ nal' = FirstNal(fresh \/ forced)
  /\ forced' = FALSE /\ fresh' = FALSE /\ idr' = FALSE
  /\ UNCHANGED <<published, visit, client, clientVars>>

EncodeFrame ==
  /\ Goto("frame", "range")
  /\ nal' = FirstNal(fresh \/ forced)
  /\ forced' = FALSE /\ fresh' = FALSE
  /\ UNCHANGED <<published, idr, visit, client, clientVars>>

(* The encoder has nothing to say of a frame like the last one. *)
SkipFrame ==
  /\ ~fresh /\ ~forced
  /\ Goto("frame", "grab")
  /\ UNCHANGED <<published, encoderVars, castVars, client, clientVars>>

(* The frame fails, and whether the library still means to make an IDR is  *)
(* not known.  If not, nothing sets the request again, and it is lost for  *)
(* who has no other to come.                                               *)
EncodeFails ==
  /\ Goto("frame", "grab")
  /\ forced' \in {FALSE, forced}
  /\ spoiled' = IF forced' = forced THEN spoiled
                ELSE [c \in Client |-> spoiled[c] \/ (client[c] = "in" /\ ~idr /\ ~fresh)]
  /\ UNCHANGED <<published, idr, fresh, castVars, client, queued, heard>>

-----------------------------------------------------------------------------
(* Broadcast, NAL by NAL *)

RangeBegins ==
  /\ Goto("range", "visit")
  /\ visit' = Registered
  /\ UNCHANGED <<published, encoderVars, nal, client, clientVars>>

(* The history of client c hears the NAL; an IDR is of use to a client     *)
(* that has both parameter sets.                                           *)
Hear(c) ==
  heard' = [heard EXCEPT ![c] =
              IF nal \in {"sps", "pps"} \/ (nal = "idr" /\ {"sps", "pps"} \subseteq @)
                THEN @ \cup {nal} ELSE @]

(* Mutant of Send: an unbounded queue in place of the channel. *)
SendUnbounded(c) ==
  /\ queued' = [queued EXCEPT ![c] = @ + 1]
  /\ Hear(c)
  /\ UNCHANGED spoiled

Send(c) ==
  IF queued[c] < SendCap
  THEN /\ queued' = [queued EXCEPT ![c] = @ + 1]
       /\ Hear(c)
       /\ UNCHANGED spoiled
  ELSE /\ spoiled' = [spoiled EXCEPT ![c] = @ \/ nal \in Start]
       /\ UNCHANGED <<queued, heard>>

RangeVisits(c) ==
  /\ pc = "visit" /\ c \in visit
  /\ visit' = visit \ {c}
  /\ Send(c)
  /\ UNCHANGED <<pc, published, encoderVars, nal, client>>

RangeEnds ==
  /\ visit = {}
  /\ Goto("visit", IF NextNal(nal) = "none" THEN "grab" ELSE "range")
  /\ nal' = NextNal(nal)
  /\ UNCHANGED <<published, encoderVars, visit, client, clientVars>>

Capture ==
  \/ Grab \/ Open \/ OpenFails \/ Publish
  \/ EncodeBegins \/ EncodeFrame \/ SkipFrame \/ EncodeFails
  \/ RangeBegins \/ (\E c \in Client : RangeVisits(c)) \/ RangeEnds

-----------------------------------------------------------------------------
(* The clients *)

(* A Range under way may or may not come by a new key. *)
Store(c) ==
  /\ client[c] = "out"
  /\ client' = [client EXCEPT ![c] = "stored"]
  /\ visit' \in {visit} \cup {visit \cup {d} : d \in IF pc = "visit" THEN {c} ELSE {}}
  /\ UNCHANGED <<pc, published, encoderVars, nal, clientVars>>

(* The handler reads onNewClient, which may not be set yet. *)
ReadCallback(c) ==
  /\ client[c] = "stored"
  /\ client' = [client EXCEPT ![c] = IF published THEN "request" ELSE "in"]
  /\ UNCHANGED <<pc, published, encoderVars, castVars, clientVars>>

(* The callback asks for an IDR.  It then restarts the capturer. *)
ForceKeyframe(c) ==
  /\ client[c] = "request"
  /\ client' = [client EXCEPT ![c] = "in"]
  /\ idr' = TRUE
  /\ UNCHANGED <<pc, published, forced, fresh, castVars, clientVars>>

PumpTakes(c) ==
  /\ queued[c] > 0
  /\ queued' = [queued EXCEPT ![c] = @ - 1]
  /\ UNCHANGED <<pc, published, encoderVars, castVars, client, heard, spoiled>>

(* A Range under way may or may not come by a deleted key. *)
Leave(c) ==
  /\ client[c] = "in"
  /\ client' = [client EXCEPT ![c] = "gone"]
  /\ visit' \in {visit, visit \ {c}}
  /\ UNCHANGED <<pc, published, encoderVars, nal, clientVars>>

Handler(c) == ReadCallback(c) \/ ForceKeyframe(c)

Next ==
  \/ Capture \/ Stop
  \/ \E c \in Client : Store(c) \/ Handler(c) \/ PumpTakes(c) \/ Leave(c)

(* Frames keep coming, so the capture loop is not left in Wait (ScreenGrab *)
(* has how it may be), and are not for ever refused by the encoder; the    *)
(* callback's request is a store.  Nobody need join, leave or read.        *)
Fairness ==
  /\ WF_vars(Capture) /\ SF_vars(EncodeFrame)
  /\ \A c \in Client : WF_vars(Handler(c))

Spec == Init /\ [][Next]_vars
FairSpec == Spec /\ Fairness

-----------------------------------------------------------------------------
(* Properties *)

(* Every variable has its type, and no channel exceeds its capacity. *)
TypeOK ==
  /\ pc \in {"grab", "open", "publish", "encode", "frame", "range", "visit", "done"}
  /\ published \in BOOLEAN
  /\ idr \in BOOLEAN /\ forced \in BOOLEAN /\ fresh \in BOOLEAN
  /\ nal \in Start \cup {"slice", "none"}
  /\ visit \subseteq Client
  /\ client \in [Client -> {"out", "stored", "request", "in", "gone"}]
  /\ queued \in [Client -> 0..SendCap]
  /\ heard \in [Client -> SUBSET Start]
  /\ spoiled \in [Client -> BOOLEAN]

Started(c) == "idr" \in heard[c]

(* What the frame that is being broadcast still has for client c. *)
From(n) == CASE n = "sps" -> Start [] n = "pps" -> {"pps", "idr"} [] n = "idr" -> {"idr"} [] OTHER -> {}
Due(c) == IF pc = "visit" /\ c \notin visit THEN From(NextNal(nal)) ELSE From(nal)

(* An IDR with its parameter sets is on its way to c. *)
Pending(c) == idr \/ forced \/ fresh \/ Start \ heard[c] \subseteq Due(c)

(* However a join interleaves with the making of the encoder, with Encode  *)
(* and with Broadcast, its request is not forgotten: while the client is   *)
(* there, it has heard both parameter sets and an IDR after them, or they  *)
(* are still to come, or its own channel or a failed frame lost them.      *)
StartPending ==
  \A c \in Client : client[c] = "in" => Started(c) \/ spoiled[c] \/ Pending(c)

(* A client that stays gets a stream it can decode from its start, as long *)
(* as there are frames.                                                    *)
StreamStarts ==
  \A c \in Client :
    (client[c] = "stored") ~> (Started(c) \/ spoiled[c] \/ client[c] = "gone" \/ pc = "done")
=============================================================================

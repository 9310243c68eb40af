------------------------- MODULE StreamStartProofs -------------------------
(* Proofs about StreamStart: types, and that no request for an IDR is lost. *)
EXTENDS StreamStart, TLAPS

(* Before the callback is published no frame was coded, so that the first  *)
(* frame is an IDR for whoever read that there was no callback.            *)
EarlyInv == ~published => fresh /\ pc \in {"grab", "open", "publish", "done"}

(* Outside of Broadcast nothing is left of an earlier frame. *)
CastInv == pc \notin {"range", "visit"} => nal = "none"

(* Types and the two control invariants go together. *)
ControlInv == TypeOK /\ EarlyInv /\ CastInv

LEMMA ControlInit == Init => ControlInv
<1> SUFFICES ASSUME Init PROVE ControlInv
  OBVIOUS
<1>1. queued \in [Client -> 0..SendCap]
  BY CapAssumption DEF Init
<1>2. heard \in [Client -> SUBSET Start] /\ spoiled \in [Client -> BOOLEAN]
  BY DEF Init
<1> QED
  BY <1>1, <1>2 DEF Init, ControlInv, TypeOK, EarlyInv, CastInv, Start

LEMMA ControlStep == ControlInv /\ [Next]_vars => ControlInv'
<1> SUFFICES ASSUME ControlInv, [Next]_vars PROVE ControlInv'
  OBVIOUS
<1> USE CapAssumption DEF ControlInv, TypeOK, EarlyInv, CastInv, Start, Goto
<1>1. CASE Grab
  BY <1>1 DEF Grab, encoderVars, castVars, clientVars
<1>2. CASE Stop
  BY <1>2 DEF Stop, encoderVars, castVars, clientVars
<1>3. CASE Open
  BY <1>3 DEF Open, encoderVars, castVars, clientVars
<1>4. CASE OpenFails
  BY <1>4 DEF OpenFails, encoderVars, castVars, clientVars
<1>5. CASE Publish
  BY <1>5 DEF Publish, encoderVars, castVars, clientVars
<1>6. CASE EncodeBegins
  BY <1>6 DEF EncodeBegins, castVars, clientVars
<1>7. CASE EncodeFrame
  BY <1>7 DEF EncodeFrame, FirstNal, clientVars
<1>8. CASE SkipFrame
  BY <1>8 DEF SkipFrame, encoderVars, castVars, clientVars
<1>9. CASE EncodeFails
  BY <1>9 DEF EncodeFails, castVars
<1>10. CASE RangeBegins
  BY <1>10 DEF RangeBegins, Registered, encoderVars, clientVars
<1>11. ASSUME NEW c \in Client, RangeVisits(c) PROVE ControlInv'
  <2>1. CASE queued[c] < SendCap
    <3>1. queued' \in [Client -> 0..SendCap]
      BY <1>11, <2>1 DEF RangeVisits, Send
    <3>2. heard' \in [Client -> SUBSET Start]
      BY <1>11, <2>1 DEF RangeVisits, Send, Hear
    <3> QED
      BY <1>11, <2>1, <3>1, <3>2 DEF RangeVisits, Send, encoderVars
  <2>2. CASE ~(queued[c] < SendCap)
    BY <1>11, <2>2 DEF RangeVisits, Send, encoderVars
  <2> QED
    BY <2>1, <2>2
<1>12. CASE RangeEnds
  BY <1>12 DEF RangeEnds, NextNal, encoderVars, clientVars
<1>13. ASSUME NEW c \in Client, Store(c) PROVE ControlInv'
  BY <1>13 DEF Store, encoderVars, clientVars
<1>14. ASSUME NEW c \in Client, Handler(c) PROVE ControlInv'
  BY <1>14 DEF Handler, ReadCallback, ForceKeyframe, encoderVars, castVars, clientVars
<1>15. ASSUME NEW c \in Client, PumpTakes(c) PROVE ControlInv'
  BY <1>15 DEF PumpTakes, encoderVars, castVars
<1>16. ASSUME NEW c \in Client, Leave(c) PROVE ControlInv'
  BY <1>16 DEF Leave, encoderVars, clientVars
<1>17. CASE UNCHANGED vars
  BY <1>17 DEF vars, encoderVars, castVars, clientVars
<1> QED
  BY <1>1, <1>2, <1>3, <1>4, <1>5, <1>6, <1>7, <1>8, <1>9, <1>10, <1>11, <1>12, <1>13,
     <1>14, <1>15, <1>16, <1>17 DEF Next, Capture

-----------------------------------------------------------------------------
(* The request *)

(* What StartPending says of one client. *)
Served(c) == client[c] = "in" => Started(c) \/ spoiled[c] \/ Pending(c)

(* Nothing of an earlier frame is due before the next is coded, so that    *)
(* who waits for its start then waits for an encoder that owes an IDR.     *)
LEMMA Owed ==
  ASSUME NEW c \in Client, ControlInv, Served(c), client[c] = "in",
         pc \notin {"range", "visit"}
  PROVE  Started(c) \/ spoiled[c] \/ idr \/ forced \/ fresh
  BY DEF ControlInv, CastInv, Served, Pending, Due, From, Started, Start

(* A step that changes neither client c's side nor the broadcast. *)
LEMMA Aside ==
  ASSUME NEW c \in Client, ControlInv, Served(c),
         pc \notin {"range", "visit"},
         client'[c] = client[c], heard'[c] = heard[c], spoiled'[c] = spoiled[c],
         idr => idr' \/ forced', forced => forced', fresh => fresh'
  PROVE  Served(c)'
  BY Owed DEF Served, Pending, Started

LEMMA StartStep == ControlInv /\ StartPending /\ [Next]_vars => StartPending'
<1> SUFFICES ASSUME ControlInv, StartPending, [Next]_vars, NEW c \in Client
             PROVE  Served(c)'
  BY DEF StartPending, Served, Started, Pending, Due
<1> Served(c)
  BY DEF StartPending, Served
<1>1. CASE Grab \/ Stop \/ Open \/ OpenFails \/ Publish \/ EncodeBegins \/ SkipFrame
  BY <1>1, Aside DEF Grab, Stop, Open, OpenFails, Publish, EncodeBegins, SkipFrame, Goto,
     encoderVars, castVars, clientVars, ControlInv, TypeOK
<1>2. CASE EncodeFrame
  <2>1. CASE forced \/ fresh
    BY <1>2, <2>1 DEF EncodeFrame, Goto, FirstNal, Served, Pending, Due, From
  <2>2. CASE ~(forced \/ fresh)
    <3>1. client[c] = "in" => Started(c) \/ spoiled[c] \/ idr
      BY <1>2, <2>2, Owed DEF EncodeFrame, Goto
    <3> QED
      BY <1>2, <3>1 DEF EncodeFrame, Served, Started, Pending, clientVars
  <2> QED
    BY <2>1, <2>2
<1>3. CASE EncodeFails
  <2>1. CASE forced' = forced
    BY <1>3, <2>1, Aside DEF EncodeFails, Goto
  <2>2. CASE forced' # forced /\ (idr \/ fresh)
    BY <1>3, <2>2 DEF EncodeFails, Served, Pending
  <2>3. CASE forced' # forced /\ ~(idr \/ fresh)
    BY <1>3, <2>3 DEF EncodeFails, Served
  <2> QED
    BY <2>1, <2>2, <2>3
<1>4. CASE RangeBegins
  BY <1>4 DEF RangeBegins, Goto, Registered, encoderVars, clientVars,
     Served, Started, Pending, Due
<1>5. ASSUME NEW d \in Client, RangeVisits(d) PROVE Served(c)'
  <2> /\ pc = "visit" /\ pc' = pc /\ nal' = nal /\ d \in visit /\ visit' = visit \ {d}
      /\ client' = client /\ idr' = idr /\ forced' = forced /\ fresh' = fresh
    BY <1>5 DEF RangeVisits, encoderVars
  <2> heard \in [Client -> SUBSET Start] /\ spoiled \in [Client -> BOOLEAN]
    BY DEF ControlInv, TypeOK
  <2>1. CASE c # d
    <3>1. heard'[c] = heard[c] /\ spoiled'[c] = spoiled[c]
      BY <1>5, <2>1 DEF RangeVisits, Send, Hear
    <3> QED
      BY <2>1, <3>1 DEF Served, Started, Pending, Due
  <2>2. CASE c = d /\ queued[c] < SendCap
    <3>1. /\ spoiled'[c] = spoiled[c]
          /\ heard'[c] = IF nal \in {"sps", "pps"} \/ (nal = "idr" /\ {"sps", "pps"} \subseteq heard[c])
                           THEN heard[c] \cup {nal} ELSE heard[c]
      BY <1>5, <2>2 DEF RangeVisits, Send, Hear
    <3>2. nal \in Start \cup {"slice", "none"}
      BY DEF ControlInv, TypeOK
    <3> QED
      BY <2>2, <3>1, <3>2 DEF Served, Started, Pending, Due, From, NextNal, Start
  <2>3. CASE c = d /\ ~(queued[c] < SendCap)
    <3>1. heard'[c] = heard[c] /\ spoiled'[c] = (spoiled[c] \/ nal \in Start)
      BY <1>5, <2>3 DEF RangeVisits, Send
    <3>2. nal \in Start \cup {"slice", "none"}
      BY DEF ControlInv, TypeOK
    <3> QED
      BY <2>3, <3>1, <3>2 DEF Served, Started, Pending, Due, From, NextNal, Start
  <2> QED
    BY <2>1, <2>2, <2>3
<1>6. CASE RangeEnds
  BY <1>6 DEF RangeEnds, Goto, NextNal, encoderVars, clientVars,
     Served, Started, Pending, Due, From
<1>7. ASSUME NEW d \in Client, Store(d) PROVE Served(c)'
  BY <1>7 DEF Store, encoderVars, clientVars, ControlInv, TypeOK,
     Served, Started, Pending, Due
<1>8. ASSUME NEW d \in Client, ReadCallback(d) PROVE Served(c)'
  <2>1. CASE c = d /\ ~published
    BY <1>8, <2>1 DEF ReadCallback, encoderVars, ControlInv, EarlyInv, Served, Pending
  <2>2. CASE c = d /\ published
    BY <1>8, <2>2 DEF ReadCallback, ControlInv, TypeOK, Served
  <2>3. CASE c # d
    BY <1>8, <2>3 DEF ReadCallback, encoderVars, castVars, clientVars, ControlInv, TypeOK,
       Served, Started, Pending, Due
  <2> QED
    BY <2>1, <2>2, <2>3
<1>9. ASSUME NEW d \in Client, ForceKeyframe(d) PROVE Served(c)'
  BY <1>9 DEF ForceKeyframe, Served, Pending
<1>10. ASSUME NEW d \in Client, PumpTakes(d) PROVE Served(c)'
  BY <1>10 DEF PumpTakes, encoderVars, castVars, Served, Started, Pending, Due
<1>11. ASSUME NEW d \in Client, Leave(d) PROVE Served(c)'
  BY <1>11 DEF Leave, encoderVars, clientVars, ControlInv, TypeOK,
     Served, Started, Pending, Due
<1>12. CASE UNCHANGED vars
  BY <1>12 DEF vars, encoderVars, castVars, clientVars, Served, Started, Pending, Due
<1> QED
  BY <1>1, <1>2, <1>3, <1>4, <1>5, <1>6, <1>7, <1>8, <1>9, <1>10, <1>11, <1>12
  DEF Next, Capture, Handler

-----------------------------------------------------------------------------
(* Every variable of StreamStart keeps its type, and no client's channel   *)
(* exceeds its capacity.                                                   *)
THEOREM StartTypeCorrect == Spec => []TypeOK
<1>1. Spec => []ControlInv
  BY ControlInit, ControlStep, PTL DEF Spec
<1>2. ControlInv => TypeOK
  BY DEF ControlInv
<1> QED
  BY <1>1, <1>2, PTL

(* A client that joined is never forgotten: it has heard an IDR with its   *)
(* parameter sets, or one is coming, or its channel or a failed frame lost *)
(* it, for any number of clients joining at any moment.                    *)
THEOREM RequestNeverForgotten == Spec => []StartPending
<1>1. Spec => []ControlInv
  BY ControlInit, ControlStep, PTL DEF Spec
<1>2. Init => StartPending
  BY DEF Init, StartPending, Pending
<1> QED
  BY <1>1, <1>2, StartStep, PTL DEF Spec
=============================================================================

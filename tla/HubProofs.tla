----------------------------- MODULE HubProofs -----------------------------
(***************************************************************************)
(* Theorems about Hub, for every set of clients, every limit and every     *)
(* bound on the stream: types, exclusive input and the refinement of       *)
(* ControlLease, the count, and, in the second part, the stream.           *)
(***************************************************************************)
EXTENDS Hub, FiniteSetTheorems, TLAPS

USE DEF NoMsg, AudioMsg, NoIDR, Caster

(* TypeOK is inductive with one more fact: a broadcaster that is between   *)
(* taking a message and the end of its Range has one.                      *)
TypeInv ==
  /\ TypeOK
  /\ \A b \in Caster : phase[b] # "idle" => cur[b] \in Nat

LEMMA SendTypes ==
  ASSUME TypeOK, NEW c \in Client, NEW m \in Nat, Send(c, m)
  PROVE  /\ queue' \in [Client -> Seq(Nat)]
         /\ \A d \in Client : Len(queue'[d]) <= BufSize
         /\ handed' \in [Client -> Seq(Nat)]
         /\ lost' \in [Client -> SUBSET Nat]
<1>1. CASE Enqueue(c, m)
  <2> DEFINE q == Append(queue[c], m)
  <2>1. q \in Seq(Nat) /\ Len(q) = Len(queue[c]) + 1 /\ Append(handed[c], m) \in Seq(Nat)
    BY DEF TypeOK
  <2>2. queue' = [queue EXCEPT ![c] = q]
    BY <1>1 DEF Enqueue
  <2>3. Len(queue[c]) \in Nat /\ Len(q) <= BufSize
    BY <1>1, <2>1, LimitsAssumption DEF Enqueue, TypeOK
  <2> HIDE DEF q
  <2>4. queue' \in [Client -> Seq(Nat)] /\ \A d \in Client : Len(queue'[d]) <= BufSize
    BY <2>1, <2>2, <2>3 DEF TypeOK
  <2>5. handed' \in [Client -> Seq(Nat)] /\ lost' \in [Client -> SUBSET Nat]
    BY <1>1, <2>1 DEF Enqueue, TypeOK
  <2>6. QED BY <2>4, <2>5
<1>2. CASE Drop(c, m)
  BY <1>2 DEF Drop, TypeOK
<1>3. QED BY <1>1, <1>2 DEF Send

(* The types survive every step of a handler. *)
LEMMA HandlerTypes ==
  ASSUME TypeInv, NEW c \in Client, Handler(c)
  PROVE  TypeInv'
<1> USE DEF Step, connVars, registryVars, queueVars, castVars, handlerVars
<1>1. CASE Check(c)
  BY <1>1 DEF TypeInv, TypeOK, Check
<1>2. CASE AcceptFails(c)
  BY <1>2 DEF TypeInv, TypeOK, AcceptFails
<1>3. CASE Accept(c)
  BY <1>3, LimitsAssumption DEF TypeInv, TypeOK, Accept, Claim
<1>4. CASE Store(c)
  BY <1>4 DEF TypeInv, TypeOK, Store
<1>5. CASE CountIn(c)
  BY <1>5 DEF TypeInv, TypeOK, CountIn
<1>6. CASE LoadIDR(c)
  BY <1>6 DEF TypeInv, TypeOK, LoadIDR
<1>7. CASE ReplayIDR(c)
  <2>1. CASE idr[c] # NoIDR
    <3>1. Send(c, idr[c]) /\ idr[c] \in Nat /\ TypeOK
      BY <1>7, <2>1 DEF ReplayIDR, TypeInv, TypeOK
    <3>2. QED BY <1>7, <3>1, SendTypes DEF TypeInv, TypeOK, ReplayIDR
  <2>2. CASE idr[c] = NoIDR
    BY <1>7, <2>2 DEF TypeInv, TypeOK, ReplayIDR
  <2>3. QED BY <2>1, <2>2
<1>8. CASE NotifyReturns(c)
  BY <1>8 DEF TypeInv, TypeOK, NotifyReturns
<1>9. CASE ReadText(c)
  BY <1>9 DEF TypeInv, TypeOK, ReadText
<1>10. CASE ReadFails(c)
  BY <1>10 DEF TypeInv, TypeOK, ReadFails
<1>11. CASE Delete(c)
  BY <1>11 DEF TypeInv, TypeOK, Delete
<1>12. CASE CountOut(c)
  BY <1>12 DEF TypeInv, TypeOK, CountOut
<1>13. CASE Release(c)
  BY <1>13 DEF TypeInv, TypeOK, Release
<1>14. QED
  BY <1>1, <1>2, <1>3, <1>4, <1>5, <1>6, <1>7, <1>8, <1>9, <1>10, <1>11, <1>12, <1>13
     DEF Handler

(* The types survive every step of a connection and its pump. *)
LEMMA ConnTypes ==
  ASSUME TypeInv, NEW c \in Client, ConnBreaks(c) \/ Pump(c)
  PROVE  TypeInv'
<1> USE DEF handlerVars, registryVars, queueVars, castVars
<1>1. CASE ConnBreaks(c)
  BY <1>1 DEF TypeInv, TypeOK, ConnBreaks
<1>2. CASE PumpTakes(c)
  <2>1. queue' \in [Client -> Seq(Nat)] /\ \A d \in Client : Len(queue'[d]) <= BufSize
    <3>1. /\ queue \in [Client -> Seq(Nat)] /\ \A d \in Client : Len(queue[d]) <= BufSize
          /\ queue[c] # <<>> /\ queue' = [queue EXCEPT ![c] = Tail(queue[c])]
      BY <1>2 DEF TypeInv, TypeOK, PumpTakes
    <3>2. Tail(queue[c]) \in Seq(Nat) /\ Len(Tail(queue[c])) <= BufSize
      BY <3>1, LimitsAssumption
    <3>3. QED BY <3>1, <3>2
  <2>2. QED BY <1>2, <2>1 DEF TypeInv, TypeOK, PumpTakes
<1>3. CASE PumpWrote(c)
  BY <1>3 DEF TypeInv, TypeOK, PumpWrote
<1>4. CASE WriteFails(c)
  BY <1>4 DEF TypeInv, TypeOK, WriteFails, PumpStops
<1>5. CASE PingFails(c)
  BY <1>5 DEF TypeInv, TypeOK, PingFails, PumpStops
<1>6. QED
  BY <1>1, <1>2, <1>3, <1>4, <1>5 DEF Pump

(* The types survive every step of the encoder and the broadcasters. *)
LEMMA CastTypes ==
  ASSUME TypeInv, Encode \/ BeginNal \/ BeginChunk \/ \E b \in Caster : Cast(b)
  PROVE  TypeInv'
<1> USE DEF handlerVars, connVars, registryVars, queueVars
<1>1. CASE Encode
  <2>1. nals' \in Seq({"param", "idr", "slice"})
    <3>1. PICK f \in Frames : nals' = f
      BY <1>1 DEF Encode
    <3>2. CASE f = <<"param", "idr">>
      BY <3>1, <3>2
    <3>3. CASE f = <<"slice">>
      BY <3>1, <3>3
    <3>4. QED BY <3>2, <3>3 DEF Frames
  <2>2. QED BY <1>1, <2>1 DEF TypeInv, TypeOK, Encode
<1>2. CASE BeginNal
  <2> DEFINE n == Len(stream) + 1
  <2>1. Head(nals) \in {"param", "idr", "slice"} /\ Tail(nals) \in Seq({"param", "idr", "slice"})
    BY <1>2 DEF TypeInv, TypeOK, BeginNal
  <2>2. stream' \in Seq({"param", "idr", "slice"}) /\ Len(stream') = n /\ n \in Nat
    <3>1. stream' = Append(stream, Head(nals)) /\ stream \in Seq({"param", "idr", "slice"})
      BY <1>2 DEF TypeInv, TypeOK, BeginNal
    <3> QED BY <2>1, <3>1
  <2>3. lastIDR' \in {n, lastIDR} /\ lastIDR \in 0..Len(stream) /\ Len(stream) \in Nat
    BY <1>2 DEF TypeInv, TypeOK, BeginNal
  <2>4. lastIDR' \in 0..Len(stream')
    BY <2>2, <2>3
  <2>5. cur' = [cur EXCEPT !["video"] = n] /\ phase' = [phase EXCEPT !["video"] = "begin"]
    BY <1>2 DEF BeginNal
  <2> HIDE DEF n
  <2>6. /\ cur' \in [Caster -> Nat \cup {NoMsg}] /\ phase' \in [Caster -> {"idle", "begin", "range"}]
        /\ \A b \in Caster : phase'[b] # "idle" => cur'[b] \in Nat
    BY <2>2, <2>5 DEF TypeInv, TypeOK
  <2>7. nals' \in Seq({"param", "idr", "slice"})
    BY <1>2, <2>1 DEF BeginNal
  <2>8. UNCHANGED <<handlerVars, connVars, registryVars, queueVars, injectedBy, todo, seen, chunks>>
    BY <1>2 DEF BeginNal
  <2>9. QED BY <2>2, <2>4, <2>6, <2>7, <2>8 DEF TypeInv, TypeOK
<1>3. CASE BeginChunk
  BY <1>3 DEF TypeInv, TypeOK, BeginChunk
<1>4. ASSUME NEW b \in Caster, RangeBegins(b) PROVE TypeInv'
  BY <1>4 DEF TypeInv, TypeOK, RangeBegins
<1>5. ASSUME NEW b \in Caster, RangeEnds(b) PROVE TypeInv'
  BY <1>5 DEF TypeInv, TypeOK, RangeEnds
<1>6. ASSUME NEW b \in Caster, NEW c \in Client, RangeVisits(b, c) PROVE TypeInv'
  <2>1. Send(c, cur[b]) /\ cur[b] \in Nat /\ TypeOK
    BY <1>6 DEF RangeVisits, TypeInv
  <2>2. QED BY <1>6, <2>1, SendTypes DEF TypeInv, TypeOK, RangeVisits
<1>7. QED
  BY <1>1, <1>2, <1>3, <1>4, <1>5, <1>6 DEF Cast

LEMMA TypeInvHolds == Spec => []TypeInv
<1>1. Init => TypeInv
  BY ClientsAssumption, LimitsAssumption DEF Init, TypeInv, TypeOK
<1>2. TypeInv /\ [Next]_vars => TypeInv'
  <2>1. CASE UNCHANGED vars
    BY <2>1 DEF vars, handlerVars, connVars, registryVars, queueVars, castVars, TypeInv, TypeOK
  <2>2. QED
    BY <2>1, HandlerTypes, ConnTypes, CastTypes DEF Next
<1>3. QED BY <1>1, <1>2, PTL DEF Spec

(* Every variable of the server keeps its type, and no client's channel    *)
(* ever holds more than writeBufferSize messages.                          *)
THEOREM TypeCorrect == Spec => []TypeOK
<1>1. TypeInv => TypeOK
  BY DEF TypeInv
<1>2. QED BY <1>1, TypeInvHolds, PTL

-----------------------------------------------------------------------------
(* The controller slot *)

(* What makes the exclusivity of input inductive: a handler that has not   *)
(* settled its role has no callback yet, one that has the callback and is  *)
(* still served holds the slot, and the slot is held by a served handler.  *)
ControlInv ==
  /\ \A c \in Client : pc[c] \in {"check", "accept"} => ~onText[c]
  /\ InputExclusive
  /\ ControllerServed

LEMMA HandlerControl ==
  ASSUME TypeInv, ControlInv, NEW c \in Client, Handler(c)
  PROVE  ControlInv'
<1> USE ClientsAssumption DEF TypeInv, TypeOK, ControlInv, InputExclusive, ControllerServed,
                              Serving, Step
<1>1. CASE Check(c)
  BY <1>1 DEF Check, registryVars
<1>2. CASE AcceptFails(c)
  BY <1>2 DEF AcceptFails, registryVars
<1>3. CASE Accept(c)
  <2>1. PICK role \in {"control", "view"} : Claim(c, role)
    BY <1>3 DEF Accept
  <2>2. CASE role = "control" /\ controller = NoClient
    BY <1>3, <2>1, <2>2 DEF Accept, Claim
  <2>3. CASE ~(role = "control" /\ controller = NoClient)
    BY <1>3, <2>1, <2>3 DEF Accept, Claim
  <2>4. QED BY <2>2, <2>3
<1>4. CASE Store(c)
  BY <1>4 DEF Store
<1>5. CASE CountIn(c)
  BY <1>5 DEF CountIn
<1>6. CASE LoadIDR(c)
  BY <1>6 DEF LoadIDR, registryVars
<1>7. CASE ReplayIDR(c)
  BY <1>7 DEF ReplayIDR, registryVars
<1>8. CASE NotifyReturns(c)
  BY <1>8 DEF NotifyReturns, registryVars
<1>9. CASE ReadText(c)
  BY <1>9 DEF ReadText, handlerVars, registryVars
<1>10. CASE ReadFails(c)
  BY <1>10 DEF ReadFails, registryVars
<1>11. CASE Delete(c)
  BY <1>11 DEF Delete
<1>12. CASE CountOut(c)
  BY <1>12 DEF CountOut
<1>13. CASE Release(c)
  BY <1>13 DEF Release
<1>14. QED
  BY <1>1, <1>2, <1>3, <1>4, <1>5, <1>6, <1>7, <1>8, <1>9, <1>10, <1>11, <1>12, <1>13
     DEF Handler

(* The pumps, the encoder and the broadcasters leave handlers and registry alone. *)
LEMMA OthersLeaveHandlers ==
  ASSUME NEW c \in Client,
         \/ ConnBreaks(c) \/ Pump(c)
         \/ Encode \/ BeginNal \/ BeginChunk
         \/ \E b \in Caster : Cast(b)
  PROVE  UNCHANGED <<handlerVars, registryVars, injectedBy>>
  BY DEF ConnBreaks, Pump, PumpTakes, PumpWrote, WriteFails, PingFails, PumpStops,
         Encode, BeginNal, BeginChunk, Cast, RangeBegins, RangeVisits, RangeEnds

LEMMA NextSplits ==
  ASSUME [Next]_vars
  PROVE  \/ \E c \in Client : Handler(c)
         \/ UNCHANGED <<handlerVars, registryVars, injectedBy>>
<1>1. CASE UNCHANGED vars
  BY <1>1 DEF vars
<1>2. ASSUME NEW c \in Client, ConnBreaks(c) \/ Pump(c)
      PROVE  UNCHANGED <<handlerVars, registryVars, injectedBy>>
  BY <1>2, OthersLeaveHandlers
<1>3. CASE Encode \/ BeginNal \/ BeginChunk \/ \E b \in Caster : Cast(b)
  BY <1>3 DEF Encode, BeginNal, BeginChunk, Cast, RangeBegins, RangeVisits, RangeEnds
<1>4. QED BY <1>1, <1>2, <1>3 DEF Next

LEMMA ControlInvHolds == Spec => []ControlInv
<1>1. Init => ControlInv
  BY DEF Init, ControlInv, InputExclusive, ControllerServed, Serving
<1>2. TypeInv /\ ControlInv /\ [Next]_vars => ControlInv'
  <2> SUFFICES ASSUME TypeInv, ControlInv, [Next]_vars PROVE ControlInv'
    OBVIOUS
  <2>1. CASE UNCHANGED <<handlerVars, registryVars, injectedBy>>
    BY <2>1 DEF handlerVars, registryVars, ControlInv, InputExclusive, ControllerServed
  <2>2. QED BY <2>1, NextSplits, HandlerControl
<1>3. QED BY <1>1, <1>2, TypeInvHolds, PTL DEF Spec

(* A connection that can inject input owns the controller slot, whatever   *)
(* the order in which handlers claim it, fail and leave.                   *)
THEOREM InputIsExclusive == Spec => []InputExclusive
<1>1. ControlInv => InputExclusive
  BY DEF ControlInv
<1>2. QED BY <1>1, ControlInvHolds, PTL

(* The slot is never held by a connection that is over. *)
THEOREM SlotHolderIsServed == Spec => []ControllerServed
<1>1. ControlInv => ControllerServed
  BY DEF ControlInv
<1>2. QED BY <1>1, ControlInvHolds, PTL

(* The handlers refine the lease: a claim that wins is Acquire, text read  *)
(* with a callback is Inject, the compare-and-swap on the way out is       *)
(* Release, or Leave for a connection that does not hold the slot.         *)
THEOREM HubImplementsLease == Spec => ImplementsLease
<1> USE DEF Lease!Init, Lease!Next, Lease!vars, At
<1>1. Init => Lease!Init
  BY DEF Init
<1>2. TypeInv /\ ControlInv /\ [Next]_vars => [Lease!Next]_Lease!vars
  <2> SUFFICES ASSUME TypeInv, ControlInv, [Next]_vars PROVE [Lease!Next]_Lease!vars
    OBVIOUS
  <2>1. CASE UNCHANGED <<handlerVars, registryVars, injectedBy>>
    BY <2>1 DEF handlerVars, registryVars
  <2>2. ASSUME NEW c \in Client, Handler(c) PROVE [Lease!Next]_Lease!vars
    <3> USE <2>2, ClientsAssumption DEF TypeInv, TypeOK, Step
    <3>1. CASE Accept(c)
      <4>1. UNCHANGED <<injectedBy, At({"gone"})>> /\ c \notin At({"gone"})
        BY <3>1 DEF Accept
      <4>2. CASE controller' = controller
        BY <4>1, <4>2
      <4>3. CASE controller = NoClient /\ controller' = c
        BY <4>1, <4>3 DEF Lease!Acquire
      <4>4. QED BY <3>1, <4>2, <4>3 DEF Accept, Claim
    <3>2. CASE ReadText(c)
      <4>1. UNCHANGED <<controller, pc>>
        BY <3>2 DEF ReadText, handlerVars, registryVars
      <4>2. CASE onText[c]
        <5>1. controller = c
          BY <3>2, <4>2 DEF ReadText, ControlInv, InputExclusive, Serving
        <5>2. QED BY <3>2, <4>1, <4>2, <5>1 DEF ReadText, Lease!Inject
      <4>3. CASE ~onText[c]
        BY <3>2, <4>1, <4>3 DEF ReadText
      <4>4. QED BY <4>2, <4>3
    <3>3. CASE Release(c)
      <4>1. At({"gone"})' = At({"gone"}) \cup {c} /\ UNCHANGED injectedBy
        BY <3>3 DEF Release
      <4>2. CASE controller = c
        BY <3>3, <4>1, <4>2 DEF Release, Lease!Release
      <4>3. CASE controller # c
        BY <3>3, <4>1, <4>3 DEF Release, Lease!Leave
      <4>4. QED BY <4>2, <4>3
    <3>4. CASE UNCHANGED <<controller, injectedBy, At({"gone"})>>
      BY <3>4
    <3>5. CASE Check(c) \/ AcceptFails(c) \/ Store(c) \/ CountIn(c) \/ LoadIDR(c)
               \/ ReplayIDR(c) \/ NotifyReturns(c) \/ ReadFails(c) \/ Delete(c) \/ CountOut(c)
      <4>1. UNCHANGED <<controller, injectedBy>>
        BY <3>5 DEF Check, AcceptFails, Store, CountIn, LoadIDR, ReplayIDR, NotifyReturns,
                    ReadFails, Delete, CountOut, registryVars
      <4>2. UNCHANGED At({"gone"})
        BY <3>5 DEF Check, AcceptFails, Store, CountIn, LoadIDR, ReplayIDR, NotifyReturns,
                    ReadFails, Delete, CountOut
      <4>3. QED BY <3>4, <4>1, <4>2
    <3>6. QED BY <3>1, <3>2, <3>3, <3>5 DEF Handler
  <2>3. QED BY <2>1, <2>2, NextSplits
<1>3. QED
  BY <1>1, <1>2, TypeInvHolds, ControlInvHolds, PTL DEF Spec, ImplementsLease, Lease!Spec

-----------------------------------------------------------------------------
(* The registry *)

Registered == {"count", "load", "replay", "notify", "read", "delete"}
Counted == {"load", "replay", "notify", "read", "delete", "uncount"}

(* count is a cardinality only while the handlers it counts are finitely   *)
(* many, which is kept because each enters by one step; Client need not be *)
(* finite.                                                                 *)
CountInv == CountExact /\ IsFiniteSet(At(Counted))

(* A handler step that moves in or out of neither set leaves both alone. *)
LEMMA StepKeepsSets ==
  ASSUME TypeOK, NEW c \in Client, NEW from, NEW to, Step(c, from, to),
         from \in Registered <=> to \in Registered,
         from \in Counted <=> to \in Counted
  PROVE  At(Registered)' = At(Registered) /\ At(Counted)' = At(Counted)
  BY DEF Step, At, TypeOK

LEMMA HandlerCounts ==
  ASSUME TypeInv, CountInv, NEW c \in Client, Handler(c)
  PROVE  CountInv'
<1> USE DEF CountInv, CountExact, TypeInv
<1>a. TypeOK BY DEF TypeInv
<1>b. /\ clients = At(Registered) /\ count = Cardinality(At(Counted))
      /\ IsFiniteSet(At(Counted)) /\ count \in Int
  BY DEF Registered, Counted, TypeOK
<1>c. ASSUME /\ At(Registered)' = clients'
             /\ IsFiniteSet(At(Counted)') /\ count' = Cardinality(At(Counted)')
      PROVE  CountInv'
  BY <1>c DEF Registered, Counted
<1>1. ASSUME NEW from, NEW to, Step(c, from, to),
             from \in Registered <=> to \in Registered,
             from \in Counted <=> to \in Counted,
             UNCHANGED <<clients, count>>
      PROVE  CountInv'
  <2>1. At(Registered)' = At(Registered) /\ At(Counted)' = At(Counted)
    BY <1>1, <1>a, StepKeepsSets
  <2>2. QED BY <2>1, <1>1, <1>b, <1>c
<1>2. CASE Store(c)
  <2>1. At(Registered)' = At(Registered) \cup {c} /\ At(Counted)' = At(Counted)
    BY <1>2, <1>a DEF Store, Step, At, Registered, Counted, TypeOK
  <2>2. QED BY <2>1, <1>2, <1>b, <1>c DEF Store
<1>3. CASE CountIn(c)
  <2>1. /\ At(Registered)' = At(Registered)
        /\ At(Counted)' = At(Counted) \cup {c} /\ c \notin At(Counted)
    BY <1>3, <1>a DEF CountIn, Step, At, Registered, Counted, TypeOK
  <2>2. /\ IsFiniteSet(At(Counted) \cup {c})
        /\ Cardinality(At(Counted) \cup {c}) = Cardinality(At(Counted)) + 1
    BY <2>1, <1>b, FS_AddElement
  <2>3. QED BY <2>1, <2>2, <1>3, <1>b, <1>c DEF CountIn
<1>4. CASE Delete(c)
  <2>1. At(Registered)' = At(Registered) \ {c} /\ At(Counted)' = At(Counted)
    BY <1>4, <1>a DEF Delete, Step, At, Registered, Counted, TypeOK
  <2>2. QED BY <2>1, <1>4, <1>b, <1>c DEF Delete
<1>5. CASE CountOut(c)
  <2>1. /\ At(Registered)' = At(Registered)
        /\ At(Counted)' = At(Counted) \ {c} /\ c \in At(Counted)
    BY <1>5, <1>a DEF CountOut, Step, At, Registered, Counted, TypeOK
  <2>2. /\ IsFiniteSet(At(Counted) \ {c})
        /\ Cardinality(At(Counted) \ {c}) = Cardinality(At(Counted)) - 1
    BY <2>1, <1>b, FS_RemoveElement
  <2>3. QED BY <2>1, <2>2, <1>5, <1>b, <1>c DEF CountOut
<1>6. CASE ReadText(c)
  BY <1>6 DEF ReadText, handlerVars, registryVars, At
<1>7. CASE Check(c)
  <2>1. CASE count >= MaxClients
    <3>1. Step(c, "check", "refused") /\ UNCHANGED <<clients, count>>
      BY <1>7, <2>1 DEF Check, registryVars
    <3>2. QED BY <3>1, <1>1 DEF Registered, Counted
  <2>2. CASE ~(count >= MaxClients)
    <3>1. Step(c, "check", "accept") /\ UNCHANGED <<clients, count>>
      BY <1>7, <2>2 DEF Check, registryVars
    <3>2. QED BY <3>1, <1>1 DEF Registered, Counted
  <2>3. QED BY <2>1, <2>2
<1>8. CASE AcceptFails(c)
  BY <1>8, <1>1 DEF AcceptFails, registryVars, Registered, Counted
<1>9. CASE Accept(c)
  BY <1>9, <1>1 DEF Accept, Registered, Counted
<1>10. CASE LoadIDR(c)
  BY <1>10, <1>1 DEF LoadIDR, registryVars, Registered, Counted
<1>11. CASE ReplayIDR(c)
  BY <1>11, <1>1 DEF ReplayIDR, registryVars, Registered, Counted
<1>12. CASE NotifyReturns(c)
  BY <1>12, <1>1 DEF NotifyReturns, registryVars, Registered, Counted
<1>13. CASE ReadFails(c)
  BY <1>13, <1>1 DEF ReadFails, registryVars, Registered, Counted
<1>14. CASE Release(c)
  BY <1>14, <1>1 DEF Release, Registered, Counted
<1>15. QED
  BY <1>2, <1>3, <1>4, <1>5, <1>6, <1>7, <1>8, <1>9, <1>10, <1>11, <1>12, <1>13, <1>14
     DEF Handler

LEMMA CountInvHolds == Spec => []CountInv
<1>1. Init => CountInv
  <2> SUFFICES ASSUME Init PROVE CountInv
    OBVIOUS
  <2>1. At(Registered) = {} /\ At(Counted) = {}
    BY DEF Init, At, Registered, Counted
  <2>2. QED BY <2>1, FS_EmptySet DEF Init, CountInv, CountExact, Registered, Counted
<1>2. TypeInv /\ CountInv /\ [Next]_vars => CountInv'
  <2> SUFFICES ASSUME TypeInv, CountInv, [Next]_vars PROVE CountInv'
    OBVIOUS
  <2>1. CASE UNCHANGED <<handlerVars, registryVars, injectedBy>>
    BY <2>1 DEF handlerVars, registryVars, CountInv, CountExact, At
  <2>2. QED BY <2>1, NextSplits, HandlerCounts
<1>3. QED BY <1>1, <1>2, TypeInvHolds, PTL DEF Spec

(* count agrees with the registry except for handlers that are between     *)
(* Store and Add(1), or between Delete and Add(-1).                        *)
THEOREM CountIsExact == Spec => []CountExact
<1>1. CountInv => CountExact
  BY DEF CountInv
<1>2. QED BY <1>1, CountInvHolds, PTL

-----------------------------------------------------------------------------
(* That a client which registers while the stream is running never misses  *)
(* the latest IDR, and hears nothing twice but the replay of an IDR: the   *)
(* argument is about the order of four steps, the handler's Store and      *)
(* LoadIDR, and the broadcaster's update of lastIDR and its Range.         *)

(* The cache holds the latest IDR; a broadcaster outside Broadcast holds   *)
(* no message, inside it holds the newest one.                             *)
CacheInv ==
  /\ phase["video"] = "idle" => cur["video"] = NoMsg
  /\ phase["video"] # "idle" => cur["video"] = Len(stream)
  /\ lastIDR = NoIDR => \A m \in 1..Len(stream) : stream[m] # "idr"
  /\ lastIDR # NoIDR => LatestIDR(lastIDR)

Given(c, n) == n \in Handed(c) \cup lost[c] \/ StillComing(c, n)

(* NoMissedCheckpoint, and the obligation a handler carries from LoadIDR   *)
(* to ReplayIDR: what it loaded is the latest, or Broadcast has provided.  *)
CheckpointInv ==
  \A c \in Client : \A n \in 1..Len(stream) : LatestIDR(n) =>
    /\ pc[c] = "replay" => idr[c] = n \/ Given(c, n)
    /\ pc[c] \in {"notify", "read"} => Given(c, n)

LEMMA LatestIsUnique ==
  ASSUME TypeOK, NEW n, NEW m, LatestIDR(n), LatestIDR(m)
  PROVE  n = m
<1>1. Len(stream) \in Nat /\ n \in 1..Len(stream) /\ m \in 1..Len(stream)
  BY DEF TypeOK, LatestIDR
<1>2. ~(n < m) /\ ~(m < n)
  BY <1>1 DEF LatestIDR
<1>3. QED BY <1>1, <1>2

(* A message given to Send is kept or recorded as lost, and nothing that   *)
(* was given before disappears.                                            *)
LEMMA SendGives ==
  ASSUME TypeOK, NEW d \in Client, NEW m \in Nat, Send(d, m)
  PROVE  /\ m # AudioMsg => m \in Handed(d)' \cup lost'[d]
         /\ \A c \in Client : Handed(c) \subseteq Handed(c)' /\ lost[c] \subseteq lost'[c]
<1>1. CASE Enqueue(d, m)
  <2>1. lost' = lost /\ handed \in [Client -> Seq(Nat)]
    BY <1>1 DEF Enqueue, TypeOK
  <2>2. CASE m = AudioMsg
    <3>1. handed' = handed
      BY <1>1, <2>1, <2>2 DEF Enqueue
    <3>2. QED BY <2>1, <2>2, <3>1 DEF Handed
  <2>3. CASE m # AudioMsg
    <3> DEFINE h == Append(handed[d], m)
    <3>1. handed' = [handed EXCEPT ![d] = h]
      BY <1>1, <2>3 DEF Enqueue
    <3>2. /\ h \in Seq(Nat) /\ DOMAIN h = 1..(Len(handed[d]) + 1)
          /\ DOMAIN handed[d] = 1..Len(handed[d]) /\ Len(handed[d]) \in Nat
          /\ h[Len(handed[d]) + 1] = m
          /\ \A i \in 1..Len(handed[d]) : h[i] = handed[d][i]
      BY <2>1
    <3> HIDE DEF h
    <3>3. m \in Handed(d)'
      BY <3>1, <3>2, <2>1 DEF Handed
    <3>4. ASSUME NEW c \in Client PROVE Handed(c) \subseteq Handed(c)'
      <4>1. CASE c = d
        BY <4>1, <3>1, <3>2, <2>1 DEF Handed
      <4>2. CASE c # d
        BY <4>2, <3>1, <2>1 DEF Handed
      <4>3. QED BY <4>1, <4>2
    <3>5. QED BY <2>1, <3>3, <3>4
  <2>4. QED BY <2>2, <2>3
<1>2. CASE Drop(d, m)
  BY <1>2 DEF Drop, TypeOK, Handed
<1>3. QED BY <1>1, <1>2 DEF Send

LEMMA CacheStep ==
  ASSUME TypeInv, CacheInv, [Next]_vars
  PROVE  CacheInv'
<1> USE DEF TypeInv, CacheInv, LatestIDR
<1>1. CASE UNCHANGED castVars
  BY <1>1 DEF castVars
<1>2. CASE BeginNal
  <2> DEFINE n == Len(stream) + 1
  <2>1. /\ stream' = Append(stream, Head(nals)) /\ stream \in Seq({"param", "idr", "slice"})
        /\ Head(nals) \in {"param", "idr", "slice"}
        /\ lastIDR' = IF Head(nals) = "idr" THEN n ELSE lastIDR
        /\ lastIDR \in 0..Len(stream)
    BY <1>2 DEF BeginNal, TypeOK, IsIDR
  <2>2. /\ Len(stream') = n /\ n \in Nat \ {0} /\ stream'[n] = Head(nals)
        /\ \A m \in 1..Len(stream) : stream'[m] = stream[m]
    BY <2>1
  <2>3. phase'["video"] = "begin" /\ cur'["video"] = n
    BY <1>2 DEF BeginNal, TypeOK
  <2>4. n = Len(stream) + 1 /\ Len(stream) \in Nat
    BY <2>1
  <2> HIDE DEF n
  <2>5. CASE Head(nals) = "idr"
    <3>1. lastIDR' = n /\ LatestIDR(lastIDR)'
      BY <2>1, <2>2, <2>4, <2>5
    <3>2. QED BY <2>2, <2>3, <3>1
  <2>6. CASE Head(nals) # "idr"
    <3>1. lastIDR' = lastIDR
      BY <2>1, <2>6
    <3>2. CASE lastIDR = NoIDR
      BY <2>1, <2>2, <2>3, <2>4, <2>6, <3>1, <3>2
    <3>3. CASE lastIDR # NoIDR
      BY <2>1, <2>2, <2>3, <2>4, <2>6, <3>1, <3>3
    <3>4. QED BY <3>2, <3>3
  <2>7. QED BY <2>5, <2>6
<1>3. CASE Encode
  BY <1>3 DEF Encode
<1>4. CASE BeginChunk
  BY <1>4 DEF BeginChunk, TypeOK
<1>5. ASSUME NEW b \in Caster, Cast(b) PROVE CacheInv'
  <2>1. UNCHANGED <<stream, lastIDR>>
    BY <1>5 DEF Cast, RangeBegins, RangeEnds, RangeVisits
  <2>2. CASE RangeBegins(b)
    BY <2>1, <2>2 DEF RangeBegins, TypeOK
  <2>3. CASE RangeEnds(b)
    BY <2>1, <2>3 DEF RangeEnds, TypeOK
  <2>4. CASE \E c \in Client : RangeVisits(b, c)
    BY <2>1, <2>4 DEF RangeVisits
  <2>5. QED BY <1>5, <2>2, <2>3, <2>4 DEF Cast
<1>6. ASSUME NEW c \in Client, Handler(c) \/ ConnBreaks(c) \/ Pump(c) PROVE CacheInv'
  <2>1. UNCHANGED castVars
    BY <1>6 DEF Handler, Check, AcceptFails, Accept, Store, CountIn, LoadIDR, ReplayIDR,
                NotifyReturns, ReadText, ReadFails, Delete, CountOut, Release, ConnBreaks,
                Pump, PumpTakes, PumpWrote, WriteFails, PingFails, PumpStops
  <2>2. QED BY <1>1, <2>1
<1>7. CASE UNCHANGED vars
  BY <1>1, <1>7 DEF vars
<1>8. QED BY <1>2, <1>3, <1>4, <1>5, <1>6, <1>7 DEF Next

-----------------------------------------------------------------------------
(* Steps that leave the stream and the broadcasters alone *)

(* Such a step changes neither what a client has been given or is about to *)
(* be given, nor which IDR is the latest.                                  *)
LEMMA StreamStill ==
  ASSUME UNCHANGED <<castVars, handed, lost>>
  PROVE  /\ \A d, n : Given(d, n)' <=> Given(d, n)
         /\ \A n : LatestIDR(n)' <=> LatestIDR(n)
  BY DEF Given, StillComing, Handed, LatestIDR, castVars

(* While the stream, the broadcasters and the histories stand still, only  *)
(* the handler that moves has anything to show.                            *)
LEMMA StillStep ==
  ASSUME TypeInv, CheckpointInv, NEW c \in Client, NEW from, NEW to,
         Step(c, from, to), to \notin {"replay", "notify", "read"},
         UNCHANGED <<idr, castVars, handed, lost>>
  PROVE  CheckpointInv'
<1>1. /\ \A d, n : Given(d, n)' <=> Given(d, n)
      /\ \A n : LatestIDR(n)' <=> LatestIDR(n)
  BY StreamStill
<1>2. /\ pc' = [pc EXCEPT ![c] = to] /\ pc'[c] = to
      /\ \A d \in Client : d # c => pc'[d] = pc[d]
  BY DEF Step, TypeInv, TypeOK
<1>3. UNCHANGED <<idr, stream>>
  BY DEF castVars
<1>4. QED BY <1>1, <1>2, <1>3 DEF CheckpointInv

LEMMA HandlerCheckpoint ==
  ASSUME TypeInv, CacheInv, CheckpointInv, NEW c \in Client, Handler(c)
  PROVE  CheckpointInv'
<1> USE DEF TypeInv
<1>1. CASE Check(c)
  <2>1. PICK to \in {"refused", "accept"} : Step(c, "check", to)
    BY <1>1 DEF Check
  <2>2. QED BY <1>1, <2>1, StillStep DEF Check, queueVars
<1>2. CASE AcceptFails(c)
  BY <1>2, StillStep DEF AcceptFails, queueVars
<1>3. CASE Accept(c)
  BY <1>3, StillStep DEF Accept, queueVars
<1>4. CASE Store(c)
  BY <1>4, StillStep DEF Store, queueVars
<1>5. CASE CountIn(c)
  BY <1>5, StillStep DEF CountIn, queueVars
<1>6. CASE LoadIDR(c)
  <2>1. /\ pc' = [pc EXCEPT ![c] = "replay"] /\ idr' = [idr EXCEPT ![c] = lastIDR]
        /\ UNCHANGED <<castVars, handed, lost>>
    BY <1>6 DEF LoadIDR, Step, queueVars
  <2>2. \A n \in 1..Len(stream) : LatestIDR(n) => n = lastIDR
    <3>1. ASSUME NEW n \in 1..Len(stream), LatestIDR(n) PROVE n = lastIDR
      <4>1. CASE lastIDR = NoIDR
        BY <3>1, <4>1 DEF CacheInv, LatestIDR
      <4>2. CASE lastIDR # NoIDR
        BY <3>1, <4>2, LatestIsUnique DEF CacheInv
      <4>3. QED BY <4>1, <4>2
    <3>2. QED BY <3>1
  <2>3. /\ \A d, n : Given(d, n)' <=> Given(d, n)
        /\ \A n : LatestIDR(n)' <=> LatestIDR(n)
    BY <2>1, StreamStill
  <2>4. /\ pc'[c] = "replay" /\ idr'[c] = lastIDR /\ UNCHANGED stream
        /\ \A d \in Client : d # c => pc'[d] = pc[d] /\ idr'[d] = idr[d]
    BY <2>1 DEF TypeOK, castVars
  <2>5. QED BY <2>2, <2>3, <2>4 DEF CheckpointInv
<1>7. CASE ReplayIDR(c)
  <2>1. /\ pc[c] = "replay" /\ pc' = [pc EXCEPT ![c] = "notify"]
        /\ UNCHANGED <<castVars, idr>>
        /\ IF idr[c] # NoIDR THEN Send(c, idr[c]) ELSE UNCHANGED queueVars
    BY <1>7 DEF ReplayIDR, Step
  <2>2. \A d \in Client : Handed(d) \subseteq Handed(d)' /\ lost[d] \subseteq lost'[d]
    <3>1. CASE idr[c] # NoIDR
      BY <2>1, <3>1, SendGives DEF TypeOK
    <3>2. CASE idr[c] = NoIDR
      BY <2>1, <3>2 DEF queueVars, Handed
    <3>3. QED BY <3>1, <3>2
  <2>3. idr[c] # NoIDR => idr[c] \in Handed(c)' \cup lost'[c]
    BY <2>1, SendGives DEF TypeOK
  <2>4. \A d \in Client, n \in Nat : Given(d, n) => Given(d, n)'
    BY <2>1, <2>2 DEF Given, StillComing, castVars
  <2>5. \A n \in 1..Len(stream) : idr[c] = n => Given(c, n)'
    BY <2>3 DEF Given, TypeOK
  <2>6. \A n : LatestIDR(n)' <=> LatestIDR(n)
    BY <2>1 DEF LatestIDR, castVars
  <2>7. Len(stream) \in Nat /\ stream' = stream
    BY <2>1 DEF TypeOK, castVars
  <2>8. QED BY <2>1, <2>4, <2>5, <2>6, <2>7 DEF CheckpointInv, TypeOK
<1>8. CASE NotifyReturns(c)
  <2>1. UNCHANGED <<idr, castVars, handed, lost>> /\ pc[c] = "notify"
    BY <1>8 DEF NotifyReturns, Step, queueVars
  <2>2. pc'[c] = "read" /\ \A d \in Client : d # c => pc'[d] = pc[d]
    BY <1>8 DEF NotifyReturns, Step, TypeOK
  <2>3. UNCHANGED <<idr, stream>>
    BY <2>1 DEF castVars
  <2>4. QED BY <2>1, <2>2, <2>3, StreamStill DEF CheckpointInv
<1>9. CASE ReadText(c)
  BY <1>9 DEF ReadText, handlerVars, queueVars, castVars, CheckpointInv, Given,
              StillComing, Handed, LatestIDR
<1>10. CASE ReadFails(c)
  BY <1>10, StillStep DEF ReadFails, queueVars
<1>11. CASE Delete(c)
  BY <1>11, StillStep DEF Delete, queueVars
<1>12. CASE CountOut(c)
  BY <1>12, StillStep DEF CountOut, queueVars
<1>13. CASE Release(c)
  BY <1>13, StillStep DEF Release, queueVars
<1>14. QED
  BY <1>1, <1>2, <1>3, <1>4, <1>5, <1>6, <1>7, <1>8, <1>9, <1>10, <1>11, <1>12, <1>13
     DEF Handler

-----------------------------------------------------------------------------
(* Steps of the broadcasters *)

(* What was given stays given when nobody's history shrinks and no Range   *)
(* of video moves.                                                         *)
LEMMA CastCheckpoint ==
  ASSUME TypeInv, CacheInv, CheckpointInv, CountExact,
         Encode \/ BeginNal \/ BeginChunk \/ \E b \in Caster : Cast(b)
  PROVE  CheckpointInv'
<1> USE DEF TypeInv
<1>1. UNCHANGED <<pc, idr, clients>>
  BY DEF Encode, BeginNal, BeginChunk, Cast, RangeBegins, RangeVisits, RangeEnds,
         handlerVars, registryVars
<1>2. ASSUME UNCHANGED stream, \A c \in clients, n \in Nat \ {0} : Given(c, n) => Given(c, n)'
      PROVE  CheckpointInv'
  <2>1. \A n : LatestIDR(n)' <=> LatestIDR(n)
    BY <1>2 DEF LatestIDR
  <2>2. \A c \in Client : pc[c] \in {"replay", "notify", "read"} => c \in clients
    BY DEF CountExact, At
  <2>3. QED BY <1>1, <1>2, <2>1, <2>2 DEF CheckpointInv, TypeOK
<1>3. CASE Encode
  BY <1>2, <1>3 DEF Encode, queueVars, Given, StillComing, Handed
<1>4. CASE BeginNal
  <2> DEFINE k == Len(stream) + 1
  <2>1. /\ stream' = Append(stream, Head(nals)) /\ stream \in Seq({"param", "idr", "slice"})
        /\ phase["video"] = "idle" /\ phase'["video"] = "begin" /\ cur'["video"] = k
        /\ UNCHANGED <<handed, lost>> /\ Len(stream) \in Nat
    BY <1>4 DEF BeginNal, queueVars, TypeOK
  <2>2. /\ Len(stream') = k /\ k \in Nat /\ k = Len(stream) + 1
        /\ \A m \in 1..Len(stream) : stream'[m] = stream[m]
    BY <2>1
  <2> HIDE DEF k
  <2>3. ASSUME NEW c \in Client, NEW n \in 1..Len(stream'), LatestIDR(n)'
        PROVE  /\ pc[c] = "replay" => idr[c] = n \/ Given(c, n)'
               /\ pc[c] \in {"notify", "read"} => Given(c, n)'
    <3>1. CASE n = k
      BY <2>1, <3>1 DEF Given, StillComing
    <3>2. CASE n # k
      <4>1. n \in 1..Len(stream) /\ LatestIDR(n)
        BY <2>1, <2>2, <2>3, <3>2 DEF LatestIDR
      <4>2. ~StillComing(c, n)
        BY <2>1, <4>1 DEF StillComing, CacheInv
      <4>3. QED BY <2>1, <4>1, <4>2 DEF CheckpointInv, Given, Handed
    <3>3. QED BY <3>1, <3>2
  <2>4. QED BY <1>1, <2>3 DEF CheckpointInv
<1>5. CASE BeginChunk
  BY <1>2, <1>5 DEF BeginChunk, queueVars, Given, StillComing, Handed, TypeOK
<1>6. ASSUME NEW b \in Caster, RangeBegins(b) PROVE CheckpointInv'
  BY <1>2, <1>6 DEF RangeBegins, queueVars, Given, StillComing, Handed, TypeOK
<1>7. ASSUME NEW b \in Caster, RangeEnds(b) PROVE CheckpointInv'
  BY <1>2, <1>7 DEF RangeEnds, queueVars, Given, StillComing, Handed, TypeOK
<1>8. ASSUME NEW b \in Caster, NEW d \in Client, RangeVisits(b, d) PROVE CheckpointInv'
  <2>1. /\ Send(d, cur[b]) /\ cur[b] \in Nat
        /\ seen' = [seen EXCEPT ![b] = @ \cup {d}]
        /\ UNCHANGED <<stream, phase, cur, todo>>
    BY <1>8 DEF RangeVisits
  <2>2. /\ \A c \in Client : Handed(c) \subseteq Handed(c)' /\ lost[c] \subseteq lost'[c]
        /\ cur[b] # AudioMsg => cur[b] \in Handed(d)' \cup lost'[d]
    BY <2>1, SendGives
  <2>3. ASSUME NEW c \in clients, NEW n \in Nat \ {0}, Given(c, n) PROVE Given(c, n)'
    <3>1. c \in Client
      BY DEF TypeOK
    <3>2. CASE n \in Handed(c) \cup lost[c]
      BY <2>2, <3>1, <3>2 DEF Given
    <3>3. CASE StillComing(c, n) /\ b = "video" /\ c = d
      BY <2>2, <3>3 DEF Given, StillComing
    <3>4. CASE StillComing(c, n) /\ ~(b = "video" /\ c = d)
      BY <2>1, <3>4 DEF Given, StillComing, TypeOK
    <3>5. QED BY <2>3, <3>2, <3>3, <3>4 DEF Given
  <2>4. QED BY <1>2, <2>1, <2>3
<1>9. QED BY <1>3, <1>4, <1>5, <1>6, <1>7, <1>8 DEF Cast

LEMMA CheckpointInvHolds == Spec => [](CacheInv /\ CheckpointInv)
<1>1. Init => CacheInv /\ CheckpointInv
  BY DEF Init, CacheInv, CheckpointInv
<1>2. TypeInv /\ CountInv /\ (CacheInv /\ CheckpointInv) /\ [Next]_vars
        => (CacheInv /\ CheckpointInv)'
  <2> SUFFICES ASSUME TypeInv, CountInv, CacheInv, CheckpointInv, [Next]_vars
               PROVE  CheckpointInv'
    BY CacheStep
  <2>1. ASSUME NEW c \in Client, ConnBreaks(c) \/ Pump(c) PROVE CheckpointInv'
    <3>1. UNCHANGED <<pc, idr, handed, lost, castVars>>
      BY <2>1 DEF ConnBreaks, Pump, PumpTakes, PumpWrote, WriteFails, PingFails, PumpStops,
                  handlerVars, queueVars
    <3>2. QED
      BY <3>1 DEF castVars, CheckpointInv, Given, StillComing, Handed, LatestIDR
  <2>2. CASE UNCHANGED vars
    BY <2>2 DEF vars, handlerVars, queueVars, castVars, CheckpointInv, Given, StillComing,
                Handed, LatestIDR
  <2>3. CountExact
    BY DEF CountInv
  <2>4. QED
    BY <2>1, <2>2, <2>3, HandlerCheckpoint, CastCheckpoint DEF Next
<1>3. QED BY <1>1, <1>2, TypeInvHolds, CountInvHolds, PTL DEF Spec

-----------------------------------------------------------------------------
(* The order of a client's video *)

(* The places where a video message does not follow the one before it.     *)
Backs(s) == {i \in 2..Len(s) : s[i] <= s[i - 1]}

BeforeReplay(c) == pc[c] \in {"check", "refused", "accept", "store", "count", "load", "replay"}

(* Broadcast has begun with its newest NAL and not yet visited the client. *)
Unseen(c) ==
  \/ phase["video"] = "begin"
  \/ phase["video"] = "range" /\ c \notin seen["video"]

(* A client whose replay is still to come has nothing out of order; one    *)
(* that Broadcast still has to visit has only older NALs, or its replay    *)
(* was the newest NAL itself, and then nothing is out of order yet.        *)
InOrder(c) ==
  /\ idr[c] # NoIDR => idr[c] \in 1..Len(stream) /\ stream[idr[c]] = "idr"
  /\ \A i \in 1..Len(handed[c]) : handed[c][i] \in 1..Len(stream)
  /\ \A i \in Backs(handed[c]) : stream[handed[c][i]] = "idr"
  /\ \A i, j \in Backs(handed[c]) : i = j
  /\ BeforeReplay(c) => Backs(handed[c]) = {}
  /\ Unseen(c) =>
       \/ \A i \in 1..Len(handed[c]) : handed[c][i] < Len(stream)
       \/ Backs(handed[c]) = {} /\ ~BeforeReplay(c) /\ stream[Len(stream)] = "idr"

ReplayInv ==
  /\ \A c \in Client : InOrder(c)
  /\ cur["audio"] \in {NoMsg, AudioMsg}

LEMMA AppendBacks ==
  ASSUME NEW s \in Seq(Nat), NEW n \in Nat
  PROVE  /\ Append(s, n) \in Seq(Nat) /\ Len(Append(s, n)) = Len(s) + 1 /\ Len(s) \in Nat
         /\ Append(s, n)[Len(s) + 1] = n
         /\ \A i \in 1..Len(s) : Append(s, n)[i] = s[i]
         /\ Backs(Append(s, n)) \subseteq Backs(s) \cup {Len(s) + 1}
         /\ (\A i \in 1..Len(s) : s[i] < n) => Backs(Append(s, n)) \subseteq Backs(s)
<1> DEFINE h == Append(s, n)
<1>1. /\ h \in Seq(Nat) /\ Len(h) = Len(s) + 1 /\ Len(s) \in Nat
      /\ h[Len(s) + 1] = n /\ \A i \in 1..Len(s) : h[i] = s[i]
  OBVIOUS
<1> HIDE DEF h
<1>2. ASSUME NEW i \in Backs(h), i # Len(s) + 1 PROVE i \in Backs(s)
  <2>1. i \in 2..Len(s) /\ i \in 1..Len(s) /\ i - 1 \in 1..Len(s)
    BY <1>1, <1>2 DEF Backs
  <2>2. h[i] = s[i] /\ h[i - 1] = s[i - 1] /\ h[i] <= h[i - 1]
    BY <1>1, <1>2, <2>1 DEF Backs
  <2>3. QED BY <2>1, <2>2 DEF Backs
<1>3. ASSUME \A i \in 1..Len(s) : s[i] < n, Len(s) + 1 \in Backs(h) PROVE FALSE
  <2>1. Len(s) + 1 \in 2..Len(h) /\ h[Len(s) + 1] <= h[(Len(s) + 1) - 1]
    BY <1>3 DEF Backs
  <2>2. Len(s) \in 1..Len(s) /\ (Len(s) + 1) - 1 = Len(s)
    BY <1>1, <2>1
  <2>3. n <= s[Len(s)] /\ s[Len(s)] < n /\ s[Len(s)] \in Nat
    BY <1>1, <1>3, <2>1, <2>2
  <2>4. QED BY <2>3
<1>4. QED BY <1>1, <1>2, <1>3 DEF h

(* Only what happens to a client's own messages, to the broadcast or to    *)
(* its place before the replay can disturb its order.                      *)
LEMMA StillInOrder ==
  ASSUME NEW c \in Client, InOrder(c), UNCHANGED stream,
         handed'[c] = handed[c],
         idr'[c] # NoIDR => idr'[c] \in 1..Len(stream) /\ stream[idr'[c]] = "idr",
         BeforeReplay(c)' <=> BeforeReplay(c), Unseen(c)' => Unseen(c)
  PROVE  InOrder(c)'
  BY DEF InOrder

(* The handler sends the cached IDR, once.                                 *)
LEMMA ReplayInOrder ==
  ASSUME TypeInv, ReplayInv, NEW c \in Client, ReplayIDR(c)
  PROVE  InOrder(c)'
<1>1. /\ pc[c] = "replay" /\ pc'[c] = "notify"
      /\ UNCHANGED <<idr, stream, phase, seen>>
      /\ IF idr[c] # NoIDR THEN Send(c, idr[c]) ELSE UNCHANGED handed
  BY DEF ReplayIDR, Step, TypeInv, TypeOK, castVars, queueVars
<1>2. /\ InOrder(c) /\ BeforeReplay(c) /\ ~BeforeReplay(c)' /\ Backs(handed[c]) = {}
      /\ handed[c] \in Seq(Nat) /\ stream \in Seq({"param", "idr", "slice"})
      /\ Unseen(c)' <=> Unseen(c)
  BY <1>1 DEF ReplayInv, InOrder, BeforeReplay, TypeInv, TypeOK, Unseen
<1>3. CASE handed'[c] = handed[c]
  BY <1>1, <1>2, <1>3 DEF InOrder
<1>4. CASE handed'[c] # handed[c]
  <2> DEFINE n == idr[c]
             s == handed[c]
  <2>1. /\ n \in 1..Len(stream) /\ n \in Nat /\ stream[n] = "idr" /\ Len(stream) \in Nat
        /\ handed'[c] = Append(s, n)
    <3>1. n # NoIDR
      BY <1>1, <1>4
    <3>2. n \in 1..Len(stream) /\ stream[n] = "idr" /\ Len(stream) \in Nat
      BY <1>2, <3>1 DEF InOrder
    <3>3. handed'[c] = Append(s, n)
      BY <1>1, <1>4, <3>1, <3>2 DEF Send, Enqueue, Drop, TypeInv, TypeOK
    <3>4. QED BY <3>2, <3>3
  <2>2. /\ Len(handed'[c]) = Len(s) + 1 /\ Len(s) \in Nat /\ handed'[c][Len(s) + 1] = n
        /\ \A i \in 1..Len(s) : handed'[c][i] = s[i]
        /\ Backs(handed'[c]) \subseteq {Len(s) + 1}
        /\ (\A i \in 1..Len(s) : s[i] < n) => Backs(handed'[c]) = {}
    <3>1. s \in Seq(Nat) /\ n \in Nat /\ Backs(s) = {} /\ handed'[c] = Append(s, n)
      BY <1>2, <2>1
    <3> HIDE DEF n, s
    <3>2. /\ Backs(Append(s, n)) \subseteq Backs(s) \cup {Len(s) + 1}
          /\ (\A i \in 1..Len(s) : s[i] < n) => Backs(Append(s, n)) \subseteq Backs(s)
      BY <3>1, AppendBacks
    <3>3. /\ Len(Append(s, n)) = Len(s) + 1 /\ Len(s) \in Nat
          /\ Append(s, n)[Len(s) + 1] = n /\ \A i \in 1..Len(s) : Append(s, n)[i] = s[i]
      BY <3>1, AppendBacks
    <3>4. QED BY <3>1, <3>2, <3>3
  <2>3. \A i \in 1..Len(s) : s[i] \in 1..Len(stream)
    BY <1>2 DEF InOrder
  <2>4. /\ idr'[c] = n /\ n \in 1..Len(stream) /\ stream[n] = "idr" /\ stream' = stream
    BY <1>1, <2>1
  <2> HIDE DEF n, s
  <2>5. \A i \in 1..Len(handed'[c]) : handed'[c][i] \in 1..Len(stream)
    <3>1. ASSUME NEW i \in 1..Len(handed'[c]), i # Len(s) + 1 PROVE i \in 1..Len(s)
      BY <2>2, <3>1
    <3>2. QED BY <2>1, <2>2, <2>3, <3>1
  <2>6. /\ \A i \in Backs(handed'[c]) : stream[handed'[c][i]] = "idr"
        /\ \A i, j \in Backs(handed'[c]) : i = j
    BY <2>1, <2>2
  <2>7. ASSUME Unseen(c)
        PROVE  \/ \A i \in 1..Len(handed'[c]) : handed'[c][i] < Len(stream)
               \/ Backs(handed'[c]) = {} /\ stream[Len(stream)] = "idr"
    <3>1. \A i \in 1..Len(s) : s[i] < Len(stream)
      BY <1>2, <2>7 DEF InOrder, s
    <3>2. CASE n = Len(stream)
      BY <2>1, <2>2, <3>1, <3>2
    <3>3. CASE n # Len(stream)
      <4>1. n < Len(stream)
        BY <2>1, <3>3
      <4>2. ASSUME NEW i \in 1..Len(handed'[c]), i # Len(s) + 1 PROVE i \in 1..Len(s)
        BY <2>2, <4>2
      <4>3. QED BY <2>2, <3>1, <4>1, <4>2
    <3>4. QED BY <3>2, <3>3
  <2>8. QED BY <1>2, <2>4, <2>5, <2>6, <2>7 DEF InOrder
<1>5. QED BY <1>3, <1>4

(* Broadcast visits the client with the newest NAL.                        *)
LEMMA VisitInOrder ==
  ASSUME TypeInv, CacheInv, ReplayInv, NEW c \in Client, RangeVisits("video", c)
  PROVE  InOrder(c)'
<1> DEFINE n == Len(stream)
           s == handed[c]
<1>1. /\ cur["video"] = n /\ Unseen(c) /\ ~Unseen(c)' /\ Send(c, cur["video"])
      /\ UNCHANGED <<pc, idr, stream>> /\ n \in Nat /\ s \in Seq(Nat) /\ InOrder(c)
      /\ (BeforeReplay(c)' <=> BeforeReplay(c))
  BY DEF RangeVisits, Unseen, CacheInv, TypeInv, TypeOK, handlerVars, ReplayInv, BeforeReplay
<1>2. CASE handed'[c] = handed[c]
  BY <1>1, <1>2 DEF InOrder
<1>3. CASE handed'[c] # handed[c]
  <2>1. handed'[c] = Append(s, n) /\ n # 0
    BY <1>1, <1>3 DEF Send, Enqueue, Drop, TypeInv, TypeOK
  <2>2. /\ Len(handed'[c]) = Len(s) + 1 /\ Len(s) \in Nat /\ handed'[c][Len(s) + 1] = n
        /\ \A i \in 1..Len(s) : handed'[c][i] = s[i]
        /\ Backs(handed'[c]) \subseteq Backs(s) \cup {Len(s) + 1}
        /\ (\A i \in 1..Len(s) : s[i] < n) => Backs(handed'[c]) \subseteq Backs(s)
    <3>1. s \in Seq(Nat) /\ n \in Nat /\ handed'[c] = Append(s, n)
      BY <1>1, <2>1
    <3> HIDE DEF n, s
    <3>2. /\ Backs(Append(s, n)) \subseteq Backs(s) \cup {Len(s) + 1}
          /\ (\A i \in 1..Len(s) : s[i] < n) => Backs(Append(s, n)) \subseteq Backs(s)
      BY <3>1, AppendBacks
    <3>3. /\ Len(Append(s, n)) = Len(s) + 1 /\ Len(s) \in Nat
          /\ Append(s, n)[Len(s) + 1] = n /\ \A i \in 1..Len(s) : Append(s, n)[i] = s[i]
      BY <3>1, AppendBacks
    <3>4. QED BY <3>1, <3>2, <3>3
  <2>3. \A i \in Backs(s) : i \in 1..Len(s)
    BY <2>2 DEF Backs
  <2>4. /\ \A i \in 1..Len(s) : s[i] \in 1..n
        /\ \A i \in Backs(s) : stream[s[i]] = "idr"
        /\ \A i, j \in Backs(s) : i = j
        /\ BeforeReplay(c) => Backs(s) = {}
        /\ \/ \A i \in 1..Len(s) : s[i] < n
           \/ Backs(s) = {} /\ ~BeforeReplay(c) /\ stream[n] = "idr"
        /\ idr[c] # NoIDR => idr[c] \in 1..n /\ stream[idr[c]] = "idr"
        /\ Len(stream) = n
    BY <1>1 DEF InOrder
  <2> HIDE DEF n, s
  <2>5. \A i \in 1..Len(handed'[c]) : handed'[c][i] \in 1..n
    <3>1. ASSUME NEW i \in 1..Len(handed'[c]), i # Len(s) + 1 PROVE i \in 1..Len(s)
      BY <2>2, <3>1
    <3>2. n \in 1..n
      BY <1>1, <2>1
    <3>3. QED BY <2>2, <2>4, <3>1, <3>2
  <2>6. /\ \A i \in Backs(handed'[c]) : stream[handed'[c][i]] = "idr"
        /\ \A i, j \in Backs(handed'[c]) : i = j
        /\ BeforeReplay(c) => Backs(handed'[c]) = {}
    <3>1. CASE \A i \in 1..Len(s) : s[i] < n
      BY <2>2, <2>3, <2>4, <3>1
    <3>2. CASE Backs(s) = {} /\ ~BeforeReplay(c) /\ stream[n] = "idr"
      BY <2>2, <3>2
    <3>3. QED BY <2>4, <3>1, <3>2
  <2>7. QED BY <1>1, <2>4, <2>5, <2>6 DEF InOrder
<1>4. QED BY <1>2, <1>3

(* A new NAL: everything that was sent is older.                           *)
LEMMA NewNalInOrder ==
  ASSUME TypeInv, ReplayInv, BeginNal, NEW c \in Client
  PROVE  InOrder(c)'
<1> DEFINE k == Len(stream) + 1
<1>1. /\ stream' = Append(stream, Head(nals)) /\ stream \in Seq({"param", "idr", "slice"})
      /\ UNCHANGED <<handed, idr, pc>> /\ handed[c] \in Seq(Nat) /\ InOrder(c)
  BY DEF BeginNal, queueVars, handlerVars, TypeInv, TypeOK, ReplayInv
<1>2. /\ Len(stream') = k /\ Len(stream) \in Nat /\ k = Len(stream) + 1
      /\ \A m \in 1..Len(stream) : stream'[m] = stream[m]
  BY <1>1
<1> HIDE DEF k
<1>3. \A m \in 1..Len(stream) : m \in 1..k /\ m < k
  BY <1>2
<1>4. /\ \A i \in 1..Len(handed[c]) : handed[c][i] \in 1..k /\ handed[c][i] < k
      /\ \A i \in Backs(handed[c]) : i \in 1..Len(handed[c])
  BY <1>1, <1>3 DEF InOrder, Backs
<1>5. /\ \A i \in Backs(handed[c]) : stream'[handed[c][i]] = "idr"
      /\ idr[c] # NoIDR => idr[c] \in 1..k /\ stream'[idr[c]] = "idr"
  BY <1>1, <1>2, <1>3, <1>4 DEF InOrder
<1>6. /\ \A i, j \in Backs(handed[c]) : i = j
      /\ BeforeReplay(c)' => Backs(handed[c]) = {}
  BY <1>1 DEF InOrder, BeforeReplay
<1>7. QED BY <1>1, <1>2, <1>4, <1>5, <1>6 DEF InOrder

LEMMA HandlerInOrder ==
  ASSUME TypeInv, CacheInv, ReplayInv, NEW d \in Client, Handler(d), NEW c \in Client
  PROVE  InOrder(c)'
<1>1. CASE ReplayIDR(d) /\ c = d
  BY <1>1, ReplayInOrder
<1>2. CASE ~ReplayIDR(d) \/ c # d
  <2>1. UNCHANGED <<stream, phase, seen>> /\ handed'[c] = handed[c]
    <3>1. CASE ReplayIDR(d)
      BY <1>2, <3>1 DEF ReplayIDR, Send, Enqueue, Drop, queueVars, castVars, TypeInv, TypeOK
    <3>2. CASE ~ReplayIDR(d)
      BY <3>2 DEF Handler, Check, AcceptFails, Accept, Store, CountIn, LoadIDR, NotifyReturns,
                  ReadText, ReadFails, Delete, CountOut, Release, queueVars, castVars
    <3>3. QED BY <3>1, <3>2
  <2>2. idr'[c] # NoIDR => idr'[c] \in 1..Len(stream) /\ stream[idr'[c]] = "idr"
    <3>1. CASE LoadIDR(d)
      BY <3>1 DEF LoadIDR, CacheInv, LatestIDR, TypeInv, TypeOK, ReplayInv, InOrder
    <3>2. CASE ~LoadIDR(d)
      <4>1. idr' = idr
        BY <3>2 DEF Handler, Check, AcceptFails, Accept, Store, CountIn, ReplayIDR,
                    NotifyReturns, ReadText, ReadFails, Delete, CountOut, Release, handlerVars
      <4>2. QED BY <4>1 DEF ReplayInv, InOrder
    <3>3. QED BY <3>1, <3>2
  <2>3. BeforeReplay(c)' <=> BeforeReplay(c)
    <3>1. CASE c # d
      BY <3>1 DEF BeforeReplay, Handler, Check, AcceptFails, Accept, Store, CountIn, LoadIDR,
                  ReplayIDR, NotifyReturns, ReadText, ReadFails, Delete, CountOut, Release,
                  handlerVars, Step, TypeInv, TypeOK
    <3>2. CASE c = d
      <4>1. ~ReplayIDR(d)
        BY <1>2, <3>2
      <4>2. QED
        BY <3>2, <4>1 DEF BeforeReplay, Handler, Check, AcceptFails, Accept, Store, CountIn,
           LoadIDR, NotifyReturns, ReadText, ReadFails, Delete, CountOut, Release,
           handlerVars, Step, TypeInv, TypeOK
    <3>3. QED BY <3>1, <3>2
  <2>4. Unseen(c)' <=> Unseen(c)
    BY <2>1 DEF Unseen
  <2>5. QED BY <2>1, <2>2, <2>3, <2>4, StillInOrder DEF ReplayInv
<1>3. QED BY <1>1, <1>2

LEMMA CastInOrder ==
  ASSUME TypeInv, CacheInv, ReplayInv, NEW c \in Client,
         Encode \/ BeginChunk \/ \E b \in Caster : Cast(b)
  PROVE  InOrder(c)'
<1>1. /\ UNCHANGED <<pc, idr, stream>> /\ (BeforeReplay(c)' <=> BeforeReplay(c))
      /\ InOrder(c) /\ (idr'[c] # NoIDR => idr'[c] \in 1..Len(stream) /\ stream[idr'[c]] = "idr")
  BY DEF Encode, BeginChunk, Cast, RangeBegins, RangeVisits, RangeEnds, handlerVars,
         BeforeReplay, ReplayInv, InOrder
<1>2. CASE Encode
  BY <1>1, <1>2, StillInOrder DEF Encode, queueVars, Unseen
<1>3. CASE BeginChunk
  BY <1>1, <1>3, StillInOrder DEF BeginChunk, queueVars, Unseen, TypeInv, TypeOK
<1>4. ASSUME NEW b \in Caster, RangeBegins(b) \/ RangeEnds(b) PROVE InOrder(c)'
  <2>1. UNCHANGED handed /\ (Unseen(c)' => Unseen(c))
    BY <1>4 DEF RangeBegins, RangeEnds, queueVars, Unseen, TypeInv, TypeOK
  <2>2. QED BY <1>1, <2>1, StillInOrder
<1>5. ASSUME NEW b \in Caster, NEW d \in Client, RangeVisits(b, d) PROVE InOrder(c)'
  <2>1. CASE b = "video" /\ c = d
    BY <1>5, <2>1, VisitInOrder
  <2>2. CASE ~(b = "video" /\ c = d)
    <3>1. handed'[c] = handed[c]
      <4>1. CASE b = "audio"
        <5>1. cur[b] = AudioMsg
          BY <1>5, <4>1 DEF ReplayInv, RangeVisits, TypeInv
        <5>2. QED
          BY <1>5, <5>1 DEF RangeVisits, Send, Enqueue, Drop, TypeInv, TypeOK
      <4>2. CASE b = "video"
        BY <1>5, <2>2, <4>2 DEF RangeVisits, Send, Enqueue, Drop, TypeInv, TypeOK
      <4>3. QED BY <4>1, <4>2
    <3>2. Unseen(c)' => Unseen(c)
      BY <1>5, <2>2 DEF RangeVisits, Unseen, TypeInv, TypeOK
    <3>3. QED BY <1>1, <3>1, <3>2, StillInOrder
  <2>3. QED BY <2>1, <2>2
<1>6. QED BY <1>2, <1>3, <1>4, <1>5 DEF Cast

LEMMA ReplayInvHolds == Spec => []ReplayInv
<1>1. Init => ReplayInv
  <2> SUFFICES ASSUME Init PROVE ReplayInv
    OBVIOUS
  <2>1. ASSUME NEW c \in Client PROVE InOrder(c)
    <3>1. handed[c] = <<>> /\ Len(handed[c]) = 0 /\ idr[c] = NoIDR /\ ~Unseen(c)
      BY DEF Init, Unseen
    <3>2. Backs(handed[c]) = {}
      BY <3>1 DEF Backs
    <3>3. QED BY <3>1, <3>2 DEF InOrder
  <2>2. QED BY <2>1 DEF Init, ReplayInv
<1>2. TypeInv /\ CacheInv /\ ReplayInv /\ [Next]_vars => ReplayInv'
  <2> SUFFICES ASSUME TypeInv, CacheInv, ReplayInv, [Next]_vars PROVE ReplayInv'
    OBVIOUS
  <2>1. ASSUME NEW c \in Client,
               UNCHANGED vars \/ \E d \in Client : ConnBreaks(d) \/ Pump(d)
        PROVE  InOrder(c)'
    <3>1. UNCHANGED <<pc, idr, handed, stream, phase, seen>>
      BY <2>1 DEF ConnBreaks, Pump, PumpTakes, PumpWrote, WriteFails, PingFails, PumpStops,
                  handlerVars, queueVars, castVars, vars
    <3>2. QED BY <3>1 DEF ReplayInv, InOrder, BeforeReplay, Unseen
  <2>2. \A c \in Client : InOrder(c)'
    BY <2>1, HandlerInOrder, CastInOrder, NewNalInOrder DEF Next
  <2>3. cur'["audio"] \in {NoMsg, AudioMsg}
    <3>1. CASE UNCHANGED cur
      BY <3>1 DEF ReplayInv
    <3>2. CASE BeginNal \/ BeginChunk
      BY <3>2 DEF BeginNal, BeginChunk, ReplayInv, TypeInv, TypeOK
    <3>3. CASE \E b \in Caster : RangeEnds(b)
      BY <3>3 DEF RangeEnds, ReplayInv, TypeInv, TypeOK
    <3>4. \/ UNCHANGED cur \/ BeginNal \/ BeginChunk \/ \E b \in Caster : RangeEnds(b)
      BY DEF Next, Handler, Check, AcceptFails, Accept, Store, CountIn, LoadIDR, ReplayIDR,
             NotifyReturns, ReadText, ReadFails, Delete, CountOut, Release, ConnBreaks, Pump,
             PumpTakes, PumpWrote, WriteFails, PingFails, PumpStops, Encode, Cast, RangeBegins,
             RangeVisits, vars, castVars
    <3>5. QED BY <3>1, <3>2, <3>3, <3>4
  <2>4. QED BY <2>2, <2>3 DEF ReplayInv
<1>3. Spec => []CacheInv
  BY CheckpointInvHolds, PTL
<1>4. QED BY <1>1, <1>2, <1>3, TypeInvHolds, PTL DEF Spec

(* A client's video is in broadcast order but for its one replay, which is *)
(* an IDR, however Send and Range race with the registration.              *)
THEOREM ReplayedOnce == Spec => []AtMostOneReplay
<1>1. ReplayInv => AtMostOneReplay
  BY DEF ReplayInv, InOrder, Backs, AtMostOneReplay
<1>2. QED BY <1>1, ReplayInvHolds, PTL

(* A client past its replay has been given the latest IDR, has lost it to  *)
(* its own full channel, or is about to be visited with it, however its    *)
(* registration interleaved with Broadcast.                                *)
THEOREM CheckpointNeverMissed == Spec => []NoMissedCheckpoint
<1>1. CheckpointInv => NoMissedCheckpoint
  BY DEF CheckpointInv, NoMissedCheckpoint, Given
<1>2. QED BY <1>1, CheckpointInvHolds, PTL
=============================================================================

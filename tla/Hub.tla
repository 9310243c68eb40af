-------------------------------- MODULE Hub --------------------------------
(***************************************************************************)
(* The WebSocket server of internal/server: the handlers that admit,       *)
(* register, serve and retire clients, one write pump per client, and the  *)
(* two goroutines that broadcast to them (captured video, PCM audio).      *)
(*                                                                         *)
(* One action is one access to state that other goroutines share (an       *)
(* atomic, the sync.Map, a channel, a lock-protected field) with the local *)
(* work around it; the program counter of a handler names the access that  *)
(* comes next.  A video message is the number of its NAL in `stream', so a *)
(* message keeps its place in broadcast order and its NAL type.            *)
(***************************************************************************)
EXTENDS Integers, Sequences, FiniteSets

CONSTANTS
  Client,      \* upgrade requests on /ws; each one is at most one *Client
  NoClient,    \* the nil of atomic.Pointer[Client]
  MaxClients,  \* maxClients
  BufSize,     \* writeBufferSize
  HasInput,    \* a uinput device exists, so SetInputCallback was called
  MaxNals,     \* bound: NALs the encoder produces
  MaxChunks    \* bound: audio chunks captured

ASSUME ClientsAssumption == NoClient \notin Client
ASSUME LimitsAssumption ==
  /\ MaxClients \in Nat \ {0} /\ BufSize \in Nat \ {0}
  /\ MaxNals \in Nat /\ MaxChunks \in Nat
  /\ HasInput \in BOOLEAN

VARIABLES
  pc,          \* handler: the shared access it makes next
  idr,         \* handler: its local copy of lastIDR
  onText,      \* client: is onText non-nil, so that text reaches the input device?
  open,        \* client: is the connection open?
  pump,        \* client: writePump
  queue,       \* client: the channel `send'
  clients,     \* server: the keys of the sync.Map
  count,       \* server: count
  controller,  \* server: controller
  lastIDR,     \* server: lastIDR, NoIDR for nil
  nals,        \* capture goroutine: NALs of the Broadcast call still to send
  stream,      \* history: types of the NALs broadcast so far
  phase,       \* broadcasters: where in Broadcast / BroadcastAudio
  cur,         \* broadcasters: msg
  todo,        \* broadcasters: keys when clients.Range began
  seen,        \* broadcasters: keys clients.Range has visited
  chunks,      \* audio goroutine: chunks taken from the capturer so far
  handed,      \* history: video messages put in the client's channel, in order
  lost,        \* history: messages Send dropped
  injectedBy   \* history: whose text onInput was given last

handlerVars == <<pc, idr, onText>>
connVars == <<open, pump>>
registryVars == <<clients, count, controller>>
queueVars == <<queue, handed, lost>>
castVars == <<lastIDR, nals, stream, phase, cur, todo, seen, chunks>>
vars == <<handlerVars, connVars, registryVars, queueVars, castVars, injectedBy>>

Caster == {"video", "audio"}
NoIDR == 0
AudioMsg == 0
NoMsg == -1

(* What an encoder returns for a frame; parameter sets are NALs of their own. *)
Frames == {<<"param", "idr">>, <<"slice">>}

Step(c, from, to) == pc[c] = from /\ pc' = [pc EXCEPT ![c] = to]

Init ==
  /\ pc = [c \in Client |-> "check"]
  /\ idr = [c \in Client |-> NoIDR]
  /\ onText = [c \in Client |-> FALSE]
  /\ open = [c \in Client |-> FALSE]
  /\ pump = [c \in Client |-> "none"]
  /\ queue = [c \in Client |-> <<>>]
  /\ clients = {}
  /\ count = 0
  /\ controller = NoClient
  /\ lastIDR = NoIDR
  /\ nals = <<>>
  /\ stream = <<>>
  /\ phase = [b \in Caster |-> "idle"]
  /\ cur = [b \in Caster |-> NoMsg]
  /\ todo = [b \in Caster |-> {}]
  /\ seen = [b \in Caster |-> {}]
  /\ chunks = 0
  /\ handed = [c \in Client |-> <<>>]
  /\ lost = [c \in Client |-> {}]
  /\ injectedBy = NoClient

-----------------------------------------------------------------------------
(* Client.Send: never blocks; a full channel loses the message. *)

(* Mutant of Enqueue: the channel is unbounded. *)
EnqueueUnbounded(c, m) ==
  /\ queue' = [queue EXCEPT ![c] = Append(@, m)]
  /\ handed' = [handed EXCEPT ![c] = IF m = AudioMsg THEN @ ELSE Append(@, m)]
  /\ UNCHANGED lost

Enqueue(c, m) ==
  /\ Len(queue[c]) < BufSize
  /\ queue' = [queue EXCEPT ![c] = Append(@, m)]
  /\ handed' = [handed EXCEPT ![c] = IF m = AudioMsg THEN @ ELSE Append(@, m)]
  /\ UNCHANGED lost

Drop(c, m) ==
  /\ Len(queue[c]) >= BufSize
  /\ lost' = [lost EXCEPT ![c] = @ \cup {m}]
  /\ UNCHANGED <<queue, handed>>

Send(c, m) == Enqueue(c, m) \/ Drop(c, m)

-----------------------------------------------------------------------------
(* handleWS, one goroutine per upgrade request. *)

Check(c) ==
  /\ Step(c, "check", IF count >= MaxClients THEN "refused" ELSE "accept")
  /\ UNCHANGED <<idr, onText, connVars, registryVars, queueVars, castVars, injectedBy>>

AcceptFails(c) ==
  /\ Step(c, "accept", "refused")
  /\ UNCHANGED <<idr, onText, connVars, registryVars, queueVars, castVars, injectedBy>>

(* Mutant of Claim: a rejected control request keeps the input callback. *)
ClaimKeepsInput(c, role) ==
  /\ onText' = [onText EXCEPT ![c] = HasInput /\ role = "control"]
  /\ controller' = IF role = "control" /\ controller = NoClient THEN c ELSE controller

(* The compare-and-swap of the controller slot, and the callback that goes *)
(* with winning it.                                                        *)
Claim(c, role) ==
  IF role = "control" /\ controller = NoClient
    THEN controller' = c /\ onText' = [onText EXCEPT ![c] = HasInput]
    ELSE UNCHANGED <<controller, onText>>

(* Accept succeeds, newClient starts the pump, and the role is settled. *)
Accept(c) ==
  /\ Step(c, "accept", "store")
  /\ open' = [open EXCEPT ![c] = TRUE]
  /\ pump' = [pump EXCEPT ![c] = "idle"]
  /\ \E role \in {"control", "view"} : Claim(c, role)
  /\ UNCHANGED <<idr, clients, count, queueVars, castVars, injectedBy>>

Store(c) ==
  /\ Step(c, "store", "count")
  /\ clients' = clients \cup {c}
  /\ UNCHANGED <<idr, onText, connVars, count, controller, queueVars, castVars, injectedBy>>

CountIn(c) ==
  /\ Step(c, "count", "load")
  /\ count' = count + 1
  /\ UNCHANGED <<idr, onText, connVars, clients, controller, queueVars, castVars, injectedBy>>

LoadIDR(c) ==
  /\ Step(c, "load", "replay")
  /\ idr' = [idr EXCEPT ![c] = lastIDR]
  /\ UNCHANGED <<onText, connVars, registryVars, queueVars, castVars, injectedBy>>

ReplayIDR(c) ==
  /\ Step(c, "replay", "notify")
  /\ IF idr[c] # NoIDR THEN Send(c, idr[c]) ELSE UNCHANGED queueVars
  /\ UNCHANGED <<idr, onText, connVars, registryVars, castVars, injectedBy>>

(* onNewClient, absent before the first frame, reaches only the encoder    *)
(* and the capturer.  It need not return: Restart may be left in Wait.     *)
NotifyReturns(c) ==
  /\ Step(c, "notify", "read")
  /\ UNCHANGED <<idr, onText, connVars, registryVars, queueVars, castVars, injectedBy>>

ReadText(c) ==
  /\ pc[c] = "read" /\ open[c]
  /\ injectedBy' = IF onText[c] THEN c ELSE injectedBy
  /\ UNCHANGED <<handlerVars, connVars, registryVars, queueVars, castVars>>

(* conn.Read fails on a connection that is no longer open. *)
ReadFails(c) ==
  /\ ~open[c]
  /\ Step(c, "read", "delete")
  /\ UNCHANGED <<idr, onText, connVars, registryVars, queueVars, castVars, injectedBy>>

Delete(c) ==
  /\ Step(c, "delete", "uncount")
  /\ clients' = clients \ {c}
  /\ UNCHANGED <<idr, onText, connVars, count, controller, queueVars, castVars, injectedBy>>

(* Mutant of CountOut: the client is not counted out. *)
CountOutForgotten(c) ==
  /\ Step(c, "uncount", "release")
  /\ UNCHANGED <<idr, onText, connVars, registryVars, queueVars, castVars, injectedBy>>

CountOut(c) ==
  /\ Step(c, "uncount", "release")
  /\ count' = count - 1
  /\ UNCHANGED <<idr, onText, connVars, clients, controller, queueVars, castVars, injectedBy>>

(* Mutants of Release: the slot is cleared by whoever leaves (Store(nil) in *)
(* place of CompareAndSwap); it is never cleared.                           *)
ReleaseAnyone(c) ==
  /\ Step(c, "release", "gone")
  /\ controller' = NoClient
  /\ UNCHANGED <<idr, onText, connVars, clients, count, queueVars, castVars, injectedBy>>

ReleaseForgotten(c) ==
  /\ Step(c, "release", "gone")
  /\ UNCHANGED <<idr, onText, connVars, registryVars, queueVars, castVars, injectedBy>>

Release(c) ==
  /\ Step(c, "release", "gone")
  /\ controller' = IF controller = c THEN NoClient ELSE controller
  /\ UNCHANGED <<idr, onText, connVars, clients, count, queueVars, castVars, injectedBy>>

Handler(c) ==
  \/ Check(c) \/ AcceptFails(c) \/ Accept(c) \/ Store(c) \/ CountIn(c)
  \/ LoadIDR(c) \/ ReplayIDR(c) \/ NotifyReturns(c)
  \/ ReadText(c) \/ ReadFails(c)
  \/ Delete(c) \/ CountOut(c) \/ Release(c)

-----------------------------------------------------------------------------
(* The connection, and the write pump that shares it with the handler. *)

(* The peer or the network ends the connection, or the server's context is *)
(* cancelled.                                                              *)
ConnBreaks(c) ==
  /\ open[c]
  /\ open' = [open EXCEPT ![c] = FALSE]
  /\ UNCHANGED <<handlerVars, pump, registryVars, queueVars, castVars, injectedBy>>

PumpTakes(c) ==
  /\ pump[c] = "idle" /\ queue[c] # <<>>
  /\ pump' = [pump EXCEPT ![c] = "writing"]
  /\ queue' = [queue EXCEPT ![c] = Tail(@)]
  /\ UNCHANGED <<handlerVars, open, registryVars, handed, lost, castVars, injectedBy>>

PumpWrote(c) ==
  /\ pump[c] = "writing" /\ open[c]
  /\ pump' = [pump EXCEPT ![c] = "idle"]
  /\ UNCHANGED <<handlerVars, open, registryVars, queueVars, castVars, injectedBy>>

(* Mutant of PumpStops: the pump returns and leaves the connection open. *)
PumpStopsOnly(c, doing) ==
  /\ pump[c] = doing
  /\ pump' = [pump EXCEPT ![c] = "stopped"]
  /\ UNCHANGED <<handlerVars, open, registryVars, queueVars, castVars, injectedBy>>

PumpStops(c, doing) ==
  /\ pump[c] = doing
  /\ pump' = [pump EXCEPT ![c] = "stopped"]
  /\ open' = [open EXCEPT ![c] = FALSE]
  /\ UNCHANGED <<handlerVars, registryVars, queueVars, castVars, injectedBy>>

(* Write fails, or misses its deadline; Ping fails, or misses its deadline. *)
WriteFails(c) == PumpStops(c, "writing")
PingFails(c) == PumpStops(c, "idle")

Pump(c) == PumpTakes(c) \/ PumpWrote(c) \/ WriteFails(c) \/ PingFails(c)

-----------------------------------------------------------------------------
(* Broadcast (capture goroutine) and BroadcastAudio (audio goroutine). *)

(* The encoder returns a frame: the first one, at least, is a key frame. *)
Encode ==
  /\ nals = <<>> /\ phase["video"] = "idle"
  /\ \E f \in Frames :
       /\ stream = <<>> => f # <<"slice">>
       /\ Len(stream) + Len(f) <= MaxNals
       /\ nals' = f
  /\ UNCHANGED <<handlerVars, connVars, registryVars, queueVars, injectedBy,
                 lastIDR, stream, phase, cur, todo, seen, chunks>>

(* Mutants of IsIDR: the start code is not recognised; every NAL matches. *)
IsIDRNever(type) == FALSE
IsIDRAlways(type) == TRUE

IsIDR(type) == type = "idr"

BeginNal ==
  LET n == Len(stream) + 1
  IN /\ phase["video"] = "idle" /\ nals # <<>>
     /\ nals' = Tail(nals)
     /\ stream' = Append(stream, Head(nals))
     /\ lastIDR' = IF IsIDR(Head(nals)) THEN n ELSE lastIDR
     /\ cur' = [cur EXCEPT !["video"] = n]
     /\ phase' = [phase EXCEPT !["video"] = "begin"]
     /\ UNCHANGED <<handlerVars, connVars, registryVars, queueVars, injectedBy,
                    todo, seen, chunks>>

BeginChunk ==
  /\ phase["audio"] = "idle" /\ chunks < MaxChunks
  /\ chunks' = chunks + 1
  /\ cur' = [cur EXCEPT !["audio"] = AudioMsg]
  /\ phase' = [phase EXCEPT !["audio"] = "begin"]
  /\ UNCHANGED <<handlerVars, connVars, registryVars, queueVars, injectedBy,
                 lastIDR, nals, stream, todo, seen>>

RangeBegins(b) ==
  /\ phase[b] = "begin"
  /\ phase' = [phase EXCEPT ![b] = "range"]
  /\ todo' = [todo EXCEPT ![b] = clients]
  /\ seen' = [seen EXCEPT ![b] = {}]
  /\ UNCHANGED <<handlerVars, connVars, registryVars, queueVars, injectedBy,
                 lastIDR, nals, stream, cur, chunks>>

(* sync.Map.Range visits a key at most once, reaches every key that stays, *)
(* and may or may not reach one stored or deleted meanwhile.               *)
RangeVisits(b, c) ==
  /\ phase[b] = "range"
  /\ c \in (todo[b] \cup clients) \ seen[b]
  /\ seen' = [seen EXCEPT ![b] = @ \cup {c}]
  /\ Send(c, cur[b])
  /\ UNCHANGED <<handlerVars, connVars, registryVars, injectedBy,
                 lastIDR, nals, stream, phase, cur, todo, chunks>>

RangeEnds(b) ==
  /\ phase[b] = "range"
  /\ todo[b] \cap clients \subseteq seen[b]
  /\ phase' = [phase EXCEPT ![b] = "idle"]
  /\ cur' = [cur EXCEPT ![b] = NoMsg]
  /\ todo' = [todo EXCEPT ![b] = {}]
  /\ seen' = [seen EXCEPT ![b] = {}]
  /\ UNCHANGED <<handlerVars, connVars, registryVars, queueVars, injectedBy,
                 lastIDR, nals, stream, chunks>>

Cast(b) == RangeBegins(b) \/ RangeEnds(b) \/ \E c \in Client : RangeVisits(b, c)

-----------------------------------------------------------------------------
Next ==
  \/ \E c \in Client : Handler(c) \/ ConnBreaks(c) \/ Pump(c)
  \/ Encode \/ BeginNal \/ BeginChunk
  \/ \E b \in Caster : Cast(b)

(* Runnable goroutines run; a broken connection makes Read and Ping fail;  *)
(* a write ends, at the latest by its 5 s deadline.  onNewClient may never *)
(* return; nobody has to connect, to type, to send, or to break a          *)
(* connection.                                                             *)
Fairness ==
  /\ \A c \in Client :
       /\ WF_vars(Handler(c) /\ pc[c] \notin {"check", "notify"} /\ pc' # pc)
       /\ WF_vars(PumpTakes(c))
       /\ WF_vars(PumpWrote(c) \/ WriteFails(c))
       /\ WF_vars(~open[c] /\ PingFails(c))
  /\ WF_vars(BeginNal)
  /\ \A b \in Caster : WF_vars(Cast(b))

Spec == Init /\ [][Next]_vars
FairSpec == Spec /\ Fairness

-----------------------------------------------------------------------------
(* Properties *)

(* Every variable has its type; a client's channel never holds more than   *)
(* writeBufferSize messages.                                               *)
TypeOK ==
  /\ pc \in [Client -> {"check", "refused", "accept", "store", "count", "load", "replay",
                        "notify", "read", "delete", "uncount", "release", "gone"}]
  /\ idr \in [Client -> Nat]
  /\ onText \in [Client -> BOOLEAN]
  /\ open \in [Client -> BOOLEAN]
  /\ pump \in [Client -> {"none", "idle", "writing", "stopped"}]
  /\ queue \in [Client -> Seq(Nat)]
  /\ \A c \in Client : Len(queue[c]) <= BufSize
  /\ clients \subseteq Client
  /\ count \in Int
  /\ controller \in Client \cup {NoClient}
  /\ lastIDR \in 0..Len(stream)
  /\ nals \in Seq({"param", "idr", "slice"})
  /\ stream \in Seq({"param", "idr", "slice"})
  /\ phase \in [Caster -> {"idle", "begin", "range"}]
  /\ cur \in [Caster -> Nat \cup {NoMsg}]
  /\ todo \in [Caster -> SUBSET Client]
  /\ seen \in [Caster -> SUBSET Client]
  /\ chunks \in Nat
  /\ handed \in [Client -> Seq(Nat)]
  /\ lost \in [Client -> SUBSET Nat]
  /\ injectedBy \in Client \cup {NoClient}

(* Places of a handler between its claim of the slot and its Release. *)
Serving == {"store", "count", "load", "replay", "notify", "read", "delete", "uncount", "release"}

(* Only the slot's holder can inject: a connection with an input callback  *)
(* that is still served owns the slot, so there is at most one of them     *)
(* while handlers claim, fail and leave in any order (handleWS, ReadLoop). *)
InputExclusive ==
  \A c \in Client : pc[c] \in Serving /\ onText[c] => controller = c

(* The slot is never left with a connection that is over: whoever holds it *)
(* has a handler with its Release still to come (which a callback that     *)
(* does not return can put off for ever).                                  *)
ControllerServed == controller # NoClient => pc[controller] \in Serving

At(places) == {c \in Client : pc[c] \in places}

(* count, which admission and /status read, is the number of registered    *)
(* clients, give or take the handlers caught between the two updates.      *)
CountExact ==
  /\ clients = At({"count", "load", "replay", "notify", "read", "delete"})
  /\ count = Cardinality(At({"load", "replay", "notify", "read", "delete", "uncount"}))

Handed(c) == {handed[c][i] : i \in DOMAIN handed[c]}

(* The NALs of type 5 broadcast so far, and whether n is the latest. *)
LatestIDR(n) ==
  /\ n \in 1..Len(stream) /\ stream[n] = "idr"
  /\ \A m \in (n + 1)..Len(stream) : stream[m] # "idr"

(* Will a Range that is still going on, or about to begin, bring n to c? *)
StillComing(c, n) ==
  /\ cur["video"] = n
  /\ phase["video"] = "begin" \/ c \in todo["video"] \ seen["video"]

(* However registration interleaves with Broadcast, a client that is past  *)
(* its replay has been given the latest IDR (from the cache or live), lost *)
(* it to its own full channel, or is about to be visited with it: there is *)
(* no window between the cache and the live stream in which it is missed.  *)
NoMissedCheckpoint ==
  \A c \in Client : pc[c] \in {"notify", "read"} =>
    \A n \in 1..Len(stream) : LatestIDR(n) =>
      n \in Handed(c) \cup lost[c] \/ StillComing(c, n)

(* A client's video arrives in broadcast order, but for one message: the   *)
(* cached IDR, which may come after newer NALs or twice.                   *)
AtMostOneReplay ==
  \A c \in Client :
    LET back == {i \in 2..Len(handed[c]) : handed[c][i] <= handed[c][i - 1]}
    IN /\ \A i \in back : stream[handed[c][i]] = "idr"
       /\ \A i, j \in back : i = j

Lease == INSTANCE ControlLease WITH
           holder <- controller,
           ended <- At({"gone"}),
           injectedBy <- injectedBy

(* The handlers together implement the lease of ControlLease. *)
ImplementsLease == Lease!Spec

(* A connection that breaks, wherever its handler and its pump are, ends   *)
(* up unregistered, without the slot, and with both goroutines gone; but   *)
(* one whose handler stays in onNewClient for ever, as Restart may in Wait *)
(* (ScreenGrab), keeps its place and the slot, and loses only its pump.    *)
Retired(c) == c \notin clients /\ controller # c /\ pc[c] = "gone" /\ pump[c] = "stopped"
HeldUp(c) == pc[c] = "notify" /\ pump[c] = "stopped"
Reclaimed ==
  \A c \in Client : (pump[c] # "none" /\ ~open[c]) ~> (Retired(c) \/ []HeldUp(c))

(* A queued message gets its turn or the connection ends: a client whose   *)
(* pump is dead is never left connected and starved.                       *)
QueueServed ==
  \A c \in Client : (queue[c] # <<>> /\ open[c]) ~> (queue[c] = <<>> \/ ~open[c])

(* README: "Up to 25 concurrent WebSocket clients." *)
WithinCapacity == count <= MaxClients

(* The first video message a client receives is not a slice: the multi-    *)
(* client spec has it that a new client gets the IDR immediately.          *)
CheckpointFirst ==
  \A c \in Client : handed[c] # <<>> => stream[handed[c][1]] # "slice"
=============================================================================

--------------------------- MODULE BrowserClient ---------------------------
(***************************************************************************)
(* Pages (compositor.js) and the server, over connections that fail: every *)
(* page asks for control, connects again 2 s after its socket closes, and  *)
(* feeds one WebCodecs decoder, which may reject a chunk at once (decode   *)
(* throws) or later (its error callback runs and it is closed).  The       *)
(* server may hold a connection long after the page has left it.  How a    *)
(* handler registers, is served and cleans up is in module Hub.            *)
(***************************************************************************)
EXTENDS Integers, FiniteSets

CONSTANTS
  Page,      \* browser tabs
  MaxConns,  \* bound: connections a page opens
  NoConn     \* the nil of the controller slot

ASSUME ConnsAssumption == MaxConns \in Nat \ {0} /\ NoConn \notin Page \X (1..MaxConns)

VARIABLES
  made,     \* page: WebSockets made so far; ws is the last one
  sock,     \* connection: the page's end
  timers,   \* page: pending calls of connect
  decoder,  \* page: decoder
  live,     \* page: VideoDecoders made and not yet closed
  handler,  \* connection: handleWS
  slot      \* server: controller

pageVars == <<made, sock, timers, decoder, live>>
serverVars == <<handler, slot>>
vars == <<pageVars, serverVars>>

Conn == Page \X (1..MaxConns)

(* A page about to call connect for the first time. *)
Init ==
  /\ made = [p \in Page |-> 0]
  /\ sock = [c \in Conn |-> "unused"]
  /\ timers = [p \in Page |-> 1]
  /\ decoder = [p \in Page |-> "null"]
  /\ live = [p \in Page |-> 0]
  /\ handler = [c \in Conn |-> "none"]
  /\ slot = NoConn

-----------------------------------------------------------------------------
(* The decoder *)

(* Mutant of InitDecoder: the old decoder is dropped and not closed. *)
InitDecoderLeaks(p) ==
  /\ decoder' = [decoder EXCEPT ![p] = "waiting"]
  /\ live' = [live EXCEPT ![p] = @ + 1]

(* close throws on a decoder that is closed already; a new decoder takes   *)
(* nothing before a key chunk.                                             *)
InitDecoder(p) ==
  IF decoder[p] = "closed" THEN UNCHANGED <<decoder, live>>
  ELSE /\ decoder' = [decoder EXCEPT ![p] = "waiting"]
       /\ live' = [live EXCEPT ![p] = IF decoder[p] = "null" THEN @ + 1 ELSE @]

(* The message holds an IDR, or it does not (a parameter set, a slice). *)
DecodeFrame(p, isKey) ==
  /\ decoder[p] \in {"waiting", "fed"}
  /\ \/ /\ isKey \/ decoder[p] = "fed"
        /\ decoder' = [decoder EXCEPT ![p] = "fed"]
        /\ UNCHANGED live
     \/ /\ isKey \/ decoder[p] = "waiting"  \* decode throws
        /\ InitDecoder(p)

(* configure or decode fails later, and the error callback only logs. *)
DecoderFails(p) ==
  /\ decoder[p] \in {"waiting", "fed"}
  /\ decoder' = [decoder EXCEPT ![p] = "closed"]
  /\ live' = [live EXCEPT ![p] = @ - 1]
  /\ UNCHANGED <<made, sock, timers, serverVars>>

-----------------------------------------------------------------------------
(* The page's end of a connection *)

Connect(p) ==
  /\ timers[p] > 0 /\ made[p] < MaxConns
  /\ timers' = [timers EXCEPT ![p] = @ - 1]
  /\ made' = [made EXCEPT ![p] = @ + 1]
  /\ sock' = [sock EXCEPT ![<<p, made[p] + 1>>] = "connecting"]
  /\ UNCHANGED <<decoder, live, serverVars>>

OnOpen(c) ==
  /\ sock[c] = "connecting" /\ handler[c] \notin {"none", "refused"}
  /\ sock' = [sock EXCEPT ![c] = "open"]
  /\ InitDecoder(c[1])
  /\ UNCHANGED <<made, timers, serverVars>>

OnMessage(c) ==
  /\ sock[c] = "open"
  /\ \E isKey \in BOOLEAN : DecodeFrame(c[1], isKey)
  /\ UNCHANGED <<made, sock, timers, serverVars>>

(* Mutant of Breaks: onerror, too, schedules a reconnection. *)
BreaksTwice(c) ==
  /\ sock[c] \in {"connecting", "open"}
  /\ sock' = [sock EXCEPT ![c] = "broken"]
  /\ \E failed \in BOOLEAN :
       timers' = [timers EXCEPT ![c[1]] = IF failed THEN @ + 1 ELSE @]
  /\ UNCHANGED <<made, decoder, live, serverVars>>

(* The request fails, or the page learns that the connection has ended; on *)
(* an error it also calls close, which changes nothing any more.           *)
Breaks(c) ==
  /\ sock[c] \in {"connecting", "open"}
  /\ sock' = [sock EXCEPT ![c] = "broken"]
  /\ UNCHANGED <<made, timers, decoder, live, serverVars>>

(* Mutant of OnClose: only a page that has been connected connects again. *)
OnCloseConnected(c) ==
  /\ sock[c] = "broken"
  /\ sock' = [sock EXCEPT ![c] = "closed"]
  /\ decoder' = [decoder EXCEPT ![c[1]] = "null"]
  /\ live' = [live EXCEPT ![c[1]] = 0]
  /\ timers' = [timers EXCEPT ![c[1]] = IF live[c[1]] > 0 THEN @ + 1 ELSE @]
  /\ UNCHANGED <<made, serverVars>>

(* decoder.close throws when an error has closed the decoder: onclose then *)
(* ends before it schedules the reconnection.                              *)
OnClose(c) ==
  LET p == c[1]
  IN /\ sock[c] = "broken"
     /\ sock' = [sock EXCEPT ![c] = "closed"]
     /\ IF decoder[p] = "closed" THEN UNCHANGED <<timers, decoder, live>>
        ELSE /\ timers' = [timers EXCEPT ![p] = @ + 1]
             /\ decoder' = [decoder EXCEPT ![p] = "null"]
             /\ live' = [live EXCEPT ![p] = IF decoder[p] = "null" THEN @ ELSE @ - 1]
     /\ UNCHANGED <<made, serverVars>>

-----------------------------------------------------------------------------
(* The server's end *)

Refuse(c) ==
  /\ sock[c] = "connecting" /\ handler[c] = "none"
  /\ handler' = [handler EXCEPT ![c] = "refused"]
  /\ UNCHANGED <<pageVars, slot>>

(* A request that the page has given up may still be accepted. *)
Accept(c) ==
  /\ sock[c] # "unused" /\ handler[c] = "none"
  /\ handler' = [handler EXCEPT ![c] = "notify"]
  /\ slot' = IF slot = NoConn THEN c ELSE slot
  /\ UNCHANGED pageVars

(* onNewClient, which may never return (module ScreenGrab). *)
NotifyReturns(c) ==
  /\ handler[c] = "notify"
  /\ handler' = [handler EXCEPT ![c] = "read"]
  /\ UNCHANGED <<pageVars, slot>>

(* Mutant of Leave: whoever leaves keeps the slot. *)
LeaveKeepsSlot(c) ==
  /\ handler[c] = "read"
  /\ handler' = [handler EXCEPT ![c] = "gone"]
  /\ UNCHANGED <<pageVars, slot>>

(* ReadLoop ends when the server learns that the page has left, or gives   *)
(* the connection up; only a handler that reads can learn it.              *)
Leave(c) ==
  /\ handler[c] = "read"
  /\ handler' = [handler EXCEPT ![c] = "gone"]
  /\ slot' = IF slot = c THEN NoConn ELSE slot
  /\ UNCHANGED pageVars

Next ==
  \/ \E p \in Page : Connect(p) \/ DecoderFails(p)
  \/ \E c \in Conn : OnOpen(c) \/ OnMessage(c) \/ Breaks(c) \/ OnClose(c)
  \/ \E c \in Conn : Refuse(c) \/ Accept(c) \/ NotifyReturns(c) \/ Leave(c)

(* The page's event loop runs: queued close events and timers that are due *)
(* are handled.  No message has to arrive and no peer to answer.           *)
Fairness ==
  /\ \A p \in Page : WF_vars(Connect(p))
  /\ \A c \in Conn : WF_vars(OnClose(c))

Spec == Init /\ [][Next]_vars
FairSpec == Spec /\ Fairness

-----------------------------------------------------------------------------
(* Properties *)

Engaged(p) == {c \in Conn : c[1] = p /\ sock[c] \in {"connecting", "open", "broken"}}

(* Every variable has its type. *)
TypeOK ==
  /\ made \in [Page -> 0..MaxConns]
  /\ sock \in [Conn -> {"unused", "connecting", "open", "broken", "closed"}]
  /\ timers \in [Page -> 0..1]
  /\ decoder \in [Page -> {"null", "waiting", "fed", "closed"}]
  /\ live \in [Page -> 0..1]
  /\ handler \in [Conn -> {"none", "refused", "notify", "read", "gone"}]
  /\ slot \in Conn \cup {NoConn}

(* Through failures, errors and reconnections in any order a page has one  *)
(* socket or one pending reconnection, never both or two, so that it does  *)
(* not compete with itself; its one decoder is open only while a socket of *)
(* its own is, and decoders rejected on the way have been closed           *)
(* (connect, ws.onclose, initDecoder).                                     *)
OneOfEach ==
  \A p \in Page :
    /\ Cardinality(Engaged(p)) + timers[p] <= 1
    /\ live[p] = (IF decoder[p] \in {"waiting", "fed"} THEN 1 ELSE 0)
    /\ live[p] = 1 => sock[<<p, made[p]>>] \in {"open", "broken"}

(* A request for control is turned down only in favour of a connection     *)
(* that is being served, and, when that is the page's own, only because    *)
(* the server has not yet learnt that the page left it; the page then      *)
(* stays a viewer for as long as the new connection lasts (handleWS).      *)
RefusedForCause ==
  [][\A c \in Conn :
       handler[c] = "none" /\ handler'[c] = "notify" /\ slot' # c =>
         /\ handler[slot] \in {"notify", "read"}
         /\ slot[1] = c[1] => sock[slot] = "closed" \/ sock[c] = "closed"]_vars

(* kms spec: "Auto-reconnect on disconnect".  A page whose socket breaks,  *)
(* wherever it was, connects again, unless an error had closed its decoder *)
(* before its onclose ran.                                                 *)
Reconnects ==
  \A p \in Page : \A n \in 1..(MaxConns - 1) :
    (sock[<<p, n>>] = "broken") ~>
      (made[p] > n \/ (sock[<<p, n>>] = "closed" /\ decoder[p] = "closed"))
=============================================================================

------------------------ MODULE BrowserClientProofs ------------------------
(***************************************************************************)
(* That a page never competes with itself and keeps its decoder in order,  *)
(* that control is refused for a cause only, and that the pages hold it as *)
(* the abstract lease has it, for any number of pages and connections.     *)
(***************************************************************************)
EXTENDS BrowserClient, FiniteSetTheorems, TLAPS

Busy == {"connecting", "open", "broken"}

(* A page's sockets: they are used in order, and only the last one can be  *)
(* in use, during which no reconnection is pending.                        *)
SocketInv ==
  \A c \in Conn :
    /\ sock[c] = "unused" <=> c[2] > made[c[1]]
    /\ sock[c] \in Busy => c[2] = made[c[1]] /\ timers[c[1]] = 0

(* A decoder is open only between the opening of a socket and its onclose. *)
DecoderInv ==
  \A p \in Page :
    /\ live[p] = (IF decoder[p] \in {"waiting", "fed"} THEN 1 ELSE 0)
    /\ live[p] = 1 => \E c \in Conn : c[1] = p /\ sock[c] \in {"open", "broken"}

(* The slot belongs to a connection that is served.                        *)
SlotInv ==
  /\ \A c \in Conn : handler[c] # "none" => sock[c] # "unused"
  /\ slot # NoConn => handler[slot] \in {"notify", "read"}

PageInv == TypeOK /\ SocketInv /\ DecoderInv /\ SlotInv

LEMMA ConnFacts ==
  /\ \A c \in Conn : c[1] \in Page /\ c[2] \in 1..MaxConns /\ c = <<c[1], c[2]>>
  /\ \A p \in Page, n \in 1..MaxConns : <<p, n>> \in Conn
  /\ MaxConns \in Nat /\ 1 <= MaxConns
<1>1. MaxConns \in Nat \ {0}
  BY ConnsAssumption
<1>2. QED BY <1>1 DEF Conn

LEMMA SameConn ==
  ASSUME NEW c \in Conn, NEW d \in Conn, c[1] = d[1], c[2] = d[2]
  PROVE  c = d
  BY ConnFacts

(* Of a page's sockets at most one is in use.                              *)
LEMMA OneBusy ==
  ASSUME PageInv, NEW c \in Conn, NEW d \in Conn, c[1] = d[1],
         sock[c] \in Busy, sock[d] \in Busy
  PROVE  c = d
  BY SameConn DEF PageInv, SocketInv

LEMMA ConnectKeeps ==
  ASSUME PageInv, NEW p \in Page, Connect(p)
  PROVE  PageInv'
<1> DEFINE n == made[p] + 1
           new == <<p, n>>
<1>1. /\ timers[p] = 1 /\ made[p] \in 0..MaxConns /\ made[p] < MaxConns
  BY DEF Connect, PageInv, TypeOK
<1>2. n \in 1..MaxConns /\ new \in Conn /\ new[1] = p /\ new[2] = n /\ n = made[p] + 1
  BY <1>1, ConnFacts
<1> HIDE DEF n, new
<1>3. /\ timers' = [timers EXCEPT ![p] = 0] /\ made' = [made EXCEPT ![p] = n]
      /\ sock' = [sock EXCEPT ![new] = "connecting"]
      /\ UNCHANGED <<decoder, live, handler, slot>>
  BY <1>1, <1>2 DEF Connect, n, new, serverVars
<1>4. TypeOK'
  BY <1>2, <1>3 DEF PageInv, TypeOK
<1>5. sock'[new] = "connecting" /\ \A c \in Conn : c # new => sock'[c] = sock[c]
  BY <1>2, <1>3 DEF PageInv, TypeOK
<1>6. /\ made'[p] = n /\ timers'[p] = 0
      /\ \A q \in Page : q # p => made'[q] = made[q] /\ timers'[q] = timers[q]
  BY <1>3 DEF PageInv, TypeOK
<1>7. \A c \in Conn : c[1] = p => sock[c] \notin Busy
  BY <1>1 DEF PageInv, SocketInv
<1>8. SocketInv'
  <2> SUFFICES ASSUME NEW c \in Conn
               PROVE  /\ sock'[c] = "unused" <=> c[2] > made'[c[1]]
                      /\ sock'[c] \in Busy => c[2] = made'[c[1]] /\ timers'[c[1]] = 0
    BY DEF SocketInv
  <2>1. CASE c = new
    BY <1>2, <1>5, <1>6, <2>1 DEF Busy
  <2>2. CASE c # new /\ c[1] = p
    <3>1. c[2] # n /\ c[2] \in Nat
      BY <1>2, <2>2, SameConn, ConnFacts
    <3>2. c[2] > n <=> c[2] > made[p]
      BY <1>1, <1>2, <3>1
    <3>3. QED BY <1>5, <1>6, <1>7, <2>2, <3>2 DEF PageInv, SocketInv
  <2>3. CASE c[1] # p
    <3>1. c[1] \in Page /\ c # new
      BY <1>2, <2>3, ConnFacts
    <3>2. QED BY <1>5, <1>6, <2>3, <3>1 DEF PageInv, SocketInv
  <2>4. QED BY <2>1, <2>2, <2>3
<1>9. DecoderInv'
  <2>1. ASSUME NEW c \in Conn, sock[c] \in {"open", "broken"}
        PROVE  sock'[c] = sock[c]
    <3>1. c # new
      BY <1>2, <1>7, <2>1 DEF Busy
    <3>2. QED BY <1>5, <3>1
  <2>2. QED BY <1>3, <2>1 DEF PageInv, DecoderInv
<1>10. SlotInv'
  BY <1>3, <1>5 DEF PageInv, SlotInv
<1>11. QED BY <1>4, <1>8, <1>9, <1>10 DEF PageInv

(* A step that only feeds, replaces or fails the decoder of a page whose   *)
(* socket is open, or has failed.                                          *)
LEMMA DecoderKeeps ==
  ASSUME PageInv, NEW p \in Page, UNCHANGED <<made, sock, timers, serverVars>>,
         DecoderFails(p) \/ \E isKey \in BOOLEAN : DecodeFrame(p, isKey)
  PROVE  PageInv'
<1>1. decoder[p] \in {"waiting", "fed"} /\ live[p] = 1
  BY DEF DecoderFails, DecodeFrame, PageInv, DecoderInv
<1>2. /\ decoder'[p] \in {"waiting", "fed", "closed"}
      /\ live'[p] = (IF decoder'[p] = "closed" THEN 0 ELSE 1)
      /\ \A q \in Page : q # p => decoder'[q] = decoder[q] /\ live'[q] = live[q]
      /\ decoder' \in [Page -> {"null", "waiting", "fed", "closed"}]
      /\ live' \in [Page -> 0..1]
  BY <1>1 DEF DecoderFails, DecodeFrame, InitDecoder, PageInv, TypeOK
<1>3. TypeOK' /\ SocketInv' /\ SlotInv'
  BY <1>2 DEF PageInv, TypeOK, SocketInv, SlotInv, serverVars
<1>4. DecoderInv'
  BY <1>1, <1>2 DEF PageInv, DecoderInv
<1>5. QED BY <1>3, <1>4 DEF PageInv

LEMMA OnOpenKeeps ==
  ASSUME PageInv, NEW c \in Conn, OnOpen(c)
  PROVE  PageInv'
<1> DEFINE p == c[1]
<1>1. /\ p \in Page /\ sock[c] = "connecting" /\ sock' = [sock EXCEPT ![c] = "open"]
      /\ UNCHANGED <<made, timers, handler, slot>> /\ InitDecoder(p)
  BY ConnFacts DEF OnOpen, serverVars
<1>2. sock'[c] = "open" /\ \A d \in Conn : d # c => sock'[d] = sock[d]
  BY <1>1 DEF PageInv, TypeOK
<1>3. live[p] = 0
  <2>1. ASSUME NEW d \in Conn, d[1] = p, sock[d] \in {"open", "broken"} PROVE FALSE
    BY <1>1, <2>1, OneBusy DEF Busy
  <2>2. QED BY <1>1, <2>1 DEF PageInv, DecoderInv, TypeOK
<1>4. /\ decoder[p] \in {"null", "closed"}
      /\ decoder'[p] \in {"waiting", "closed"}
      /\ live'[p] = (IF decoder'[p] = "closed" THEN 0 ELSE 1)
      /\ \A q \in Page : q # p => decoder'[q] = decoder[q] /\ live'[q] = live[q]
      /\ decoder' \in [Page -> {"null", "waiting", "fed", "closed"}]
      /\ live' \in [Page -> 0..1]
  BY <1>1, <1>3 DEF InitDecoder, PageInv, TypeOK, DecoderInv
<1>5. TypeOK'
  BY <1>1, <1>4 DEF PageInv, TypeOK
<1>6. SocketInv' /\ SlotInv'
  BY <1>1, <1>2 DEF PageInv, SocketInv, SlotInv, Busy
<1>7. DecoderInv'
  BY <1>1, <1>2, <1>4 DEF PageInv, DecoderInv
<1>8. QED BY <1>5, <1>6, <1>7 DEF PageInv

LEMMA BreaksKeeps ==
  ASSUME PageInv, NEW c \in Conn, Breaks(c)
  PROVE  PageInv'
<1>1. /\ sock[c] \in {"connecting", "open"} /\ sock' = [sock EXCEPT ![c] = "broken"]
      /\ UNCHANGED <<made, timers, decoder, live, handler, slot>>
  BY DEF Breaks, serverVars
<1>2. sock'[c] = "broken" /\ \A d \in Conn : d # c => sock'[d] = sock[d]
  BY <1>1 DEF PageInv, TypeOK
<1>3. TypeOK' /\ SocketInv' /\ SlotInv'
  BY <1>1, <1>2 DEF PageInv, TypeOK, SocketInv, SlotInv, Busy
<1>4. DecoderInv'
  BY <1>1, <1>2 DEF PageInv, DecoderInv
<1>5. QED BY <1>3, <1>4 DEF PageInv

LEMMA OnCloseKeeps ==
  ASSUME PageInv, NEW c \in Conn, OnClose(c)
  PROVE  PageInv'
<1> DEFINE p == c[1]
<1>1. /\ p \in Page /\ sock[c] = "broken" /\ sock' = [sock EXCEPT ![c] = "closed"]
      /\ UNCHANGED <<made, handler, slot>>
  BY ConnFacts DEF OnClose, serverVars
<1>2. sock'[c] = "closed" /\ \A d \in Conn : d # c => sock'[d] = sock[d]
  BY <1>1 DEF PageInv, TypeOK
<1>3. /\ timers[p] = 0
      /\ \A d \in Conn : d[1] = p /\ sock[d] \in Busy => d = c
  BY <1>1, OneBusy DEF PageInv, SocketInv, Busy
<1>4. /\ decoder' \in [Page -> {"null", "waiting", "fed", "closed"}]
      /\ live' \in [Page -> 0..1] /\ timers' \in [Page -> 0..1]
      /\ live'[p] = 0 /\ decoder'[p] \in {"null", "closed"}
      /\ \A q \in Page : q # p => /\ decoder'[q] = decoder[q] /\ live'[q] = live[q]
                                  /\ timers'[q] = timers[q]
  <2>1. CASE decoder[p] = "closed"
    BY <1>1, <2>1 DEF OnClose, PageInv, TypeOK, DecoderInv
  <2>2. CASE decoder[p] # "closed"
    <3>1. /\ timers' = [timers EXCEPT ![p] = 1] /\ decoder' = [decoder EXCEPT ![p] = "null"]
          /\ live' = [live EXCEPT ![p] = 0]
      <4>1. decoder[p] # "null" => live[p] - 1 = 0
        BY <1>1, <2>2 DEF PageInv, DecoderInv, TypeOK
      <4>2. decoder[p] = "null" => live[p] = 0
        BY <1>1 DEF PageInv, DecoderInv
      <4>3. QED BY <1>3, <2>2, <4>1, <4>2 DEF OnClose
    <3>2. QED BY <1>1, <3>1 DEF PageInv, TypeOK
  <2>3. QED BY <2>1, <2>2
<1>5. TypeOK'
  BY <1>1, <1>4 DEF PageInv, TypeOK
<1>6. SocketInv'
  <2> SUFFICES ASSUME NEW d \in Conn
               PROVE  /\ sock'[d] = "unused" <=> d[2] > made'[d[1]]
                      /\ sock'[d] \in Busy => d[2] = made'[d[1]] /\ timers'[d[1]] = 0
    BY DEF SocketInv
  <2>1. CASE d = c
    BY <1>1, <1>2, <2>1 DEF PageInv, SocketInv, Busy
  <2>2. CASE d # c /\ d[1] = p
    BY <1>1, <1>2, <1>3, <2>2 DEF PageInv, SocketInv
  <2>3. CASE d # c /\ d[1] # p
    <3>1. d[1] \in Page
      BY ConnFacts
    <3>2. QED BY <1>1, <1>2, <1>4, <2>3, <3>1 DEF PageInv, SocketInv
  <2>4. QED BY <2>1, <2>2, <2>3
<1>7. DecoderInv'
  <2> SUFFICES ASSUME NEW q \in Page
               PROVE  /\ live'[q] = (IF decoder'[q] \in {"waiting", "fed"} THEN 1 ELSE 0)
                      /\ live'[q] = 1 => \E d \in Conn : d[1] = q /\ sock'[d] \in {"open", "broken"}
    BY DEF DecoderInv
  <2>1. CASE q = p
    BY <1>4, <2>1
  <2>2. CASE q # p
    <3>1. \A d \in Conn : d[1] = q => sock'[d] = sock[d]
      BY <1>2, <2>2
    <3>2. QED BY <1>4, <2>2, <3>1 DEF PageInv, DecoderInv
  <2>3. QED BY <2>1, <2>2
<1>8. SlotInv'
  BY <1>1, <1>2 DEF PageInv, SlotInv
<1>9. QED BY <1>5, <1>6, <1>7, <1>8 DEF PageInv

LEMMA ServerKeeps ==
  ASSUME PageInv, NEW c \in Conn, Refuse(c) \/ Accept(c) \/ NotifyReturns(c) \/ Leave(c)
  PROVE  PageInv'
<1>1. UNCHANGED <<made, sock, timers, decoder, live>> /\ NoConn \notin Conn
  BY ConnsAssumption DEF Refuse, Accept, NotifyReturns, Leave, pageVars, Conn
<1>2. SocketInv' /\ DecoderInv'
  BY <1>1 DEF PageInv, SocketInv, DecoderInv
<1>3. TypeOK'
  BY <1>1 DEF PageInv, TypeOK, Refuse, Accept, NotifyReturns, Leave
<1>4. SlotInv'
  BY <1>1 DEF PageInv, TypeOK, SlotInv, Refuse, Accept, NotifyReturns, Leave
<1>5. QED BY <1>2, <1>3, <1>4 DEF PageInv

LEMMA PageInvHolds == Spec => []PageInv
<1>1. Init => PageInv
  <2> SUFFICES ASSUME Init PROVE PageInv
    OBVIOUS
  <2>1. TypeOK /\ DecoderInv /\ SlotInv
    BY ConnFacts DEF Init, TypeOK, DecoderInv, SlotInv
  <2>2. SocketInv
    BY ConnFacts DEF Init, SocketInv, Busy
  <2>3. QED BY <2>1, <2>2 DEF PageInv
<1>2. PageInv /\ [Next]_vars => PageInv'
  <2> SUFFICES ASSUME PageInv, [Next]_vars PROVE PageInv'
    OBVIOUS
  <2>1. CASE UNCHANGED vars
    BY <2>1 DEF vars, pageVars, serverVars, PageInv, TypeOK, SocketInv, DecoderInv, SlotInv
  <2>2. ASSUME NEW p \in Page, DecoderFails(p) PROVE PageInv'
    BY <2>2, DecoderKeeps DEF DecoderFails
  <2>3. ASSUME NEW c \in Conn, OnMessage(c) PROVE PageInv'
    BY <2>3, DecoderKeeps, ConnFacts DEF OnMessage
  <2>4. QED
    BY <2>1, <2>2, <2>3, ConnectKeeps, OnOpenKeeps, BreaksKeeps, OnCloseKeeps, ServerKeeps
       DEF Next
<1>3. QED BY <1>1, <1>2, PTL DEF Spec

(* Every variable keeps its type, for any number of pages.                 *)
THEOREM BrowserTypeCorrect == Spec => []TypeOK
<1>1. PageInv => TypeOK
  BY DEF PageInv
<1>2. QED BY <1>1, PageInvHolds, PTL

(* A page has one socket in use or one pending reconnection, and one       *)
(* decoder at most, open only while a socket is.                           *)
THEOREM PageCompetesWithNobody == Spec => []OneOfEach
<1>1. PageInv => OneOfEach
  <2> SUFFICES ASSUME PageInv, NEW p \in Page
               PROVE  /\ Cardinality(Engaged(p)) + timers[p] <= 1
                      /\ live[p] = (IF decoder[p] \in {"waiting", "fed"} THEN 1 ELSE 0)
                      /\ live[p] = 1 => sock[<<p, made[p]>>] \in {"open", "broken"}
    BY DEF OneOfEach
  <2>1. Cardinality(Engaged(p)) + timers[p] <= 1
    <3>1. timers[p] \in 0..1
      BY DEF PageInv, TypeOK
    <3>2. CASE Engaged(p) = {}
      <4>1. Cardinality(Engaged(p)) = 0
        BY <3>2, FS_EmptySet
      <4>2. QED BY <3>1, <4>1
    <3>3. CASE Engaged(p) # {}
      <4>1. PICK c \in Conn : c[1] = p /\ sock[c] \in Busy
        BY <3>3 DEF Engaged, Busy
      <4>2. Engaged(p) = {c}
        BY <4>1, OneBusy DEF Engaged, Busy
      <4>3. Cardinality(Engaged(p)) = 1
        BY <4>2, FS_Singleton
      <4>4. timers[p] = 0
        BY <4>1 DEF PageInv, SocketInv
      <4>5. QED BY <4>3, <4>4
    <3>4. QED BY <3>2, <3>3
  <2>2. ASSUME live[p] = 1 PROVE sock[<<p, made[p]>>] \in {"open", "broken"}
    <3>1. PICK c \in Conn : c[1] = p /\ sock[c] \in {"open", "broken"}
      BY <2>2 DEF PageInv, DecoderInv
    <3>2. c[2] = made[p]
      BY <3>1 DEF PageInv, SocketInv, Busy
    <3>3. c = <<p, made[p]>>
      BY <3>1, <3>2, ConnFacts
    <3>4. QED BY <3>1, <3>3
  <2>3. QED BY <2>1, <2>2 DEF PageInv, DecoderInv
<1>2. QED BY <1>1, PageInvHolds, PTL

(* Control is refused only in favour of a connection that is served; if    *)
(* that is the page's own, the page has left one of the two.               *)
THEOREM ControlRefusedForCause == Spec => RefusedForCause
<1>1. ASSUME PageInv, Next, NEW c \in Conn, handler[c] = "none", handler'[c] = "notify", slot' # c
      PROVE  /\ handler[slot] \in {"notify", "read"}
             /\ slot[1] = c[1] => sock[slot] = "closed" \/ sock[c] = "closed"
  <2>1. Accept(c)
    <3>1. handler # handler'
      BY <1>1
    <3>2. PICK d \in Conn : Refuse(d) \/ Accept(d) \/ NotifyReturns(d) \/ Leave(d)
      BY <1>1, <3>1 DEF Next, Connect, DecoderFails, OnOpen, OnMessage, Breaks, OnClose, serverVars
    <3>3. d = c
      BY <1>1, <3>2 DEF Refuse, Accept, NotifyReturns, Leave, PageInv, TypeOK
    <3>4. QED BY <1>1, <3>2, <3>3 DEF Refuse, NotifyReturns, Leave, PageInv, TypeOK
  <2>2. slot # NoConn /\ sock[c] # "unused" /\ slot \in Conn
    BY <1>1, <2>1 DEF Accept, PageInv, TypeOK
  <2>3. handler[slot] \in {"notify", "read"} /\ sock[slot] # "unused" /\ slot # c
    BY <1>1, <2>2 DEF PageInv, SlotInv
  <2>4. ASSUME slot[1] = c[1] PROVE sock[slot] = "closed" \/ sock[c] = "closed"
    <3>1. ~(sock[slot] \in Busy /\ sock[c] \in Busy)
      BY <1>1, <2>2, <2>3, <2>4, OneBusy
    <3>2. QED BY <1>1, <2>2, <2>3, <3>1 DEF PageInv, TypeOK, Busy
  <2>5. QED BY <2>3, <2>4
<1> DEFINE A ==
      \A c \in Conn :
        handler[c] = "none" /\ handler'[c] = "notify" /\ slot' # c =>
          /\ handler[slot] \in {"notify", "read"}
          /\ slot[1] = c[1] => sock[slot] = "closed" \/ sock[c] = "closed"
<1>2. PageInv /\ [Next]_vars => [A]_vars
  BY <1>1
<1>3. Spec => [][A]_vars
  BY <1>2, PageInvHolds, PTL DEF Spec
<1>4. QED BY <1>3 DEF RefusedForCause

-----------------------------------------------------------------------------
(* Here accepting a connection and claiming the slot are one step, and so  *)
(* are the end of a connection and giving the slot up: the same lease that *)
(* the handlers of module Hub implement step by step.                      *)
Lease == INSTANCE ControlLease
           WITH Client <- Conn, NoClient <- NoConn, holder <- slot,
                ended <- {c \in Conn : handler[c] \in {"refused", "gone"}},
                injectedBy <- NoConn

(* Whatever pages that reconnect and connections that linger do, the slot  *)
(* passes from one connection to another only through nil, and never to    *)
(* one that was refused or has gone.                                       *)
THEOREM ClientsShareLease == Spec => Lease!Spec
<1>1. Init => Lease!Init
  BY DEF Init, Lease!Init
<1>2. PageInv /\ [Next]_vars => [Lease!Next]_Lease!vars
  <2> SUFFICES ASSUME PageInv, [Next]_vars PROVE [Lease!Next]_Lease!vars
    OBVIOUS
  <2> DEFINE Ended == {c \in Conn : handler[c] \in {"refused", "gone"}}
  <2>1. handler \in [Conn -> {"none", "refused", "notify", "read", "gone"}] /\ NoConn \notin Conn
    BY ConnsAssumption DEF PageInv, TypeOK, Conn
  <2>2. ASSUME UNCHANGED <<handler, slot>> PROVE UNCHANGED Lease!vars
    BY <2>2 DEF Lease!vars
  <2>3. CASE \/ UNCHANGED vars
             \/ \E p \in Page : Connect(p) \/ DecoderFails(p)
             \/ \E c \in Conn : OnOpen(c) \/ OnMessage(c) \/ Breaks(c) \/ OnClose(c)
    BY <2>2, <2>3 DEF vars, serverVars, Connect, DecoderFails, OnOpen, OnMessage, Breaks, OnClose
  <2>4. ASSUME NEW c \in Conn, Refuse(c) PROVE Lease!Next
    <3>1. UNCHANGED slot /\ slot # c
      BY <2>1, <2>4 DEF Refuse, PageInv, SlotInv
    <3>2. Ended' = Ended \cup {c}
      BY <2>1, <2>4 DEF Refuse
    <3>3. QED BY <3>1, <3>2 DEF Lease!Next, Lease!Leave
  <2>5. ASSUME NEW c \in Conn, Accept(c) PROVE [Lease!Next]_Lease!vars
    <3>1. handler[c] = "none" /\ Ended' = Ended /\ c \notin Ended
      BY <2>1, <2>5 DEF Accept
    <3>2. CASE slot = NoConn
      BY <2>5, <3>1, <3>2 DEF Accept, Lease!Next, Lease!Acquire
    <3>3. CASE slot # NoConn
      BY <2>5, <3>1, <3>3 DEF Accept, Lease!vars
    <3>4. QED BY <3>2, <3>3
  <2>6. ASSUME NEW c \in Conn, NotifyReturns(c) PROVE UNCHANGED Lease!vars
    <3>1. UNCHANGED slot /\ Ended' = Ended
      BY <2>1, <2>6 DEF NotifyReturns
    <3>2. QED BY <3>1 DEF Lease!vars
  <2>7. ASSUME NEW c \in Conn, Leave(c) PROVE Lease!Next
    <3>1. Ended' = Ended \cup {c}
      BY <2>1, <2>7 DEF Leave
    <3>2. CASE slot = c
      BY <2>7, <3>1, <3>2 DEF Leave, Lease!Next, Lease!Release
    <3>3. CASE slot # c
      BY <2>7, <3>1, <3>3 DEF Leave, Lease!Next, Lease!Leave
    <3>4. QED BY <3>2, <3>3
  <2>8. QED BY <2>3, <2>4, <2>5, <2>6, <2>7 DEF Next
<1>3. QED BY <1>1, <1>2, PageInvHolds, PTL DEF Spec, Lease!Spec
=============================================================================

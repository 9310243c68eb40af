----------------------- MODULE InputInjectionProofs -----------------------
(***************************************************************************)
(* That input injection keeps its types, presses registered keys only,     *)
(* reports the events of one message at a time, makes the host follow the  *)
(* controller's hand and shares the abstract lease: for any connections,   *)
(* keys, buttons and messages under way.                                   *)
(***************************************************************************)
EXTENDS InputInjection, SequenceTheorems, TLAPS

Event ==
  {<<"key", h, down>> : h \in HostCode, down \in BOOLEAN}
  \cup {<<"x">>, <<"y">>, <<"wheel">>, Syn}

LEMMA HostCodes ==
  /\ HostCode \subseteq 1..255 \cup {BtnLeft, BtnRight, BtnMiddle}
  /\ \A k \in Code : k \in DOMAIN KeyMap => KeyMap[k] \in HostKeys(Code)
  /\ \A b \in Button : MouseButtonToLinux(b) \in HostButtons(Button)
  /\ \A bs \in SUBSET Button : HostButtons(bs) \subseteq HostButtons(Button)
  /\ \A ks \in SUBSET Code : HostKeys(ks) \subseteq HostKeys(Code)
BY InputAssumption DEF HostCode, HostKeys, HostButtons, MouseButtonToLinux

(* A packet ends with its one SYN_REPORT. *)
LEMMA PacketShape ==
  ASSUME NEW p \in Packet
  PROVE  /\ p \in Seq(Event) /\ Len(p) \in {2, 3}
         /\ \A i \in 1..Len(p) : p[i] = Syn <=> i = Len(p)
<1>1. PICK m \in Message : p = Events(m) /\ p # <<>>
  BY DEF Packet
<1>2. CASE m[1] = "key"
  <2>1. PICK k \in Code, down \in BOOLEAN : m = <<"key", k, down>>
    BY <1>2 DEF Message
  <2>2. k \in DOMAIN KeyMap /\ p = <<<<"key", KeyMap[k], down>>, Syn>>
    BY <1>1, <2>1 DEF Events, InjectKey
  <2>3. <<"key", KeyMap[k], down>> \in Event /\ Syn \in Event
    BY <2>1, <2>2, HostCodes DEF Event, HostCode
  <2>4. <<"key", KeyMap[k], down>> # Syn
    BY DEF Syn
  <2>5. QED BY <2>2, <2>3, <2>4
<1>3. CASE m[1] = "button"
  <2>1. PICK b \in Button, down \in BOOLEAN : m = <<"button", b, down>>
    BY <1>3 DEF Message
  <2>2. p = <<<<"key", MouseButtonToLinux(b), down>>, Syn>>
    BY <1>1, <2>1 DEF Events
  <2>3. <<"key", MouseButtonToLinux(b), down>> \in Event /\ Syn \in Event
    BY <2>1, HostCodes DEF Event, HostCode
  <2>4. <<"key", MouseButtonToLinux(b), down>> # Syn
    BY DEF Syn
  <2>5. QED BY <2>2, <2>3, <2>4
<1>4. CASE m[1] = "move"
  <2>1. p = <<<<"x">>, <<"y">>, Syn>>
    BY <1>1, <1>4 DEF Events
  <2>2. <<"x">> # Syn /\ <<"y">> # Syn /\ {<<"x">>, <<"y">>, Syn} \subseteq Event
    BY DEF Syn, Event
  <2>3. QED BY <2>1, <2>2
<1>5. CASE m[1] \notin {"key", "button", "move"}
  <2>1. p = <<<<"wheel">>, Syn>>
    BY <1>1, <1>5 DEF Events
  <2>2. <<"wheel">> # Syn /\ {<<"wheel">>, Syn} \subseteq Event
    BY DEF Syn, Event
  <2>3. QED BY <2>1, <2>2
<1>6. QED BY <1>2, <1>3, <1>4, <1>5

LEMMA EventsOfMessage ==
  ASSUME NEW m \in Message
  PROVE  (Events(m) = <<>> \/ Events(m) \in Packet) /\ Events(m) \in Seq(Event)
<1>1. Events(m) = <<>> \/ Events(m) \in Packet
  BY DEF Packet
<1>2. CASE Events(m) = <<>>
  BY <1>1, <1>2
<1>3. CASE Events(m) \in Packet
  BY <1>3, PacketShape
<1>4. QED BY <1>1, <1>2, <1>3

LEMMA CodesOfEvents ==
  ASSUME NEW s \in Seq(Event)
  PROVE  CodesIn(s) \subseteq HostCode
<1> SUFFICES ASSUME NEW i \in DOMAIN s, s[i][1] = "key" PROVE s[i][2] \in HostCode
  BY DEF CodesIn
<1>1. s[i] \in Event
  OBVIOUS
<1>2. QED BY <1>1 DEF Event, Syn

-----------------------------------------------------------------------------
(* The invariant *)

(* Only the controller's handler is ever in the middle of a message, and   *)
(* what it has written of it and what it has still to write make it whole. *)
InjectInv ==
  /\ TypeOK
  /\ wire \in [Client -> Seq(Message)] /\ todo \in [Client -> Seq(Event)]
  /\ report \in Seq(Event)
  /\ \A c \in Client : todo[c] # <<>> => c = controller
  /\ alive => \A c \in Client : todo[c] # <<>> => report \o todo[c] \in Packet
  /\ alive /\ (\A c \in Client : todo[c] = <<>>) => report = <<>>

LEMMA InjectFacts ==
  ASSUME InjectInv
  PROVE  /\ page \in [Client -> {"off", "on", "lost"}] /\ handler \in [Client -> {"none", "read", "ended"}]
         /\ keys \in [Client -> SUBSET HostKeys(Code)] /\ buttons \in [Client -> SUBSET Button]
         /\ wire \in [Client -> Seq(Message)] /\ todo \in [Client -> Seq(Event)]
         /\ controller \in Client \cup {NoClient} /\ adrift \subseteq HostCode
BY DEF InjectInv, TypeOK

LEMMA HeldCodes ==
  ASSUME InjectInv, NEW c \in Client
  PROVE  keys[c] \subseteq HostCode /\ HostButtons(buttons[c]) \subseteq HostCode
BY InjectFacts, HostCodes DEF HostCode

LEMMA SentKeepsTypes ==
  ASSUME InjectInv, NEW c \in Client, NEW m \in Message, SendInput(c, m)
  PROVE  /\ wire' \in [Client -> Seq(Message)]
         /\ \A d \in Client : wire'[d] \in Seq(Message) /\ Len(wire'[d]) <= MaxWire
<1>1. wire' = [wire EXCEPT ![c] = Append(wire[c], m)] /\ Len(wire[c]) < MaxWire
  BY DEF SendInput
<1>2. \A d \in Client : wire[d] \in Seq(Message) /\ Len(wire[d]) <= MaxWire
  BY DEF InjectInv, TypeOK
<1>3. Append(wire[c], m) \in Seq(Message) /\ Len(Append(wire[c], m)) <= MaxWire
  BY <1>1, <1>2, InputAssumption
<1>4. QED BY <1>1, <1>2, <1>3, InjectFacts

(* What a page sends does not touch the device, nor the message in hand.   *)
LEMMA PageKeeps ==
  ASSUME InjectInv, UNCHANGED <<connVars, todo, deviceVars>>,
         wire' \in [Client -> Seq(Message)],
         \A d \in Client : wire'[d] \in Seq(Message) /\ Len(wire'[d]) <= MaxWire,
         keys' \in [Client -> SUBSET HostKeys(Code)], buttons' \in [Client -> SUBSET Button],
         adrift' \subseteq HostCode
  PROVE  InjectInv'
<1>1. TypeOK'
  BY DEF InjectInv, TypeOK, connVars, deviceVars
<1>2. QED BY <1>1 DEF InjectInv, connVars, deviceVars

LEMMA ControlKeeps ==
  ASSUME InjectInv, NEW c \in Client, Control(c)
  PROVE  InjectInv'
<1> USE DEF userVars, Reported, Unreported
<1>1. ASSUME NEW k \in Code, KeyDown(c, k) \/ KeyUp(c, k) PROVE InjectInv'
  <2>1. PICK down \in BOOLEAN : SendInput(c, <<"key", k, down>>)
    BY <1>1 DEF KeyDown, KeyUp
  <2>2. <<"key", k, down>> \in Message
    BY DEF Message
  <2>3. HostKeys({k}) \subseteq HostKeys(Code)
    BY HostCodes
  <2>4. keys' \in [Client -> SUBSET HostKeys(Code)] /\ adrift' \subseteq HostCode
    BY <1>1, <2>3, InjectFacts DEF KeyDown, KeyUp
  <2>5. QED BY <1>1, <2>1, <2>2, <2>4, SentKeepsTypes, PageKeeps, InjectFacts
      DEF KeyDown, KeyUp
<1>2. ASSUME NEW b \in Button, ButtonDown(c, b) \/ ButtonUp(c, b) PROVE InjectInv'
  <2>1. PICK m \in Message : SendInput(c, m)
    <3>1. <<"move">> \in Message /\ \A down \in BOOLEAN : <<"button", b, down>> \in Message
      BY DEF Message
    <3>2. \/ SendInput(c, <<"move">>) \/ SendInput(c, <<"button", b, TRUE>>)
          \/ SendInput(c, <<"button", b, FALSE>>)
      BY <1>2 DEF ButtonDown, ButtonUp
    <3>3. QED BY <3>1, <3>2
  <2>2. buttons' \in [Client -> SUBSET Button]
    <3>1. \/ buttons' = [buttons EXCEPT ![c] = @ \cup {b}]
          \/ buttons' = [buttons EXCEPT ![c] = @ \ {b}]
      BY <1>2 DEF ButtonDown, ButtonUp
    <3>2. buttons[c] \cup {b} \in SUBSET Button /\ buttons[c] \ {b} \in SUBSET Button
      BY InjectFacts
    <3>3. QED BY <3>1, <3>2, InjectFacts
  <2>3. adrift' \subseteq HostCode
    <3>1. adrift' \subseteq adrift \cup HostButtons({b})
      BY <1>2 DEF ButtonDown, ButtonUp
    <3>2. HostButtons({b}) \subseteq HostCode
      BY HostCodes DEF HostCode
    <3>3. QED BY <3>1, <3>2, InjectFacts
  <2>4. QED BY <1>2, <2>1, <2>2, <2>3, SentKeepsTypes, PageKeeps, InjectFacts
      DEF ButtonDown, ButtonUp
<1>3. CASE MoveOrWheel(c)
  <2>1. PICK m \in Message : SendInput(c, m)
    BY <1>3 DEF MoveOrWheel
  <2>2. QED BY <1>3, <2>1, SentKeepsTypes, PageKeeps, InjectFacts DEF MoveOrWheel
<1>4. CASE KeyUpElsewhere(c)
  <2>1. keys' \in [Client -> SUBSET HostKeys(Code)] /\ adrift' \subseteq HostCode
    BY <1>4, HeldCodes, InjectFacts DEF KeyUpElsewhere
  <2>2. \A d \in Client : wire[d] \in Seq(Message) /\ Len(wire[d]) <= MaxWire
    BY DEF InjectInv, TypeOK
  <2>3. QED BY <1>4, <2>1, <2>2, PageKeeps, InjectFacts DEF KeyUpElsewhere
<1>5. CASE ButtonsUpElsewhere(c)
  <2>1. buttons' \in [Client -> SUBSET Button] /\ adrift' \subseteq HostCode
    BY <1>5, HeldCodes, InjectFacts DEF ButtonsUpElsewhere
  <2>2. \A d \in Client : wire[d] \in Seq(Message) /\ Len(wire[d]) <= MaxWire
    BY DEF InjectInv, TypeOK
  <2>3. QED BY <1>5, <2>1, <2>2, PageKeeps, InjectFacts DEF ButtonsUpElsewhere
<1>6. QED BY <1>1, <1>2, <1>3, <1>4, <1>5 DEF Control

LEMMA ViewKeeps ==
  ASSUME InjectInv, NEW c \in Client, View(c)
  PROVE  InjectInv'
<1>1. PICK m \in Message : SendInput(c, m)
  BY DEF View
<1>2. QED BY <1>1, SentKeepsTypes, PageKeeps, InjectFacts DEF View, userVars

LEMMA ConnectionKeeps ==
  ASSUME InjectInv, NEW c \in Client, Connect(c) \/ Disconnect(c) \/ ReadText(c) \/ ReadFails(c)
  PROVE  InjectInv'
<1> USE DEF userVars, connVars, deviceVars, Unreported
<1>1. CASE Connect(c)
  <2>1. /\ controller' \in Client /\ (controller # NoClient => controller' = controller)
        /\ keys' \in [Client -> SUBSET HostKeys(Code)] /\ buttons' \in [Client -> SUBSET Button]
        /\ adrift' \subseteq HostCode
    <3>1. CASE controller = NoClient
      <4>1. PICK ks \in SUBSET HostKeys(Code), bs \in SUBSET Button :
              /\ controller' = c
              /\ keys' = [keys EXCEPT ![c] = ks] /\ buttons' = [buttons EXCEPT ![c] = bs]
              /\ adrift' = adrift \cup (ks \cup HostButtons(bs))
        BY <1>1, <3>1 DEF Connect
      <4>2. HostButtons(bs) \subseteq HostCode /\ ks \subseteq HostCode
        BY HostCodes DEF HostCode
      <4>3. QED BY <3>1, <4>1, <4>2, InjectFacts
    <3>2. CASE controller # NoClient
      BY <1>1, <3>2, InjectFacts DEF Connect
    <3>3. QED BY <3>1, <3>2
  <2>2. page' \in [Client -> {"off", "on", "lost"}] /\ handler' \in [Client -> {"none", "read", "ended"}]
    BY <1>1, InjectFacts DEF Connect
  <2>3. UNCHANGED <<wire, todo, deviceVars>>
    BY <1>1 DEF Connect
  <2>4. TypeOK'
    BY <2>1, <2>2, <2>3 DEF InjectInv, TypeOK
  <2>5. \A d \in Client : todo'[d] # <<>> => d = controller'
    BY <2>1, <2>3, InputAssumption DEF InjectInv
  <2>6. QED BY <2>3, <2>4, <2>5 DEF InjectInv
<1>2. CASE Disconnect(c)
  <2>1. /\ page' \in [Client -> {"off", "on", "lost"}]
        /\ keys' \in [Client -> SUBSET HostKeys(Code)] /\ buttons' \in [Client -> SUBSET Button]
        /\ UNCHANGED <<handler, controller, todo, deviceVars>>
    BY <1>2, InjectFacts DEF Disconnect
  <2>2. /\ wire' \in [Client -> Seq(Message)]
        /\ \A d \in Client : wire'[d] \in Seq(Message) /\ Len(wire'[d]) <= MaxWire
    <3>1. \A d \in Client : wire[d] \in Seq(Message) /\ Len(wire[d]) <= MaxWire
      BY DEF InjectInv, TypeOK
    <3>2. PICK n \in 0..Len(wire[c]) : wire' = [wire EXCEPT ![c] = SubSeq(wire[c], 1, n)]
      BY <1>2 DEF Disconnect
    <3>3. SubSeq(wire[c], 1, n) \in Seq(Message) /\ Len(SubSeq(wire[c], 1, n)) <= MaxWire
      BY <3>1, <3>2, InputAssumption
    <3>4. QED BY <3>1, <3>2, <3>3, InjectFacts
  <2>3. adrift' \subseteq HostCode
    <3>1. \A i \in DOMAIN wire[c] : CodesIn(Events(wire[c][i])) \subseteq HostCode
      <4>1. \A i \in DOMAIN wire[c] : wire[c][i] \in Message
        BY InjectFacts
      <4>2. QED BY <4>1, EventsOfMessage, CodesOfEvents
    <3>2. CodesInFlight(c) \subseteq HostCode
      BY <3>1, InjectFacts, CodesOfEvents DEF CodesInFlight
    <3>3. adrift' = adrift \/ adrift' = adrift \cup (CodesInFlight(c) \cup keys[c] \cup HostButtons(buttons[c]))
      BY <1>2 DEF Disconnect
    <3>4. QED BY <3>2, <3>3, HeldCodes, InjectFacts
  <2>4. TypeOK'
    BY <2>1, <2>2, <2>3 DEF InjectInv, TypeOK
  <2>5. QED BY <2>1, <2>2, <2>4 DEF InjectInv
<1>3. CASE ReadText(c)
  <2>1. /\ UNCHANGED <<userVars, connVars, deviceVars, adrift>> /\ todo[c] = <<>> /\ wire[c] # <<>>
        /\ wire' = [wire EXCEPT ![c] = Tail(wire[c])]
        /\ todo' = [todo EXCEPT ![c] = IF c = controller THEN Events(Head(wire[c])) ELSE <<>>]
    BY <1>3 DEF ReadText
  <2>2. \A d \in Client : wire[d] \in Seq(Message) /\ Len(wire[d]) <= MaxWire
    BY DEF InjectInv, TypeOK
  <2>3. /\ Tail(wire[c]) \in Seq(Message) /\ Len(Tail(wire[c])) <= MaxWire /\ Head(wire[c]) \in Message
    BY <2>1, <2>2, InputAssumption
  <2>4. /\ wire' \in [Client -> Seq(Message)]
        /\ \A d \in Client : wire'[d] \in Seq(Message) /\ Len(wire'[d]) <= MaxWire
    BY <2>1, <2>2, <2>3, InjectFacts
  <2>5. todo' \in [Client -> Seq(Event)]
    BY <2>1, <2>3, EventsOfMessage, InjectFacts
  <2>6. TypeOK'
    BY <2>1, <2>4 DEF InjectInv, TypeOK
  <2>7. \A d \in Client : d # c => todo'[d] = todo[d]
    BY <2>1, InjectFacts
  <2>8. \A d \in Client : todo'[d] # <<>> => d = controller
    BY <2>1, <2>7, InjectFacts DEF InjectInv
  <2>9. ASSUME alive, todo'[c] # <<>> PROVE report = <<>> /\ todo'[c] \in Packet
    <3>1. c = controller /\ todo'[c] = Events(Head(wire[c]))
      BY <2>1, <2>9, InjectFacts
    <3>2. \A d \in Client : todo[d] = <<>>
      BY <2>1, <3>1 DEF InjectInv
    <3>3. QED BY <2>3, <2>9, <3>1, <3>2, EventsOfMessage DEF InjectInv
  <2>10. alive' => \A d \in Client : todo'[d] # <<>> => report' \o todo'[d] \in Packet
    <3> SUFFICES ASSUME alive, NEW d \in Client, todo'[d] # <<>> PROVE report \o todo'[d] \in Packet
      BY <2>1
    <3>1. CASE d = c
      BY <2>5, <2>9, <3>1
    <3>2. CASE d # c
      BY <2>7, <3>2 DEF InjectInv
    <3>3. QED BY <3>1, <3>2
  <2>11. alive' /\ (\A d \in Client : todo'[d] = <<>>) => report' = <<>>
    BY <2>1, <2>7 DEF InjectInv
  <2>12. QED BY <2>1, <2>4, <2>5, <2>6, <2>8, <2>10, <2>11 DEF InjectInv
<1>4. CASE ReadFails(c)
  <2>1. /\ UNCHANGED <<userVars, page, wire, todo, deviceVars, adrift>> /\ todo[c] = <<>>
        /\ handler' \in [Client -> {"none", "read", "ended"}]
        /\ controller' = IF controller = c THEN NoClient ELSE controller
    BY <1>4, InjectFacts DEF ReadFails
  <2>2. TypeOK'
    BY <2>1 DEF InjectInv, TypeOK
  <2>3. \A d \in Client : todo'[d] # <<>> => d = controller'
    BY <2>1 DEF InjectInv
  <2>4. QED BY <2>1, <2>2, <2>3 DEF InjectInv
<1>5. QED BY <1>1, <1>2, <1>3, <1>4

LEMMA CodesPressed ==
  ASSUME InjectInv, NEW e \in Event, e[1] = "key"
  PROVE  e[2] \in 1..255 \cup {BtnLeft, BtnRight, BtnMiddle}
BY HostCodes DEF Event, Syn

LEMMA NoElements ==
  ASSUME NEW S, NEW u \in Seq(S), Len(u) = 0
  PROVE  u = <<>>
<1>1. <<>> \in Seq(S) /\ Len(<<>>) = 0
  OBVIOUS
<1>2. \A i \in 1..Len(u) : u[i] = <<>>[i]
  <2>1. 1..Len(u) = {}
    OBVIOUS
  <2>2. QED BY <2>1
<1>3. QED BY <1>1, <1>2, SeqEqual

LEMMA HeadMoves ==
  ASSUME NEW S, NEW r \in Seq(S), NEW t \in Seq(S), t # <<>>
  PROVE  /\ Append(r, Head(t)) \o Tail(t) = r \o t
         /\ Tail(t) = <<>> <=> Len(t) = 1
         /\ Len(r \o t) = Len(r) + Len(t) /\ (r \o t)[Len(r) + 1] = Head(t)
         /\ Len(r) + 1 \in 1..Len(r \o t)
<1>1. /\ Len(t) \in Nat /\ Len(t) # 0 /\ Len(r) \in Nat /\ Head(t) = t[1] /\ Tail(t) \in Seq(S)
      /\ Len(Tail(t)) = Len(t) - 1 /\ \A i \in 1..Len(t) - 1 : Tail(t)[i] = t[i + 1]
  OBVIOUS
<1>2. Tail(t) = <<>> <=> Len(t) = 1
  <2>1. Tail(t) = <<>> <=> Len(Tail(t)) = 0
    <3>1. <<>> \in Seq(S) /\ Len(<<>>) = 0
      OBVIOUS
    <3>2. Len(Tail(t)) = 0 => Tail(t) = <<>>
      BY <1>1, NoElements
    <3>3. QED BY <3>1, <3>2
  <2>2. QED BY <1>1, <2>1
<1>3. /\ Len(r \o t) = Len(r) + Len(t)
      /\ \A i \in 1..Len(r) + Len(t) : (r \o t)[i] = IF i <= Len(r) THEN r[i] ELSE t[i - Len(r)]
  OBVIOUS
<1>4. Append(r, Head(t)) \o Tail(t) = r \o t
  <2> DEFINE a == Append(r, Head(t))
             x == a \o Tail(t)
             y == r \o t
  <2>1. a \in Seq(S) /\ Len(a) = Len(r) + 1 /\ \A i \in 1..Len(a) : a[i] = IF i <= Len(r) THEN r[i] ELSE t[1]
    BY <1>1
  <2>2. /\ x \in Seq(S) /\ Len(x) = Len(a) + Len(Tail(t))
        /\ \A i \in 1..Len(x) : x[i] = IF i <= Len(a) THEN a[i] ELSE Tail(t)[i - Len(a)]
    BY <1>1, <2>1
  <2> HIDE DEF a
  <2>3. Len(x) = Len(y) /\ y \in Seq(S)
    BY <1>1, <1>3, <2>1, <2>2
  <2> HIDE DEF x
  <2>4. ASSUME NEW i \in 1..Len(y) PROVE x[i] = y[i]
    <3>1. CASE i <= Len(r)
      BY <1>1, <1>3, <2>1, <2>2, <2>3, <3>1
    <3>2. CASE i = Len(r) + 1
      BY <1>1, <1>3, <2>1, <2>2, <2>3, <3>2
    <3>3. CASE i > Len(r) + 1
      <4>1. i - Len(a) \in 1..Len(t) - 1 /\ i - Len(a) + 1 = i - Len(r)
        BY <1>1, <1>3, <2>1, <3>3
      <4>2. x[i] = Tail(t)[i - Len(a)] /\ y[i] = t[i - Len(r)]
        BY <1>1, <1>3, <2>1, <2>2, <2>3, <3>3
      <4>3. QED BY <1>1, <4>1, <4>2
    <3>4. QED BY <1>1, <3>1, <3>2, <3>3
  <2>5. x = y
    BY <2>2, <2>3, <2>4, SeqEqual
  <2>6. QED BY <2>5 DEF x, a
<1>5. Len(r) + 1 \in 1..Len(r \o t) /\ (r \o t)[Len(r) + 1] = Head(t)
  <2>1. Len(r) \in Nat /\ Len(t) \in Nat /\ Len(t) >= 1
    BY <1>1
  <2>2. Len(r) + 1 \in 1..Len(r) + Len(t) /\ Len(r) + 1 - Len(r) = 1 /\ ~(Len(r) + 1 <= Len(r))
    BY <2>1
  <2>3. (r \o t)[Len(r) + 1] = t[1]
    BY <1>3, <2>2
  <2>4. QED BY <1>1, <1>3, <2>2, <2>3
<1>6. Len(r \o t) = Len(r) + Len(t)
  BY <1>3
<1>7. QED BY <1>2, <1>4, <1>5, <1>6

LEMMA WriteKeeps ==
  ASSUME InjectInv, NEW c \in Client, Write(c)
  PROVE  InjectInv'
<1> USE DEF userVars, connVars
<1> DEFINE e == Head(todo[c])
<1>1. /\ alive /\ todo[c] # <<>> /\ todo' = [todo EXCEPT ![c] = Tail(todo[c])]
      /\ report' = IF e = Syn THEN <<>> ELSE Append(report, e)
      /\ UNCHANGED <<userVars, connVars, wire, alive, adrift>>
  BY DEF Write
<1>2. /\ todo[c] \in Seq(Event) /\ report \in Seq(Event) /\ c = controller
      /\ report \o todo[c] \in Packet
  BY <1>1, InjectFacts DEF InjectInv
<1>3. e \in Event /\ Tail(todo[c]) \in Seq(Event)
  BY <1>1, <1>2
<1>4. TypeOK'
  <2>1. pressed' \subseteq 1..255 \cup {BtnLeft, BtnRight, BtnMiddle}
    <3>1. pressed' \subseteq pressed \/ (e[1] = "key" /\ pressed' = pressed \cup {e[2]})
      BY DEF Write
    <3>2. pressed \subseteq 1..255 \cup {BtnLeft, BtnRight, BtnMiddle}
      BY DEF InjectInv, TypeOK
    <3>3. CASE e[1] = "key" /\ pressed' = pressed \cup {e[2]}
      BY <1>3, <3>2, <3>3, CodesPressed
    <3>4. QED BY <3>1, <3>2, <3>3
  <2>2. QED BY <1>1, <2>1 DEF InjectInv, TypeOK
<1>5. todo' \in [Client -> Seq(Event)] /\ report' \in Seq(Event)
  BY <1>1, <1>2, <1>3, InjectFacts
<1>6. todo'[c] = Tail(todo[c]) /\ \A d \in Client : d # c => todo'[d] = <<>>
  BY <1>1, <1>2, InjectFacts DEF InjectInv
<1>7. CASE e = Syn
  <2>1. Tail(todo[c]) = <<>>
    <3> DEFINE p == report \o todo[c]
    <3>1. /\ Len(report) + 1 \in 1..Len(p) /\ Len(p) = Len(report) + Len(todo[c])
          /\ p[Len(report) + 1] = e /\ (Tail(todo[c]) = <<>> <=> Len(todo[c]) = 1)
      BY <1>1, <1>2, HeadMoves
    <3>2. Len(report) + 1 = Len(p)
      BY <1>2, <1>7, <3>1, PacketShape
    <3>3. Len(report) \in Nat /\ Len(todo[c]) \in Nat
      BY <1>2
    <3>4. QED BY <3>1, <3>2, <3>3
  <2>2. report' = <<>>
    BY <1>1, <1>7
  <2>3. QED BY <1>1, <1>4, <1>5, <1>6, <2>1, <2>2 DEF InjectInv
<1>8. CASE e # Syn
  <2>1. report' \o Tail(todo[c]) = report \o todo[c]
    BY <1>1, <1>2, <1>8, HeadMoves
  <2>2. Tail(todo[c]) # <<>>
    <3> SUFFICES ASSUME Tail(todo[c]) = <<>> PROVE FALSE
      OBVIOUS
    <3> DEFINE p == report \o todo[c]
    <3>1. /\ Len(report) + 1 \in 1..Len(p) /\ Len(p) = Len(report) + Len(todo[c])
          /\ p[Len(report) + 1] = e /\ Len(todo[c]) = 1
      BY <1>1, <1>2, HeadMoves
    <3>2. QED BY <1>2, <1>8, <3>1, PacketShape
  <2>3. QED BY <1>1, <1>2, <1>4, <1>5, <1>6, <2>1, <2>2 DEF InjectInv
<1>9. QED BY <1>7, <1>8

LEMMA DeviceKeeps ==
  ASSUME InjectInv, CloseDevice \/ \E c \in Client : WriteFails(c)
  PROVE  InjectInv'
<1> USE DEF userVars, connVars, deviceVars
<1>1. CASE CloseDevice
  <2>1. TypeOK'
    BY <1>1 DEF CloseDevice, InjectInv, TypeOK, HostCode
  <2>2. QED BY <1>1, <2>1 DEF CloseDevice, InjectInv
<1>2. ASSUME NEW c \in Client, WriteFails(c) PROVE InjectInv'
  <2>1. /\ ~alive' /\ UNCHANGED <<userVars, connVars, wire, deviceVars, adrift>>
        /\ todo' = [todo EXCEPT ![c] = <<>>]
    BY <1>2 DEF WriteFails
  <2>2. TypeOK'
    BY <2>1 DEF InjectInv, TypeOK
  <2>3. todo' \in [Client -> Seq(Event)] /\ \A d \in Client : todo'[d] \in {<<>>, todo[d]}
    BY <2>1, InjectFacts
  <2>4. QED BY <2>1, <2>2, <2>3 DEF InjectInv
<1>3. QED BY <1>1, <1>2

LEMMA InitInject ==
  ASSUME Init
  PROVE  InjectInv
<1>1. TypeOK
  BY InputAssumption DEF Init, TypeOK
<1>2. QED BY <1>1 DEF Init, InjectInv

LEMMA InjectInvStep ==
  ASSUME InjectInv, [Next]_vars
  PROVE  InjectInv'
<1>1. CASE UNCHANGED vars
  <2>1. TypeOK'
    BY <1>1 DEF InjectInv, TypeOK, vars, userVars, connVars, deviceVars
  <2>2. QED BY <1>1, <2>1 DEF InjectInv, vars, userVars, connVars, deviceVars
<1>2. QED BY <1>1, ControlKeeps, ViewKeeps, ConnectionKeeps, WriteKeeps, DeviceKeeps
    DEF Next, Handler

LEMMA InjectInvHolds == Spec => []InjectInv
BY InitInject, InjectInvStep, PTL DEF Spec

(* Every variable keeps its type, and only registered keys and buttons are *)
(* ever pressed.                                                           *)
THEOREM InputTypeCorrect == Spec => []TypeOK
<1>1. InjectInv => TypeOK
  BY DEF InjectInv
<1>2. QED BY <1>1, InjectInvHolds, PTL

(* A SYN_REPORT closes the events of one message, all of them and no       *)
(* others, however control passes from one connection to another.          *)
THEOREM InputReportsWhole == Spec => []ReportsWhole
<1>1. InjectInv => ReportsWhole
  <2> SUFFICES ASSUME InjectInv, alive PROVE ReportsWhole
    BY DEF ReportsWhole
  <2>1. CASE \A c \in Client : todo[c] = <<>>
    BY <2>1 DEF InjectInv, ReportsWhole
  <2>2. ASSUME NEW c \in Client, todo[c] # <<>> PROVE ReportsWhole
    <3>1. {d \in Client : todo[d] # <<>>} = {c}
      BY <2>2 DEF InjectInv
    <3>2. report \o todo[c] \in Packet
      BY <2>2 DEF InjectInv
    <3>3. QED BY <3>1, <3>2 DEF ReportsWhole
  <2>3. QED BY <2>1, <2>2
<1>2. QED BY <1>1, InjectInvHolds, PTL
-----------------------------------------------------------------------------
(* What messages say of a code: lemmas about LastDown and Silent *)

LEMMA DownIsSaid ==
  ASSUME NEW s, NEW h, DownBy(s, h)
  PROVE  h \in CodesIn(s)
<1>1. PICK i \in DOMAIN s : s[i] = <<"key", h, TRUE>>
  BY DEF DownBy, Range
<1>2. s[i][1] = "key" /\ s[i][2] = h
  BY <1>1
<1>3. QED BY <1>2 DEF CodesIn

LEMMA SilentIsNotDown ==
  ASSUME NEW w, NEW h, Silent(w, h)
  PROVE  ~LastDown(w, h)
BY DownIsSaid DEF Silent, LastDown

(* One more message decides, if it says anything of the code. *)
LEMMA AppendSays ==
  ASSUME NEW w \in Seq(Message), NEW m \in Message, NEW h
  PROVE  /\ h \notin CodesIn(Events(m)) =>
              /\ Silent(Append(w, m), h) <=> Silent(w, h)
              /\ LastDown(Append(w, m), h) <=> LastDown(w, h)
         /\ h \in CodesIn(Events(m)) =>
              /\ ~Silent(Append(w, m), h)
              /\ LastDown(Append(w, m), h) <=> DownBy(Events(m), h)
<1> DEFINE a == Append(w, m)
<1>1. /\ Len(w) \in Nat /\ DOMAIN w = 1..Len(w) /\ DOMAIN a = 1..(Len(w) + 1)
      /\ a[Len(w) + 1] = m /\ \A i \in 1..Len(w) : a[i] = w[i]
  OBVIOUS
<1> HIDE DEF a
<1>2. \A i \in DOMAIN w : i \in DOMAIN a /\ i < Len(w) + 1
  BY <1>1
<1>3. \A i \in DOMAIN a : i \in DOMAIN w \/ i = Len(w) + 1
  BY <1>1
<1>4. Len(w) + 1 \in DOMAIN a /\ \A i \in DOMAIN a : ~(i > Len(w) + 1)
  BY <1>1
<1>5. ASSUME h \notin CodesIn(Events(m))
      PROVE  (Silent(a, h) <=> Silent(w, h)) /\ (LastDown(a, h) <=> LastDown(w, h))
  <2>1. Silent(a, h) <=> Silent(w, h)
    BY <1>1, <1>2, <1>3, <1>5 DEF Silent
  <2>2. ASSUME LastDown(a, h) PROVE LastDown(w, h)
    <3>1. PICK i \in DOMAIN a : /\ DownBy(Events(a[i]), h)
                                /\ \A j \in DOMAIN a : j > i => h \notin CodesIn(Events(a[j]))
      BY <2>2 DEF LastDown
    <3>2. i \in DOMAIN w
      BY <1>1, <1>3, <1>5, <3>1, DownIsSaid
    <3>3. QED BY <1>1, <1>2, <3>1, <3>2 DEF LastDown
  <2>3. ASSUME LastDown(w, h) PROVE LastDown(a, h)
    <3>1. PICK i \in DOMAIN w : /\ DownBy(Events(w[i]), h)
                                /\ \A j \in DOMAIN w : j > i => h \notin CodesIn(Events(w[j]))
      BY <2>3 DEF LastDown
    <3>2. \A j \in DOMAIN a : j > i => h \notin CodesIn(Events(a[j]))
      BY <1>1, <1>3, <1>5, <3>1
    <3>3. i \in DOMAIN a /\ DownBy(Events(a[i]), h)
      BY <1>1, <1>2, <3>1
    <3>4. QED BY <3>2, <3>3 DEF LastDown
  <2>4. QED BY <2>1, <2>2, <2>3
<1>6. ASSUME h \in CodesIn(Events(m))
      PROVE  ~Silent(a, h) /\ (LastDown(a, h) <=> DownBy(Events(m), h))
  <2>1. ~Silent(a, h)
    BY <1>1, <1>4, <1>6 DEF Silent
  <2>2. DownBy(Events(m), h) => LastDown(a, h)
    BY <1>1, <1>4 DEF LastDown
  <2>3. ASSUME LastDown(a, h) PROVE DownBy(Events(m), h)
    <3>1. PICK i \in DOMAIN a : /\ DownBy(Events(a[i]), h)
                                /\ \A j \in DOMAIN a : j > i => h \notin CodesIn(Events(a[j]))
      BY <2>3 DEF LastDown
    <3>2. i = Len(w) + 1
      BY <1>1, <1>2, <1>3, <1>4, <1>6, <3>1
    <3>3. QED BY <1>1, <3>1, <3>2
  <2>4. QED BY <2>1, <2>2, <2>3
<1>7. QED BY <1>5, <1>6 DEF a

(* The first message decides what the others leave open. *)
LEMMA HeadSays ==
  ASSUME NEW w \in Seq(Message), w # <<>>, NEW h
  PROVE  /\ Silent(w, h) <=> Silent(Tail(w), h) /\ h \notin CodesIn(Events(Head(w)))
         /\ LastDown(w, h) <=>
              LastDown(Tail(w), h) \/ (Silent(Tail(w), h) /\ DownBy(Events(Head(w)), h))
<1> DEFINE t == Tail(w)
<1>1. /\ Len(w) \in Nat /\ DOMAIN w = 1..Len(w) /\ DOMAIN t = 1..(Len(w) - 1) /\ Len(w) >= 1
      /\ Head(w) = w[1] /\ \A i \in 1..(Len(w) - 1) : t[i] = w[i + 1]
  OBVIOUS
<1> HIDE DEF t
<1>2. 1 \in DOMAIN w /\ \A i \in DOMAIN t : i + 1 \in DOMAIN w /\ i \in Nat /\ i >= 1 /\ t[i] = w[i + 1]
  BY <1>1
<1>3. \A i \in DOMAIN w : i \in Nat /\ (i = 1 \/ (i - 1 \in DOMAIN t /\ t[i - 1] = w[i] /\ i > 1))
  BY <1>1
<1>4. Silent(w, h) <=> Silent(t, h) /\ h \notin CodesIn(Events(w[1]))
  BY <1>2, <1>3 DEF Silent
<1>5. ASSUME LastDown(w, h)
      PROVE  LastDown(t, h) \/ (Silent(t, h) /\ DownBy(Events(w[1]), h))
  <2>1. PICK i \in DOMAIN w : /\ DownBy(Events(w[i]), h)
                              /\ \A j \in DOMAIN w : j > i => h \notin CodesIn(Events(w[j]))
    BY <1>5 DEF LastDown
  <2>2. CASE i = 1
    <3>1. \A j \in DOMAIN t : h \notin CodesIn(Events(t[j]))
      BY <1>2, <2>1, <2>2
    <3>2. QED BY <2>1, <2>2, <3>1 DEF Silent
  <2>3. CASE i # 1
    <3>1. i - 1 \in DOMAIN t /\ DownBy(Events(t[i - 1]), h)
      BY <1>3, <2>1, <2>3
    <3>2. ASSUME NEW j \in DOMAIN t, j > i - 1 PROVE h \notin CodesIn(Events(t[j]))
      <4>1. j + 1 \in DOMAIN w /\ t[j] = w[j + 1] /\ j + 1 > i
        BY <1>2, <1>3, <3>2
      <4>2. QED BY <2>1, <4>1
    <3>3. QED BY <3>1, <3>2 DEF LastDown
  <2>4. QED BY <2>2, <2>3
<1>6. ASSUME LastDown(t, h) PROVE LastDown(w, h)
  <2>1. PICK i \in DOMAIN t : /\ DownBy(Events(t[i]), h)
                              /\ \A j \in DOMAIN t : j > i => h \notin CodesIn(Events(t[j]))
    BY <1>6 DEF LastDown
  <2>2. i + 1 \in DOMAIN w /\ DownBy(Events(w[i + 1]), h)
    BY <1>2, <2>1
  <2>3. ASSUME NEW j \in DOMAIN w, j > i + 1 PROVE h \notin CodesIn(Events(w[j]))
    <3>1. j - 1 \in DOMAIN t /\ t[j - 1] = w[j] /\ j - 1 > i
      BY <1>2, <1>3, <2>3
    <3>2. QED BY <2>1, <3>1
  <2>4. QED BY <2>2, <2>3 DEF LastDown
<1>7. ASSUME Silent(t, h), DownBy(Events(w[1]), h) PROVE LastDown(w, h)
  <2>1. ASSUME NEW j \in DOMAIN w, j > 1 PROVE h \notin CodesIn(Events(w[j]))
    BY <1>3, <1>7, <2>1 DEF Silent
  <2>2. QED BY <1>2, <1>7, <2>1 DEF LastDown
<1>8. QED BY <1>1, <1>4, <1>5, <1>6, <1>7 DEF t

LEMMA PrefixSilent ==
  ASSUME NEW w \in Seq(Message), NEW n \in 0..Len(w), NEW h, Silent(w, h)
  PROVE  Silent(SubSeq(w, 1, n), h)
<1>1. /\ Len(w) \in Nat /\ DOMAIN w = 1..Len(w) /\ DOMAIN SubSeq(w, 1, n) = 1..n
      /\ \A i \in 1..n : SubSeq(w, 1, n)[i] = w[i] /\ i \in 1..Len(w)
  OBVIOUS
<1>2. QED BY <1>1 DEF Silent
LEMMA PairSays ==
  ASSUME NEW x, NEW down \in BOOLEAN
  PROVE  /\ CodesIn(<<<<"key", x, down>>, Syn>>) = {x}
         /\ DownBy(<<<<"key", x, down>>, Syn>>, x) <=> down
<1> DEFINE s == <<<<"key", x, down>>, Syn>>
<1>1. DOMAIN s = {1, 2} /\ s[1] = <<"key", x, down>> /\ s[2] = Syn
  OBVIOUS
<1>2. Syn[1] # "key" /\ Syn # <<"key", x, TRUE>> /\ s[1][1] = "key" /\ s[1][2] = x
  BY <1>1 DEF Syn
<1>3. s[1] = <<"key", x, TRUE>> <=> down
  BY <1>1
<1> HIDE DEF s
<1>4. CodesIn(s) = {x}
  BY <1>1, <1>2 DEF CodesIn
<1>5. DownBy(s, x) <=> down
  BY <1>1, <1>2, <1>3 DEF DownBy, Range
<1>6. QED BY <1>4, <1>5 DEF s

LEMMA SilentSequence ==
  ASSUME NEW s, \A i \in DOMAIN s : s[i][1] # "key"
  PROVE  CodesIn(s) = {} /\ \A h : ~DownBy(s, h)
<1>1. CodesIn(s) = {}
  BY DEF CodesIn
<1>2. QED BY <1>1, DownIsSaid

LEMMA KeySays ==
  ASSUME NEW k \in Code, NEW down \in BOOLEAN
  PROVE  /\ CodesIn(Events(<<"key", k, down>>)) = HostKeys({k})
         /\ \A h \in HostKeys({k}) : DownBy(Events(<<"key", k, down>>), h) <=> down
<1>1. Events(<<"key", k, down>>) = InjectKey(k, down)
  BY DEF Events
<1>2. CASE k \in DOMAIN KeyMap
  <2>1. HostKeys({k}) = {KeyMap[k]} /\ InjectKey(k, down) = <<<<"key", KeyMap[k], down>>, Syn>>
    BY <1>2 DEF HostKeys, InjectKey
  <2>2. QED BY <1>1, <2>1, PairSays
<1>3. CASE k \notin DOMAIN KeyMap
  <2>1. HostKeys({k}) = {} /\ InjectKey(k, down) = <<>>
    BY <1>3 DEF HostKeys, InjectKey
  <2>2. CodesIn(<<>>) = {}
    BY SilentSequence
  <2>3. QED BY <1>1, <2>1, <2>2
<1>4. QED BY <1>2, <1>3

LEMMA ButtonSays ==
  ASSUME NEW b \in Button, NEW down \in BOOLEAN
  PROVE  /\ CodesIn(Events(<<"button", b, down>>)) = HostButtons({b})
         /\ \A h \in HostButtons({b}) : DownBy(Events(<<"button", b, down>>), h) <=> down
<1>1. /\ HostButtons({b}) = {MouseButtonToLinux(b)}
      /\ Events(<<"button", b, down>>) = <<<<"key", MouseButtonToLinux(b), down>>, Syn>>
  BY DEF HostButtons, Events
<1>2. QED BY <1>1, PairSays

LEMMA MoveOrWheelSaysNothing ==
  ASSUME NEW m \in Message, m[1] \in {"move", "wheel"}
  PROVE  CodesIn(Events(m)) = {}
<1>1. \/ Events(m) = <<<<"x">>, <<"y">>, Syn>> \/ Events(m) = <<<<"wheel">>, Syn>>
      \/ Events(m) = <<>>
  BY DEF Events
<1>2. \A i \in DOMAIN Events(m) : Events(m)[i][1] # "key"
  BY <1>1 DEF Syn
<1>3. QED BY <1>2, SilentSequence

(* Only the first event of a message is about a key. *)
LEMMA KeyComesFirst ==
  ASSUME NEW p \in Packet, NEW i \in 1..Len(p), p[i][1] = "key"
  PROVE  i = 1
<1>1. PICK m \in Message : p = Events(m) /\ p # <<>>
  BY DEF Packet
<1>2. \/ \E x : \E down \in BOOLEAN : p = <<<<"key", x, down>>, Syn>>
      \/ p = <<<<"x">>, <<"y">>, Syn>> \/ p = <<<<"wheel">>, Syn>>
  BY <1>1 DEF Events, InjectKey, Message
<1>3. QED BY <1>2 DEF Syn

-----------------------------------------------------------------------------
(* The host follows the controller's hand.  The invariant needs that a     *)
(* page which is not yet connected has nothing under way: the controller   *)
(* it may become starts with what the device holds.                        *)
HostInv ==
  /\ InjectInv /\ HostFollows
  /\ \A c \in Client : page[c] = "off" => c # controller /\ wire[c] = <<>>

LEMMA Apart ==
  /\ HostKeys(Code) \cap HostButtons(Button) = {}
  /\ \A bs \in SUBSET Button : HostButtons(bs) \subseteq HostButtons(Button)
  /\ \A ks \in SUBSET Code : HostKeys(ks) \subseteq HostKeys(Code)
<1>1. HostKeys(Code) \subseteq 1..255
  BY InputAssumption DEF HostKeys
<1>2. HostButtons(Button) \subseteq {BtnLeft, BtnRight, BtnMiddle}
  BY DEF HostButtons, MouseButtonToLinux
<1>3. QED BY <1>1, <1>2, HostCodes DEF BtnLeft, BtnRight, BtnMiddle

(* What the controller's page says of a code is what will be settled; of   *)
(* the other codes nothing changes.                                        *)
LEMMA SentSettles ==
  ASSUME InjectInv, NEW c \in Client, c = controller, NEW m \in Message, SendInput(c, m),
         UNCHANGED <<connVars, todo, deviceVars>>, NEW h
  PROVE  /\ h \notin CodesIn(Events(m)) => (Settled(h)' <=> Settled(h))
         /\ h \in CodesIn(Events(m)) => (Settled(h)' <=> DownBy(Events(m), h))
<1>1. controller' = c /\ c # NoClient /\ todo' = todo /\ pressed' = pressed
  BY InputAssumption DEF connVars, deviceVars
<1>2. wire'[c] = Append(wire[c], m) /\ wire[c] \in Seq(Message)
  BY InjectFacts DEF SendInput
<1>3. AfterWriting(todo[c], h)' <=> AfterWriting(todo[c], h)
  BY <1>1 DEF AfterWriting
<1>4. /\ Settled(h) <=> LastDown(wire[c], h) \/ (Silent(wire[c], h) /\ AfterWriting(todo[c], h))
      /\ Settled(h)' <=> LastDown(wire'[c], h) \/ (Silent(wire'[c], h) /\ AfterWriting(todo[c], h)')
  BY <1>1 DEF Settled, AfterWriting
<1>5. QED BY <1>2, <1>3, <1>4, AppendSays

LEMMA ControlFollows ==
  ASSUME HostInv, NEW c \in Client, Control(c), alive', NEW h \in HostCode \ adrift'
  PROVE  Settled(h)' <=> h \in Held'
<1>1. /\ c = controller /\ c # NoClient /\ page[c] = "on" /\ alive
      /\ UNCHANGED <<connVars, todo, deviceVars>>
  BY InputAssumption DEF Control, KeyDown, KeyUp, ButtonDown, ButtonUp, MoveOrWheel, KeyUpElsewhere,
     ButtonsUpElsewhere, SendInput, connVars, deviceVars, HostInv
<1>2. /\ Held = keys[c] \cup HostButtons(buttons[c])
      /\ Held' = keys'[c] \cup HostButtons(buttons'[c])
  BY <1>1 DEF Held, connVars
<1>3. h \notin adrift => (Settled(h) <=> h \in Held)
  BY <1>1 DEF HostInv, HostFollows
<1>4. InjectInv /\ keys[c] \subseteq HostKeys(Code) /\ buttons[c] \subseteq Button
  BY InjectFacts DEF HostInv
<1> USE DEF Reported, Unreported
<1>5. ASSUME NEW k \in Code, NEW down \in BOOLEAN, SendInput(c, <<"key", k, down>>),
             buttons' = buttons, adrift' = adrift \ HostKeys({k}),
             keys' = [keys EXCEPT ![c] = IF down THEN @ \cup HostKeys({k}) ELSE @ \ HostKeys({k})]
      PROVE  Settled(h)' <=> h \in Held'
  <2>1. /\ h \notin HostKeys({k}) => (Settled(h)' <=> Settled(h))
        /\ h \in HostKeys({k}) => (Settled(h)' <=> down)
    <3>1. <<"key", k, down>> \in Message
      BY DEF Message
    <3>2. QED BY <1>1, <1>4, <1>5, <3>1, KeySays, SentSettles
  <2>2. /\ keys'[c] = IF down THEN keys[c] \cup HostKeys({k}) ELSE keys[c] \ HostKeys({k})
        /\ HostKeys({k}) \cap HostButtons(buttons[c]) = {}
    BY <1>4, <1>5, InjectFacts, Apart
  <2>3. QED BY <1>2, <1>3, <1>5, <2>1, <2>2
<1>6. ASSUME NEW b \in Button, NEW bs \in SUBSET Button, keys' = keys,
             buttons' = [buttons EXCEPT ![c] = bs],
             HostButtons(bs) \ HostButtons({b}) = HostButtons(buttons[c]) \ HostButtons({b})
      PROVE  /\ h \notin HostButtons({b}) => (h \in Held' <=> h \in Held)
             /\ h \in HostButtons({b}) => (h \in Held' <=> h \in HostButtons(bs))
  <2>1. buttons'[c] = bs /\ keys'[c] = keys[c] /\ HostButtons({b}) \cap keys[c] = {}
    BY <1>4, <1>6, InjectFacts, Apart
  <2>2. QED BY <1>2, <1>6, <2>1
<1>7. ASSUME NEW b \in Button, NEW down \in BOOLEAN, NEW bs \in SUBSET Button, keys' = keys,
             SendInput(c, <<"button", b, down>>), adrift' = adrift \ HostButtons({b}),
             buttons' = [buttons EXCEPT ![c] = bs],
             HostButtons(bs) \ HostButtons({b}) = HostButtons(buttons[c]) \ HostButtons({b}),
             \A x \in HostButtons({b}) : x \in HostButtons(bs) <=> down
      PROVE  Settled(h)' <=> h \in Held'
  <2>1. /\ h \notin HostButtons({b}) => (Settled(h)' <=> Settled(h))
        /\ h \in HostButtons({b}) => (Settled(h)' <=> down)
    <3>1. <<"button", b, down>> \in Message
      BY DEF Message
    <3>2. QED BY <1>1, <1>4, <1>7, <3>1, ButtonSays, SentSettles
  <2>2. QED BY <1>3, <1>6, <1>7, <2>1
<1>8. ASSUME NEW m \in Message, SendInput(c, m), m[1] \in {"move", "wheel"}
      PROVE  Settled(h)' <=> Settled(h)
  BY <1>1, <1>4, <1>8, MoveOrWheelSaysNothing, SentSettles
<1>9. ASSUME NEW b \in Button, NEW bs \in SUBSET Button, keys' = keys,
             SendInput(c, <<"move">>), adrift' = adrift \cup HostButtons({b}),
             buttons' = [buttons EXCEPT ![c] = bs],
             HostButtons(bs) \ HostButtons({b}) = HostButtons(buttons[c]) \ HostButtons({b})
      PROVE  Settled(h)' <=> h \in Held'
  <2>1. <<"move">> \in Message /\ <<"move">>[1] = "move"
    BY DEF Message
  <2>2. QED BY <1>3, <1>6, <1>8, <1>9, <2>1
<1>10. CASE \E k \in Code : KeyDown(c, k) \/ KeyUp(c, k)
  <2>1. PICK k \in Code : KeyDown(c, k) \/ KeyUp(c, k)
    BY <1>10
  <2>2. CASE KeyDown(c, k)
    BY <1>1, <1>5, <2>2 DEF KeyDown
  <2>3. CASE KeyUp(c, k)
    BY <1>1, <1>5, <2>3 DEF KeyUp
  <2>4. QED BY <2>1, <2>2, <2>3
<1>11. ASSUME NEW b \in Button, ButtonDown(c, b) PROVE Settled(h)' <=> h \in Held'
  <2> DEFINE bs == buttons[c] \cup {b}
  <2>1. /\ bs \in SUBSET Button /\ keys' = keys /\ buttons' = [buttons EXCEPT ![c] = bs]
        /\ HostButtons(bs) = HostButtons(buttons[c]) \cup HostButtons({b})
    BY <1>4, <1>11 DEF ButtonDown, HostButtons
  <2> HIDE DEF bs
  <2>2. CASE buttons[c] = {}
    BY <1>1, <1>7, <1>11, <2>1, <2>2 DEF ButtonDown
  <2>3. CASE buttons[c] # {}
    BY <1>9, <1>11, <2>1, <2>3 DEF ButtonDown
  <2>4. QED BY <2>2, <2>3
<1>12. ASSUME NEW b \in Button, ButtonUp(c, b) PROVE Settled(h)' <=> h \in Held'
  <2> DEFINE bs == buttons[c] \ {b}
  <2>1. /\ bs \in SUBSET Button /\ keys' = keys /\ buttons' = [buttons EXCEPT ![c] = bs]
        /\ HostButtons(bs) \ HostButtons({b}) = HostButtons(buttons[c]) \ HostButtons({b})
    BY <1>4, <1>12 DEF ButtonUp, HostButtons
  <2>2. buttons[c] = {b} => HostButtons(bs) = {}
    BY DEF HostButtons
  <2> HIDE DEF bs
  <2>3. CASE buttons[c] = {b}
    BY <1>1, <1>7, <1>12, <2>1, <2>2, <2>3 DEF ButtonUp
  <2>4. CASE buttons[c] # {b}
    BY <1>9, <1>12, <2>1, <2>4 DEF ButtonUp
  <2>5. QED BY <2>3, <2>4
<1>13. CASE MoveOrWheel(c)
  BY <1>2, <1>3, <1>8, <1>13 DEF MoveOrWheel, userVars
<1>14. CASE KeyUpElsewhere(c)
  <2>1. /\ h \notin keys[c] /\ h \notin adrift /\ keys'[c] = {} /\ buttons' = buttons
        /\ UNCHANGED <<controller, wire, todo, pressed>>
    BY <1>1, <1>14, InjectFacts, <1>4 DEF KeyUpElsewhere, connVars, deviceVars
  <2>2. Settled(h)' <=> Settled(h)
    BY <2>1 DEF Settled, AfterWriting
  <2>3. QED BY <1>2, <1>3, <2>1, <2>2
<1>15. CASE ButtonsUpElsewhere(c)
  <2>1. /\ h \notin HostButtons(buttons[c]) /\ h \notin adrift
        /\ HostButtons(buttons'[c]) = {} /\ keys' = keys
        /\ UNCHANGED <<controller, wire, todo, pressed>>
    BY <1>1, <1>15, InjectFacts, <1>4 DEF ButtonsUpElsewhere, HostButtons, connVars, deviceVars
  <2>2. Settled(h)' <=> Settled(h)
    BY <2>1 DEF Settled, AfterWriting
  <2>3. QED BY <1>2, <1>3, <2>1, <2>2
<1>16. QED BY <1>10, <1>11, <1>12, <1>13, <1>14, <1>15 DEF Control
(* A step that leaves the controller's messages and the device alone       *)
(* settles nothing.                                                        *)
LEMMA UntouchedSettles ==
  ASSUME controller' = controller, pressed' = pressed, NEW h,
         controller # NoClient =>
           wire'[controller] = wire[controller] /\ todo'[controller] = todo[controller]
  PROVE  Settled(h)' <=> Settled(h)
BY DEF Settled, AfterWriting

LEMMA ConnectFollows ==
  ASSUME HostInv, NEW c \in Client, Connect(c), alive', NEW h \in HostCode \ adrift'
  PROVE  Settled(h)' <=> h \in Held'
<1>1. InjectInv /\ HostFollows /\ c # controller /\ wire[c] = <<>>
  BY DEF HostInv, Connect
<1>2. /\ page' = [page EXCEPT ![c] = "on"] /\ UNCHANGED <<wire, todo, deviceVars>> /\ alive
  BY DEF Connect, deviceVars
<1>3. page' \in [Client -> {"off", "on", "lost"}] /\ page'[c] = "on"
  BY <1>1, <1>2, InjectFacts
<1>4. CASE controller = NoClient
  <2>1. PICK ks \in SUBSET HostKeys(Code), bs \in SUBSET Button :
          /\ controller' = c
          /\ keys' = [keys EXCEPT ![c] = ks] /\ buttons' = [buttons EXCEPT ![c] = bs]
          /\ adrift' = adrift \cup (ks \cup HostButtons(bs))
    BY <1>4 DEF Connect, Unreported
  <2>2. h \notin Held'
    <3>1. keys'[c] = ks /\ buttons'[c] = bs
      BY <1>1, <2>1, InjectFacts
    <3>2. Held' = ks \cup HostButtons(bs)
      BY <1>3, <2>1, <3>1, InputAssumption DEF Held
    <3>3. QED BY <2>1, <3>2
  <2>3. h \notin pressed
    <3>1. Settled(h) <=> h \in Held
      BY <1>1, <1>2, <2>1 DEF HostFollows
    <3>2. QED BY <1>4, <3>1 DEF Settled, Held
  <2>4. todo[c] = <<>>
    BY <1>1 DEF InjectInv
  <2>5. ~LastDown(<<>>, h) /\ ~AfterWriting(<<>>, h)'
    BY <1>2, <2>3 DEF LastDown, AfterWriting, DownBy, Range, deviceVars
  <2>6. ~Settled(h)'
    BY <1>1, <1>2, <2>1, <2>4, <2>5, InputAssumption DEF Settled
  <2>7. QED BY <2>2, <2>6
<1>5. CASE controller # NoClient
  <2>1. UNCHANGED <<controller, userVars, adrift>>
    BY <1>5 DEF Connect
  <2>2. page'[controller] = page[controller]
    BY <1>1, <1>2, <1>5, InjectFacts
  <2>3. Settled(h)' <=> Settled(h)
    BY <1>2, <2>1, UntouchedSettles DEF deviceVars
  <2>4. Held' = Held
    BY <2>1, <2>2 DEF Held, userVars
  <2>5. QED BY <1>1, <1>2, <2>1, <2>3, <2>4 DEF HostFollows
<1>6. QED BY <1>4, <1>5

LEMMA DisconnectFollows ==
  ASSUME HostInv, NEW c \in Client, Disconnect(c), alive', NEW h \in HostCode \ adrift'
  PROVE  Settled(h)' <=> h \in Held'
<1>1. InjectInv /\ HostFollows /\ page[c] = "on"
  BY DEF HostInv, Disconnect
<1>2. /\ page' = [page EXCEPT ![c] = "lost"] /\ UNCHANGED <<controller, todo, deviceVars>> /\ alive
      /\ keys' = [keys EXCEPT ![c] = {}] /\ buttons' = [buttons EXCEPT ![c] = {}]
  BY DEF Disconnect, deviceVars
<1>3. PICK n \in 0..Len(wire[c]) : wire' = [wire EXCEPT ![c] = SubSeq(wire[c], 1, n)]
  BY DEF Disconnect
<1>4. h \notin adrift /\ (Settled(h) <=> h \in Held)
  <2>1. h \notin adrift
    BY DEF Disconnect, Unreported
  <2>2. QED BY <1>1, <1>2, <2>1 DEF HostFollows
<1>5. CASE c # controller
  <2>1. controller # NoClient =>
          /\ wire'[controller] = wire[controller] /\ page'[controller] = page[controller]
          /\ keys'[controller] = keys[controller] /\ buttons'[controller] = buttons[controller]
    BY <1>1, <1>2, <1>3, <1>5, InjectFacts
  <2>2. Settled(h)' <=> Settled(h)
    BY <1>2, <2>1, UntouchedSettles DEF deviceVars
  <2>3. Held' = Held
    BY <1>2, <2>1 DEF Held
  <2>4. QED BY <1>4, <2>2, <2>3
<1>6. CASE c = controller
  <2>1. c # NoClient /\ page'[c] = "lost" /\ wire'[c] = SubSeq(wire[c], 1, n)
    BY <1>1, <1>2, <1>3, InjectFacts, InputAssumption
  <2>2. h \notin CodesInFlight(c) /\ h \notin keys[c] \cup HostButtons(buttons[c])
    BY <1>6 DEF Disconnect, Unreported
  <2>3. Silent(wire[c], h) /\ h \notin CodesIn(todo[c])
    BY <2>2 DEF CodesInFlight, Silent
  <2>4. h \notin Held /\ h \notin Held'
    BY <1>1, <1>2, <1>6, <2>1, <2>2 DEF Held
  <2>5. h \notin pressed
    BY <1>4, <1>6, <2>1, <2>3, <2>4 DEF Settled, AfterWriting
  <2>6. ~LastDown(SubSeq(wire[c], 1, n), h)
    <3>1. wire[c] \in Seq(Message)
      BY <1>1, InjectFacts
    <3>2. QED BY <2>3, <3>1, PrefixSilent, SilentIsNotDown
  <2>7. ~AfterWriting(todo[c], h)'
    BY <1>2, <2>3, <2>5, DownIsSaid DEF AfterWriting, deviceVars
  <2>8. ~Settled(h)'
    BY <1>2, <1>6, <2>1, <2>6, <2>7 DEF Settled
  <2>9. QED BY <2>4, <2>8
<1>7. QED BY <1>5, <1>6

LEMMA ReadTextFollows ==
  ASSUME HostInv, NEW c \in Client, ReadText(c), alive', NEW h \in HostCode \ adrift'
  PROVE  Settled(h)' <=> h \in Held'
<1>1. InjectInv /\ HostFollows
  BY DEF HostInv
<1>2. /\ UNCHANGED <<userVars, connVars, deviceVars, adrift>> /\ todo[c] = <<>> /\ wire[c] # <<>>
      /\ wire' = [wire EXCEPT ![c] = Tail(wire[c])]
      /\ todo' = [todo EXCEPT ![c] = IF c = controller THEN Events(Head(wire[c])) ELSE <<>>]
  BY DEF ReadText
<1>3. Held' = Held /\ (Settled(h) <=> h \in Held)
  BY <1>1, <1>2 DEF Held, HostFollows, userVars, connVars, deviceVars
<1>4. CASE c # controller
  <2>1. controller # NoClient =>
          wire'[controller] = wire[controller] /\ todo'[controller] = todo[controller]
    BY <1>1, <1>2, <1>4, InjectFacts
  <2>2. QED BY <1>2, <1>3, <2>1, UntouchedSettles DEF connVars, deviceVars
<1>5. CASE c = controller
  <2> DEFINE w == wire[c]
             t == Tail(w)
             es == Events(Head(w))
  <2>1. wire'[c] = t /\ todo'[c] = es /\ w \in Seq(Message) /\ w # <<>> /\ c # NoClient
    BY <1>1, <1>2, <1>5, InjectFacts, InputAssumption
  <2>2. /\ Silent(w, h) <=> Silent(t, h) /\ h \notin CodesIn(es)
        /\ LastDown(w, h) <=> LastDown(t, h) \/ (Silent(t, h) /\ DownBy(es, h))
    BY <2>1, HeadSays
  <2>3. AfterWriting(<<>>, h) <=> h \in pressed
    BY DEF AfterWriting, DownBy, CodesIn, Range
  <2>4. Settled(h) <=> LastDown(w, h) \/ (Silent(w, h) /\ h \in pressed)
    BY <1>2, <1>5, <2>1, <2>3 DEF Settled
  <2> HIDE DEF t, es
  <2>5. AfterWriting(todo[c], h)' <=> DownBy(es, h) \/ (h \notin CodesIn(es) /\ h \in pressed)
    BY <1>2, <2>1 DEF AfterWriting, deviceVars
  <2>6. Settled(h)' <=> LastDown(t, h) \/ (Silent(t, h) /\ AfterWriting(todo[c], h)')
    BY <1>2, <1>5, <2>1 DEF Settled, connVars
  <2>7. QED BY <1>3, <2>2, <2>4, <2>5, <2>6
<1>6. QED BY <1>4, <1>5

LEMMA ReadFailsFollows ==
  ASSUME HostInv, NEW c \in Client, ReadFails(c), alive', NEW h \in HostCode \ adrift'
  PROVE  Settled(h)' <=> h \in Held'
<1>1. InjectInv /\ HostFollows
  BY DEF HostInv
<1>2. /\ UNCHANGED <<userVars, page, wire, todo, deviceVars, adrift>> /\ page[c] = "lost"
      /\ controller' = IF controller = c THEN NoClient ELSE controller
      /\ todo[c] = <<>> /\ wire[c] = <<>>
  BY DEF ReadFails
<1>3. Settled(h) <=> h \in Held
  BY <1>1, <1>2 DEF HostFollows, deviceVars
<1>4. CASE controller # c
  BY <1>2, <1>3, <1>4, UntouchedSettles DEF Held, userVars, deviceVars
<1>5. CASE controller = c
  <2>1. ~LastDown(<<>>, h) /\ Silent(<<>>, h) /\ (AfterWriting(<<>>, h) <=> h \in pressed)
    BY DEF LastDown, Silent, AfterWriting, DownBy, CodesIn, Range
  <2>2. Settled(h) <=> h \in pressed
    BY <1>2, <1>5, <2>1, InputAssumption DEF Settled
  <2>3. Settled(h)' <=> h \in pressed
    BY <1>2, <1>5 DEF Settled, deviceVars
  <2>4. Held = {} /\ Held' = {}
    BY <1>2, <1>5 DEF Held
  <2>5. QED BY <1>3, <2>2, <2>3, <2>4
<1>6. QED BY <1>4, <1>5

(* What events say of a code is what the first says and the others do.     *)
LEMMA FirstEventSays ==
  ASSUME NEW s \in Seq(Event), s # <<>>, NEW h
  PROVE  /\ h \in CodesIn(s) <=>
              h \in CodesIn(Tail(s)) \/ (Head(s)[1] = "key" /\ Head(s)[2] = h)
         /\ DownBy(s, h) <=> DownBy(Tail(s), h) \/ Head(s) = <<"key", h, TRUE>>
<1> DEFINE t == Tail(s)
<1>1. /\ Len(s) \in Nat /\ DOMAIN s = 1..Len(s) /\ DOMAIN t = 1..(Len(s) - 1) /\ Len(s) >= 1
      /\ Head(s) = s[1] /\ \A i \in 1..(Len(s) - 1) : t[i] = s[i + 1]
  OBVIOUS
<1> HIDE DEF t
<1>2. 1 \in DOMAIN s /\ \A i \in DOMAIN t : i + 1 \in DOMAIN s /\ t[i] = s[i + 1]
  BY <1>1
<1>3. \A i \in DOMAIN s : i = 1 \/ (i - 1 \in DOMAIN t /\ t[i - 1] = s[i])
  BY <1>1
<1>4. h \in CodesIn(s) <=> h \in CodesIn(t) \/ (s[1][1] = "key" /\ s[1][2] = h)
  <2>1. \A u : h \in CodesIn(u) <=> \E i \in DOMAIN u : u[i][1] = "key" /\ u[i][2] = h
    BY DEF CodesIn
  <2>2. QED BY <1>2, <1>3, <2>1
<1>5. DownBy(s, h) <=> DownBy(t, h) \/ s[1] = <<"key", h, TRUE>>
  <2> DEFINE down == <<"key", h, TRUE>>
  <2> HIDE DEF down
  <2>1. \A u : down \in Range(u) <=> \E i \in DOMAIN u : u[i] = down
    BY DEF Range
  <2>2. down \in Range(s) <=> down \in Range(t) \/ s[1] = down
    BY <1>2, <1>3, <2>1
  <2>3. QED BY <2>2 DEF DownBy, down
<1>6. QED BY <1>1, <1>4, <1>5 DEF t

LEMMA WriteFollows ==
  ASSUME HostInv, NEW c \in Client, Write(c), alive', NEW h \in HostCode \ adrift'
  PROVE  Settled(h)' <=> h \in Held'
<1> DEFINE s == todo[c]
           e == Head(s)
<1>1. InjectInv /\ HostFollows
  BY DEF HostInv
<1>2. /\ alive /\ s # <<>> /\ todo' = [todo EXCEPT ![c] = Tail(s)]
      /\ pressed' = IF e[1] # "key" THEN pressed
                    ELSE IF e[3] THEN pressed \cup {e[2]} ELSE pressed \ {e[2]}
      /\ UNCHANGED <<userVars, connVars, wire, adrift>>
  BY DEF Write
<1>3. /\ s \in Seq(Event) /\ report \in Seq(Event) /\ c = controller /\ c # NoClient
      /\ report \o s \in Packet /\ todo'[c] = Tail(s) /\ e \in Event
  BY <1>1, <1>2, InjectFacts, InputAssumption DEF InjectInv
<1>4. Held' = Held /\ (Settled(h) <=> h \in Held)
  BY <1>1, <1>2 DEF Held, HostFollows, userVars, connVars
<1>5. /\ h \in CodesIn(s) <=> h \in CodesIn(Tail(s)) \/ (e[1] = "key" /\ e[2] = h)
      /\ DownBy(s, h) <=> DownBy(Tail(s), h) \/ e = <<"key", h, TRUE>>
  BY <1>2, <1>3, FirstEventSays
<1>6. e[1] = "key" => h \notin CodesIn(Tail(s))
  <2> SUFFICES ASSUME e[1] = "key", NEW i \in DOMAIN Tail(s), Tail(s)[i][1] = "key" PROVE FALSE
    BY DEF CodesIn
  <2> DEFINE p == report \o s
  <2>1. /\ Len(report) \in Nat /\ Len(s) \in Nat /\ i \in 1..(Len(s) - 1) /\ Tail(s)[i] = s[i + 1]
        /\ Len(p) = Len(report) + Len(s)
        /\ \A j \in 1..Len(p) : p[j] = IF j <= Len(report) THEN report[j] ELSE s[j - Len(report)]
    BY <1>2, <1>3
  <2> HIDE DEF p
  <2>2. p[Len(report) + (i + 1)] = s[i + 1] /\ Len(report) + (i + 1) \in 1..Len(p)
    BY <2>1
  <2>3. Len(report) + (i + 1) = 1
    BY <1>3, <2>1, <2>2, KeyComesFirst DEF p
  <2>4. QED BY <2>1, <2>3
<1> HIDE DEF e
<1>7. AfterWriting(todo[c], h)' <=> AfterWriting(s, h)
  <2>1. AfterWriting(todo[c], h)' <=> DownBy(Tail(s), h) \/ (h \notin CodesIn(Tail(s)) /\ h \in pressed')
    BY <1>3 DEF AfterWriting
  <2>2. AfterWriting(s, h) <=> DownBy(s, h) \/ (h \notin CodesIn(s) /\ h \in pressed)
    BY DEF AfterWriting
  <2>3. CASE e[1] # "key"
    <3>1. e # <<"key", h, TRUE>>
      <4>1. <<"key", h, TRUE>>[1] = "key"
        OBVIOUS
      <4>2. QED BY <2>3, <4>1
    <3>2. QED BY <1>2, <1>5, <2>1, <2>2, <2>3, <3>1
  <2>4. CASE e[1] = "key"
    <3>1. PICK x \in HostCode, down \in BOOLEAN : e = <<"key", x, down>>
      BY <1>3, <2>4 DEF Event, Syn
    <3>2. e[2] = x /\ e[3] = down /\ (e = <<"key", h, TRUE>> <=> x = h /\ down)
      BY <3>1
    <3>3. ~DownBy(Tail(s), h)
      BY <1>6, <2>4, DownIsSaid
    <3>4. QED BY <1>2, <1>5, <1>6, <2>1, <2>2, <2>4, <3>2, <3>3
  <2>5. QED BY <2>3, <2>4
<1>8. /\ Settled(h) <=> LastDown(wire[c], h) \/ (Silent(wire[c], h) /\ AfterWriting(s, h))
      /\ Settled(h)' <=> LastDown(wire[c], h) \/ (Silent(wire[c], h) /\ AfterWriting(todo[c], h)')
  BY <1>2, <1>3 DEF Settled, connVars
<1>9. QED BY <1>4, <1>7, <1>8

(* A page that is off stays so, with nothing under way, until it connects. *)
LEMMA PagesOffKeep ==
  ASSUME HostInv, [Next]_vars, NEW d \in Client, page'[d] = "off"
  PROVE  d # controller' /\ wire'[d] = <<>>
<1> USE DEF userVars, connVars, deviceVars
<1>1. InjectInv
  BY DEF HostInv
<1>2. ASSUME page' = page, controller' \in {controller, NoClient}, wire'[d] = wire[d]
      PROVE  d # controller' /\ wire'[d] = <<>>
  BY <1>2, InputAssumption DEF HostInv
<1>3. ASSUME NEW c \in Client, NEW m, SendInput(c, m), page' = page PROVE wire'[d] = wire[d]
  <2>1. c # d
    BY <1>3 DEF SendInput
  <2>2. QED BY <1>1, <1>3, <2>1, InjectFacts DEF SendInput
<1>4. ASSUME NEW c \in Client, Control(c) PROVE d # controller' /\ wire'[d] = <<>>
  <2>1. UNCHANGED connVars /\ (wire' = wire \/ \E m : SendInput(c, m))
    BY <1>4 DEF Control, KeyDown, KeyUp, ButtonDown, ButtonUp, MoveOrWheel, KeyUpElsewhere, ButtonsUpElsewhere
  <2>2. QED BY <1>2, <1>3, <2>1
<1>5. ASSUME NEW c \in Client, View(c) PROVE d # controller' /\ wire'[d] = <<>>
  BY <1>2, <1>3, <1>5 DEF View
<1>6. ASSUME NEW c \in Client, Connect(c) \/ Disconnect(c) PROVE d # controller' /\ wire'[d] = <<>>
  <2>1. d # c /\ page[d] = "off"
    BY <1>1, <1>6, InjectFacts DEF Connect, Disconnect
  <2>2. wire'[d] = wire[d] /\ controller' \in {controller, c}
    BY <1>1, <1>6, <2>1, InjectFacts DEF Connect, Disconnect
  <2>3. QED BY <2>1, <2>2 DEF HostInv
<1>7. ASSUME NEW c \in Client, ReadText(c) PROVE d # controller' /\ wire'[d] = <<>>
  <2>1. page[d] = "off" /\ d # c
    BY <1>7 DEF ReadText, HostInv
  <2>2. QED BY <1>1, <1>2, <1>7, <2>1, InjectFacts DEF ReadText
<1>8. CASE \E c \in Client : ReadFails(c) \/ Write(c) \/ WriteFails(c)
  BY <1>2, <1>8 DEF ReadFails, Write, WriteFails
<1>9. CASE CloseDevice \/ UNCHANGED vars
  BY <1>2, <1>9 DEF CloseDevice, vars
<1>10. QED BY <1>4, <1>5, <1>6, <1>7, <1>8, <1>9 DEF Next, Handler

(* The host's keys and buttons follow the controller's hand, whatever the  *)
(* viewers send and however control changes hands, but for those whose     *)
(* last change was lost.                                                   *)
THEOREM HostFollowsHand == Spec => []HostFollows
<1>1. Init => HostInv
  <2> SUFFICES ASSUME Init PROVE HostInv
    OBVIOUS
  <2>1. InjectInv
    BY InitInject
  <2>2. HostFollows
    BY DEF Init, HostFollows, Settled, Held
  <2>3. QED BY <2>1, <2>2, InputAssumption DEF Init, HostInv
<1>2. HostInv /\ [Next]_vars => HostInv'
  <2> SUFFICES ASSUME HostInv, [Next]_vars PROVE HostInv'
    OBVIOUS
  <2>1. InjectInv'
    BY InjectInvStep DEF HostInv
  <2>2. \A c \in Client : page'[c] = "off" => c # controller' /\ wire'[c] = <<>>
    BY PagesOffKeep
  <2>3. ASSUME alive', NEW h \in HostCode \ adrift' PROVE Settled(h)' <=> h \in Held'
    <3>1. ASSUME NEW c \in Client, View(c) PROVE Settled(h)' <=> h \in Held'
      <4>1. /\ UNCHANGED <<userVars, connVars, todo, deviceVars, adrift>>
            /\ controller # NoClient => wire'[controller] = wire[controller]
        BY <3>1, InjectFacts DEF View, SendInput, HostInv
      <4>2. QED BY <2>3, <4>1, UntouchedSettles
          DEF HostInv, HostFollows, Held, userVars, connVars, deviceVars
    <3>2. CASE UNCHANGED vars
      BY <2>3, <3>2, UntouchedSettles
        DEF HostInv, HostFollows, Held, vars, userVars, connVars, deviceVars
    <3>3. CASE CloseDevice \/ \E c \in Client : WriteFails(c)
      BY <2>3, <3>3 DEF CloseDevice, WriteFails, deviceVars
    <3>4. QED BY <2>3, <3>1, <3>2, <3>3, ControlFollows, ConnectFollows, DisconnectFollows,
             ReadTextFollows, ReadFailsFollows, WriteFollows DEF Next, Handler
  <2>4. HostFollows'
    BY <2>3 DEF HostFollows, HostCode
  <2>5. QED BY <2>1, <2>2, <2>4 DEF HostInv
<1>3. HostInv => HostFollows
  BY DEF HostInv
<1>4. QED BY <1>1, <1>2, <1>3, PTL DEF Spec

-----------------------------------------------------------------------------
(* Here a connection claims the slot when it is made and gives it up when  *)
(* its ReadLoop ends: the same lease that the handlers of module Hub       *)
(* implement step by step.                                                 *)
Lease == INSTANCE ControlLease
           WITH holder <- controller, ended <- {c \in Client : handler[c] = "ended"},
                injectedBy <- NoClient

LEMMA OffIsNew == Spec => [](\A c \in Client : page[c] = "off" => handler[c] = "none")
<1>1. Init => \A c \in Client : page[c] = "off" => handler[c] = "none"
  BY DEF Init
<1>2. InjectInv /\ (\A c \in Client : page[c] = "off" => handler[c] = "none") /\ [Next]_vars
        => (\A c \in Client : page[c] = "off" => handler[c] = "none")'
  <2> SUFFICES ASSUME InjectInv, \A c \in Client : page[c] = "off" => handler[c] = "none",
                      [Next]_vars, NEW c \in Client, page'[c] = "off"
               PROVE  handler'[c] = "none"
    OBVIOUS
  <2>1. /\ page \in [Client -> {"off", "on", "lost"}]
        /\ handler \in [Client -> {"none", "read", "ended"}]
    BY DEF InjectInv, TypeOK
  <2>2. CASE \E d \in Client : Connect(d) \/ Disconnect(d) \/ ReadFails(d)
    BY <2>1, <2>2 DEF Connect, Disconnect, ReadFails
  <2>3. CASE ~\E d \in Client : Connect(d) \/ Disconnect(d) \/ ReadFails(d)
    <3>1. UNCHANGED <<page, handler>>
      BY <2>3 DEF Next, Control, KeyDown, KeyUp, ButtonDown, ButtonUp, MoveOrWheel, KeyUpElsewhere,
                  ButtonsUpElsewhere, View, Handler, ReadText, Write, WriteFails, CloseDevice, vars, connVars
    <3>2. QED BY <3>1
  <2>4. QED BY <2>2, <2>3
<1>3. QED BY <1>1, <1>2, InjectInvHolds, PTL DEF Spec

(* Whatever users press and however connections end, control passes from   *)
(* one connection to another only when it is vacant, and never back to one *)
(* that has ended.                                                         *)
THEOREM HandsShareLease == Spec => Lease!Spec
<1> DEFINE Fresh == \A c \in Client : page[c] = "off" => handler[c] = "none"
           Ended == {c \in Client : handler[c] = "ended"}
<1>1. Init => Lease!Init
  BY DEF Init, Lease!Init
<1>2. InjectInv /\ Fresh /\ [Next]_vars => [Lease!Next]_Lease!vars
  <2> SUFFICES ASSUME InjectInv, Fresh, [Next]_vars PROVE [Lease!Next]_Lease!vars
    OBVIOUS
  <2>1. handler \in [Client -> {"none", "read", "ended"}] /\ NoClient \notin Client
    BY InputAssumption DEF InjectInv, TypeOK
  <2>2. ASSUME NEW c \in Client, Connect(c) PROVE [Lease!Next]_Lease!vars
    <3>1. handler[c] = "none" /\ Ended' = Ended /\ c \notin Ended
      BY <2>1, <2>2 DEF Connect
    <3>2. CASE controller = NoClient
      BY <2>2, <3>1, <3>2 DEF Connect, Lease!Next, Lease!Acquire
    <3>3. CASE controller # NoClient
      BY <2>2, <3>1, <3>3 DEF Connect, Lease!vars
    <3>4. QED BY <3>2, <3>3
  <2>3. ASSUME NEW c \in Client, ReadFails(c) PROVE Lease!Next
    <3>1. Ended' = Ended \cup {c}
      BY <2>1, <2>3 DEF ReadFails
    <3>2. CASE controller = c
      BY <2>3, <3>1, <3>2 DEF ReadFails, Lease!Next, Lease!Release
    <3>3. CASE controller # c
      BY <2>3, <3>1, <3>3 DEF ReadFails, Lease!Next, Lease!Leave
    <3>4. QED BY <3>2, <3>3
  <2>4. CASE ~\E c \in Client : Connect(c) \/ ReadFails(c)
    <3>1. UNCHANGED <<handler, controller>>
      BY <2>4 DEF Next, Control, KeyDown, KeyUp, ButtonDown, ButtonUp, MoveOrWheel, KeyUpElsewhere,
                  ButtonsUpElsewhere, View, Disconnect, Handler, ReadText, Write, WriteFails, CloseDevice, vars, connVars
    <3>2. QED BY <3>1 DEF Lease!vars
  <2>5. QED BY <2>2, <2>3, <2>4
<1>3. QED BY <1>1, <1>2, InjectInvHolds, OffIsNew, PTL DEF Spec, Lease!Spec
=============================================================================

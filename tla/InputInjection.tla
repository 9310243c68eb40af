--------------------------- MODULE InputInjection ---------------------------
(***************************************************************************)
(* Remote input from the user's hand to the kernel: the listeners of       *)
(* compositor.js turn what the browser reports into messages; the          *)
(* connection carries them; the handler of the controlling connection      *)
(* parses them and writes events to the uinput device (internal/input).    *)
(* The controller slot is that of module Hub, claimed in one step.         *)
(***************************************************************************)
EXTENDS Integers, Sequences, Functions

CONSTANTS
  Client,    \* connections, each of a page that asks for control
  NoClient,  \* no controller
  Code,      \* KeyboardEvent.code of the keys users press
  KeyMap,    \* browserToLinux, on the part of Code that it knows
  Button,    \* PointerEvent.button of the buttons users press
  MaxWire    \* bound: messages of a page under way

BtnLeft == 272
BtnRight == 273
BtnMiddle == 274

(* No two codes of the table share a key, and none is a mouse button. *)
ASSUME InputAssumption ==
  /\ NoClient \notin Client
  /\ DOMAIN KeyMap \subseteq Code
  /\ \A k \in DOMAIN KeyMap : KeyMap[k] \in 1..255
  /\ \A j, k \in DOMAIN KeyMap : KeyMap[j] = KeyMap[k] => j = k
  /\ Button \subseteq Nat
  /\ MaxWire \in Nat \ {0}

VARIABLES
  page,        \* page: connection not made, made, or known to be over
  keys,        \* page: keys the controller's user holds down (their Linux codes)
  buttons,     \* page: mouse buttons the same user holds down
  wire,        \* connection: messages sent and not read yet
  handler,     \* connection: its ReadLoop
  todo,        \* handler: events of the current message still to write
  controller,  \* the connection whose text is handled
  alive,       \* does the uinput device exist?
  pressed,     \* kernel: keys and buttons of the device that are down
  report,      \* kernel: events since the last SYN_REPORT
  adrift       \* history: keys and buttons about which page and kernel may differ

userVars == <<keys, buttons>>
connVars == <<page, handler, controller>>
deviceVars == <<alive, pressed, report>>
vars == <<userVars, connVars, wire, todo, deviceVars, adrift>>

Init ==
  /\ page = [c \in Client |-> "off"]
  /\ keys = [c \in Client |-> {}] /\ buttons = [c \in Client |-> {}]
  /\ wire = [c \in Client |-> <<>>]
  /\ handler = [c \in Client |-> "none"]
  /\ todo = [c \in Client |-> <<>>]
  /\ controller = NoClient
  /\ alive = TRUE
  /\ pressed = {} /\ report = <<>>
  /\ adrift = {}

-----------------------------------------------------------------------------
(* What a message becomes *)

MouseButtonToLinux(b) ==
  CASE b = 1 -> BtnMiddle [] b = 2 -> BtnRight [] OTHER -> BtnLeft

Message ==
  {<<"key", k, down>> : k \in Code, down \in BOOLEAN}
  \cup {<<"button", b, down>> : b \in Button, down \in BOOLEAN}
  \cup {<<"move">>} \cup {<<"wheel", d>> : d \in {"whole", "fraction"}}

Syn == <<"syn">>

(* Mutant of InjectKey: the table's answer is used without its `ok'. *)
InjectKeyUnchecked(k, down) ==
  <<<<"key", IF k \in DOMAIN KeyMap THEN KeyMap[k] ELSE 0, down>>, Syn>>

InjectKey(k, down) ==
  IF k \in DOMAIN KeyMap THEN <<<<"key", KeyMap[k], down>>, Syn>> ELSE <<>>

(* Mutant of Events: a release is taken for a press. *)
EventsNoRelease(m) ==
  CASE m[1] = "key"    -> InjectKey(m[2], TRUE)
    [] m[1] = "button" -> <<<<"key", MouseButtonToLinux(m[2]), TRUE>>, Syn>>
    [] m[1] = "move"   -> <<<<"x">>, <<"y">>, Syn>>
    [] OTHER           -> IF m[2] = "whole" THEN <<<<"wheel">>, Syn>> ELSE <<>>

(* A fractional deltaY does not parse as an int and voids the message. *)
Events(m) ==
  CASE m[1] = "key"    -> InjectKey(m[2], m[3])
    [] m[1] = "button" -> <<<<"key", MouseButtonToLinux(m[2]), m[3]>>, Syn>>
    [] m[1] = "move"   -> <<<<"x">>, <<"y">>, Syn>>
    [] OTHER           -> IF m[2] = "whole" THEN <<<<"wheel">>, Syn>> ELSE <<>>

CodesIn(events) == {events[i][2] : i \in {j \in DOMAIN events : events[j][1] = "key"}}

HostKeys(ks) == {KeyMap[k] : k \in ks \cap DOMAIN KeyMap}
HostButtons(bs) == {MouseButtonToLinux(b) : b \in bs}

(* The keys and buttons of a connection's messages. *)
CodesInFlight(c) ==
  CodesIn(todo[c]) \cup UNION {CodesIn(Events(wire[c][i])) : i \in DOMAIN wire[c]}

-----------------------------------------------------------------------------
(* The page.  Its listeners do nothing while it is not connected.  The     *)
(* browser reports pointerdown for the first button to go down, pointerup  *)
(* for the last one to go up, and pointermove for those in between.        *)

SendInput(c, m) ==
  /\ page[c] = "on" /\ Len(wire[c]) < MaxWire
  /\ wire' = [wire EXCEPT ![c] = Append(@, m)]

(* The last change of `codes' is reported, or is not. *)
Reported(codes) == adrift' = IF alive THEN adrift \ codes ELSE adrift
Unreported(codes) == adrift' = adrift \cup codes

KeyDown(c, k) ==
  /\ SendInput(c, <<"key", k, TRUE>>)
  /\ keys' = [keys EXCEPT ![c] = @ \cup HostKeys({k})]
  /\ Reported(HostKeys({k}))
  /\ UNCHANGED <<buttons, connVars, todo, deviceVars>>

KeyUp(c, k) ==
  /\ SendInput(c, <<"key", k, FALSE>>)
  /\ keys' = [keys EXCEPT ![c] = @ \ HostKeys({k})]
  /\ Reported(HostKeys({k}))
  /\ UNCHANGED <<buttons, connVars, todo, deviceVars>>

ButtonDown(c, b) ==
  /\ b \notin buttons[c]
  /\ buttons' = [buttons EXCEPT ![c] = @ \cup {b}]
  /\ IF buttons[c] = {}
       THEN SendInput(c, <<"button", b, TRUE>>) /\ Reported(HostButtons({b}))
       ELSE SendInput(c, <<"move">>) /\ Unreported(HostButtons({b}))
  /\ UNCHANGED <<keys, connVars, todo, deviceVars>>

ButtonUp(c, b) ==
  /\ b \in buttons[c]
  /\ buttons' = [buttons EXCEPT ![c] = @ \ {b}]
  /\ IF buttons[c] = {b}
       THEN SendInput(c, <<"button", b, FALSE>>) /\ Reported(HostButtons({b}))
       ELSE SendInput(c, <<"move">>) /\ Unreported(HostButtons({b}))
  /\ UNCHANGED <<keys, connVars, todo, deviceVars>>

MoveOrWheel(c) ==
  /\ \E m \in Message : m[1] \in {"move", "wheel"} /\ SendInput(c, m)
  /\ UNCHANGED <<userVars, connVars, todo, deviceVars, adrift>>

(* A key held while the focus goes elsewhere comes up there: no listener   *)
(* of the page is told of the loss of focus or of the key.                 *)
KeyUpElsewhere(c) ==
  /\ page[c] = "on" /\ keys[c] # {}
  /\ keys' = [keys EXCEPT ![c] = {}]
  /\ Unreported(keys[c])
  /\ UNCHANGED <<buttons, connVars, wire, todo, deviceVars>>

(* The pointer is taken from the page while buttons are down (its capture  *)
(* lost, pointercancel): no listener is told, and they come up unseen.     *)
ButtonsUpElsewhere(c) ==
  /\ page[c] = "on" /\ buttons[c] # {}
  /\ buttons' = [buttons EXCEPT ![c] = {}]
  /\ Unreported(HostButtons(buttons[c]))
  /\ UNCHANGED <<keys, connVars, wire, todo, deviceVars>>

Control(c) ==
  /\ c = controller
  /\ \/ \E k \in Code : KeyDown(c, k) \/ KeyUp(c, k)
     \/ \E b \in Button : ButtonDown(c, b) \/ ButtonUp(c, b)
     \/ MoveOrWheel(c) \/ KeyUpElsewhere(c) \/ ButtonsUpElsewhere(c)

(* A viewer's page has the same listeners.  It stays a viewer as long as   *)
(* its connection lasts: what its user holds down is not followed, and it  *)
(* sends any message.                                                      *)
View(c) ==
  /\ c # controller
  /\ \E m \in Message : SendInput(c, m)
  /\ UNCHANGED <<userVars, connVars, todo, deviceVars, adrift>>

-----------------------------------------------------------------------------
(* The connection and its handler *)

(* The first connection controls.  Its user may hold keys already.          *)
Connect(c) ==
  /\ page[c] = "off"
  /\ page' = [page EXCEPT ![c] = "on"]
  /\ handler' = [handler EXCEPT ![c] = "read"]
  /\ IF controller = NoClient
       THEN \E ks \in SUBSET HostKeys(Code), bs \in SUBSET Button :
              /\ controller' = c
              /\ keys' = [keys EXCEPT ![c] = ks] /\ buttons' = [buttons EXCEPT ![c] = bs]
              /\ Unreported(ks \cup HostButtons(bs))
       ELSE UNCHANGED <<controller, userVars, adrift>>
  /\ UNCHANGED <<wire, todo, deviceVars>>

(* The connection ends, and the listeners stop reporting; a prefix of what *)
(* was sent may still be read.                                             *)
Disconnect(c) ==
  /\ page[c] = "on"
  /\ page' = [page EXCEPT ![c] = "lost"]
  /\ \E n \in 0..Len(wire[c]) : wire' = [wire EXCEPT ![c] = SubSeq(@, 1, n)]
  /\ IF c = controller
       THEN Unreported(CodesInFlight(c) \cup keys[c] \cup HostButtons(buttons[c]))
       ELSE UNCHANGED adrift
  /\ keys' = [keys EXCEPT ![c] = {}] /\ buttons' = [buttons EXCEPT ![c] = {}]
  /\ UNCHANGED <<handler, controller, todo, deviceVars>>

(* Mutant of ReadText: any connection's text is handled. *)
ReadTextOfAnyone(c) ==
  /\ handler[c] = "read" /\ todo[c] = <<>> /\ wire[c] # <<>>
  /\ wire' = [wire EXCEPT ![c] = Tail(@)]
  /\ todo' = [todo EXCEPT ![c] = Events(Head(wire[c]))]
  /\ UNCHANGED <<userVars, connVars, deviceVars, adrift>>

ReadText(c) ==
  /\ handler[c] = "read" /\ todo[c] = <<>> /\ wire[c] # <<>>
  /\ wire' = [wire EXCEPT ![c] = Tail(@)]
  /\ todo' = [todo EXCEPT ![c] = IF c = controller THEN Events(Head(wire[c])) ELSE <<>>]
  /\ UNCHANGED <<userVars, connVars, deviceVars, adrift>>

(* Mutant of ReadFails: the message is handled on a goroutine of its own. *)
ReadFailsMeanwhile(c) ==
  /\ handler[c] = "read" /\ wire[c] = <<>> /\ page[c] = "lost"
  /\ handler' = [handler EXCEPT ![c] = "ended"]
  /\ controller' = IF controller = c THEN NoClient ELSE controller
  /\ UNCHANGED <<userVars, page, wire, todo, deviceVars, adrift>>

ReadFails(c) ==
  /\ handler[c] = "read" /\ todo[c] = <<>> /\ wire[c] = <<>> /\ page[c] = "lost"
  /\ handler' = [handler EXCEPT ![c] = "ended"]
  /\ controller' = IF controller = c THEN NoClient ELSE controller
  /\ UNCHANGED <<userVars, page, wire, todo, deviceVars, adrift>>

-----------------------------------------------------------------------------
(* The device *)

Write(c) ==
  LET e == Head(todo[c])
  IN /\ alive /\ todo[c] # <<>>
     /\ todo' = [todo EXCEPT ![c] = Tail(@)]
     /\ pressed' = IF e[1] # "key" THEN pressed
                   ELSE IF e[3] THEN pressed \cup {e[2]} ELSE pressed \ {e[2]}
     /\ report' = IF e = Syn THEN <<>> ELSE Append(report, e)
     /\ UNCHANGED <<userVars, connVars, wire, alive, adrift>>

(* Without the device a write fails, and the rest of the message is not    *)
(* written.  The kernel refuses no event while it has the device.          *)
WriteFails(c) ==
  /\ ~alive /\ todo[c] # <<>>
  /\ todo' = [todo EXCEPT ![c] = <<>>]
  /\ UNCHANGED <<userVars, connVars, wire, deviceVars, adrift>>

(* Main's deferred Close, while handlers may still run.  The kernel        *)
(* releases what the device held.                                          *)
CloseDevice ==
  /\ alive
  /\ alive' = FALSE
  /\ pressed' = {} /\ report' = <<>>
  /\ adrift' = HostKeys(Code) \cup HostButtons(Button)
  /\ UNCHANGED <<userVars, connVars, wire, todo>>

Handler(c) == ReadText(c) \/ ReadFails(c) \/ Write(c) \/ WriteFails(c)

Next ==
  \/ \E c \in Client : Control(c) \/ View(c) \/ Connect(c) \/ Disconnect(c) \/ Handler(c)
  \/ CloseDevice

(* Handlers run; nobody need connect, type, leave or come back. *)
Fairness == \A c \in Client : WF_vars(Handler(c))

Spec == Init /\ [][Next]_vars
FairSpec == Spec /\ Fairness

-----------------------------------------------------------------------------
(* Properties *)

HostCode == HostKeys(Code) \cup HostButtons(Button)
Packet == {Events(m) : m \in Message} \ {<<>>}

(* Every variable has its type; only keys and buttons that NewDevice       *)
(* registered are ever pressed.                                            *)
TypeOK ==
  /\ page \in [Client -> {"off", "on", "lost"}]
  /\ keys \in [Client -> SUBSET HostKeys(Code)] /\ buttons \in [Client -> SUBSET Button]
  /\ \A c \in Client : wire[c] \in Seq(Message) /\ Len(wire[c]) <= MaxWire
  /\ handler \in [Client -> {"none", "read", "ended"}]
  /\ controller \in Client \cup {NoClient}
  /\ alive \in BOOLEAN
  /\ pressed \subseteq 1..255 \cup {BtnLeft, BtnRight, BtnMiddle}
  /\ adrift \subseteq HostCode

(* However control passes from one connection to another, a SYN_REPORT     *)
(* closes the events of one message, all of them and no others: two        *)
(* handlers never interleave their events (HandleMessage has no lock).     *)
ReportsWhole ==
  alive =>
    LET busy == {c \in Client : todo[c] # <<>>}
    IN IF busy = {} THEN report = <<>>
       ELSE \E c \in busy : busy = {c} /\ report \o todo[c] \in Packet

(* What events, or the messages of a sequence, say of code h; a message    *)
(* says no more than one thing of a code.                                  *)
DownBy(events, h) == <<"key", h, TRUE>> \in Range(events)
Silent(msgs, h) == \A i \in DOMAIN msgs : h \notin CodesIn(Events(msgs[i]))
LastDown(msgs, h) ==
  \E i \in DOMAIN msgs :
    /\ DownBy(Events(msgs[i]), h)
    /\ \A j \in DOMAIN msgs : j > i => h \notin CodesIn(Events(msgs[j]))

(* Is code h down once the events `events' are written? *)
AfterWriting(events, h) == DownBy(events, h) \/ (h \notin CodesIn(events) /\ h \in pressed)

(* Is it down once everything of the controller in flight is? *)
Settled(h) ==
  IF controller = NoClient THEN h \in pressed
  ELSE \/ LastDown(wire[controller], h)
       \/ Silent(wire[controller], h) /\ AfterWriting(todo[controller], h)

Held ==
  IF controller # NoClient /\ page[controller] = "on"
    THEN keys[controller] \cup HostButtons(buttons[controller]) ELSE {}

(* The host's keys and buttons follow the controller's hand, through       *)
(* changes of controller and whatever viewers press.  The only ones that   *)
(* may differ had their last change lost: to a loss of focus or of the     *)
(* pointer, a second mouse button, or the end of the connection.           *)
HostFollows == alive => \A h \in HostCode \ adrift : Settled(h) <=> h \in Held

(* A key that is let go, and whose release is not lost, comes up on the    *)
(* host.                                                                   *)
KeysComeUp ==
  \A h \in HostCode :
    (h \in pressed \ (Held \cup adrift)) ~> (h \notin pressed \/ h \in Held \cup adrift)

Stuck(h) ==
  /\ controller # NoClient /\ page[controller] = "on"
  /\ h \in pressed \ keys[controller]

(* Input spec: "All keys released when browser loses focus".  A key that   *)
(* the user has let go while the controller's page was connected comes up  *)
(* on the host, if the connection lasts.                                   *)
AllReleased == \A h \in HostKeys(Code) : Stuck(h) ~> ~Stuck(h)
=============================================================================

------------------------------ MODULE DesktopInput ------------------------------
(***************************************************************************)
(* Remote control, from a client's keys and buttons to the host's.  The    *)
(* desktop client (client/src/main.rs) sends what happens in its window    *)
(* while the pointer is grabbed; a browser sends touches, secondary clicks *)
(* and text.  The host injects each input in order: crates/host/src/       *)
(* main.rs and host-macos/src/host.rs on macOS, host-windows/src/main.rs,  *)
(* and host-linux/src/inject.rs through one uinput device per session.     *)
(* Inputs made before the connection is up wait in the input channel.  An  *)
(* ended connection is final for the client process; a new process starts  *)
(* afresh, while a Mac or a PC keeps down whatever was left down.          *)
(***************************************************************************)
EXTENDS Keys, FiniteSets

CONSTANTS
  WindowKeys,     \* keys of the client's keyboard
  WindowButtons,  \* buttons of its mouse
  Chars,          \* characters a browser's user types
  MaxWire         \* inputs not yet injected

VARIABLES
  sys,         \* the host's system: "macos", "windows" or "linux"
  client,      \* "desktop" or "browser"
  physical,    \* keys, buttons and contacts held at the client
  focused, grabbed,  \* the client's window: it has the keyboard, and the pointer
  net,         \* "connecting", "up" or "ended"
  wire,        \* inputs sent and not yet injected
  pressed,     \* what the client sent the press of, and not yet the release
  abandoned,   \* what was pressed when control was given up
  works,       \* the host could open its injector
  down,        \* the host's keys and buttons that are down
  carried,     \* those down since before this connection
  left_down,   \* receive_and_inject: the left button is held
  posted       \* how the last input, a move, was posted: "move", "drag" or "none"

control == <<sys, client, physical, focused, grabbed, net, wire, pressed, abandoned,
             works, down, carried, left_down, posted>>

ControlInit ==
  /\ sys \in {"macos", "windows", "linux"} /\ client \in {"desktop", "browser"}
  /\ physical = {} /\ focused = TRUE /\ grabbed = FALSE
  /\ net = "connecting" /\ wire = <<>> /\ pressed = {} /\ abandoned = {}
  /\ works = TRUE /\ down = {} /\ carried = {} /\ left_down = FALSE /\ posted = "none"

-----------------------------------------------------------------------------
(* The client                                                              *)

key_of(k) == <<"key", k>>
button_of(b) == <<"button", b>>
Contact == <<"contact", "">>

\* Extra buttons are not sent.
map_button == [b \in WindowButtons \cap {"Left", "Right", "Middle"} |-> b]

Press(item, down_now) == [type |-> item[1], of |-> item[2], pressed |-> down_now]

\* Input goes into the channel, which nobody reads once the connection is gone.
Sends(item, down_now) ==
  /\ IF net = "ended" THEN wire' = wire
     ELSE Len(wire) < MaxWire /\ wire' = Append(wire, Press(item, down_now))
  /\ pressed' = IF down_now THEN pressed \cup {item} ELSE pressed \ {item}
  /\ abandoned' = abandoned \ {item}

SendsOther(input) ==
  /\ net # "ended" /\ Len(wire) < MaxWire
  /\ wire' = Append(wire, input) /\ UNCHANGED <<pressed, abandoned>>

SendsNothing == UNCHANGED <<wire, pressed, abandoned>>

\* The user presses or lets go of something; a key held down repeats.
Physical(item, down_now) ==
  /\ down_now \/ item \in physical
  /\ physical' = IF down_now THEN physical \cup {item} ELSE physical \ {item}

\* Giving up control sends nothing: what is held at the host stays so.
Release ==
  /\ grabbed' = FALSE /\ abandoned' = abandoned \cup pressed
  /\ UNCHANGED <<wire, pressed>>

\* Mutant: a button let go of in control is not sent.
mouse_input_PressesOnly(b, down_now) ==
  /\ Physical(button_of(b), down_now) /\ (down_now => button_of(b) \notin physical)
  /\ IF grabbed /\ down_now /\ b \in DOMAIN map_button THEN Sends(button_of(map_button[b]), TRUE)
     ELSE SendsNothing
  /\ grabbed' \in (IF ~grabbed /\ down_now /\ b = "Left" THEN BOOLEAN ELSE {grabbed})

\* The first left click takes the pointer, when the system lets it.
mouse_input(b, down_now) ==
  /\ Physical(button_of(b), down_now) /\ (down_now => button_of(b) \notin physical)
  /\ IF grabbed
     THEN /\ UNCHANGED grabbed
          /\ IF b \in DOMAIN map_button THEN Sends(button_of(map_button[b]), down_now)
             ELSE SendsNothing
     ELSE /\ SendsNothing
          /\ grabbed' \in (IF down_now /\ b = "Left" THEN BOOLEAN ELSE {FALSE})

\* In control every key but Esc is the host's; out of it F and Esc change the
\* window's size, and no key is sent.
keyboard_input(k, down_now) ==
  /\ Physical(key_of(k), down_now)
  /\ CASE grabbed /\ k = "Escape" /\ down_now -> Release
       [] grabbed /\ ~(k = "Escape" /\ down_now) /\ k \in DOMAIN key_to_hid ->
            Sends(key_of(key_to_hid[k]), down_now) /\ UNCHANGED grabbed
       [] OTHER -> SendsNothing /\ UNCHANGED grabbed

focus_lost ==
  /\ focused /\ focused' = FALSE
  /\ IF grabbed THEN Release ELSE UNCHANGED <<grabbed, wire, pressed, abandoned>>
  /\ UNCHANGED physical

focus_gained ==
  /\ ~focused /\ focused' = TRUE
  /\ UNCHANGED <<physical, grabbed, wire, pressed, abandoned>>

\* A key let go of in another window, or a button outside this one, does not
\* reach the client; buttons do while the pointer is locked to its window.
let_go_elsewhere(item) ==
  /\ ~focused /\ (item[1] = "button" => ~grabbed) /\ Physical(item, FALSE)
  /\ SendsNothing /\ UNCHANGED <<focused, grabbed>>

device_event ==
  /\ grabbed /\ SendsOther([type |-> "move"])
  /\ UNCHANGED <<physical, focused, grabbed>>

\* The mouse needs no focus: a click that comes before it takes the pointer.
window_event ==
  \/ \E d \in BOOLEAN, b \in WindowButtons : mouse_input(b, d) /\ UNCHANGED focused
  \/ \E d \in BOOLEAN, k \in WindowKeys : focused /\ keyboard_input(k, d) /\ UNCHANGED focused
  \/ focus_lost
  \/ focus_gained

Host == <<sys, client, net, works, down, carried, left_down, posted>>

Desktop ==
  /\ client = "desktop" /\ UNCHANGED Host
  /\ window_event \/ device_event \/ \E item \in physical : let_go_elsewhere(item)

\* A browser sends one contact's phases in order, and complete gestures.
Touches ==
  \/ Contact \notin physical /\ Physical(Contact, TRUE) /\ Sends(Contact, TRUE)
  \/ Physical(Contact, FALSE) /\ Sends(Contact, FALSE)
  \/ Contact \in physical /\ SendsOther([type |-> "dragged"]) /\ UNCHANGED physical
Gestures ==
  /\ UNCHANGED physical
  /\ \/ SendsOther([type |-> "secondary"])
     \/ \E c \in Chars : SendsOther([type |-> "text", of |-> c])

Browser ==
  /\ client = "browser" /\ net = "up" /\ UNCHANGED Host
  /\ UNCHANGED <<focused, grabbed>>
  /\ Touches \/ Gestures

-----------------------------------------------------------------------------
(* The host                                                                *)

hid_to_os == [macos |-> hid_to_macos, windows |-> hid_to_windows_vk, linux |-> hid_to_linux_key]

\* The key or button of the host an item stands for, in a set: none if the
\* host knows no such key, or ignores touches.
Code(item) ==
  CASE item[1] = "button" -> {item}
    [] item[1] = "key" -> {key_of(hid_to_os[sys][u]) : u \in {item[2]} \cap DOMAIN hid_to_os[sys]}
    [] item[1] = "contact" -> IF sys = "macos" THEN {button_of("Left")} ELSE {}

Codes(items) == UNION {Code(i) : i \in items}

\* What text taps: a Mac posts it with key code 0, Linux spells it out on a US
\* keyboard, and Windows has characters of their own for it.
text_keys(c) ==
  CASE sys = "macos" -> {key_of(0)}
    [] sys = "windows" -> {}
    [] sys = "linux" -> IF c \notin DOMAIN ascii_to_key THEN {}
                        ELSE {key_of(ascii_to_key[c][1])}
                             \cup (IF ascii_to_key[c][2] THEN {key_of("LeftShift")} ELSE {})

\* Down, up, or both in turn, which leaves it up.
Put(codes, down_now) ==
  /\ down' = IF down_now /\ works THEN down \cup codes ELSE down \ codes
  /\ carried' = carried \ codes

\* How the input moved the pointer.  Only a Mac tells a move with the button
\* down from another, by left_down; a touch is a drag of its own there, and
\* nothing elsewhere.
post_mouse(input) ==
  posted' = IF input.type = "move" /\ ~(sys = "macos" /\ left_down) THEN "move"
            ELSE IF input.type \in {"move", "dragged"} /\ sys = "macos" THEN "drag"
            ELSE "none"

\* One input.
inject(input) ==
  LET item == <<input.type, input.of>>
      nothing == UNCHANGED <<down, carried, left_down>>
  IN /\ post_mouse(input)
     /\ CASE input.type \in {"key", "button", "contact"} ->
               /\ Put(Code(item), input.pressed)
               /\ left_down' = IF item = button_of("Left") /\ sys = "macos" THEN input.pressed
                               ELSE left_down
          [] input.type = "text" -> Put(text_keys(input.of), FALSE) /\ UNCHANGED left_down
          [] input.type = "secondary" ->
               /\ Put(IF sys = "macos" THEN {button_of("Right")} ELSE {}, FALSE)
               /\ UNCHANGED left_down
          [] input.type \in {"move", "dragged"} -> nothing

Here == <<sys, client, physical, focused, grabbed>>

receive_and_inject ==
  /\ net = "up" /\ wire # <<>>
  /\ wire' = Tail(wire) /\ inject(Head(wire))
  /\ UNCHANGED <<Here, net, pressed, abandoned, works>>

\* A session begins: left_down is its own, and so is Linux's device, which may
\* not open.
Connected ==
  /\ net = "connecting" /\ net' = "up"
  /\ left_down' = FALSE /\ carried' = down /\ posted' = "none"
  /\ works' \in (IF sys = "linux" THEN BOOLEAN ELSE {TRUE})
  /\ UNCHANGED <<Here, wire, pressed, abandoned, down>>

\* The connection fails or is lost, with what is still on its way.  Linux's
\* device goes with the session, and the kernel lets go of its keys.
Ended ==
  /\ net # "ended" /\ net' = "ended" /\ wire' = <<>>
  /\ down' = IF sys = "linux" THEN {} ELSE down
  /\ UNCHANGED <<Here, pressed, abandoned, works, carried, left_down, posted>>

\* The client's process ends and another is started.
Restarted ==
  /\ net = "ended" /\ net' = "connecting"
  /\ pressed' = {} /\ abandoned' = {} /\ physical' = {}
  /\ focused' = TRUE /\ grabbed' = FALSE
  /\ UNCHANGED <<sys, client, wire, works, down, carried, left_down, posted>>

ControlNext == Desktop \/ Browser \/ receive_and_inject \/ Connected \/ Ended \/ Restarted

-----------------------------------------------------------------------------
\* What the user holds, as the items the client would send.
Held ==
  {i \in physical : i[1] # "key"}
  \cup {key_of(key_to_hid[k]) : k \in {k \in DOMAIN key_to_hid : key_of(k) \in physical}}

\* Nothing is held at the host that the user has let go of, unless control was
\* given up while it was held: a release made in control is always sent, and
\* nothing is sent out of control.
ReleasesSent == pressed \subseteq Held \cup abandoned

\* What is down at the host is what the client sent the press of, once all is
\* injected, and what was down before.
DownIsPressed ==
  (net = "up" /\ wire = <<>> /\ works) => down = Codes(pressed) \cup carried

\* A Mac is told of a drag exactly when its left button is down by this
\* session: a move with the button held selects text, another does not.
DragsAreDrags ==
  (net = "up" /\ sys = "macos" /\ posted # "none") =>
    ((posted = "drag") <=> (button_of("Left") \in down \ carried))

\* What is down at the host was pressed by its client and is held still, but for
\* what was left down when control was given up (abandoned) or was down before
\* the connection (carried); and a Mac is told of drags alike (window_event and inject).
HeldIsHeld == ReleasesSent /\ DownIsPressed /\ DragsAreDrags
=============================================================================

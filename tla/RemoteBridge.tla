------------------------------ MODULE RemoteBridge ------------------------------
(***************************************************************************)
(* Reaching a host from a browser: web-bridge/src/lib.rs, and the host's   *)
(* "Remote access" panel that runs it (host-ui/src/remote.rs).             *)
(*                                                                         *)
(* The bridge is a thread between two sockets.  On one side a WebSocket:   *)
(* of the rendezvous room it dialled (~lan), where JSON signals and binary *)
(* payload are mixed, or of the browser it accepted (lan).  On the other a *)
(* TCP connection to the host's own listener, drained by a second thread,  *)
(* the reader, into an unbounded channel.  The two threads share only the  *)
(* channel and the socket, which stays open until both have let go of it.  *)
(*                                                                         *)
(* What the host sends is a stream of units, Part of them to a frame; what *)
(* the guest sends is a number of messages.                                *)
(***************************************************************************)
EXTENDS Integers, Sequences

CONSTANTS
  Ports,        \* the ports a host may listen on
  None,         \* no port
  Default,      \* the host a LAN bridge was started for
  Part,         \* units to a frame of the host
  UpMax,        \* messages a guest sends in a session
  DownMax,      \* units a host sends in a session
  WsRoom,       \* messages that fit between the bridge and a guest that does not read
  UpRoom,       \* messages that fit between the bridge and a host that does not read
  MaxSessions   \* sessions of the bridge

ASSUME BridgeAssumption ==
  /\ None \notin Ports /\ Default \in Ports
  /\ Part \in Nat \ {0} /\ UpMax \in Nat \ {0} /\ DownMax \in Nat
  /\ WsRoom \in Nat \ {0} /\ UpRoom \in Nat \ {0} /\ MaxSessions \in Nat

VARIABLES
  lan,        \* the LAN bridge, or else the room's
  listening,  \* the port the host listens on, or None
  phase,      \* Phase of the panel: "idle", "waiting", "connected"
  note,       \* how the last session ended: "none", "unpaired", "ended", "failed"
  sessions,   \* how many there have been
  pc,         \* the bridge's thread
  target,     \* the port it was told to bridge to
  relay,      \* Relay: "none", "reframe", "passthrough"
  link,       \* its WebSocket: "off", "open", "closed" in order, or "cut"
  inbox,      \* what the WebSocket brings it
  outbox,     \* what it has written to the WebSocket
  sock,       \* its connection to the host: "none", "open", "held" by the reader alone,
              \* "shut" both ways, or "closed"
  reader,     \* the reader: "none", "reading", "sending" a chunk, or "ended"
  chunk,      \* the chunk in its hand
  chan,       \* the channel: chunks
  up, down,   \* the bytes of the TCP connection
  host,       \* the host's end: "none", "greeting" (nothing read yet), "talking", "gone"
  heard,      \* how the host reads the guest: "none", "tunnel", "frames"
  guest,      \* the guest: "out", "deciding", "opening" a tunnel, "talking", "left"
  kind,       \* the guest's session: "none", "secure", "plain"
  caps,       \* whether the guest has seen the host's announcement
  guestSent, hostGot, hostSent, guestGot  \* what each has sent and received

bridge == <<pc, target, relay>>
panel == <<phase, note, sessions>>
tcp == <<sock, reader, chunk, chan, up, down>>
ends == <<host, heard, hostGot, hostSent>>
visitor == <<guest, kind, caps, guestSent, guestGot>>
web == <<link, inbox, outbox>>
vars == <<lan, listening, panel, bridge, web, tcp, ends, visitor>>

Binary(m) == [type |-> "binary", n |-> m]
Signal(s) == [type |-> s, n |-> 0]
CAPS_SIGNAL == <<0>>
Flat(chunks) == LET F[i \in 0 .. Len(chunks)] == IF i = 0 THEN <<>> ELSE F[i - 1] \o chunks[i]
                IN  F[Len(chunks)]
UpTo(n) == [i \in 1 .. n |-> i]

TypeOK ==
  /\ lan \in BOOLEAN /\ listening \in Ports \cup {None}
  /\ phase \in {"idle", "waiting", "connected"}
  /\ note \in {"none", "unpaired", "ended", "failed"}
  /\ sessions \in 0 .. MaxSessions
  /\ pc \in {"idle", "dial", "phase1", "paired", "caps", "route", "connect", "first", "drain", "read", "write"}
  /\ target \in Ports \cup {None}
  /\ relay \in {"none", "reframe", "passthrough"}
  /\ link \in {"off", "open", "closed", "cut"}
  /\ inbox \in Seq([type : {"binary", "waiting", "paired", "peer-left"}, n : 0 .. UpMax])
  /\ outbox \in Seq(Seq(0 .. DownMax)) /\ Len(outbox) <= WsRoom
  /\ sock \in {"none", "open", "held", "shut", "closed"}
  /\ reader \in {"none", "reading", "sending", "ended"}
  /\ chunk \in Seq(1 .. DownMax) /\ chan \in Seq(Seq(1 .. DownMax))
  /\ up \in Seq([n : 1 .. UpMax, as : {"tunnel", "frames", "garbage"}]) /\ Len(up) <= UpRoom
  /\ down \in Seq(1 .. DownMax)
  /\ host \in {"none", "greeting", "talking", "gone"}
  /\ heard \in {"none", "tunnel", "frames", "garbage"}
  /\ guest \in {"out", "deciding", "opening", "talking", "left"}
  /\ kind \in {"none", "secure", "plain"} /\ caps \in BOOLEAN
  /\ guestSent \in 0 .. UpMax /\ hostGot \in Seq(1 .. UpMax)
  /\ hostSent \in 0 .. DownMax /\ guestGot \in Seq(1 .. DownMax)

Init ==
  /\ lan \in BOOLEAN /\ listening \in Ports \cup {None}
  /\ phase = "idle" /\ note = "none" /\ sessions = 0
  /\ pc = "idle" /\ target = None /\ relay = "none"
  /\ link = "off" /\ inbox = <<>> /\ outbox = <<>>
  /\ sock = "none" /\ reader = "none" /\ chunk = <<>> /\ chan = <<>>
  /\ up = <<>> /\ down = <<>>
  /\ host = "none" /\ heard = "none"
  /\ guest = "out" /\ kind = "none" /\ caps = FALSE
  /\ guestSent = 0 /\ hostGot = <<>> /\ hostSent = 0 /\ guestGot = <<>>

-----------------------------------------------------------------------------
(* A session begins and ends.                                              *)

(* Nothing of an earlier session but a host that may still be in it; the   *)
(* bound keeps the model to one such session at a time.                    *)
Fresh ==
  /\ sessions < MaxSessions /\ sessions' = sessions + 1
  /\ sock \in {"none", "shut", "closed"} /\ host \in {"none", "gone"} /\ reader \in {"none", "ended"}
  /\ sock' = "none" /\ reader' = "none" /\ chunk' = <<>> /\ chan' = <<>> /\ up' = <<>> /\ down' = <<>>
  /\ host' = "none" /\ heard' = "none" /\ hostGot' = <<>> /\ hostSent' = 0
  /\ kind' = "none" /\ caps' = FALSE /\ guestSent' = 0 /\ guestGot' = <<>>
  /\ inbox' = <<>> /\ outbox' = <<>> /\ relay' = "none"

(* The thread is over: the WebSocket is dropped, and the panel says how.   *)
(* Its handle of the connection is dropped too, but the reader has another.*)
Over(how) ==
  /\ pc' = "idle" /\ link' = "off" /\ note' = how
  /\ phase' = "idle"
  /\ UNCHANGED <<sessions, target, relay, inbox, outbox>>

Dropped == sock' = CASE sock = "open" /\ reader \in {"reading", "sending"} -> "held"
                     [] sock = "open" /\ reader \notin {"reading", "sending"} -> "closed"
                     [] OTHER -> sock
Shutdown == sock' = IF sock = "open" THEN "shut" ELSE sock

(* RemoteAccessPanel::ui's button and start: offered while the host runs   *)
(* and no code is on show.  The port is captured.                          *)
Enable ==
  /\ ~lan /\ pc = "idle" /\ phase = "idle" /\ listening # None
  /\ Fresh
  /\ phase' = "waiting" /\ pc' = "dial" /\ target' = listening
  /\ link' = "off" /\ guest' = "out" /\ note' = "none"
  /\ UNCHANGED <<lan, listening>>

(* tungstenite::connect: the room takes it in, or the dial fails.          *)
Dial ==
  /\ pc = "dial"
  /\ \/ pc' = "phase1" /\ link' = "open" /\ inbox' = <<Signal("waiting")>>
        /\ UNCHANGED <<panel, target, relay, outbox, sock>>
     \/ Over("failed") /\ Dropped
  /\ UNCHANGED <<lan, listening, reader, chunk, chan, up, down, ends, visitor>>

(* Phase 1 reads signals until "paired"; all else is skipped.              *)
Phase1 ==
  /\ pc = "phase1"
  /\ \/ /\ inbox # <<>> /\ link # "off"
        /\ inbox' = Tail(inbox)
        /\ pc' = IF Head(inbox).type = "paired" THEN "paired" ELSE pc
        /\ UNCHANGED <<panel, target, relay, link, outbox, sock>>
     \/ link = "closed" /\ inbox = <<>> /\ Over("unpaired") /\ Dropped
     \/ link = "cut" /\ Over("failed") /\ Dropped
  /\ UNCHANGED <<lan, listening, reader, chunk, chan, up, down, ends, visitor>>

(* on_paired: the panel says connected.                                    *)
OnPaired ==
  /\ pc = "paired"
  /\ phase' = "connected" /\ pc' = "caps"
  /\ UNCHANGED <<lan, listening, note, sessions, target, relay, web, tcp, ends, visitor>>

(* The announcement goes out before anything else.                         *)
SendCaps ==
  /\ pc = "caps"
  /\ \/ /\ link \in {"open", "closed"}
        /\ outbox' = Append(outbox, CAPS_SIGNAL) /\ pc' = "connect"
        /\ UNCHANGED <<panel, target, relay, link, inbox, sock>>
     \/ link # "open" /\ Over("failed") /\ Dropped
  /\ UNCHANGED <<lan, listening, reader, chunk, chan, up, down, ends, visitor>>

-----------------------------------------------------------------------------
(* The LAN bridge.                                                         *)

(* serve's accept, and peek_request_line: a request for /peers is answered *)
(* at once and changes nothing; anything else is upgraded, answering the   *)
(* subprotocol a current page offers.                                      *)
Upgrade ==
  /\ lan /\ pc = "idle"
  /\ Fresh
  /\ pc' = "route" /\ link' = "open" /\ guest' = "deciding"
  /\ note' = "none" /\ target' = None
  /\ UNCHANGED <<lan, listening, phase>>

(* proxy_browser: the default host, or one that is discovered just then.   *)
Route ==
  /\ pc = "route"
  /\ \E asked \in Ports \cup {None}, peers \in SUBSET Ports :
       IF asked \in {None, Default} \cup peers
       THEN /\ target' = (IF asked = None THEN Default ELSE asked) /\ pc' = "connect"
            /\ UNCHANGED <<panel, relay, web, sock>>
       ELSE Over("failed") /\ Dropped
  /\ UNCHANGED <<lan, listening, reader, chunk, chan, up, down, ends, visitor>>

-----------------------------------------------------------------------------
(* The data phase, proxy_established and the second half of                *)
(* dial_room_observed, which are one pump.                                 *)

Connect ==
  /\ pc = "connect"
  /\ IF target = listening
     THEN sock' = "open" /\ host' = "greeting" /\ pc' = "first" /\ UNCHANGED <<panel, target, relay, web>>
     ELSE Over("failed") /\ Dropped /\ UNCHANGED host
  /\ UNCHANGED <<lan, listening, reader, chunk, chan, up, down, heard, hostGot, hostSent, visitor>>

(* Mutant: a bridge from before encryption.                                *)
for_first_message_Reframes(m) == "reframe"

(* Mutant: forwards the message before.                                    *)
upstream_Behind(mode, m) == [n |-> m - 1, as |-> IF mode = "passthrough" THEN "tunnel" ELSE "frames"]

(* Relay::for_first_message looks for the preamble, which the first message*)
(* of a secure guest is; upstream then adds a length prefix or nothing.    *)
Preamble(m) == kind = "secure" /\ m = 1
for_first_message(m) == IF Preamble(m) THEN "passthrough" ELSE "reframe"
upstream(mode, m) ==
  [n |-> m, as |-> CASE mode = "passthrough" /\ kind = "secure" -> "tunnel"
                     [] mode = "reframe" /\ kind = "plain" -> "frames"
                     [] OTHER -> "garbage"]

(* Mutant: ahead of what the host has not read yet.                        *)
Written_Ahead(m, then) ==
  /\ up' = <<upstream(relay', m)>> \o up /\ pc' = then
  /\ UNCHANGED <<panel, target, link, outbox, sock>>

(* A message for the host is written and goes on to `then`, or is lost; or *)
(* the write fails, once the host is gone.  Meanwhile write_all waits for  *)
(* the host to read: for good, if nobody does.                             *)
Written(m, then) ==
  /\ host = "gone" \/ Len(up) < UpRoom
  /\ up' = IF host = "gone" THEN up ELSE Append(up, upstream(relay', m))
  /\ pc' = then
  /\ UNCHANGED <<panel, target, link, outbox, sock>>

WriteFails ==
  /\ host = "gone"
  /\ pc' = "idle" /\ link' = "off" /\ note' = "failed" /\ phase' = "idle"
  /\ Dropped
  /\ UNCHANGED <<sessions, target, outbox, up>>

(* Mutant: the flag nothing ever cleared.                                  *)
Ended_PanelKept(how) ==
  /\ pc' = "idle" /\ link' = "off" /\ note' = how /\ Shutdown
  /\ UNCHANGED <<phase, sessions, target, relay, inbox, outbox, up>>

(* The peer left, or closed: the host's connection is shut both ways.      *)
Ended(how) == Over(how) /\ Shutdown /\ UNCHANGED up

(* first_upstream_message on the LAN, first_room_binary in a room.  On the *)
(* LAN a guest that closes before it speaks is an error.                   *)
First ==
  /\ pc = "first"
  /\ \/ /\ inbox # <<>> /\ Head(inbox).type = "binary"
        /\ inbox' = Tail(inbox)
        /\ relay' = for_first_message(Head(inbox).n)
        /\ \/ Written(Head(inbox).n, "drain") /\ reader' = "reading"
           \/ WriteFails /\ UNCHANGED reader
     \/ /\ inbox # <<>> /\ Head(inbox).type \in {"waiting", "paired"}
        /\ inbox' = Tail(inbox)
        /\ UNCHANGED <<panel, bridge, link, outbox, sock, up, reader>>
     \/ inbox # <<>> /\ Head(inbox).type = "peer-left" /\ Ended("ended") /\ UNCHANGED reader
     \/ inbox = <<>> /\ link = "closed" /\ ~lan /\ Ended("ended") /\ UNCHANGED reader
     \/ inbox = <<>> /\ link = "closed" /\ lan /\ Over("failed") /\ Dropped /\ UNCHANGED <<up, reader>>
     \/ link = "cut" /\ Over("failed") /\ Dropped /\ UNCHANGED <<up, reader>>
  /\ UNCHANGED <<lan, listening, chunk, chan, down, ends, visitor>>

(* The pump forwards all that the channel holds, ending when the reader    *)
(* has, or when a write of the WebSocket fails: because it was cut, or     *)
(* because the guest does not read and tungstenite's buffer is full.       *)
Drain ==
  /\ pc = "drain"
  /\ \/ /\ chan # <<>> /\ link # "cut" /\ Len(outbox) < WsRoom
        /\ outbox' = Append(outbox, Head(chan)) /\ chan' = Tail(chan)
        /\ UNCHANGED <<panel, bridge, link, inbox, sock>>
     \/ /\ chan # <<>> /\ (link # "open" \/ Len(outbox) = WsRoom)
        /\ Over("failed") /\ Dropped /\ chan' = <<>>
     \/ chan = <<>> /\ reader = "ended" /\ Over("ended") /\ Dropped /\ UNCHANGED chan
     \/ /\ chan = <<>> /\ reader # "ended" /\ pc' = "read"
        /\ UNCHANGED <<panel, target, relay, web, chan, sock>>
  /\ UNCHANGED <<lan, listening, reader, chunk, up, down, ends, visitor>>

(* Mutant: the signals of a paired room are skipped, the last one too.     *)
Read_SkipsSignals ==
  /\ pc = "read"
  /\ IF inbox # <<>> /\ Head(inbox).type = "binary"
     THEN pc' = "write" /\ UNCHANGED inbox
     ELSE pc' = "drain" /\ inbox' = IF inbox = <<>> THEN inbox ELSE Tail(inbox)
  /\ UNCHANGED <<lan, listening, panel, target, relay, link, outbox, tcp, ends, visitor>>

(* Then one message of the WebSocket, if there is one.                     *)
Read ==
  /\ pc = "read"
  /\ \/ /\ inbox # <<>> /\ Head(inbox).type = "binary" /\ pc' = "write"
        /\ UNCHANGED <<panel, target, relay, web, sock, up, chan>>
     \/ /\ inbox # <<>> /\ Head(inbox).type \in {"waiting", "paired"}
        /\ inbox' = Tail(inbox) /\ pc' = "drain"
        /\ UNCHANGED <<panel, target, relay, link, outbox, sock, up, chan>>
     \/ inbox # <<>> /\ Head(inbox).type = "peer-left" /\ Ended("ended") /\ chan' = <<>>
     \/ inbox = <<>> /\ link = "closed" /\ Ended("ended") /\ chan' = <<>>
     \/ link = "cut" /\ Over("failed") /\ Dropped /\ chan' = <<>> /\ UNCHANGED up
     \/ /\ inbox = <<>> /\ link = "open" /\ pc' = "drain"
        /\ UNCHANGED <<panel, target, relay, web, sock, up, chan>>
  /\ UNCHANGED <<lan, listening, reader, chunk, down, ends, visitor>>

(* It is taken from the WebSocket, and no other read until it is written.  *)
Write ==
  /\ pc = "write"
  /\ inbox' = Tail(inbox) /\ UNCHANGED relay
  /\ \/ Written(Head(inbox).n, "drain") /\ UNCHANGED chan
     \/ WriteFails /\ chan' = <<>>
  /\ UNCHANGED <<lan, listening, reader, chunk, down, ends, visitor>>

(* Mutant: what does not fit the buffer is dropped.                        *)
ReaderReads_Truncates ==
  /\ reader = "reading" /\ Len(down) >= (IF relay = "reframe" THEN Part ELSE 1)
  /\ chunk' = SubSeq(down, 1, IF relay = "reframe" THEN Part ELSE 1)
  /\ down' = IF relay = "reframe" THEN SubSeq(down, Part + 1, Len(down)) ELSE <<>>
  /\ reader' = "sending"
  /\ UNCHANGED <<lan, listening, panel, bridge, web, sock, chan, up, ends, visitor>>

(* The reader: read_any takes what there is, read_frame_body a whole frame.*)
ReaderReads ==
  /\ reader = "reading"
  /\ \E k \in 1 .. Len(down) :
       /\ relay = "reframe" => k = Part
       /\ chunk' = SubSeq(down, 1, k) /\ down' = SubSeq(down, k + 1, Len(down))
  /\ reader' = "sending"
  /\ UNCHANGED <<lan, listening, panel, bridge, web, sock, chan, up, ends, visitor>>

(* Its read ends with the connection; a part of a frame is dropped.        *)
ReaderEnds ==
  /\ reader = "reading"
  /\ \/ sock = "shut"
     \/ host = "gone" /\ Len(down) < (IF relay = "reframe" THEN Part ELSE 1)
  /\ reader' = "ended" /\ sock' = IF sock = "held" THEN "closed" ELSE sock
  /\ UNCHANGED <<lan, listening, panel, bridge, web, chunk, chan, up, down, ends, visitor>>

(* Mutant: a send into a channel without a receiver is no reason to stop.  *)
ReaderSends_Ignores ==
  /\ reader = "sending" /\ reader' = "reading" /\ chunk' = <<>>
  /\ chan' = IF pc = "idle" THEN chan ELSE Append(chan, chunk)
  /\ UNCHANGED <<lan, listening, panel, bridge, web, sock, up, down, ends, visitor>>

(* The channel takes the chunk, unless the thread that read it has gone.   *)
ReaderSends ==
  /\ reader = "sending"
  /\ IF pc = "idle"
     THEN reader' = "ended" /\ sock' = (IF sock = "held" THEN "closed" ELSE sock) /\ UNCHANGED chan
     ELSE reader' = "reading" /\ chan' = Append(chan, chunk) /\ UNCHANGED sock
  /\ chunk' = <<>>
  /\ UNCHANGED <<lan, listening, panel, bridge, web, up, down, ends, visitor>>

-----------------------------------------------------------------------------
(* The host, as its accept loop and a session treat a connection.          *)

HostReads ==
  /\ host \in {"greeting", "talking"} /\ up # <<>>
  /\ up' = Tail(up) /\ hostGot' = Append(hostGot, Head(up).n)
  /\ heard' = (IF heard \in {"none", Head(up).as} THEN Head(up).as ELSE "garbage")
  /\ host' = "talking"
  /\ UNCHANGED <<lan, listening, panel, bridge, web, sock, reader, chunk, chan, down, hostSent, visitor>>

(* Bounded; a frame is kept back for a connection nobody reads any more.   *)
HostSends ==
  /\ host = "talking" /\ sock \in {"open", "held"}
  /\ hostSent < IF sock = "open" THEN DownMax - Part ELSE DownMax
  /\ hostSent' = hostSent + 1 /\ down' = Append(down, hostSent + 1)
  /\ UNCHANGED <<lan, listening, panel, bridge, web, sock, reader, chunk, chan, up,
                 host, heard, hostGot, visitor>>

(* It may end at any time; what it had in flight may be lost with it.      *)
HostCloses ==
  /\ host' = "gone" /\ up' = <<>>
  /\ \E keep \in 0 .. Len(down) : down' = SubSeq(down, 1, keep)
  /\ UNCHANGED <<lan, listening, panel, bridge, web, sock, reader, chunk, chan,
                 heard, hostGot, hostSent, visitor>>

HostEnds == host = "talking" /\ HostCloses
HostTimesOut == host = "greeting" /\ HostCloses
HostSeesEnd == host \in {"greeting", "talking"} /\ sock \in {"shut", "closed"} /\ HostCloses

(* The window stops the host, or starts it, perhaps on another port; which *)
(* no longer matters once a connection is open.                            *)
Relisten ==
  /\ sock \in {"none", "shut", "closed"}
  /\ \E p \in (Ports \cup {None}) \ {listening} : listening' = p
  /\ UNCHANGED <<lan, panel, bridge, web, tcp, ends, visitor>>

-----------------------------------------------------------------------------
(* The guest, room.js and transport.js, and the room between.              *)

GuestJoins ==
  /\ pc = "phase1" /\ link = "open" /\ guest = "out"
  /\ inbox' = Append(inbox, Signal("paired")) /\ guest' = "deciding"
  /\ UNCHANGED <<lan, listening, panel, bridge, link, outbox, tcp, ends, kind, caps, guestSent, guestGot>>

(* The room closes when nobody joins for ten minutes.                      *)
RoomExpires ==
  /\ pc = "phase1" /\ link = "open" /\ guest = "out"
  /\ link' = "closed"
  /\ UNCHANGED <<lan, listening, panel, bridge, inbox, outbox, tcp, ends, visitor>>

(* It encrypts if it has been told in time that it can (in a room by the   *)
(* caps signal, on the LAN by the subprotocol), and speaks first if so.    *)
GuestDecides ==
  /\ guest = "deciding" /\ link = "open"
  /\ \/ /\ lan \/ caps
        /\ kind' = "secure" /\ guest' = "opening" /\ guestSent' = 1
        /\ inbox' = Append(inbox, Binary(1))
     \/ kind' = "plain" /\ guest' = "talking" /\ UNCHANGED <<guestSent, inbox>>
  /\ UNCHANGED <<lan, listening, panel, bridge, link, outbox, tcp, ends, caps, guestGot>>

GuestSends ==
  /\ guest = "talking" /\ link = "open" /\ guestSent < UpMax
  /\ guestSent' = guestSent + 1 /\ inbox' = Append(inbox, Binary(guestSent + 1))
  /\ UNCHANGED <<lan, listening, panel, bridge, link, outbox, tcp, ends, guest, kind, caps, guestGot>>

GuestReads ==
  /\ guest \in {"deciding", "opening", "talking"} /\ link # "cut" /\ outbox # <<>>
  /\ outbox' = Tail(outbox)
  /\ IF Head(outbox) = CAPS_SIGNAL
     THEN caps' = TRUE /\ UNCHANGED <<guest, guestGot>>
     ELSE /\ guestGot' = guestGot \o Head(outbox)
          /\ guest' = (IF guest = "opening" THEN "talking" ELSE guest)
          /\ UNCHANGED caps
  /\ UNCHANGED <<lan, listening, panel, bridge, link, inbox, tcp, ends, kind, guestSent>>

(* It leaves: the room says so, a browser's own socket is closed.          *)
GuestLeaves ==
  /\ guest \in {"deciding", "opening", "talking"} /\ guest' = "left"
  /\ IF link = "open" /\ ~lan THEN inbox' = Append(inbox, Signal("peer-left")) /\ UNCHANGED link
     ELSE link' = (IF link = "open" THEN "closed" ELSE link) /\ UNCHANGED inbox
  /\ UNCHANGED <<lan, listening, panel, bridge, outbox, tcp, ends, kind, caps, guestSent, guestGot>>

(* The network between them goes, or a guest with no goodbye.              *)
Cut ==
  /\ link = "open" /\ link' = "cut"
  /\ UNCHANGED <<lan, listening, panel, bridge, inbox, outbox, tcp, ends, visitor>>

-----------------------------------------------------------------------------
Bridge == \/ Dial \/ Phase1 \/ OnPaired \/ SendCaps \/ Route \/ Connect \/ First \/ Drain \/ Read \/ Write
Reader == ReaderReads \/ ReaderEnds \/ ReaderSends
Host == HostReads \/ HostSends \/ HostEnds \/ HostTimesOut \/ HostSeesEnd
Guest == GuestJoins \/ GuestDecides \/ GuestSends \/ GuestReads \/ GuestLeaves

Next == Enable \/ Upgrade \/ Bridge \/ Reader \/ Host \/ Guest \/ Relisten \/ RoomExpires \/ Cut

Spec == Init /\ [][Next]_vars

(* The bridge's two threads run.  No host, guest or room need do anything. *)
FairSpec == Spec /\ WF_vars(Bridge) /\ WF_vars(Reader)

(* A host at leisure: it drops a connection that says nothing or has ended.*)
HostSpec == FairSpec /\ WF_vars(HostTimesOut) /\ WF_vars(HostSeesEnd)

-----------------------------------------------------------------------------
(* Properties.                                                             *)

(* Each direction is a Pipe: through the room, two buffers, a channel and  *)
(* two threads nothing is lost before the end, repeated or overtaken.      *)
Upward == INSTANCE Pipe WITH Items <- 1 .. UpMax, sent <- UpTo(guestSent), got <- hostGot
Downward == INSTANCE Pipe WITH Items <- 1 .. DownMax, sent <- UpTo(hostSent), got <- guestGot
UpwardPipe == Upward!Spec
DownwardPipe == Downward!Spec
Pipes == UpwardPipe /\ DownwardPipe

(* Whichever way the first message made the bridge choose, both ends can   *)
(* read what it relays: a host never hears a session of another kind than  *)
(* the guest's, and a guest that reads whole messages is sent whole frames.*)
FrameOf(m) == Len(m) = Part /\ \E q \in 0 .. DownMax : \A i \in 1 .. Part : m[i] = q * Part + i
BothEndsRead ==
  /\ heard # "none" => heard = (IF kind = "secure" THEN "tunnel" ELSE "frames")
  /\ kind = "plain" => \A i \in 1 .. Len(outbox) : (outbox[i] = CAPS_SIGNAL \/ FrameOf(outbox[i]))

(* The panel shows a code exactly while the thread of its room runs, says  *)
(* connected only when somebody has joined it, and so never has two rooms. *)
CodeIsLive ==
  /\ phase # "idle" <=> ~lan /\ pc # "idle"
  /\ phase = "connected" => guest # "out"
  /\ phase = "waiting" => sock \in {"none"}

(* What holds while a bridge runs, in the room and on the LAN.             *)
BridgeSound == BothEndsRead /\ CodeIsLive

(* A dead code is not left on show, nor a LAN bridge on a browser that has *)
(* gone, wherever the session was when its other end went: unless the      *)
(* bridge is waiting to write to a host that does not read.                *)
WaitsForHost == pc = "write" /\ host # "gone" /\ Len(up) = UpRoom
DeadRoomDropped ==
  (pc # "idle" /\ (guest = "left" \/ link \in {"closed", "cut"})) ~> (pc = "idle" \/ WaitsForHost)

(* A guest that takes its leave, and a host that does, end the reader too; *)
(* after a session that ended without an error no thread has the host's    *)
(* connection open.                                                        *)
ReaderLetsGo == (reader \in {"reading", "sending"} /\ (sock = "shut" \/ host = "gone")) ~> (reader = "ended")
LeaveReachesHost == pc = "idle" /\ note = "ended" => sock \in {"shut", "closed"}

(* An end anywhere is passed on to the threads and to the connection.      *)
EndPassedOn == DeadRoomDropped /\ ReaderLetsGo /\ []LeaveReachesHost

(* When the bridge has ended, so does the session it opened on the host:   *)
(* not when the WebSocket failed, for the reader has the connection still. *)
HostReleased == (pc = "idle" /\ host \in {"greeting", "talking"}) ~> (host = "gone")
=============================================================================

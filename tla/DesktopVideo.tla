------------------------------ MODULE DesktopVideo ------------------------------
(***************************************************************************)
(* A picture's way from the command-line host (crates/host/src/main.rs) to *)
(* the desktop client's window (client/src/main.rs).  The host serves one  *)
(* client at a time, from a virtual display it keeps between clients or    *)
(* from its own screen; a capture callback encodes into a bounded channel, *)
(* stream_to_client writes the channel to the socket, and the client       *)
(* decodes into one shared frame, which the window draws.  A frame that is *)
(* not a keyframe means something only after the frame it was coded from.  *)
(***************************************************************************)
EXTENDS Integers, Sequences

CONSTANTS
  Sizes,       \* panel sizes of clients, and of the command line
  Implausible, \* those of them read_hello refuses
  MaxDisplays, \* virtual displays made over a run
  MaxFrames,   \* frames captured in a session
  Gop,         \* a keyframe comes every Gop frames at the latest
  Capacity,    \* sync_channel(2)
  MaxBuffered  \* messages in the socket

None == 0
Primary == -1
New == -2              \* a decoder that has decoded nothing

VARIABLES
  forced,      \* the size of the command line, or None
  slot,        \* the host's Option<Display>: [id, size]; an id of None is none
  shim,        \* g_display: the display the shim retains
  registered,  \* the window server has it
  stage,       \* "listening", "chosen", "serving", "barrier" or "joining"
  want, target,  \* the size this client is given; the display captured
  encoded, last_key, last_coded,  \* frames so far; the last keyframe; the last coded
  callback, channel,  \* a frame whose callback is in tx.send; the channel
  begun,       \* stream_to_client: started
  socket, here,  \* messages to the client, and whether it is there
  decoder,     \* None, New, or the last frame it decoded
  garbled,     \* it was given a frame coded from another than the last
  shared, texture  \* the frame to draw, and the frame drawn

display == <<forced, slot, shim, registered, want, target>>
pipe == <<encoded, last_key, last_coded, callback, channel, begun>>
viewer == <<decoder, garbled, shared, texture>>
picture == <<display, stage, pipe, socket, here, viewer>>

NoPipe ==
  /\ encoded' = 0 /\ last_key' = 0 /\ last_coded' = 0
  /\ callback' = <<>> /\ channel' = <<>> /\ begun' = FALSE
NoViewer == decoder' = None /\ garbled' = FALSE /\ shared' = None /\ texture' = None

PictureInit ==
  /\ forced \in {None} \cup Sizes
  /\ slot = [id |-> None, size |-> None] /\ shim = None /\ registered = FALSE
  /\ stage = "listening" /\ want = None /\ target = None
  /\ encoded = 0 /\ last_key = 0 /\ last_coded = 0 /\ callback = <<>> /\ channel = <<>>
  /\ begun = FALSE /\ socket = <<>> /\ here = FALSE
  /\ decoder = None /\ garbled = FALSE /\ shared = None /\ texture = None

-----------------------------------------------------------------------------
(* The host: one client after another                                      *)

\* A client whose handshake and hello are good; from one that asks an
\* implausible size, or says nothing of the kind, the host goes back to
\* listening.  Control only is served with no video.
read_hello ==
  /\ stage = "listening"
  /\ \E w \in Sizes \ Implausible :
       /\ want' = IF forced = None THEN w ELSE forced
       /\ \/ stage' = "chosen" /\ UNCHANGED target
          \/ stage' = "joining" /\ target' = None
          \/ stage' = "serving" /\ target' = Primary
  /\ here' = TRUE /\ socket' = <<>> /\ NoPipe /\ NoViewer
  /\ UNCHANGED <<forced, slot, shim, registered>>

\* A display of the size is kept; else one is made, which the system may
\* refuse, or may not turn on in time.  The shim has let go of the old one by
\* then, and the slot has not.
ensure_display ==
  /\ stage = "chosen"
  /\ \/ /\ slot.id # None /\ slot.size = want
        /\ target' = slot.id /\ stage' = "serving" /\ UNCHANGED <<slot, shim, registered>>
     \/ /\ slot.id = None \/ slot.size # want
        /\ \/ stage' = "listening" /\ UNCHANGED <<slot, shim, registered, target>>
           \/ /\ shim < MaxDisplays /\ shim' = shim + 1
              /\ registered' \in BOOLEAN
              /\ IF registered'
                 THEN /\ slot' = [id |-> shim', size |-> want] /\ target' = shim'
                      /\ stage' = "serving"
                 ELSE stage' = "listening" /\ UNCHANGED <<slot, target>>
  /\ UNCHANGED <<forced, want, pipe, socket, here, viewer>>

\* Too late for wait_for_display.
TurnsOn ==
  /\ shim # None /\ ~registered /\ registered' = TRUE
  /\ UNCHANGED <<forced, slot, shim, stage, want, target, pipe, socket, here, viewer>>

\* serve looks the display up, and fails if it is not there, if there is no
\* encoder, or if the capture is refused.
Refused ==
  /\ stage = "serving" /\ encoded = 0 /\ stage' = "listening" /\ here' = FALSE
  /\ UNCHANGED <<display, pipe, socket, viewer>>

Captures == stage \in {"serving", "barrier"} /\ (target = Primary \/ (target = shim /\ registered))

-----------------------------------------------------------------------------
(* From the screen to the socket                                           *)

\* Callbacks come one at a time.  One whose frame failed to encode sends
\* nothing; an encoder may drop a frame, which is sent empty and codes nothing.
capture_and_encode ==
  /\ Captures /\ encoded < MaxFrames /\ callback = <<>>
  /\ encoded' = encoded + 1
  /\ LET Coded(key) ==
           /\ callback' = <<[n |-> encoded', key |-> key, from |-> last_coded]>>
           /\ last_coded' = encoded' /\ last_key' = IF key THEN encoded' ELSE last_key
     IN \/ Coded(TRUE)
        \/ encoded' - last_key < Gop /\ last_key # 0 /\ Coded(FALSE)
        \/ callback' = <<[n |-> 0]>> /\ UNCHANGED <<last_coded, last_key>>
        \/ UNCHANGED <<callback, last_coded, last_key>>
  /\ UNCHANGED <<display, stage, channel, begun, socket, here, viewer>>

\* Mutant: try_send, which drops the frame when the channel is full.
send_Tries ==
  /\ callback # <<>> /\ callback' = <<>>
  /\ channel' = IF Len(channel) < Capacity THEN channel \o callback ELSE channel
  /\ UNCHANGED <<display, stage, encoded, last_key, last_coded, begun, socket, here, viewer>>

\* tx.send waits while the channel is full.
send ==
  /\ callback # <<>> /\ Len(channel) < Capacity
  /\ channel' = channel \o callback /\ callback' = <<>>
  /\ UNCHANGED <<display, stage, encoded, last_key, last_coded, begun, socket, here, viewer>>

\* A frame of the channel: nothing is written before the first keyframe, and
\* its parameter sets go before it.  Writing to a client that has gone ends the
\* stream, and so does a keyframe without parameter sets.
stream_to_client ==
  /\ stage = "serving" /\ channel # <<>> /\ Len(socket) + 1 < MaxBuffered
  /\ channel' = Tail(channel)
  /\ LET f == Head(channel)
         Frame == [start |-> FALSE, f |-> f]
         Start == [start |-> TRUE]
     IN IF f.n = 0 \/ (~begun /\ ~f.key) THEN UNCHANGED <<stage, begun, socket>>
        ELSE \/ /\ here /\ begun' = TRUE /\ UNCHANGED stage
                /\ socket' = socket \o (IF begun THEN <<Frame>> ELSE <<Start, Frame>>)
             \/ /\ ~here \/ ~begun
                /\ stage' = "barrier" /\ UNCHANGED <<begun, socket>>
  /\ UNCHANGED <<display, encoded, last_key, last_coded, callback, here, viewer>>

\* The barrier is behind the callback, and so waits for ever for one that waits
\* for room in a channel nobody reads any more.
dispatch_async_and_wait ==
  /\ stage = "barrier" /\ callback = <<>> /\ stage' = "joining"
  /\ UNCHANGED <<display, pipe, socket, here, viewer>>

\* The input thread ends with the connection, or on an input it cannot read.
join ==
  /\ stage = "joining" /\ stage' = "listening" /\ NoPipe
  /\ here' = FALSE /\ socket' = <<>> /\ NoViewer
  /\ UNCHANGED display

-----------------------------------------------------------------------------
(* From the socket to the window                                           *)

leaves ==
  /\ here /\ here' = FALSE /\ socket' = <<>> /\ NoViewer
  /\ UNCHANGED <<display, stage, pipe>>

\* The decoder gives a picture, wants more before it does, or fails.  A frame
\* before the stream's start is an error.
decodes ==
  /\ here /\ socket # <<>> /\ socket' = Tail(socket)
  /\ LET m == Head(socket)
     IN \/ m.start /\ decoder' = New /\ UNCHANGED <<garbled, shared>>
        \/ /\ ~m.start /\ decoder' = m.f.n
           /\ garbled' = (decoder = None \/ (~m.f.key /\ (garbled \/ decoder # m.f.from)))
           /\ shared' \in {m.f.n, shared}
  /\ UNCHANGED <<display, stage, pipe, here, texture>>

\* The window takes the shared frame, if there is one, and draws the texture.
render ==
  /\ shared # None /\ texture' = shared /\ shared' = None
  /\ UNCHANGED <<display, stage, pipe, socket, here, decoder, garbled>>

PictureNext ==
  \/ read_hello \/ ensure_display \/ TurnsOn \/ Refused
  \/ capture_and_encode \/ send \/ stream_to_client \/ dispatch_async_and_wait \/ join
  \/ leaves \/ decodes \/ render

-----------------------------------------------------------------------------
\* What the window shows is whole and in order: no frame is decoded without
\* the one it was coded from ("we can't drop *encoded* frames mid-GOP without
\* breaking H.264 continuity", host/src/main.rs:316), none goes back in time,
\* and all of them are of the display of the size the client was given.
PictureWhole ==
  /\ ~garbled
  /\ shared # None => (texture < shared /\ shared <= decoder)
  /\ texture <= encoded
  /\ (encoded > 0 /\ target \notin {None, Primary}) => slot = [id |-> target, size |-> want]
=============================================================================

------------------------------ MODULE VideoSession ------------------------------
(***************************************************************************)
(* Video sessions of the macOS host and the virtual displays they show     *)
(* (host-macos/src/host.rs, host-macos/shim/virtual_display.m).  A serving *)
(* loop gets or makes a display, captures it into a bounded channel from a *)
(* serial queue of callbacks, writes the channel to the client, and reads  *)
(* the client's input on another thread; the end takes all of that down.   *)
(* The displays outlive the session and are listed in a registry the       *)
(* window shows, renames and removes from.  A loop that was stopped goes   *)
(* on serving the session it is in, so two loops may share the registry.   *)
(***************************************************************************)
EXTENDS Integers, FiniteSets

CONSTANTS
  Loops,      \* serving loops of the process
  Asks,       \* what a client asks: records [size, name]
  Names,      \* friendly names the user may type
  None,       \* no friendly name, no display
  MaxIds,     \* virtual displays made over a run
  MaxQueued,  \* callbacks on the capture queue at a time
  Capacity    \* encoded frames in the channel: sync_channel(2)

ASSUME VideoAssumption ==
  /\ MaxIds \in Nat /\ MaxQueued \in Nat \ {0} /\ Capacity \in Nat \ {0}
  /\ None \notin Names /\ None \notin 0..MaxIds

VARIABLES
  held, active,  \* displays the shim retains; those the window server has on
  entries,       \* VDisplays.entries: records [id, size, name]
  friendly,      \* VDisplays.friendly_name
  removing,      \* the display remove_display destroyed and has not unlisted yet
  made,          \* displays created so far
  lost,          \* those given up on by wait_for_display
  unseen,        \* those unlisted because an answer of the window server left them out
  s              \* per loop, the session it is in

window == <<entries, friendly, removing>>
strays == <<lost, unseen>>
vars == <<held, active, window, made, strays, s>>

Ids == 1..MaxIds
Primary == 0            \* the Mac's own display

\* What a loop with no session holds.
Idle == [at |-> "free", mode |-> "none", want |-> None, seen |-> {}, id |-> None,
         client |-> "gone", input |-> FALSE, dead |-> FALSE, queued |-> 0,
         sending |-> FALSE, chan |-> 0, writing |-> FALSE]

On(id) == id = Primary \/ id \in active
Streaming(l) == s[l].at = "stream"
Capturing(l) == s[l].at \in {"stream", "stopped"}

TypeOK ==
  /\ active \subseteq held /\ held \subseteq 1..made /\ lost \cup unseen \subseteq held /\ made \in 0..MaxIds
  /\ entries \subseteq [id : Ids, size : {q.size : q \in Asks}, name : {q.name : q \in Asks} \cup Names]
  /\ friendly \in Names \cup {None} /\ removing \in Ids \cup {None}
  /\ \A l \in Loops :
       /\ s[l].at \in {"free", "named", "seen", "create", "wait", "find", "start",
                       "stream", "stopped", "barrier", "join", "control"}
       /\ s[l].id \in Ids \cup {Primary, None} /\ s[l].client \in {"here", "gone"}
       /\ s[l].queued \in 0..MaxQueued /\ s[l].chan \in 0..Capacity

Init ==
  /\ held = {} /\ active = {} /\ entries = {} /\ friendly = None /\ removing = None
  /\ made = 0 /\ lost = {} /\ unseen = {} /\ s = [l \in Loops |-> Idle]

----------------------------------------------------------------------------
(* The registry: ensure_display and what the window does to it.            *)

Goes(l, at) == s' = [s EXCEPT ![l].at = at]

\* A session that ends: what it owned is dropped, the loop accepts again.
Ends(l) == s' = [s EXCEPT ![l] = Idle]

resolved_name(device) == IF friendly = None THEN device ELSE friendly

\* serve_session: the loop's client has said what it wants to see.
serve_session(l) ==
  /\ s[l].at = "free"
  /\ \/ \E q \in Asks : s' = [s EXCEPT ![l] = [Idle EXCEPT
          !.at = "named", !.mode = "extend", !.client = "here",
          !.want = [size |-> q.size, name |-> resolved_name(q.name)]]]
     \/ s' = [s EXCEPT ![l] = [Idle EXCEPT
          !.at = "find", !.mode = "mirror", !.client = "here", !.id = Primary]]
     \/ s' = [s EXCEPT ![l] = [Idle EXCEPT
          !.at = "control", !.mode = "control", !.client = "here", !.id = Primary]]
  /\ UNCHANGED <<held, active, window, made, strays>>

\* ensure_display asks the window server what is on, before it takes the lock.  The
\* answer leaves out a display that sleeps or mirrors; an error is an empty one.
active_displays(l) ==
  /\ s[l].at = "named"
  /\ \E answer \in {active, {}} : s' = [s EXCEPT ![l].at = "seen", ![l].seen = answer]
  /\ UNCHANGED <<held, active, window, made, strays>>

Listed(ids) == {d \in entries : d.id \in ids}
Matches(d, want) == d.size = want.size /\ d.name = want.name
Drops(l) == unseen' = unseen \cup {d.id : d \in Listed(held \ s[l].seen)}

\* Mutant: what no longer matches is unlisted and not destroyed.
ensure_display_Keeps(l) ==
  LET fits == {d \in Listed(s[l].seen) : Matches(d, s[l].want)}
  IN /\ s[l].at = "seen"
     /\ Drops(l)
     /\ \/ /\ \E d \in fits : s' = [s EXCEPT ![l].at = "find", ![l].id = d.id, ![l].seen = {}]
           /\ entries' = Listed(s[l].seen)
        \/ fits = {} /\ entries' = {} /\ s' = [s EXCEPT ![l].at = "create", ![l].seen = {}]
     /\ UNCHANGED <<held, active, friendly, removing, made, lost>>

\* Under the lock: unlist what the answer leaves out, though the shim may retain it;
\* reuse a match, else destroy the rest.
ensure_display(l) ==
  LET fits == {d \in Listed(s[l].seen) : Matches(d, s[l].want)}
      stale == {d.id : d \in Listed(s[l].seen)}
  IN /\ s[l].at = "seen"
     /\ Drops(l)
     /\ \/ /\ \E d \in fits : s' = [s EXCEPT ![l].at = "find", ![l].id = d.id, ![l].seen = {}]
           /\ entries' = Listed(s[l].seen)
           /\ UNCHANGED <<held, active>>
        \/ /\ fits = {}
           /\ held' = held \ stale /\ active' = active \ stale
           /\ entries' = {}
           /\ s' = [s EXCEPT ![l].at = "create", ![l].seen = {}]
     /\ UNCHANGED <<friendly, removing, made, lost>>

\* The display is made without the lock; the system may refuse it.
create_display(l) ==
  /\ s[l].at = "create"
  /\ \/ /\ made < MaxIds
        /\ made' = made + 1 /\ held' = held \cup {made + 1}
        /\ s' = [s EXCEPT ![l].at = "wait", ![l].id = made + 1]
     \/ Ends(l) /\ UNCHANGED <<made, held>>
  /\ UNCHANGED <<active, window, strays>>

\* The window server turns on a display it was given, sooner or later; one may go to
\* sleep, or be set to mirror another, and come back.
Appears ==
  /\ \E d \in held \ active : active' = active \cup {d}
  /\ UNCHANGED <<held, window, made, strays, s>>

Sleeps ==
  /\ \E d \in active : active' = active \ {d}
  /\ UNCHANGED <<held, window, made, strays, s>>

\* It came: it is listed under the lock.  Fifty looks in vain, or fifty errors: the
\* session fails, and nothing releases the display.
wait_for_display(l) ==
  /\ s[l].at = "wait"
  /\ \/ /\ s[l].id \in active
        /\ entries' = entries \cup {[id |-> s[l].id, size |-> s[l].want.size, name |-> s[l].want.name]}
        /\ Goes(l, "find") /\ UNCHANGED lost
     \/ lost' = lost \cup {s[l].id} /\ Ends(l) /\ UNCHANGED entries
  /\ UNCHANGED <<held, active, friendly, removing, made, unseen>>

\* "Remove" in the window: the display is destroyed first, then unlisted.
remove_display ==
  /\ removing = None
  /\ \E d \in entries :
       /\ removing' = d.id
       /\ held' = held \ {d.id} /\ active' = active \ {d.id}
  /\ UNCHANGED <<entries, friendly, made, strays, s>>

Unlists ==
  /\ removing # None
  /\ entries' = {d \in entries : d.id # removing} /\ removing' = None
  /\ UNCHANGED <<held, active, friendly, made, strays, s>>

set_friendly_name ==
  /\ \E n \in Names \cup {None} : n # friendly /\ friendly' = n
  /\ UNCHANGED <<held, active, entries, removing, made, strays, s>>

Registry(l) == active_displays(l) \/ ensure_display(l) \/ create_display(l) \/ wait_for_display(l)

----------------------------------------------------------------------------
(* A session with video: serve_video, its callbacks and its input thread.  *)

\* serve_video looks its display up; with it, channel, capture queue and input
\* thread are made.
serve_video(l) ==
  /\ s[l].at = "find"
  /\ \/ On(s[l].id) /\ s' = [s EXCEPT ![l].at = "start", ![l].input = TRUE]
     \/ Ends(l)            \* not in the shareable content, or no encoder
  /\ UNCHANGED <<held, active, window, made, strays>>

\* The capture begins or is refused; refused, the function returns at once.  Its
\* input thread, which nobody waits for then, is not followed any further.
start_capture(l) ==
  /\ s[l].at = "start"
  /\ Goes(l, "stream") \/ Ends(l)
  /\ UNCHANGED <<held, active, window, made, strays>>

\* ScreenCaptureKit queues a callback for a sample; one may still come after the
\* stop was asked, ahead of the barrier.
Sample(l) ==
  /\ Capturing(l) /\ ~s[l].dead /\ s[l].queued < MaxQueued /\ On(s[l].id)
  /\ s' = [s EXCEPT ![l].queued = @ + 1]
  /\ UNCHANGED <<held, active, window, made, strays>>

\* The callback at the head of the queue encodes its sample, or cannot; a frame
\* waits in the callback while the channel is full.
capture_and_encode(l) ==
  /\ s[l].queued > 0
  /\ \/ ~s[l].sending /\ s' = [s EXCEPT ![l].sending = TRUE]
     \/ ~s[l].sending /\ s' = [s EXCEPT ![l].queued = @ - 1]
     \/ /\ s[l].sending /\ s[l].chan < Capacity
        /\ s' = [s EXCEPT ![l].sending = FALSE, ![l].queued = @ - 1, ![l].chan = @ + 1]
  /\ UNCHANGED <<held, active, window, made, strays>>

\* The capture stops by itself: its display is gone, or ScreenCaptureKit failed.
CaptureDies(l) ==
  /\ Capturing(l) /\ ~s[l].dead
  /\ s' = [s EXCEPT ![l].dead = TRUE]
  /\ UNCHANGED <<held, active, window, made, strays>>

\* stream_to_client takes a frame; one the stream cannot begin with is skipped, or
\* ends it.
Takes(l) ==
  /\ Streaming(l) /\ ~s[l].writing /\ s[l].chan > 0
  /\ \/ s' = [s EXCEPT ![l].chan = @ - 1, ![l].writing = TRUE]
     \/ s' = [s EXCEPT ![l].chan = @ - 1]
     \/ s' = [s EXCEPT ![l].chan = @ - 1, ![l].at = "stopped"]
  /\ UNCHANGED <<held, active, window, made, strays>>

\* The frame is written if the client reads it; to a client that left, it fails.
\* There is no timeout: a client that stays and does not read holds the thread.
Writes(l) ==
  /\ Streaming(l) /\ s[l].writing
  /\ s' = [s EXCEPT ![l].writing = FALSE, ![l].at = IF s[l].client = "here" THEN @ ELSE "stopped"]
  /\ UNCHANGED <<held, active, window, made, strays>>

\* Mutant: a plain recv(), as in the command-line host, which looks at no flag.
recv_timeout_Blocks(l) == FALSE /\ UNCHANGED vars

\* Half a second without a frame: a capture that died ends the stream.
recv_timeout(l) ==
  /\ Streaming(l) /\ ~s[l].writing /\ s[l].chan = 0 /\ s[l].dead
  /\ Goes(l, "stopped")
  /\ UNCHANGED <<held, active, window, made, strays>>

stream_to_client(l) == Takes(l) \/ Writes(l) \/ recv_timeout(l)

\* stop_capture, and the empty block put on the capture queue behind what is there.
stop_capture(l) ==
  /\ s[l].at = "stopped"
  /\ Goes(l, "barrier")
  /\ UNCHANGED <<held, active, window, made, strays>>

\* Mutant: no barrier.
dispatch_async_and_wait_Skips(l) ==
  /\ s[l].at = "barrier"
  /\ Goes(l, "join")
  /\ UNCHANGED <<held, active, window, made, strays>>

\* The barrier has run when no callback is left before it.
dispatch_async_and_wait(l) ==
  /\ s[l].at = "barrier" /\ s[l].queued = 0
  /\ Goes(l, "join")
  /\ UNCHANGED <<held, active, window, made, strays>>

\* input_thread.join, and everything is dropped: the receiver, the sender that the
\* callbacks' closure owns, the encoder.
join(l) ==
  /\ s[l].at = "join" /\ ~s[l].input
  /\ s' = [s EXCEPT ![l] = [Idle EXCEPT !.queued = s[l].queued]]
  /\ UNCHANGED <<held, active, window, made, strays>>

\* receive_and_inject ends when the client is gone, or sends what does not decode.
receive_and_inject(l) ==
  /\ \/ s[l].input /\ s' = [s EXCEPT ![l].input = FALSE]
     \/ s[l].at = "control" /\ Ends(l)
  /\ UNCHANGED <<held, active, window, made, strays>>

Leaves(l) ==
  /\ s[l].client = "here" /\ s[l].at # "free"
  /\ s' = [s EXCEPT ![l].client = "gone"]
  /\ UNCHANGED <<held, active, window, made, strays>>

Teardown(l) == stop_capture(l) \/ dispatch_async_and_wait(l) \/ join(l)

Next ==
  \/ \E l \in Loops :
       \/ serve_session(l) \/ Registry(l) \/ serve_video(l) \/ start_capture(l)
       \/ Sample(l) \/ capture_and_encode(l) \/ CaptureDies(l)
       \/ stream_to_client(l) \/ Teardown(l) \/ receive_and_inject(l) \/ Leaves(l)
  \/ Appears \/ Sleeps \/ remove_display \/ Unlists \/ set_friendly_name

Spec == Init /\ [][Next]_vars

(* The host's threads are fair, and a write to a client that left fails.    *)
(* The user, the client and the system are not: nobody need read a frame.   *)
FairSpec ==
  /\ Spec
  /\ \A l \in Loops :
       /\ WF_vars(Registry(l)) /\ WF_vars(serve_video(l)) /\ WF_vars(start_capture(l))
       /\ WF_vars(capture_and_encode(l)) /\ WF_vars(Takes(l) \/ recv_timeout(l)) /\ WF_vars(Teardown(l))
       /\ WF_vars(s[l].client = "gone" /\ (Writes(l) \/ receive_and_inject(l)))

----------------------------------------------------------------------------
(* What the sessions promise.                                              *)

\* The displays a loop has created and not listed yet.
Underway == {s[l].id : l \in {k \in Loops : s[k].at = "wait"}}

(* "Keeps the shared VDisplays registry in sync so the GUI list is         *)
(* accurate" (host.rs:380), as far as it is: whatever loops and window do   *)
(* while the lock is let go, a display the shim retains is listed, about to *)
(* be, given up on, or left out of an answer; and what is listed exists,    *)
(* but for the one the window is removing.                                  *)
RegistryTrue ==
  /\ \A d \in held : d \in {e.id : e \in entries} \cup Underway \cup lost \cup unseen
  /\ \A e \in entries : e.id \in held \cup {removing}

(* All of it, which a display that sleeps, or an error, is enough to break. *)
ListAccurate == held \subseteq {e.id : e \in entries} \cup Underway

(* A client that is connected and does not read what is written to it.      *)
HeldUp(l) == s[l].writing /\ s[l].client = "here"

(* When the display under a session is removed and its capture ends, or the *)
(* capture fails, the stream ends too, whatever is in the channel; unless   *)
(* the client holds it up.                                                  *)
DeadEndsStream == \A l \in Loops : (Streaming(l) /\ s[l].dead) ~> (~Streaming(l) \/ HeldUp(l))

(* Nothing runs on the capture queue once the session's channel and        *)
(* closure are dropped (the use after free of the comment at 203-207).     *)
NoLateCallback == \A l \in Loops : s[l].at = "free" => s[l].queued = 0

(* "So the session ends and the accept loop is free to serve the next      *)
(* client" (host.rs:477-479): if the capture died and the client is gone   *)
(* too, nothing is left to wait for.                                       *)
AcceptLoopFreed ==
  \A l \in Loops : (Streaming(l) /\ s[l].dead /\ s[l].client = "gone") ~> s[l].at = "free"
=============================================================================

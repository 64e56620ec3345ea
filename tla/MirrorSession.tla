----------------------------- MODULE MirrorSession -----------------------------
(***************************************************************************)
(* Mirroring, or extending onto, a client's screen: serve_mirror (host-    *)
(* linux and host-windows/src/main.rs), the stream thread (their stream.rs)*)
(* and the second screen it adds to an X desktop (host-linux/src/          *)
(* vdisplay.rs).                                                           *)
(*                                                                         *)
(* A session is two threads: one injects the client's input until its read *)
(* fails, the other captures, encodes and writes until it is told to stop. *)
(* The desktop belongs to the X server, and its user changes it too; each  *)
(* request to the server is a step.  A window can have the loops of several*)
(* starts, each in a session (HostLifecycle).                              *)
(***************************************************************************)
EXTENDS Integers, FiniteSets

CONSTANTS
  Loops,        \* accept loops that may be in a session at once
  Desktops,     \* the sizes a user may give the desktop, [w, h]
  Panels,       \* the sizes clients ask for
  MIN_SIDE, MAX_SIDE,  \* of a plausible second screen
  MAX_ROOT,     \* the largest framebuffer
  MAX_MISSES,   \* MAX_CONSECUTIVE_GRAB_FAILURES
  None, Leftover  \* no monitor; one whose host was killed

ASSUME MirrorAssumption ==
  /\ Desktops \cup Panels \subseteq [w : Nat \ {0}, h : Nat \ {0}]
  /\ Desktops # {}
  /\ MAX_MISSES \in Nat \ {0}
  /\ None # Leftover /\ {None, Leftover} \cap Loops = {}

VARIABLES
  linux,     \* the Linux host, or else the Windows one
  x,         \* the X server: "up" or "down"; on Windows the desktop, always up
  size,      \* of the root window
  monitor,   \* whose monitor "Universal-Screens" is
  peer,      \* per loop: its client, "reading", "deaf" (here, but not reading) or "gone"
  input,     \* per loop: "accept", "reading" input, or "joining" the stream thread
  stop,      \* per loop: the stream thread's flag
  worker,    \* per loop: the stream thread
  chosen,    \* history: the size the user last chose
  undone     \* history: that choice fell into a call that changes the size, the host was
             \* killed with a size of its own in place, or the server kept that size

vars == <<linux, x, size, monitor, peer, input, stop, worker, chosen, undone>>

desktop == <<linux, x, size, monitor, chosen, undone>>
sockets == <<peer, input, stop>>

Even(n) == n - (n % 2)
EvenSize(s) == [w |-> Even(s.w), h |-> Even(s.h)]
Least(a, b) == IF a < b THEN a ELSE b
Most(a, b) == IF a > b THEN a ELSE b

(* The stream thread: where it is; what the client asked for; the desktop  *)
(* before it grew it and after; whether it has a second screen, the part   *)
(* of the desktop that is; the picture it announced; failed grabs in a row.*)
NoSize == [w |-> 0, h |-> 0]
NoArea == [x |-> 0, w |-> 0, h |-> 0]
NoWorker == [at |-> "none", second |-> FALSE, want |-> NoSize, prev |-> NoSize, grown |-> NoSize,
             screen |-> FALSE, area |-> NoArea, src |-> NoSize, misses |-> 0]

At(l, place) == worker' = [worker EXCEPT ![l].at = place]

(* Region::clip_to, and what a grab of the worker's area returns.          *)
Clip(r, s) ==
  LET w == Least(r.x + r.w, s.w) - r.x
      h == Least(r.h, s.h)
  IN  IF w <= 0 \/ h <= 0 THEN NoSize ELSE [w |-> w, h |-> h]

Grab(l) ==
  LET k == worker[l]
  IN  CASE k.area = NoArea     -> size
        [] k.area # NoArea /\ linux -> Clip(k.area, size)
        [] OTHER               -> [w |-> k.area.w, h |-> k.area.h]

Pictured(l) == x = "up" /\ Grab(l) # NoSize

-----------------------------------------------------------------------------
(* serve_mirror.                                                           *)

Serve(l) ==
  /\ input[l] = "accept"
  /\ input' = [input EXCEPT ![l] = "reading"]
  /\ peer' = [peer EXCEPT ![l] = "reading"]
  /\ stop' = [stop EXCEPT ![l] = FALSE]
  /\ \E second \in BOOLEAN, want \in Panels :
       worker' = [worker EXCEPT ![l] = [NoWorker EXCEPT !.at = "create", !.second = second,
                                                       !.want = want]]
  /\ UNCHANGED desktop

(* Mutant: the flag is forgotten, and the thread just joined.              *)
InputEnds_Unstopped(l) ==
  /\ input[l] = "reading"
  /\ input' = [input EXCEPT ![l] = "joining"]
  /\ UNCHANGED <<desktop, peer, stop, worker>>

(* The client has left, or what it sent cannot be read.                    *)
InputEnds(l) ==
  /\ input[l] = "reading"
  /\ input' = [input EXCEPT ![l] = "joining"]
  /\ stop' = [stop EXCEPT ![l] = TRUE]
  /\ UNCHANGED <<desktop, peer, worker>>

(* join, and the connection is dropped.                                    *)
Joined(l) ==
  /\ input[l] = "joining"
  /\ worker[l].at = "over"
  /\ input' = [input EXCEPT ![l] = "accept"]
  /\ peer' = [peer EXCEPT ![l] = "gone"]
  /\ worker' = [worker EXCEPT ![l] = NoWorker]
  /\ UNCHANGED <<desktop, stop>>

Input(l) == (peer[l] = "gone" /\ InputEnds(l)) \/ Joined(l)

-----------------------------------------------------------------------------
(* VirtualScreen::create, one request at a time.  Whatever fails, the      *)
(* primary display is mirrored instead.                                    *)

Mirror(l) == At(l, "grab")

Plausible(s) == s.w \in MIN_SIDE..MAX_SIDE /\ s.h \in MIN_SIDE..MAX_SIDE

grown_size(s, want) == [w |-> s.w + want.w, h |-> Most(s.h, want.h)]

(* Windows extends onto a second monitor if there is one (capture_region). *)
Windows(l) ==
  /\ worker[l].at = "create" /\ ~linux
  /\ \/ Mirror(l)
     \/ /\ worker[l].second
        /\ worker' = [worker EXCEPT ![l].at = "grab",
                        ![l].area = [x |-> 0, w |-> worker[l].want.w, h |-> worker[l].want.h]]
  /\ UNCHANGED <<desktop, sockets>>

(* Mutant: the framebuffer's limit is not asked for.                       *)
Measure_Unbounded(l) ==
  LET k == worker[l]
      want == EvenSize(k.want)
  IN  /\ k.at = "create" /\ linux
      /\ IF k.second /\ Plausible(k.want) /\ x = "up"
         THEN worker' = [worker EXCEPT ![l].at = "delete", ![l].prev = size,
                                       ![l].grown = grown_size(size, want), ![l].want = want]
         ELSE Mirror(l)
      /\ UNCHANGED <<desktop, sockets>>

Measure(l) ==
  LET k == worker[l]
      want == EvenSize(k.want)
      grown == grown_size(size, want)
  IN  /\ k.at = "create" /\ linux
      /\ IF k.second /\ Plausible(k.want) /\ x = "up" /\ grown.w <= MAX_ROOT /\ grown.h <= MAX_ROOT
         THEN worker' = [worker EXCEPT ![l].at = "delete", ![l].prev = size, ![l].grown = grown,
                                       ![l].want = want]
         ELSE Mirror(l)
      /\ UNCHANGED <<desktop, sockets>>

(* A monitor left by a killed host is replaced.                            *)
DeleteOld(l) ==
  /\ worker[l].at = "delete"
  /\ monitor' = None
  /\ At(l, "grow")
  /\ UNCHANGED <<linux, x, size, chosen, undone, sockets>>

(* set_size, which an X server may refuse.                                 *)
Grow(l) ==
  /\ worker[l].at = "grow"
  /\ \/ x = "up" /\ size' = worker[l].grown /\ At(l, "declare")
     \/ size' = size /\ Mirror(l)
  /\ UNCHANGED <<linux, x, monitor, chosen, undone, sockets>>

Declare(l) ==
  /\ worker[l].at = "declare"
  /\ \/ x = "up" /\ monitor' = l /\ At(l, "list")
     \/ monitor' = monitor /\ At(l, "rollback")
  /\ UNCHANGED <<linux, x, size, chosen, undone, sockets>>

(* It must be on the server's list, or it is all taken back.               *)
List(l) ==
  /\ worker[l].at = "list"
  /\ \/ /\ monitor = l
        /\ worker' = [worker EXCEPT ![l].at = "grab", ![l].screen = TRUE,
                        ![l].area = [x |-> worker[l].prev.w, w |-> worker[l].want.w,
                                     h |-> worker[l].want.h]]
     \/ At(l, "unlist")
  /\ UNCHANGED <<desktop, sockets>>

(* Mutant: what is not listed is taken for gone.                           *)
Unlist_Trusting(l) ==
  /\ worker[l].at = "unlist"
  /\ At(l, "rollback")
  /\ UNCHANGED <<desktop, sockets>>

Unlist(l) ==
  /\ worker[l].at = "unlist"
  /\ monitor' = None
  /\ At(l, "rollback")
  /\ UNCHANGED <<linux, x, size, chosen, undone, sockets>>

(* Mutant: the error is returned at once.                                  *)
Rollback_Skipped(l) ==
  /\ worker[l].at = "rollback"
  /\ Mirror(l)
  /\ UNCHANGED <<desktop, sockets>>

(* set_size back to what it was, whose refusal nobody hears.               *)
Restores(l) ==
  /\ \/ size' = worker[l].prev /\ UNCHANGED undone
     \/ undone' = TRUE /\ UNCHANGED size
  /\ UNCHANGED <<linux, x, monitor, chosen, sockets>>

Rollback(l) ==
  /\ worker[l].at = "rollback"
  /\ Restores(l)
  /\ Mirror(l)

Creating(l) == Windows(l) \/ Measure(l) \/ DeleteOld(l) \/ Grow(l) \/ Declare(l) \/ List(l)
               \/ Unlist(l) \/ Rollback(l)

-----------------------------------------------------------------------------
(* run_inner.                                                              *)

(* The first grab, which settles the picture's size.                       *)
FirstGrab(l) ==
  /\ worker[l].at = "grab"
  /\ \/ At(l, "remove")
     \/ /\ x = "up"
        /\ EvenSize(Grab(l)).w # 0 /\ EvenSize(Grab(l)).h # 0
        /\ worker' = [worker EXCEPT ![l].at = "stream", ![l].src = EvenSize(Grab(l))]
  /\ UNCHANGED <<desktop, sockets>>

(* Mutant: the flag is looked at only when there is a picture to send.     *)
Stopped_AfterGrab(l) ==
  /\ worker[l].at = "stream"
  /\ stop[l] /\ Pictured(l)
  /\ At(l, "remove")
  /\ UNCHANGED <<desktop, sockets>>

(* The flag is read once per frame.                                        *)
Stopped(l) ==
  /\ worker[l].at = "stream"
  /\ stop[l]
  /\ At(l, "remove")
  /\ UNCHANGED <<desktop, sockets>>

(* Mutant: a grab that fails is tried again for ever, as on Windows.       *)
GrabFails_Forever(l) ==
  /\ worker[l].at = "stream" /\ ~stop[l]
  /\ worker' = [worker EXCEPT ![l].misses = Least(worker[l].misses + 1, MAX_MISSES - 1)]
  /\ UNCHANGED <<desktop, sockets>>

(* A grab may fail at any time; Linux gives up after so many in a row.     *)
GrabFails(l) ==
  /\ worker[l].at = "stream" /\ ~stop[l]
  /\ IF linux
     THEN IF worker[l].misses + 1 >= MAX_MISSES THEN At(l, "remove")
          ELSE worker' = [worker EXCEPT ![l].misses = worker[l].misses + 1]
     ELSE UNCHANGED worker
  /\ UNCHANGED <<desktop, sockets>>

(* A picture of another size ends the stream, ...                          *)
Resized(l) ==
  /\ worker[l].at = "stream" /\ ~stop[l]
  /\ Pictured(l) /\ EvenSize(Grab(l)) # worker[l].src
  /\ At(l, "remove")
  /\ UNCHANGED <<desktop, sockets>>

(* ... and so does an encoder's error.                                     *)
EncodeFails(l) ==
  /\ worker[l].at = "stream" /\ ~stop[l]
  /\ Pictured(l) /\ EvenSize(Grab(l)) = worker[l].src
  /\ At(l, "remove")
  /\ UNCHANGED <<desktop, sockets>>

(* write_framed: waits for a client that does not read, and fails once it  *)
(* has left.                                                               *)
Frame(l) ==
  /\ worker[l].at = "stream" /\ ~stop[l]
  /\ Pictured(l) /\ EvenSize(Grab(l)) = worker[l].src
  /\ \/ peer[l] = "reading" /\ worker' = [worker EXCEPT ![l].misses = 0]
     \/ peer[l] = "deaf" /\ At(l, "write")
     \/ peer[l] = "gone" /\ At(l, "remove")
  /\ UNCHANGED <<desktop, sockets>>

(* The write goes on, or fails.  Meanwhile nobody looks at the flag.       *)
Unblocks(l) ==
  /\ worker[l].at = "write"
  /\ \/ peer[l] = "reading" /\ worker' = [worker EXCEPT ![l].at = "stream", ![l].misses = 0]
     \/ peer[l] = "gone" /\ At(l, "remove")
  /\ UNCHANGED <<desktop, sockets>>

Streaming(l) == FirstGrab(l) \/ Stopped(l) \/ Resized(l) \/ Frame(l) \/ Unblocks(l)

(* The end of run: VirtualScreen is dropped, if there is one.              *)
Remove(l) ==
  /\ worker[l].at = "remove"
  /\ IF worker[l].screen
     THEN monitor' = (IF x = "up" THEN None ELSE monitor) /\ At(l, "compare")
     ELSE monitor' = monitor /\ At(l, "over")
  /\ UNCHANGED <<linux, x, size, chosen, undone, sockets>>

(* Mutant: the desktop is shrunk without a look at it.                     *)
Compare_Blind(l) ==
  /\ worker[l].at = "compare"
  /\ At(l, IF x = "up" THEN "shrink" ELSE "over")
  /\ UNCHANGED <<desktop, sockets>>

Compare(l) ==
  /\ worker[l].at = "compare"
  /\ At(l, IF x = "up" /\ size = worker[l].grown THEN "shrink" ELSE "over")
  /\ UNCHANGED <<desktop, sockets>>

Shrink(l) ==
  /\ worker[l].at = "shrink"
  /\ Restores(l)
  /\ At(l, "over")

Dropping(l) == Remove(l) \/ Compare(l) \/ Shrink(l)

-----------------------------------------------------------------------------
(* The world.                                                              *)

Changing == {"delete", "grow", "declare", "list", "unlist", "rollback", "shrink"}

UserResizes ==
  /\ x = "up"
  /\ \E s \in Desktops \ {size} :
       /\ size' = s
       /\ chosen' = s
       /\ undone' = \E l \in Loops : worker[l].at \in Changing
                                     \/ (worker[l].screen /\ worker[l].grown = s)
  /\ UNCHANGED <<linux, x, monitor, sockets, worker>>

(* The user logs out, or DISPLAY stops existing.                           *)
ServerGoes ==
  /\ linux /\ x = "up"
  /\ x' = "down"
  /\ monitor' = None
  /\ UNCHANGED <<linux, size, chosen, undone, sockets, worker>>

(* The client stops reading, reads again, or leaves.                       *)
PeerTurns(l) ==
  /\ input[l] # "accept"
  /\ \/ peer[l] = "reading" /\ peer' \in {[peer EXCEPT ![l] = p] : p \in {"deaf", "gone"}}
     \/ peer[l] = "deaf" /\ peer' \in {[peer EXCEPT ![l] = p] : p \in {"reading", "gone"}}
  /\ UNCHANGED <<desktop, input, stop, worker>>

(* The host is killed and started again.  A monitor outlives the           *)
(* connection that made it on some servers and not on others.              *)
Killed ==
  /\ \E l \in Loops : input[l] # "accept"
  /\ monitor' \in (IF monitor \in Loops THEN {None, Leftover} ELSE {monitor})
  /\ undone' = (undone \/ size # chosen)
  /\ peer' = [l \in Loops |-> "gone"]
  /\ input' = [l \in Loops |-> "accept"]
  /\ stop' = [l \in Loops |-> FALSE]
  /\ worker' = [l \in Loops |-> NoWorker]
  /\ UNCHANGED <<linux, x, size, chosen>>

-----------------------------------------------------------------------------
Init ==
  /\ linux \in BOOLEAN
  /\ x = "up"
  /\ size \in Desktops
  /\ monitor = None
  /\ peer = [l \in Loops |-> "gone"]
  /\ input = [l \in Loops |-> "accept"]
  /\ stop = [l \in Loops |-> FALSE]
  /\ worker = [l \in Loops |-> NoWorker]
  /\ chosen = size
  /\ undone = FALSE

Next ==
  \/ \E l \in Loops : \/ Serve(l) \/ InputEnds(l) \/ Joined(l) \/ PeerTurns(l)
                      \/ Creating(l) \/ Streaming(l) \/ GrabFails(l) \/ EncodeFails(l)
                      \/ Dropping(l)
  \/ UserResizes \/ ServerGoes \/ Killed

Spec == Init /\ [][Next]_vars

(* Both threads run; a grab that can only fail does.  Nothing is assumed   *)
(* of clients.                                                             *)
Fairness ==
  \A l \in Loops :
    /\ WF_vars(Input(l))
    /\ WF_vars(Creating(l) \/ Streaming(l) \/ Dropping(l) \/ (~Pictured(l) /\ GrabFails(l)))

FairSpec == Spec /\ Fairness

-----------------------------------------------------------------------------
(* Properties                                                              *)

Sides == 0..MAX_ROOT
SizesOf == [w : Sides, h : Sides]

TypeOK ==
  /\ linux \in BOOLEAN /\ undone \in BOOLEAN
  /\ x \in {"up", "down"}
  /\ size \in SizesOf /\ chosen \in Desktops
  /\ monitor \in Loops \cup {None, Leftover}
  /\ peer \in [Loops -> {"reading", "deaf", "gone"}]
  /\ input \in [Loops -> {"accept", "reading", "joining"}]
  /\ stop \in [Loops -> BOOLEAN]
  /\ \A l \in Loops :
       /\ worker[l].at \in Changing \cup {"none", "create", "grab", "stream", "write", "remove",
                                          "compare", "over"}
       /\ {worker[l].prev, worker[l].grown, worker[l].src} \subseteq SizesOf
       /\ worker[l].misses \in 0..(MAX_MISSES - 1)

(* A second screen is there for as long as its session: the worker has one.*)
HasScreen(l) == \/ worker[l].at \in {"list", "unlist"}
                \/ worker[l].screen /\ worker[l].at \in {"grab", "stream", "write", "remove"}

(* The monitor on the server is the running second screen, no session's    *)
(* outlives it, and one that a killed host left goes with the next.        *)
ScreenIsMonitor ==
  \A l \in Loops : x = "up" => (monitor = l <=> HasScreen(l))

(* "The desktop is back to its normal size by the time the client is       *)
(* disconnected" (stream::run), and it is the size its user chose last,    *)
(* during the session or before (VirtualScreen::drop), also when the second*)
(* screen could not be made.  Not so if the server refused that size, which*)
(* the code does not hear (vdisplay.rs:205, 219, 252).                     *)
DesktopRestored ==
  x = "up" /\ ~undone /\ (\A l \in Loops : worker[l].at \in {"none", "over"}) => size = chosen

(* A client that leaves ends its session, whatever the stream thread is    *)
(* doing: the loop is at accept again.                                     *)
LeftEnds == \A l \in Loops : peer[l] = "gone" /\ input[l] # "accept" ~> input[l] = "accept"

(* So does one whose input cannot be read, once it reads or leaves.        *)
UnreadableEnds == \A l \in Loops : input[l] = "joining" ~> input[l] = "accept" \/ peer[l] = "deaf"

(* A stream whose X server is gone ends on Linux (MAX_CONSECUTIVE_GRAB_    *)
(* FAILURES), unless its client keeps it waiting.                          *)
GivesUp ==
  \A l \in Loops : x = "down" /\ worker[l].at = "stream" ~> worker[l].at \in {"over", "none", "write"}

(* No session is for ever without a reason: the three above.               *)
SessionEnds == LeftEnds /\ UnreadableEnds /\ GivesUp

(* "Ending the stream at least lets the client say the mirror stopped"     *)
(* (MAX_CONSECUTIVE_GRAB_FAILURES): the connection ends with the stream.   *)
EndIsSeen ==
  \A l \in Loops : worker[l].at = "over" /\ input[l] = "reading" ~> input[l] # "reading"
=============================================================================

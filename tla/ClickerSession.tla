----------------------------- MODULE ClickerSession -----------------------------
(***************************************************************************)
(* The presentation clicker: a control-only session of the Windows and the *)
(* Linux host (serve_clicker and what it calls, host-windows/src/main.rs   *)
(* and host-linux/src/main.rs; winlist.rs of both).                        *)
(*                                                                         *)
(* The input thread reads the client's events and injects them at once; a  *)
(* second thread, told of them afterwards through a channel, photographs   *)
(* the screen for the client's preview.  It also pages through the whole   *)
(* document on request, to have the slides next to the current one at      *)
(* hand, and from then on follows the presenter's keys by counting them:   *)
(* it never knows what page is on the screen.                              *)
(***************************************************************************)
EXTENDS Integers, Sequences

CONSTANTS
  Decks,           \* documents: sequences of what each slide looks like
  Other,           \* what another window looks like
  Blank,           \* no picture: a capture that failed, an empty tile
  SCAN_MAX_PAGES,  \* slides a scan goes through at most
  MaxEvents        \* events of the client

ASSUME ClickerAssumption ==
  /\ \A d \in Decks : /\ d \in Seq({d[i] : i \in DOMAIN d}) /\ d # <<>>
                        /\ \A i \in DOMAIN d : d[i] \notin {Other, Blank}
  /\ SCAN_MAX_PAGES \in Nat \ {0} /\ MaxEvents \in Nat

VARIABLES
  deck, page, focus,  \* the document, the slide it is at, and whether it has the keyboard
  available,          \* whether the screen can be captured at all
  client,             \* "here", "deaf" (connected, reads nothing), "gone"
  left,               \* events it may still send
  input, event,       \* the input thread: "read", "inject", "post", "join", "done"; its event
  queue, open,        \* the channel of requests, and whether it has a sender
  snap,               \* the snapshot thread
  scan, refresh,      \* what the burst of requests it works on asks for
  cache, idx,         \* the slides of the last scan, and the count of keys since
  grab,               \* the picture it has just taken, or Blank
  seen, tiles,        \* what the client has on display: the slide, and its two neighbours
  stale,              \* the last capture failed, or a click turned the page since
  lost                \* what has gone wrong with following the presenter: "no", "count", "cache"

doc == <<deck, page, focus, available>>
host == <<snap, scan, refresh, cache, idx, grab>>
ghosts == <<stale, lost>>
clicker == <<doc, client, left, input, event, queue, open, host, seen, tiles, ghosts>>

Nav == {"next", "prev", "home", "end"}
(* "other": a key or a text that may or may not turn the page.              *)
Events == Nav \cup {"other", "mouse", "scan", "list", "focus", "show"}
NoEvent == "none"
Looks == (UNION {{d[i] : i \in DOMAIN d} : d \in Decks}) \cup {Other, Blank}

ClickerTypes ==
  /\ deck \in Decks /\ page \in DOMAIN deck /\ focus \in BOOLEAN
  /\ available \in BOOLEAN
  /\ client \in {"here", "deaf", "gone"} /\ left \in 0 .. MaxEvents
  /\ input \in {"read", "inject", "post", "join", "done"} /\ event \in Events \cup {NoEvent}
  /\ queue \in Seq(Events) /\ open \in BOOLEAN
  /\ snap \in {"hello", "list", "recv", "drain", "scan", "first", "turn", "look", "back",
               "grab", "send", "greet", "ended"}
  /\ scan \in BOOLEAN /\ refresh \in BOOLEAN
  /\ cache \in Seq(Looks) /\ Len(cache) <= SCAN_MAX_PAGES /\ idx \in Nat
  /\ grab \in Looks /\ seen \in Looks /\ tiles \in [{-1, 1} -> Looks]
  /\ stale \in BOOLEAN /\ lost \in {"no", "count", "cache"}

ClickerInit ==
  /\ deck \in Decks /\ page \in DOMAIN deck /\ focus = TRUE
  /\ available \in BOOLEAN
  /\ client = "here" /\ left = MaxEvents
  /\ input = "read" /\ event = NoEvent
  /\ queue = <<>> /\ open = TRUE
  /\ snap = "hello" /\ scan = FALSE /\ refresh = FALSE
  /\ cache = <<>> /\ idx = 0 /\ grab = Blank
  /\ seen = Blank /\ tiles = [o \in {-1, 1} |-> Blank]
  /\ stale = FALSE /\ lost = "no"

-----------------------------------------------------------------------------
(* The document, as keys find it (external).                               *)

Screen == IF focus THEN deck[page] ELSE Other

(* A key the document understands; another window in front has no use for *)
(* it.                                                                     *)
Turned(key) ==
  IF ~focus THEN page
  ELSE CASE key = "next" -> IF page < Len(deck) THEN page + 1 ELSE page
         [] key = "prev" -> IF page > 1 THEN page - 1 ELSE page
         [] key = "home" -> 1
         [] key = "end" -> Len(deck)

tap(key) == page' = Turned(key) /\ UNCHANGED <<deck, focus, available>>

(* A scan that has been asked for, or is under way: a page turned by then  *)
(* spoils what it finds, and its count.  Otherwise the ends of the document*)
(* put the count right again, and a page turned by a key that nobody       *)
(* counts puts it wrong.                                                   *)
Scanning ==
  \/ scan \/ snap \in {"scan", "first", "turn", "look", "back"}
  \/ \E i \in DOMAIN queue : queue[i] = "scan"
Worse(how) == IF lost = "cache" THEN lost ELSE how
Pressed(key) == lost' = CASE Scanning -> "cache"
                          [] ~Scanning /\ key \in {"home", "end"} /\ focus -> Worse("no")
                          [] OTHER -> lost
Strayed == lost' = IF Scanning THEN "cache" ELSE Worse("count")

-----------------------------------------------------------------------------
(* The input thread.                                                       *)

(* Mutant: the sender outlives the loop, until after the join.             *)
Reads_KeepsSender ==
  /\ input = "read"
  /\ \/ /\ client # "gone" /\ left > 0 /\ left' = left - 1
        /\ \E e \in Events : event' = e
        /\ input' = IF event' \in {"scan", "list", "focus", "show"} THEN "post" ELSE "inject"
     \/ client = "gone" /\ input' = "join" /\ UNCHANGED <<left, event>>
  /\ UNCHANGED <<doc, client, queue, open, host, seen, tiles, ghosts>>

(* read_framed: the next event, or the end, at which the sender of the     *)
(* channel is dropped and the other thread is joined.                      *)
Reads ==
  /\ input = "read"
  /\ \/ /\ client # "gone" /\ left > 0 /\ left' = left - 1
        /\ \E e \in Events : event' = e
        /\ input' = IF event' \in {"scan", "list", "focus", "show"} THEN "post" ELSE "inject"
        /\ UNCHANGED open
     \/ /\ client = "gone"
        /\ input' = "join" /\ open' = FALSE
        /\ UNCHANGED <<left, event>>
  /\ UNCHANGED <<doc, client, queue, host, seen, tiles, ghosts>>

(* inject, and Injector::inject under its lock: a press that turns the     *)
(* page turns it now.  A click may turn it too, and nobody is told.        *)
inject ==
  /\ input = "inject"
  /\ IF event \in Nav
     THEN tap(event) /\ Pressed(event) /\ stale' = stale
     ELSE \/ UNCHANGED <<doc, ghosts>>
          \/ /\ tap("next") /\ page' # page
             /\ Strayed /\ stale' = (stale \/ event = "mouse")
  /\ input' = IF event = "mouse" THEN "read" ELSE "post"
  /\ event' = IF event = "mouse" THEN NoEvent ELSE event
  /\ UNCHANGED <<client, left, queue, open, host, seen, tiles>>

(* The request for the snapshot thread, after the key is in: a Scan, a     *)
(* ListWindows, a FocusWindow, or a Key.                                    *)
Posts ==
  /\ input = "post" /\ input' = "read" /\ event' = NoEvent
  /\ queue' = Append(queue, event)
  /\ lost' = IF event = "scan" /\ ~Scanning THEN "no" ELSE lost
  /\ UNCHANGED <<doc, client, left, open, host, seen, tiles, stale>>

Joined ==
  /\ input = "join" /\ snap = "ended" /\ input' = "done"
  /\ UNCHANGED <<doc, client, left, event, queue, open, host, seen, tiles, ghosts>>

-----------------------------------------------------------------------------
(* The snapshot thread.                                                    *)

Snap == UNCHANGED <<client, left, input, event, open>>

(* A write to the client: it goes out, or fails once the client is gone,   *)
(* and waits for as long as a connected client reads nothing.              *)
Writes(next) ==
  \/ client # "deaf" /\ snap' = next
  \/ client = "gone" /\ snap' = "ended"

(* apply_index: the count follows the keys, kept within the pages known.    *)
apply_index(i, key, pages) ==
  LET moved == CASE key = "next" -> i + 1
                 [] key = "prev" -> i - 1
                 [] key = "home" -> 0
                 [] key = "end" -> pages - 1
                 [] OTHER -> i
      floor == IF moved < 0 THEN 0 ELSE moved
  IN  IF pages > 0 /\ floor > pages - 1 THEN pages - 1 ELSE floor

(* winlist::focus_window: the window comes to the front, if it is still    *)
(* there.  Another window is chosen with "focus"; "show" chooses the       *)
(* document and taps F5, from which a show starts at the front or where it *)
(* stands.                                                                 *)
focus_window(req) ==
  /\ \/ focus' = (req = "show")
     \/ UNCHANGED focus
  /\ page' \in IF req = "show" /\ focus' THEN {page, 1} ELSE {page}
  /\ UNCHANGED <<deck, available>>

(* handle_req, for the head of the queue; a window list goes out at once.   *)
handle_req(next) ==
  LET req == Head(queue) IN
  /\ queue # <<>> /\ queue' = Tail(queue)
  /\ scan' = (scan \/ req = "scan")
  /\ refresh' = (refresh \/ req \in Nav \cup {"other", "focus", "show"})
  /\ idx' = IF req \in Nav THEN apply_index(idx, req, Len(cache)) ELSE idx
  /\ IF req = "list" THEN Writes(next) ELSE snap' = next
  /\ IF req \in {"focus", "show"} THEN focus_window(req) /\ Strayed ELSE UNCHANGED <<doc, lost>>
  /\ UNCHANGED <<cache, grab, seen, tiles, stale>>

(* snapshot_loop begins with a preview, taken and sent like the later ones, *)
(* and the windows.                                                         *)
Hello ==
  /\ snap = "list" /\ Writes("recv")
  /\ UNCHANGED <<doc, queue, scan, refresh, cache, idx, grab, seen, tiles, ghosts>> /\ Snap

(* recv: the first request of a burst, or the end once there is no sender. *)
Receives ==
  /\ snap = "recv"
  /\ \/ handle_req("drain")
     \/ /\ queue = <<>> /\ ~open /\ snap' = "ended"
        /\ UNCHANGED <<doc, queue, scan, refresh, cache, idx, grab, seen, tiles, ghosts>>
  /\ Snap

(* Mutant: a burst is cut short, and only its first request is heard.      *)
Drains_CutsShort ==
  /\ snap = "drain"
  /\ snap' = IF scan THEN "scan" ELSE IF refresh THEN "grab" ELSE "recv"
  /\ queue' = <<>> /\ scan' = FALSE /\ refresh' = FALSE
  /\ UNCHANGED <<doc, cache, idx, grab, seen, tiles, ghosts>> /\ Snap

(* try_recv, after SNAPSHOT_DELAY for the slide to be redrawn: the rest of *)
(* the burst; then what it asks for.                                       *)
Drains ==
  /\ snap = "drain"
  /\ \/ handle_req("drain")
     \/ /\ queue = <<>>
        /\ snap' = IF scan THEN "scan" ELSE IF refresh THEN "grab" ELSE "recv"
        /\ scan' = FALSE /\ refresh' = FALSE
        /\ UNCHANGED <<doc, queue, cache, idx, grab, seen, tiles, ghosts>>
  /\ Snap

(* capture_primary_jpeg: None now and then, and always without a backend.  *)
capture ==
  \/ available /\ grab' = Screen
  \/ grab' = Blank

(* send_previews: the slide as it is now, unless the capture failed, and   *)
(* its neighbours by the count and the cache, or empty tiles.              *)
Grabs ==
  /\ snap \in {"hello", "grab"} /\ capture
  /\ snap' = IF snap = "hello" THEN "greet" ELSE "send"
  /\ stale' = (grab' = Blank)
  /\ UNCHANGED <<doc, queue, scan, refresh, cache, idx, seen, tiles, lost>> /\ Snap

Neighbour(o) == IF idx + o + 1 \in DOMAIN cache THEN cache[idx + o + 1] ELSE Blank

send_previews ==
  /\ snap \in {"greet", "send"} /\ Writes(IF snap = "greet" THEN "list" ELSE "recv")
  /\ IF client = "gone" THEN UNCHANGED <<seen, tiles>>
     ELSE /\ seen' = IF grab = Blank THEN seen ELSE grab
          /\ tiles' = [o \in {-1, 1} |-> Neighbour(o)]
  /\ grab' = Blank
  /\ UNCHANGED <<doc, queue, scan, refresh, cache, idx, ghosts>> /\ Snap

-----------------------------------------------------------------------------
(* scan_deck.                                                              *)

Scan == UNCHANGED <<queue, scan, refresh, seen, tiles, stale>> /\ Snap

(* It is skipped where nothing can be captured (Linux), and begins at the  *)
(* first slide elsewhere.                                                  *)
ScanBegins ==
  /\ snap = "scan" /\ cache' = <<>> /\ grab' = Blank
  /\ \/ tap("home") /\ snap' = "first" /\ UNCHANGED idx
     \/ ~available /\ idx' = 0 /\ snap' = "grab" /\ UNCHANGED doc
  /\ lost' = IF focus THEN lost ELSE "cache"
  /\ Scan

ScanFirst ==
  /\ snap = "first" /\ snap' = "turn" /\ capture
  /\ cache' = IF grab' = Blank THEN cache ELSE Append(cache, grab')
  /\ lost' = IF grab' = Blank THEN "cache" ELSE lost
  /\ UNCHANGED <<doc, idx>> /\ Scan

(* SCAN_MAX_PAGES - 1 turns: a scan whose first picture failed (one of the *)
(* lost ones) ends with one slide fewer than another.                      *)
Unfirst == lost = "cache" /\ Len(cache) = SCAN_MAX_PAGES - 1
ScanTurns ==
  /\ snap = "turn"
  /\ \/ Len(cache) < SCAN_MAX_PAGES /\ tap("next") /\ snap' = "look"
     \/ (Len(cache) = SCAN_MAX_PAGES \/ Unfirst) /\ snap' = "back" /\ UNCHANGED doc
  /\ UNCHANGED <<cache, idx, grab, lost>> /\ Scan

(* A slide that looks like the one before it is taken for the end.          *)
ScanLooks ==
  /\ snap = "look" /\ capture
  /\ IF grab' = Blank \/ (cache # <<>> /\ cache[Len(cache)] = grab')
     THEN snap' = "back" /\ UNCHANGED cache
     ELSE snap' = "turn" /\ cache' = Append(cache, grab')
  /\ lost' = IF grab' = Blank THEN "cache" ELSE lost
  /\ UNCHANGED <<doc, idx>> /\ Scan

(* Mutant: the document is left at its last slide.                         *)
ScanEnds_Stays ==
  /\ snap = "back" /\ idx' = 0 /\ snap' = "grab"
  /\ UNCHANGED <<doc, cache, grab, lost>> /\ Scan

ScanEnds ==
  /\ snap = "back" /\ tap("home") /\ idx' = 0 /\ snap' = "grab"
  /\ UNCHANGED <<cache, grab, lost>> /\ Scan

-----------------------------------------------------------------------------
(* The client, and the whole.                                              *)

(* It stops reading, or leaves, and what it showed with it.                 *)
Client ==
  /\ \/ client = "here" /\ client' = "deaf" /\ UNCHANGED <<left, seen, tiles>>
     \/ /\ client # "gone" /\ client' = "gone" /\ left' = 0
        /\ seen' = Blank /\ tiles' = [o \in {-1, 1} |-> Blank]
  /\ UNCHANGED <<doc, input, event, queue, open, host, ghosts>>

Typing == Reads \/ inject \/ Posts \/ Joined
Showing ==
  \/ Hello \/ Receives \/ Drains \/ Grabs \/ send_previews
  \/ ScanBegins \/ ScanFirst \/ ScanTurns \/ ScanLooks \/ ScanEnds

ClickerNext == Typing \/ Showing \/ Client

ClickerSpec == ClickerInit /\ [][ClickerNext]_clicker

(* The host's two threads run.  The input thread may wait for its client   *)
(* for ever, and so may a write; nothing is owed by the client.            *)
FairClicker == ClickerSpec /\ WF_clicker(Typing) /\ WF_clicker(Showing)

-----------------------------------------------------------------------------
(* Correctness.                                                            *)

Settled == snap = "recv" /\ queue = <<>> /\ input = "read" /\ client = "here"

(* Once the burst of keys is over, the preview the client has is of the    *)
(* slide the last of them left on the screen: no picture taken before the  *)
(* key is shown for the one after it (serve_clicker's order, and the       *)
(* coalescing of snapshot_loop).                                           *)
PreviewFresh == Settled /\ ~stale => seen = Screen

(* After a scan nobody disturbed, of a document whose neighbouring slides  *)
(* differ, the tiles are the slides before and after the one on the screen,*)
(* however the presenter moves; a count that is off, because of a key that *)
(* turned the page without being one of those counted, is put right by     *)
(* going to either end (apply_index, scan_deck).                           *)
Scannable == Len(deck) <= SCAN_MAX_PAGES /\ \A i \in 1 .. Len(deck) - 1 : deck[i] # deck[i + 1]
NeighboursTrue ==
  Settled /\ Scannable /\ cache # <<>> /\ lost = "no" /\ focus =>
    \A o \in {-1, 1} : tiles[o] = IF page + o \in DOMAIN deck THEN deck[page + o] ELSE Blank

(* When the client is gone both threads end, wherever they are: in a scan, *)
(* in a write, or waiting for each other (serve_clicker's join).           *)
ClickerEnds == (client = "gone") ~> (input = "done")
=============================================================================

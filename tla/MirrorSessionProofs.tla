------------------------- MODULE MirrorSessionProofs -------------------------
(***************************************************************************)
(* What holds of the second screen for any desktops, panels and limits, as *)
(* long as sessions come one at a time.                                    *)
(***************************************************************************)
EXTENDS MirrorSession, TLAPS

(* No two loops serve at once.                                             *)
Alone == \A l, m \in Loops : l = m

Sizes == [w : Int, h : Int]
Places == Changing \cup {"none", "create", "grab", "stream", "write", "remove", "compare", "over"}
Workers == [at : Places, second : BOOLEAN, want : Sizes, prev : Sizes, grown : Sizes,
            screen : BOOLEAN, area : [x : Int, w : Int, h : Int], src : Sizes, misses : Int]

Shapes ==
  /\ worker \in [Loops -> Workers]
  /\ input \in [Loops -> {"accept", "reading", "joining"}]
  /\ size \in Sizes /\ chosen \in Sizes
  /\ monitor \in Loops \cup {None, Leftover}

(* A screen is made before the first grab, and an idle loop has no worker. *)
Placed(l) ==
  /\ worker[l].screen
       => worker[l].at \in {"grab", "stream", "write", "remove", "compare", "shrink", "over"}
  /\ worker[l].at \in {"compare", "shrink"} => worker[l].screen
  /\ input[l] = "accept" => worker[l].at = "none"

(* The desktop as each place in create, run and drop leaves it.            *)
Mine(l) == size = worker[l].grown /\ chosen = worker[l].prev

Kept(l) ==
  CASE worker[l].at \in {"delete", "grow"} -> size = chosen /\ worker[l].prev = chosen
    [] worker[l].at \in {"declare", "list", "unlist", "rollback", "shrink"} -> Mine(l)
    [] worker[l].screen /\ worker[l].at \in {"grab", "stream", "write", "remove", "compare"} ->
         Mine(l) \/ (size = chosen /\ size # worker[l].grown)
    [] OTHER -> size = chosen

ScreenInv ==
  /\ Shapes
  /\ \A l \in Loops : Placed(l)
  /\ ScreenIsMonitor
  /\ x = "up" /\ ~undone => \A l \in Loops : Kept(l)
  /\ Loops = {} /\ x = "up" /\ ~undone => size = chosen

-----------------------------------------------------------------------------
LEMMA Moving ==
  ASSUME Shapes, NEW l \in Loops, NEW place \in Places, At(l, place)
  PROVE  /\ worker' \in [Loops -> Workers]
         /\ worker'[l] = [worker[l] EXCEPT !.at = place]
         /\ worker'[l].at = place /\ worker'[l].screen = worker[l].screen
         /\ worker'[l].prev = worker[l].prev /\ worker'[l].grown = worker[l].grown
<1>1. worker[l] \in Workers
  BY DEF Shapes
<1>2. worker'[l] = [worker[l] EXCEPT !.at = place] /\ worker' = [worker EXCEPT ![l] = worker'[l]]
  BY DEF At, Shapes
<1>3. worker'[l] \in Workers
  BY <1>1, <1>2 DEF Workers
<1> QED
  BY <1>1, <1>2, <1>3 DEF Shapes, Workers

(* Steps that leave the desktop alone and the worker in a like place.      *)
LEMMA Elsewhere ==
  ASSUME Alone, ScreenInv, NEW l \in Loops, UNCHANGED <<x, size, monitor, chosen, undone, input>>,
         worker' \in [Loops -> Workers],
         worker'[l].screen = worker[l].screen, worker'[l].prev = worker[l].prev,
         worker'[l].grown = worker[l].grown,
         worker[l].at \in {"create", "grab", "stream", "write"},
         worker'[l].at \in {"grab", "stream", "write", "remove"}
  PROVE  ScreenInv'
<1>1. Placed(l)' /\ \A m \in Loops : m = l
  BY DEF ScreenInv, Placed, Alone
<1>2. ScreenIsMonitor'
  BY <1>1 DEF ScreenInv, ScreenIsMonitor, HasScreen, Placed
<1>3. x' = "up" /\ ~undone' => Kept(l)'
  BY <1>1 DEF ScreenInv, Kept, Mine, Placed
<1> QED
  BY <1>1, <1>2, <1>3 DEF ScreenInv, Shapes

LEMMA ScreenStart == Init => ScreenInv
<1> SUFFICES ASSUME Init PROVE ScreenInv
  OBVIOUS
<1>1. NoWorker \in Workers
  BY DEF NoWorker, Workers, Places, Sizes, NoSize, NoArea
<1>2. Shapes
  BY <1>1, MirrorAssumption DEF Init, Shapes, Sizes
<1>3. \A l \in Loops : worker[l] = NoWorker
  BY DEF Init
<1>4. \A l \in Loops : Placed(l) /\ ~HasScreen(l) /\ Kept(l)
  BY <1>3 DEF Init, NoWorker, Placed, HasScreen, Kept
<1>5. ScreenIsMonitor
  BY <1>4, MirrorAssumption DEF Init, ScreenIsMonitor
<1> QED
  BY <1>2, <1>4, <1>5 DEF Init, ScreenInv

(* create.                                                                 *)
LEMMA CreatingKeeps ==
  ASSUME Alone, ScreenInv, NEW l \in Loops, Creating(l) PROVE ScreenInv'
<1>1. \A m \in Loops : m = l
  BY DEF Alone
<1>2. Shapes /\ Placed(l) /\ worker[l] \in Workers
  BY DEF ScreenInv, Shapes
<1>3. UNCHANGED <<linux, x, chosen, peer, input, stop>> /\ (undone' = undone \/ undone' = TRUE)
  BY DEF Creating, Windows, Measure, DeleteOld, Grow, Declare, List, Unlist, Rollback, Restores,
         desktop, sockets
<1>4. ASSUME Shapes', Placed(l)', x' = "up" => (monitor' = l <=> HasScreen(l)'),
             x' = "up" /\ ~undone' => Kept(l)'
      PROVE  ScreenInv'
  BY <1>1, <1>4 DEF ScreenInv, ScreenIsMonitor
<1>5. ASSUME UNCHANGED <<size, monitor, undone>>, worker[l].at = "create", Mirror(l) PROVE ScreenInv'
  BY <1>2, <1>3, <1>5, Moving, Elsewhere DEF Mirror, Places
<1>6. CASE Windows(l)
  <2>1. UNCHANGED <<size, monitor, undone>> /\ worker[l].at = "create"
    BY <1>6 DEF Windows, desktop
  <2>2. ASSUME worker' = [worker EXCEPT ![l].at = "grab",
                        ![l].area = [x |-> 0, w |-> worker[l].want.w, h |-> worker[l].want.h]]
        PROVE  ScreenInv'
    <3> DEFINE part == [x |-> 0, w |-> worker[l].want.w, h |-> worker[l].want.h]
    <3>a. part \in [x : Int, w : Int, h : Int]
      BY <1>2 DEF Workers, Sizes
    <3> HIDE DEF part
    <3>b. worker' = [worker EXCEPT ![l] = worker'[l]]
          /\ worker'[l] = [worker[l] EXCEPT !.at = "grab", !.area = part]
      BY <1>2, <2>2 DEF Shapes, part
    <3>1. /\ worker' = [worker EXCEPT ![l] = worker'[l]] /\ worker'[l] \in Workers
          /\ worker'[l].at = "grab" /\ worker'[l].screen = worker[l].screen
          /\ worker'[l].prev = worker[l].prev /\ worker'[l].grown = worker[l].grown
      BY <1>2, <3>a, <3>b DEF Workers, Places
    <3>2. worker' \in [Loops -> Workers]
      BY <1>2, <3>1 DEF Shapes
    <3> QED
      BY <1>3, <2>1, <3>1, <3>2, Elsewhere
  <2> QED
    BY <1>5, <1>6, <2>1, <2>2 DEF Windows
<1>7. CASE Measure(l)
  <2>1. UNCHANGED <<size, monitor, undone>> /\ worker[l].at = "create"
    BY <1>7 DEF Measure, desktop
  <2> DEFINE want == EvenSize(worker[l].want)
             grown == grown_size(size, want)
  <2>2. ASSUME worker' = [worker EXCEPT ![l].at = "delete", ![l].prev = size, ![l].grown = grown,
                                       ![l].want = want]
        PROVE  ScreenInv'
    <3>1. want \in Sizes
      BY <1>2 DEF EvenSize, Even, Sizes, Workers
    <3>2. grown \in Sizes
      BY <1>2, <3>1 DEF grown_size, Most, Sizes, Shapes
    <3> HIDE DEF want, grown
    <3>3. /\ worker' = [worker EXCEPT ![l] = worker'[l]]
          /\ worker'[l] = [worker[l] EXCEPT !.at = "delete", !.prev = size, !.grown = grown, !.want = want]
      BY <1>2, <2>2 DEF Shapes, Workers
    <3>4. /\ worker'[l] \in Workers
          /\ worker'[l].at = "delete" /\ worker'[l].screen = worker[l].screen
          /\ worker'[l].prev = size
      BY <1>2, <3>1, <3>2, <3>3 DEF Shapes, Workers, Places, Changing
    <3>5. Shapes'
      BY <1>2, <1>3, <2>1, <3>3, <3>4 DEF Shapes
    <3>6. Placed(l)' /\ (x' = "up" => (monitor' = l <=> HasScreen(l)'))
      BY <1>2, <1>3, <2>1, <3>4 DEF ScreenInv, ScreenIsMonitor, HasScreen, Placed
    <3>7. x' = "up" /\ ~undone' => Kept(l)'
      BY <1>2, <1>3, <2>1, <3>4 DEF ScreenInv, Kept, Placed
    <3> QED
      BY <1>4, <3>5, <3>6, <3>7
  <2> QED
    BY <1>5, <1>7, <2>1, <2>2 DEF Measure
<1>8. CASE DeleteOld(l)
  <2>1. worker[l].at = "delete" /\ monitor' = None /\ size' = size /\ At(l, "grow")
    BY <1>8 DEF DeleteOld
  <2>2. /\ worker' \in [Loops -> Workers] /\ worker'[l].at = "grow"
        /\ worker'[l].screen = worker[l].screen /\ worker'[l].prev = worker[l].prev
    BY <1>2, <2>1, Moving DEF Places, Changing
  <2> QED
    BY <1>2, <1>3, <1>4, <2>1, <2>2, MirrorAssumption
    DEF ScreenInv, Shapes, Placed, HasScreen, Kept
<1>9. CASE Grow(l)
  <2>1. worker[l].at = "grow" /\ monitor' = monitor
    BY <1>9 DEF Grow
  <2>2. ASSUME size' = worker[l].grown, At(l, "declare") PROVE ScreenInv'
    <3>1. /\ worker' \in [Loops -> Workers] /\ worker'[l].at = "declare"
          /\ worker'[l].screen = worker[l].screen /\ worker'[l].prev = worker[l].prev
          /\ worker'[l].grown = worker[l].grown
      BY <1>2, <2>2, Moving DEF Places, Changing
    <3>2. Shapes' /\ Placed(l)'
      BY <1>2, <1>3, <2>1, <2>2, <3>1 DEF Shapes, Placed, Workers
    <3>3. x' = "up" => (monitor' = l <=> HasScreen(l)')
      BY <1>2, <1>3, <2>1, <3>1 DEF ScreenInv, ScreenIsMonitor, HasScreen, Placed
    <3>4. x' = "up" /\ ~undone' => Kept(l)'
      BY <1>2, <1>3, <2>1, <2>2, <3>1 DEF ScreenInv, Kept, Mine, Placed
    <3> QED
      BY <1>4, <3>2, <3>3, <3>4
  <2>3. ASSUME size' = size, Mirror(l) PROVE ScreenInv'
    <3>1. /\ worker' \in [Loops -> Workers] /\ worker'[l].at = "grab"
          /\ worker'[l].screen = worker[l].screen
      BY <1>2, <2>3, Moving DEF Places, Mirror
    <3>2. Shapes' /\ Placed(l)'
      BY <1>2, <1>3, <2>1, <2>3, <3>1 DEF Shapes, Placed
    <3>3. x' = "up" => (monitor' = l <=> HasScreen(l)')
      BY <1>2, <1>3, <2>1, <3>1 DEF ScreenInv, ScreenIsMonitor, HasScreen, Placed
    <3>4. x' = "up" /\ ~undone' => Kept(l)'
      BY <1>2, <1>3, <2>1, <2>3, <3>1 DEF ScreenInv, Kept, Placed
    <3> QED
      BY <1>4, <3>2, <3>3, <3>4
  <2> QED
    BY <1>9, <2>2, <2>3 DEF Grow
<1>10. CASE Declare(l)
  <2>1. worker[l].at = "declare" /\ size' = size
    BY <1>10 DEF Declare
  <2>2. ASSUME NEW place \in {"list", "rollback"}, At(l, place),
               monitor' = IF place = "list" THEN l ELSE monitor
        PROVE  ScreenInv'
    <3>1. /\ worker' \in [Loops -> Workers] /\ worker'[l].at = place
          /\ worker'[l].screen = worker[l].screen /\ worker'[l].prev = worker[l].prev
          /\ worker'[l].grown = worker[l].grown
      BY <1>2, <2>2, Moving DEF Places, Changing
    <3>2. Shapes' /\ Placed(l)'
      BY <1>2, <1>3, <2>1, <2>2, <3>1 DEF Shapes, Placed
    <3>3. x' = "up" => (monitor' = l <=> HasScreen(l)')
      BY <1>2, <1>3, <2>1, <2>2, <3>1 DEF ScreenInv, ScreenIsMonitor, HasScreen, Placed
    <3>4. x' = "up" /\ ~undone' => Kept(l)'
      BY <1>2, <1>3, <2>1, <2>2, <3>1 DEF ScreenInv, Kept, Mine, Placed
    <3> QED
      BY <1>4, <3>2, <3>3, <3>4
  <2> QED
    BY <1>10, <2>2 DEF Declare
<1>11. CASE List(l)
  <2>1. worker[l].at = "list" /\ size' = size /\ monitor' = monitor
    BY <1>11 DEF List, desktop
  <2>2. ASSUME monitor = l,
               worker' = [worker EXCEPT ![l].at = "grab", ![l].screen = TRUE,
                            ![l].area = [x |-> worker[l].prev.w, w |-> worker[l].want.w,
                                         h |-> worker[l].want.h]]
        PROVE  ScreenInv'
    <3>1. /\ worker' = [worker EXCEPT ![l] = worker'[l]] /\ worker'[l] \in Workers
          /\ worker'[l].at = "grab" /\ worker'[l].screen
          /\ worker'[l].prev = worker[l].prev /\ worker'[l].grown = worker[l].grown
      BY <1>2, <2>2 DEF Shapes, Workers, Places, Sizes
    <3>2. Shapes' /\ Placed(l)'
      BY <1>2, <1>3, <2>1, <3>1 DEF Shapes, Placed
    <3>3. x' = "up" => (monitor' = l <=> HasScreen(l)')
      BY <2>1, <2>2, <3>1 DEF HasScreen
    <3>4. x' = "up" /\ ~undone' => Kept(l)'
      BY <1>2, <1>3, <2>1, <3>1 DEF ScreenInv, Kept, Mine
    <3> QED
      BY <1>4, <3>2, <3>3, <3>4
  <2>3. CASE At(l, "unlist")
    <3>1. /\ worker' \in [Loops -> Workers] /\ worker'[l].at = "unlist"
          /\ worker'[l].screen = worker[l].screen /\ worker'[l].prev = worker[l].prev
          /\ worker'[l].grown = worker[l].grown
      BY <1>2, <2>3, Moving DEF Places, Changing
    <3>2. Shapes' /\ Placed(l)'
      BY <1>2, <1>3, <2>1, <3>1 DEF Shapes, Placed
    <3>3. x' = "up" => (monitor' = l <=> HasScreen(l)')
      BY <1>3, <2>1, <3>1 DEF ScreenInv, ScreenIsMonitor, HasScreen
    <3>4. x' = "up" /\ ~undone' => Kept(l)'
      BY <1>3, <2>1, <3>1 DEF ScreenInv, Kept, Mine
    <3> QED
      BY <1>4, <3>2, <3>3, <3>4
  <2> QED
    BY <1>11, <2>2, <2>3 DEF List
<1>12. CASE Unlist(l)
  <2>1. worker[l].at = "unlist" /\ monitor' = None /\ size' = size /\ At(l, "rollback")
    BY <1>12 DEF Unlist
  <2>2. /\ worker' \in [Loops -> Workers] /\ worker'[l].at = "rollback"
        /\ worker'[l].screen = worker[l].screen /\ worker'[l].prev = worker[l].prev
        /\ worker'[l].grown = worker[l].grown
    BY <1>2, <2>1, Moving DEF Places, Changing
  <2>3. Shapes' /\ Placed(l)' /\ (monitor' = l <=> HasScreen(l)')
    BY <1>2, <1>3, <2>1, <2>2, MirrorAssumption DEF Shapes, Placed, HasScreen
  <2>4. x' = "up" /\ ~undone' => Kept(l)'
    BY <1>3, <2>1, <2>2 DEF ScreenInv, Kept, Mine
  <2> QED
    BY <1>4, <2>3, <2>4
<1>13. CASE Rollback(l)
  <2>1. /\ worker[l].at = "rollback" /\ monitor' = monitor /\ At(l, "grab")
        /\ size' = worker[l].prev \/ (size' = size /\ undone' = TRUE)
    BY <1>13 DEF Rollback, Restores, Mirror
  <2>2. /\ worker' \in [Loops -> Workers] /\ worker'[l].at = "grab"
        /\ worker'[l].screen = worker[l].screen
    BY <1>2, <2>1, Moving DEF Places
  <2>3. Shapes' /\ Placed(l)'
    BY <1>2, <1>3, <2>1, <2>2 DEF Shapes, Placed, Workers
  <2>4. x' = "up" => (monitor' = l <=> HasScreen(l)')
    BY <1>2, <1>3, <2>1, <2>2 DEF ScreenInv, ScreenIsMonitor, HasScreen, Placed
  <2>5. x' = "up" /\ ~undone' => Kept(l)'
    BY <1>2, <1>3, <2>1, <2>2 DEF ScreenInv, Kept, Mine, Placed
  <2> QED
    BY <1>4, <2>3, <2>4, <2>5
<1> QED
  BY <1>6, <1>7, <1>8, <1>9, <1>10, <1>11, <1>12, <1>13 DEF Creating

(* run_inner.                                                              *)
LEMMA StreamingKeeps ==
  ASSUME Alone, ScreenInv, NEW l \in Loops, Streaming(l) \/ GrabFails(l) \/ EncodeFails(l)
  PROVE  ScreenInv'
<1>1. Shapes /\ worker[l] \in Workers
  BY DEF ScreenInv, Shapes
<1>2. UNCHANGED <<x, size, monitor, chosen, undone, input>>
      /\ worker[l].at \in {"grab", "stream", "write"}
  BY DEF Streaming, FirstGrab, Stopped, Resized, Frame, Unblocks, GrabFails, EncodeFails,
         desktop, sockets
<1>3. ASSUME NEW place \in {"stream", "write", "remove"}, At(l, place) PROVE ScreenInv'
  BY <1>1, <1>2, <1>3, Moving, Elsewhere DEF Places
<1>4. ASSUME NEW src \in Sizes, NEW misses \in Int,
             worker' = [worker EXCEPT ![l] =
                          [worker[l] EXCEPT !.at = "stream", !.src = src, !.misses = misses]]
      PROVE  ScreenInv'
  <2>1. worker' = [worker EXCEPT ![l] = worker'[l]]
        /\ worker'[l] = [worker[l] EXCEPT !.at = "stream", !.src = src, !.misses = misses]
    BY <1>1, <1>4 DEF Shapes
  <2>2. /\ worker'[l] \in Workers /\ worker'[l].at = "stream" /\ worker'[l].screen = worker[l].screen
        /\ worker'[l].prev = worker[l].prev /\ worker'[l].grown = worker[l].grown
    BY <1>1, <2>1 DEF Workers, Places
  <2>3. worker' \in [Loops -> Workers]
    BY <1>1, <2>1, <2>2 DEF Shapes
  <2> QED
    BY <1>2, <1>4, <2>2, <2>3, Elsewhere
<1>5. CASE UNCHANGED worker
  BY <1>1, <1>2, <1>5 DEF ScreenInv, Shapes, Placed, ScreenIsMonitor, HasScreen, Kept, Mine
<1>6. CASE FirstGrab(l)
  <2>1. Grab(l) \in Sizes
    BY <1>1 DEF Grab, Clip, Least, NoSize, Sizes, Shapes, Workers
  <2>2. EvenSize(Grab(l)) \in Sizes
    BY <2>1 DEF EvenSize, Even, Sizes
  <2>3. ASSUME worker' = [worker EXCEPT ![l].at = "stream", ![l].src = EvenSize(Grab(l))]
        PROVE  ScreenInv'
    <3> DEFINE k == [worker[l] EXCEPT !.at = "stream", !.src = EvenSize(Grab(l)),
                                      !.misses = worker[l].misses]
    <3>1. worker' = [worker EXCEPT ![l] = k]
      <4>1. k = [worker[l] EXCEPT !.at = "stream", !.src = EvenSize(Grab(l))]
        BY <1>1 DEF Workers
      <4> QED
        BY <1>1, <2>3, <4>1 DEF Shapes
    <3>2. worker[l].misses \in Int /\ worker[l].at = "grab"
      BY <1>1, <1>6 DEF Workers, FirstGrab
    <3> QED
      BY <1>4, <2>2, <3>1, <3>2
  <2> QED
    BY <1>3, <1>6, <2>3 DEF FirstGrab
<1>7. ASSUME NEW misses \in Int, worker[l].at = "stream", worker' = [worker EXCEPT ![l].misses = misses]
      PROVE  ScreenInv'
  <2> DEFINE k == [worker[l] EXCEPT !.at = "stream", !.src = worker[l].src, !.misses = misses]
  <2>1. worker' = [worker EXCEPT ![l] = k]
    <3>1. k = [worker[l] EXCEPT !.misses = misses]
      BY <1>1, <1>7 DEF Workers
    <3> QED
      BY <1>1, <1>7, <3>1 DEF Shapes
  <2>2. worker[l].src \in Sizes
    BY <1>1 DEF Workers
  <2> QED
    BY <1>4, <1>7, <2>1, <2>2
<1>8. CASE Stopped(l) \/ Resized(l) \/ EncodeFails(l)
  BY <1>3, <1>8 DEF Stopped, Resized, EncodeFails
<1>9. CASE Frame(l)
  BY <1>3, <1>7, <1>9 DEF Frame
<1>10. CASE Unblocks(l)
  <2>1. ASSUME worker' = [worker EXCEPT ![l].at = "stream", ![l].misses = 0] PROVE ScreenInv'
    <3> DEFINE k == [worker[l] EXCEPT !.at = "stream", !.src = worker[l].src, !.misses = 0]
    <3>1. worker' = [worker EXCEPT ![l] = k]
      <4>1. k = [worker[l] EXCEPT !.at = "stream", !.misses = 0]
        BY <1>1 DEF Workers
      <4> QED
        BY <1>1, <2>1, <4>1 DEF Shapes
    <3>2. worker[l].src \in Sizes
      BY <1>1 DEF Workers
    <3> HIDE DEF k
    <3>3. PICK misses \in Int : k = [worker[l] EXCEPT !.at = "stream", !.src = worker[l].src,
                                                      !.misses = misses]
      <4> WITNESS 0 \in Int
      <4> QED
        BY DEF k
    <3> QED
      BY <1>4, <3>1, <3>2, <3>3
  <2> QED
    BY <1>3, <1>10, <2>1 DEF Unblocks
<1>11. CASE GrabFails(l)
  <2>1. worker[l].misses + 1 \in Int /\ worker[l].at = "stream"
    BY <1>1, <1>11 DEF Workers, GrabFails
  <2> QED
    BY <1>3, <1>5, <1>7, <1>11, <2>1 DEF GrabFails
<1> QED
  BY <1>6, <1>8, <1>9, <1>10, <1>11 DEF Streaming

(* drop.                                                                   *)
LEMMA DroppingKeeps ==
  ASSUME Alone, ScreenInv, NEW l \in Loops, Dropping(l) PROVE ScreenInv'
<1>1. Shapes /\ Placed(l) /\ worker[l] \in Workers /\ \A m \in Loops : m = l
  BY DEF ScreenInv, Shapes, Alone
<1>2. UNCHANGED <<linux, x, chosen, input>> /\ (undone' = undone \/ undone' = TRUE)
  BY DEF Dropping, Remove, Compare, Shrink, Restores, desktop, sockets
<1>3. ASSUME NEW place \in {"compare", "shrink", "over"}, At(l, place)
      PROVE  /\ worker' \in [Loops -> Workers] /\ worker'[l].at = place
             /\ worker'[l].screen = worker[l].screen /\ worker'[l].prev = worker[l].prev
             /\ worker'[l].grown = worker[l].grown
  BY <1>1, <1>3, Moving DEF Places, Changing
<1>4. CASE Remove(l)
  <2>1. worker[l].at = "remove" /\ size' = size
        /\ monitor' = (IF worker[l].screen /\ x = "up" THEN None ELSE monitor)
        /\ At(l, IF worker[l].screen THEN "compare" ELSE "over")
    BY <1>4 DEF Remove
  <2>2. PICK place \in {"compare", "over"} : At(l, place) /\ (place = "compare" <=> worker[l].screen)
    BY <2>1
  <2>3. Shapes' /\ Placed(l)'
    BY <1>1, <1>2, <1>3, <2>1, <2>2 DEF Shapes, Placed
  <2>4. x' = "up" => (monitor' = l <=> HasScreen(l)')
    BY <1>1, <1>2, <1>3, <2>1, <2>2, MirrorAssumption DEF ScreenInv, ScreenIsMonitor, HasScreen
  <2>5. x' = "up" /\ ~undone' => Kept(l)'
    BY <1>1, <1>2, <1>3, <2>1, <2>2 DEF ScreenInv, Kept, Mine
  <2> QED
    BY <1>1, <2>3, <2>4, <2>5 DEF ScreenInv, ScreenIsMonitor
<1>5. CASE Compare(l)
  <2>1. worker[l].at = "compare" /\ size' = size /\ monitor' = monitor
    BY <1>5 DEF Compare, desktop
  <2>2. PICK place \in {"shrink", "over"} :
          At(l, place) /\ (place = "shrink" <=> x = "up" /\ size = worker[l].grown)
    BY <1>5 DEF Compare
  <2>3. Shapes' /\ Placed(l)'
    BY <1>1, <1>2, <1>3, <2>1, <2>2 DEF Shapes, Placed
  <2>4. x' = "up" => (monitor' = l <=> HasScreen(l)')
    BY <1>1, <1>2, <1>3, <2>1, <2>2 DEF ScreenInv, ScreenIsMonitor, HasScreen
  <2>5. x' = "up" /\ ~undone' => Kept(l)'
    BY <1>1, <1>2, <1>3, <2>1, <2>2 DEF ScreenInv, Kept, Mine, Placed
  <2> QED
    BY <1>1, <2>3, <2>4, <2>5 DEF ScreenInv, ScreenIsMonitor
<1>6. CASE Shrink(l)
  <2>1. /\ worker[l].at = "shrink" /\ monitor' = monitor /\ At(l, "over")
        /\ size' = worker[l].prev \/ (size' = size /\ undone' = TRUE)
    BY <1>6 DEF Shrink, Restores
  <2>2. Shapes' /\ Placed(l)'
    BY <1>1, <1>2, <1>3, <2>1 DEF Shapes, Placed, Workers
  <2>3. x' = "up" => (monitor' = l <=> HasScreen(l)')
    BY <1>1, <1>2, <1>3, <2>1 DEF ScreenInv, ScreenIsMonitor, HasScreen
  <2>4. x' = "up" /\ ~undone' => Kept(l)'
    <3>1. x = "up" /\ ~undone => chosen = worker[l].prev
      BY <1>1, <2>1 DEF ScreenInv, Kept, Mine
    <3>2. worker'[l].at = "over"
      BY <1>3, <2>1
    <3> QED
      BY <1>2, <2>1, <3>1, <3>2 DEF Kept
  <2> QED
    BY <1>1, <2>2, <2>3, <2>4 DEF ScreenInv, ScreenIsMonitor
<1> QED
  BY <1>4, <1>5, <1>6 DEF Dropping

(* The input thread, the client, and the world.                            *)
LEMMA SessionsKeep ==
  ASSUME Alone, ScreenInv, NEW l \in Loops, Serve(l) \/ InputEnds(l) \/ Joined(l) \/ PeerTurns(l)
  PROVE  ScreenInv'
<1>1. Shapes /\ Placed(l) /\ worker[l] \in Workers /\ \A m \in Loops : m = l
  BY DEF ScreenInv, Shapes, Alone
<1>2. UNCHANGED <<x, size, monitor, chosen, undone>>
  BY DEF Serve, InputEnds, Joined, PeerTurns, desktop
<1>3. ASSUME worker[l].at \in {"none", "over"}, NEW k \in Workers, worker' = [worker EXCEPT ![l] = k],
             k.at \in {"none", "create"}, ~k.screen, input' \in [Loops -> {"accept", "reading", "joining"}],
             input'[l] = "accept" => k.at = "none"
      PROVE  ScreenInv'
  <2>1. worker'[l] = k /\ worker' \in [Loops -> Workers]
    BY <1>1, <1>3 DEF Shapes
  <2>2. Shapes' /\ Placed(l)'
    BY <1>1, <1>2, <1>3, <2>1 DEF Shapes, Placed
  <2>3. x' = "up" => (monitor' = l <=> HasScreen(l)')
    BY <1>2, <1>3, <2>1 DEF ScreenInv, ScreenIsMonitor, HasScreen
  <2>4. x' = "up" /\ ~undone' => Kept(l)'
    BY <1>2, <1>3, <2>1 DEF ScreenInv, Kept
  <2> QED
    BY <1>1, <2>2, <2>3, <2>4 DEF ScreenInv, ScreenIsMonitor
<1>4. NoWorker \in Workers /\ ~NoWorker.screen /\ NoWorker.at = "none"
  BY DEF NoWorker, Workers, Places, Sizes, NoSize, NoArea
<1>5. CASE Serve(l)
  <2>1. PICK second \in BOOLEAN, want \in Panels :
          worker' = [worker EXCEPT ![l] = [NoWorker EXCEPT !.at = "create", !.second = second, !.want = want]]
    BY <1>5 DEF Serve
  <2>2. want \in Sizes
    BY MirrorAssumption DEF Sizes
  <2> DEFINE k == [NoWorker EXCEPT !.at = "create", !.second = second, !.want = want]
  <2>3. k \in Workers /\ k.at = "create" /\ ~k.screen
    BY <1>4, <2>2 DEF Workers, Places
  <2> HIDE DEF k
  <2>4. worker' = [worker EXCEPT ![l] = k]
    BY <2>1 DEF k
  <2>5. worker[l].at = "none" /\ input' = [input EXCEPT ![l] = "reading"]
    BY <1>1, <1>5 DEF Serve, Placed
  <2>6. input' \in [Loops -> {"accept", "reading", "joining"}] /\ input'[l] = "reading"
    BY <1>1, <2>5 DEF Shapes
  <2> QED
    BY <1>3, <2>3, <2>4, <2>5, <2>6
<1>6. CASE Joined(l)
  <2>1. worker[l].at = "over" /\ worker' = [worker EXCEPT ![l] = NoWorker]
        /\ input' = [input EXCEPT ![l] = "accept"]
    BY <1>6 DEF Joined
  <2>2. input' \in [Loops -> {"accept", "reading", "joining"}]
    BY <1>1, <2>1 DEF Shapes
  <2> QED
    BY <1>3, <1>4, <2>1, <2>2
<1>7. CASE InputEnds(l) \/ PeerTurns(l)
  <2>1. worker' = worker /\ (input' = input \/ input' = [input EXCEPT ![l] = "joining"])
    BY <1>7 DEF InputEnds, PeerTurns
  <2>2. Shapes' /\ Placed(l)'
    BY <1>1, <1>2, <2>1 DEF Shapes, Placed
  <2>3. ScreenIsMonitor' /\ (x' = "up" /\ ~undone' => Kept(l)')
    BY <1>1, <1>2, <2>1 DEF ScreenInv, ScreenIsMonitor, HasScreen, Kept, Mine
  <2> QED
    BY <1>1, <2>2, <2>3 DEF ScreenInv
<1> QED
  BY <1>5, <1>6, <1>7

LEMMA WorldKeeps ==
  ASSUME Alone, ScreenInv, UserResizes \/ ServerGoes \/ Killed \/ UNCHANGED vars PROVE ScreenInv'
<1>1. Shapes /\ (\A l \in Loops : Placed(l)) /\ Desktops \subseteq Sizes
  BY MirrorAssumption DEF ScreenInv, Sizes
<1>2. CASE UserResizes
  <2>1. UNCHANGED <<x, monitor, input, worker>>
    BY <1>2 DEF UserResizes, sockets
  <2>2. PICK s \in Desktops : /\ size' = s /\ chosen' = s
                              /\ undone' = \E l \in Loops : worker[l].at \in Changing
                                            \/ (worker[l].screen /\ worker[l].grown = s)
    BY <1>2 DEF UserResizes
  <2>3. Shapes' /\ \A l \in Loops : Placed(l)'
    BY <1>1, <2>1, <2>2 DEF Shapes, Placed
  <2>4. ScreenIsMonitor'
    BY <2>1 DEF ScreenInv, ScreenIsMonitor, HasScreen
  <2>5. ASSUME ~undone', NEW l \in Loops PROVE Kept(l)'
    BY <2>1, <2>2, <2>5 DEF Kept, Changing
  <2> QED
    BY <2>2, <2>3, <2>4, <2>5 DEF ScreenInv
<1>3. CASE ServerGoes
  BY <1>1, <1>3 DEF ServerGoes, sockets, ScreenInv, ScreenIsMonitor, Shapes, Placed
<1>4. CASE Killed
  <2>1. /\ UNCHANGED <<x, size, chosen>>
        /\ monitor' \in (IF monitor \in Loops THEN {None, Leftover} ELSE {monitor})
        /\ undone' = (undone \/ size # chosen)
        /\ input' = [l \in Loops |-> "accept"] /\ worker' = [l \in Loops |-> NoWorker]
    BY <1>4 DEF Killed
  <2>2. NoWorker \in Workers /\ ~NoWorker.screen /\ NoWorker.at = "none"
    BY DEF NoWorker, Workers, Places, Sizes, NoSize, NoArea
  <2>3. Shapes'
    BY <1>1, <2>1, <2>2 DEF Shapes
  <2>4. \A l \in Loops : Placed(l)' /\ ~HasScreen(l)'
    BY <2>1, <2>2 DEF Placed, HasScreen
  <2>5. monitor' \notin Loops
    BY <2>1, MirrorAssumption
  <2>6. ~undone' => \A l \in Loops : Kept(l)'
    BY <2>1, <2>2 DEF Kept
  <2>7. ~undone' => size' = chosen'
    BY <2>1
  <2> QED
    BY <2>3, <2>4, <2>5, <2>6, <2>7 DEF ScreenInv, ScreenIsMonitor
<1>5. CASE UNCHANGED vars
  BY <1>5 DEF vars, ScreenInv, ScreenIsMonitor, HasScreen, Shapes, Placed, Kept, Mine
<1> QED
  BY <1>2, <1>3, <1>4, <1>5

LEMMA ScreenNext == Alone /\ ScreenInv /\ [Next]_vars => ScreenInv'
BY CreatingKeeps, StreamingKeeps, DroppingKeeps, SessionsKeep, WorldKeeps DEF Next

-----------------------------------------------------------------------------
(* ScreenIsMonitor: while sessions come one at a time, the monitor on the  *)
(* X server is the running session's second screen, and no other.          *)
THEOREM OneMonitor == Alone => (Spec => []ScreenIsMonitor)
<1> SUFFICES ASSUME Alone PROVE Spec => []ScreenIsMonitor
  OBVIOUS
<1>1. ScreenInv => ScreenIsMonitor
  BY DEF ScreenInv
<1>2. ScreenInv /\ [Next]_vars => ScreenInv'
  BY ScreenNext
<1> QED
  BY ScreenStart, <1>1, <1>2, PTL DEF Spec

(* DesktopRestored: and whenever no session is on, the desktop has the size*)
(* its user gave it last (VirtualScreen::create's rollbacks, and drop).    *)
THEOREM DesktopGivenBack == Alone => (Spec => []DesktopRestored)
<1> SUFFICES ASSUME Alone PROVE Spec => []DesktopRestored
  OBVIOUS
<1>1. ScreenInv => DesktopRestored
  <2> SUFFICES ASSUME ScreenInv, x = "up", ~undone, \A l \in Loops : worker[l].at \in {"none", "over"}
               PROVE  size = chosen
    BY DEF DesktopRestored
  <2>1. CASE Loops = {}
    BY <2>1 DEF ScreenInv
  <2>2. CASE Loops # {}
    BY <2>2 DEF ScreenInv, Kept
  <2> QED
    BY <2>1, <2>2
<1>2. ScreenInv /\ [Next]_vars => ScreenInv'
  BY ScreenNext
<1> QED
  BY ScreenStart, <1>1, <1>2, PTL DEF Spec
=============================================================================

-------------------------------- MODULE HostProofs --------------------------------
(***************************************************************************)
(* Proofs about HostLifecycle, for any ports, PINs and number of starts:   *)
(* what a window shows is what its newest loop serves, and no other loop   *)
(* is left running; and about ClickerSession, for any documents, scans and *)
(* number of events: what a client has on display is the slide on the      *)
(* screen, between its neighbours.                                         *)
(***************************************************************************)
EXTENDS HostLifecycle, ClickerSession, TLAPS

Apps == [running : BOOLEAN, pin : Pins, own_pin : Pins \cup {None},
         field : Ports \cup {None, Garbled}, port : Ports \cup {None}]

Loops == [at : {"none", "check", "accept", "handshake", "session", "ended"},
          port : Ports \cup {None}, pin : Pins \cup {None}, stop : BOOLEAN]

-----------------------------------------------------------------------------
(* The inductive invariant.                                                *)

(* Nothing has happened to the loops of starts to come.                    *)
Fresh(ls) == \A i \in Ids : i > opened => ls[i].at = "none" /\ late[i] = 0

(* A loop that has let somebody in since it was stopped is past accept.    *)
PastAccept(ls) ==
  \A i \in Ids : late[i] = 0 \/ (late[i] = 1 /\ ls[i].stop /\ ls[i].at # "accept")

(* A running window's newest loop has its PIN and port, and is not stopped.*)
Newest ==
  app.running => /\ opened \in Ids
                 /\ Alive(opened)
                 /\ ~loops[opened].stop
                 /\ loops[opened].pin = app.pin
                 /\ loops[opened].port = app.port

(* A PIN of your own is the one on show: on Linux once the host starts.    *)
OwnShown(a) == a.own_pin # None /\ (a.running \/ ~linux) => a.pin = a.own_pin

LifeInv ==
  /\ TypeOK
  /\ NoOrphanLoop
  /\ Fresh(loops)
  /\ PastAccept(loops)
  /\ Newest
  /\ OwnShown(app)
  /\ AdvertisedIsServed

(* What a start or a stop leaves behind: every loop stopped or over.       *)
Clean(ls) ==
  /\ ls \in [Ids -> Loops]
  /\ \A i \in Ids : ls[i].at \notin {"none", "ended"} => ls[i].stop
  /\ Fresh(ls)
  /\ PastAccept(ls)

-----------------------------------------------------------------------------
LEMMA CleanIdle == LifeInv /\ ~app.running => Clean(loops)
BY DEF LifeInv, TypeOK, NoOrphanLoop, Clean, Alive, Loops

LEMMA CleanStopped == LifeInv => Clean(Stopped(loops))
<1> SUFFICES ASSUME LifeInv PROVE Clean(Stopped(loops))
  OBVIOUS
<1> DEFINE ls == Stopped(loops)
<1>1. loops \in [Ids -> Loops] /\ ls \in [Ids -> Loops]
  <2>1. loops \in [Ids -> Loops]
    BY DEF LifeInv, TypeOK, Loops
  <2>2. \A loop \in Loops : [loop EXCEPT !.stop = TRUE] \in Loops
    BY DEF Loops
  <2> QED
    BY <2>1, <2>2 DEF Stopped
<1>2. \A i \in Ids : ls[i].at = loops[i].at /\ (loops[i].stop => ls[i].stop)
                     /\ (i = opened => ls[i].stop)
  BY <1>1 DEF Stopped, Loops
<1>3. \A i \in Ids : ls[i].at \notin {"none", "ended"} => ls[i].stop
  BY <1>2 DEF LifeInv, NoOrphanLoop, Alive
<1>4. Fresh(ls) /\ PastAccept(ls)
  BY <1>2 DEF LifeInv, Fresh, PastAccept
<1> QED
  BY <1>1, <1>3, <1>4 DEF Clean

(* What is tried is one of the ports.                                      *)
LEMMA BindablePorts == ASSUME NEW wanted PROVE Bindable(wanted) \subseteq Ports
BY DEF Bindable, FreePorts

(* A listener is opened by a window that had none to its name.             *)
LEMMA Opening ==
  ASSUME LifeInv, NEW a \in Apps, NEW ls, NEW port \in Ports,
         Clean(ls), a.own_pin # None => a.pin = a.own_pin,
         Opens(a, ls, port), UNCHANGED <<linux, late>>
  PROVE  LifeInv'
<1> DEFINE new == [at |-> "check", port |-> port, pin |-> a.pin, stop |-> FALSE]
<1>1. opened \in Nat /\ MaxStarts \in Nat /\ opened' = opened + 1 /\ opened' \in Ids
  BY LifecycleAssumption DEF LifeInv, TypeOK, Opens, Ids
<1>2. new \in Loops
  BY DEF Apps, Loops
<1>3. /\ ls \in [Ids -> Loops]
      /\ loops' \in [Ids -> Loops]
      /\ loops'[opened'] = new
      /\ \A i \in Ids : i # opened' => loops'[i] = ls[i]
  BY <1>1, <1>2 DEF Opens, Clean
<1>4. /\ app' \in Apps
      /\ app'.running /\ app'.port = port /\ app'.pin = a.pin /\ app'.own_pin = a.own_pin
  BY DEF Opens, Apps
<1>5. TypeOK'
  <2>1. mdns_ad' \in Ports \cup {None}
    BY DEF Opens
  <2>2. listening' \in [Ids -> {"none", "binding", "on", "ended"}]
    BY DEF Opens, LifeInv, TypeOK
  <2>3. linux' \in BOOLEAN /\ late' \in [Ids -> 0..2]
    BY DEF LifeInv, TypeOK
  <2>4. opened' \in 0..MaxStarts
    BY <1>1 DEF Ids
  <2> QED
    BY <1>3, <1>4, <2>1, <2>2, <2>3, <2>4 DEF TypeOK, Apps, Loops
<1>6. NoOrphanLoop'
  BY <1>1, <1>3, <1>4 DEF NoOrphanLoop, Alive, Clean
<1>7. Fresh(loops)'
  BY <1>1, <1>3 DEF Fresh, Clean, Ids
<1>8. PastAccept(loops)'
  <2>1. late[opened'] = 0
    BY <1>1 DEF Clean, Fresh
  <2> QED
    BY <1>1, <1>3, <2>1 DEF PastAccept, Clean
<1>9. Newest'
  BY <1>1, <1>3, <1>4 DEF Newest, Alive
<1>10. OwnShown(app)'
  BY <1>4 DEF OwnShown
<1>11. AdvertisedIsServed'
  BY <1>3, <1>4 DEF AdvertisedIsServed, Opens
<1> QED
  BY <1>5, <1>6, <1>7, <1>8, <1>9, <1>10, <1>11 DEF LifeInv

(* A window is left stopped.                                               *)
LEMMA NotRunning ==
  ASSUME LifeInv, NEW a \in Apps, NEW ls,
         Clean(ls), ~a.running, OwnShown(a),
         app' = a, loops' = ls, mdns_ad' = None,
         UNCHANGED <<linux, opened, listening, late>>
  PROVE  LifeInv'
<1>1. TypeOK'
  BY DEF LifeInv, TypeOK, Clean, Apps, Loops
<1>2. NoOrphanLoop'
  BY DEF Clean, NoOrphanLoop, Alive
<1>3. Fresh(loops)' /\ PastAccept(loops)'
  BY DEF Clean, Fresh, PastAccept
<1>4. Newest' /\ OwnShown(app)' /\ AdvertisedIsServed'
  BY DEF Newest, OwnShown, AdvertisedIsServed
<1> QED
  BY <1>1, <1>2, <1>3, <1>4 DEF LifeInv

(* A stopped window advertises nothing.                                    *)
LEMMA Unadvertised == LifeInv /\ ~app.running => mdns_ad = None
BY DEF LifeInv, AdvertisedIsServed

(* The two starts.                                                         *)
LEMMA DesktopStarts ==
  ASSUME LifeInv, ~linux, NEW a \in Apps, OwnShown(a),
         StartDesktop(a), UNCHANGED <<linux, late>>
  PROVE  LifeInv'
<1> DEFINE s == [a EXCEPT !.running = FALSE, !.port = None]
<1>1. s \in Apps /\ ~s.running /\ OwnShown(s) /\ (s.own_pin # None => s.pin = s.own_pin)
  BY DEF Apps, OwnShown
<1>2. Clean(Stopped(loops))
  BY CleanStopped
<1>3. CASE \E port \in Bindable(a.field) : Opens(s, Stopped(loops), port)
  BY <1>1, <1>2, <1>3, BindablePorts, Opening
<1>4. CASE Fails(s, Stopped(loops)) /\ mdns_ad' = None
  <2> HIDE DEF s
  <2> QED
    BY <1>1, <1>2, <1>4, NotRunning DEF Fails
<1> QED
  BY <1>3, <1>4 DEF StartDesktop

LEMMA LinuxStarts ==
  ASSUME LifeInv, linux, NEW a \in Apps, NEW ls, ~a.running, Clean(ls),
         StartLinux(a, ls, None), UNCHANGED <<linux, late>>
  PROVE  LifeInv'
<1>1. CASE \E port \in Bindable(None), pin \in StartupPin(a.own_pin) :
             Opens([a EXCEPT !.pin = pin], ls, port)
  <2>1. PICK port \in Bindable(None), pin \in StartupPin(a.own_pin) :
               Opens([a EXCEPT !.pin = pin], ls, port)
    BY <1>1
  <2> DEFINE s == [a EXCEPT !.pin = pin]
  <2>2. s \in Apps /\ (s.own_pin # None => s.pin = s.own_pin)
    BY DEF Apps, StartupPin
  <2>3. port \in Ports
    BY BindablePorts
  <2> HIDE DEF s
  <2> QED
    BY <2>1, <2>2, <2>3, Opening DEF s
<1>2. CASE Fails(a, ls) /\ mdns_ad' = None
  BY <1>2, NotRunning DEF Fails, OwnShown
<1> QED
  BY <1>1, <1>2 DEF StartLinux

-----------------------------------------------------------------------------
(* One lemma for the window's actions, one for the threads'.               *)

LEMMA WindowStep == LifeInv /\ Window => LifeInv'
<1> SUFFICES ASSUME LifeInv, Window PROVE LifeInv'
  OBVIOUS
<1>0. app \in Apps /\ linux \in BOOLEAN
  BY DEF LifeInv, TypeOK, Apps
<1>1. CASE Start
  <2>1. CASE linux
    BY <1>0, <1>1, <2>1, CleanIdle, Unadvertised, LinuxStarts DEF Start
  <2>2. CASE ~linux
    BY <1>0, <1>1, <2>2, DesktopStarts DEF Start, LifeInv
  <2> QED
    BY <2>1, <2>2
<1>2. CASE Stop
  <2> DEFINE a == [app EXCEPT !.running = FALSE]
  <2>1. a \in Apps /\ ~a.running /\ OwnShown(a)
    BY <1>0, <1>2 DEF Apps, OwnShown, Stop
  <2> HIDE DEF a
  <2> QED
    BY <1>2, <2>1, CleanStopped, NotRunning DEF Stop, a
<1>3. CASE apply_own_pin
  <2>1. PICK own \in Pins \cup {None}, pin \in Pins :
          LET a == [app EXCEPT !.own_pin = own, !.pin = pin] IN
          IF linux
          THEN IF app.running
               THEN StartLinux([app EXCEPT !.running = FALSE, !.own_pin = own], Stopped(loops), None)
               ELSE pin \in StartupPin(own) /\ Fails(a, loops) /\ UNCHANGED mdns_ad
          ELSE /\ own # None => pin = own
               /\ IF app.running THEN StartDesktop(a) ELSE Fails(a, loops) /\ UNCHANGED mdns_ad
    BY <1>3 DEF apply_own_pin
  <2> DEFINE a == [app EXCEPT !.own_pin = own, !.pin = pin]
             b == [app EXCEPT !.running = FALSE, !.own_pin = own]
  <2>2. UNCHANGED <<linux, late>>
    BY <1>3 DEF apply_own_pin
  <2>3. a \in Apps /\ a.own_pin = own /\ a.pin = pin /\ (a.running = app.running)
    BY <1>0 DEF Apps
  <2>4. b \in Apps /\ ~b.running
    BY <1>0 DEF Apps
  <2>5. CASE linux /\ app.running
    <3>1. StartLinux(b, Stopped(loops), None)
      BY <2>1, <2>5
    <3> HIDE DEF b
    <3> QED
      BY <2>2, <2>4, <2>5, <3>1, CleanStopped, LinuxStarts
  <2>6. CASE linux /\ ~app.running
    <3>1. Fails(a, loops) /\ mdns_ad' = None
      BY <2>1, <2>6, Unadvertised
    <3>2. ~a.running /\ OwnShown(a)
      BY <2>3, <2>6 DEF OwnShown
    <3> HIDE DEF a
    <3> QED
      BY <2>2, <2>3, <2>6, <3>1, <3>2, CleanIdle, NotRunning DEF Fails
  <2>7. CASE ~linux /\ app.running
    <3>1. StartDesktop(a) /\ OwnShown(a)
      BY <2>1, <2>3, <2>7 DEF OwnShown
    <3> HIDE DEF a
    <3> QED
      BY <2>2, <2>3, <2>7, <3>1, DesktopStarts
  <2>8. CASE ~linux /\ ~app.running
    <3>1. Fails(a, loops) /\ mdns_ad' = None
      BY <2>1, <2>8, Unadvertised
    <3>2. ~a.running /\ OwnShown(a)
      BY <2>1, <2>3, <2>8 DEF OwnShown
    <3> HIDE DEF a
    <3> QED
      BY <2>2, <2>3, <2>8, <3>1, <3>2, CleanIdle, NotRunning DEF Fails
  <2> QED
    BY <1>0, <2>5, <2>6, <2>7, <2>8
<1>4. CASE RegeneratePin
  <2>1. PICK pin \in Pins :
          LET a == [app EXCEPT !.pin = pin, !.own_pin = None] IN
          IF app.running THEN StartDesktop(a) ELSE Fails(a, loops) /\ UNCHANGED mdns_ad
    BY <1>4 DEF RegeneratePin
  <2> DEFINE a == [app EXCEPT !.pin = pin, !.own_pin = None]
  <2>2. ~linux /\ UNCHANGED <<linux, late>>
    BY <1>4 DEF RegeneratePin
  <2>3. a \in Apps /\ OwnShown(a) /\ (a.running = app.running)
    BY <1>0 DEF Apps, OwnShown
  <2>4. CASE app.running
    <3>1. StartDesktop(a)
      BY <2>1, <2>4
    <3> HIDE DEF a
    <3> QED
      BY <2>2, <2>3, <3>1, DesktopStarts
  <2>5. CASE ~app.running
    <3>1. Fails(a, loops) /\ mdns_ad' = None /\ ~a.running
      BY <2>1, <2>3, <2>5, Unadvertised
    <3> HIDE DEF a
    <3> QED
      BY <2>2, <2>3, <2>5, <3>1, CleanIdle, NotRunning DEF Fails
  <2> QED
    BY <2>4, <2>5
<1>5. CASE TypePort
  <2>1. /\ app' \in Apps
        /\ app'.running = app.running /\ app'.pin = app.pin
        /\ app'.own_pin = app.own_pin /\ app'.port = app.port
    BY <1>0, <1>5 DEF TypePort, Apps
  <2>2. UNCHANGED <<linux, opened, loops, mdns_ad, listening, late>>
    BY <1>5 DEF TypePort
  <2>3. TypeOK'
    BY <2>1, <2>2 DEF LifeInv, TypeOK, Apps
  <2>4. NoOrphanLoop' /\ Fresh(loops)' /\ PastAccept(loops)'
    BY <2>1, <2>2 DEF LifeInv, NoOrphanLoop, Fresh, PastAccept, Alive
  <2>5. Newest' /\ OwnShown(app)' /\ AdvertisedIsServed'
    BY <2>1, <2>2 DEF LifeInv, Newest, OwnShown, AdvertisedIsServed, Alive
  <2> QED
    BY <2>3, <2>4, <2>5 DEF LifeInv
<1> QED
  BY <1>1, <1>2, <1>3, <1>4, <1>5 DEF Window

(* A thread moves its own loop, which keeps its port, PIN and flag; it     *)
(* ends only if it has been stopped.                                       *)
LEMMA LoopStep ==
  ASSUME LifeInv, NEW i \in Ids, NEW loop \in Loops, Alive(i),
         Moves(i, loop),
         loop.at # "none", loop.at = "ended" => loops[i].stop,
         loop.stop = loops[i].stop,
         loop.at # "ended" => loop.port = loops[i].port /\ loop.pin = loops[i].pin,
         late' \in [Ids -> 0..2],
         \A j \in Ids : j # i => late'[j] = late[j],
         late'[i] = 0 \/ (late'[i] = 1 /\ loop.stop /\ loop.at # "accept")
  PROVE  LifeInv'
<1>1. /\ loops \in [Ids -> Loops]
      /\ loops' \in [Ids -> Loops]
      /\ loops'[i] = loop
      /\ \A j \in Ids : j # i => loops'[j] = loops[j]
  BY DEF LifeInv, TypeOK, Moves, Loops
<1>2. UNCHANGED <<linux, app, opened, mdns_ad, listening>>
  BY DEF Moves
<1>3. TypeOK'
  BY <1>1, <1>2 DEF LifeInv, TypeOK, Loops
<1>4. NoOrphanLoop'
  BY <1>1, <1>2 DEF LifeInv, NoOrphanLoop, Alive
<1>5. ~(i > opened)
  BY DEF LifeInv, Fresh, Alive
<1>6. Fresh(loops)'
  BY <1>1, <1>2, <1>5 DEF LifeInv, Fresh
<1>7. PastAccept(loops)'
  BY <1>1 DEF LifeInv, PastAccept
<1>8. Newest'
  BY <1>1, <1>2 DEF LifeInv, Newest, Alive
<1>9. OwnShown(app)'
  BY <1>2 DEF LifeInv, OwnShown
<1>10. AdvertisedIsServed'
  BY <1>1, <1>2, <1>8 DEF LifeInv, AdvertisedIsServed, Newest, Alive
<1> QED
  BY <1>3, <1>4, <1>6, <1>7, <1>8, <1>9, <1>10 DEF LifeInv

LEMMA ThreadStep ==
  LifeInv /\ (\E i \in Ids : Serving(i) \/ LoopAccepts(i) \/ SessionEnds(i)) => LifeInv'
<1> SUFFICES ASSUME LifeInv, NEW i \in Ids, Serving(i) \/ LoopAccepts(i) \/ SessionEnds(i)
             PROVE  LifeInv'
  OBVIOUS
<1>1. loops[i] \in Loops /\ late \in [Ids -> 0..2]
  BY DEF LifeInv, TypeOK, Loops
<1>2. late[i] = 0 \/ (late[i] = 1 /\ loops[i].stop /\ loops[i].at # "accept")
  BY DEF LifeInv, PastAccept
<1>3. CASE LoopChecks(i)
  <2>1. CASE loops[i].stop
    <3> DEFINE loop == Ended
    <3>1. loop \in Loops /\ loop.at = "ended" /\ loop.stop
      BY DEF Ended, NoLoop, Loops
    <3>2. Moves(i, loop) /\ late' = late /\ Alive(i)
      BY <1>3, <2>1 DEF LoopChecks, Alive
    <3> HIDE DEF loop
    <3> QED
      BY <1>1, <1>2, <2>1, <3>1, <3>2, LoopStep
  <2>2. CASE ~loops[i].stop
    <3> DEFINE loop == [loops[i] EXCEPT !.at = "accept"]
    <3>1. loop \in Loops /\ loop.at = "accept" /\ loop.stop = loops[i].stop
          /\ loop.port = loops[i].port /\ loop.pin = loops[i].pin
      BY <1>1 DEF Loops
    <3>2. Moves(i, loop) /\ late' = late /\ Alive(i)
      BY <1>3, <2>2 DEF LoopChecks, Alive
    <3> HIDE DEF loop
    <3> QED
      BY <1>1, <1>2, <2>2, <3>1, <3>2, LoopStep
  <2> QED
    BY <2>1, <2>2
<1>4. ASSUME NEW at \in {"check", "handshake", "session"}, Alive(i),
             Moves(i, [loops[i] EXCEPT !.at = at]),
             late' \in [Ids -> 0..2], \A j \in Ids : j # i => late'[j] = late[j],
             late'[i] = 0 \/ (late'[i] = 1 /\ loops[i].stop)
      PROVE  LifeInv'
  <2> DEFINE loop == [loops[i] EXCEPT !.at = at]
  <2>1. loop \in Loops /\ loop.at = at /\ loop.stop = loops[i].stop
        /\ loop.port = loops[i].port /\ loop.pin = loops[i].pin
    BY <1>1, <1>4 DEF Loops
  <2>2. Moves(i, loop)
    BY <1>4
  <2> HIDE DEF loop
  <2> QED
    BY <1>4, <2>1, <2>2, LoopStep
<1>5. CASE LoopNaps(i)
  <2>1. Alive(i) /\ Moves(i, [loops[i] EXCEPT !.at = "check"]) /\ late' = late
    BY <1>5 DEF LoopNaps, Alive
  <2> QED
    BY <1>1, <1>2, <1>4, <2>1
<1>6. CASE HandshakeEnds(i)
  <2>1. PICK at \in {"session", "check"} : Moves(i, [loops[i] EXCEPT !.at = at])
    BY <1>6 DEF HandshakeEnds
  <2>2. Alive(i) /\ late' = late
    BY <1>6 DEF HandshakeEnds, Alive
  <2> QED
    BY <1>1, <1>2, <1>4, <2>1, <2>2
<1>7. CASE SessionEnds(i)
  <2>1. Alive(i) /\ Moves(i, [loops[i] EXCEPT !.at = "check"]) /\ late' = late
    BY <1>7 DEF SessionEnds, Alive
  <2> QED
    BY <1>1, <1>2, <1>4, <2>1
<1>8. CASE LoopAccepts(i)
  <2>1. Alive(i) /\ Moves(i, [loops[i] EXCEPT !.at = "handshake"]) /\ late[i] = 0
    BY <1>2, <1>8 DEF LoopAccepts, Alive
  <2>2. late'[i] = IF loops[i].stop THEN 1 ELSE 0
    BY <1>1, <1>8, <2>1 DEF LoopAccepts
  <2>3. late' \in [Ids -> 0..2] /\ \A j \in Ids : j # i => late'[j] = late[j]
    BY <1>1, <1>8, <2>1 DEF LoopAccepts
  <2> QED
    BY <1>4, <2>1, <2>2, <2>3
<1> QED
  BY <1>3, <1>5, <1>6, <1>7, <1>8 DEF Serving

(* The discovery listener has no part in it.                               *)
LEMMA Elsewhere ==
  ASSUME LifeInv, UNCHANGED <<linux, app, opened, loops, mdns_ad, late>>,
         listening' \in [Ids -> {"none", "binding", "on", "ended"}]
  PROVE  LifeInv'
<1>1. TypeOK'
  BY DEF LifeInv, TypeOK
<1>2. NoOrphanLoop' /\ Fresh(loops)' /\ PastAccept(loops)'
  BY DEF LifeInv, NoOrphanLoop, Fresh, PastAccept, Alive
<1>3. Newest' /\ OwnShown(app)' /\ AdvertisedIsServed'
  BY DEF LifeInv, Newest, OwnShown, AdvertisedIsServed, Alive
<1> QED
  BY <1>1, <1>2, <1>3 DEF LifeInv

LEMMA LifeStart == Init => LifeInv
<1> SUFFICES ASSUME Init PROVE LifeInv
  OBVIOUS
<1>1. app \in Apps /\ ~app.running /\ app.pin \in StartupPin(app.own_pin)
  BY DEF Init, Apps
<1>2. opened = 0 /\ mdns_ad = None /\ linux \in BOOLEAN
      /\ \A i \in Ids : loops[i] = NoLoop /\ late[i] = 0
  BY DEF Init
<1>3. TypeOK
  <2>1. NoLoop \in Loops
    BY DEF NoLoop, Loops
  <2>2. opened \in 0..MaxStarts
    BY <1>2, LifecycleAssumption
  <2> QED
    BY <1>1, <1>2, <2>1, <2>2 DEF TypeOK, Init, Apps, Loops
<1>4. NoOrphanLoop /\ Fresh(loops) /\ PastAccept(loops)
  BY <1>2 DEF NoOrphanLoop, Fresh, PastAccept, Alive, NoLoop
<1>5. Newest /\ OwnShown(app) /\ AdvertisedIsServed
  BY <1>1, <1>2 DEF Newest, OwnShown, AdvertisedIsServed, StartupPin
<1> QED
  BY <1>3, <1>4, <1>5 DEF LifeInv

LEMMA LifeNext == LifeInv /\ [Next]_vars => LifeInv'
<1> SUFFICES ASSUME LifeInv, [Next]_vars PROVE LifeInv'
  OBVIOUS
<1>1. CASE Window
  BY <1>1, WindowStep
<1>2. CASE \E i \in Ids : Serving(i) \/ LoopAccepts(i) \/ SessionEnds(i)
  BY <1>2, ThreadStep
<1>3. CASE \E i \in Ids : ListenerBinds(i) \/ ListenerStops(i)
  <2>1. PICK i \in Ids : ListenerBinds(i) \/ ListenerStops(i)
    BY <1>3
  <2>2. listening' \in [Ids -> {"none", "binding", "on", "ended"}]
    BY <2>1 DEF ListenerBinds, ListenerStops, LifeInv, TypeOK
  <2>3. UNCHANGED <<linux, app, opened, loops, mdns_ad, late>>
    BY <2>1 DEF ListenerBinds, ListenerStops
  <2> QED
    BY <2>2, <2>3, Elsewhere
<1>4. CASE UNCHANGED vars
  BY <1>4, Elsewhere DEF vars, LifeInv, TypeOK
<1> QED
  BY <1>1, <1>2, <1>3, <1>4 DEF Next

LEMMA LifeInvariant == Spec => []LifeInv
BY LifeStart, LifeNext, PTL DEF Spec

-----------------------------------------------------------------------------

(* TypeOK: the windows' and loops' variables keep their types.             *)
THEOREM LifecycleTypes == Spec => []TypeOK
<1>1. LifeInv => TypeOK
  BY DEF LifeInv
<1> QED
  BY LifeInvariant, <1>1, PTL

(* NoOrphanLoop: a window has told every loop but its newest to stop, and  *)
(* all of them when it is not running (start, stop, apply_own_pin).        *)
THEOREM OneLoopAtMost == Spec => []NoOrphanLoop
<1>1. LifeInv => NoOrphanLoop
  BY DEF LifeInv
<1> QED
  BY LifeInvariant, <1>1, PTL

(* ShownIsServed: the PIN and the address in the window are those of a     *)
(* loop that is accepting.                                                 *)
THEOREM ShownServed == Spec => []ShownIsServed
<1>1. LifeInv => ShownIsServed
  BY DEF LifeInv, Newest, ShownIsServed
<1> QED
  BY LifeInvariant, <1>1, PTL

(* OwnPinEnforced: a PIN of your own is the one the running loop demands.  *)
THEOREM OwnEnforced == Spec => []OwnPinEnforced
<1>1. LifeInv => OwnPinEnforced
  BY DEF LifeInv, Newest, OwnShown, OwnPinEnforced
<1> QED
  BY LifeInvariant, <1>1, PTL

(* ServedAsShown: both, of what the window shows.                          *)
THEOREM ServedShown == Spec => []ServedAsShown
BY ShownServed, OwnEnforced, PTL DEF ServedAsShown

(* AdvertisedIsServed: only a running host is advertised, at its port.     *)
THEOREM AdvertisedServed == Spec => []AdvertisedIsServed
<1>1. LifeInv => AdvertisedIsServed
  BY DEF LifeInv
<1> QED
  BY LifeInvariant, <1>1, PTL

(* AtMostOneLate: a loop that has been stopped lets in one more client at  *)
(* most, because it looks at its flag before each accept.                  *)
THEOREM OneLateClient == Spec => []AtMostOneLate
<1>1. LifeInv => AtMostOneLate
  BY DEF LifeInv, PastAccept, AtMostOneLate
<1> QED
  BY LifeInvariant, <1>1, PTL

-----------------------------------------------------------------------------
(***************************************************************************)
(* The clicker.  Counting the keys through the requests still to come: the *)
(* count, once they are in, is the slide on the screen.  It is known from  *)
(* where it stands now, or from the last key that goes to an end.          *)
(***************************************************************************)
Moved(i, req, pages) == IF req \in Nav THEN apply_index(i, req, pages) ELSE i
Arrives(reqs, i, pages, p) ==
  \E k \in 0 .. Len(reqs) : \E c \in [0 .. Len(reqs) -> Nat] :
    /\ k = 0 => c[0] = i
    /\ k > 0 => reqs[k] \in {"home", "end"} /\ c[k] = Moved(0, reqs[k], pages)
    /\ \A j \in k + 1 .. Len(reqs) : c[j] = Moved(c[j - 1], reqs[j], pages)
    /\ c[Len(reqs)] = p

LEMMA MovedNat ==
  ASSUME NEW i \in Nat, NEW pages \in Nat, NEW req
  PROVE  /\ Moved(i, req, pages) \in Nat
         /\ req \in {"home", "end"} => Moved(i, req, pages) = Moved(0, req, pages)
<1>1. CASE req \notin Nav
  BY <1>1 DEF Moved, Nav
<1>2. CASE req \in Nav
  <2>1. Moved(i, req, pages) = apply_index(i, req, pages) /\ Moved(0, req, pages) = apply_index(0, req, pages)
    BY <1>2 DEF Moved
  <2>2. apply_index(i, req, pages) \in Nat
    BY <1>2 DEF apply_index, Nav
  <2>3. req \in {"home", "end"} => apply_index(i, req, pages) = apply_index(0, req, pages)
    BY DEF apply_index
  <2> QED BY <2>1, <2>2, <2>3
<1> QED BY <1>1, <1>2

LEMMA ArrivesMore ==
  ASSUME NEW r \in Seq(Events), NEW e \in Events, NEW i \in Nat, NEW pages \in Nat, NEW p \in Nat,
         Arrives(r, i, pages, p)
  PROVE  Arrives(Append(r, e), i, pages, Moved(p, e, pages))
<1> DEFINE n == Len(r)
           s == Append(r, e)
<1>1. n \in Nat /\ Len(s) = n + 1 /\ s[n + 1] = e /\ \A j \in 1 .. n : s[j] = r[j]
  OBVIOUS
<1>2. PICK k \in 0 .. n : \E c \in [0 .. n -> Nat] :
        /\ k = 0 => c[0] = i
        /\ k > 0 => r[k] \in {"home", "end"} /\ c[k] = Moved(0, r[k], pages)
        /\ \A j \in k + 1 .. n : c[j] = Moved(c[j - 1], r[j], pages)
        /\ c[n] = p
  BY DEF Arrives
<1>3. PICK c \in [0 .. n -> Nat] :
        /\ k = 0 => c[0] = i
        /\ k > 0 => r[k] \in {"home", "end"} /\ c[k] = Moved(0, r[k], pages)
        /\ \A j \in k + 1 .. n : c[j] = Moved(c[j - 1], r[j], pages)
        /\ c[n] = p
  BY <1>2
<1> DEFINE x == Moved(p, e, pages)
           d == [j \in 0 .. n + 1 |-> IF j = n + 1 THEN x ELSE c[j]]
<1>4. x \in Nat
  BY MovedNat
<1> HIDE DEF n, s, x
<1>5. d \in [0 .. n + 1 -> Nat] /\ d[n + 1] = x /\ \A j \in 0 .. n : d[j] = c[j]
  BY <1>1, <1>4
<1> HIDE DEF d
<1>6. k \in 0 .. n + 1 /\ (k = 0 => d[0] = i)
  BY <1>1, <1>3, <1>5
<1>7. k > 0 => s[k] \in {"home", "end"} /\ d[k] = Moved(0, s[k], pages)
  BY <1>1, <1>3, <1>5
<1>8. ASSUME NEW j \in k + 1 .. n + 1 PROVE d[j] = Moved(d[j - 1], s[j], pages)
  <2>1. CASE j = n + 1
    <3>1. d[j] = x /\ d[j - 1] = p /\ s[j] = e
      BY <1>1, <1>3, <1>5, <2>1
    <3> QED BY <3>1 DEF x
  <2>2. CASE j # n + 1
    <3>1. j \in 1 .. n /\ j - 1 \in 0 .. n /\ j \in k + 1 .. n
      BY <1>1, <2>2
    <3> QED BY <1>1, <1>3, <1>5, <3>1
  <2> QED BY <2>1, <2>2
<1>9. Arrives(s, i, pages, x)
  BY <1>1, <1>5, <1>6, <1>7, <1>8 DEF Arrives
<1> QED BY <1>9 DEF s, x

LEMMA ArrivesAnew ==
  ASSUME NEW r \in Seq(Events), NEW e \in {"home", "end"}, NEW i \in Nat, NEW pages \in Nat
  PROVE  Arrives(Append(r, e), i, pages, Moved(0, e, pages))
<1> DEFINE n == Len(r)
           s == Append(r, e)
           x == Moved(0, e, pages)
           d == [j \in 0 .. n + 1 |-> x]
<1>1. n \in Nat /\ Len(s) = n + 1 /\ s[n + 1] = e
  OBVIOUS
<1>2. x \in Nat
  BY MovedNat
<1> HIDE DEF n, s, x
<1>3. d \in [0 .. n + 1 -> Nat] /\ d[n + 1] = x
  BY <1>1, <1>2
<1> HIDE DEF d
<1>4. n + 1 \in 0 .. n + 1 /\ n + 1 > 0 /\ s[n + 1] \in {"home", "end"} /\ d[n + 1] = Moved(0, s[n + 1], pages)
  BY <1>1, <1>3 DEF x
<1>5. \A j \in (n + 1) + 1 .. n + 1 : d[j] = Moved(d[j - 1], s[j], pages)
  BY <1>1
<1>6. Arrives(s, i, pages, x)
  BY <1>1, <1>3, <1>4, <1>5 DEF Arrives
<1> QED BY <1>6 DEF s, x

LEMMA ArrivesFewer ==
  ASSUME NEW r \in Seq(Events), r # <<>>, NEW i \in Nat, NEW pages \in Nat, NEW p, Arrives(r, i, pages, p)
  PROVE  Arrives(Tail(r), Moved(i, Head(r), pages), pages, p)
<1> DEFINE n == Len(r)
           s == Tail(r)
           x == Moved(i, Head(r), pages)
<1>1. n \in Nat /\ n >= 1 /\ Len(s) = n - 1 /\ (\A j \in 1 .. n - 1 : s[j] = r[j + 1]) /\ Head(r) = r[1]
  OBVIOUS
<1>2. PICK k \in 0 .. n : \E c \in [0 .. n -> Nat] :
        /\ k = 0 => c[0] = i
        /\ k > 0 => r[k] \in {"home", "end"} /\ c[k] = Moved(0, r[k], pages)
        /\ \A j \in k + 1 .. n : c[j] = Moved(c[j - 1], r[j], pages)
        /\ c[n] = p
  BY DEF Arrives
<1>3. PICK c \in [0 .. n -> Nat] :
        /\ k = 0 => c[0] = i
        /\ k > 0 => r[k] \in {"home", "end"} /\ c[k] = Moved(0, r[k], pages)
        /\ \A j \in k + 1 .. n : c[j] = Moved(c[j - 1], r[j], pages)
        /\ c[n] = p
  BY <1>2
<1> DEFINE d == [j \in 0 .. n - 1 |-> c[j + 1]]
           l == IF k = 0 THEN 0 ELSE k - 1
<1>4. x = Moved(i, r[1], pages) /\ (r[1] \in {"home", "end"} => x = Moved(0, r[1], pages))
  BY <1>1, MovedNat
<1> HIDE DEF n, s, x
<1>5. d \in [0 .. n - 1 -> Nat] /\ \A j \in 0 .. n - 1 : d[j] = c[j + 1]
  BY <1>1
<1> HIDE DEF d
<1>6. l \in 0 .. n - 1 /\ (l = 0 <=> k \in {0, 1}) /\ (l > 0 => k = l + 1)
  BY <1>1
<1>7. l = 0 => d[0] = x
  <2>1. d[0] = c[1]
    BY <1>1, <1>5
  <2>2. CASE k = 0
    <3>1. 1 \in k + 1 .. n /\ c[1 - 1] = i
      BY <1>1, <1>3, <2>2
    <3>2. c[1] = Moved(c[1 - 1], r[1], pages)
      BY <1>3, <3>1
    <3> QED BY <1>4, <2>1, <3>1, <3>2
  <2>3. CASE k = 1
    BY <1>3, <1>4, <2>1, <2>3
  <2> QED BY <1>6, <2>2, <2>3
<1>8. l > 0 => s[l] \in {"home", "end"} /\ d[l] = Moved(0, s[l], pages)
  <2> HAVE l > 0
  <2>1. k = l + 1 /\ l \in 1 .. n - 1 /\ s[l] = r[k] /\ d[l] = c[k] /\ k > 0
    BY <1>1, <1>5, <1>6
  <2> QED BY <1>3, <2>1
<1>9. ASSUME NEW j \in l + 1 .. n - 1 PROVE d[j] = Moved(d[j - 1], s[j], pages)
  <2>1. j + 1 \in k + 1 .. n /\ j \in 1 .. n - 1 /\ j - 1 \in 0 .. n - 1 /\ j \in 0 .. n - 1
        /\ (j - 1) + 1 = j /\ (j + 1) - 1 = j
    BY <1>1, <1>6
  <2>2. c[j + 1] = Moved(c[(j + 1) - 1], r[j + 1], pages)
    BY <1>3, <2>1
  <2>3. d[j] = c[j + 1] /\ d[j - 1] = c[j] /\ s[j] = r[j + 1]
    BY <1>1, <1>5, <2>1
  <2> QED BY <2>1, <2>2, <2>3
<1>10. d[n - 1] = p
  BY <1>1, <1>3, <1>5
<1> HIDE DEF l
<1>11. Arrives(s, x, pages, p)
  BY <1>1, <1>5, <1>6, <1>7, <1>8, <1>9, <1>10 DEF Arrives
<1> QED BY <1>11 DEF s, x

LEMMA ArrivesFlat ==
  ASSUME NEW r \in Seq(Events), NEW i \in Nat, NEW pages \in Nat, \A j \in DOMAIN r : r[j] \notin Nav
  PROVE  Arrives(r, i, pages, i)
<1> DEFINE n == Len(r)
           d == [j \in 0 .. n |-> i]
<1>1. n \in Nat /\ DOMAIN r = 1 .. n
  OBVIOUS
<1> HIDE DEF n
<1>2. d \in [0 .. n -> Nat] /\ \A j \in 0 .. n : d[j] = i
  OBVIOUS
<1> HIDE DEF d
<1>3. \A j \in 0 + 1 .. n : d[j] = Moved(d[j - 1], r[j], pages)
  <2> TAKE j \in 0 + 1 .. n
  <2>1. j \in 0 .. n /\ j - 1 \in 0 .. n /\ j \in DOMAIN r
    BY <1>1
  <2> QED BY <1>2, <2>1 DEF Moved
<1>4. 0 \in 0 .. n /\ d[0] = i /\ d[n] = i /\ ~(0 > 0)
  BY <1>1, <1>2
<1> QED BY <1>2, <1>3, <1>4 DEF Arrives, n

LEMMA Arrived ==
  ASSUME NEW i, NEW pages, NEW p, Arrives(<<>>, i, pages, p)
  PROVE  p = i
<1>1. Len(<<>>) = 0
  OBVIOUS
<1> QED BY <1>1 DEF Arrives

-----------------------------------------------------------------------------
(* The inductive invariant of a clicker session.                           *)
ScanStates == {"scan", "first", "turn", "look", "back"}
Sending == {"greet", "send"}

(* Where the threads are, and what that goes with.                         *)
ClickerPlace ==
  /\ input = "inject" => event \in Nav \cup {"other", "mouse"}
  /\ input = "post" => event \in Events
  /\ scan \/ refresh => snap \in {"drain", "ended"}
  /\ snap = "ended" \/ ~open => client = "gone"
  /\ snap = "first" => cache = <<>>
  /\ snap = "look" => Len(cache) < SCAN_MAX_PAGES

(* What the snapshot thread has been told of, or is about to be.           *)
Requests == IF input = "post" THEN Append(queue, event) ELSE queue

(* A picture is still to be taken.                                         *)
WillGrab ==
  \/ snap \in {"hello", "grab"} \cup ScanStates \/ scan \/ refresh
  \/ \E i \in DOMAIN Requests : Requests[i] \in Nav \cup {"other", "focus", "show", "scan"}

ShownFresh ==
  client # "gone" /\ ~stale =>
    \/ WillGrab
    \/ snap \in Sending /\ grab = Screen /\ grab # Blank
    \/ snap \notin Sending /\ seen = Screen

TilesFresh ==
  client # "gone" => WillGrab \/ snap \in Sending \/ tiles = [o \in {-1, 1} |-> Neighbour(o)]

(* Nobody turns a page behind a scan that is to be of use.                 *)
Undisturbed ==
  lost # "cache" =>
    /\ \A i, j \in DOMAIN Requests : i < j /\ Requests[i] = "scan" => Requests[j] \notin Nav
    /\ scan \/ snap \in ScanStates => \A j \in DOMAIN Requests : Requests[j] \notin Nav

ScanProgress ==
  lost # "cache" /\ snap \in {"first", "turn", "look", "back"} =>
    /\ focus
    /\ snap = "first" => page = 1
    /\ Scannable /\ snap # "first" =>
         /\ cache # <<>> /\ Len(cache) <= Len(deck) /\ \A i \in 1 .. Len(cache) : cache[i] = deck[i]
         /\ snap = "turn" => page = Len(cache)
         /\ snap = "look" => page = IF Len(cache) < Len(deck) THEN Len(cache) + 1 ELSE Len(cache)
         /\ snap = "back" => Len(cache) = Len(deck)

(* The slides are known, and the count is right once the requests are in.  *)
Following ==
  /\ lost # "cache" /\ ~Scanning /\ cache # <<>> /\ Scannable => cache = deck
  /\ lost = "no" /\ ~Scanning =>
       focus /\ (cache # <<>> /\ Scannable => Arrives(Requests, idx, Len(cache), page - 1))

ClickerInv == /\ ClickerTypes /\ ClickerPlace /\ ShownFresh /\ TilesFresh
              /\ Undisturbed /\ ScanProgress /\ Following

-----------------------------------------------------------------------------
(* What the types and the places say of the document and the requests.     *)
LEMMA DeckFacts ==
  ASSUME ClickerTypes
  PROVE  /\ Len(deck) \in Nat /\ Len(deck) >= 1 /\ DOMAIN deck = 1 .. Len(deck) /\ page \in 1 .. Len(deck)
         /\ \A i \in 1 .. Len(deck) : deck[i] \in Looks /\ deck[i] # Blank
         /\ Screen \in Looks /\ Blank \in Looks
         /\ Len(cache) \in Nat /\ DOMAIN cache = 1 .. Len(cache) /\ (cache = <<>> <=> Len(cache) = 0)
         /\ \A o \in {-1, 1} : Neighbour(o) \in Looks
<1>1. /\ deck \in Decks /\ page \in DOMAIN deck /\ deck \in Seq({deck[i] : i \in DOMAIN deck}) /\ deck # <<>>
      /\ \A i \in DOMAIN deck : deck[i] \notin {Other, Blank}
  BY ClickerAssumption DEF ClickerTypes
<1>2. Len(deck) \in Nat /\ Len(deck) >= 1 /\ DOMAIN deck = 1 .. Len(deck)
  BY <1>1
<1>3. \A i \in DOMAIN deck : deck[i] \in Looks
  BY <1>1 DEF Looks
<1>4. Other \in Looks /\ Blank \in Looks
  BY DEF Looks
<1>5. Screen \in Looks
  BY <1>1, <1>3, <1>4 DEF Screen
<1>6. cache \in Seq(Looks)
  BY DEF ClickerTypes
<1>7. /\ Len(cache) \in Nat /\ DOMAIN cache = 1 .. Len(cache) /\ (cache = <<>> <=> Len(cache) = 0)
      /\ \A i \in DOMAIN cache : cache[i] \in Looks
  BY <1>6
<1>8. \A o \in {-1, 1} : Neighbour(o) \in Looks
  BY <1>4, <1>7 DEF Neighbour
<1> QED BY <1>1, <1>2, <1>3, <1>4, <1>5, <1>7, <1>8

LEMMA TurnedFacts ==
  ASSUME ClickerTypes, NEW key \in Nav
  PROVE  /\ Turned(key) \in DOMAIN deck /\ (~focus => Turned(key) = page)
         /\ focus => Turned(key) - 1 = Moved(page - 1, key, Len(deck))
         /\ focus /\ key \in {"home", "end"} => Turned(key) - 1 = Moved(0, key, Len(deck))
         /\ focus /\ key = "home" => Turned(key) = 1
         /\ focus /\ key = "next" => Turned(key) = IF page < Len(deck) THEN page + 1 ELSE page
<1> DEFINE n == Len(deck)
<1>1. n \in Nat /\ n >= 1 /\ DOMAIN deck = 1 .. n /\ page \in 1 .. n
  BY DeckFacts
<1>2. \A i : Moved(i, key, n) = apply_index(i, key, n)
  BY DEF Moved
<1>3. CASE key = "next"
  BY <1>1, <1>2, <1>3 DEF Turned, apply_index
<1>4. CASE key = "prev"
  BY <1>1, <1>2, <1>4 DEF Turned, apply_index
<1>5. CASE key = "home"
  BY <1>1, <1>2, <1>5 DEF Turned, apply_index
<1>6. CASE key = "end"
  BY <1>1, <1>2, <1>6 DEF Turned, apply_index
<1> QED BY <1>3, <1>4, <1>5, <1>6 DEF Nav

LEMMA RequestsType == ASSUME ClickerTypes, ClickerPlace PROVE Requests \in Seq(Events)
<1>1. queue \in Seq(Events) /\ (input = "post" => event \in Events)
  BY DEF ClickerTypes, ClickerPlace
<1> QED BY <1>1 DEF Requests

(* What a step that takes nobody anywhere keeps.                           *)
LEMMA FollowSame ==
  ASSUME ClickerInv, UNCHANGED <<deck, page, focus, idx, cache, lost>>, Requests' = Requests,
         Scanning' <=> Scanning, scan' \/ snap' \in ScanStates => scan \/ snap \in ScanStates,
         snap' \in {"first", "turn", "look", "back"} => snap' = snap
  PROVE  Undisturbed' /\ ScanProgress' /\ Following'
<1>1. Scannable' <=> Scannable
  BY DEF Scannable
<1>2. Undisturbed'
  BY DEF ClickerInv, Undisturbed
<1>3. ScanProgress'
  BY <1>1 DEF ClickerInv, ScanProgress
<1>4. Following'
  <2>1. Arrives(Requests, idx, Len(cache), page - 1)' <=> Arrives(Requests, idx, Len(cache), page - 1)
    OBVIOUS
  <2> QED BY <1>1, <2>1 DEF ClickerInv, Following
<1> QED BY <1>2, <1>3, <1>4

(* ... and one that brings a request that turns no page.                   *)
LEMMA FollowMore ==
  ASSUME ClickerInv, UNCHANGED <<deck, page, focus, idx, cache, lost, queue, scan, snap>>,
         NEW e \in Events, e \notin Nav, Requests' = Append(Requests, e)
  PROVE  Undisturbed' /\ ScanProgress' /\ Following'
<1>1. (Scannable' <=> Scannable) /\ (Scanning' <=> Scanning)
  BY DEF Scannable, Scanning
<1> DEFINE r == Requests
           n == Len(r)
<1>2. r \in Seq(Events) /\ n \in Nat
  BY RequestsType DEF ClickerInv
<1>3. Len(Requests') = n + 1 /\ DOMAIN Requests' = 1 .. n + 1 /\ DOMAIN r = 1 .. n
      /\ Requests'[n + 1] = e /\ \A i \in 1 .. n : Requests'[i] = r[i]
  BY <1>2
<1>4. Undisturbed'
  <2> HIDE DEF r, n
  <2>1. \A i \in DOMAIN Requests' : (i \in DOMAIN r /\ Requests'[i] = r[i]) \/ (i = n + 1 /\ Requests'[i] = e)
    BY <1>2, <1>3
  <2> SUFFICES ASSUME lost # "cache" PROVE Undisturbed'
    BY DEF Undisturbed
  <2>2. /\ \A i, j \in DOMAIN r : i < j /\ r[i] = "scan" => r[j] \notin Nav
        /\ scan \/ snap \in ScanStates => \A j \in DOMAIN r : r[j] \notin Nav
    BY DEF ClickerInv, Undisturbed, r
  <2>3. \A i, j \in DOMAIN Requests' : i < j /\ Requests'[i] = "scan" => Requests'[j] \notin Nav
    <3> TAKE i, j \in DOMAIN Requests'
    <3> HAVE i < j /\ Requests'[i] = "scan"
    <3>1. CASE j = n + 1
      BY <1>3, <3>1
    <3>2. CASE j # n + 1
      <4>1. i \in DOMAIN r /\ j \in DOMAIN r
        BY <1>2, <1>3, <3>2
      <4> QED BY <1>3, <2>2, <4>1
    <3> QED BY <3>1, <3>2
  <2>4. scan \/ snap \in ScanStates => \A j \in DOMAIN Requests' : Requests'[j] \notin Nav
    BY <2>1, <2>2
  <2> QED BY <2>3, <2>4 DEF Undisturbed
<1>5. ScanProgress'
  BY <1>1 DEF ClickerInv, ScanProgress
<1>6. Following'
  <2>1. idx \in Nat /\ Len(cache) \in Nat /\ page - 1 \in Nat
    BY DeckFacts DEF ClickerInv, ClickerTypes
  <2>2. Arrives(Requests, idx, Len(cache), page - 1) => Arrives(Requests', idx, Len(cache), page - 1)
    <3> HAVE Arrives(Requests, idx, Len(cache), page - 1)
    <3>1. Arrives(Requests', idx, Len(cache), Moved(page - 1, e, Len(cache)))
      BY <1>2, <2>1, ArrivesMore
    <3> QED BY <3>1 DEF Moved
  <2> QED BY <1>1, <2>2 DEF ClickerInv, Following
<1> QED BY <1>4, <1>5, <1>6

LEMMA FreshSame ==
  ASSUME ClickerInv, UNCHANGED <<deck, page, focus, idx, cache, grab, seen, tiles>>,
         client' # "gone" => client # "gone", stale => stale', WillGrab => WillGrab',
         snap \in Sending <=> snap' \in Sending
  PROVE  ShownFresh' /\ TilesFresh'
<1>1. Screen' = Screen
  BY DEF Screen
<1>2. \A o \in {-1, 1} : Neighbour(o)' = Neighbour(o)
  BY DEF Neighbour
<1>3. [o \in {-1, 1} |-> Neighbour(o)]' = [o \in {-1, 1} |-> Neighbour(o)]
  BY <1>2
<1>4. ShownFresh'
  BY <1>1 DEF ClickerInv, ShownFresh
<1>5. TilesFresh'
  BY <1>3 DEF ClickerInv, TilesFresh
<1> QED BY <1>4, <1>5

LEMMA FreshWill == ASSUME WillGrab' PROVE ShownFresh' /\ TilesFresh'
  BY DEF ShownFresh, TilesFresh

(* Once a scan has been disturbed, nothing is claimed of it.                *)
LEMMA LostAll == ASSUME lost' = "cache" PROVE Undisturbed' /\ ScanProgress' /\ Following'
  BY DEF Undisturbed, ScanProgress, Following

(* Somebody has turned the page while no scan was asked for.               *)
LEMMA CountLost ==
  ASSUME ClickerInv, ~Scanning, UNCHANGED <<deck, cache>>, lost' \in {"count", "cache"},
         lost' # "cache" => lost # "cache", ~Scanning',
         \A i \in DOMAIN Requests' : Requests'[i] = "scan" => \A j \in DOMAIN Requests' : i < j => Requests'[j] \notin Nav
  PROVE  Undisturbed' /\ ScanProgress' /\ Following'
<1>1. ~(scan' \/ snap' \in ScanStates)
  BY DEF Scanning, ScanStates
<1>2. Undisturbed' /\ ScanProgress'
  BY <1>1 DEF Undisturbed, ScanProgress, ScanStates
<1>3. Following'
  BY DEF ClickerInv, Following, Scannable
<1> QED BY <1>2, <1>3

-----------------------------------------------------------------------------
(* The input thread's steps.                                               *)
(* What is asked for with another request is asked for still.               *)
LEMMA WillMore ==
  ASSUME ClickerInv, UNCHANGED <<snap, scan, refresh>>, NEW e \in Events,
         Requests' = Requests \/ Requests' = Append(Requests, e)
  PROVE  WillGrab => WillGrab'
<1>1. Requests \in Seq(Events)
  BY RequestsType DEF ClickerInv
<1>2. \A i \in DOMAIN Requests : i \in DOMAIN Requests' /\ Requests'[i] = Requests[i]
  BY <1>1
<1> QED BY <1>2 DEF WillGrab, ScanStates

LEMMA ReadsKeeps == ASSUME ClickerInv, Reads PROVE ClickerInv'
<1>1. ClickerTypes /\ ClickerPlace /\ input = "read" /\ Requests = queue
  BY DEF ClickerInv, Reads, Requests
<1>2. ClickerTypes' /\ ClickerPlace'
  <2>1. CASE client # "gone"
    <3>1. /\ left' = left - 1 /\ left > 0 /\ event' \in Events /\ open' = open
          /\ input' = IF event' \in {"scan", "list", "focus", "show"} THEN "post" ELSE "inject"
          /\ UNCHANGED <<doc, client, queue, host, seen, tiles, ghosts>>
      BY <2>1 DEF Reads
    <3>2. left' \in 0 .. MaxEvents
      BY <1>1, <3>1, ClickerAssumption DEF ClickerTypes
    <3>3. ClickerTypes'
      BY <1>1, <3>1, <3>2 DEF ClickerTypes, doc, host, ghosts
    <3> QED BY <1>1, <3>1, <3>3 DEF ClickerPlace, doc, host, ghosts, Events
  <2>2. CASE client = "gone"
    BY <1>1, <2>2, ZenonT(30) DEF Reads, ClickerTypes, ClickerPlace, doc, host, ghosts
  <2> QED BY <2>1, <2>2
<1>3. /\ UNCHANGED <<deck, page, focus, idx, cache, grab, seen, tiles, stale, lost, queue, scan, refresh, snap, client>>
      /\ Scanning' <=> Scanning
  BY DEF Reads, doc, host, ghosts, Scanning
<1>4. CASE input' = "post"
  <2>1. event' \in Events /\ event' \notin Nav
    BY <1>1, <1>4 DEF Reads, Events, Nav
  <2>2. Requests' = Append(Requests, event')
    BY <1>1, <1>3, <1>4 DEF Requests
  <2>3. Undisturbed' /\ ScanProgress' /\ Following'
    BY <1>3, <2>1, <2>2, FollowMore
  <2>4. WillGrab => WillGrab'
    BY <1>3, <2>1, <2>2, WillMore
  <2>5. ShownFresh' /\ TilesFresh'
    BY <1>3, <2>4, FreshSame
  <2> QED BY <1>2, <2>3, <2>5 DEF ClickerInv
<1>5. CASE input' # "post"
  <2>1. Requests' = Requests
    BY <1>1, <1>3, <1>5 DEF Requests
  <2>2. Undisturbed' /\ ScanProgress' /\ Following'
    BY <1>3, <2>1, FollowSame
  <2>3. WillGrab => WillGrab'
    BY <1>3, <2>1 DEF WillGrab
  <2>5. ShownFresh' /\ TilesFresh'
    BY <1>3, <2>3, FreshSame
  <2> QED BY <1>2, <2>2, <2>5 DEF ClickerInv
<1> QED BY <1>4, <1>5

(* A key that turns the page, counted by the requests that carry it.        *)
LEMMA KeyFollowed ==
  ASSUME ClickerInv, ~Scanning, NEW key \in Nav, tap(key), Pressed(key),
         UNCHANGED <<scan, snap, queue, idx, cache>>, Requests = queue, Requests' = Append(queue, key)
  PROVE  Undisturbed' /\ ScanProgress' /\ Following'
<1>1. ~Scanning' /\ ~(scan' \/ snap' \in ScanStates) /\ deck' = deck /\ focus' = focus /\ page' = Turned(key)
  BY DEF Scanning, ScanStates, tap
<1>2. Requests \in Seq(Events) /\ key \in Events /\ key # "scan"
  BY RequestsType DEF ClickerInv, Events, Nav
<1>3. \A i \in DOMAIN Requests' : Requests'[i] # "scan"
  <2>1. \A i \in DOMAIN Requests : Requests[i] # "scan"
    BY DEF Scanning
  <2> QED BY <1>2, <2>1
<1>4. Undisturbed' /\ ScanProgress'
  BY <1>1, <1>3 DEF Undisturbed, ScanProgress, ScanStates
<1>5. Scannable' <=> Scannable
  BY <1>1 DEF Scannable
<1>6. lost' # "cache" => lost # "cache"
  BY DEF Pressed, Worse
<1>7. lost # "cache" /\ cache # <<>> /\ Scannable => cache = deck
  BY DEF ClickerInv, Following
<1>8. lost' = "no" => focus
  BY DEF ClickerInv, Following, Pressed, Worse
<1>9. lost' = "no" /\ cache # <<>> /\ Scannable => Arrives(Requests', idx, Len(cache), page' - 1)
  <2> HAVE lost' = "no" /\ cache # <<>> /\ Scannable
  <2>1. cache = deck /\ focus
    BY <1>6, <1>7, <1>8
  <2>2. idx \in Nat /\ Len(cache) \in Nat /\ page - 1 \in Nat
    BY DeckFacts DEF ClickerInv, ClickerTypes
  <2>3. CASE key \in {"home", "end"}
    <3>1. page' - 1 = Moved(0, key, Len(cache))
      BY <1>1, <2>1, <2>3, TurnedFacts DEF ClickerInv
    <3>2. Arrives(Append(Requests, key), idx, Len(cache), Moved(0, key, Len(cache)))
      BY <1>2, <2>2, <2>3, ArrivesAnew
    <3> QED BY <3>1, <3>2
  <2>4. CASE key \notin {"home", "end"}
    <3>1. lost = "no"
      BY <2>4 DEF Pressed
    <3>2. Arrives(Requests, idx, Len(cache), page - 1)
      BY <2>1, <3>1 DEF ClickerInv, Following
    <3>3. Arrives(Append(Requests, key), idx, Len(cache), Moved(page - 1, key, Len(cache)))
      BY <1>2, <2>2, <3>2, ArrivesMore
    <3>4. page' - 1 = Moved(page - 1, key, Len(cache))
      BY <1>1, <2>1, TurnedFacts DEF ClickerInv
    <3> QED BY <3>3, <3>4
  <2> QED BY <2>3, <2>4
<1>10. Following'
  BY <1>1, <1>5, <1>6, <1>7, <1>8, <1>9 DEF Following
<1> QED BY <1>4, <1>10

LEMMA InjectKeeps == ASSUME ClickerInv, inject PROVE ClickerInv'
<1> DEFINE turn == /\ tap("next") /\ page' # page
                   /\ Strayed /\ stale' = (stale \/ event = "mouse")
<1>1. /\ ClickerTypes /\ ClickerPlace /\ input = "inject" /\ Requests = queue /\ event \in Nav \cup {"other", "mouse"}
      /\ UNCHANGED <<client, left, queue, open, snap, scan, refresh, cache, idx, grab, seen, tiles>>
      /\ input' = IF event = "mouse" THEN "read" ELSE "post"
      /\ event' = IF event = "mouse" THEN NoEvent ELSE event
  BY DEF ClickerInv, inject, Requests, host, ClickerPlace
<1>2. /\ event \in Nav => tap(event) /\ Pressed(event) /\ stale' = stale
      /\ event \notin Nav => UNCHANGED <<deck, page, focus, available, lost, stale>> \/ turn
  BY DEF inject, doc, ghosts
<1>3. event \in Events
  BY <1>1 DEF Events
<1>4. deck' = deck /\ focus' = focus /\ available' = available /\ page' \in DOMAIN deck
  <2>1. CASE event \in Nav
    BY <1>1, <1>2, <2>1, TurnedFacts DEF tap
  <2>2. CASE event \notin Nav
    <3>1. Turned("next") \in DOMAIN deck
      BY <1>1, TurnedFacts DEF Nav
    <3> QED BY <1>1, <1>2, <2>2, <3>1 DEF tap, ClickerTypes
  <2> QED BY <2>1, <2>2
<1>5. lost' \in {"no", "count", "cache"} /\ stale' \in BOOLEAN
  <2>1. lost \in {"no", "count", "cache"} /\ stale \in BOOLEAN
    BY <1>1 DEF ClickerTypes
  <2>2. CASE event \in Nav
    BY <1>2, <2>1, <2>2 DEF Pressed, Worse
  <2>3. CASE event \notin Nav
    BY <1>2, <2>1, <2>3 DEF Strayed, Worse
  <2> QED BY <2>2, <2>3
<1>6. ClickerTypes' /\ ClickerPlace'
  <2>1. ClickerTypes'
    BY <1>1, <1>4, <1>5 DEF ClickerTypes
  <2> QED BY <1>1, <1>3, <2>1 DEF ClickerPlace
<1>7. Requests' = IF event = "mouse" THEN Requests ELSE Append(Requests, event)
  BY <1>1 DEF Requests
<1>8. Scanning' <=> Scanning
  BY <1>1 DEF Scanning
<1>9. Requests \in Seq(Events)
  BY <1>1, RequestsType
<1>10. WillGrab => WillGrab'
  BY <1>1, <1>3, <1>7, WillMore
<1>11. event # "mouse" => WillGrab'
  <2> HAVE event # "mouse"
  <2>1. Len(Requests) + 1 \in DOMAIN Requests' /\ Requests'[Len(Requests) + 1] = event
    BY <1>7, <1>9, <1>3
  <2> QED BY <1>1, <2>1 DEF WillGrab
<1> HIDE DEF turn
<1>12. CASE event \in Nav
  <2>1. ShownFresh' /\ TilesFresh'
    BY <1>11, <1>12, FreshWill DEF Nav
  <2>2. Undisturbed' /\ ScanProgress' /\ Following'
    <3>1. CASE Scanning
      BY <1>2, <1>12, <3>1, LostAll DEF Pressed
    <3>2. CASE ~Scanning
      BY <1>1, <1>2, <1>7, <1>12, <3>2, KeyFollowed DEF Nav
    <3> QED BY <3>1, <3>2
  <2> QED BY <1>6, <2>1, <2>2 DEF ClickerInv
<1>13. CASE event \notin Nav /\ UNCHANGED <<deck, page, focus, available, lost, stale>>
  <2>1. ShownFresh' /\ TilesFresh'
    BY <1>1, <1>10, <1>13, FreshSame
  <2>2. CASE event = "mouse"
    BY <1>1, <1>6, <1>7, <1>8, <1>13, <2>1, <2>2, FollowSame DEF ClickerInv
  <2>3. CASE event # "mouse"
    BY <1>1, <1>3, <1>6, <1>7, <1>13, <2>1, <2>3, FollowMore DEF ClickerInv
  <2> QED BY <2>2, <2>3
<1>14. CASE event \notin Nav /\ turn
  <2>1. Strayed /\ stale' = (stale \/ event = "mouse")
    BY <1>14 DEF turn
  <2>2. ShownFresh' /\ TilesFresh'
    <3>1. CASE event = "mouse"
      <4>1. [o \in {-1, 1} |-> Neighbour(o)]' = [o \in {-1, 1} |-> Neighbour(o)]
        BY <1>1 DEF Neighbour
      <4> QED BY <1>1, <1>10, <2>1, <3>1, <4>1 DEF ClickerInv, ShownFresh, TilesFresh
    <3>2. CASE event # "mouse"
      BY <1>11, <3>2, FreshWill
    <3> QED BY <3>1, <3>2
  <2>3. Undisturbed' /\ ScanProgress' /\ Following'
    <3>1. CASE Scanning
      BY <2>1, <3>1, LostAll DEF Strayed
    <3>2. CASE ~Scanning
      <4>1. lost' \in {"count", "cache"} /\ (lost' # "cache" => lost # "cache")
        BY <2>1, <3>2 DEF Strayed, Worse
      <4>2. \A i \in DOMAIN Requests : Requests[i] # "scan"
        BY <1>1, <3>2 DEF Scanning
      <4>3. \A i \in DOMAIN Requests' : Requests'[i] # "scan"
        BY <1>1, <1>3, <1>7, <1>9, <1>14, <4>2 DEF Nav
      <4> QED BY <1>1, <1>4, <1>8, <3>2, <4>1, <4>3, CountLost
    <3> QED BY <3>1, <3>2
  <2> QED BY <1>6, <2>2, <2>3 DEF ClickerInv
<1> QED BY <1>2, <1>12, <1>13, <1>14

LEMMA PostsKeeps == ASSUME ClickerInv, Posts PROVE ClickerInv'
<1>1. /\ ClickerTypes /\ ClickerPlace /\ input = "post" /\ input' = "read" /\ event \in Events /\ event' = NoEvent
      /\ queue' = Append(queue, event) /\ Requests = Append(queue, event)
      /\ UNCHANGED <<deck, page, focus, available, client, left, open, snap, scan, refresh, cache, idx, grab,
                     seen, tiles, stale>>
  BY DEF ClickerInv, Posts, Requests, host, doc, ClickerPlace
<1>2. lost' = (IF event = "scan" /\ ~Scanning THEN "no" ELSE lost) /\ queue \in Seq(Events)
  BY <1>1 DEF Posts, ClickerTypes
<1>3. ClickerTypes' /\ ClickerPlace'
  <2>1. queue' \in Seq(Events) /\ lost' \in {"no", "count", "cache"}
    BY <1>1, <1>2 DEF ClickerTypes
  <2>2. ClickerTypes'
    BY <1>1, <2>1 DEF ClickerTypes
  <2> QED BY <1>1, <2>2 DEF ClickerPlace
<1>4. Requests' = Requests
  BY <1>1 DEF Requests
<1>5. WillGrab => WillGrab'
  BY <1>1, <1>4 DEF WillGrab
<1>6. ShownFresh' /\ TilesFresh'
  BY <1>1, <1>5, FreshSame
<1>7. /\ \A i \in DOMAIN queue : i \in DOMAIN queue' /\ queue'[i] = queue[i]
      /\ DOMAIN queue' = 1 .. Len(queue) + 1 /\ Len(queue) \in Nat /\ DOMAIN queue = 1 .. Len(queue)
      /\ queue'[Len(queue) + 1] = event
  BY <1>1, <1>2
<1>8. CASE event = "scan" /\ ~Scanning
  <2>1. Scanning'
    BY <1>7, <1>8 DEF Scanning
  <2>2. ~(scan' \/ snap' \in ScanStates) /\ Requests' = queue'
    BY <1>1, <1>4, <1>8 DEF Scanning, ScanStates
  <2>3. \A i \in DOMAIN queue : queue[i] # "scan"
    BY <1>8 DEF Scanning
  <2>4. \A i, j \in DOMAIN Requests' : i < j /\ Requests'[i] = "scan" => Requests'[j] \notin Nav
    <3>1. \A i \in DOMAIN queue' : i = Len(queue) + 1 \/ i \in DOMAIN queue
      BY <1>7
    <3> QED BY <1>7, <2>2, <2>3, <3>1
  <2>5. Undisturbed' /\ ScanProgress' /\ Following'
    BY <2>1, <2>2, <2>4 DEF Undisturbed, ScanProgress, Following, ScanStates
  <2> QED BY <1>3, <1>6, <2>5 DEF ClickerInv
<1>9. CASE ~(event = "scan" /\ ~Scanning)
  <2>1. Scanning' <=> Scanning
    BY <1>1, <1>7, <1>9 DEF Scanning
  <2> QED BY <1>1, <1>2, <1>3, <1>4, <1>6, <1>9, <2>1, FollowSame DEF ClickerInv
<1> QED BY <1>8, <1>9

(* Steps that leave the requests and the document alone.                   *)
LEMMA StillKeeps ==
  ASSUME ClickerInv, ClickerTypes', ClickerPlace',
         UNCHANGED <<deck, page, focus, idx, cache, grab, seen, tiles, lost, stale, queue, scan, refresh, event>>,
         (input' = "post") <=> (input = "post"), client' # "gone" => client # "gone",
         snap' = snap \/ (snap \in {"list", "recv"} /\ snap' \in {"recv", "ended"})
  PROVE  ClickerInv'
<1>1. Requests' = Requests
  BY DEF Requests
<1>2. (Scanning' <=> Scanning) /\ (WillGrab => WillGrab') /\ (snap \in Sending <=> snap' \in Sending)
      /\ (snap' \in ScanStates <=> snap \in ScanStates)
      /\ (snap' \in {"first", "turn", "look", "back"} => snap' = snap)
  BY <1>1 DEF Scanning, WillGrab, Sending, ScanStates
<1>3. ShownFresh' /\ TilesFresh'
  BY <1>2, FreshSame
<1>4. Undisturbed' /\ ScanProgress' /\ Following'
  BY <1>1, <1>2, FollowSame
<1> QED BY <1>3, <1>4 DEF ClickerInv

LEMMA JoinedKeeps == ASSUME ClickerInv, Joined PROVE ClickerInv'
<1>1. ClickerTypes' /\ ClickerPlace'
  BY DEF ClickerInv, Joined, ClickerTypes, ClickerPlace, doc, host, ghosts
<1> QED BY <1>1, StillKeeps DEF Joined, doc, host, ghosts

LEMMA HelloKeeps == ASSUME ClickerInv, Hello PROVE ClickerInv'
<1>1. /\ snap = "list" /\ snap' \in {"recv", "ended"} /\ (snap' = "ended" => client = "gone")
      /\ UNCHANGED <<deck, page, focus, available, client, left, input, event, queue, open, scan, refresh, cache,
                     idx, grab, seen, tiles, stale, lost>>
  BY DEF Hello, Writes, Snap, doc, ghosts
<1>2. ClickerTypes' /\ ClickerPlace'
  BY <1>1 DEF ClickerInv, ClickerTypes, ClickerPlace
<1> QED BY <1>1, <1>2, StillKeeps

LEMMA ClientKeeps == ASSUME ClickerInv, Client PROVE ClickerInv'
<1>1. /\ UNCHANGED <<deck, page, focus, available, input, event, queue, open, snap, scan, refresh, cache, idx, grab,
                     stale, lost>>
      /\ \/ client = "here" /\ client' = "deaf" /\ UNCHANGED <<left, seen, tiles>>
         \/ client' = "gone" /\ left' = 0 /\ seen' = Blank /\ tiles' = [o \in {-1, 1} |-> Blank]
  BY DEF Client, doc, host, ghosts
<1>2. Blank \in Looks
  BY DEF Looks
<1>3. ClickerTypes' /\ ClickerPlace'
  <2>1. left' \in 0 .. MaxEvents /\ seen' \in Looks /\ tiles' \in [{-1, 1} -> Looks] /\ client' \in {"here", "deaf", "gone"}
    BY <1>1, <1>2, ClickerAssumption DEF ClickerInv, ClickerTypes
  <2> QED BY <1>1, <2>1 DEF ClickerInv, ClickerTypes, ClickerPlace
<1>4. CASE client' = "gone"
  <2>1. ShownFresh' /\ TilesFresh'
    BY <1>4 DEF ShownFresh, TilesFresh
  <2>2. Requests' = Requests /\ (Scanning' <=> Scanning)
    BY <1>1 DEF Requests, Scanning
  <2>3. Undisturbed' /\ ScanProgress' /\ Following'
    BY <1>1, <2>2, FollowSame
  <2> QED BY <1>3, <2>1, <2>3 DEF ClickerInv
<1>5. CASE client' # "gone"
  BY <1>1, <1>3, <1>5, StillKeeps
<1> QED BY <1>4, <1>5

-----------------------------------------------------------------------------
(* The snapshot thread's steps.                                            *)
LEMMA HandleKeeps ==
  ASSUME ClickerInv, snap \in {"recv", "drain"}, handle_req("drain"), Snap
  PROVE  ClickerInv'
<1> DEFINE req == Head(queue)
<1>1. /\ queue # <<>> /\ queue' = Tail(queue)
      /\ scan' = (scan \/ req = "scan")
      /\ refresh' = (refresh \/ req \in Nav \cup {"other", "focus", "show"})
      /\ snap' \in {"drain", "ended"} /\ (snap' = "ended" => client = "gone" \/ snap = "ended")
      /\ UNCHANGED <<cache, grab, seen, tiles, stale, client, left, input, event, open>>
  BY DEF handle_req, Writes, Snap
<1>2. idx' = Moved(idx, req, Len(cache))
  BY DEF handle_req, Moved
<1>3. IF req \in {"focus", "show"} THEN focus_window(req) /\ Strayed ELSE UNCHANGED <<deck, page, focus, available, lost>>
  BY DEF handle_req, doc
<1>4. ClickerTypes /\ ClickerPlace
  BY DEF ClickerInv
<1>5. queue \in Seq(Events) /\ queue' \in Seq(Events) /\ req = queue[1] /\ req \in Events
  BY <1>1, <1>4 DEF ClickerTypes
<1>6. /\ Requests \in Seq(Events) /\ Requests # <<>> /\ Requests' = Tail(Requests)
      /\ Head(Requests) = req /\ Requests[1] = req
  <2>1. CASE input = "post"
    <3>1. event \in Events /\ Requests = Append(queue, event) /\ Requests' = Append(queue', event)
      BY <1>1, <1>4, <2>1 DEF ClickerPlace, Requests
    <3> QED BY <1>1, <1>5, <3>1
  <2>2. CASE input # "post"
    BY <1>1, <1>5, <2>2 DEF Requests
  <2> QED BY <2>1, <2>2
<1> HIDE DEF req
<1>7. /\ Len(Requests) \in Nat /\ DOMAIN Requests = 1 .. Len(Requests) /\ DOMAIN Requests' = 1 .. Len(Requests) - 1
      /\ \A i \in 1 .. Len(Requests) - 1 : Requests'[i] = Requests[i + 1]
  BY <1>6
<1>8. deck' = deck /\ available' = available /\ focus' \in BOOLEAN /\ page' \in DOMAIN deck
  <2>1. 1 \in DOMAIN deck
    BY <1>4, DeckFacts
  <2>2. CASE req \in {"focus", "show"}
    BY <1>3, <1>4, <2>1, <2>2 DEF focus_window, ClickerTypes
  <2>3. CASE req \notin {"focus", "show"}
    BY <1>3, <1>4, <2>3 DEF ClickerTypes
  <2> QED BY <2>2, <2>3
<1>9. lost' \in {"no", "count", "cache"} /\ (lost' # "cache" => lost # "cache")
  <2>1. lost \in {"no", "count", "cache"}
    BY <1>4 DEF ClickerTypes
  <2>2. CASE req \in {"focus", "show"}
    BY <1>3, <2>1, <2>2 DEF Strayed, Worse
  <2> QED BY <1>3, <2>1, <2>2
<1>10. idx' \in Nat
  <2>1. idx \in Nat /\ Len(cache) \in Nat
    BY <1>4, DeckFacts DEF ClickerTypes
  <2> QED BY <1>2, <2>1, MovedNat
<1>11. ClickerTypes' /\ ClickerPlace'
  <2>1. scan' \in BOOLEAN /\ refresh' \in BOOLEAN
    BY <1>1, <1>4 DEF ClickerTypes
  <2>2. ClickerTypes'
    BY <1>1, <1>4, <1>5, <1>8, <1>9, <1>10, <2>1 DEF ClickerTypes
  <2>3. snap # "ended"
    OBVIOUS
  <2> QED BY <1>1, <1>4, <2>2, <2>3 DEF ClickerPlace
<1>12. Scanning' <=> Scanning
  <2>1. /\ Len(queue) \in Nat /\ Len(queue) >= 1 /\ DOMAIN queue = 1 .. Len(queue) /\ DOMAIN queue' = 1 .. Len(queue) - 1
        /\ \A i \in 1 .. Len(queue) - 1 : queue'[i] = queue[i + 1]
    BY <1>1, <1>5
  <2>2. (\E i \in DOMAIN queue : queue[i] = "scan") <=> req = "scan" \/ \E i \in DOMAIN queue' : queue'[i] = "scan"
    <3>1. ASSUME NEW i \in DOMAIN queue, queue[i] = "scan", i # 1 PROVE \E j \in DOMAIN queue' : queue'[j] = "scan"
      <4>1. i - 1 \in DOMAIN queue' /\ queue'[i - 1] = queue[(i - 1) + 1] /\ (i - 1) + 1 = i
        BY <2>1, <3>1
      <4> QED BY <3>1, <4>1
    <3>2. ASSUME NEW j \in DOMAIN queue', queue'[j] = "scan" PROVE \E i \in DOMAIN queue : queue[i] = "scan"
      <4>1. j + 1 \in DOMAIN queue /\ queue[j + 1] = "scan"
        BY <2>1, <3>2
      <4> QED BY <4>1
    <3>3. 1 \in DOMAIN queue
      BY <2>1
    <3> QED BY <1>5, <3>1, <3>2, <3>3
  <2> QED BY <1>1, <2>2 DEF Scanning
<1>13. ShownFresh' /\ TilesFresh'
  <2>1. CASE req \in Nav \cup {"other", "focus", "show", "scan"}
    BY <1>1, <2>1, FreshWill DEF WillGrab
  <2>2. CASE req \notin Nav \cup {"other", "focus", "show", "scan"}
    <3>1. UNCHANGED <<deck, page, focus, idx>>
      BY <1>2, <1>3, <2>2 DEF Moved
    <3>2. WillGrab => WillGrab'
      <4>1. ASSUME NEW i \in DOMAIN Requests, Requests[i] \in Nav \cup {"other", "focus", "show", "scan"} PROVE WillGrab'
        <5>1. i # 1
          BY <1>6, <2>2, <4>1
        <5>2. i - 1 \in DOMAIN Requests' /\ Requests'[i - 1] = Requests[i]
          BY <1>7, <5>1
        <5> QED BY <4>1, <5>2 DEF WillGrab
      <4>2. snap \notin {"hello", "grab"} \cup ScanStates
        BY DEF ScanStates
      <4>3. scan \/ refresh => WillGrab'
        BY <1>1 DEF WillGrab
      <4> QED BY <4>1, <4>2, <4>3 DEF WillGrab
    <3>3. snap \notin Sending /\ snap' \notin Sending
      BY <1>1 DEF Sending
    <3> QED BY <1>1, <3>1, <3>2, <3>3, FreshSame
  <2> QED BY <2>1, <2>2
<1>14. Undisturbed' /\ ScanProgress'
  <2>1. snap \notin ScanStates /\ snap' \notin ScanStates
    BY <1>1 DEF ScanStates
  <2>2. ScanProgress'
    BY <2>1 DEF ScanProgress, ScanStates
  <2>3. ASSUME lost' # "cache" PROVE /\ \A i, j \in DOMAIN Requests' : i < j /\ Requests'[i] = "scan" => Requests'[j] \notin Nav
                                     /\ scan' => \A j \in DOMAIN Requests' : Requests'[j] \notin Nav
    <3>1. /\ \A i, j \in DOMAIN Requests : i < j /\ Requests[i] = "scan" => Requests[j] \notin Nav
          /\ scan => \A j \in DOMAIN Requests : Requests[j] \notin Nav
      BY <1>9, <2>3 DEF ClickerInv, Undisturbed
    <3>2. \A i \in DOMAIN Requests' : i + 1 \in DOMAIN Requests /\ Requests'[i] = Requests[i + 1] /\ 1 < i + 1
      BY <1>7
    <3>3. 1 \in DOMAIN Requests
      BY <1>6
    <3>4. ASSUME NEW i \in DOMAIN Requests', NEW j \in DOMAIN Requests', i < j, Requests'[i] = "scan"
          PROVE  Requests'[j] \notin Nav
      <4>1. i + 1 < j + 1
        BY <1>7, <3>4
      <4> QED BY <3>1, <3>2, <3>4, <4>1
    <3>5. scan' => \A j \in DOMAIN Requests' : Requests'[j] \notin Nav
      <4>1. CASE req = "scan"
        BY <1>6, <3>1, <3>2, <3>3, <4>1
      <4>2. CASE req # "scan"
        BY <1>1, <3>1, <3>2, <4>2
      <4> QED BY <4>1, <4>2
    <3> QED BY <3>4, <3>5
  <2> QED BY <2>1, <2>2, <2>3 DEF Undisturbed
<1>15. Following'
  <2>1. Scannable' <=> Scannable
    BY <1>8 DEF Scannable
  <2>2. lost' # "cache" /\ ~Scanning' /\ cache' # <<>> /\ Scannable' => cache' = deck'
    BY <1>1, <1>8, <1>9, <1>12, <2>1 DEF ClickerInv, Following
  <2>3. ASSUME lost' = "no", ~Scanning'
        PROVE  focus' /\ (cache' # <<>> /\ Scannable' => Arrives(Requests', idx', Len(cache'), page' - 1))
    <3>1. req \notin {"focus", "show"}
      BY <1>3, <1>12, <2>3 DEF Strayed, Worse
    <3>2. UNCHANGED <<deck, page, focus, lost>>
      BY <1>3, <3>1
    <3>3. focus /\ (cache # <<>> /\ Scannable => Arrives(Requests, idx, Len(cache), page - 1))
      BY <1>12, <2>3, <3>2 DEF ClickerInv, Following
    <3>4. Len(cache) \in Nat /\ idx \in Nat
      BY <1>4, DeckFacts DEF ClickerTypes
    <3>5. Arrives(Requests, idx, Len(cache), page - 1) => Arrives(Requests', idx', Len(cache), page - 1)
      BY <1>2, <1>6, <3>4, ArrivesFewer
    <3> QED BY <1>1, <2>1, <3>2, <3>3, <3>5
  <2> QED BY <2>2, <2>3 DEF Following
<1> QED BY <1>11, <1>13, <1>14, <1>15 DEF ClickerInv

LEMMA ReceivesKeeps == ASSUME ClickerInv, Receives PROVE ClickerInv'
<1>1. CASE handle_req("drain")
  BY <1>1, HandleKeeps DEF Receives
<1>2. CASE ~handle_req("drain")
  <2>1. /\ snap = "recv" /\ snap' = "ended" /\ ~open
        /\ UNCHANGED <<deck, page, focus, available, client, left, input, event, queue, open, scan, refresh, cache,
                       idx, grab, seen, tiles, stale, lost>>
    BY <1>2 DEF Receives, Snap, doc, ghosts
  <2>2. ClickerTypes' /\ ClickerPlace'
    BY <2>1 DEF ClickerInv, ClickerTypes, ClickerPlace
  <2> QED BY <2>1, <2>2, StillKeeps
<1> QED BY <1>1, <1>2

LEMMA DrainsKeeps == ASSUME ClickerInv, Drains PROVE ClickerInv'
<1>1. CASE handle_req("drain")
  BY <1>1, HandleKeeps DEF Drains
<1>2. CASE ~handle_req("drain")
  <2>1. /\ snap = "drain" /\ queue = <<>> /\ scan' = FALSE /\ refresh' = FALSE
        /\ snap' = IF scan THEN "scan" ELSE IF refresh THEN "grab" ELSE "recv"
        /\ UNCHANGED <<deck, page, focus, available, client, left, input, event, queue, open, cache,
                       idx, grab, seen, tiles, stale, lost>>
    BY <1>2 DEF Drains, Snap, doc, ghosts
  <2>2. ClickerTypes' /\ ClickerPlace'
    <3>1. snap' \in {"scan", "grab", "recv"}
      BY <2>1
    <3>2. ClickerTypes'
      <4>1. /\ UNCHANGED <<deck, page, focus, available, client, left, input, event, queue, open, cache, idx, grab, seen,
                           tiles, stale, lost>>
            /\ scan' \in BOOLEAN /\ refresh' \in BOOLEAN
        BY <2>1
      <4> QED BY <3>1, <4>1 DEF ClickerInv, ClickerTypes
    <3> QED BY <2>1, <3>1, <3>2 DEF ClickerInv, ClickerPlace
  <2>3. Requests' = Requests /\ (Scanning' <=> Scanning)
    BY <2>1 DEF Requests, Scanning
  <2>4. Undisturbed' /\ ScanProgress' /\ Following'
    <3>1. (scan' \/ snap' \in ScanStates => scan \/ snap \in ScanStates) /\ snap' \notin {"first", "turn", "look", "back"}
      BY <2>1 DEF ScanStates
    <3> QED BY <2>1, <2>3, <3>1, FollowSame
  <2>5. ShownFresh' /\ TilesFresh'
    <3>1. CASE scan \/ refresh
      BY <2>1, <3>1, FreshWill DEF WillGrab, ScanStates
    <3>2. CASE ~(scan \/ refresh)
      <4>1. (WillGrab => WillGrab') /\ (snap \in Sending <=> snap' \in Sending)
        BY <2>1, <2>3, <3>2 DEF WillGrab, Sending, ScanStates
      <4> QED BY <2>1, <4>1, FreshSame
    <3> QED BY <3>1, <3>2
  <2> QED BY <2>2, <2>4, <2>5 DEF ClickerInv
<1> QED BY <1>1, <1>2

LEMMA GrabsKeeps == ASSUME ClickerInv, Grabs PROVE ClickerInv'
<1>1. /\ snap \in {"hello", "grab"} /\ snap' = (IF snap = "hello" THEN "greet" ELSE "send")
      /\ (grab' = Screen \/ grab' = Blank) /\ stale' = (grab' = Blank)
      /\ UNCHANGED <<deck, page, focus, available, client, left, input, event, queue, open, scan, refresh, cache,
                     idx, seen, tiles, lost>>
  BY DEF Grabs, capture, Snap, doc
<1>2. grab' \in Looks
  BY <1>1, DeckFacts DEF ClickerInv
<1>3. ClickerTypes' /\ ClickerPlace'
  BY <1>1, <1>2 DEF ClickerInv, ClickerTypes, ClickerPlace
<1>4. Screen' = Screen
  BY <1>1 DEF Screen
<1>5. ShownFresh' /\ TilesFresh'
  BY <1>1, <1>4 DEF ShownFresh, TilesFresh, Sending
<1>6. Requests' = Requests /\ (Scanning' <=> Scanning) /\ snap' \notin ScanStates /\ snap' \notin {"first", "turn", "look", "back"}
  BY <1>1 DEF Requests, Scanning, ScanStates
<1>7. Undisturbed' /\ ScanProgress' /\ Following'
  BY <1>1, <1>6, FollowSame
<1> QED BY <1>3, <1>5, <1>7 DEF ClickerInv

LEMMA SendsKeeps == ASSUME ClickerInv, send_previews PROVE ClickerInv'
<1>1. /\ snap \in {"greet", "send"} /\ snap' \in {"list", "recv", "ended"} /\ (snap' = "ended" => client = "gone")
      /\ IF client = "gone" THEN UNCHANGED <<seen, tiles>>
         ELSE /\ seen' = (IF grab = Blank THEN seen ELSE grab)
              /\ tiles' = [o \in {-1, 1} |-> Neighbour(o)]
      /\ grab' = Blank
      /\ UNCHANGED <<deck, page, focus, available, client, left, input, event, queue, open, scan, refresh, cache,
                     idx, stale, lost>>
  BY DEF send_previews, Writes, Snap, doc, ghosts
<1>2. grab' \in Looks /\ seen' \in Looks /\ tiles' \in [{-1, 1} -> Looks]
  <2>1. Blank \in Looks /\ \A o \in {-1, 1} : Neighbour(o) \in Looks
    BY DeckFacts DEF ClickerInv
  <2> QED BY <1>1, <2>1 DEF ClickerInv, ClickerTypes
<1>3. ClickerTypes' /\ ClickerPlace'
  BY <1>1, <1>2 DEF ClickerInv, ClickerTypes, ClickerPlace
<1>4. Screen' = Screen /\ [o \in {-1, 1} |-> Neighbour(o)]' = [o \in {-1, 1} |-> Neighbour(o)]
  BY <1>1 DEF Screen, Neighbour
<1>5. Requests' = Requests /\ (Scanning' <=> Scanning) /\ snap' \notin ScanStates /\ snap \notin ScanStates
      /\ snap' \notin {"first", "turn", "look", "back"} /\ snap \in Sending /\ snap' \notin Sending
  BY <1>1 DEF Requests, Scanning, ScanStates, Sending
<1>6. WillGrab => WillGrab'
  BY <1>1, <1>5 DEF WillGrab
<1>7. ShownFresh' /\ TilesFresh'
  <2>1. CASE client = "gone"
    BY <1>1, <2>1 DEF ShownFresh, TilesFresh
  <2>2. CASE client # "gone"
    <3>1. TilesFresh'
      BY <1>1, <1>4, <2>2 DEF TilesFresh
    <3>2. ~stale => WillGrab \/ (grab = Screen /\ grab # Blank)
      BY <1>5, <2>2 DEF ClickerInv, ShownFresh
    <3> QED BY <1>1, <1>4, <1>5, <1>6, <2>2, <3>1, <3>2 DEF ShownFresh
  <2> QED BY <2>1, <2>2
<1>8. Undisturbed' /\ ScanProgress' /\ Following'
  BY <1>1, <1>5, FollowSame
<1> QED BY <1>3, <1>7, <1>8 DEF ClickerInv

-----------------------------------------------------------------------------
(* The steps of a scan.                                                    *)
LEMMA ScanFacts ==
  ASSUME ClickerInv, snap \in ScanStates, Scan
  PROVE  /\ ~scan /\ ~refresh /\ Requests' = Requests /\ Scanning
         /\ UNCHANGED <<queue, scan, refresh, seen, tiles, stale, client, left, input, event, open>>
<1>1. UNCHANGED <<queue, scan, refresh, seen, tiles, stale, client, left, input, event, open>>
  BY DEF Scan, Snap
<1>2. ~scan /\ ~refresh
  BY DEF ClickerInv, ClickerPlace, ScanStates
<1> QED BY <1>1, <1>2 DEF Requests, Scanning, ScanStates

LEMMA ScanUndisturbed ==
  ASSUME ClickerInv, snap \in ScanStates, Requests' = Requests, lost' # "cache" => lost # "cache"
  PROVE  Undisturbed'
BY DEF ClickerInv, Undisturbed

LEMMA StillScanning ==
  ASSUME snap' \in {"first", "turn", "look", "back"}
  PROVE  Following' /\ ShownFresh' /\ TilesFresh'
BY FreshWill DEF Following, Scanning, WillGrab, ScanStates

LEMMA ScanBeginsKeeps == ASSUME ClickerInv, ScanBegins PROVE ClickerInv'
<1>1. /\ snap = "scan" /\ cache' = <<>> /\ grab' = Blank
      /\ \/ tap("home") /\ snap' = "first" /\ UNCHANGED idx
         \/ idx' = 0 /\ snap' = "grab" /\ UNCHANGED <<deck, page, focus, available>>
      /\ lost' = IF focus THEN lost ELSE "cache"
  BY DEF ScanBegins, doc
<1>2. /\ ~scan /\ ~refresh /\ Requests' = Requests
      /\ UNCHANGED <<queue, scan, refresh, seen, tiles, stale, client, left, input, event, open>>
  BY <1>1, ScanFacts DEF ScanBegins, ScanStates
<1>3. deck' = deck /\ focus' = focus /\ available' = available /\ page' \in DOMAIN deck
      /\ (focus /\ snap' = "first" => page' = 1)
  <2>1. Turned("home") \in DOMAIN deck /\ (focus => Turned("home") = 1) /\ page \in DOMAIN deck
    BY TurnedFacts DEF ClickerInv, Nav, ClickerTypes
  <2> QED BY <1>1, <2>1 DEF tap
<1>4. ClickerTypes' /\ ClickerPlace'
  <2>1. Blank \in Looks /\ cache' \in Seq(Looks) /\ Len(cache') = 0 /\ SCAN_MAX_PAGES \in Nat
    BY <1>1, DeckFacts, ClickerAssumption DEF ClickerInv
  <2>2. idx' \in Nat /\ lost' \in {"no", "count", "cache"} /\ snap' \in {"first", "grab"}
    BY <1>1 DEF ClickerInv, ClickerTypes
  <2>3. ClickerTypes'
    BY <1>1, <1>2, <1>3, <2>1, <2>2 DEF ClickerInv, ClickerTypes
  <2> QED BY <1>1, <1>2, <2>2, <2>3 DEF ClickerInv, ClickerPlace
<1>5. ShownFresh' /\ TilesFresh'
  BY <1>1, FreshWill DEF WillGrab, ScanStates
<1>6. CASE lost' = "cache"
  BY <1>4, <1>5, <1>6, LostAll DEF ClickerInv
<1>7. CASE lost' # "cache"
  <2>1. focus /\ lost' = lost
    BY <1>1, <1>7
  <2>2. Undisturbed'
    BY <1>1, <1>2, <2>1, ScanUndisturbed DEF ScanStates
  <2>3. ScanProgress' /\ Following'
    BY <1>1, <1>3, <2>1 DEF ScanProgress, Following, Scanning
  <2> QED BY <1>4, <1>5, <2>2, <2>3 DEF ClickerInv
<1> QED BY <1>6, <1>7

LEMMA ScanFirstKeeps == ASSUME ClickerInv, ScanFirst PROVE ClickerInv'
<1>1. /\ snap = "first" /\ snap' = "turn" /\ grab' \in {Screen, Blank}
      /\ cache' = (IF grab' = Blank THEN cache ELSE Append(cache, grab'))
      /\ lost' = (IF grab' = Blank THEN "cache" ELSE lost)
      /\ UNCHANGED <<deck, page, focus, available, idx>>
  BY DEF ScanFirst, capture, doc
<1>2. /\ ~scan /\ ~refresh /\ Requests' = Requests
      /\ UNCHANGED <<queue, scan, refresh, seen, tiles, stale, client, left, input, event, open>>
  BY <1>1, ScanFacts DEF ScanFirst, ScanStates
<1>3. cache = <<>> /\ Screen \in Looks /\ Blank \in Looks
  BY <1>1, DeckFacts DEF ClickerInv, ClickerPlace
<1>4. cache' \in Seq(Looks) /\ Len(cache') <= 1 /\ (grab' # Blank => Len(cache') = 1 /\ cache'[1] = grab' /\ cache' # <<>>)
  <2>1. <<>> \in Seq(Looks) /\ Len(<<>>) = 0
    OBVIOUS
  <2> QED BY <1>1, <1>3, <2>1
<1>5. ClickerTypes' /\ ClickerPlace'
  <2>1. Len(cache') <= SCAN_MAX_PAGES
    BY <1>4, ClickerAssumption
  <2>2. lost' \in {"no", "count", "cache"} /\ grab' \in Looks
    BY <1>1, <1>3 DEF ClickerInv, ClickerTypes
  <2>3. ClickerTypes'
    BY <1>1, <1>2, <1>4, <2>1, <2>2 DEF ClickerInv, ClickerTypes
  <2> QED BY <1>1, <1>2, <2>3 DEF ClickerInv, ClickerPlace
<1>6. ShownFresh' /\ TilesFresh' /\ Following'
  BY <1>1, StillScanning
<1>7. CASE grab' = Blank
  BY <1>1, <1>5, <1>6, <1>7, LostAll DEF ClickerInv
<1>8. CASE grab' # Blank
  <2>1. Undisturbed'
    BY <1>1, <1>2, <1>8, ScanUndisturbed DEF ScanStates
  <2>2. ScanProgress'
    <3>1. lost' # "cache" => focus /\ page = 1 /\ grab' = deck[1]
      BY <1>1, <1>8 DEF ClickerInv, ScanProgress, Screen
    <3>2. Len(deck) \in Nat /\ Len(deck) >= 1
      BY DeckFacts DEF ClickerInv
    <3> QED BY <1>1, <1>4, <1>8, <3>1, <3>2 DEF ScanProgress
  <2> QED BY <1>5, <1>6, <2>1, <2>2 DEF ClickerInv
<1> QED BY <1>7, <1>8

LEMMA ScanTurnsKeeps == ASSUME ClickerInv, ScanTurns PROVE ClickerInv'
<1>1. /\ snap = "turn" /\ UNCHANGED <<cache, idx, grab, lost>>
      /\ \/ Len(cache) < SCAN_MAX_PAGES /\ tap("next") /\ snap' = "look"
         \/ /\ Len(cache) = SCAN_MAX_PAGES \/ lost = "cache"
            /\ snap' = "back" /\ UNCHANGED <<deck, page, focus, available>>
  BY DEF ScanTurns, Unfirst, doc
<1>2. /\ ~scan /\ ~refresh /\ Requests' = Requests
      /\ UNCHANGED <<queue, scan, refresh, seen, tiles, stale, client, left, input, event, open>>
  BY <1>1, ScanFacts DEF ScanTurns, ScanStates
<1>3. deck' = deck /\ focus' = focus /\ available' = available /\ page' \in DOMAIN deck
      /\ (focus /\ snap' = "look" => page' = IF page < Len(deck) THEN page + 1 ELSE page)
  <2>1. Turned("next") \in DOMAIN deck /\ (focus => Turned("next") = IF page < Len(deck) THEN page + 1 ELSE page)
        /\ page \in DOMAIN deck
    BY TurnedFacts DEF ClickerInv, Nav, ClickerTypes
  <2> QED BY <1>1, <2>1 DEF tap
<1>4. ClickerTypes' /\ ClickerPlace'
  <2>1. snap' \in {"look", "back"}
    BY <1>1
  <2>2. ClickerTypes'
    BY <1>1, <1>2, <1>3, <2>1 DEF ClickerInv, ClickerTypes
  <2> QED BY <1>1, <1>2, <2>1, <2>2 DEF ClickerInv, ClickerPlace
<1>5. ShownFresh' /\ TilesFresh' /\ Following'
  BY <1>1, StillScanning
<1>6. Undisturbed'
  BY <1>1, <1>2, ScanUndisturbed DEF ScanStates
<1>7. ScanProgress'
  <2> SUFFICES ASSUME lost # "cache" PROVE ScanProgress'
    BY <1>1 DEF ScanProgress
  <2>1. focus
    BY <1>1 DEF ClickerInv, ScanProgress
  <2>2. Scannable' <=> Scannable
    BY <1>3 DEF Scannable
  <2>3. Scannable =>
          /\ cache # <<>> /\ Len(cache) <= Len(deck) /\ \A i \in 1 .. Len(cache) : cache[i] = deck[i]
          /\ snap' = "look" => page' = IF Len(cache) < Len(deck) THEN Len(cache) + 1 ELSE Len(cache)
          /\ snap' = "back" => Len(cache) = Len(deck)
    <3> HAVE Scannable
    <3>1. /\ cache # <<>> /\ Len(cache) <= Len(deck) /\ \A i \in 1 .. Len(cache) : cache[i] = deck[i]
          /\ page = Len(cache)
      BY <1>1 DEF ClickerInv, ScanProgress
    <3>2. Len(deck) <= SCAN_MAX_PAGES /\ Len(cache) \in Nat /\ Len(deck) \in Nat /\ SCAN_MAX_PAGES \in Nat
      BY DeckFacts, ClickerAssumption DEF ClickerInv, Scannable
    <3>3. snap' = "look" => page' = IF Len(cache) < Len(deck) THEN Len(cache) + 1 ELSE Len(cache)
      BY <1>3, <2>1, <3>1
    <3>4. snap' = "back" => Len(cache) = Len(deck)
      <4>1. snap' = "back" => Len(cache) = SCAN_MAX_PAGES
        BY <1>1
      <4> QED BY <3>1, <3>2, <4>1
    <3> QED BY <3>1, <3>3, <3>4
  <2>4. snap' \in {"look", "back"}
    BY <1>1
  <2> QED BY <1>1, <1>3, <2>1, <2>2, <2>3, <2>4 DEF ScanProgress
<1> QED BY <1>4, <1>5, <1>6, <1>7 DEF ClickerInv

LEMMA ScanLooksKeeps == ASSUME ClickerInv, ScanLooks PROVE ClickerInv'
<1> DEFINE end == grab' = Blank \/ (cache # <<>> /\ cache[Len(cache)] = grab')
<1>1. /\ snap = "look" /\ grab' \in {Screen, Blank} /\ UNCHANGED <<deck, page, focus, available, idx>>
      /\ IF end THEN snap' = "back" /\ UNCHANGED cache
         ELSE snap' = "turn" /\ cache' = Append(cache, grab')
      /\ lost' = (IF grab' = Blank THEN "cache" ELSE lost)
  BY DEF ScanLooks, capture, doc
<1>2. /\ ~scan /\ ~refresh /\ Requests' = Requests
      /\ UNCHANGED <<queue, scan, refresh, seen, tiles, stale, client, left, input, event, open>>
  BY <1>1, ScanFacts DEF ScanLooks, ScanStates
<1>3. /\ Screen \in Looks /\ Blank \in Looks /\ cache \in Seq(Looks) /\ Len(cache) \in Nat
      /\ Len(cache) < SCAN_MAX_PAGES /\ grab' \in Looks
  BY <1>1, DeckFacts DEF ClickerInv, ClickerPlace, ClickerTypes
<1>4. ~end => /\ cache' \in Seq(Looks) /\ Len(cache') = Len(cache) + 1 /\ cache' # <<>> /\ cache'[Len(cache) + 1] = grab'
              /\ \A i \in 1 .. Len(cache) : cache'[i] = cache[i]
  BY <1>1, <1>3
<1> HIDE DEF end
<1>5. ClickerTypes' /\ ClickerPlace'
  <2>1. Len(cache') <= SCAN_MAX_PAGES /\ cache' \in Seq(Looks)
    BY <1>1, <1>3, <1>4, ClickerAssumption
  <2>2. lost' \in {"no", "count", "cache"} /\ snap' \in {"back", "turn"}
    BY <1>1 DEF ClickerInv, ClickerTypes
  <2>3. ClickerTypes'
    BY <1>1, <1>2, <1>3, <2>1, <2>2 DEF ClickerInv, ClickerTypes
  <2> QED BY <1>1, <1>2, <2>2, <2>3 DEF ClickerInv, ClickerPlace
<1>6. ShownFresh' /\ TilesFresh' /\ Following'
  BY <1>1, StillScanning
<1>7. CASE lost' = "cache"
  BY <1>5, <1>6, <1>7, LostAll DEF ClickerInv
<1>8. CASE lost' # "cache"
  <2>1. grab' = Screen /\ grab' # Blank /\ lost' = lost
    BY <1>1, <1>8
  <2>2. Undisturbed'
    BY <1>1, <1>2, <2>1, ScanUndisturbed DEF ScanStates
  <2>3. focus
    BY <1>1, <1>8, <2>1 DEF ClickerInv, ScanProgress
  <2>4. grab' = deck[page]
    BY <2>1, <2>3 DEF Screen
  <2>5. Scannable' <=> Scannable
    BY <1>1 DEF Scannable
  <2>6. Scannable =>
          /\ cache' # <<>> /\ Len(cache') <= Len(deck) /\ \A i \in 1 .. Len(cache') : cache'[i] = deck[i]
          /\ snap' = "turn" => page = Len(cache')
          /\ snap' = "back" => Len(cache') = Len(deck)
    <3> HAVE Scannable
    <3>1. /\ cache # <<>> /\ Len(cache) <= Len(deck) /\ \A i \in 1 .. Len(cache) : cache[i] = deck[i]
          /\ page = IF Len(cache) < Len(deck) THEN Len(cache) + 1 ELSE Len(cache)
      BY <1>1, <1>8, <2>1 DEF ClickerInv, ScanProgress
    <3>2. Len(cache) >= 1 /\ Len(deck) \in Nat
      <4>1. Len(deck) \in Nat /\ (cache = <<>> <=> Len(cache) = 0)
        BY DeckFacts DEF ClickerInv
      <4>2. cache # <<>>
        BY <3>1
      <4> QED BY <1>3, <4>1, <4>2
    <3>3. \A i \in 1 .. Len(deck) - 1 : deck[i] # deck[i + 1]
      BY DEF Scannable
    <3>4. CASE Len(cache) < Len(deck)
      <4>1. Len(cache) \in 1 .. Len(deck) - 1 /\ cache[Len(cache)] = deck[Len(cache)] /\ grab' = deck[Len(cache) + 1]
        BY <1>3, <2>4, <3>1, <3>2, <3>4
      <4>2. ~end
        BY <2>1, <3>3, <4>1 DEF end
      <4>3. \A i \in 1 .. Len(cache') : cache'[i] = deck[i]
        <5> TAKE i \in 1 .. Len(cache')
        <5>1. CASE i = Len(cache) + 1
          BY <1>4, <4>1, <4>2, <5>1
        <5>2. CASE i # Len(cache) + 1
          <6>1. i \in 1 .. Len(cache)
            BY <1>3, <1>4, <4>2, <5>2
          <6> QED BY <1>4, <3>1, <4>2, <6>1
        <5> QED BY <5>1, <5>2
      <4> QED BY <1>1, <1>3, <1>4, <3>1, <3>2, <3>4, <4>2, <4>3
    <3>5. CASE ~(Len(cache) < Len(deck))
      <4>1. page = Len(cache) /\ Len(cache) = Len(deck)
        BY <1>3, <3>1, <3>2, <3>5
      <4>2. cache[Len(cache)] = grab'
        BY <2>4, <3>1, <3>2, <4>1
      <4>3. end
        BY <3>1, <4>2 DEF end
      <4> QED BY <1>1, <3>1, <4>1, <4>3
    <3> QED BY <3>4, <3>5
  <2>7. snap' \in {"turn", "back"}
    BY <1>1
  <2>8. ScanProgress'
    BY <1>1, <2>3, <2>5, <2>6, <2>7 DEF ScanProgress
  <2> QED BY <1>5, <1>6, <2>2, <2>8 DEF ClickerInv
<1> QED BY <1>7, <1>8

LEMMA ScanEndsKeeps == ASSUME ClickerInv, ScanEnds PROVE ClickerInv'
<1>1. snap = "back" /\ tap("home") /\ idx' = 0 /\ snap' = "grab" /\ UNCHANGED <<cache, grab, lost>>
  BY DEF ScanEnds
<1>2. /\ ~scan /\ ~refresh /\ Requests' = Requests /\ Scanning
      /\ UNCHANGED <<queue, scan, refresh, seen, tiles, stale, client, left, input, event, open>>
  BY <1>1, ScanFacts DEF ScanEnds, ScanStates
<1>3. deck' = deck /\ focus' = focus /\ available' = available /\ page' \in DOMAIN deck /\ (focus => page' = 1)
  <2>1. Turned("home") \in DOMAIN deck /\ (focus => Turned("home") = 1)
    BY TurnedFacts DEF ClickerInv, Nav
  <2> QED BY <1>1, <2>1 DEF tap
<1>4. ClickerTypes' /\ ClickerPlace'
  <2>1. ClickerTypes'
    BY <1>1, <1>2, <1>3 DEF ClickerInv, ClickerTypes
  <2> QED BY <1>1, <1>2, <2>1 DEF ClickerInv, ClickerPlace
<1>5. ShownFresh' /\ TilesFresh'
  BY <1>1, FreshWill DEF WillGrab
<1>6. CASE lost = "cache"
  BY <1>1, <1>4, <1>5, <1>6, LostAll DEF ClickerInv
<1>7. CASE lost # "cache"
  <2>1. Undisturbed'
    BY <1>1, <1>2, ScanUndisturbed DEF ScanStates
  <2>2. ScanProgress'
    BY <1>1 DEF ScanProgress
  <2>3. focus /\ page' = 1 /\ page' - 1 = 0 /\ (Scannable' <=> Scannable)
    BY <1>1, <1>3, <1>7 DEF ClickerInv, ScanProgress, Scannable
  <2>4. Scannable => cache = deck
    <3> HAVE Scannable
    <3>1. Len(cache) = Len(deck) /\ \A i \in 1 .. Len(cache) : cache[i] = deck[i]
      BY <1>1, <1>7 DEF ClickerInv, ScanProgress
    <3>2. cache \in Seq(Looks) /\ deck \in Seq({deck[i] : i \in DOMAIN deck})
      BY ClickerAssumption DEF ClickerInv, ClickerTypes
    <3> QED BY <3>1, <3>2
  <2>5. Arrives(Requests', idx', Len(cache'), page' - 1)
    <3>1. Requests \in Seq(Events) /\ Len(cache) \in Nat
      BY RequestsType, DeckFacts DEF ClickerInv
    <3>2. \A j \in DOMAIN Requests : Requests[j] \notin Nav
      BY <1>1, <1>7 DEF ClickerInv, Undisturbed, ScanStates
    <3>3. Arrives(Requests, 0, Len(cache), 0)
      BY <3>1, <3>2, ArrivesFlat
    <3> QED BY <1>1, <1>2, <2>3, <3>3
  <2>6. Following'
    BY <1>1, <1>3, <2>3, <2>4, <2>5 DEF Following
  <2> QED BY <1>4, <1>5, <2>1, <2>2, <2>6 DEF ClickerInv
<1> QED BY <1>6, <1>7

-----------------------------------------------------------------------------
LEMMA ClickerStarts == ASSUME ClickerInit PROVE ClickerInv
<1>1. /\ deck \in Decks /\ page \in DOMAIN deck /\ focus = TRUE /\ available \in BOOLEAN /\ client = "here"
      /\ left = MaxEvents /\ input = "read" /\ event = NoEvent /\ queue = <<>> /\ open = TRUE /\ snap = "hello"
      /\ scan = FALSE /\ refresh = FALSE /\ cache = <<>> /\ idx = 0 /\ grab = Blank /\ seen = Blank
      /\ tiles = [o \in {-1, 1} |-> Blank] /\ stale = FALSE /\ lost = "no"
  BY DEF ClickerInit
<1>2. Blank \in Looks /\ <<>> \in Seq(Looks) /\ <<>> \in Seq(Events) /\ Len(<<>>) = 0 /\ DOMAIN <<>> = {}
  BY DEF Looks
<1>3. ClickerTypes
  BY <1>1, <1>2, ClickerAssumption DEF ClickerTypes
<1>4. ClickerPlace /\ ShownFresh /\ TilesFresh /\ ScanProgress /\ Following
  BY <1>1 DEF ClickerPlace, ShownFresh, TilesFresh, ScanProgress, Following, WillGrab
<1>5. Requests = <<>>
  BY <1>1 DEF Requests
<1>6. Undisturbed
  BY <1>2, <1>5 DEF Undisturbed
<1> QED BY <1>3, <1>4, <1>6 DEF ClickerInv

LEMMA ClickerStutters == ASSUME ClickerInv, UNCHANGED clicker PROVE ClickerInv'
<1>1. UNCHANGED <<deck, page, focus, available, client, left, input, event, queue, open, snap, scan, refresh, cache,
                  idx, grab, seen, tiles, stale, lost>>
  BY DEF clicker, doc, host, ghosts
<1>2. ClickerTypes' /\ ClickerPlace'
  BY <1>1 DEF ClickerInv, ClickerTypes, ClickerPlace
<1> QED BY <1>1, <1>2, StillKeeps

(* Between the two threads, whatever the client sends and whenever it goes.*)
LEMMA ClickerInvariant == ClickerSpec => []ClickerInv
<1>1. ClickerInv /\ [ClickerNext]_clicker => ClickerInv'
  BY ReadsKeeps, InjectKeeps, PostsKeeps, JoinedKeeps, HelloKeeps, ReceivesKeeps, DrainsKeeps, GrabsKeeps,
     SendsKeeps, ScanBeginsKeeps, ScanFirstKeeps, ScanTurnsKeeps, ScanLooksKeeps, ScanEndsKeeps, ClientKeeps,
     ClickerStutters
     DEF ClickerNext, Typing, Showing
<1> QED BY ClickerStarts, <1>1, PTL DEF ClickerSpec

(* A clicker session keeps its types: serve_clicker, its two threads and   *)
(* the slides they hold (at most SCAN_MAX_PAGES).                          *)
THEOREM ClickerTyped == ClickerSpec => []ClickerTypes
<1>1. ClickerInv => ClickerTypes
  BY DEF ClickerInv
<1> QED BY ClickerInvariant, <1>1, PTL

(* The preview a settled client has is of the slide its last key left on   *)
(* the screen (serve_clicker's order; snapshot_loop's coalescing).         *)
THEOREM PreviewStaysFresh == ClickerSpec => []PreviewFresh
<1>1. ClickerInv => PreviewFresh
  <2> SUFFICES ASSUME ClickerInv, Settled, ~stale PROVE seen = Screen
    BY DEF PreviewFresh
  <2>1. ~WillGrab /\ snap \notin Sending /\ client # "gone"
    <3>1. Requests = <<>> /\ DOMAIN <<>> = {}
      BY DEF Settled, Requests
    <3> QED BY <3>1 DEF ClickerInv, ClickerPlace, Settled, WillGrab, ScanStates, Sending
  <2> QED BY <2>1 DEF ClickerInv, ShownFresh
<1> QED BY ClickerInvariant, <1>1, PTL

(* The tiles a settled client has are the slides next to the one on the    *)
(* screen, while the presenter is followed at all (scan_deck, apply_index).*)
THEOREM NeighboursStayTrue == ClickerSpec => []NeighboursTrue
<1>1. ClickerInv => NeighboursTrue
  <2> SUFFICES ASSUME ClickerInv, Settled, Scannable, cache # <<>>, lost = "no", focus, NEW o \in {-1, 1}
               PROVE  tiles[o] = IF page + o \in DOMAIN deck THEN deck[page + o] ELSE Blank
    BY DEF NeighboursTrue
  <2>1. Requests = <<>> /\ ~WillGrab /\ snap \notin Sending /\ client # "gone" /\ ~Scanning
    <3>1. Requests = <<>> /\ queue = <<>> /\ DOMAIN <<>> = {}
      BY DEF Settled, Requests
    <3> QED BY <3>1 DEF ClickerInv, ClickerPlace, Settled, WillGrab, ScanStates, Sending, Scanning
  <2>2. tiles[o] = Neighbour(o)
    BY <2>1 DEF ClickerInv, TilesFresh
  <2>3. cache = deck /\ Arrives(<<>>, idx, Len(cache), page - 1)
    BY <2>1 DEF ClickerInv, Following
  <2>4. page - 1 = idx
    BY <2>3, Arrived
  <2>5. idx + o + 1 = page + o
    <3>1. page \in Nat
      BY DeckFacts DEF ClickerInv
    <3> QED BY <2>4, <3>1
  <2> QED BY <2>2, <2>3, <2>5 DEF Neighbour
<1> QED BY ClickerInvariant, <1>1, PTL
=============================================================================

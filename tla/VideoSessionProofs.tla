--------------------------- MODULE VideoSessionProofs ---------------------------
(***************************************************************************)
(* Proofs about VideoSession, for any number of serving loops: the types   *)
(* of its state, that no callback outlives its session, and what the       *)
(* registry of displays keeps track of.                                    *)
(***************************************************************************)
EXTENDS VideoSession, TLAPS

(* What a loop's session is made of, and what it was asked for while it    *)
(* looks for a display.                                                    *)
Wanted == [size : {q.size : q \in Asks}, name : {q.name : q \in Asks} \cup Names]
Places == {"free", "named", "seen", "create", "wait", "find", "start",
           "stream", "stopped", "barrier", "join", "control"}
Session ==
  [at : Places, mode : {"none", "extend", "mirror", "control"}, want : Wanted \cup {None},
   seen : SUBSET Ids, id : Ids \cup {Primary, None}, client : {"here", "gone"},
   input : BOOLEAN, dead : BOOLEAN, queued : 0..MaxQueued, sending : BOOLEAN,
   chan : 0..Capacity, writing : BOOLEAN]
Sessions ==
  /\ s \in [Loops -> Session]
  /\ \A l \in Loops : /\ s[l].at \in {"named", "seen", "create", "wait"} => s[l].want \in Wanted
                      /\ s[l].at = "wait" => s[l].id \in 1..made

(* The displays and their registry, apart from the sessions.               *)
Displays ==
  /\ active \subseteq held /\ held \subseteq 1..made /\ made \in 0..MaxIds
  /\ entries \subseteq [id : 1..made, size : {q.size : q \in Asks},
                        name : {q.name : q \in Asks} \cup Names]
  /\ friendly \in Names \cup {None} /\ removing \in 1..made \cup {None}

TypeInv == Displays /\ Sessions

LEMMA TypeInit == Init => TypeInv
  <1> SUFFICES ASSUME Init PROVE TypeInv
    OBVIOUS
  <1>1. Idle \in Session
    BY VideoAssumption, SMT DEF Idle, Session, Places
  <1>2. Sessions
    BY <1>1 DEF Init, Sessions, Idle
  <1> QED BY <1>2, VideoAssumption, SMT DEF Init, TypeInv, Displays

LEMMA IdleSession == Idle \in Session /\ Idle.at = "free" /\ Idle.queued = 0
  BY VideoAssumption, SMT DEF Idle, Session, Places

(* What each step does to the types and to the callbacks.                  *)
Drained == \A l \in Loops : s[l].at \notin {"stream", "stopped", "barrier"} => s[l].queued = 0
Inv == TypeInv /\ Drained

LEMMA InvInit == Init => Inv
  <1> SUFFICES ASSUME Init PROVE Inv
    OBVIOUS
  <1>1. Drained
    BY DEF Init, Drained, Idle
  <1> QED BY <1>1, TypeInit DEF Inv

(* A session a loop may have while n displays were made, and the step that *)
(* gives it to loop l.                                                     *)
Fits(t, n) ==
  /\ t \in Session
  /\ t.at \in {"named", "seen", "create", "wait"} => t.want \in Wanted
  /\ t.at = "wait" => t.id \in 1..n
  /\ t.at \notin {"stream", "stopped", "barrier"} => t.queued = 0
Gets(l, t) == s' = [s EXCEPT ![l] = t]

LEMMA InvFits ==
  ASSUME Inv
  PROVE  s \in [Loops -> Session] /\ (\A l \in Loops : Fits(s[l], made)) /\ made \in Nat
  BY VideoAssumption, SMT DEF Inv, TypeInv, Sessions, Displays, Drained, Fits

LEMMA Replaced ==
  ASSUME Inv, Displays', made <= made', NEW l \in Loops, NEW t, Gets(l, t), Fits(t, made')
  PROVE  Inv'
  <1>1. made \in Nat /\ made' \in Nat
    BY VideoAssumption, SMT DEF Inv, TypeInv, Displays
  <1>2. s' \in [Loops -> Session]
    BY InvFits DEF Gets, Fits
  <1>3. ASSUME NEW k \in Loops PROVE Fits(s'[k], made')
    <2>1. CASE k = l
      BY <2>1, InvFits DEF Gets
    <2>2. CASE k # l
      <3>1. s'[k] = s[k] /\ Fits(s[k], made)
        BY <2>2, InvFits DEF Gets
      <3> QED BY <1>1, <3>1, SMT DEF Fits
    <2> QED BY <2>1, <2>2
  <1> QED BY <1>2, <1>3 DEF Inv, TypeInv, Sessions, Drained, Fits

(* A session that ends.                                                    *)
LEMMA Ended ==
  ASSUME Inv, NEW l \in Loops, Ends(l), Displays', made' = made
  PROVE  Inv'
  <1>1. made <= made'
    BY InvFits, SMT
  <1>2. Fits(Idle, made') /\ Gets(l, Idle)
    BY IdleSession DEF Ends, Fits, Gets
  <1> QED BY <1>1, <1>2, Replaced

(* The registry's steps of a session.                                      *)
LEMMA RegistryStep ==
  ASSUME Inv, NEW l \in Loops, Registry(l)
  PROVE  Inv'
  <1>t. /\ s[l] \in Session /\ s \in [Loops -> Session] /\ made \in Nat /\ made <= made
        /\ Fits(s[l], made) /\ Displays
    BY InvFits, SMT DEF Inv, TypeInv
  <1>1. CASE active_displays(l)
    <2> PICK answer \in {active, {}} : s' = [s EXCEPT ![l].at = "seen", ![l].seen = answer]
      BY <1>1 DEF active_displays
    <2> DEFINE t == [s[l] EXCEPT !.at = "seen", !.seen = answer]
    <2>1. answer \in SUBSET Ids
      <3>1. active \subseteq 1..made /\ made \in 0..MaxIds
        BY <1>t DEF Displays
      <3>2. active \in SUBSET Ids
        BY <3>1, VideoAssumption, SMT DEF Ids
      <3> QED BY <3>2
    <2>2. Displays' /\ made' = made /\ s[l].at = "named"
      BY <1>1, <1>t DEF active_displays, Displays, window
    <2>3. Fits(t, made') /\ Gets(l, t)
      BY <1>1, <1>t, <2>1, <2>2 DEF active_displays, Session, Places, Fits, Gets
    <2> QED BY <1>t, <2>2, <2>3, Replaced
  <1>2. CASE ensure_display(l)
    <2>1. Displays' /\ made' = made /\ s[l].at = "seen"
      <3>1. /\ UNCHANGED <<friendly, removing, made>> /\ entries' \subseteq entries /\ s[l].at = "seen"
            /\ \E stale : held' = held \ stale /\ active' = active \ stale
        <4>1. Listed(s[l].seen) \subseteq entries /\ held = held \ {} /\ active = active \ {}
          BY DEF Listed
        <4> QED BY <1>2, <4>1 DEF ensure_display
      <3> QED BY <1>t, <3>1 DEF Displays
    <2>2. \A d \in entries : d.id \in Ids
      BY <1>t, VideoAssumption, SMT DEF Displays, Ids
    <2>3. CASE \E d \in entries : s' = [s EXCEPT ![l].at = "find", ![l].id = d.id, ![l].seen = {}]
      <3> PICK d \in entries : s' = [s EXCEPT ![l].at = "find", ![l].id = d.id, ![l].seen = {}]
        BY <2>3
      <3> DEFINE t == [s[l] EXCEPT !.at = "find", !.id = d.id, !.seen = {}]
      <3>1. Fits(t, made') /\ Gets(l, t)
        BY <1>t, <2>1, <2>2 DEF Session, Places, Fits, Gets
      <3> QED BY <1>t, <2>1, <3>1, Replaced
    <2>4. CASE s' = [s EXCEPT ![l].at = "create", ![l].seen = {}]
      <3> DEFINE t == [s[l] EXCEPT !.at = "create", !.seen = {}]
      <3>1. Fits(t, made') /\ Gets(l, t)
        BY <1>t, <2>1, <2>4 DEF Session, Places, Fits, Gets
      <3> QED BY <1>t, <2>1, <3>1, Replaced
    <2> QED BY <1>2, <2>3, <2>4 DEF ensure_display, Listed
  <1>3. CASE create_display(l)
    <2>1. CASE Ends(l) /\ UNCHANGED <<made, held>>
      <3>1. Displays'
        BY <1>3, <1>t, <2>1 DEF create_display, Displays, window
      <3> QED BY <2>1, <3>1, Ended
    <2>2. CASE ~(Ends(l) /\ UNCHANGED <<made, held>>)
      <3> DEFINE t == [s[l] EXCEPT !.at = "wait", !.id = made + 1]
      <3>1. made < MaxIds /\ made' = made + 1 /\ held' = held \cup {made + 1}
            /\ s' = [s EXCEPT ![l].at = "wait", ![l].id = made + 1] /\ s[l].at = "create"
            /\ UNCHANGED <<active, window, strays>>
        BY <1>3, <2>2 DEF create_display
      <3>2. made + 1 \in Ids /\ made + 1 \in 1..made' /\ made' \in 0..MaxIds /\ 1..made \subseteq 1..made'
            /\ made <= made'
        BY <1>t, <3>1, VideoAssumption, SMT DEF Displays, Ids
      <3>3. Displays'
        BY <1>t, <3>1, <3>2, SMT DEF Displays, window
      <3>4. Fits(t, made') /\ Gets(l, t)
        BY <1>t, <3>1, <3>2 DEF Session, Places, Fits, Gets
      <3> QED BY <3>2, <3>3, <3>4, Replaced
    <2> QED BY <2>1, <2>2
  <1>4. CASE wait_for_display(l)
    <2>1. s[l].want \in Wanted /\ s[l].id \in 1..made /\ s[l].at = "wait" /\ s[l].queued = 0
      BY <1>4, <1>t DEF wait_for_display, Fits
    <2>2. CASE /\ s[l].id \in active
               /\ entries' = entries \cup {[id |-> s[l].id, size |-> s[l].want.size, name |-> s[l].want.name]}
               /\ Goes(l, "find") /\ UNCHANGED lost
      <3> DEFINE t == [s[l] EXCEPT !.at = "find"]
      <3>1. Displays' /\ made' = made
        BY <1>4, <1>t, <2>1, <2>2 DEF wait_for_display, Displays, Wanted
      <3>2. Fits(t, made') /\ Gets(l, t)
        BY <1>t, <2>1, <2>2 DEF Session, Places, Fits, Gets, Goes
      <3> QED BY <1>t, <3>1, <3>2, Replaced
    <2>3. CASE lost' = lost \cup {s[l].id} /\ Ends(l) /\ UNCHANGED entries
      <3>1. Displays' /\ made' = made
        BY <1>4, <1>t, <2>3 DEF wait_for_display, Displays
      <3> QED BY <2>3, <3>1, Ended
    <2> QED BY <1>4, <2>2, <2>3 DEF wait_for_display
  <1> QED BY <1>1, <1>2, <1>3, <1>4 DEF Registry

(* The steps of a session that leave the displays alone.                   *)
LEMMA SessionStep ==
  ASSUME Inv, NEW l \in Loops, UNCHANGED <<held, active, window, made, strays>>,
         \/ serve_session(l) \/ serve_video(l) \/ start_capture(l)
         \/ Sample(l) \/ capture_and_encode(l) \/ CaptureDies(l)
         \/ stream_to_client(l) \/ Teardown(l) \/ receive_and_inject(l) \/ Leaves(l)
  PROVE  Inv'
  <1>t. /\ s[l] \in Session /\ s \in [Loops -> Session] /\ made \in Nat /\ made <= made'
        /\ Fits(s[l], made) /\ Displays /\ made' = made
    BY InvFits, SMT DEF Inv, TypeInv
  <1>d. Displays'
    BY <1>t DEF Displays, window
  <1>e. ASSUME Ends(l) PROVE Inv'
    BY <1>e, <1>t, <1>d, Ended
  <1>s. ASSUME NEW t, Fits(t, made), Gets(l, t) PROVE Inv'
    BY <1>s, <1>t, <1>d, Replaced
  <1>1. CASE serve_session(l)
    <2>1. ASSUME NEW q \in Asks
          PROVE  LET t == [Idle EXCEPT !.at = "named", !.mode = "extend", !.client = "here",
                                       !.want = [size |-> q.size, name |-> resolved_name(q.name)]]
                 IN Fits(t, made)
      <3>1. [size |-> q.size, name |-> resolved_name(q.name)] \in Wanted
        BY <1>t DEF resolved_name, Wanted, Displays
      <3> QED BY <3>1, IdleSession DEF Fits, Session, Places
    <2>2. Fits([Idle EXCEPT !.at = "find", !.mode = "mirror", !.client = "here", !.id = Primary], made)
      BY IdleSession DEF Fits, Session, Places
    <2>3. Fits([Idle EXCEPT !.at = "control", !.mode = "control", !.client = "here", !.id = Primary], made)
      BY IdleSession DEF Fits, Session, Places
    <2> QED BY <1>1, <1>s, <2>1, <2>2, <2>3 DEF serve_session, Gets
  <1>2. CASE serve_video(l)
    <2> DEFINE t == [s[l] EXCEPT !.at = "start", !.input = TRUE]
    <2>1. s[l].at = "find" => Fits(t, made)
      BY <1>t DEF Session, Places, Fits
    <2>2. s' = [s EXCEPT ![l].at = "start", ![l].input = TRUE] => Gets(l, t)
      BY <1>t DEF Gets
    <2> QED BY <1>2, <1>e, <1>s, <2>1, <2>2 DEF serve_video
  <1>3. CASE start_capture(l)
    <2> DEFINE t == [s[l] EXCEPT !.at = "stream"]
    <2>1. s[l].at = "start" => Fits(t, made)
      BY <1>t DEF Session, Places, Fits
    <2>2. Goes(l, "stream") => Gets(l, t)
      BY <1>t DEF Gets, Goes
    <2> QED BY <1>3, <1>e, <1>s, <2>1, <2>2 DEF start_capture
  <1>4. CASE Sample(l)
    <2> DEFINE t == [s[l] EXCEPT !.queued = s[l].queued + 1]
    <2>1. s[l].queued \in 0..MaxQueued /\ s[l].queued < MaxQueued /\ Capturing(l)
      BY <1>4, <1>t DEF Sample, Session
    <2>2. s[l].queued + 1 \in 0..MaxQueued
      BY <2>1, VideoAssumption, SMT
    <2>3. Fits(t, made) /\ Gets(l, t)
      BY <1>4, <1>t, <2>1, <2>2 DEF Session, Places, Fits, Gets, Sample, Capturing
    <2> QED BY <1>s, <2>3
  <1>5. CASE capture_and_encode(l)
    <2>1. s[l].queued \in 0..MaxQueued /\ s[l].queued > 0 /\ s[l].chan \in 0..Capacity
      BY <1>5, <1>t DEF capture_and_encode, Session
    <2>2. /\ s[l].queued - 1 \in 0..MaxQueued
          /\ s[l].chan < Capacity => s[l].chan + 1 \in 0..Capacity
          /\ s[l].queued # 0
      BY <2>1, VideoAssumption, SMT
    <2>3. s[l].at \in {"stream", "stopped", "barrier"}
      BY <1>t, <2>2 DEF Fits
    <2> DEFINE a == [s[l] EXCEPT !.sending = TRUE]
               b == [s[l] EXCEPT !.queued = s[l].queued - 1]
               c == [s[l] EXCEPT !.sending = FALSE, !.queued = s[l].queued - 1, !.chan = s[l].chan + 1]
    <2>4. Fits(a, made) /\ Fits(b, made) /\ (s[l].chan < Capacity => Fits(c, made))
      BY <1>t, <2>2, <2>3, ZenonT(30) DEF Session, Places, Fits
    <2>5. Gets(l, a) \/ Gets(l, b) \/ (s[l].chan < Capacity /\ Gets(l, c))
      BY <1>5, <1>t DEF capture_and_encode, Gets
    <2> QED BY <1>s, <2>4, <2>5
  <1>6. CASE CaptureDies(l)
    <2> DEFINE t == [s[l] EXCEPT !.dead = TRUE]
    <2>1. Fits(t, made) /\ Gets(l, t)
      BY <1>6, <1>t DEF Session, Fits, Gets, CaptureDies
    <2> QED BY <1>s, <2>1
  <1>7. CASE stream_to_client(l)
    <2> DEFINE a == [s[l] EXCEPT !.chan = s[l].chan - 1, !.writing = TRUE]
               b == [s[l] EXCEPT !.chan = s[l].chan - 1, !.at = "stopped"]
               f == [s[l] EXCEPT !.chan = s[l].chan - 1]
               c == [s[l] EXCEPT !.writing = FALSE, !.at = IF s[l].client = "here" THEN s[l].at ELSE "stopped"]
               e == [s[l] EXCEPT !.at = "stopped"]
    <2>1. s[l].at = "stream" /\ s[l].chan \in 0..Capacity
      BY <1>7, <1>t DEF stream_to_client, Takes, Writes, recv_timeout, Streaming, Session
    <2>2. s[l].chan > 0 => s[l].chan - 1 \in 0..Capacity
      BY <2>1, VideoAssumption, SMT
    <2>3. Fits(c, made) /\ Fits(e, made) /\ (s[l].chan > 0 => Fits(a, made) /\ Fits(b, made) /\ Fits(f, made))
      BY <1>t, <2>1, <2>2 DEF Session, Places, Fits
    <2>4. Gets(l, c) \/ Gets(l, e) \/ (s[l].chan > 0 /\ (Gets(l, a) \/ Gets(l, b) \/ Gets(l, f)))
      <3>1. Takes(l) => s[l].chan > 0 /\ (Gets(l, a) \/ Gets(l, b) \/ Gets(l, f))
        BY <1>t DEF Takes, Gets
      <3>2. Writes(l) => Gets(l, c)
        BY <1>t DEF Writes, Gets
      <3>3. recv_timeout(l) => Gets(l, e)
        BY <1>t DEF recv_timeout, Gets, Goes
      <3> QED BY <1>7, <3>1, <3>2, <3>3 DEF stream_to_client
    <2> QED BY <1>s, <2>3, <2>4
  <1>8. CASE Teardown(l)
    <2> DEFINE a == [s[l] EXCEPT !.at = "barrier"]
               b == [s[l] EXCEPT !.at = "join"]
               c == [Idle EXCEPT !.queued = s[l].queued]
    <2>1. stop_capture(l) => Fits(a, made) /\ Gets(l, a)
      BY <1>t DEF stop_capture, Goes, Session, Places, Fits, Gets
    <2>2. dispatch_async_and_wait(l) => Fits(b, made) /\ Gets(l, b)
      BY <1>t DEF dispatch_async_and_wait, Goes, Session, Places, Fits, Gets
    <2>3. join(l) => s[l].queued = 0
      BY <1>t DEF join, Fits
    <2>4. join(l) => Fits(c, made) /\ Gets(l, c)
      BY <1>t, <2>3, IdleSession DEF join, Session, Fits, Gets
    <2> QED BY <1>8, <1>s, <2>1, <2>2, <2>4 DEF Teardown
  <1>9. CASE receive_and_inject(l)
    <2> DEFINE t == [s[l] EXCEPT !.input = FALSE]
    <2>1. s' = [s EXCEPT ![l].input = FALSE] => Fits(t, made) /\ Gets(l, t)
      BY <1>t DEF Session, Fits, Gets
    <2> QED BY <1>9, <1>e, <1>s, <2>1 DEF receive_and_inject
  <1>10. CASE Leaves(l)
    <2> DEFINE t == [s[l] EXCEPT !.client = "gone"]
    <2>1. Fits(t, made) /\ Gets(l, t)
      BY <1>10, <1>t DEF Session, Fits, Gets, Leaves
    <2> QED BY <1>s, <2>1
  <1> QED BY <1>1, <1>2, <1>3, <1>4, <1>5, <1>6, <1>7, <1>8, <1>9, <1>10

LEMMA InvStep == Inv /\ [Next]_vars => Inv'
  <1> SUFFICES ASSUME Inv, [Next]_vars PROVE Inv'
    OBVIOUS
  <1>1. CASE \E l \in Loops : Registry(l)
    BY <1>1, RegistryStep
  <1>2. ASSUME NEW l \in Loops,
               \/ serve_session(l) \/ serve_video(l) \/ start_capture(l)
               \/ Sample(l) \/ capture_and_encode(l) \/ CaptureDies(l)
               \/ stream_to_client(l) \/ Teardown(l) \/ receive_and_inject(l) \/ Leaves(l)
        PROVE  Inv'
    <2>1. UNCHANGED <<held, active, window, made, strays>>
      BY <1>2 DEF serve_session, serve_video, start_capture, Sample, capture_and_encode, CaptureDies,
                  stream_to_client, Takes, Writes, recv_timeout, Teardown, stop_capture,
                  dispatch_async_and_wait, join, receive_and_inject, Leaves
    <2> QED BY <1>2, <2>1, SessionStep
  <1>3. CASE Appears \/ Sleeps \/ remove_display \/ Unlists \/ set_friendly_name \/ UNCHANGED vars
    <2>1. s' = s /\ made' = made
      BY <1>3 DEF Appears, Sleeps, remove_display, Unlists, set_friendly_name, vars
    <2>2. Displays'
      BY <1>3 DEF Inv, TypeInv, Displays, Appears, Sleeps, remove_display, Unlists, set_friendly_name, vars, window
    <2> QED BY <2>1, <2>2 DEF Inv, TypeInv, Sessions, Drained
  <1> QED BY <1>1, <1>2, <1>3 DEF Next

(* Nothing runs on the capture queue once a session is over and its        *)
(* channel and closure are dropped, for any number of loops.               *)
THEOREM CallbacksDrained == Spec => []NoLateCallback
  <1>1. Inv => NoLateCallback
    BY DEF Inv, Drained, NoLateCallback
  <1> QED BY <1>1, InvInit, InvStep, PTL DEF Spec

-----------------------------------------------------------------------------
(* The registry.  A display being removed is retained no more.             *)
Registered == RegistryTrue /\ removing \notin held

LEMMA RegisteredInit == Init => Registered
  BY VideoAssumption DEF Init, Registered, RegistryTrue

(* No step of a session's own begins or ends a wait for a display.         *)
LEMMA Apart ==
  ASSUME Inv, NEW l \in Loops,
         \/ serve_session(l) \/ serve_video(l) \/ start_capture(l)
         \/ Sample(l) \/ capture_and_encode(l) \/ CaptureDies(l)
         \/ stream_to_client(l) \/ Teardown(l) \/ receive_and_inject(l) \/ Leaves(l)
  PROVE  /\ \A k \in Loops : /\ s'[k].at = "wait" <=> s[k].at = "wait"
                             /\ s'[k].id = s[k].id \/ s[k].at # "wait"
         /\ UNCHANGED <<held, active, window, made, strays>>
  <1>t. s \in [Loops -> Session] /\ s[l] \in Session /\ Fits(s[l], made)
    BY InvFits
  <1>q. s[l].queued > 0 => s[l].at \in {"stream", "stopped", "barrier"}
    <2>1. s[l].queued > 0 => s[l].queued # 0
      BY SMT
    <2> QED BY <1>t, <2>1 DEF Fits
  <1> USE <1>t DEF Session, Idle
  <1>1. CASE serve_session(l)
    <2>1. ASSUME NEW q \in Asks,
                 s' = [s EXCEPT ![l] = [Idle EXCEPT !.at = "named", !.mode = "extend", !.client = "here",
                         !.want = [size |-> q.size, name |-> resolved_name(q.name)]]]
          PROVE  \E t : s' = [s EXCEPT ![l] = t] /\ t.at \in {"named", "find", "control"}
      <3> DEFINE t == [Idle EXCEPT !.at = "named", !.mode = "extend", !.client = "here",
                         !.want = [size |-> q.size, name |-> resolved_name(q.name)]]
      <3>1. t.at = "named"
        OBVIOUS
      <3>2. s' = [s EXCEPT ![l] = t]
        BY <2>1
      <3> HIDE DEF t
      <3> QED BY <3>1, <3>2
    <2>2. PICK t : s' = [s EXCEPT ![l] = t] /\ t.at \in {"named", "find", "control"}
      <3>1. CASE s' = [s EXCEPT ![l] = [Idle EXCEPT !.at = "find", !.mode = "mirror", !.client = "here", !.id = Primary]]
        <4> DEFINE t == [Idle EXCEPT !.at = "find", !.mode = "mirror", !.client = "here", !.id = Primary]
        <4>1. t.at \in {"find", "control"} /\ s' = [s EXCEPT ![l] = t]
          BY <3>1
        <4> HIDE DEF t
        <4> QED BY <4>1
      <3>2. CASE s' = [s EXCEPT ![l] = [Idle EXCEPT !.at = "control", !.mode = "control", !.client = "here", !.id = Primary]]
        <4> DEFINE t == [Idle EXCEPT !.at = "control", !.mode = "control", !.client = "here", !.id = Primary]
        <4>1. t.at \in {"find", "control"} /\ s' = [s EXCEPT ![l] = t]
          BY <3>2
        <4> HIDE DEF t
        <4> QED BY <4>1
      <3> QED BY <1>1, <2>1, <3>1, <3>2 DEF serve_session
    <2>3. s[l].at = "free" /\ s'[l].at \in {"named", "find", "control"}
      BY <1>1, <2>2 DEF serve_session
    <2>4. \A k \in Loops : k = l \/ s'[k] = s[k]
      BY <2>2
    <2> QED BY <1>1, <2>3, <2>4 DEF serve_session
  <1>2. CASE serve_video(l)
    BY <1>2 DEF serve_video, Ends
  <1>3. CASE start_capture(l)
    BY <1>3 DEF start_capture, Ends, Goes
  <1>4. CASE Sample(l)
    BY <1>4 DEF Sample
  <1>5. CASE capture_and_encode(l)
    BY <1>5, <1>q DEF capture_and_encode
  <1>6. CASE CaptureDies(l)
    BY <1>6 DEF CaptureDies
  <1>7. CASE stream_to_client(l)
    BY <1>7 DEF stream_to_client, Takes, Writes, recv_timeout, Streaming, Goes
  <1>8. CASE Teardown(l)
    BY <1>8 DEF Teardown, stop_capture, dispatch_async_and_wait, join, Goes
  <1>9. CASE receive_and_inject(l)
    BY <1>9 DEF receive_and_inject, Ends
  <1>10. CASE Leaves(l)
    BY <1>10 DEF Leaves
  <1> QED BY <1>1, <1>2, <1>3, <1>4, <1>5, <1>6, <1>7, <1>8, <1>9, <1>10

(* Who waits for a display when one loop goes from one place to another.   *)
LEMMA UnderwaySteps ==
  ASSUME Inv, NEW l \in Loops, NEW t \in Session, Gets(l, t)
  PROVE  /\ Underway \ {s[l].id} \subseteq Underway'
         /\ s[l].at # "wait" => Underway \subseteq Underway'
         /\ t.at = "wait" => t.id \in Underway'
  <1>1. s \in [Loops -> Session]
    BY InvFits
  <1>2. s'[l] = t /\ \A k \in Loops : k # l => s'[k] = s[k]
    BY <1>1 DEF Gets
  <1> QED BY <1>2 DEF Underway

LEMMA RegisteredStep ==
  ASSUME Inv, Inv', Registered, [Next]_vars
  PROVE  Registered'
  <1>t. /\ s \in [Loops -> Session] /\ s' \in [Loops -> Session] /\ (\A l \in Loops : Fits(s[l], made))
        /\ made \in Nat /\ Displays
    BY InvFits DEF Inv, TypeInv, Sessions
  <1>n. None \notin held /\ None \notin {e.id : e \in entries}
    <2>1. None \notin 1..made
      BY <1>t, VideoAssumption, SMT DEF Displays
    <2> QED BY <1>t, <2>1 DEF Displays
  <1>g. ASSUME NEW l \in Loops, NEW t, Gets(l, t) PROVE t \in Session /\ s'[l] = t
    BY <1>g, <1>t DEF Gets
  <1>1. ASSUME NEW l \in Loops, active_displays(l) PROVE Registered'
    <2> PICK answer : s' = [s EXCEPT ![l].at = "seen", ![l].seen = answer]
      BY <1>1 DEF active_displays
    <2> DEFINE t == [s[l] EXCEPT !.at = "seen", !.seen = answer]
    <2>1. Gets(l, t) /\ s[l].at # "wait"
      BY <1>1, <1>t DEF Gets, active_displays
    <2> HIDE DEF t
    <2>2. Underway \subseteq Underway'
      BY <1>g, <2>1, UnderwaySteps
    <2> QED BY <1>1, <2>2 DEF active_displays, window, strays, Registered, RegistryTrue
  <1>2. ASSUME NEW l \in Loops, ensure_display(l) PROVE Registered'
    <2>1. \E t : Gets(l, t)
      <3>1. CASE \E d \in entries : s' = [s EXCEPT ![l].at = "find", ![l].id = d.id, ![l].seen = {}]
        <4> PICK d \in entries : s' = [s EXCEPT ![l].at = "find", ![l].id = d.id, ![l].seen = {}]
          BY <3>1
        <4>1. Gets(l, [s[l] EXCEPT !.at = "find", !.id = d.id, !.seen = {}])
          BY <1>t DEF Gets
        <4> QED BY <4>1
      <3>2. CASE s' = [s EXCEPT ![l].at = "create", ![l].seen = {}]
        <4>1. Gets(l, [s[l] EXCEPT !.at = "create", !.seen = {}])
          BY <1>t, <3>2 DEF Gets
        <4> QED BY <4>1
      <3> QED BY <1>2, <3>1, <3>2 DEF ensure_display, Listed
    <2>2. s[l].at # "wait"
      BY <1>2 DEF ensure_display
    <2>3. Underway \subseteq Underway'
      BY <1>g, <2>1, <2>2, UnderwaySteps
    <2> DEFINE ids == {e.id : e \in entries}
    <2>4. /\ unseen' = unseen \cup (ids \cap (held \ s[l].seen))
          /\ UNCHANGED <<lost, removing>>
          /\ \/ entries' = {e \in entries : e.id \in s[l].seen} /\ held' = held
             \/ entries' = {} /\ held' = held \ (ids \cap s[l].seen)
      <3>1. {d.id : d \in Listed(s[l].seen)} = ids \cap s[l].seen
        BY DEF Listed
      <3>2. {d.id : d \in Listed(held \ s[l].seen)} = ids \cap (held \ s[l].seen)
        BY DEF Listed
      <3>3. Listed(s[l].seen) = {e \in entries : e.id \in s[l].seen}
        BY DEF Listed
      <3> HIDE DEF ids
      <3> QED BY <1>2, <3>1, <3>2, <3>3 DEF ensure_display, Drops
    <2> QED BY <2>3, <2>4 DEF Registered, RegistryTrue
  <1>3. ASSUME NEW l \in Loops, create_display(l) PROVE Registered'
    <2>1. s[l].at # "wait"
      BY <1>3 DEF create_display
    <2>2. CASE Ends(l) /\ UNCHANGED <<made, held>>
      <3>1. Gets(l, Idle)
        BY <2>2 DEF Ends, Gets
      <3>2. Underway \subseteq Underway'
        BY <1>g, <2>1, <3>1, UnderwaySteps
      <3> QED BY <1>3, <2>2, <3>2 DEF create_display, window, strays, Registered, RegistryTrue
    <2>3. CASE /\ made' = made + 1 /\ held' = held \cup {made + 1}
               /\ s' = [s EXCEPT ![l].at = "wait", ![l].id = made + 1]
      <3> DEFINE t == [s[l] EXCEPT !.at = "wait", !.id = made + 1]
      <3>1. Gets(l, t) /\ t.at = "wait" /\ t.id = made + 1
        BY <1>t, <2>3 DEF Gets, Session
      <3> HIDE DEF t
      <3>2. Underway \subseteq Underway' /\ made + 1 \in Underway'
        BY <1>g, <2>1, <3>1, UnderwaySteps
      <3>3. made + 1 # removing
        <4>1. made + 1 \notin 1..made
          BY <1>t, SMT
        <4>2. made + 1 # None
          <5>1. made + 1 \in 0..MaxIds
            BY <2>3 DEF Inv, TypeInv, Displays
          <5> QED BY <5>1, VideoAssumption
        <4> QED BY <1>t, <4>1, <4>2 DEF Displays
      <3> QED BY <1>3, <2>3, <3>2, <3>3 DEF create_display, window, strays, Registered, RegistryTrue
    <2> QED BY <1>3, <2>2, <2>3 DEF create_display
  <1>4. ASSUME NEW l \in Loops, wait_for_display(l) PROVE Registered'
    <2>1. UNCHANGED <<held, active, friendly, removing, made, unseen>>
      BY <1>4 DEF wait_for_display
    <2>2. CASE /\ s[l].id \in active /\ UNCHANGED lost /\ Goes(l, "find")
               /\ entries' = entries \cup {[id |-> s[l].id, size |-> s[l].want.size, name |-> s[l].want.name]}
      <3> DEFINE d == [id |-> s[l].id, size |-> s[l].want.size, name |-> s[l].want.name]
                 t == [s[l] EXCEPT !.at = "find"]
      <3>1. Gets(l, t)
        BY <1>t, <2>2 DEF Gets, Goes
      <3>2. d.id = s[l].id /\ d.id \in held /\ entries' = entries \cup {d}
        BY <1>t, <2>2 DEF Displays
      <3> HIDE DEF d, t
      <3>3. Underway \ {s[l].id} \subseteq Underway'
        BY <1>g, <3>1, UnderwaySteps
      <3> QED BY <2>1, <2>2, <3>2, <3>3 DEF Registered, RegistryTrue
    <2>3. CASE lost' = lost \cup {s[l].id} /\ Ends(l) /\ UNCHANGED entries
      <3>1. Gets(l, Idle)
        BY <2>3 DEF Ends, Gets
      <3>2. Underway \ {s[l].id} \subseteq Underway'
        BY <1>g, <3>1, UnderwaySteps
      <3> QED BY <2>1, <2>3, <3>2 DEF Registered, RegistryTrue
    <2> QED BY <1>4, <2>2, <2>3 DEF wait_for_display
  <1>5. ASSUME NEW l \in Loops,
               \/ serve_session(l) \/ serve_video(l) \/ start_capture(l)
               \/ Sample(l) \/ capture_and_encode(l) \/ CaptureDies(l)
               \/ stream_to_client(l) \/ Teardown(l) \/ receive_and_inject(l) \/ Leaves(l)
        PROVE  Registered'
    <2>1. /\ \A k \in Loops : /\ s'[k].at = "wait" <=> s[k].at = "wait"
                              /\ s'[k].id = s[k].id \/ s[k].at # "wait"
          /\ UNCHANGED <<held, active, window, made, strays>>
      BY <1>5, Apart
    <2>2. Underway' = Underway
      BY <2>1 DEF Underway
    <2> QED BY <2>1, <2>2 DEF Registered, RegistryTrue, window, strays
  <1>6. CASE Appears \/ Sleeps \/ set_friendly_name \/ UNCHANGED vars
    <2>1. UNCHANGED <<s, held, entries, removing, lost, unseen>>
      BY <1>6 DEF Appears, Sleeps, set_friendly_name, vars, window, strays
    <2> QED BY <2>1 DEF Registered, RegistryTrue, Underway
  <1>7. CASE remove_display
    BY <1>7, <1>n DEF remove_display, strays, Registered, RegistryTrue, Underway
  <1>8. CASE Unlists
    BY <1>8, <1>n DEF Unlists, strays, Registered, RegistryTrue, Underway
  <1> QED BY <1>1, <1>2, <1>3, <1>4, <1>5, <1>6, <1>7, <1>8 DEF Next, Registry

(* "Keeps the shared VDisplays registry in sync so the GUI list is         *)
(* accurate", as far as it is: for any number of loops, displays and       *)
(* clients, whatever the window server answers, what is listed exists, and *)
(* a display is off the list only if an answer left it out, or if it was   *)
(* given up on or is being made.                                           *)
THEOREM RegistryInSync == Spec => []RegistryTrue
  <1>1. Init => Inv /\ Registered
    BY InvInit, RegisteredInit
  <1>2. Inv /\ Registered /\ [Next]_vars => (Inv /\ Registered)'
    BY InvStep, RegisteredStep
  <1>3. Inv /\ Registered => RegistryTrue
    BY DEF Registered
  <1> QED BY <1>1, <1>2, <1>3, PTL DEF Spec
=============================================================================

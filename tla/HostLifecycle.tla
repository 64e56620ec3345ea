----------------------------- MODULE HostLifecycle -----------------------------
(***************************************************************************)
(* A host window and the accept loops it starts: start, stop and           *)
(* apply_own_pin of the three HostApps (host-windows, host-macos and       *)
(* host-linux, src/gui.rs), first_free_port and startup_pin of host-ui,    *)
(* and the life of each serve_loop thread and each Linux discovery         *)
(* listener.                                                               *)
(*                                                                         *)
(* Stopping only sets a flag.  A loop looks at it between connections, and *)
(* its listener stays bound until then; the window does not wait for it,   *)
(* so that loops of several starts overlap.                                *)
(***************************************************************************)
EXTENDS Naturals, FiniteSets

CONSTANTS
  Ports,      \* the ports tried, BASE_PORT upwards
  Pins,       \* the PINs a window can show
  MaxStarts,  \* bound of the model: listeners opened in all
  None,       \* Option::None; as a port, the empty field: "first free port"
  Garbled     \* what else the port field can hold: text that is no port

ASSUME LifecycleAssumption ==
  /\ Ports \subseteq Nat /\ IsFiniteSet(Ports) /\ Ports # {}
  /\ Pins # {}
  /\ MaxStarts \in Nat
  /\ None \notin Nat \cup Pins
  /\ Garbled \notin Nat \cup {None}

VARIABLES
  linux,      \* the Linux window, or else the Windows and macOS one
  app,        \* the window: running, pin, own_pin, its port field, the port it shows
  opened,     \* how many listeners so far; the newest is the window's own
  loops,      \* per listener: its port, its PIN, its stop flag, where its thread is
  mdns_ad,    \* the port advertised over DNS-SD
  listening,  \* per start on Linux: its discovery listener, which wants one UDP port
  late        \* history: connections a loop has accepted since it was told to stop

vars == <<linux, app, opened, loops, mdns_ad, listening, late>>

Ids == 1..MaxStarts
NoLoop == [at |-> "none", port |-> None, pin |-> None, stop |-> FALSE]
Ended  == [NoLoop EXCEPT !.at = "ended", !.stop = TRUE]

Alive(i) == loops[i].at \notin {"none", "ended"}
FreePorts == {p \in Ports : \A i \in Ids : Alive(i) => loops[i].port # p}

(* first_free_port, or the one port that was asked for; {} is a failure:   *)
(* "Could not use port", or "Invalid port".                                *)
Bindable(wanted) ==
  IF wanted = None THEN {p \in FreePorts : \A q \in FreePorts : p <= q}
  ELSE FreePorts \cap {wanted}

(* Mutant: what is stored is used as it is, "none" included.               *)
StartupPin_Unchecked(own) == {own}

(* startup_pin: your own, or a fresh random one.  None is also a stored    *)
(* PIN no client could type, which is ignored.                             *)
StartupPin(own) == IF own = None THEN Pins ELSE {own}

-----------------------------------------------------------------------------
(* The window.                                                             *)

Stopped(ls) == [i \in Ids |-> IF i = opened THEN [ls[i] EXCEPT !.stop = TRUE] ELSE ls[i]]

(* Bind, run a loop with this PIN on a thread of its own, and advertise it *)
(* (`.ok()`: as well as may be).                                           *)
Opens(a, ls, port) ==
  /\ opened < MaxStarts
  /\ opened' = opened + 1
  /\ loops' = [ls EXCEPT ![opened + 1] = [at |-> "check", port |-> port, pin |-> a.pin, stop |-> FALSE]]
  /\ app' = [a EXCEPT !.running = TRUE, !.port = port]
  /\ mdns_ad' \in {port, None}
  /\ listening' = IF linux THEN [listening EXCEPT ![opened + 1] = "binding"] ELSE listening

(* No port: a window that was running has stopped all the same.            *)
Fails(a, ls) ==
  /\ app' = a
  /\ loops' = ls
  /\ UNCHANGED <<opened, listening>>

(* HostApp::start of the Windows and macOS windows: stop() comes first.    *)
StartDesktop(a) ==
  LET stopped == [a EXCEPT !.running = FALSE, !.port = None] IN
  \/ \E port \in Bindable(a.field) : Opens(stopped, Stopped(loops), port)
  \/ Bindable(a.field) = {} /\ Fails(stopped, Stopped(loops)) /\ mdns_ad' = None

(* HostApp::start of the Linux window does not stop anything, and draws    *)
(* the PIN only once it has a port.                                        *)
StartLinux(a, ls, ad) ==
  \/ \E port \in Bindable(None), pin \in StartupPin(a.own_pin) :
       Opens([a EXCEPT !.pin = pin], ls, port)
  \/ Bindable(None) = {} /\ Fails(a, ls) /\ mdns_ad' = ad

(* "Start hosting", "Restart host" and the port field's "Apply".           *)
Start ==
  /\ IF linux THEN ~app.running /\ StartLinux(app, loops, mdns_ad) ELSE StartDesktop(app)
  /\ UNCHANGED <<linux, late>>

(* Mutant: the advertisement is left standing.                             *)
Stop_StillAdvertised ==
  /\ linux /\ app.running
  /\ app' = [app EXCEPT !.running = FALSE]
  /\ loops' = Stopped(loops)
  /\ UNCHANGED <<linux, opened, mdns_ad, listening, late>>

(* The Linux window's "Stop".                                              *)
Stop ==
  /\ linux /\ app.running
  /\ app' = [app EXCEPT !.running = FALSE]
  /\ loops' = Stopped(loops)
  /\ mdns_ad' = None
  /\ UNCHANGED <<linux, opened, listening, late>>

(* Mutant: a running Linux host is started again without being stopped.    *)
apply_own_pin_StartsTwice ==
  /\ linux
  /\ \E own \in Pins \cup {None} : StartLinux([app EXCEPT !.own_pin = own], loops, mdns_ad)
  /\ UNCHANGED <<linux, late>>

(* "Use my own PIN": set or cleared, and a running host restarts.          *)
apply_own_pin ==
  /\ \E own \in Pins \cup {None}, pin \in Pins :
       LET a == [app EXCEPT !.own_pin = own, !.pin = pin] IN
       IF linux
       THEN IF app.running
            THEN StartLinux([app EXCEPT !.running = FALSE, !.own_pin = own], Stopped(loops), None)
            ELSE pin \in StartupPin(own) /\ Fails(a, loops) /\ UNCHANGED mdns_ad
       ELSE /\ own # None => pin = own
            /\ IF app.running THEN StartDesktop(a) ELSE Fails(a, loops) /\ UNCHANGED mdns_ad
  /\ UNCHANGED <<linux, late>>

(* Mutant: your own PIN stays on file.                                     *)
RegeneratePin_KeepsOwn ==
  /\ ~linux
  /\ \E pin \in Pins :
       LET a == [app EXCEPT !.pin = pin] IN
       IF app.running THEN StartDesktop(a) ELSE Fails(a, loops) /\ UNCHANGED mdns_ad
  /\ UNCHANGED <<linux, late>>

(* Mutant: the running loop is left with the PIN it had.                   *)
RegeneratePin_NoRestart ==
  /\ ~linux
  /\ \E pin \in Pins : app' = [app EXCEPT !.pin = pin, !.own_pin = None]
  /\ UNCHANGED <<linux, opened, loops, mdns_ad, listening, late>>

(* "Regenerate PIN", Windows and macOS.                                    *)
RegeneratePin ==
  /\ ~linux
  /\ \E pin \in Pins :
       LET a == [app EXCEPT !.pin = pin, !.own_pin = None] IN
       IF app.running THEN StartDesktop(a) ELSE Fails(a, loops) /\ UNCHANGED mdns_ad
  /\ UNCHANGED <<linux, late>>

(* The port field is typed into, to be applied by the next start.          *)
TypePort ==
  /\ ~linux
  /\ \E field \in (Ports \cup {None, Garbled}) \ {app.field} : app' = [app EXCEPT !.field = field]
  /\ UNCHANGED <<linux, opened, loops, mdns_ad, listening, late>>

-----------------------------------------------------------------------------
(* The loops' threads.                                                     *)

Moves(i, loop) ==
  /\ loops' = [loops EXCEPT ![i] = loop]
  /\ UNCHANGED <<linux, app, opened, mdns_ad, listening>>

(* Mutant: a loop that has been stopped goes on accepting.                 *)
LoopChecks_Never(i) ==
  /\ loops[i].at = "check"
  /\ Moves(i, [loops[i] EXCEPT !.at = "accept"])
  /\ UNCHANGED late

(* while !stop; the listener is closed as the thread ends.                 *)
LoopChecks(i) ==
  /\ loops[i].at = "check"
  /\ Moves(i, IF loops[i].stop THEN Ended ELSE [loops[i] EXCEPT !.at = "accept"])
  /\ UNCHANGED late

(* Mutant: a blocking accept(), which returns only for a client.           *)
LoopNaps_Blocked(i) == loops[i].at = "nowhere" /\ UNCHANGED vars

(* accept() finds nobody there: a nap of 100 ms.                           *)
LoopNaps(i) ==
  /\ loops[i].at = "accept"
  /\ Moves(i, [loops[i] EXCEPT !.at = "check"])
  /\ UNCHANGED late

LoopAccepts(i) ==
  /\ loops[i].at = "accept"
  /\ Moves(i, [loops[i] EXCEPT !.at = "handshake"])
  /\ late' = [late EXCEPT ![i] = IF loops[i].stop /\ @ < 2 THEN @ + 1 ELSE @]

(* Let in by this loop's PIN, or turned away by it or HANDSHAKE_TIMEOUT.   *)
HandshakeEnds(i) ==
  /\ loops[i].at = "handshake"
  /\ \E at \in {"session", "check"} : Moves(i, [loops[i] EXCEPT !.at = at])
  /\ UNCHANGED late

SessionEnds(i) ==
  /\ loops[i].at = "session"
  /\ Moves(i, [loops[i] EXCEPT !.at = "check"])
  /\ UNCHANGED late

(* start_listener (Linux): "port already taken; silent no-op".             *)
ListenerBinds(i) ==
  /\ listening[i] = "binding"
  /\ listening' = [listening EXCEPT ![i] = IF \E j \in Ids : listening[j] = "on" THEN "ended" ELSE "on"]
  /\ UNCHANGED <<linux, app, opened, loops, mdns_ad, late>>

(* It looks at the flag after each read, 500 ms at most.                   *)
ListenerStops(i) ==
  /\ listening[i] = "on"
  /\ loops[i].stop
  /\ listening' = [listening EXCEPT ![i] = "ended"]
  /\ UNCHANGED <<linux, app, opened, loops, mdns_ad, late>>

-----------------------------------------------------------------------------
Init ==
  /\ linux \in BOOLEAN
  /\ app \in [running : {FALSE}, pin : Pins, own_pin : Pins \cup {None},
              field : IF linux THEN {None} ELSE Ports \cup {None}, port : {None}]
  /\ app.pin \in StartupPin(app.own_pin)
  /\ opened = 0
  /\ loops = [i \in Ids |-> NoLoop]
  /\ mdns_ad = None
  /\ listening = [i \in Ids |-> "none"]
  /\ late = [i \in Ids |-> 0]

Window == Start \/ Stop \/ apply_own_pin \/ RegeneratePin \/ TypePort

Serving(i) == LoopChecks(i) \/ LoopNaps(i) \/ HandshakeEnds(i)

Next ==
  \/ Window
  \/ \E i \in Ids : Serving(i) \/ LoopAccepts(i) \/ SessionEnds(i)
  \/ \E i \in Ids : ListenerBinds(i) \/ ListenerStops(i)

Spec == Init /\ [][Next]_vars

(* A loop's thread runs, and a handshake has its deadline.  No client need *)
(* ever come, and a session may last for ever.                             *)
FairSpec == Spec /\ \A i \in Ids : WF_vars(Serving(i))

-----------------------------------------------------------------------------
(* Properties                                                              *)

TypeOK ==
  /\ linux \in BOOLEAN
  /\ app \in [running : BOOLEAN, pin : Pins, own_pin : Pins \cup {None},
              field : Ports \cup {None, Garbled}, port : Ports \cup {None}]
  /\ opened \in 0..MaxStarts
  /\ loops \in [Ids -> [at : {"none", "check", "accept", "handshake", "session", "ended"},
                        port : Ports \cup {None}, pin : Pins \cup {None},
                        stop : BOOLEAN]]
  /\ mdns_ad \in Ports \cup {None}
  /\ listening \in [Ids -> {"none", "binding", "on", "ended"}]
  /\ late \in [Ids -> 0..2]

(* A window has no loop but its newest that it has not told to stop, and   *)
(* none at all when it says it is not running ("Stop first: start() here   *)
(* doesn't, and would bind a second port", host-linux apply_own_pin).      *)
NoOrphanLoop ==
  \A i \in Ids : Alive(i) /\ ~loops[i].stop => app.running /\ i = opened

(* The PIN and the address on show are those of a loop that is accepting.  *)
ShownIsServed ==
  app.running => /\ Alive(opened)
                 /\ loops[opened].pin = app.pin
                 /\ loops[opened].port = app.port

(* A PIN of your own is the one enforced, until it is cleared or replaced. *)
OwnPinEnforced ==
  app.running /\ app.own_pin # None => loops[opened].pin = app.own_pin

(* What the window says of the PIN is what a phone must type.              *)
ServedAsShown == ShownIsServed /\ OwnPinEnforced

(* Phones are shown this host only while it runs, at its present port.     *)
AdvertisedIsServed ==
  mdns_ad # None => app.running /\ mdns_ad = loops[opened].port

(* A loop lets in at most one more client once it has been stopped, so the *)
(* PIN it was started with dies with that connection.                      *)
AtMostOneLate == \A i \in Ids : late[i] <= 1

(* It ends, unless that client's session goes on for ever.                 *)
StoppedLoopsEnd ==
  \A i \in Ids : loops[i].stop /\ Alive(i) ~> loops[i].at \in {"session", "ended"}

(* "Restart re-reads the network and rebinds in one click": a restarted    *)
(* host is running (host-windows/src/gui.rs).                              *)
RestartRebinds == [][Start /\ app.running => app'.running]_vars

(* "The thread runs until `stop` is set (or the process exits)"            *)
(* (start_listener, discovery/src/lib.rs).                                 *)
ListenerRuns ==
  [][\A i \in Ids : listening[i] # "ended" /\ listening'[i] = "ended" => loops[i].stop]_vars
=============================================================================

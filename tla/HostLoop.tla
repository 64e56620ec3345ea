------------------------------- MODULE HostLoop -------------------------------
(***************************************************************************)
(* A host's accept loop and the clients that dial it: serve_loop, accept   *)
(* and read_hello on one side (host-linux/src/main.rs, transport/src/      *)
(* lib.rs), open_tunnel and ClientHandshake on the other (core/src/lib.rs, *)
(* transport/src/session.rs).                                              *)
(*                                                                         *)
(* The loop serves one connection at a time; the others wait in the        *)
(* listener's backlog, their first bytes already sent, their clients       *)
(* perhaps gone.  A handshake alternates, so a connection carries at most  *)
(* one unread message each way.  Cryptography is ideal: a proof shows      *)
(* whether its maker's PIN is the host's, a key whose it is.  A device     *)
(* stands for its key, and this host for the one key its clients may trust.*)
(***************************************************************************)
EXTENDS Naturals, Sequences

CONSTANTS
  Current,         \* devices with a current client: the v2 handshake
  Legacy,          \* other peers: v0.3 clients, plaintext ones, silent or garbled ones
  PairedElsewhere, \* current devices that have paired with some other host
  Pins,            \* what a host expects and a person types; 0 is none
  MaxBacklog, MaxRestarts, MaxForgets,  \* bounds of the model
  FREE_FAILURES, FIRST_LOCKOUT, MAX_LOCKOUT, FORGET_AFTER, MAX_SHIFT, U32_MAX, MaxTime, None

Devices == Current \cup Legacy

ASSUME HostAssumption ==
  /\ Current \cap Legacy = {}
  /\ PairedElsewhere \subseteq Current
  /\ 0 \in Pins
  /\ None \notin Devices
  /\ MaxBacklog \in Nat \ {0} /\ MaxRestarts \in Nat /\ MaxForgets \in Nat

VARIABLES
  pin,       \* expected_pin of this run of the host
  guard,     \* its PinGuard
  now,       \* the clock
  host,      \* the connection being served, and the paired list read for it
  backlog,   \* the connections not accepted yet
  paired,    \* the paired list, as saved
  client,    \* per device: where it is, its PIN, what it has not read yet
  trusts,    \* the current devices that remember this host
  restarts, forgets,  \* how often so far (bounds)
  proved,    \* history: devices that have proven a PIN of this host
  lost       \* history: devices struck off the list, or never saved on it

vars == <<pin, guard, now, host, backlog, paired, client, trusts, restarts, forgets,
          proved, lost>>

(* A connection as the host sees it: who, how, with what PIN, whether the  *)
(* client is still there, and its unread message.                          *)
Modes    == {"pair", "known", "v1", "plain", "silent"}
Messages == {"none", "opening", "proof", "key", "hello", "junk"}
Replies  == {"none", "go", "reply", "ok", "notpaired", "locked"}
Connections == [dev : Devices, mode : Modes, pin : Pins, here : BOOLEAN, up : Messages]

Serving(c, at, list) == [at |-> at, conn |-> c, list |-> list]
NoConnection == [dev |-> None, mode |-> "silent", pin |-> 0, here |-> FALSE, up |-> "none"]
Free == Serving(NoConnection, "accept", {})
Idle == [at |-> "idle", pin |-> 0, down |-> "none", hung |-> FALSE]

Handshaking == {"opening", "proof", "key", "hello"}
testing == host.at \in Handshaking

PG == INSTANCE PinGuard

conn == host.conn

(* The host's answer reaches a client that is still there.                 *)
Tell(c, reply, hangUp) ==
  client' = IF c.here
            THEN [client EXCEPT ![c.dev].down = IF reply = "none" THEN @ ELSE reply,
                                ![c.dev].hung = hangUp]
            ELSE client

Answer(reply, at, list) ==
  /\ Tell(conn, reply, FALSE)
  /\ host' = Serving([conn EXCEPT !.up = "none"], at, list)

(* The connection is dropped at the end of serve_loop's arm.               *)
Drop(reply) == Tell(conn, reply, TRUE) /\ host' = Free

WrongPin ==
  /\ guard' = PG!record_failure(guard, now)
  /\ Drop("none")

-----------------------------------------------------------------------------
(* The accept loop.                                                        *)

world == <<pin, now, trusts, restarts, forgets>>
lists == <<paired, proved, lost>>

(* Locked: a v2 client is told so, anything else is just closed.           *)
Refuse ==
  /\ host.at = "accept"
  /\ backlog # <<>>
  /\ PG!locked(guard, now)
  /\ guard' = [guard EXCEPT !.refusal_reported = TRUE]
  /\ Tell(Head(backlog), IF Head(backlog).mode \in {"pair", "known"} THEN "locked" ELSE "none", TRUE)
  /\ backlog' = Tail(backlog)
  /\ UNCHANGED <<host, lists, world>>

(* Mutant: the lock is not asked.                                          *)
Admit_Unasked ==
  /\ host.at = "accept"
  /\ backlog # <<>>
  /\ host' = Serving(Head(backlog), "opening", {})
  /\ backlog' = Tail(backlog)
  /\ UNCHANGED <<guard, client, lists, world>>

Admit ==
  /\ host.at = "accept"
  /\ backlog # <<>>
  /\ ~PG!locked(guard, now)
  /\ host' = Serving(Head(backlog), "opening", {})
  /\ backlog' = Tail(backlog)
  /\ UNCHANGED <<guard, client, lists, world>>

(* accept_with: peek, and answer the first message by what it is; v2       *)
(* re-reads the paired list.  A plaintext peer's first bytes are its hello.*)
ReadOpening ==
  /\ host.at = "opening"
  /\ conn.up # "none"
  /\ CASE conn.mode = "pair"  -> Answer("go", "proof", paired) /\ UNCHANGED guard
       [] conn.mode = "known" -> Answer("go", "key", paired) /\ UNCHANGED guard
       [] conn.mode = "v1"    -> IF conn.pin = pin
                                 THEN Answer("reply", "hello", {}) /\ UNCHANGED guard
                                 ELSE WrongPin
       [] OTHER -> host' = Serving(conn, "hello", {}) /\ UNCHANGED <<client, guard>>
  /\ UNCHANGED <<backlog, lists, world>>

(* THE guess: the client's first Noise message, keyed by its code.         *)
ReadProof ==
  /\ host.at = "proof"
  /\ conn.up = "proof"
  /\ IF conn.pin = pin
     THEN /\ Answer("reply", "key", host.list)
          /\ proved' = IF pin # 0 THEN proved \cup {conn.dev} ELSE proved
          /\ UNCHANGED guard
     ELSE WrongPin /\ UNCHANGED proved
  /\ UNCHANGED <<backlog, paired, lost, world>>

(* remember: the list read earlier plus this device, if it can be saved.   *)
Remember(d) ==
  \E saved \in BOOLEAN :
    /\ paired' = IF saved THEN host.list \cup {d} ELSE paired
    /\ lost' = IF saved THEN lost \ {d} ELSE lost \cup {d}

(* Mutant: pairing with no PIN earns trust too.                            *)
ReadKey_TrustsAll ==
  /\ host.at = "key"
  /\ conn.up = "key"
  /\ IF conn.mode = "pair"
     THEN Remember(conn.dev) /\ Answer("ok", "hello", host.list)
     ELSE /\ UNCHANGED <<paired, lost>>
          /\ IF pin # 0 /\ conn.dev \notin host.list THEN Drop("notpaired")
             ELSE Answer("ok", "hello", host.list)
  /\ UNCHANGED <<guard, backlog, proved, world>>

(* Mutant: the verdict goes out, but nothing is remembered.                *)
ReadKey_Forgetful ==
  /\ host.at = "key"
  /\ conn.up = "key"
  /\ IF conn.mode = "known" /\ pin # 0 /\ conn.dev \notin host.list THEN Drop("notpaired")
     ELSE Answer("ok", "hello", host.list)
  /\ UNCHANGED <<guard, backlog, lists, world>>

(* The client's long-term key: paired now, or on the list already.         *)
ReadKey ==
  /\ host.at = "key"
  /\ conn.up = "key"
  /\ IF conn.mode = "pair"
     THEN /\ IF pin # 0 THEN Remember(conn.dev) ELSE UNCHANGED <<paired, lost>>
          /\ Answer("ok", "hello", host.list)
     ELSE /\ UNCHANGED <<paired, lost>>
          /\ IF pin # 0 /\ conn.dev \notin host.list THEN Drop("notpaired")
             ELSE Answer("ok", "hello", host.list)
  /\ UNCHANGED <<guard, backlog, proved, world>>

(* Mutant: an older client's hello is taken as settled too.                *)
ReadHello_Unchecked ==
  /\ host.at = "hello"
  /\ conn.up = "hello"
  /\ guard' = PG!record_success(guard)
  /\ \/ host' = Serving([conn EXCEPT !.up = "none"], "session", {}) /\ UNCHANGED client
     \/ Drop("none")
  /\ UNCHANGED <<backlog, lists, world>>

(* Mutant: naming a peer also puts it on the list.                         *)
ReadHello_ListsEveryone ==
  /\ host.at = "hello"
  /\ conn.up = "hello"
  /\ IF pin # 0 /\ conn.mode \in {"v1", "plain"} /\ conn.pin # pin
     THEN WrongPin /\ UNCHANGED paired
     ELSE /\ guard' = PG!record_success(guard)
          /\ paired' = paired \cup {conn.dev}
          /\ \/ host' = Serving([conn EXCEPT !.up = "none"], "session", {}) /\ UNCHANGED client
             \/ Drop("none")
  /\ UNCHANGED <<backlog, proved, lost, world>>

(* read_hello: the PIN unless the handshake settled it, then the size,     *)
(* which may be implausible; then the session.                             *)
ReadHello ==
  /\ host.at = "hello"
  /\ conn.up = "hello"
  /\ IF pin # 0 /\ conn.mode \in {"v1", "plain"} /\ conn.pin # pin
     THEN WrongPin
     ELSE /\ guard' = PG!record_success(guard)
          /\ \/ host' = Serving([conn EXCEPT !.up = "none"], "session", {}) /\ UNCHANGED client
             \/ Drop("none")
  /\ UNCHANGED <<backlog, lists, world>>

(* Mutant: no read timeout, so only a peer that leaves ends the wait.      *)
Silence_NoTimeout ==
  /\ testing
  /\ (conn.up = "none" /\ ~conn.here) \/ (host.at = "hello" /\ conn.up = "junk")
  /\ Drop("none")
  /\ UNCHANGED <<guard, backlog, lists, world>>

(* Nothing to read - the peer has gone, or HANDSHAKE_TIMEOUT has passed -  *)
(* or no valid hello.                                                      *)
Silence ==
  /\ testing
  /\ conn.up = "none" \/ (host.at = "hello" /\ conn.up = "junk")
  /\ Drop("none")
  /\ UNCHANGED <<guard, backlog, lists, world>>

SessionEnds ==
  /\ host.at = "session"
  /\ Drop("none")
  /\ UNCHANGED <<guard, backlog, lists, world>>

(* The host's process quits or is killed, and is started again, perhaps    *)
(* with another PIN: its sockets close, the paired list is on disk.        *)
Restart ==
  /\ restarts < MaxRestarts
  /\ restarts' = restarts + 1
  /\ pin' \in Pins
  /\ guard' = PG!PinGuard_default
  /\ host' = Free
  /\ backlog' = <<>>
  /\ client' = [d \in Devices |-> IF client[d].at \in {"idle", "redial"} THEN client[d]
                                  ELSE [client[d] EXCEPT !.hung = TRUE]]
  /\ UNCHANGED <<now, trusts, forgets, lists>>

ForgetAll ==
  /\ forgets < MaxForgets
  /\ forgets' = forgets + 1
  /\ paired' = {}
  /\ lost' = lost \cup paired
  /\ UNCHANGED <<pin, guard, now, host, backlog, client, trusts, restarts, proved>>

Tick == now < MaxTime /\ now' = now + 1
        /\ UNCHANGED <<pin, guard, host, backlog, client, trusts, restarts, forgets, lists>>

-----------------------------------------------------------------------------
(* The clients.                                                            *)

hostside == <<pin, guard, now, restarts, forgets, lists>>

(* dial and send the first message.                                        *)
Connect(d, mode, p, at, first) ==
  /\ Len(backlog) < MaxBacklog
  /\ backlog' = Append(backlog, [dev |-> d, mode |-> mode, pin |-> p, here |-> TRUE, up |-> first])
  /\ client' = [client EXCEPT ![d] = [at |-> at, pin |-> p, down |-> "none", hung |-> FALSE]]
  /\ UNCHANGED <<hostside, host, trusts>>

(* open_tunnel: reconnect by key if any host was ever paired with ...      *)
DialKnown(d) ==
  /\ client[d].at = "idle"
  /\ d \in trusts \cup PairedElsewhere
  /\ \E p \in Pins : Connect(d, "known", p, "known", "opening")

(* ... and pair with the code if not, or if that did not work out.         *)
DialPair(d) ==
  \/ /\ client[d].at = "idle"
     /\ d \notin trusts \cup PairedElsewhere
     /\ \E p \in Pins : Connect(d, "pair", p, "pake", "opening")
  \/ /\ client[d].at = "redial"
     /\ Connect(d, "pair", client[d].pin, "pake", "opening")

DialLegacy(d) ==
  /\ client[d].at = "idle"
  /\ \E p \in Pins : \/ Connect(d, "v1", p, "v1", "opening")
                     \/ Connect(d, "plain", p, "live", "hello")
                     \/ (\E first \in {"none", "junk"} : Connect(d, "silent", p, "live", first))

Here(c, d) == c.dev = d /\ c.here
Left(c, d) == IF Here(c, d) THEN [c EXCEPT !.here = FALSE] ELSE c

(* The client closes its end, wherever the connection is.                  *)
Leave(d, next) ==
  /\ host' = [host EXCEPT !.conn = Left(conn, d)]
  /\ backlog' = [i \in DOMAIN backlog |-> Left(backlog[i], d)]
  /\ client' = [client EXCEPT ![d] = IF next = "idle" THEN Idle
                                     ELSE [Idle EXCEPT !.at = next, !.pin = client[d].pin]]

(* It reads the host's message and sends its own; a host that has hung up  *)
(* never sees it.                                                          *)
Reply(d, message, next) ==
  /\ client' = [client EXCEPT ![d].at = next, ![d].down = "none"]
  /\ host' = IF Here(conn, d) THEN [host EXCEPT !.conn.up = message] ELSE host
  /\ UNCHANGED backlog

Got(d, at, reply) == client[d].at = at /\ client[d].down = reply

ClientReads(d) ==
  /\ \/ Got(d, "pake", "go") /\ Reply(d, "proof", "proving") /\ UNCHANGED trusts
     \/ Got(d, "proving", "reply") /\ Reply(d, "key", "verdict") /\ UNCHANGED trusts
     \/ Got(d, "verdict", "ok") /\ Reply(d, "hello", "live")
        /\ trusts' = IF client[d].pin # 0 THEN trusts \cup {d} ELSE trusts
     \/ Got(d, "known", "go") /\ d \in trusts /\ Reply(d, "key", "judged") /\ UNCHANGED trusts
     \/ Got(d, "known", "go") /\ d \notin trusts /\ Leave(d, "redial") /\ UNCHANGED trusts
     \/ Got(d, "judged", "ok") /\ Reply(d, "hello", "live") /\ UNCHANGED trusts
     \/ Got(d, "judged", "notpaired") /\ Leave(d, "redial") /\ UNCHANGED trusts
     \/ Got(d, "v1", "reply") /\ Reply(d, "hello", "live") /\ UNCHANGED trusts
     \/ client[d].down = "locked" /\ Leave(d, "idle") /\ UNCHANGED trusts
  /\ UNCHANGED hostside

(* ClientHandshake::closed, or the end of the stream.                      *)
SeesClose(d) ==
  /\ client[d].hung
  /\ client[d].down = "none"
  /\ Leave(d, "idle")
  /\ UNCHANGED <<hostside, trusts>>

(* A deadline of the client's, or its user, ends it.                       *)
GivesUp(d) ==
  /\ client[d].at # "idle"
  /\ ~client[d].hung
  /\ Leave(d, "idle")
  /\ UNCHANGED <<hostside, trusts>>

(* forget_host: "this only stops THIS end reconnecting without the code".  *)
ForgetHost(d) ==
  /\ d \in trusts
  /\ client[d].at = "idle"
  /\ trusts' = trusts \ {d}
  /\ UNCHANGED <<hostside, host, backlog, client>>

-----------------------------------------------------------------------------
Init ==
  /\ pin \in Pins
  /\ guard = PG!PinGuard_default
  /\ now = 0
  /\ host = Free
  /\ backlog = <<>>
  /\ paired = {} /\ trusts = {} /\ proved = {} /\ lost = {}
  /\ client = [d \in Devices |-> Idle]
  /\ restarts = 0 /\ forgets = 0

Reading == ReadOpening \/ ReadProof \/ ReadKey \/ ReadHello

Client(d) == ClientReads(d) \/ SeesClose(d) \/ GivesUp(d)

Next ==
  \/ Refuse \/ Admit \/ Reading \/ Silence \/ SessionEnds \/ Restart \/ ForgetAll \/ Tick
  \/ \E d \in Current : DialKnown(d) \/ DialPair(d) \/ ForgetHost(d)
  \/ \E d \in Legacy : DialLegacy(d)
  \/ \E d \in Devices : Client(d)

Spec == Init /\ [][Next]_vars

(* The loop's thread runs, and a socket's read timeout fires.  Nothing is  *)
(* assumed of the clients, nor that a session ever ends.                   *)
Fairness == WF_vars(Refuse \/ Admit \/ Reading) /\ WF_vars(Silence)

FairSpec == Spec /\ Fairness

-----------------------------------------------------------------------------
(* Properties                                                              *)

TypeOK ==
  /\ pin \in Pins
  /\ PG!TypeOK
  /\ host.at \in Handshaking \cup {"accept", "session"}
  /\ conn \in Connections \cup {NoConnection}
  /\ host.list \subseteq Current
  /\ backlog \in Seq(Connections) /\ Len(backlog) <= MaxBacklog
  /\ client \in [Devices -> [at : {"idle", "redial", "pake", "proving", "verdict", "known",
                                   "judged", "v1", "live"},
                             pin : Pins, down : Replies, hung : BOOLEAN]]
  /\ \A s \in {paired, trusts, proved, lost} : s \subseteq Current

(* The loop keeps PinGuard's rules: it asks before every handshake, and    *)
(* reports exactly the PINs that were evaluated, over any mix of clients,  *)
(* stale connections, timeouts and hang-ups.                               *)
GuardDiscipline == PG!Spec

(* Trust is earned by proving a real PIN, on both ends: a device let in    *)
(* while pairing was switched off is not trusted once a PIN is set         *)
(* (accept_v2), nor does it trust the host (open_tunnel).                  *)
TrustNeedsPin == paired \cup trusts \subseteq proved

(* A device that will reconnect by key is one the host saved first: the    *)
(* list is written before the verdict that makes the client remember.      *)
TrustIsMutual == trusts \subseteq paired \cup lost

(* Nobody gets a session from a host with a PIN but by that PIN on this    *)
(* connection, or by a key that proved one.                                *)
SessionEarned ==
  host.at = "session" /\ pin # 0
    => conn.pin = pin \/ (conn.mode = "known" /\ conn.dev \in proved)

(* One silent or dead connection never holds the loop: every handshake     *)
(* ends, in a session or back at accept.                                   *)
LoopReleased == testing ~> host.at \in {"accept", "session"}

(* Whoever waits in the backlog is accepted or turned away, unless another *)
(* client's session goes on for ever.                                      *)
NobodyStarves ==
  \A d \in Devices :
    (\E i \in DOMAIN backlog : Here(backlog[i], d))
      ~> (~(\E i \in DOMAIN backlog : Here(backlog[i], d)) \/ host.at = "session")
=============================================================================

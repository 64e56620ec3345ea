------------------------------ MODULE HostLoopProofs ------------------------------
(***************************************************************************)
(* Proofs about HostLoop, for any devices, PINs, backlog and policy:       *)
(* nobody gets a session, and nobody is trusted, without having shown a    *)
(* PIN.  The guard has no part in it (what it promises is PinGuardProofs). *)
(***************************************************************************)
EXTENDS HostLoop, SequenceTheorems, TLAPS

Clients == [at : {"idle", "redial", "pake", "proving", "verdict", "known", "judged", "v1", "live"},
            pin : Pins, down : Replies, hung : BOOLEAN]

Conns == Connections \cup {NoConnection}

Hosts == [at : Handshaking \cup {"accept", "session"}, conn : Conns, list : SUBSET Devices]

-----------------------------------------------------------------------------
(* The inductive invariant.                                                *)

Shapes ==
  /\ pin \in Pins
  /\ host \in Hosts
  /\ backlog \in Seq(Connections)
  /\ client \in [Devices -> Clients]
  /\ paired \subseteq Devices

(* How far a client can be on a connection of each kind.                   *)
Fits(mode, at) ==
  \/ at = "live"
  \/ mode = "pair"  /\ at \in {"pake", "proving", "verdict"}
  \/ mode = "known" /\ at \in {"known", "judged"}
  \/ mode = "v1"    /\ at = "v1"

(* A connection that its client has not left is the one the client is on,  *)
(* with the PIN it typed; a peer with nothing to say says no hello.        *)
Linked(c) ==
  /\ c.here => client[c.dev].pin = c.pin /\ Fits(c.mode, client[c.dev].at)
  /\ c.mode = "silent" => c.up \in {"none", "junk"}

AllLinked == Linked(conn) /\ \A i \in DOMAIN backlog : Linked(backlog[i])

(* A client that has, or is about to be given, the host's answer to its    *)
(* proof has proven its PIN.                                               *)
Earning(d) ==
  \/ client[d].at = "verdict"
  \/ client[d].at \in {"pake", "proving"} /\ client[d].down = "reply"

ClientEarned == \A d \in Devices : Earning(d) /\ client[d].pin # 0 => d \in proved

(* What the loop knows of the connection it serves.                        *)
HostEarned ==
  /\ host.list \subseteq proved
  /\ host.at \in {"key", "hello", "session"} /\ conn.mode = "pair"
       => conn.pin = pin /\ (pin # 0 => conn.dev \in proved)
  /\ host.at \in {"hello", "session"} /\ conn.mode = "known" /\ pin # 0 => conn.dev \in proved
  /\ host.at = "session" /\ conn.mode \in {"v1", "plain"} /\ pin # 0 => conn.pin = pin
  /\ host.at = "session" => conn.mode # "silent"

LoopInv ==
  /\ Shapes
  /\ AllLinked
  /\ ClientEarned
  /\ HostEarned
  /\ TrustNeedsPin

-----------------------------------------------------------------------------
(* The host's messages.                                                    *)

(* A message reaches only the client of its connection, if that is there.  *)
LEMMA Telling ==
  ASSUME client \in [Devices -> Clients], NEW c \in Conns, NEW reply \in Replies,
         NEW hangUp \in BOOLEAN, Tell(c, reply, hangUp)
  PROVE  /\ client' \in [Devices -> Clients]
         /\ \A d \in Devices : client'[d].at = client[d].at /\ client'[d].pin = client[d].pin
         /\ \A d \in Devices : \/ client'[d].down = client[d].down
                               \/ d = c.dev /\ c.here /\ client'[d].down = reply
<1>1. CASE ~c.here
  BY <1>1 DEF Tell
<1>2. CASE c.here
  <2>1. c \in Connections /\ c.dev \in Devices
    BY <1>2 DEF Conns, Connections, NoConnection
  <2> DEFINE old == client[c.dev]
             new == [old EXCEPT !.down = IF reply = "none" THEN @ ELSE reply, !.hung = hangUp]
  <2>2. old \in Clients
    BY <2>1
  <2>3. /\ new \in Clients
        /\ new.at = old.at /\ new.pin = old.pin
        /\ new.down = old.down \/ new.down = reply
    BY <2>2 DEF Clients
  <2>4. client' = [client EXCEPT ![c.dev] = new]
    BY <1>2 DEF Tell
  <2> HIDE DEF new
  <2> QED
    BY <1>2, <2>1, <2>3, <2>4
<1> QED
  BY <1>1, <1>2

(* A step of the host's takes the connections it holds as they are, or     *)
(* with their message read, and leaves every client where it is.           *)
LEMMA HostSteps ==
  ASSUME Shapes, AllLinked,
         client' \in [Devices -> Clients],
         \A d \in Devices : client'[d].at = client[d].at /\ client'[d].pin = client[d].pin,
         NEW c \in Conns, NEW at \in Handshaking \cup {"accept", "session"},
         NEW list \in SUBSET Devices,
         Linked(c), host' = Serving(c, at, list),
         backlog' \in Seq(Connections),
         \A i \in DOMAIN backlog' : \E j \in DOMAIN backlog : backlog'[i] = backlog[j],
         pin' \in Pins, paired' \subseteq Devices
  PROVE  Shapes' /\ AllLinked'
<1>1. host' \in Hosts /\ host'.conn = c
  BY DEF Hosts, Serving
<1>2. Shapes'
  BY <1>1 DEF Shapes
<1>3. ASSUME NEW k \in Conns, Linked(k) PROVE Linked(k)'
  <2>1. k.here => k.dev \in Devices
    BY DEF Conns, Connections, NoConnection
  <2> QED
    BY <1>3, <2>1 DEF Linked, Fits
<1>4. Linked(conn)'
  BY <1>1, <1>3 DEF conn, Linked
<1>5. \A i \in DOMAIN backlog' : Linked(backlog[i])'
  <2> SUFFICES ASSUME NEW i \in DOMAIN backlog' PROVE Linked(backlog[i])'
    OBVIOUS
  <2>1. PICK j \in DOMAIN backlog : backlog'[i] = backlog[j]
    OBVIOUS
  <2>2. backlog[j] \in Conns /\ Linked(backlog[j])
    BY DEF Shapes, Conns, AllLinked
  <2> DEFINE k == backlog[j]
  <2>3. k.here => k.dev \in Devices
    BY <2>2 DEF Conns, Connections, NoConnection
  <2> QED
    BY <2>1, <2>2, <2>3 DEF Linked, Fits
<1> QED
  BY <1>2, <1>4, <1>5 DEF AllLinked

(* The connection is dropped.                                              *)
LEMMA Dropping ==
  ASSUME LoopInv, NEW reply \in Replies \ {"reply"}, Drop(reply),
         UNCHANGED <<pin, backlog, paired, proved, trusts>>
  PROVE  LoopInv'
<1>1. conn \in Conns /\ NoConnection \in Conns
  BY DEF LoopInv, Shapes, Hosts, conn, Conns
<1>2. /\ client' \in [Devices -> Clients]
      /\ \A d \in Devices : client'[d].at = client[d].at /\ client'[d].pin = client[d].pin
      /\ \A d \in Devices : client'[d].down = client[d].down \/ client'[d].down = reply
  BY <1>1, Telling DEF Drop, LoopInv, Shapes
<1>3. Linked(NoConnection)
  BY DEF Linked, NoConnection
<1>4. host' = Serving(NoConnection, "accept", {})
  BY DEF Drop, Free
<1>5. Shapes' /\ AllLinked'
  <2>1. \A i \in DOMAIN backlog' : \E j \in DOMAIN backlog : backlog'[i] = backlog[j]
    OBVIOUS
  <2>2. backlog' \in Seq(Connections) /\ pin' \in Pins /\ paired' \subseteq Devices
    BY DEF LoopInv, Shapes
  <2> QED
    BY <1>1, <1>2, <1>3, <1>4, <2>1, <2>2, HostSteps DEF LoopInv
<1>6. ClientEarned'
  <2>1. proved \subseteq proved'
    OBVIOUS
  <2>2. \A d \in Devices : client'[d].down = client[d].down \/ client'[d].down # "reply"
    BY <1>2
  <2> QED
    BY <1>2, <2>1, <2>2 DEF LoopInv, ClientEarned, Earning
<1>7. HostEarned'
  BY <1>4 DEF HostEarned, Serving, conn
<1>8. TrustNeedsPin'
  BY DEF LoopInv, TrustNeedsPin
<1> QED
  BY <1>5, <1>6, <1>7, <1>8 DEF LoopInv

(* The next of the backlog is taken off it.                                *)
LEMMA Taking ==
  ASSUME Shapes, AllLinked, backlog # <<>>
  PROVE  /\ Head(backlog) \in Connections /\ Linked(Head(backlog))
         /\ Tail(backlog) \in Seq(Connections)
         /\ \A i \in DOMAIN Tail(backlog) :
              \E j \in DOMAIN backlog : Tail(backlog)[i] = backlog[j]
<1>1. backlog \in Seq(Connections) /\ Len(backlog) \in Nat /\ Len(backlog) > 0
  BY DEF Shapes
<1>2. Head(backlog) = backlog[1] /\ 1 \in DOMAIN backlog
  BY <1>1
<1>3. Tail(backlog) \in Seq(Connections)
  BY <1>1
<1>4. \A i \in DOMAIN Tail(backlog) : i + 1 \in DOMAIN backlog /\ Tail(backlog)[i] = backlog[i + 1]
  BY <1>1
<1> QED
  BY <1>1, <1>2, <1>3, <1>4 DEF AllLinked

LEMMA Refusing == LoopInv /\ Refuse => LoopInv'
<1> SUFFICES ASSUME LoopInv, Refuse PROVE LoopInv'
  OBVIOUS
<1>1. UNCHANGED <<host, paired, proved, pin, trusts>> /\ backlog # <<>> /\ backlog' = Tail(backlog)
  BY DEF Refuse, lists, world
<1>2. PICK reply \in {"locked", "none"} : Tell(Head(backlog), reply, TRUE)
  BY DEF Refuse
<1>3. /\ Head(backlog) \in Conns
      /\ Tail(backlog) \in Seq(Connections)
      /\ \A i \in DOMAIN Tail(backlog) :
           \E j \in DOMAIN backlog : Tail(backlog)[i] = backlog[j]
  BY <1>1, Taking DEF LoopInv, Conns
<1>4. /\ client' \in [Devices -> Clients]
      /\ \A d \in Devices : client'[d].at = client[d].at /\ client'[d].pin = client[d].pin
      /\ \A d \in Devices : client'[d].down = client[d].down \/ client'[d].down = reply
  <2>1. reply \in Replies
    BY DEF Replies
  <2> QED
    BY <1>2, <1>3, <2>1, Telling DEF LoopInv, Shapes
<1>5. Shapes' /\ AllLinked'
  <2>1. /\ host' = Serving(conn, host.at, host.list)
        /\ conn \in Conns /\ Linked(conn)
        /\ host.at \in Handshaking \cup {"accept", "session"} /\ host.list \in SUBSET Devices
    BY <1>1 DEF LoopInv, Shapes, Hosts, Serving, conn, AllLinked
  <2>2. pin' \in Pins /\ paired' \subseteq Devices
    BY <1>1 DEF LoopInv, Shapes
  <2> QED
    BY <1>1, <1>3, <1>4, <2>1, <2>2, HostSteps DEF LoopInv
<1>6. ClientEarned'
  <2>1. proved \subseteq proved'
    BY <1>1
  <2>2. \A d \in Devices : client'[d].down = client[d].down \/ client'[d].down # "reply"
    BY <1>4
  <2> QED
    BY <1>4, <2>1, <2>2 DEF LoopInv, ClientEarned, Earning
<1>7. HostEarned' /\ TrustNeedsPin'
  BY <1>1 DEF LoopInv, HostEarned, TrustNeedsPin, conn
<1> QED
  BY <1>5, <1>6, <1>7 DEF LoopInv

LEMMA Admitting == LoopInv /\ Admit => LoopInv'
<1> SUFFICES ASSUME LoopInv, Admit PROVE LoopInv'
  OBVIOUS
<1>1. /\ UNCHANGED <<client, paired, proved, pin, trusts>>
      /\ backlog # <<>> /\ backlog' = Tail(backlog)
      /\ host' = Serving(Head(backlog), "opening", {})
  BY DEF Admit, lists, world
<1>2. /\ Head(backlog) \in Conns /\ Linked(Head(backlog))
      /\ Tail(backlog) \in Seq(Connections)
      /\ \A i \in DOMAIN Tail(backlog) :
           \E j \in DOMAIN backlog : Tail(backlog)[i] = backlog[j]
  BY <1>1, Taking DEF LoopInv, Conns
<1>3. Shapes' /\ AllLinked'
  <2>1. /\ client' \in [Devices -> Clients] /\ pin' \in Pins /\ paired' \subseteq Devices
        /\ \A d \in Devices : client'[d].at = client[d].at /\ client'[d].pin = client[d].pin
    BY <1>1 DEF LoopInv, Shapes
  <2>2. "opening" \in Handshaking \cup {"accept", "session"}
    BY DEF Handshaking
  <2> QED
    BY <1>1, <1>2, <2>1, <2>2, HostSteps DEF LoopInv
<1>4. ClientEarned'
  BY <1>1 DEF LoopInv, ClientEarned, Earning
<1>5. HostEarned' /\ TrustNeedsPin'
  BY <1>1 DEF LoopInv, HostEarned, TrustNeedsPin, conn, Serving
<1> QED
  BY <1>3, <1>4, <1>5 DEF LoopInv

(* An answer on the connection being served.                               *)
LEMMA Answering ==
  ASSUME LoopInv, NEW reply \in Replies, NEW at \in Handshaking, NEW list \in SUBSET Devices,
         conn \in Connections,
         Answer(reply, at, list), UNCHANGED <<pin, backlog>>, paired' \subseteq Devices
  PROVE  /\ Shapes' /\ AllLinked'
         /\ host'.at = at /\ host'.list = list
         /\ conn'.mode = conn.mode /\ conn'.pin = conn.pin /\ conn'.dev = conn.dev
         /\ \A d \in Devices : client'[d].at = client[d].at /\ client'[d].pin = client[d].pin
         /\ \A d \in Devices : \/ client'[d].down = client[d].down
                               \/ d = conn.dev /\ conn.here /\ client'[d].down = reply
<1> DEFINE c == [conn EXCEPT !.up = "none"]
<1>1. conn \in Conns /\ Linked(conn)
  BY DEF LoopInv, Shapes, Hosts, conn, AllLinked
<1>2. /\ c \in Connections /\ c.mode = conn.mode /\ c.pin = conn.pin /\ c.dev = conn.dev
      /\ c.here = conn.here /\ c.up = "none"
  BY DEF Connections, Messages
<1>3. c \in Conns /\ Linked(c)
  BY <1>1, <1>2 DEF Linked, Conns
<1>4. /\ client' \in [Devices -> Clients]
      /\ \A d \in Devices : client'[d].at = client[d].at /\ client'[d].pin = client[d].pin
      /\ \A d \in Devices : \/ client'[d].down = client[d].down
                            \/ d = conn.dev /\ conn.here /\ client'[d].down = reply
  BY <1>1, Telling DEF Answer, LoopInv, Shapes
<1> HIDE DEF c
<1>5. host' = Serving(c, at, list)
  BY DEF Answer, c
<1>6. Shapes' /\ AllLinked'
  <2>1. \A i \in DOMAIN backlog' : \E j \in DOMAIN backlog : backlog'[i] = backlog[j]
    OBVIOUS
  <2>2. backlog' \in Seq(Connections) /\ pin' \in Pins
    BY DEF LoopInv, Shapes
  <2> QED
    BY <1>3, <1>4, <1>5, <2>1, <2>2, HostSteps DEF LoopInv
<1> QED
  BY <1>2, <1>4, <1>5, <1>6 DEF Serving, conn

LEMMA ReadingOpening == LoopInv /\ ReadOpening => LoopInv'
<1> SUFFICES ASSUME LoopInv, ReadOpening PROVE LoopInv'
  OBVIOUS
<1>1. UNCHANGED <<pin, backlog, paired, proved, trusts>>
  BY DEF ReadOpening, lists, world
<1>2. host.at = "opening" /\ conn.up # "none"
  BY DEF ReadOpening
<1>3. conn \in Connections /\ paired \in SUBSET Devices
  BY <1>2 DEF LoopInv, Shapes, Hosts, conn, Conns, NoConnection
<1>4. TrustNeedsPin' /\ paired \subseteq proved
  BY <1>1 DEF LoopInv, TrustNeedsPin
<1>5. ASSUME NEW at \in {"proof", "key"}, Answer("go", at, paired),
             at = "key" => conn.mode = "known"
      PROVE  LoopInv'
  <2>1. "go" \in Replies /\ at \in Handshaking
    BY DEF Replies, Handshaking
  <2>2. paired' \subseteq Devices
    BY <1>1, <1>3
  <2>3. /\ Shapes' /\ AllLinked'
        /\ host'.at = at /\ host'.list = paired
        /\ conn'.mode = conn.mode
        /\ \A d \in Devices : client'[d].at = client[d].at /\ client'[d].pin = client[d].pin
        /\ \A d \in Devices : client'[d].down = client[d].down \/ client'[d].down # "reply"
    BY <1>1, <1>3, <1>5, <2>1, <2>2, Answering
  <2>4. proved \subseteq proved'
    BY <1>1
  <2>5. ClientEarned'
    BY <2>3, <2>4 DEF LoopInv, ClientEarned, Earning
  <2>6. HostEarned'
    BY <1>1, <1>4, <1>5, <2>3 DEF HostEarned
  <2> QED
    BY <1>4, <2>3, <2>5, <2>6 DEF LoopInv
<1>6. CASE conn.mode = "pair" /\ Answer("go", "proof", paired)
  BY <1>5, <1>6
<1>7. CASE conn.mode = "known" /\ Answer("go", "key", paired)
  BY <1>5, <1>7
<1>8. CASE conn.mode = "v1" /\ Answer("reply", "hello", {})
  <2>1. "reply" \in Replies /\ "hello" \in Handshaking /\ {} \in SUBSET Devices
    BY DEF Replies, Handshaking
  <2>2. paired' \subseteq Devices
    BY <1>1, <1>3
  <2>3. /\ Shapes' /\ AllLinked'
        /\ host'.at = "hello" /\ host'.list = {}
        /\ conn'.mode = conn.mode
        /\ \A d \in Devices : client'[d].at = client[d].at /\ client'[d].pin = client[d].pin
        /\ \A d \in Devices : client'[d].down = client[d].down \/ (d = conn.dev /\ conn.here)
    BY <1>1, <1>3, <1>8, <2>1, <2>2, Answering
  <2>4. conn.here => client[conn.dev].at \notin {"pake", "proving"}
    BY <1>8 DEF LoopInv, AllLinked, Linked, Fits
  <2>5. proved \subseteq proved'
    BY <1>1
  <2>6. \A d \in Devices : client'[d].down = client[d].down \/ client[d].at \notin {"pake", "proving"}
    BY <2>3, <2>4
  <2>7. ClientEarned'
    BY <2>3, <2>5, <2>6 DEF LoopInv, ClientEarned, Earning
  <2>8. HostEarned'
    BY <1>8, <2>3 DEF HostEarned
  <2> QED
    BY <1>4, <2>3, <2>7, <2>8 DEF LoopInv
<1>9. CASE WrongPin
  <2>1. Drop("none") /\ "none" \in Replies \ {"reply"}
    BY <1>9 DEF WrongPin, Replies
  <2> QED
    BY <1>1, <2>1, Dropping
<1>10. CASE /\ conn.mode \notin {"pair", "known", "v1"}
            /\ host' = Serving(conn, "hello", {}) /\ UNCHANGED client
  <2>1. Shapes' /\ AllLinked'
    <3>1. /\ client' \in [Devices -> Clients] /\ pin' \in Pins /\ paired' \subseteq Devices
          /\ backlog' \in Seq(Connections)
          /\ \A d \in Devices : client'[d].at = client[d].at /\ client'[d].pin = client[d].pin
          /\ \A i \in DOMAIN backlog' : \E j \in DOMAIN backlog : backlog'[i] = backlog[j]
      BY <1>1, <1>10 DEF LoopInv, Shapes
    <3>2. conn \in Conns /\ Linked(conn) /\ "hello" \in Handshaking /\ {} \in SUBSET Devices
      BY <1>3 DEF Conns, LoopInv, AllLinked, Handshaking
    <3> QED
      BY <1>10, <3>1, <3>2, HostSteps DEF LoopInv
  <2>2. ClientEarned'
    BY <1>1, <1>10 DEF LoopInv, ClientEarned, Earning
  <2>3. host'.at = "hello" /\ host'.list = {} /\ conn' = conn
    BY <1>10 DEF Serving, conn
  <2>4. HostEarned'
    BY <1>10, <2>3 DEF HostEarned
  <2> QED
    BY <1>4, <2>1, <2>2, <2>4 DEF LoopInv
<1> QED
  <2>1. \/ conn.mode = "pair" /\ Answer("go", "proof", paired)
        \/ conn.mode = "known" /\ Answer("go", "key", paired)
        \/ conn.mode = "v1" /\ Answer("reply", "hello", {})
        \/ WrongPin
        \/ /\ conn.mode \notin {"pair", "known", "v1"}
           /\ host' = Serving(conn, "hello", {}) /\ UNCHANGED client
    BY DEF ReadOpening
  <2> QED
    BY <1>6, <1>7, <1>8, <1>9, <1>10, <2>1

(* The one place where a PIN is proven.                                    *)
LEMMA ReadingProof == LoopInv /\ ReadProof => LoopInv'
<1> SUFFICES ASSUME LoopInv, ReadProof PROVE LoopInv'
  OBVIOUS
<1>1. UNCHANGED <<pin, backlog, paired, trusts>> /\ host.at = "proof" /\ conn.up = "proof"
  BY DEF ReadProof, world
<1>2. conn \in Connections /\ host.list \in SUBSET Devices /\ paired' \subseteq Devices
  BY <1>1 DEF LoopInv, Shapes, Hosts, conn, Conns, NoConnection
<1>3. CASE conn.pin = pin
  <2>1. /\ Answer("reply", "key", host.list)
        /\ proved' = IF pin # 0 THEN proved \cup {conn.dev} ELSE proved
    BY <1>3 DEF ReadProof
  <2>2. "reply" \in Replies /\ "key" \in Handshaking
    BY DEF Replies, Handshaking
  <2>3. /\ Shapes' /\ AllLinked'
        /\ host'.at = "key" /\ host'.list = host.list
        /\ conn'.mode = conn.mode /\ conn'.pin = conn.pin /\ conn'.dev = conn.dev
        /\ \A d \in Devices : client'[d].at = client[d].at /\ client'[d].pin = client[d].pin
        /\ \A d \in Devices : client'[d].down = client[d].down \/ (d = conn.dev /\ conn.here)
    BY <1>1, <1>2, <2>1, <2>2, Answering
  <2>4. proved \subseteq proved' /\ (pin # 0 => conn.dev \in proved')
    BY <2>1
  <2>5. conn.here => client[conn.dev].pin = pin
    BY <1>3 DEF LoopInv, AllLinked, Linked
  <2>6. \A d \in Devices : client'[d].down = client[d].down \/ (client[d].pin # 0 => d \in proved')
    BY <2>3, <2>4, <2>5
  <2>7. ClientEarned'
    BY <2>3, <2>4, <2>6 DEF LoopInv, ClientEarned, Earning
  <2>8. HostEarned'
    BY <1>1, <1>3, <2>3, <2>4 DEF HostEarned, LoopInv
  <2>9. TrustNeedsPin'
    BY <1>1, <2>4 DEF TrustNeedsPin, LoopInv
  <2> QED
    BY <2>3, <2>7, <2>8, <2>9 DEF LoopInv
<1>4. CASE conn.pin # pin
  <2>1. Drop("none") /\ UNCHANGED proved /\ "none" \in Replies \ {"reply"}
    BY <1>4 DEF ReadProof, WrongPin, Replies
  <2> QED
    BY <1>1, <2>1, Dropping
<1> QED
  BY <1>3, <1>4

(* Trust: the list a device is added to held proven devices only.          *)
LEMMA ReadingKey == LoopInv /\ ReadKey => LoopInv'
<1> SUFFICES ASSUME LoopInv, ReadKey PROVE LoopInv'
  OBVIOUS
<1>1. UNCHANGED <<pin, backlog, proved, trusts>> /\ host.at = "key" /\ conn.up = "key"
  BY DEF ReadKey, world
<1>2. conn \in Connections /\ conn.dev \in Devices /\ host.list \in SUBSET Devices
  BY <1>1 DEF LoopInv, Shapes, Hosts, conn, Conns, NoConnection, Connections
<1>3. ASSUME Answer("ok", "hello", host.list), paired' \subseteq Devices, paired' \subseteq proved,
             conn.mode = "known" /\ pin # 0 => conn.dev \in proved
      PROVE  LoopInv'
  <2>1. "ok" \in Replies /\ "hello" \in Handshaking
    BY DEF Replies, Handshaking
  <2>2. /\ Shapes' /\ AllLinked'
        /\ host'.at = "hello" /\ host'.list = host.list
        /\ conn'.mode = conn.mode /\ conn'.pin = conn.pin /\ conn'.dev = conn.dev
        /\ \A d \in Devices : client'[d].at = client[d].at /\ client'[d].pin = client[d].pin
        /\ \A d \in Devices : client'[d].down = client[d].down \/ client'[d].down # "reply"
    BY <1>1, <1>2, <1>3, <2>1, Answering
  <2>3. ClientEarned'
    BY <1>1, <2>2 DEF LoopInv, ClientEarned, Earning
  <2>4. HostEarned'
    BY <1>1, <1>3, <2>2 DEF HostEarned, LoopInv
  <2>5. TrustNeedsPin'
    BY <1>1, <1>3 DEF TrustNeedsPin, LoopInv
  <2> QED
    BY <2>2, <2>3, <2>4, <2>5 DEF LoopInv
<1>4. paired \subseteq Devices /\ paired \subseteq proved /\ host.list \subseteq proved
  BY DEF LoopInv, Shapes, TrustNeedsPin, HostEarned
<1>5. CASE conn.mode = "pair"
  <2>1. Answer("ok", "hello", host.list)
    BY <1>5 DEF ReadKey
  <2>2. paired' = paired \/ (pin # 0 /\ paired' = host.list \cup {conn.dev})
    BY <1>5 DEF ReadKey, Remember
  <2>3. pin # 0 => conn.dev \in proved
    BY <1>1, <1>5 DEF LoopInv, HostEarned
  <2>4. paired' \subseteq Devices /\ paired' \subseteq proved
    BY <1>2, <1>4, <2>2, <2>3
  <2> QED
    BY <1>3, <1>5, <2>1, <2>4
<1>6. CASE conn.mode # "pair" /\ pin # 0 /\ conn.dev \notin host.list
  <2>1. Drop("notpaired") /\ UNCHANGED paired /\ "notpaired" \in Replies \ {"reply"}
    BY <1>6 DEF ReadKey, Replies
  <2> QED
    BY <1>1, <2>1, Dropping
<1>7. CASE conn.mode # "pair" /\ ~(pin # 0 /\ conn.dev \notin host.list)
  <2>1. Answer("ok", "hello", host.list) /\ UNCHANGED paired
    BY <1>7 DEF ReadKey
  <2> QED
    BY <1>3, <1>4, <1>7, <2>1
<1> QED
  BY <1>5, <1>6, <1>7

(* The session.                                                            *)
LEMMA ReadingHello == LoopInv /\ ReadHello => LoopInv'
<1> SUFFICES ASSUME LoopInv, ReadHello PROVE LoopInv'
  OBVIOUS
<1>1. UNCHANGED <<pin, backlog, paired, proved, trusts>> /\ host.at = "hello" /\ conn.up = "hello"
  BY DEF ReadHello, world, lists
<1>2. CASE Drop("none")
  <2>1. "none" \in Replies \ {"reply"}
    BY DEF Replies
  <2> QED
    BY <1>1, <1>2, <2>1, Dropping
<1>3. CASE /\ ~(pin # 0 /\ conn.mode \in {"v1", "plain"} /\ conn.pin # pin)
           /\ host' = Serving([conn EXCEPT !.up = "none"], "session", {}) /\ UNCHANGED client
  <2> DEFINE c == [conn EXCEPT !.up = "none"]
  <2>1. conn \in Connections /\ Linked(conn)
    BY <1>1 DEF LoopInv, Shapes, Hosts, conn, Conns, NoConnection, AllLinked
  <2>2. /\ c \in Connections /\ c.mode = conn.mode /\ c.pin = conn.pin /\ c.dev = conn.dev
        /\ c.here = conn.here /\ c.up = "none"
    BY <2>1 DEF Connections, Messages
  <2>3. c \in Conns /\ Linked(c)
    BY <2>1, <2>2 DEF Linked, Conns
  <2> HIDE DEF c
  <2>4. host' = Serving(c, "session", {})
    BY <1>3 DEF c
  <2>5. Shapes' /\ AllLinked'
    <3>1. /\ client' \in [Devices -> Clients] /\ pin' \in Pins /\ paired' \subseteq Devices
          /\ backlog' \in Seq(Connections)
          /\ \A d \in Devices : client'[d].at = client[d].at /\ client'[d].pin = client[d].pin
          /\ \A i \in DOMAIN backlog' : \E j \in DOMAIN backlog : backlog'[i] = backlog[j]
      BY <1>1, <1>3 DEF LoopInv, Shapes
    <3> QED
      BY <2>3, <2>4, <3>1, HostSteps, SMTT(30) DEF LoopInv
  <2>6. ClientEarned'
    BY <1>1, <1>3 DEF LoopInv, ClientEarned, Earning
  <2>7. host'.at = "session" /\ host'.list = {} /\ conn' = c
    BY <2>4 DEF Serving, conn
  <2>8. conn.mode # "silent"
    BY <1>1, <2>1 DEF Linked
  <2>9. HostEarned'
    BY <1>1, <1>3, <2>2, <2>7, <2>8 DEF HostEarned, LoopInv
  <2>10. TrustNeedsPin'
    BY <1>1 DEF LoopInv, TrustNeedsPin
  <2> QED
    BY <2>5, <2>6, <2>9, <2>10 DEF LoopInv
<1> QED
  BY <1>2, <1>3 DEF ReadHello, WrongPin

LEMMA Ending == LoopInv /\ (Silence \/ SessionEnds) => LoopInv'
<1> SUFFICES ASSUME LoopInv, Silence \/ SessionEnds PROVE LoopInv'
  OBVIOUS
<1>1. Drop("none") /\ UNCHANGED <<pin, backlog, paired, proved, trusts>>
  BY DEF Silence, SessionEnds, world, lists
<1>2. "none" \in Replies \ {"reply"}
  BY DEF Replies
<1> QED
  BY <1>1, <1>2, Dropping

(* The host's process starts again with no connection and no clients.      *)
LEMMA Restarting == LoopInv /\ Restart => LoopInv'
<1> SUFFICES ASSUME LoopInv, Restart PROVE LoopInv'
  OBVIOUS
<1>1. /\ UNCHANGED <<paired, proved, trusts>> /\ pin' \in Pins /\ backlog' = <<>>
      /\ host' = Serving(NoConnection, "accept", {})
  BY DEF Restart, lists, Free
<1>2. /\ client' \in [Devices -> Clients]
      /\ \A d \in Devices : /\ client'[d].at = client[d].at /\ client'[d].pin = client[d].pin
                            /\ client'[d].down = client[d].down
  <2>1. ASSUME NEW k \in Clients
        PROVE  LET l == [k EXCEPT !.hung = TRUE]
               IN  l \in Clients /\ l.at = k.at /\ l.pin = k.pin /\ l.down = k.down
    BY DEF Clients
  <2>2. client \in [Devices -> Clients]
    BY DEF LoopInv, Shapes
  <2> QED
    BY <2>1, <2>2 DEF Restart
<1>3. NoConnection \in Conns /\ Linked(NoConnection)
  BY DEF Conns, Linked, NoConnection
<1>4. Shapes' /\ AllLinked'
  <2>1. backlog' \in Seq(Connections) /\ DOMAIN backlog' = {}
    BY <1>1
  <2>2. paired' \subseteq Devices
    BY <1>1 DEF LoopInv, Shapes
  <2>3. \A i \in DOMAIN backlog' : \E j \in DOMAIN backlog : backlog'[i] = backlog[j]
    BY <2>1
  <2> QED
    BY <1>1, <1>2, <1>3, <2>1, <2>2, <2>3, HostSteps DEF LoopInv
<1>5. ClientEarned' /\ TrustNeedsPin'
  BY <1>1, <1>2 DEF LoopInv, ClientEarned, Earning, TrustNeedsPin
<1>6. HostEarned'
  BY <1>1 DEF HostEarned, Serving, conn
<1> QED
  BY <1>4, <1>5, <1>6 DEF LoopInv

(* Forgetting, the clock, and a step that changes nothing.                 *)
LEMMA Elsewhere ==
  ASSUME LoopInv, UNCHANGED <<pin, host, backlog, client, proved>>,
         paired' \subseteq paired, trusts' \subseteq trusts
  PROVE  LoopInv'
<1>1. Shapes'
  BY DEF LoopInv, Shapes
<1>2. AllLinked'
  BY DEF LoopInv, AllLinked, Linked, conn
<1>3. ClientEarned' /\ HostEarned' /\ TrustNeedsPin'
  BY DEF LoopInv, ClientEarned, Earning, HostEarned, TrustNeedsPin, conn
<1> QED
  BY <1>1, <1>2, <1>3 DEF LoopInv

-----------------------------------------------------------------------------
(* The clients' steps.                                                     *)

(* Clients that stay as they are keep their connections.                   *)
LEMMA OtherClients ==
  ASSUME NEW c \in Conns, Linked(c), NEW d \in Devices,
         \A e \in Devices : e # d => client'[e] = client[e],
         c.here => c.dev # d
  PROVE  Linked(c)'
<1>1. c.here => c.dev \in Devices
  BY DEF Conns, Connections, NoConnection
<1> QED
  BY <1>1 DEF Linked

LEMMA Connecting ==
  ASSUME LoopInv, NEW d \in Devices, NEW mode \in Modes, NEW p \in Pins,
         NEW at \in {"pake", "known", "v1", "live"}, NEW first \in Messages,
         Fits(mode, at), mode = "silent" => first \in {"none", "junk"},
         client[d].at \in {"idle", "redial"},
         Connect(d, mode, p, at, first)
  PROVE  LoopInv'
<1> DEFINE c   == [dev |-> d, mode |-> mode, pin |-> p, here |-> TRUE, up |-> first]
           new == [at |-> at, pin |-> p, down |-> "none", hung |-> FALSE]
<1>1. /\ UNCHANGED <<pin, host, paired, proved, trusts>>
      /\ backlog' = Append(backlog, c) /\ client' = [client EXCEPT ![d] = new]
  BY DEF Connect, hostside, lists
<1>2. c \in Connections /\ new \in Clients
  BY DEF Connections, Clients, Replies
<1>3. /\ client' \in [Devices -> Clients] /\ client'[d] = new
      /\ \A e \in Devices : e # d => client'[e] = client[e]
  BY <1>1, <1>2 DEF LoopInv, Shapes
<1>4. /\ backlog \in Seq(Connections) /\ backlog' \in Seq(Connections)
      /\ \A i \in DOMAIN backlog' : backlog'[i] = c \/ (i \in DOMAIN backlog /\ backlog'[i] = backlog[i])
  BY <1>1, <1>2, AppendProperties, LenProperties DEF LoopInv, Shapes
<1>5. Shapes'
  BY <1>1, <1>3, <1>4 DEF LoopInv, Shapes
<1>6. ASSUME NEW k \in Conns, Linked(k) PROVE Linked(k)'
  <2>1. k.here => k.dev # d
    BY <1>6 DEF Linked, Fits
  <2> QED
    BY <1>3, <1>6, <2>1, OtherClients
<1>7. Linked(c)'
  BY <1>3 DEF Linked, Fits
<1> HIDE DEF c
<1>8. AllLinked'
  <2>1. Linked(conn)'
    <3>1. conn \in Conns /\ Linked(conn) /\ conn' = conn
      BY <1>1 DEF LoopInv, Shapes, Hosts, AllLinked, conn
    <3> QED
      BY <1>6, <3>1 DEF Linked
  <2>2. ASSUME NEW i \in DOMAIN backlog' PROVE Linked(backlog[i])'
    <3>1. CASE backlog'[i] = c
      BY <1>7, <3>1 DEF Linked
    <3>2. CASE i \in DOMAIN backlog /\ backlog'[i] = backlog[i]
      <4> DEFINE k == backlog[i]
      <4>1. k \in Conns /\ Linked(k)
        BY <1>4, <3>2 DEF Conns, LoopInv, AllLinked
      <4>2. k.here => k.dev # d /\ k.dev \in Devices
        BY <4>1 DEF Linked, Fits, Conns, Connections, NoConnection
      <4> QED
        BY <1>3, <3>2, <4>1, <4>2 DEF Linked
    <3> QED
      BY <1>4, <3>1, <3>2
  <2> QED
    BY <2>1, <2>2 DEF AllLinked
<1>9. ClientEarned'
  BY <1>1, <1>3 DEF LoopInv, ClientEarned, Earning
<1>10. HostEarned' /\ TrustNeedsPin'
  BY <1>1 DEF LoopInv, HostEarned, TrustNeedsPin, conn
<1> QED
  BY <1>5, <1>8, <1>9, <1>10 DEF LoopInv

(* A client that leaves is on no connection any more.                      *)
LEMMA Leaving ==
  ASSUME LoopInv, NEW d \in Devices, NEW next \in {"idle", "redial"}, Leave(d, next),
         UNCHANGED <<pin, paired, proved, trusts>>
  PROVE  LoopInv'
<1>1. ASSUME NEW c \in Conns
      PROVE  LET l == Left(c, d)
             IN  /\ l \in Conns /\ (c \in Connections => l \in Connections)
                 /\ l.here => c.here /\ c.dev # d
                 /\ l.dev = c.dev /\ l.mode = c.mode /\ l.pin = c.pin /\ l.up = c.up
  <2>1. CASE Here(c, d)
    <3>1. c \in Connections
      BY <2>1 DEF Here, Conns, NoConnection
    <3>2. Left(c, d) = [c EXCEPT !.here = FALSE]
      BY <2>1 DEF Left
    <3>3. /\ [c EXCEPT !.here = FALSE] \in Connections
          /\ [c EXCEPT !.here = FALSE].here = FALSE
          /\ [c EXCEPT !.here = FALSE].dev = c.dev
          /\ [c EXCEPT !.here = FALSE].mode = c.mode
          /\ [c EXCEPT !.here = FALSE].pin = c.pin
          /\ [c EXCEPT !.here = FALSE].up = c.up
      BY <3>1 DEF Connections
    <3> QED
      BY <3>2, <3>3 DEF Conns
  <2>2. CASE ~Here(c, d)
    BY <2>2 DEF Left, Here
  <2> QED
    BY <2>1, <2>2
<1> DEFINE new == IF next = "idle" THEN Idle ELSE [Idle EXCEPT !.at = next, !.pin = client[d].pin]
<1>2. /\ new \in Clients /\ new.at = next /\ new.down = "none"
      /\ client' = [client EXCEPT ![d] = new]
  <2>1. client[d] \in Clients
    BY DEF LoopInv, Shapes
  <2>2. Idle \in Clients /\ Idle.at = "idle" /\ Idle.down = "none"
    BY HostAssumption DEF Idle, Clients, Replies
  <2>3. client[d].pin \in Pins
    BY <2>1 DEF Clients
  <2>4. LET k == [Idle EXCEPT !.at = "redial", !.pin = client[d].pin]
        IN  k \in Clients /\ k.at = "redial" /\ k.down = "none"
    BY <2>2, <2>3 DEF Clients
  <2> QED
    BY <2>2, <2>4 DEF Leave
<1> HIDE DEF new
<1>3. /\ client' \in [Devices -> Clients] /\ client'[d] = new
      /\ \A e \in Devices : e # d => client'[e] = client[e]
  BY <1>2 DEF LoopInv, Shapes
<1>4. conn \in Conns /\ Linked(conn) /\ host \in Hosts
  BY DEF LoopInv, Shapes, Hosts, AllLinked, conn
<1>5. host' \in Hosts /\ conn' = Left(conn, d) /\ host'.at = host.at /\ host'.list = host.list
  <2>1. Left(conn, d) \in Conns
    BY <1>1, <1>4
  <2> QED
    BY <1>4, <2>1 DEF Leave, Hosts, conn
<1>6. /\ backlog' \in Seq(Connections) /\ DOMAIN backlog' = DOMAIN backlog
      /\ \A i \in DOMAIN backlog : backlog[i] \in Conns /\ backlog'[i] = Left(backlog[i], d)
  <2>1. /\ backlog \in Seq(Connections) /\ Len(backlog) \in Nat
        /\ DOMAIN backlog = 1..Len(backlog)
        /\ \A i \in 1..Len(backlog) : backlog[i] \in Connections
    BY LenProperties, ElementOfSeq DEF LoopInv, Shapes
  <2>2. \A i \in 1..Len(backlog) : Left(backlog[i], d) \in Connections
    BY <1>1, <2>1 DEF Conns
  <2>3. backlog' = [i \in 1..Len(backlog) |-> Left(backlog[i], d)]
    BY <2>1 DEF Leave
  <2>4. backlog' \in [1..Len(backlog) -> Connections]
    BY <2>2, <2>3
  <2>5. backlog' \in Seq(Connections)
    BY <2>1, <2>4, SeqDef
  <2> QED
    BY <2>1, <2>3, <2>5 DEF Conns
<1>7. Shapes'
  BY <1>3, <1>5, <1>6 DEF LoopInv, Shapes
<1>8. AllLinked'
  <2>1. Linked(conn)'
    <3>1. /\ Left(conn, d) \in Conns /\ (Left(conn, d).here => conn.here /\ conn.dev # d)
          /\ Left(conn, d).dev = conn.dev /\ Left(conn, d).mode = conn.mode
          /\ Left(conn, d).pin = conn.pin /\ Left(conn, d).up = conn.up
      BY <1>1, <1>4
    <3>2. conn.here => conn.dev \in Devices
      BY <1>4 DEF Conns, Connections, NoConnection
    <3> QED
      BY <1>3, <1>4, <1>5, <3>1, <3>2 DEF Linked
  <2>2. ASSUME NEW i \in DOMAIN backlog' PROVE Linked(backlog[i])'
    <3> DEFINE c == backlog[i]
    <3>1. c \in Conns /\ Linked(c) /\ backlog'[i] = Left(c, d)
      BY <1>6 DEF LoopInv, AllLinked
    <3>2. /\ Left(c, d) \in Conns /\ (Left(c, d).here => c.here /\ c.dev # d)
          /\ Left(c, d).dev = c.dev /\ Left(c, d).mode = c.mode
          /\ Left(c, d).pin = c.pin /\ Left(c, d).up = c.up
      BY <1>1, <3>1
    <3>3. c.here => c.dev \in Devices
      BY <3>1 DEF Conns, Connections, NoConnection
    <3> QED
      BY <1>3, <3>1, <3>2, <3>3 DEF Linked
  <2> QED
    BY <2>1, <2>2 DEF AllLinked
<1>9. ClientEarned'
  BY <1>2, <1>3 DEF LoopInv, ClientEarned, Earning
<1>10. HostEarned'
  <2>1. conn'.mode = conn.mode /\ conn'.pin = conn.pin /\ conn'.dev = conn.dev
    BY <1>1, <1>4, <1>5
  <2> QED
    BY <1>5, <2>1 DEF LoopInv, HostEarned
<1>11. TrustNeedsPin'
  BY DEF LoopInv, TrustNeedsPin
<1> QED
  BY <1>7, <1>8, <1>9, <1>10, <1>11 DEF LoopInv

(* A client moves on along its kind of connection.                         *)
Moved(at, next) ==
  <<at, next>> \in {<<"pake", "proving">>, <<"proving", "verdict">>, <<"verdict", "live">>,
                   <<"known", "judged">>, <<"judged", "live">>, <<"v1", "live">>}

LEMMA Replying ==
  ASSUME LoopInv, NEW d \in Devices, NEW message \in Messages, NEW next,
         Moved(client[d].at, next),
         next = "verdict" /\ client[d].pin # 0 => d \in proved,
         Reply(d, message, next),
         UNCHANGED <<pin, paired, proved>>, trusts' \subseteq proved
  PROVE  LoopInv'
<1> DEFINE new == [client[d] EXCEPT !.at = next, !.down = "none"]
<1>1. /\ new \in Clients /\ new.at = next /\ new.down = "none" /\ new.pin = client[d].pin
      /\ client' = [client EXCEPT ![d] = new]
  <2>1. client[d] \in Clients
    BY DEF LoopInv, Shapes
  <2>2. next \in {"proving", "verdict", "live", "judged"}
    BY DEF Moved
  <2>3. "none" \in Replies
    BY DEF Replies
  <2> QED
    BY <2>1, <2>2, <2>3 DEF Reply, Clients
<1> HIDE DEF new
<1>2. /\ client' \in [Devices -> Clients] /\ client'[d] = new
      /\ \A e \in Devices : e # d => client'[e] = client[e]
  BY <1>1 DEF LoopInv, Shapes
<1>3. /\ backlog' = backlog /\ backlog \in Seq(Connections)
      /\ host \in Hosts /\ conn \in Conns /\ Linked(conn)
  BY DEF Reply, LoopInv, Shapes, Hosts, conn, AllLinked
<1>4. /\ host' \in Hosts /\ host'.at = host.at /\ host'.list = host.list
      /\ conn'.dev = conn.dev /\ conn'.mode = conn.mode /\ conn'.pin = conn.pin
      /\ conn'.here = conn.here
      /\ conn'.up = conn.up \/ Here(conn, d)
  <2>1. CASE Here(conn, d)
    <3> DEFINE c == [conn EXCEPT !.up = message]
    <3>1. conn \in Connections
      BY <1>3, <2>1 DEF Here, Conns, NoConnection
    <3>2. /\ c \in Connections /\ c.dev = conn.dev /\ c.mode = conn.mode
          /\ c.pin = conn.pin /\ c.here = conn.here
      BY <3>1 DEF Connections
    <3>3. host' = [host EXCEPT !.conn = c]
      BY <2>1 DEF Reply, conn
    <3> HIDE DEF c
    <3>4. host' \in Hosts /\ host'.conn = c /\ host'.at = host.at /\ host'.list = host.list
      BY <1>3, <3>2, <3>3 DEF Hosts, Conns
    <3> QED
      BY <2>1, <3>2, <3>4 DEF conn
  <2>2. CASE ~Here(conn, d)
    BY <1>3, <2>2 DEF Reply, conn
  <2> QED
    BY <2>1, <2>2
<1>5. Shapes'
  BY <1>2, <1>3, <1>4 DEF LoopInv, Shapes
<1>6. \A mode \in Modes : Fits(mode, client[d].at) => Fits(mode, next) /\ mode # "silent"
  BY DEF Moved, Fits
<1>7. AllLinked'
  <2>1. Linked(conn)'
    <3>1. conn.here => conn.dev \in Devices /\ conn.mode \in Modes
      BY <1>3 DEF Conns, Connections, NoConnection
    <3> QED
      BY <1>1, <1>2, <1>3, <1>4, <1>6, <3>1 DEF Linked, Here
  <2>2. ASSUME NEW i \in DOMAIN backlog' PROVE Linked(backlog[i])'
    <3> DEFINE c == backlog[i]
    <3>1. c \in Connections /\ Linked(c) /\ backlog'[i] = c
      BY <1>3, LenProperties, ElementOfSeq DEF LoopInv, AllLinked
    <3>2. c.dev \in Devices /\ c.mode \in Modes
      BY <3>1 DEF Connections
    <3> QED
      BY <1>1, <1>2, <1>6, <3>1, <3>2 DEF Linked
  <2> QED
    BY <2>1, <2>2 DEF AllLinked
<1>8. ClientEarned'
  <2>1. Earning(d)' => next = "verdict"
    BY <1>1, <1>2 DEF Earning
  <2> QED
    BY <1>1, <1>2, <2>1 DEF LoopInv, ClientEarned, Earning
<1>9. HostEarned' /\ TrustNeedsPin'
  BY <1>4 DEF LoopInv, HostEarned, TrustNeedsPin
<1> QED
  BY <1>5, <1>7, <1>8, <1>9 DEF LoopInv

LEMMA ReadingReply == ASSUME NEW d \in Devices PROVE LoopInv /\ ClientReads(d) => LoopInv'
<1> SUFFICES ASSUME LoopInv, ClientReads(d) PROVE LoopInv'
  OBVIOUS
<1>1. UNCHANGED <<pin, paired, proved>> /\ trusts \subseteq proved
  BY DEF ClientReads, hostside, lists, LoopInv, TrustNeedsPin
<1>2. ASSUME NEW next \in {"idle", "redial"}, Leave(d, next), UNCHANGED trusts
      PROVE  LoopInv'
  BY <1>1, <1>2, Leaving
<1>3. ASSUME NEW message \in Messages, NEW next, Moved(client[d].at, next),
             next # "verdict", Reply(d, message, next), UNCHANGED trusts
      PROVE  LoopInv'
  BY <1>1, <1>3, Replying
<1>4. CASE Got(d, "pake", "go") /\ Reply(d, "proof", "proving") /\ UNCHANGED trusts
  BY <1>3, <1>4 DEF Got, Moved, Messages
<1>5. CASE Got(d, "proving", "reply") /\ Reply(d, "key", "verdict") /\ UNCHANGED trusts
  <2>1. client[d].pin # 0 => d \in proved
    BY <1>5 DEF Got, LoopInv, ClientEarned, Earning
  <2>2. Moved(client[d].at, "verdict") /\ "key" \in Messages
    BY <1>5 DEF Got, Moved, Messages
  <2> QED
    BY <1>1, <1>5, <2>1, <2>2, Replying
<1>6. CASE /\ Got(d, "verdict", "ok") /\ Reply(d, "hello", "live")
           /\ trusts' = IF client[d].pin # 0 THEN trusts \cup {d} ELSE trusts
  <2>1. client[d].pin # 0 => d \in proved
    BY <1>6 DEF Got, LoopInv, ClientEarned, Earning
  <2>2. Moved(client[d].at, "live") /\ "hello" \in Messages
    BY <1>6 DEF Got, Moved, Messages
  <2>3. trusts' \subseteq proved
    BY <1>1, <1>6, <2>1
  <2> QED
    BY <1>1, <1>6, <2>2, <2>3, Replying
<1>7. CASE Got(d, "known", "go") /\ Reply(d, "key", "judged") /\ UNCHANGED trusts
  BY <1>3, <1>7 DEF Got, Moved, Messages
<1>8. CASE Got(d, "judged", "ok") /\ Reply(d, "hello", "live") /\ UNCHANGED trusts
  BY <1>3, <1>8 DEF Got, Moved, Messages
<1>9. CASE Got(d, "v1", "reply") /\ Reply(d, "hello", "live") /\ UNCHANGED trusts
  BY <1>3, <1>9 DEF Got, Moved, Messages
<1>10. CASE \E next \in {"idle", "redial"} : Leave(d, next) /\ UNCHANGED trusts
  BY <1>2, <1>10
<1> QED
  BY <1>4, <1>5, <1>6, <1>7, <1>8, <1>9, <1>10 DEF ClientReads

LEMMA ClientSteps == ASSUME NEW d \in Devices PROVE LoopInv /\ Client(d) => LoopInv'
<1> SUFFICES ASSUME LoopInv, Client(d) PROVE LoopInv'
  OBVIOUS
<1>1. CASE ClientReads(d)
  BY <1>1, ReadingReply
<1>2. CASE SeesClose(d) \/ GivesUp(d)
  <2>1. Leave(d, "idle") /\ UNCHANGED <<pin, paired, proved, trusts>>
    BY <1>2 DEF SeesClose, GivesUp, hostside, lists
  <2> QED
    BY <2>1, Leaving
<1> QED
  BY <1>1, <1>2 DEF Client

LEMMA Dialling ==
  ASSUME LoopInv,
         \/ \E d \in Current : DialKnown(d) \/ DialPair(d)
         \/ \E d \in Legacy : DialLegacy(d)
  PROVE  LoopInv'
<1>1. CASE \E d \in Current : DialKnown(d)
  <2>1. PICK d \in Current, p \in Pins :
          client[d].at = "idle" /\ Connect(d, "known", p, "known", "opening")
    BY <1>1 DEF DialKnown
  <2>2. d \in Devices /\ "known" \in Modes /\ "opening" \in Messages /\ Fits("known", "known")
    BY DEF Devices, Modes, Messages, Fits
  <2> QED
    BY <2>1, <2>2, Connecting
<1>2. CASE \E d \in Current : DialPair(d)
  <2>1. PICK d \in Current : DialPair(d)
    BY <1>2
  <2>2. client[d].pin \in Pins /\ d \in Devices
    BY DEF LoopInv, Shapes, Clients, Devices
  <2>3. PICK p \in Pins : /\ client[d].at \in {"idle", "redial"}
                          /\ Connect(d, "pair", p, "pake", "opening")
    BY <2>1, <2>2 DEF DialPair
  <2>4. "pair" \in Modes /\ "opening" \in Messages /\ Fits("pair", "pake")
    BY DEF Modes, Messages, Fits
  <2> QED
    BY <2>2, <2>3, <2>4, Connecting
<1>3. CASE \E d \in Legacy : DialLegacy(d)
  <2>1. PICK d \in Legacy, p \in Pins :
          /\ client[d].at = "idle"
          /\ \/ Connect(d, "v1", p, "v1", "opening")
             \/ Connect(d, "plain", p, "live", "hello")
             \/ \E first \in {"none", "junk"} : Connect(d, "silent", p, "live", first)
    BY <1>3 DEF DialLegacy
  <2>2. /\ d \in Devices /\ {"v1", "plain", "silent"} \subseteq Modes
        /\ {"none", "junk", "hello", "opening"} \subseteq Messages
        /\ Fits("v1", "v1") /\ Fits("plain", "live") /\ Fits("silent", "live")
    BY DEF Devices, Modes, Messages, Fits
  <2>3. CASE Connect(d, "v1", p, "v1", "opening")
    BY <2>1, <2>2, <2>3, Connecting
  <2>4. CASE Connect(d, "plain", p, "live", "hello")
    BY <2>1, <2>2, <2>4, Connecting
  <2>5. ASSUME NEW first \in {"none", "junk"}, Connect(d, "silent", p, "live", first)
        PROVE  LoopInv'
    BY <2>1, <2>2, <2>5, Connecting
  <2> QED
    BY <2>1, <2>3, <2>4, <2>5
<1> QED
  BY <1>1, <1>2, <1>3

-----------------------------------------------------------------------------
LEMMA LoopStart == Init => LoopInv
<1> SUFFICES ASSUME Init PROVE LoopInv
  OBVIOUS
<1>1. NoConnection \in Conns /\ Linked(NoConnection)
  BY DEF Conns, Linked, NoConnection
<1>2. host = Serving(NoConnection, "accept", {}) /\ backlog = <<>>
  BY DEF Init, Free
<1>3. host \in Hosts /\ conn = NoConnection /\ host.at = "accept" /\ host.list = {}
  BY <1>1, <1>2 DEF Hosts, Serving, conn
<1>4. Idle \in Clients /\ Idle.at = "idle"
  BY HostAssumption DEF Idle, Clients, Replies
<1>5. Shapes
  BY <1>2, <1>3, <1>4 DEF Init, Shapes
<1>6. AllLinked
  BY <1>1, <1>2, <1>3 DEF AllLinked
<1>7. ClientEarned /\ HostEarned /\ TrustNeedsPin
  BY <1>3, <1>4 DEF Init, ClientEarned, Earning, HostEarned, TrustNeedsPin
<1> QED
  BY <1>5, <1>6, <1>7 DEF LoopInv

LEMMA LoopNext == LoopInv /\ [Next]_vars => LoopInv'
<1> SUFFICES ASSUME LoopInv, [Next]_vars PROVE LoopInv'
  OBVIOUS
<1>1. CASE Refuse \/ Admit \/ Reading \/ Silence \/ SessionEnds \/ Restart
  BY <1>1, Refusing, Admitting, ReadingOpening, ReadingProof, ReadingKey, ReadingHello,
     Ending, Restarting DEF Reading
<1>2. CASE ForgetAll
  <2>1. UNCHANGED <<pin, host, backlog, client, proved, trusts>> /\ paired' = {}
    BY <1>2 DEF ForgetAll
  <2> QED
    BY <2>1, Elsewhere
<1>3. CASE Tick \/ UNCHANGED vars
  <2>1. UNCHANGED <<pin, host, backlog, client, proved, trusts, paired>>
    BY <1>3 DEF Tick, vars, lists
  <2> QED
    BY <2>1, Elsewhere
<1>4. CASE \E d \in Current : ForgetHost(d)
  <2>1. UNCHANGED <<pin, host, backlog, client, proved, paired>> /\ trusts' \subseteq trusts
    BY <1>4 DEF ForgetHost, hostside, lists
  <2> QED
    BY <2>1, Elsewhere
<1>5. CASE \/ \E d \in Current : DialKnown(d) \/ DialPair(d)
           \/ \E d \in Legacy : DialLegacy(d)
  BY <1>5, Dialling
<1>6. CASE \E d \in Devices : Client(d)
  BY <1>6, ClientSteps
<1> QED
  BY <1>1, <1>2, <1>3, <1>4, <1>5, <1>6 DEF Next

LEMMA LoopInvariant == Spec => []LoopInv
BY LoopStart, LoopNext, PTL DEF Spec

(* SessionEarned: a session on a host with a PIN was earned by that PIN,   *)
(* sent on this very connection, or by a key that once proved one          *)
(* (accept_v2, read_hello).                                                *)
THEOREM EverySessionEarned == Spec => []SessionEarned
<1>1. LoopInv => SessionEarned
  <2> SUFFICES ASSUME LoopInv, host.at = "session", pin # 0
               PROVE  conn.pin = pin \/ (conn.mode = "known" /\ conn.dev \in proved)
    BY DEF SessionEarned
  <2>1. conn.mode \in Modes
    BY DEF LoopInv, Shapes, Hosts, conn, Conns, Connections, NoConnection, Modes
  <2> QED
    BY <2>1 DEF LoopInv, HostEarned, Modes
<1> QED
  BY LoopInvariant, <1>1, PTL

(* TrustNeedsPin: whoever a host has on its list, and whoever will         *)
(* reconnect to it by key, has proven a PIN to it (accept_v2 remembers     *)
(* nobody while pairing is off; neither does open_tunnel).                 *)
THEOREM TrustEarned == Spec => []TrustNeedsPin
<1>1. LoopInv => TrustNeedsPin
  BY DEF LoopInv
<1> QED
  BY LoopInvariant, <1>1, PTL

-----------------------------------------------------------------------------
(* Trust is mutual.                                                        *)

(* A client about to be told that it is paired is on the list, or has been *)
(* struck off it since, or could not be saved.                             *)
Told(d) == client[d].at \in {"pake", "proving", "verdict"} /\ client[d].down = "ok"

(* The list in the loop's hand is the list on file, or that was forgotten. *)
MutualInv ==
  /\ TrustIsMutual
  /\ \A d \in Devices : Told(d) /\ client[d].pin # 0 => d \in paired \cup lost
  /\ host.at \in {"proof", "key"} => paired \subseteq host.list

(* Dropped connections, refusals and answers other than the verdict.       *)
LEMMA MutualAnswers ==
  ASSUME LoopInv, MutualInv, UNCHANGED <<paired, lost, trusts>>,
         NEW c \in Conns, NEW reply \in Replies \ {"ok"}, NEW hangUp \in BOOLEAN,
         Tell(c, reply, hangUp),
         host'.at \in {"proof", "key"} => paired \subseteq host'.list
  PROVE  MutualInv'
<1>1. /\ \A d \in Devices : client'[d].at = client[d].at /\ client'[d].pin = client[d].pin
      /\ \A d \in Devices : client'[d].down = client[d].down \/ client'[d].down # "ok"
  BY Telling DEF LoopInv, Shapes
<1>2. paired \cup lost \subseteq paired' \cup lost' /\ trusts' \subseteq paired' \cup lost'
  BY DEF MutualInv, TrustIsMutual
<1> QED
  BY <1>1, <1>2 DEF MutualInv, TrustIsMutual, Told

LEMMA MutualDrop ==
  ASSUME LoopInv, MutualInv, NEW reply \in Replies \ {"ok"}, Drop(reply),
         UNCHANGED <<paired, lost, trusts>>
  PROVE  MutualInv'
<1>1. conn \in Conns /\ host'.at = "accept" /\ Tell(conn, reply, TRUE)
  BY DEF LoopInv, Shapes, Hosts, conn, Drop, Free, Serving
<1> QED
  BY <1>1, MutualAnswers

(* The host's steps.                                                       *)
LEMMA MutualReading == LoopInv /\ MutualInv /\ Reading => MutualInv'
<1> SUFFICES ASSUME LoopInv, MutualInv, Reading PROVE MutualInv'
  OBVIOUS
<1>1. conn \in Conns
  BY DEF LoopInv, Shapes, Hosts, conn
<1>2. "none" \in Replies \ {"ok"} /\ "notpaired" \in Replies \ {"ok"}
      /\ "go" \in Replies \ {"ok"} /\ "reply" \in Replies \ {"ok"}
  BY DEF Replies
<1>3. ASSUME WrongPin, UNCHANGED <<paired, lost, trusts>> PROVE MutualInv'
  BY <1>2, <1>3, MutualDrop DEF WrongPin
<1>4. CASE ReadOpening
  <2>1. UNCHANGED <<paired, lost, trusts>>
    BY <1>4 DEF ReadOpening, lists, world
  <2>2. ASSUME NEW reply \in {"go", "reply"}, NEW at, NEW list, Answer(reply, at, list),
               at \in {"proof", "key"} => list = paired
        PROVE  MutualInv'
    <3>1. host'.at = at /\ host'.list = list /\ Tell(conn, reply, FALSE)
      BY <2>2 DEF Answer, Serving
    <3> QED
      BY <1>1, <1>2, <2>1, <2>2, <3>1, MutualAnswers
  <2>3. ASSUME host' = Serving(conn, "hello", {}), UNCHANGED client PROVE MutualInv'
    <3>1. host'.at = "hello"
      BY <2>3 DEF Serving
    <3> QED
      BY <2>1, <2>3, <3>1 DEF MutualInv, TrustIsMutual, Told
  <2>4. \/ Answer("go", "proof", paired) \/ Answer("go", "key", paired)
        \/ Answer("reply", "hello", {}) \/ WrongPin
        \/ host' = Serving(conn, "hello", {}) /\ UNCHANGED client
    BY <1>4 DEF ReadOpening
  <2> QED
    BY <1>3, <2>1, <2>2, <2>3, <2>4
<1>5. CASE ReadProof
  <2>1. UNCHANGED <<paired, lost, trusts>> /\ host.at = "proof"
    BY <1>5 DEF ReadProof, world
  <2>2. CASE Answer("reply", "key", host.list)
    <3>1. host'.at = "key" /\ host'.list = host.list /\ Tell(conn, "reply", FALSE)
      BY <2>2 DEF Answer, Serving
    <3>2. paired \subseteq host.list
      BY <2>1 DEF MutualInv
    <3> QED
      BY <1>1, <1>2, <2>1, <3>1, <3>2, MutualAnswers
  <2>3. CASE WrongPin
    BY <1>3, <2>1, <2>3
  <2> QED
    BY <1>5, <2>2, <2>3 DEF ReadProof
<1>6. CASE ReadKey
  <2>1. UNCHANGED <<trusts, pin, backlog>> /\ host.at = "key" /\ conn.up = "key"
    BY <1>6 DEF ReadKey, world
  <2>2. conn \in Connections /\ host.list \in SUBSET Devices /\ paired \subseteq host.list
    BY <2>1 DEF LoopInv, Shapes, Hosts, conn, Conns, NoConnection, MutualInv
  <2>3. ASSUME Answer("ok", "hello", host.list),
               paired \cup lost \subseteq paired' \cup lost',
               conn.mode = "pair" /\ pin # 0 => conn.dev \in paired' \cup lost'
        PROVE  MutualInv'
    <3>1. host'.at = "hello" /\ Tell(conn, "ok", FALSE) /\ "ok" \in Replies
      BY <2>3 DEF Answer, Serving, Replies
    <3>2. /\ \A d \in Devices : client'[d].at = client[d].at /\ client'[d].pin = client[d].pin
          /\ \A d \in Devices : client'[d].down = client[d].down \/ (d = conn.dev /\ conn.here)
      BY <1>1, <3>1, Telling DEF LoopInv, Shapes
    <3>3. conn.mode = "pair" => conn.pin = pin
      BY <2>1 DEF LoopInv, HostEarned
    <3>4. conn.here => /\ client[conn.dev].pin = conn.pin
                       /\ \/ conn.mode = "pair"
                          \/ client[conn.dev].at \notin {"pake", "proving", "verdict"}
      BY DEF LoopInv, AllLinked, Linked, Fits
    <3>5. ASSUME NEW d \in Devices, client'[d].down # client[d].down, client[d].pin # 0,
                 client[d].at \in {"pake", "proving", "verdict"}
          PROVE  d \in paired' \cup lost'
      <4>1. d = conn.dev /\ conn.here
        BY <3>2, <3>5
      <4>2. conn.mode = "pair" /\ pin # 0
        BY <3>3, <3>4, <3>5, <4>1
      <4> QED
        BY <2>3, <4>1, <4>2
    <3>6. trusts' \subseteq paired' \cup lost'
      BY <2>1, <2>3 DEF MutualInv, TrustIsMutual
    <3>7. ASSUME NEW d \in Devices, Told(d)', client'[d].pin # 0
          PROVE  d \in paired' \cup lost'
      <4>1. client[d].at \in {"pake", "proving", "verdict"} /\ client[d].pin # 0
            /\ client'[d].down = "ok"
        BY <3>2, <3>7 DEF Told
      <4>2. CASE client'[d].down = client[d].down
        <5>1. d \in paired \cup lost
          BY <4>1, <4>2 DEF MutualInv, Told
        <5> QED
          BY <2>3, <5>1
      <4>3. CASE client'[d].down # client[d].down
        BY <3>5, <4>1, <4>3
      <4> QED
        BY <4>2, <4>3
    <3> QED
      BY <3>1, <3>6, <3>7 DEF MutualInv, TrustIsMutual
  <2>4. CASE conn.mode = "pair"
    <3>1. Answer("ok", "hello", host.list)
      BY <2>4, <1>6 DEF ReadKey
    <3>2. IF pin # 0 THEN Remember(conn.dev) ELSE UNCHANGED <<paired, lost>>
      BY <2>4, <1>6 DEF ReadKey
    <3>3. /\ paired \cup lost \subseteq paired' \cup lost'
          /\ pin # 0 => conn.dev \in paired' \cup lost'
      BY <2>2, <3>2 DEF Remember
    <3> QED
      BY <2>3, <3>1, <3>3
  <2>5. CASE conn.mode # "pair"
    <3>1. UNCHANGED <<paired, lost>> /\ (Drop("notpaired") \/ Answer("ok", "hello", host.list))
      BY <2>5, <1>6 DEF ReadKey
    <3> QED
      BY <1>2, <2>1, <2>3, <2>5, <3>1, MutualDrop
  <2> QED
    BY <2>4, <2>5
<1>7. CASE ReadHello
  <2>1. UNCHANGED <<paired, lost, trusts>>
    BY <1>7 DEF ReadHello, lists, world
  <2>2. \/ WrongPin \/ Drop("none")
        \/ host' = Serving([conn EXCEPT !.up = "none"], "session", {}) /\ UNCHANGED client
    BY <1>7 DEF ReadHello
  <2>3. ASSUME host' = Serving([conn EXCEPT !.up = "none"], "session", {}), UNCHANGED client
        PROVE  MutualInv'
    <3>1. host'.at = "session"
      BY <2>3 DEF Serving
    <3> QED
      BY <2>1, <2>3, <3>1 DEF MutualInv, TrustIsMutual, Told
  <2> QED
    BY <1>2, <1>3, <2>1, <2>2, <2>3, MutualDrop
<1> QED
  BY <1>4, <1>5, <1>6, <1>7 DEF Reading

LEMMA MutualHost ==
  ASSUME LoopInv, MutualInv,
         Refuse \/ Admit \/ Silence \/ SessionEnds \/ Restart \/ ForgetAll \/ Tick \/ UNCHANGED vars
  PROVE  MutualInv'
<1>1. CASE Refuse
  <2>1. /\ UNCHANGED <<host, paired, lost, trusts>> /\ backlog # <<>>
        /\ \E reply \in {"locked", "none"} : Tell(Head(backlog), reply, TRUE)
    BY <1>1 DEF Refuse, lists, world
  <2>2. Head(backlog) \in Conns
    BY <2>1, Taking DEF LoopInv, Conns
  <2>3. {"locked", "none"} \subseteq Replies \ {"ok"}
    BY DEF Replies
  <2> QED
    BY <2>1, <2>2, <2>3, MutualAnswers DEF MutualInv
<1>2. CASE Admit
  <2>1. UNCHANGED <<client, paired, lost, trusts>> /\ host'.at = "opening"
    BY <1>2 DEF Admit, lists, world, Serving
  <2> QED
    BY <2>1 DEF MutualInv, TrustIsMutual, Told
<1>3. CASE Silence \/ SessionEnds
  <2>1. Drop("none") /\ UNCHANGED <<paired, lost, trusts>>
    BY <1>3 DEF Silence, SessionEnds, lists, world
  <2>2. "none" \in Replies \ {"ok"}
    BY DEF Replies
  <2> QED
    BY <2>1, <2>2, MutualDrop
<1>4. CASE Restart
  <2>1. UNCHANGED <<paired, lost, trusts>> /\ host'.at = "accept"
    BY <1>4 DEF Restart, lists, Free, Serving
  <2>2. \A d \in Devices : /\ client'[d].at = client[d].at /\ client'[d].pin = client[d].pin
                          /\ client'[d].down = client[d].down
    <3>1. ASSUME NEW k \in Clients
          PROVE  LET l == [k EXCEPT !.hung = TRUE]
                 IN  l.at = k.at /\ l.pin = k.pin /\ l.down = k.down
      BY DEF Clients
    <3>2. client \in [Devices -> Clients]
      BY DEF LoopInv, Shapes
    <3> QED
      BY <1>4, <3>1, <3>2 DEF Restart
  <2> QED
    BY <2>1, <2>2 DEF MutualInv, TrustIsMutual, Told
<1>5. CASE ForgetAll
  <2>1. UNCHANGED <<client, host, trusts>> /\ paired' = {} /\ lost' = lost \cup paired
    BY <1>5 DEF ForgetAll
  <2> QED
    BY <2>1 DEF MutualInv, TrustIsMutual, Told
<1>6. CASE Tick \/ UNCHANGED vars
  BY <1>6 DEF Tick, vars, lists, MutualInv, TrustIsMutual, Told
<1> QED
  BY <1>1, <1>2, <1>3, <1>4, <1>5, <1>6

(* The clients' steps: a client that remembers the host was told first.    *)
LEMMA MutualClients ==
  ASSUME LoopInv, MutualInv,
         \/ \E d \in Current : DialKnown(d) \/ DialPair(d) \/ ForgetHost(d)
         \/ \E d \in Legacy : DialLegacy(d)
         \/ \E d \in Devices : Client(d)
  PROVE  MutualInv'
<1>1. UNCHANGED <<paired, lost>>
  BY DEF DialKnown, DialPair, ForgetHost, DialLegacy, Client, ClientReads, SeesClose, GivesUp,
         Connect, hostside, lists
<1>2. PICK d \in Devices :
        \/ d \in Current /\ (DialKnown(d) \/ DialPair(d) \/ ForgetHost(d))
        \/ d \in Legacy /\ DialLegacy(d)
        \/ Client(d)
  BY DEF Devices
<1>3. client \in [Devices -> Clients] /\ host \in Hosts
  BY DEF LoopInv, Shapes
<1>4. host'.at \in {"proof", "key"} => paired' \subseteq host'.list
  <2>1. \/ host' = host
        \/ host' = [host EXCEPT !.conn = Left(conn, d)]
        \/ \E message \in Messages : host' = [host EXCEPT !.conn.up = message]
    BY <1>2 DEF DialKnown, DialPair, ForgetHost, DialLegacy, Client, ClientReads, SeesClose, GivesUp,
                Connect, Leave, Reply, Messages
  <2>2. host'.at = host.at /\ host'.list = host.list
    BY <1>3, <2>1 DEF Hosts
  <2> QED
    BY <1>1, <2>2 DEF MutualInv
<1>5. /\ \A e \in Devices : e # d => client'[e] = client[e]
      /\ client'[d] = client[d] \/ client'[d].down = "none"
  <2>1. \/ client' = client
        \/ \E at, p : client' = [client EXCEPT ![d] = [at |-> at, pin |-> p, down |-> "none", hung |-> FALSE]]
        \/ client' = [client EXCEPT ![d] = Idle]
        \/ \E next : client' = [client EXCEPT ![d] = [Idle EXCEPT !.at = next, !.pin = client[d].pin]]
        \/ \E next : client' = [client EXCEPT ![d].at = next, ![d].down = "none"]
    <3>1. CASE d \in Current /\ (DialKnown(d) \/ DialPair(d) \/ ForgetHost(d))
      BY <3>1 DEF DialKnown, DialPair, ForgetHost, Connect
    <3>2. CASE d \in Legacy /\ DialLegacy(d)
      BY <3>2 DEF DialLegacy, Connect
    <3>3. CASE Client(d)
      <4>1. (\E message, next : Reply(d, message, next)) \/ (\E next : Leave(d, next))
        BY <3>3 DEF Client, ClientReads, SeesClose, GivesUp
      <4> QED
        BY <4>1 DEF Reply, Leave
    <3> QED
      BY <1>2, <3>1, <3>2, <3>3
  <2>2. client[d] \in Clients
    BY <1>3
  <2>3. ASSUME NEW r, client' = [client EXCEPT ![d] = r], r.down = "none"
        PROVE  /\ \A e \in Devices : e # d => client'[e] = client[e]
               /\ client'[d] = client[d] \/ client'[d].down = "none"
    BY <1>3, <2>3
  <2>4. ASSUME NEW next, client' = [client EXCEPT ![d].at = next, ![d].down = "none"]
        PROVE  /\ \A e \in Devices : e # d => client'[e] = client[e]
               /\ client'[d] = client[d] \/ client'[d].down = "none"
    BY <1>3, <2>2, <2>4 DEF Clients
  <2> QED
    BY <1>3, <2>1, <2>2, <2>3, <2>4 DEF Idle
<1>6. trusts' \subseteq paired' \cup lost'
  <2>1. \/ trusts' \subseteq trusts
        \/ /\ Got(d, "verdict", "ok")
           /\ trusts' = IF client[d].pin # 0 THEN trusts \cup {d} ELSE trusts
    BY <1>2 DEF DialKnown, DialPair, ForgetHost, DialLegacy, Client, ClientReads, SeesClose, GivesUp, Connect
  <2> QED
    BY <1>1, <2>1 DEF MutualInv, TrustIsMutual, Told, Got
<1>7. \A e \in Devices : Told(e)' /\ client'[e].pin # 0 => e \in paired' \cup lost'
  BY <1>1, <1>5 DEF MutualInv, Told
<1> QED
  BY <1>4, <1>6, <1>7 DEF MutualInv, TrustIsMutual

(* TrustIsMutual: whoever will reconnect by key was saved on the host's    *)
(* list before it was told so (accept_v2 remembers, then sends its         *)
(* verdict), unless it was forgotten there since or the save failed.       *)
THEOREM TrustShared == Spec => []TrustIsMutual
<1>1. Init => MutualInv
  BY DEF Init, MutualInv, TrustIsMutual, Told, Idle, Free, Serving
<1>2. LoopInv /\ MutualInv /\ [Next]_vars => MutualInv'
  <2> SUFFICES ASSUME LoopInv, MutualInv, [Next]_vars PROVE MutualInv'
    OBVIOUS
  <2> QED
    BY MutualReading, MutualHost, MutualClients DEF Next
<1>3. MutualInv => TrustIsMutual
  BY DEF MutualInv
<1> QED
  BY LoopInvariant, <1>1, <1>2, <1>3, PTL DEF Spec

-----------------------------------------------------------------------------
(* The loop implements PinGuard, as long as the host's process lasts (a    *)
(* new process starts with a new guard).                                   *)

OneProcess == restarts = 0 /\ LoopInv

(* A client's step leaves the loop where it is in the handshake.           *)
LEMMA ClientsApart ==
  ASSUME LoopInv, \/ \E d \in Current : DialKnown(d) \/ DialPair(d) \/ ForgetHost(d)
                  \/ \E d \in Legacy : DialLegacy(d)
                  \/ \E d \in Devices : Client(d)
  PROVE  UNCHANGED <<guard, now, testing, restarts>>
<1>1. UNCHANGED hostside
  BY DEF DialKnown, DialPair, ForgetHost, DialLegacy, Client, ClientReads, SeesClose, GivesUp, Connect
<1>2. host \in Hosts
  BY DEF LoopInv, Shapes
<1>3. host'.at = host.at
  <2>1. \/ host' = host
        \/ \E d \in Devices : host' = [host EXCEPT !.conn = Left(conn, d)]
        \/ \E message \in Messages : host' = [host EXCEPT !.conn.up = message]
    BY DEF DialKnown, DialPair, ForgetHost, DialLegacy, Client, ClientReads, SeesClose, GivesUp,
           Connect, Leave, Reply, Messages
  <2> QED
    BY <1>2, <2>1 DEF Hosts
<1> QED
  BY <1>1, <1>3 DEF hostside, testing

(* Where an answer, or a dropped connection, leaves the loop.              *)
LEMMA AnswerAt ==
  ASSUME NEW reply, NEW at, NEW list, Answer(reply, at, list) PROVE host'.at = at
BY DEF Answer, Serving

LEMMA DropAt == ASSUME NEW reply, Drop(reply) PROVE host'.at = "accept"
BY DEF Drop, Free, Serving

LEMMA GuardStep == OneProcess /\ MaxRestarts = 0 /\ [Next]_vars => [PG!Next]_(PG!vars)
<1> SUFFICES ASSUME OneProcess, MaxRestarts = 0, [Next]_vars PROVE [PG!Next]_(PG!vars)
  OBVIOUS
<1> USE DEF PG!Next, PG!vars
<1>1. CASE Refuse
  BY <1>1 DEF Refuse, PG!Refuse, testing, Handshaking, world
<1>2. CASE Admit
  BY <1>2 DEF Admit, PG!Admit, testing, Handshaking, Serving, world
<1>3. ASSUME WrongPin, testing, UNCHANGED now PROVE PG!WrongPin
  BY <1>3 DEF WrongPin, Drop, Free, Serving, PG!WrongPin, testing, Handshaking
<1>4. CASE ReadOpening
  <2>1. testing /\ UNCHANGED now
    BY <1>4 DEF ReadOpening, testing, Handshaking, world
  <2>2. \/ WrongPin
        \/ UNCHANGED guard /\ host'.at \in {"proof", "key", "hello"}
    <3>1. \/ Answer("go", "proof", paired) /\ UNCHANGED guard
          \/ Answer("go", "key", paired) /\ UNCHANGED guard
          \/ Answer("reply", "hello", {}) /\ UNCHANGED guard
          \/ WrongPin
          \/ host' = Serving(conn, "hello", {}) /\ UNCHANGED guard
      BY <1>4 DEF ReadOpening
    <3> QED
      BY <3>1, AnswerAt DEF Serving
  <2> QED
    BY <1>3, <2>1, <2>2 DEF testing, Handshaking
<1>5. CASE ReadProof
  <2>1. testing /\ UNCHANGED now
    BY <1>5 DEF ReadProof, testing, Handshaking, world
  <2>2. WrongPin \/ (UNCHANGED guard /\ host'.at = "key")
    <3>1. WrongPin \/ (UNCHANGED guard /\ Answer("reply", "key", host.list))
      BY <1>5 DEF ReadProof
    <3> QED
      BY <3>1, AnswerAt
  <2> QED
    BY <1>3, <2>1, <2>2 DEF testing, Handshaking
<1>6. CASE ReadKey
  <2>1. testing /\ UNCHANGED <<now, guard>> /\ host'.at \in {"accept", "hello"}
    <3>1. Answer("ok", "hello", host.list) \/ Drop("notpaired")
      BY <1>6 DEF ReadKey
    <3>2. testing /\ UNCHANGED <<now, guard>>
      BY <1>6 DEF ReadKey, testing, Handshaking, world
    <3> QED
      BY <3>1, <3>2, AnswerAt, DropAt
  <2> QED
    BY <2>1 DEF testing, Handshaking, PG!NothingTested
<1>7. CASE ReadHello
  <2>1. testing /\ UNCHANGED now
    BY <1>7 DEF ReadHello, testing, Handshaking, world
  <2>2. WrongPin \/ (guard' = PG!record_success(guard) /\ host'.at \in {"accept", "session"})
    <3>1. \/ WrongPin
          \/ /\ guard' = PG!record_success(guard)
             /\ \/ host' = Serving([conn EXCEPT !.up = "none"], "session", {})
                \/ Drop("none")
      BY <1>7 DEF ReadHello
    <3> QED
      BY <3>1, DropAt DEF Serving
  <2> QED
    BY <1>3, <2>1, <2>2 DEF testing, Handshaking, PG!Accepted
<1>8. CASE Silence
  BY <1>8 DEF Silence, Drop, Free, Serving, testing, Handshaking, world, PG!NothingTested
<1>9. CASE SessionEnds
  BY <1>9 DEF SessionEnds, Drop, Free, Serving, testing, Handshaking, world
<1>10. CASE Restart
  BY <1>10 DEF Restart, OneProcess
<1>11. CASE ForgetAll \/ UNCHANGED vars
  BY <1>11 DEF ForgetAll, vars, testing
<1>12. CASE Tick
  BY <1>12 DEF Tick, PG!Tick, testing
<1>13. CASE \/ \E d \in Current : DialKnown(d) \/ DialPair(d) \/ ForgetHost(d)
            \/ \E d \in Legacy : DialLegacy(d)
            \/ \E d \in Devices : Client(d)
  BY <1>13, ClientsApart DEF OneProcess
<1> QED
  BY <1>1, <1>2, <1>4, <1>5, <1>6, <1>7, <1>8, <1>9, <1>10, <1>11, <1>12, <1>13 DEF Next, Reading

LEMMA ProcessStep == OneProcess /\ MaxRestarts = 0 /\ [Next]_vars => OneProcess'
<1> SUFFICES ASSUME OneProcess, MaxRestarts = 0, [Next]_vars PROVE OneProcess'
  OBVIOUS
<1>1. LoopInv'
  BY LoopNext DEF OneProcess
<1>2. UNCHANGED restarts
  <2>1. CASE Restart
    BY <2>1 DEF Restart, OneProcess
  <2>2. CASE \/ \E d \in Current : DialKnown(d) \/ DialPair(d) \/ ForgetHost(d)
             \/ \E d \in Legacy : DialLegacy(d)
             \/ \E d \in Devices : Client(d)
    BY <2>2, ClientsApart DEF OneProcess
  <2>3. CASE Refuse \/ Admit \/ Reading \/ Silence \/ SessionEnds
    BY <2>3 DEF Refuse, Admit, Reading, ReadOpening, ReadProof, ReadKey, ReadHello,
                Silence, SessionEnds, world
  <2>4. CASE ForgetAll \/ Tick \/ UNCHANGED vars
    BY <2>4 DEF ForgetAll, Tick, vars
  <2> QED
    BY <2>1, <2>2, <2>3, <2>4 DEF Next
<1> QED
  BY <1>1, <1>2 DEF OneProcess

(* GuardDiscipline: however many clients of whatever kind, the loop does   *)
(* with its guard what PinGuard says - asks before each handshake, reports *)
(* every PIN it has evaluated - so that PinGuard's theorems hold of it.    *)
THEOREM LoopImplementsGuard == MaxRestarts = 0 => (Spec => GuardDiscipline)
<1> SUFFICES ASSUME MaxRestarts = 0 PROVE Spec => GuardDiscipline
  OBVIOUS
<1>1. Init => OneProcess
  BY LoopStart DEF Init, OneProcess
<1>2. OneProcess /\ [Next]_vars => OneProcess'
  BY ProcessStep
<1>3. Init => PG!Init
  BY DEF Init, PG!Init, testing, Handshaking, Free, Serving
<1>4. OneProcess /\ [Next]_vars => [PG!Next]_(PG!vars)
  BY GuardStep
<1> QED
  BY <1>1, <1>2, <1>3, <1>4, PTL DEF Spec, GuardDiscipline, PG!Spec
=============================================================================

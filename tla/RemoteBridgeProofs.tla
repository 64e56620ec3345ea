--------------------------- MODULE RemoteBridgeProofs ---------------------------
(***************************************************************************)
(* Theorems of RemoteBridge, for any number of sessions, messages, units,  *)
(* any size of a frame and any room in the WebSocket: what the panel shows *)
(* and both ends read (BridgeSound), and that each direction implements    *)
(* Pipe, by the refinement mapping of RemoteBridge.                        *)
(***************************************************************************)
EXTENDS RemoteBridge, TLAPS

(* The numbers after a, up to b.                                           *)
Stretch(a, b) == [i \in 1 .. b - a |-> a + i]

LEMMA UpToNext == ASSUME NEW n \in Nat PROVE Append(UpTo(n), n + 1) = UpTo(n + 1) /\ UpTo(n) \in Seq(Nat)
  BY DEF UpTo

LEMMA UpToPart == ASSUME NEW n \in Nat, NEW k \in 0 .. n PROVE SubSeq(UpTo(n), 1, k) = UpTo(k) /\ Len(UpTo(n)) = n
  BY DEF UpTo

LEMMA UpToOn ==
  ASSUME NEW a \in Nat, NEW b \in Nat, a <= b
  PROVE  UpTo(a) \o Stretch(a, b) = UpTo(b) /\ Len(Stretch(a, b)) = b - a /\ Stretch(a, b) \in Seq(Nat)
  BY DEF UpTo, Stretch

LEMMA StretchNext ==
  ASSUME NEW a \in Nat, NEW b \in Nat, a <= b
  PROVE  Append(Stretch(a, b), b + 1) = Stretch(a, b + 1)
  BY DEF Stretch

LEMMA StretchParts ==
  ASSUME NEW a \in Nat, NEW b \in Nat, a <= b, NEW k \in 0 .. b - a
  PROVE  /\ SubSeq(Stretch(a, b), 1, k) = Stretch(a, a + k)
         /\ SubSeq(Stretch(a, b), k + 1, b - a) = Stretch(a + k, b)
  BY DEF Stretch

(* Types.                                                                  *)
Before == {"dial", "phase1", "paired", "caps", "route", "connect", "first"}
Points == Before \cup {"idle", "drain", "read", "write"}
Messages == [type : {"binary", "waiting", "paired", "peer-left"}, n : Nat]
Ups == [n : Nat, as : {"tunnel", "frames", "garbage"}]

Scalars ==
  /\ lan \in BOOLEAN /\ phase \in {"idle", "waiting", "connected"} /\ pc \in Points
  /\ relay \in {"none", "reframe", "passthrough"}
  /\ reader \in {"none", "reading", "sending", "ended"}
  /\ host \in {"none", "greeting", "talking", "gone"}
  /\ guest \in {"out", "deciding", "opening", "talking", "left"} /\ kind \in {"none", "secure", "plain"}
  /\ guestSent \in 0 .. UpMax /\ hostSent \in 0 .. DownMax

Types ==
  /\ Scalars
  /\ inbox \in Seq(Messages) /\ up \in Seq(Ups) /\ hostGot \in Seq(Nat)
  /\ down \in Seq(Nat) /\ chunk \in Seq(Nat) /\ chan \in Seq(Seq(Nat))
  /\ outbox \in Seq(Seq(Nat)) /\ guestGot \in Seq(Nat)

(* The panel and the bridge's thread, and how far each has come.            *)
Control ==
  /\ phase # "idle" <=> ~lan /\ pc # "idle"
  /\ pc \in {"dial", "phase1", "paired", "caps"} => ~lan
  /\ phase = "waiting" => pc \in {"dial", "phase1", "paired"}
  /\ phase = "connected" => pc \notin {"dial", "phase1"}
  /\ pc = "idle" \/ pc \in {"first", "drain", "read", "write"} \/ (sock = "none" /\ host = "none")
  /\ pc \in Before => reader = "none" /\ relay = "none"
  /\ pc \in {"paired", "caps", "route", "connect", "first", "drain", "read", "write"} => guest # "out"
  /\ \A i \in 1 .. Len(inbox) : inbox[i].type = "paired" => guest # "out"
  /\ pc = "dial" => guest = "out"
  /\ guest \in {"out", "deciding"} => guestSent = 0 /\ kind = "none"
  /\ guestSent > 0 => kind # "none"
  /\ guest \in {"opening", "talking"} => kind # "none"
  /\ pc \in {"first", "drain", "read", "write"} => host # "none"
  /\ pc = "first" => host # "talking" /\ up = <<>>
  /\ host \in {"none", "greeting"} => hostSent = 0 /\ hostGot = <<>> /\ heard = "none" /\ down = <<>>
  /\ host = "none" => up = <<>>
  /\ pc = "first" => hostGot = <<>>
  /\ host = "gone" => up = <<>>
  /\ reader = "none" => chan = <<>> /\ chunk = <<>>
  /\ reader # "sending" => chunk = <<>>
  /\ hostGot = <<>> => heard = "none"
  /\ pc = "write" => inbox # <<>> /\ Head(inbox).type = "binary"

(* What a step of the pump comes to: it relays a message, is over, or has  *)
(* skipped a signal or found nothing.                                      *)
LEMMA ReadCases ==
  ASSUME Control, Read \/ Write
  PROVE  /\ pc \in {"read", "write"} /\ UNCHANGED <<lan, outbox, reader, chunk, down, ends, visitor>>
         /\ \/ /\ inbox # <<>> /\ Head(inbox).type = "binary" /\ inbox' = Tail(inbox)
               /\ pc' = "drain" /\ UNCHANGED <<phase, relay, chan, sock>>
               /\ up' = IF host = "gone" THEN up ELSE Append(up, upstream(relay, Head(inbox).n))
            \/ /\ pc' = "idle" /\ phase' = "idle" /\ chan' = <<>> /\ UNCHANGED <<up, relay>>
               /\ \/ UNCHANGED inbox
                  \/ inbox # <<>> /\ inbox' = Tail(inbox) /\ host = "gone"
            \/ /\ pc' \in {"drain", "write"} /\ UNCHANGED <<up, phase, relay, chan, sock>>
               /\ \/ UNCHANGED inbox
                  \/ inbox # <<>> /\ inbox' = Tail(inbox) /\ Head(inbox).type # "binary"
         /\ pc' = "write" => inbox' # <<>> /\ Head(inbox').type = "binary"
<1>1. CASE Read
  BY <1>1 DEF Read, Ended, Over, panel, web, ends, visitor
<1>2. CASE Write
  <2>1. inbox # <<>> /\ Head(inbox).type = "binary"
    BY <1>2 DEF Control, Write
  <2> QED BY <1>2, <2>1 DEF Write, Written, WriteFails, panel, web, ends, visitor
<1> QED BY <1>1, <1>2

LEMMA DrainCases ==
  ASSUME Drain
  PROVE  /\ pc = "drain" /\ UNCHANGED <<lan, inbox, relay, reader, chunk, up, down, ends, visitor>>
         /\ \/ chan # <<>> /\ outbox' = Append(outbox, Head(chan)) /\ chan' = Tail(chan) /\ UNCHANGED <<phase, pc, sock>>
            \/ pc' = "idle" /\ phase' = "idle" /\ chan' = <<>> /\ UNCHANGED outbox
            \/ pc' = "read" /\ UNCHANGED <<phase, outbox, chan, sock>>
  BY DEF Drain, Over, panel, bridge, web, ends, visitor

LEMMA Phase1Cases ==
  ASSUME Phase1
  PROVE  /\ pc = "phase1" /\ UNCHANGED <<lan, outbox, relay, reader, chunk, chan, up, down, ends, visitor>>
         /\ \/ /\ inbox # <<>> /\ inbox' = Tail(inbox) /\ UNCHANGED <<phase, sock>>
               /\ pc' = IF Head(inbox).type = "paired" THEN "paired" ELSE "phase1"
            \/ pc' = "idle" /\ phase' = "idle" /\ UNCHANGED inbox
  BY DEF Phase1, Over, panel, bridge, web, ends, visitor

LEMMA FirstCases ==
  ASSUME First
  PROVE  /\ pc = "first" /\ UNCHANGED <<lan, outbox, chan, chunk, down, ends, visitor>>
         /\ \/ /\ inbox # <<>> /\ Head(inbox).type = "binary" /\ inbox' = Tail(inbox)
               /\ pc' = "drain" /\ reader' = "reading" /\ UNCHANGED <<phase, sock>>
               /\ relay' = for_first_message(Head(inbox).n)
               /\ up' = IF host = "gone" THEN up ELSE Append(up, upstream(relay', Head(inbox).n))
            \/ /\ pc' = "idle" /\ phase' = "idle" /\ UNCHANGED <<up, reader>>
               /\ \/ UNCHANGED inbox /\ UNCHANGED relay
                  \/ /\ inbox # <<>> /\ inbox' = Tail(inbox) /\ host = "gone"
                     /\ relay' = for_first_message(Head(inbox).n)
            \/ /\ pc' = "first" /\ UNCHANGED <<up, phase, relay, reader, sock>>
               /\ inbox # <<>> /\ inbox' = Tail(inbox) /\ Head(inbox).type # "binary"
  BY DEF First, Written, WriteFails, Ended, Over, panel, bridge, ends, visitor

LEMMA SeqFacts ==
  ASSUME NEW S, NEW q \in Seq(S)
  PROVE  /\ q # <<>> => Head(q) \in S /\ Tail(q) \in Seq(S)
         /\ \A x \in S : Append(q, x) \in Seq(S)
         /\ \A k \in 0 .. Len(q) : SubSeq(q, 1, k) \in Seq(S) /\ SubSeq(q, k + 1, Len(q)) \in Seq(S)
         /\ \A r \in Seq(S) : q \o r \in Seq(S)
  OBVIOUS

LEMMA SeqTypes ==
  ASSUME Types
  PROVE  /\ inbox # <<>> => Head(inbox) \in Messages /\ Tail(inbox) \in Seq(Messages)
         /\ \A m \in Messages : Append(inbox, m) \in Seq(Messages) /\ <<m>> \in Seq(Messages)
         /\ up # <<>> => Head(up) \in Ups /\ Tail(up) \in Seq(Ups)
         /\ \A m \in Messages, r \in {"none", "reframe", "passthrough"} : Append(up, upstream(r, m.n)) \in Seq(Ups)
         /\ up # <<>> => Append(hostGot, Head(up).n) \in Seq(Nat)
         /\ Append(down, hostSent + 1) \in Seq(Nat)
         /\ \A k \in 0 .. Len(down) : SubSeq(down, 1, k) \in Seq(Nat) /\ SubSeq(down, k + 1, Len(down)) \in Seq(Nat)
         /\ chan # <<>> => Head(chan) \in Seq(Nat) /\ Tail(chan) \in Seq(Seq(Nat))
         /\ Append(chan, chunk) \in Seq(Seq(Nat))
         /\ outbox # <<>> => Tail(outbox) \in Seq(Seq(Nat)) /\ guestGot \o Head(outbox) \in Seq(Nat)
         /\ \A m \in Seq(Nat) : Append(outbox, m) \in Seq(Seq(Nat))
         /\ \A n \in Nat : Binary(n) \in Messages
         /\ Signal("waiting") \in Messages /\ Signal("paired") \in Messages /\ Signal("peer-left") \in Messages
         /\ CAPS_SIGNAL \in Seq(Nat) /\ <<>> \in Seq(Seq(Nat))
  <1>1. \A n \in Nat : Binary(n) \in Messages
    BY DEF Binary, Messages
  <1>2. Signal("waiting") \in Messages /\ Signal("paired") \in Messages /\ Signal("peer-left") \in Messages
    BY DEF Signal, Messages
  <1>3. inbox # <<>> => Head(inbox) \in Messages /\ Tail(inbox) \in Seq(Messages)
    BY SeqFacts DEF Types
  <1>4. \A m \in Messages : Append(inbox, m) \in Seq(Messages) /\ <<m>> \in Seq(Messages)
    BY SeqFacts DEF Types
  <1>5. up # <<>> => Head(up) \in Ups /\ Tail(up) \in Seq(Ups)
    BY SeqFacts DEF Types
  <1>6. \A m \in Messages, r \in {"none", "reframe", "passthrough"} : Append(up, upstream(r, m.n)) \in Seq(Ups)
    <2>1. \A m \in Messages, r \in {"none", "reframe", "passthrough"} : upstream(r, m.n) \in Ups
      BY DEF Messages, Ups, upstream
    <2> QED BY <2>1, SeqFacts DEF Types
  <1>7. up # <<>> => Append(hostGot, Head(up).n) \in Seq(Nat)
    <2>1. up # <<>> => Head(up).n \in Nat
      BY <1>5 DEF Ups
    <2> QED BY <2>1, SeqFacts DEF Types
  <1>8. Append(down, hostSent + 1) \in Seq(Nat)
    <2>1. hostSent + 1 \in Nat
      BY BridgeAssumption DEF Types, Scalars
    <2> QED BY <2>1, SeqFacts DEF Types
  <1>9. \A k \in 0 .. Len(down) : SubSeq(down, 1, k) \in Seq(Nat) /\ SubSeq(down, k + 1, Len(down)) \in Seq(Nat)
    BY SeqFacts DEF Types
  <1>10. chan # <<>> => Head(chan) \in Seq(Nat) /\ Tail(chan) \in Seq(Seq(Nat))
    BY SeqFacts DEF Types
  <1>11. Append(chan, chunk) \in Seq(Seq(Nat))
    BY SeqFacts DEF Types
  <1>12. outbox # <<>> => Tail(outbox) \in Seq(Seq(Nat)) /\ guestGot \o Head(outbox) \in Seq(Nat)
    <2>1. outbox # <<>> => Head(outbox) \in Seq(Nat) /\ Tail(outbox) \in Seq(Seq(Nat))
      BY SeqFacts DEF Types
    <2> QED BY <2>1, SeqFacts DEF Types
  <1>13. \A m \in Seq(Nat) : Append(outbox, m) \in Seq(Seq(Nat))
    BY SeqFacts DEF Types
  <1>14. CAPS_SIGNAL \in Seq(Nat) /\ <<>> \in Seq(Seq(Nat))
    BY DEF CAPS_SIGNAL
  <1> QED BY <1>1, <1>2, <1>3, <1>4, <1>5, <1>6, <1>7, <1>8, <1>9, <1>10, <1>11, <1>12, <1>13, <1>14

LEMMA TypesInit == Init => Types /\ Control
  BY BridgeAssumption DEF Init, Types, Scalars, Control, Before, Points

LEMMA TypesStep == Types /\ Control /\ [Next]_vars => Types'
  <1> SUFFICES ASSUME Types, Control, [Next]_vars PROVE Types'
    OBVIOUS
  <1> USE BridgeAssumption DEF bridge, panel, tcp, ends, visitor, web
  <1>1. CASE Enable
    <2>1. Scalars'
      BY <1>1 DEF Enable, Fresh, Types, Scalars, Before, for_first_message, Points
    <2> QED BY <1>1, <2>1 DEF Enable, Fresh, Types
  <1>2. CASE Upgrade
    <2>1. Scalars'
      BY <1>2 DEF Upgrade, Fresh, Types, Scalars, Before, for_first_message, Points
    <2> QED BY <1>2, <2>1 DEF Upgrade, Fresh, Types
  <1>3. CASE Dial
    <2>1. Scalars'
      BY <1>3, SMTT(30) DEF Dial, Over, Dropped, Signal, Types, Scalars, Before, for_first_message, Points
    <2>2. inbox' \in Seq(Messages)
      BY <1>3, SeqTypes DEF Dial, Over, Dropped, Types, Scalars
    <2>3. UNCHANGED <<up, hostGot, down, chunk, chan, outbox, guestGot>>
      BY <1>3 DEF Dial, Over, Dropped, Signal
    <2> QED BY <2>1, <2>2, <2>3 DEF Types
  <1>4. CASE Phase1
    <2>1. Scalars'
      BY <1>4, Phase1Cases DEF bridge, panel, tcp, ends, visitor, web, Types, Scalars, Before, for_first_message, Points
    <2>2. inbox' \in Seq(Messages)
      BY <1>4, SeqTypes, Phase1Cases DEF bridge, panel, tcp, ends, visitor, web, Types, Scalars
    <2>3. UNCHANGED <<up, hostGot, down, chunk, chan, outbox, guestGot>>
      BY <1>4, Phase1Cases DEF bridge, panel, tcp, ends, visitor, web
    <2> QED BY <2>1, <2>2, <2>3 DEF Types
  <1>5. CASE OnPaired
    <2>1. Scalars'
      BY <1>5 DEF OnPaired, Types, Scalars, Before, for_first_message, Points
    <2>2. UNCHANGED <<inbox, up, hostGot, down, chunk, chan, outbox, guestGot>>
      BY <1>5 DEF OnPaired
    <2> QED BY <2>1, <2>2 DEF Types
  <1>6. CASE SendCaps
    <2>1. Scalars'
      BY <1>6, SMTT(30) DEF SendCaps, Over, Dropped, CAPS_SIGNAL, Types, Scalars, Before, for_first_message, Points
    <2>2. outbox' \in Seq(Seq(Nat))
      BY <1>6, SeqTypes DEF SendCaps, Over, Dropped, Types
    <2>3. UNCHANGED <<inbox, up, hostGot, down, chunk, chan, guestGot>>
      BY <1>6 DEF SendCaps, Over, Dropped, CAPS_SIGNAL
    <2> QED BY <2>1, <2>2, <2>3 DEF Types
  <1>7. CASE Route
    <2>1. Scalars'
      BY <1>7, SMTT(30) DEF Route, Over, Dropped, Types, Scalars, Before, for_first_message, Points
    <2>2. UNCHANGED <<inbox, up, hostGot, down, chunk, chan, outbox, guestGot>>
      BY <1>7 DEF Route, Over, Dropped
    <2> QED BY <2>1, <2>2 DEF Types
  <1>8. CASE Connect
    <2>1. Scalars'
      BY <1>8 DEF Connect, Over, Dropped, Types, Scalars, Before, for_first_message, Points
    <2>2. UNCHANGED <<inbox, up, hostGot, down, chunk, chan, outbox, guestGot>>
      BY <1>8 DEF Connect, Over, Dropped
    <2> QED BY <2>1, <2>2 DEF Types
  <1>9. CASE First
    <2>1. Scalars'
      BY <1>9, FirstCases DEF bridge, panel, tcp, ends, visitor, web, Types, Scalars, Before, for_first_message, Points
    <2>2. inbox' \in Seq(Messages)
      BY <1>9, SeqTypes, FirstCases DEF bridge, panel, tcp, ends, visitor, web, Types, Scalars
    <2>3. up' \in Seq(Ups)
      BY <1>9, SeqTypes, FirstCases DEF bridge, panel, tcp, ends, visitor, web, Types, Scalars, for_first_message
    <2>4. UNCHANGED <<hostGot, down, chunk, chan, outbox, guestGot>>
      BY <1>9, FirstCases DEF bridge, panel, tcp, ends, visitor, web
    <2> QED BY <2>1, <2>2, <2>3, <2>4 DEF Types
  <1>10. CASE Drain
    <2>1. Scalars'
      BY <1>10, DrainCases, SMTT(30) DEF bridge, panel, tcp, ends, visitor, web, Types, Scalars, Before, for_first_message, Points
    <2>2. outbox' \in Seq(Seq(Nat))
      BY <1>10, SeqTypes, DrainCases DEF bridge, panel, tcp, ends, visitor, web, Types
    <2>3. chan' \in Seq(Seq(Nat))
      BY <1>10, SeqTypes, DrainCases DEF bridge, panel, tcp, ends, visitor, web, Types
    <2>4. UNCHANGED <<inbox, up, hostGot, down, chunk, guestGot>>
      BY <1>10, DrainCases DEF bridge, panel, tcp, ends, visitor, web
    <2> QED BY <2>1, <2>2, <2>3, <2>4 DEF Types
  <1>11. CASE Read \/ Write
    <2>1. Scalars'
      <3>1. pc' \in {"idle", "drain", "write"} /\ phase' \in {phase, "idle"} /\ UNCHANGED relay
        BY <1>11, ReadCases
      <3>2. UNCHANGED <<lan, reader, host, guest, kind, guestSent, hostSent>>
        BY <1>11, ReadCases DEF ends, visitor
      <3> QED BY <3>1, <3>2 DEF Types, Scalars, Points
    <2>2. inbox' \in Seq(Messages)
      BY <1>11, SeqTypes, ReadCases DEF bridge, panel, tcp, ends, visitor, web, Types, Scalars
    <2>3. up' \in Seq(Ups)
      BY <1>11, SeqTypes, ReadCases DEF bridge, panel, tcp, ends, visitor, web, Types, Scalars, for_first_message
    <2>4. chan' \in Seq(Seq(Nat))
      BY <1>11, SeqTypes, ReadCases DEF bridge, panel, tcp, ends, visitor, web, Types
    <2>5. UNCHANGED <<hostGot, down, chunk, outbox, guestGot>>
      BY <1>11, ReadCases DEF bridge, panel, tcp, ends, visitor, web
    <2> QED BY <2>1, <2>2, <2>3, <2>4, <2>5 DEF Types
  <1>12. CASE ReaderReads
    <2>1. Scalars'
      BY <1>12 DEF ReaderReads, Types, Scalars, Before, for_first_message, Points
    <2>2. chunk' \in Seq(Nat)
      BY <1>12, SeqTypes DEF ReaderReads, Types
    <2>3. down' \in Seq(Nat)
      BY <1>12, SeqTypes DEF ReaderReads, Types
    <2>4. UNCHANGED <<inbox, up, hostGot, chan, outbox, guestGot>>
      BY <1>12 DEF ReaderReads
    <2> QED BY <2>1, <2>2, <2>3, <2>4 DEF Types
  <1>13. CASE ReaderEnds
    <2>1. Scalars'
      BY <1>13 DEF ReaderEnds, Types, Scalars, Before, for_first_message, Points
    <2>2. UNCHANGED <<inbox, up, hostGot, down, chunk, chan, outbox, guestGot>>
      BY <1>13 DEF ReaderEnds
    <2> QED BY <2>1, <2>2 DEF Types
  <1>14. CASE ReaderSends
    <2>1. Scalars'
      BY <1>14 DEF ReaderSends, Types, Scalars, Before, for_first_message, Points
    <2>2. chunk' \in Seq(Nat)
      BY <1>14, SeqTypes DEF ReaderSends, Types
    <2>3. chan' \in Seq(Seq(Nat))
      BY <1>14, SeqTypes DEF ReaderSends, Types
    <2>4. UNCHANGED <<inbox, up, hostGot, down, outbox, guestGot>>
      BY <1>14 DEF ReaderSends
    <2> QED BY <2>1, <2>2, <2>3, <2>4 DEF Types
  <1>15. CASE HostReads
    <2>1. Scalars'
      BY <1>15 DEF HostReads, Types, Scalars, Before, for_first_message, Points
    <2>2. up' \in Seq(Ups)
      BY <1>15, SeqTypes DEF HostReads, Types, Scalars, for_first_message
    <2>3. hostGot' \in Seq(Nat)
      BY <1>15, SeqTypes DEF HostReads, Types
    <2>4. UNCHANGED <<inbox, down, chunk, chan, outbox, guestGot>>
      BY <1>15 DEF HostReads
    <2> QED BY <2>1, <2>2, <2>3, <2>4 DEF Types
  <1>16. CASE HostSends
    <2>1. Scalars'
      BY <1>16 DEF HostSends, Types, Scalars, Before, for_first_message, Points
    <2>2. down' \in Seq(Nat)
      BY <1>16, SeqTypes DEF HostSends, Types
    <2>3. UNCHANGED <<inbox, up, hostGot, chunk, chan, outbox, guestGot>>
      BY <1>16 DEF HostSends
    <2> QED BY <2>1, <2>2, <2>3 DEF Types
  <1>17. CASE HostEnds
    <2>1. Scalars'
      BY <1>17 DEF HostEnds, HostCloses, Types, Scalars, Before, for_first_message, Points
    <2>2. up' \in Seq(Ups)
      BY <1>17, SeqTypes DEF HostEnds, HostCloses, Types, Scalars, for_first_message
    <2>3. down' \in Seq(Nat)
      BY <1>17, SeqTypes DEF HostEnds, HostCloses, Types
    <2>4. UNCHANGED <<inbox, hostGot, chunk, chan, outbox, guestGot>>
      BY <1>17 DEF HostEnds, HostCloses
    <2> QED BY <2>1, <2>2, <2>3, <2>4 DEF Types
  <1>18. CASE HostTimesOut
    <2>1. Scalars'
      BY <1>18 DEF HostTimesOut, HostCloses, Types, Scalars, Before, for_first_message, Points
    <2>2. up' \in Seq(Ups)
      BY <1>18, SeqTypes DEF HostTimesOut, HostCloses, Types, Scalars, for_first_message
    <2>3. down' \in Seq(Nat)
      BY <1>18, SeqTypes DEF HostTimesOut, HostCloses, Types
    <2>4. UNCHANGED <<inbox, hostGot, chunk, chan, outbox, guestGot>>
      BY <1>18 DEF HostTimesOut, HostCloses
    <2> QED BY <2>1, <2>2, <2>3, <2>4 DEF Types
  <1>19. CASE HostSeesEnd
    <2>1. Scalars'
      BY <1>19 DEF HostSeesEnd, HostCloses, Types, Scalars, Before, for_first_message, Points
    <2>2. up' \in Seq(Ups)
      BY <1>19, SeqTypes DEF HostSeesEnd, HostCloses, Types, Scalars, for_first_message
    <2>3. down' \in Seq(Nat)
      BY <1>19, SeqTypes DEF HostSeesEnd, HostCloses, Types
    <2>4. UNCHANGED <<inbox, hostGot, chunk, chan, outbox, guestGot>>
      BY <1>19 DEF HostSeesEnd, HostCloses
    <2> QED BY <2>1, <2>2, <2>3, <2>4 DEF Types
  <1>20. CASE GuestJoins
    <2>1. Scalars'
      BY <1>20 DEF GuestJoins, Signal, Types, Scalars, Before, for_first_message, Points
    <2>2. inbox' \in Seq(Messages)
      BY <1>20, SeqTypes DEF GuestJoins, Types, Scalars
    <2>3. UNCHANGED <<up, hostGot, down, chunk, chan, outbox, guestGot>>
      BY <1>20 DEF GuestJoins, Signal
    <2> QED BY <2>1, <2>2, <2>3 DEF Types
  <1>21. CASE GuestDecides
    <2>1. Scalars'
      BY <1>21 DEF GuestDecides, Binary, Types, Scalars, Before, for_first_message, Points
    <2>2. inbox' \in Seq(Messages)
      BY <1>21, SeqTypes DEF GuestDecides, Types, Scalars
    <2>3. UNCHANGED <<up, hostGot, down, chunk, chan, outbox, guestGot>>
      BY <1>21 DEF GuestDecides, Binary
    <2> QED BY <2>1, <2>2, <2>3 DEF Types
  <1>22. CASE GuestSends
    <2>1. Scalars'
      BY <1>22 DEF GuestSends, Binary, Types, Scalars, Before, for_first_message, Points
    <2>2. inbox' \in Seq(Messages)
      BY <1>22, SeqTypes DEF GuestSends, Types, Scalars
    <2>3. UNCHANGED <<up, hostGot, down, chunk, chan, outbox, guestGot>>
      BY <1>22 DEF GuestSends, Binary
    <2> QED BY <2>1, <2>2, <2>3 DEF Types
  <1>23. CASE GuestReads
    <2>1. Scalars'
      BY <1>23 DEF GuestReads, CAPS_SIGNAL, Types, Scalars, Before, for_first_message, Points
    <2>2. outbox' \in Seq(Seq(Nat))
      BY <1>23, SeqTypes DEF GuestReads, Types
    <2>3. guestGot' \in Seq(Nat)
      BY <1>23, SeqTypes DEF GuestReads, Types
    <2>4. UNCHANGED <<inbox, up, hostGot, down, chunk, chan>>
      BY <1>23 DEF GuestReads, CAPS_SIGNAL
    <2> QED BY <2>1, <2>2, <2>3, <2>4 DEF Types
  <1>24. CASE GuestLeaves
    <2>1. Scalars'
      BY <1>24 DEF GuestLeaves, Signal, Types, Scalars, Before, for_first_message, Points
    <2>2. inbox' \in Seq(Messages)
      BY <1>24, SeqTypes DEF GuestLeaves, Types, Scalars
    <2>3. UNCHANGED <<up, hostGot, down, chunk, chan, outbox, guestGot>>
      BY <1>24 DEF GuestLeaves, Signal
    <2> QED BY <2>1, <2>2, <2>3 DEF Types
  <1>25. CASE Relisten
    <2>1. Scalars'
      BY <1>25 DEF Relisten, Types, Scalars, Before, for_first_message, Points
    <2>2. UNCHANGED <<inbox, up, hostGot, down, chunk, chan, outbox, guestGot>>
      BY <1>25 DEF Relisten
    <2> QED BY <2>1, <2>2 DEF Types
  <1>26. CASE RoomExpires
    <2>1. Scalars'
      BY <1>26 DEF RoomExpires, Types, Scalars, Before, for_first_message, Points
    <2>2. UNCHANGED <<inbox, up, hostGot, down, chunk, chan, outbox, guestGot>>
      BY <1>26 DEF RoomExpires
    <2> QED BY <2>1, <2>2 DEF Types
  <1>27. CASE Cut
    <2>1. Scalars'
      BY <1>27 DEF Cut, Types, Scalars, Before, for_first_message, Points
    <2>2. UNCHANGED <<inbox, up, hostGot, down, chunk, chan, outbox, guestGot>>
      BY <1>27 DEF Cut
    <2> QED BY <2>1, <2>2 DEF Types
  <1>28. CASE UNCHANGED vars
    BY <1>28 DEF vars, Types, Scalars
  <1> QED BY <1>1, <1>2, <1>3, <1>4, <1>5, <1>6, <1>7, <1>8, <1>9, <1>10, <1>11, <1>12, <1>13, <1>14, <1>15, <1>16, <1>17, <1>18, <1>19, <1>20, <1>21, <1>22, <1>23, <1>24, <1>25, <1>26, <1>27, <1>28 DEF Next, Bridge, Reader, Host, Guest

(* What arrives later does not change what is read next.                   *)
LEMMA HeadKept ==
  ASSUME inbox \in Seq(Messages), inbox # <<>>,
         inbox' = inbox \/ \E m \in Messages : inbox' = Append(inbox, m)
  PROVE  inbox' # <<>> /\ Head(inbox') = Head(inbox)
<1>1. CASE inbox' = inbox
  BY <1>1
<1>2. ASSUME NEW m \in Messages, inbox' = Append(inbox, m) PROVE inbox' # <<>> /\ Head(inbox') = Head(inbox)
  <2>1. Len(inbox') = Len(inbox) + 1 /\ Len(inbox) \in Nat /\ Len(inbox) > 0 /\ inbox'[1] = inbox[1]
    BY <1>2
  <2> QED BY <1>2, <2>1
<1> QED BY <1>1, <1>2

LEMMA ControlStep == Types /\ Control /\ [Next]_vars => Control'
  <1> SUFFICES ASSUME Types, Control, [Next]_vars PROVE Control'
    OBVIOUS
  <1> USE BridgeAssumption DEF Types, Scalars, Control, bridge, panel, tcp, ends, visitor, web
  <1>1. CASE Enable
    BY <1>1 DEF Enable, Fresh, Messages, Ups, Before, Points
  <1>2. CASE Upgrade
    BY <1>2 DEF Upgrade, Fresh, Messages, Ups, Before, Points
  <1>3. CASE Dial
    BY <1>3, SMTT(30) DEF Dial, Over, Dropped, Signal, Messages, Ups, Before, Points
  <1>4. CASE Phase1
    <2>1. CASE /\ inbox # <<>> /\ inbox' = Tail(inbox) /\ UNCHANGED <<phase, sock>>
               /\ pc' = IF Head(inbox).type = "paired" THEN "paired" ELSE "phase1"
      <3>1. /\ \A i \in 1 .. Len(inbox') : inbox'[i] = inbox[i + 1] /\ i + 1 \in 1 .. Len(inbox)
            /\ Head(inbox) = inbox[1] /\ 1 \in 1 .. Len(inbox)
        BY <2>1, SMTT(30) DEF Messages
      <3>2. pc' \in {"phase1", "paired"} /\ (pc' = "paired" => guest # "out")
        BY <2>1, <3>1
      <3> QED BY <1>4, Phase1Cases, <2>1, <3>1, <3>2 DEF Before
    <2>2. CASE pc' = "idle" /\ phase' = "idle" /\ UNCHANGED inbox
      BY <1>4, Phase1Cases, <2>2 DEF Before
    <2> QED BY <1>4, <2>1, <2>2, Phase1Cases
  <1>5. CASE OnPaired
    BY <1>5 DEF OnPaired, Messages, Ups, Before, Points
  <1>6. CASE SendCaps
    BY <1>6 DEF SendCaps, Over, Dropped, CAPS_SIGNAL, Messages, Ups, Before, Points
  <1>7. CASE Route
    BY <1>7 DEF Route, Over, Dropped, Messages, Ups, Before, Points
  <1>8. CASE Connect
    BY <1>8 DEF Connect, Over, Dropped, Messages, Ups, Before, Points
  <1>9. CASE First
    BY <1>9 DEF First, Over, Dropped, Ended, Shutdown, Written, WriteFails, Messages, Ups, Before, Points
  <1>10. CASE Drain
    BY <1>10, ZenonT(30) DEF Drain, Over, Dropped, Messages, Ups, Before, Points
  <1>11. CASE Read \/ Write
    <2>1. CASE Read
      BY <2>1, ZenonT(30) DEF Read, Over, Dropped, Ended, Shutdown, Messages, Ups, Before, Points
    <2>2. CASE Write
      <3>1. pc = "write" /\ pc' \in {"idle", "drain"} /\ inbox # <<>> /\ inbox' = Tail(inbox)
        BY <2>2 DEF Write, Written, WriteFails
      <3>2. \A i \in 1 .. Len(inbox') : inbox'[i] = inbox[i + 1] /\ i + 1 \in 1 .. Len(inbox)
        BY <3>1
      <3>3. /\ UNCHANGED <<lan, reader, chunk, down, ends, visitor, relay>>
            /\ \/ pc' = "drain" /\ UNCHANGED <<phase, chan, sock>> /\ (host = "gone" => UNCHANGED up)
               \/ pc' = "idle" /\ phase' = "idle" /\ chan' = <<>> /\ UNCHANGED up
        BY <2>2 DEF Write, Written, WriteFails
      <3> QED BY <3>1, <3>2, <3>3 DEF Before
    <2> QED BY <1>11, <2>1, <2>2
  <1>12. CASE ReaderReads
    BY <1>12 DEF ReaderReads, Messages, Ups, Before, Points
  <1>13. CASE ReaderEnds
    BY <1>13 DEF ReaderEnds, Messages, Ups, Before, Points
  <1>14. CASE ReaderSends
    BY <1>14 DEF ReaderSends, Messages, Ups, Before, Points
  <1>15. CASE HostReads
    <2>1. pc # "first" /\ host \in {"greeting", "talking"}
      BY <1>15 DEF HostReads
    <2>2. hostGot' # <<>>
      <3>1. Len(hostGot') = Len(hostGot) + 1 /\ Len(hostGot) \in Nat
        BY <1>15 DEF HostReads
      <3> QED BY <3>1
    <2>3. up' = Tail(up) /\ up # <<>> /\ host' = "talking" /\ UNCHANGED <<lan, phase, pc, sock, reader, relay, inbox, guest, kind, guestSent, hostSent, chan, chunk>>
      BY <1>15 DEF HostReads
    <2> QED BY <2>1, <2>2, <2>3
  <1>16. CASE HostSends
    BY <1>16 DEF HostSends, Messages, Ups, Before, Points
  <1>17. CASE HostEnds
    BY <1>17 DEF HostEnds, HostCloses, Messages, Ups, Before, Points
  <1>18. CASE HostTimesOut
    BY <1>18 DEF HostTimesOut, HostCloses, Messages, Ups, Before, Points
  <1>19. CASE HostSeesEnd
    BY <1>19 DEF HostSeesEnd, HostCloses, Messages, Ups, Before, Points
  <1>20. CASE GuestJoins
    <2>1. inbox' = inbox \/ \E m \in Messages : inbox' = Append(inbox, m)
      BY <1>20 DEF GuestJoins, Signal, Messages
    <2>2. inbox # <<>> => inbox' # <<>> /\ Head(inbox') = Head(inbox)
      BY <2>1, HeadKept
    <2> QED BY <1>20, <2>2 DEF GuestJoins, Signal, Messages, Ups, Before, Points
  <1>21. CASE GuestDecides
    <2>1. inbox' = inbox \/ \E m \in Messages : inbox' = Append(inbox, m)
      BY <1>21 DEF GuestDecides, Binary, Messages
    <2>2. inbox # <<>> => inbox' # <<>> /\ Head(inbox') = Head(inbox)
      BY <2>1, HeadKept
    <2> QED BY <1>21, <2>2, ZenonT(30) DEF GuestDecides, Binary, Messages, Ups, Before, Points
  <1>22. CASE GuestSends
    <2>1. inbox' = inbox \/ \E m \in Messages : inbox' = Append(inbox, m)
      <3>1. guestSent + 1 \in 0 .. UpMax
        BY <1>22 DEF GuestSends
      <3>2. Binary(guestSent + 1) \in Messages
        BY <3>1 DEF Binary, Messages
      <3> QED BY <1>22, <3>2 DEF GuestSends
    <2>2. inbox # <<>> => inbox' # <<>> /\ Head(inbox') = Head(inbox)
      BY <2>1, HeadKept
    <2> QED BY <1>22, <2>2 DEF GuestSends, Binary, Messages, Ups, Before, Points
  <1>23. CASE GuestReads
    <2>1. /\ guest' = guest \/ (guest = "opening" /\ guest' = "talking")
          /\ UNCHANGED <<lan, phase, pc, sock, host, reader, relay, inbox, up, down, chan, chunk,
                        hostSent, hostGot, heard, kind, guestSent>>
      BY <1>23 DEF GuestReads
    <2>2. /\ pc' \in {"paired", "caps", "route", "connect", "first", "drain", "read", "write"} => guest' # "out"
          /\ \A i \in 1 .. Len(inbox') : inbox'[i].type = "paired" => guest' # "out"
          /\ pc' = "dial" => guest' = "out"
          /\ guest' \in {"out", "deciding"} => guestSent' = 0 /\ kind' = "none"
          /\ guest' \in {"opening", "talking"} => kind' # "none"
      BY <2>1
    <2> QED BY <2>1, <2>2
  <1>24. CASE GuestLeaves
    <2>1. inbox' = inbox \/ \E m \in Messages : inbox' = Append(inbox, m)
      BY <1>24 DEF GuestLeaves, Signal, Messages
    <2>2. inbox # <<>> => inbox' # <<>> /\ Head(inbox') = Head(inbox)
      BY <2>1, HeadKept
    <2> QED BY <1>24, <2>2, SMTT(30) DEF GuestLeaves, Signal, Messages, Ups, Before, Points
  <1>25. CASE Relisten
    BY <1>25 DEF Relisten, Messages, Ups, Before, Points
  <1>26. CASE RoomExpires
    BY <1>26 DEF RoomExpires, Messages, Ups, Before, Points
  <1>27. CASE Cut
    BY <1>27 DEF Cut, Messages, Ups, Before, Points
  <1>28. CASE UNCHANGED vars
    BY <1>28 DEF vars
  <1> QED BY <1>1, <1>2, <1>3, <1>4, <1>5, <1>6, <1>7, <1>8, <1>9, <1>10, <1>11, <1>12, <1>13, <1>14, <1>15, <1>16, <1>17, <1>18, <1>19, <1>20, <1>21, <1>22, <1>23, <1>24, <1>25, <1>26, <1>27, <1>28 DEF Next, Bridge, Reader, Host, Guest

-----------------------------------------------------------------------------
(* Upward.                                                                 *)

(* Between the signals at its two ends, at lo + 1 .. hi, a queue holds the *)
(* last messages up to n.                                                  *)
Lines(q, lo, hi, n) ==
  /\ lo \in Nat /\ hi \in Nat /\ lo <= hi /\ hi <= Len(q)
  /\ \A i \in 1 .. Len(q) : /\ q[i].type = "binary" <=> lo < i /\ i <= hi
                            /\ q[i].type = "binary" => q[i].n = n - (hi - i)

LEMMA LinesTail ==
  ASSUME NEW q \in Seq(Messages), q # <<>>, NEW lo, NEW hi, NEW n \in Nat, Lines(q, lo, hi, n)
  PROVE  /\ Head(q).type = "binary" => lo = 0 /\ hi > 0 /\ Head(q).n = n - (hi - 1) /\ Lines(Tail(q), 0, hi - 1, n)
         /\ Head(q).type # "binary" =>
              \E l, h \in Nat : Lines(Tail(q), l, h, n) /\ h - l = hi - lo /\ (hi = Len(q) => h = Len(Tail(q)))
  <1>1. /\ Len(q) \in Nat /\ Len(q) > 0 /\ Head(q) = q[1] /\ Len(Tail(q)) = Len(q) - 1
        /\ \A i \in 1 .. Len(q) - 1 : Tail(q)[i] = q[i + 1]
    OBVIOUS
  <1>2. ASSUME Head(q).type = "binary"
        PROVE  lo = 0 /\ hi > 0 /\ Head(q).n = n - (hi - 1) /\ Lines(Tail(q), 0, hi - 1, n)
    <2>1. lo = 0 /\ hi > 0 /\ Head(q).n = n - (hi - 1)
      BY <1>1, <1>2 DEF Lines
    <2>2. hi - 1 \in Nat /\ hi - 1 <= Len(Tail(q))
      BY <1>1, <2>1 DEF Lines
    <2>3. ASSUME NEW i \in 1 .. Len(Tail(q))
          PROVE  /\ Tail(q)[i].type = "binary" <=> 0 < i /\ i <= hi - 1
                 /\ Tail(q)[i].type = "binary" => Tail(q)[i].n = n - ((hi - 1) - i)
      <3>1. i + 1 \in 1 .. Len(q) /\ Tail(q)[i] = q[i + 1]
        BY <1>1
      <3> QED BY <1>1, <2>1, <3>1 DEF Lines
    <2> QED BY <2>1, <2>2, <2>3 DEF Lines
  <1>3. ASSUME Head(q).type # "binary", lo > 0
        PROVE  Lines(Tail(q), lo - 1, hi - 1, n)
    <2>1. lo - 1 \in Nat /\ hi - 1 \in Nat /\ lo - 1 <= hi - 1 /\ hi - 1 <= Len(Tail(q))
      BY <1>1, <1>3 DEF Lines
    <2>2. ASSUME NEW i \in 1 .. Len(Tail(q))
          PROVE  /\ Tail(q)[i].type = "binary" <=> lo - 1 < i /\ i <= hi - 1
                 /\ Tail(q)[i].type = "binary" => Tail(q)[i].n = n - ((hi - 1) - i)
      <3>1. i + 1 \in 1 .. Len(q) /\ Tail(q)[i] = q[i + 1]
        BY <1>1
      <3> QED BY <1>1, <3>1 DEF Lines
    <2> QED BY <2>1, <2>2 DEF Lines
  <1>4. ASSUME Head(q).type # "binary", ~(lo > 0)
        PROVE  Lines(Tail(q), 0, 0, n) /\ hi = 0 /\ lo = 0
    <2>1. lo = 0 /\ hi = 0
      BY <1>1, <1>4 DEF Lines
    <2>2. ASSUME NEW i \in 1 .. Len(Tail(q)) PROVE Tail(q)[i].type # "binary"
      <3>1. i + 1 \in 1 .. Len(q) /\ Tail(q)[i] = q[i + 1]
        BY <1>1
      <3> QED BY <1>1, <2>1, <3>1 DEF Lines
    <2> QED BY <1>1, <2>1, <2>2 DEF Lines
  <1>5. Head(q).type # "binary" =>
          \E l, h \in Nat : Lines(Tail(q), l, h, n) /\ h - l = hi - lo /\ (hi = Len(q) => h = Len(Tail(q)))
    <2>1. lo \in Nat /\ hi \in Nat /\ lo <= hi
      BY DEF Lines
    <2>2. CASE lo > 0
      <3>1. lo - 1 \in Nat /\ hi - 1 \in Nat /\ (hi - 1) - (lo - 1) = hi - lo
        BY <2>1, <2>2, SMT
      <3>2. hi = Len(q) => hi - 1 = Len(Tail(q))
        BY <1>1
      <3> QED BY <1>3, <2>2, <3>1, <3>2
    <2>3. CASE ~(lo > 0)
      BY <1>1, <1>4, <2>3
    <2> QED BY <2>2, <2>3
  <1> QED BY <1>2, <1>5

LEMMA LinesSkip ==
  ASSUME NEW q \in Seq(Messages), q # <<>>, NEW lo, NEW hi, NEW n \in Nat, Lines(q, lo, hi, n),
         Head(q).type # "binary"
  PROVE  \E l, h \in Nat : Lines(Tail(q), l, h, n) /\ h - l = hi - lo /\ (hi = Len(q) => h = Len(Tail(q)))
  BY LinesTail

LEMMA LinesSend ==
  ASSUME NEW q \in Seq(Messages), NEW lo, NEW n \in Nat, Lines(q, lo, Len(q), n)
  PROVE  Lines(Append(q, Binary(n + 1)), lo, Len(q) + 1, n + 1)
  <1> DEFINE r == Append(q, Binary(n + 1))
  <1>1. /\ Len(q) \in Nat /\ Len(r) = Len(q) + 1 /\ r[Len(q) + 1] = Binary(n + 1)
        /\ \A i \in 1 .. Len(q) : r[i] = q[i]
    BY DEF Binary, Messages
  <1>2. r[Len(q) + 1].type = "binary" /\ r[Len(q) + 1].n = n + 1
    BY <1>1 DEF Binary
  <1> HIDE DEF r
  <1>3. lo \in Nat /\ lo <= Len(q) + 1 /\ Len(q) + 1 \in Nat
    BY <1>1 DEF Lines
  <1>4. ASSUME NEW i \in 1 .. Len(r)
        PROVE  /\ r[i].type = "binary" <=> lo < i /\ i <= Len(q) + 1
               /\ r[i].type = "binary" => r[i].n = (n + 1) - ((Len(q) + 1) - i)
    <2>1. CASE i \in 1 .. Len(q)
      BY <1>1, <1>3, <2>1 DEF Lines
    <2>2. CASE i = Len(q) + 1
      BY <1>1, <1>2, <1>3, <2>2 DEF Lines
    <2> QED BY <1>1, <2>1, <2>2
  <1>5. Lines(r, lo, Len(q) + 1, n + 1)
    BY <1>1, <1>3, <1>4 DEF Lines
  <1> QED BY <1>5 DEF r

LEMMA LinesSignal ==
  ASSUME NEW q \in Seq(Messages), NEW lo, NEW hi, NEW n \in Nat, Lines(q, lo, hi, n),
         NEW x \in Messages, x.type # "binary"
  PROVE  /\ Lines(Append(q, x), lo, hi, n)
         /\ lo = hi => Lines(Append(q, x), Len(q) + 1, Len(q) + 1, n)
  <1> DEFINE r == Append(q, x)
  <1>1. /\ Len(q) \in Nat /\ Len(r) = Len(q) + 1 /\ r[Len(q) + 1].type # "binary"
        /\ \A i \in 1 .. Len(q) : r[i] = q[i]
    OBVIOUS
  <1> HIDE DEF r
  <1>2. lo \in Nat /\ hi \in Nat /\ lo <= hi /\ hi <= Len(q)
    BY DEF Lines
  <1>3. ASSUME NEW i \in 1 .. Len(r)
        PROVE  /\ r[i].type = "binary" <=> lo < i /\ i <= hi
               /\ r[i].type = "binary" => r[i].n = n - (hi - i)
    <2>1. CASE i \in 1 .. Len(q)
      BY <1>1, <1>2, <2>1 DEF Lines
    <2>2. CASE i = Len(q) + 1
      BY <1>1, <1>2, <2>2
    <2> QED BY <1>1, <2>1, <2>2
  <1>4. Lines(r, lo, hi, n)
    BY <1>1, <1>2, <1>3 DEF Lines
  <1>5. ASSUME lo = hi PROVE Lines(r, Len(q) + 1, Len(q) + 1, n)
    <2>1. \A i \in 1 .. Len(r) : r[i].type # "binary"
      BY <1>2, <1>3, <1>5
    <2> QED BY <1>1, <2>1 DEF Lines
  <1> QED BY <1>4, <1>5 DEF r

Voice == IF kind = "secure" THEN "tunnel" ELSE "frames"

(* What of the guest's the WebSocket still has to bring.                   *)
Queued ==
  \E lo, hi \in Nat :
    /\ Lines(inbox, lo, hi, guestSent)
    /\ guest # "left" => hi = Len(inbox)
    /\ host # "gone" => Len(hostGot) + Len(up) + (hi - lo) = guestSent
    /\ pc \in Before => hi - lo = guestSent

(* What the host has, what the connection and the WebSocket bring it are   *)
(* the messages of the guest one after the other; a host that is gone gets *)
(* no more.  What it hears is of the guest's kind, since the first message *)
(* made the bridge choose.                                                 *)
Upstream ==
  /\ hostGot = UpTo(Len(hostGot))
  /\ \A i \in 1 .. Len(up) : up[i].n = Len(hostGot) + i /\ up[i].as = Voice
  /\ Len(hostGot) + Len(up) <= guestSent
  /\ heard # "none" => heard = Voice
  /\ kind # "secure" => relay # "passthrough"
  /\ pc \in {"drain", "read", "write"} =>
       /\ guestSent > 0
       /\ host # "gone" => relay = IF kind = "secure" THEN "passthrough" ELSE "reframe"
  /\ Queued

LEMMA UpstreamFresh ==
  ASSUME inbox = <<>>, up = <<>>, hostGot = <<>>, guestSent = 0, heard = "none", relay = "none",
         pc \notin {"drain", "read", "write"}
  PROVE  Upstream
  <1>1. Lines(inbox, 0, 0, guestSent)
    BY DEF Lines
  <1>2. hostGot = UpTo(Len(hostGot))
    BY DEF UpTo
  <1> QED BY <1>1, <1>2 DEF Upstream, Queued

LEMMA UpstreamInit == Init => Upstream
  BY UpstreamFresh DEF Init

(* Steps that move no message of the guest's.                              *)
LEMMA UpstreamSame ==
  ASSUME Upstream, UNCHANGED <<inbox, up, hostGot, heard, guestSent, kind>>,
         guest' # "left" => guest # "left", host' # "gone" => host # "gone",
         pc' \in Before => pc \in Before, pc' \in {"drain", "read", "write"} => pc \in {"drain", "read", "write"},
         UNCHANGED relay
  PROVE  Upstream'
  BY DEF Upstream, Queued, Voice

LEMMA UpstreamHost ==
  ASSUME Types, Control, Upstream,
         HostReads \/ HostEnds \/ HostTimesOut \/ HostSeesEnd
  PROVE  Upstream'
  <1> DEFINE h == Len(hostGot)
  <1>t. h \in Nat /\ Len(up) \in Nat /\ up \in Seq(Ups) /\ hostGot \in Seq(Nat) /\ guestSent \in Nat
    BY BridgeAssumption DEF Types, Scalars
  <1>1. CASE HostReads
    <2>1. /\ up # <<>> /\ host # "gone" /\ up' = Tail(up) /\ hostGot' = Append(hostGot, Head(up).n)
          /\ heard' = (IF heard \in {"none", Head(up).as} THEN Head(up).as ELSE "garbage")
          /\ host' = "talking"
          /\ UNCHANGED <<inbox, guestSent, guest, kind, pc, relay>>
      BY <1>1 DEF HostReads, bridge, web, visitor
    <2>2. /\ Len(up) > 0 /\ Len(up') = Len(up) - 1 /\ Head(up) = up[1]
          /\ \A i \in 1 .. Len(up') : up'[i] = up[i + 1] /\ i + 1 \in 1 .. Len(up)
      BY <1>t, <2>1
    <2>3. Head(up).n = h + 1 /\ Head(up).as = Voice
      BY <1>t, <2>2 DEF Upstream, Queued
    <2>4. hostGot' = UpTo(h + 1) /\ Len(hostGot') = h + 1
      <3>1. hostGot = UpTo(h)
        BY DEF Upstream, Queued
      <3>2. hostGot' = UpTo(h + 1)
        BY <1>t, <2>1, <2>3, <3>1, UpToNext
      <3>3. Len(UpTo(h + 1)) = h + 1
        BY <1>t, UpToPart
      <3> QED BY <3>2, <3>3
    <2>5. \A i \in 1 .. Len(up') : up'[i].n = (h + 1) + i /\ up'[i].as = Voice
      <3> TAKE i \in 1 .. Len(up')
      <3>1. up[i + 1].n = h + (i + 1) /\ up[i + 1].as = Voice
        BY <2>2 DEF Upstream, Queued
      <3> QED BY <1>t, <2>2, <3>1
    <2>6. heard' = Voice
      BY <2>1, <2>3 DEF Upstream, Queued
    <2>7. Len(hostGot') + Len(up') = h + Len(up)
      <3>1. Len(up') = Len(up) - 1 /\ Len(hostGot') = h + 1
        BY <2>2, <2>4
      <3>2. (h + 1) + (Len(up) - 1) = h + Len(up)
        BY <1>t
      <3> QED BY <3>1, <3>2
    <2>8. Voice' = Voice
      BY <2>1 DEF Voice
    <2> HIDE DEF h
    <2> QED BY <2>1, <2>4, <2>5, <2>6, <2>7, <2>8 DEF Upstream, Queued, h
  <1>2. CASE HostEnds \/ HostTimesOut \/ HostSeesEnd
    <2>1. up' = <<>> /\ host' = "gone" /\ UNCHANGED <<inbox, hostGot, heard, guestSent, guest, kind, pc, relay>>
      BY <1>2 DEF HostEnds, HostTimesOut, HostSeesEnd, HostCloses, bridge, web, visitor
    <2>2. Len(hostGot) + 0 <= guestSent
      BY <1>t DEF Upstream, Queued
    <2> QED BY <2>1, <2>2 DEF Upstream, Queued, Voice
  <1> QED BY <1>1, <1>2

(* A message of the guest's is relayed.                                    *)
LEMMA UpstreamRelays ==
  ASSUME Types, Control, Upstream, inbox # <<>>, Head(inbox).type = "binary", inbox' = Tail(inbox),
         pc' = "drain", pc \in {"first", "drain", "read", "write"},
         relay' = (IF pc = "first" THEN for_first_message(Head(inbox).n) ELSE relay),
         up' = IF host = "gone" THEN up ELSE Append(up, upstream(relay', Head(inbox).n)),
         UNCHANGED <<hostGot, heard, guestSent, kind, guest, host>>
  PROVE  Upstream'
  <1> DEFINE h == Len(hostGot)
             u == Len(up)
             m == Head(inbox)
  <1>t. /\ h \in Nat /\ u \in Nat /\ up \in Seq(Ups) /\ inbox \in Seq(Messages) /\ guestSent \in Nat
        /\ kind \in {"none", "secure", "plain"}
    BY BridgeAssumption DEF Types, Scalars
  <1>1. PICK lo \in Nat, hi \in Nat :
          /\ Lines(inbox, lo, hi, guestSent)
          /\ guest # "left" => hi = Len(inbox)
          /\ host # "gone" => h + u + (hi - lo) = guestSent
          /\ pc \in Before => hi - lo = guestSent
    BY DEF Upstream, Queued
  <1>2. lo = 0 /\ hi > 0 /\ m.n = guestSent - (hi - 1) /\ Lines(inbox', 0, hi - 1, guestSent)
    BY <1>t, <1>1, LinesTail
  <1>3. Len(inbox') = Len(inbox) - 1
    BY <1>t
  <1>4. guestSent > 0 /\ kind # "none"
    <2>1. guestSent > 0
      <3>1. CASE pc = "first"
        BY <1>1, <1>2, <1>t, <3>1 DEF Before
      <3>2. CASE pc # "first"
        BY <3>2 DEF Upstream, Queued
      <3> QED BY <3>1, <3>2
    <2> QED BY <2>1 DEF Control
  <1>5. host # "gone" \/ pc = "first" => relay' = IF kind = "secure" THEN "passthrough" ELSE "reframe"
    <2>1. CASE pc = "first"
      <3>1. m.n = 1
        BY <1>1, <1>2, <1>t, <2>1 DEF Before
      <3> QED BY <2>1, <3>1 DEF for_first_message, Preamble
    <2>2. CASE pc # "first"
      BY <2>2 DEF Upstream, Queued
    <2> QED BY <2>1, <2>2
  <1>6. kind # "secure" => relay' # "passthrough"
    BY <1>5 DEF Upstream, Queued
  <1>7. /\ \A i \in 1 .. Len(up') : up'[i].n = h + i /\ up'[i].as = Voice
        /\ h + Len(up') <= guestSent
        /\ host # "gone" => h + Len(up') + (hi - 1) = guestSent
    <2>1. CASE host = "gone"
      BY <2>1 DEF Upstream, Queued
    <2>2. CASE host # "gone"
      <3> DEFINE x == upstream(relay', m.n)
      <3>1. x.n = h + u + 1 /\ x.as = Voice
        <4>1. m.n = h + u + 1
          BY <1>1, <1>2, <1>t, <2>2
        <4> QED BY <1>4, <1>5, <1>t, <2>2, <4>1 DEF upstream, Voice
      <3>2. up' = Append(up, x)
        BY <2>2
      <3> HIDE DEF x
      <3>3. Len(up') = u + 1 /\ up'[u + 1] = x /\ \A i \in 1 .. u : up'[i] = up[i]
        BY <1>t, <3>2
      <3>4. h + (u + 1) + (hi - 1) = guestSent /\ h + (u + 1) <= guestSent
        <4>1. h + u + (hi - 0) = guestSent /\ hi > 0
          BY <1>1, <1>2, <2>2
        <4> HIDE DEF h, u
        <4> QED BY <1>t, <4>1, SMT
      <3>5. ASSUME NEW i \in 1 .. u + 1 PROVE up'[i].n = h + i /\ up'[i].as = Voice
        <4>1. CASE i \in 1 .. u
          BY <3>3, <4>1 DEF Upstream, Queued
        <4>2. CASE i = u + 1
          BY <1>t, <3>1, <3>3, <4>2
        <4> QED BY <1>t, <4>1, <4>2
      <3> QED BY <3>3, <3>4, <3>5
    <2> QED BY <2>1, <2>2
  <1>8. Voice' = Voice
    BY DEF Voice
  <1>9. /\ hi - 1 \in Nat /\ 0 \in Nat /\ (hi - 1) - 0 = hi - 1 /\ "drain" \notin Before
        /\ guest # "left" => hi - 1 = Len(inbox')
    <2>1. hi - 1 \in Nat /\ 0 \in Nat /\ (hi - 1) - 0 = hi - 1
      BY <1>2, SMT
    <2>2. guest # "left" => hi - 1 = Len(inbox')
      BY <1>1, <1>3
    <2> QED BY <2>1, <2>2 DEF Before
  <1>10. \E l, k \in Nat :
           /\ Lines(inbox', l, k, guestSent)
           /\ guest # "left" => k = Len(inbox')
           /\ host # "gone" => Len(hostGot) + Len(up') + (k - l) = guestSent
    BY <1>2, <1>7, <1>9
  <1> HIDE DEF h, u, m
  <1> QED BY <1>4, <1>5, <1>6, <1>7, <1>8, <1>9, <1>10 DEF Upstream, Queued, h

(* A signal is skipped, or a message lost with its host.                   *)
LEMMA UpstreamSkips ==
  ASSUME Types, Control, Upstream, inbox # <<>>, inbox' = Tail(inbox),
         Head(inbox).type # "binary" \/ (host = "gone" /\ pc' \notin Before),
         pc' \in Before => pc \in Before, pc' \in {"drain", "read", "write"} => pc \in {"drain", "read", "write"},
         kind # "secure" => relay' # "passthrough",
         pc' \in {"drain", "read", "write"} => UNCHANGED relay,
         UNCHANGED <<up, hostGot, heard, guestSent, kind, guest, host>>
  PROVE  Upstream'
  <1>t. inbox \in Seq(Messages) /\ guestSent \in Nat
    BY BridgeAssumption DEF Types, Scalars
  <1>1. PICK lo \in Nat, hi \in Nat :
          /\ Lines(inbox, lo, hi, guestSent)
          /\ guest # "left" => hi = Len(inbox)
          /\ host # "gone" => Len(hostGot) + Len(up) + (hi - lo) = guestSent
          /\ pc \in Before => hi - lo = guestSent
    BY DEF Upstream, Queued
  <1>2. \E l, k \in Nat :
          /\ Lines(inbox', l, k, guestSent)
          /\ guest # "left" => k = Len(inbox')
          /\ host # "gone" => Len(hostGot) + Len(up) + (k - l) = guestSent
          /\ pc' \in Before => k - l = guestSent
    <2>1. CASE Head(inbox).type # "binary"
      <3>1. PICK l \in Nat, k \in Nat : /\ Lines(inbox', l, k, guestSent) /\ k - l = hi - lo
                                        /\ hi = Len(inbox) => k = Len(inbox')
        <4>1. Lines(inbox, lo, hi, guestSent)
          BY <1>1
        <4>2. \E l, h \in Nat : Lines(Tail(inbox), l, h, guestSent) /\ h - l = hi - lo
                                /\ (hi = Len(inbox) => h = Len(Tail(inbox)))
          BY <1>t, <2>1, <4>1, LinesSkip
        <4> QED BY <4>2
      <3> QED BY <1>1, <3>1
    <2>2. CASE Head(inbox).type = "binary"
      <3>1. hi > 0 /\ Lines(inbox', 0, hi - 1, guestSent) /\ Len(inbox') = Len(inbox) - 1
        BY <1>t, <1>1, <2>2, LinesTail
      <3>2. hi - 1 \in Nat /\ 0 \in Nat
        BY <3>1, SMT
      <3>3. guest # "left" => hi - 1 = Len(inbox')
        BY <1>1, <3>1
      <3> QED BY <2>2, <3>1, <3>2, <3>3
    <2> QED BY <2>1, <2>2
  <1> QED BY <1>2 DEF Upstream, Queued, Voice

(* The guest writes to the WebSocket, or is said to have come or gone.      *)
LEMMA UpstreamGuest ==
  ASSUME Types, Control, Upstream, GuestJoins \/ GuestDecides \/ GuestSends \/ GuestLeaves
  PROVE  Upstream'
  <1>t. inbox \in Seq(Messages) /\ guestSent \in Nat /\ Len(inbox) \in Nat
    BY BridgeAssumption DEF Types, Scalars
  <1>1. PICK lo \in Nat, hi \in Nat :
          /\ Lines(inbox, lo, hi, guestSent)
          /\ guest # "left" => hi = Len(inbox)
          /\ host # "gone" => Len(hostGot) + Len(up) + (hi - lo) = guestSent
          /\ pc \in Before => hi - lo = guestSent
    BY DEF Upstream, Queued
  <1>s. /\ Signal("paired") \in Messages /\ Signal("paired").type # "binary"
        /\ Signal("peer-left") \in Messages /\ Signal("peer-left").type # "binary"
    BY SeqTypes DEF Signal
  <1>2. CASE GuestJoins
    <2>1. /\ pc = "phase1" /\ guest = "out" /\ inbox' = Append(inbox, Signal("paired")) /\ guest' = "deciding"
          /\ UNCHANGED <<up, hostGot, heard, guestSent, kind, host, pc, relay>>
      BY <1>2 DEF GuestJoins, bridge, tcp, ends
    <2>2. guestSent = 0 /\ lo = hi
      BY <1>1, <2>1 DEF Control, Before
    <2> DEFINE n == Len(inbox) + 1
    <2>3. Lines(inbox', n, n, guestSent) /\ n \in Nat /\ n = Len(inbox')
      BY <1>1, <1>s, <1>t, <2>1, <2>2, LinesSignal
    <2>4. \E l, k \in Nat :
            /\ Lines(inbox', l, k, guestSent) /\ k = Len(inbox')
            /\ host # "gone" => Len(hostGot) + Len(up) + (k - l) = guestSent
            /\ pc \in Before => k - l = guestSent
      <3>1. n - n = hi - lo
        BY <1>t, <2>2
      <3> HIDE DEF n
      <3> QED BY <1>1, <2>3, <3>1
    <2> QED BY <2>1, <2>4 DEF Upstream, Queued, Voice
  <1>3. ASSUME inbox' = Append(inbox, Binary(guestSent + 1)), guestSent' = guestSent + 1, guest # "left",
               Voice' = Voice \/ guestSent = 0, kind' # "secure" => relay # "passthrough",
               guestSent > 0 => UNCHANGED kind,
               UNCHANGED <<up, hostGot, heard, host, pc, relay>>
        PROVE  Upstream'
    <2>1. hi = Len(inbox)
      BY <1>1, <1>3
    <2>2. Lines(inbox', lo, hi + 1, guestSent + 1) /\ hi + 1 = Len(inbox')
      BY <1>1, <1>3, <1>t, <2>1, LinesSend
    <2>3. hi + 1 \in Nat /\ (hi + 1) - lo = (hi - lo) + 1
      BY SMT
    <2>4. /\ host # "gone" => Len(hostGot) + Len(up) + ((hi + 1) - lo) = guestSent + 1
          /\ pc \in Before => (hi + 1) - lo = guestSent + 1
      <3>1. Len(hostGot) \in Nat /\ Len(up) \in Nat
        BY DEF Types
      <3> QED BY <1>1, <1>t, <3>1
    <2>5. Queued'
      BY <1>3, <2>2, <2>3, <2>4 DEF Queued
    <2>6. /\ \A i \in 1 .. Len(up) : up[i].n = Len(hostGot) + i /\ up[i].as = Voice'
          /\ Len(hostGot) + Len(up) <= guestSent'
          /\ heard # "none" => heard = Voice'
      <3>1. Len(hostGot) \in Nat /\ Len(up) \in Nat /\ Len(hostGot) + Len(up) <= guestSent
        BY DEF Types, Upstream
      <3>2. CASE Voice' = Voice
        BY <1>3, <1>t, <3>1, <3>2 DEF Upstream, Queued
      <3>3. CASE guestSent = 0
        <4>1. Len(up) = 0 /\ Len(hostGot) = 0
          BY <3>1, <3>3
        <4>2. heard = "none"
          <5>1. hostGot = <<>>
            BY <4>1 DEF Types
          <5> QED BY <5>1 DEF Control
        <4> QED BY <1>3, <3>1, <3>3, <4>1, <4>2
      <3> QED BY <1>3, <3>2, <3>3
    <2>7. pc' \in {"drain", "read", "write"} =>
            /\ guestSent' > 0
            /\ host' # "gone" => relay' = IF kind' = "secure" THEN "passthrough" ELSE "reframe"
      BY <1>3, <1>t DEF Upstream, Queued
    <2>8. hostGot' = UpTo(Len(hostGot'))
      BY <1>3 DEF Upstream, Queued
    <2>9. /\ \A i \in 1 .. Len(up') : up'[i].n = Len(hostGot') + i /\ up'[i].as = Voice'
          /\ Len(hostGot') + Len(up') <= guestSent'
          /\ heard' # "none" => heard' = Voice'
          /\ kind' # "secure" => relay' # "passthrough"
      BY <1>3, <2>6
    <2> QED BY <2>5, <2>7, <2>8, <2>9 DEF Upstream
  <1>4. CASE GuestDecides
    <2>1. /\ guest = "deciding" /\ UNCHANGED <<up, hostGot, heard, host, pc, relay>>
          /\ \/ /\ kind' = "secure" /\ guestSent' = 1 /\ inbox' = Append(inbox, Binary(1))
             \/ kind' = "plain" /\ guest' = "talking" /\ UNCHANGED <<guestSent, inbox>>
      BY <1>4 DEF GuestDecides, bridge, tcp, ends
    <2>2. guestSent = 0 /\ pc \notin {"drain", "read", "write"}
      <3>1. guestSent = 0
        BY <2>1 DEF Control
      <3> QED BY <3>1 DEF Upstream, Queued
    <2>3. relay # "passthrough"
      BY <2>1, <2>2 DEF Control, Upstream
    <2>4. CASE kind' = "secure" /\ guestSent' = 1 /\ inbox' = Append(inbox, Binary(1))
      BY <1>3, <2>1, <2>2, <2>4
    <2>5. CASE kind' = "plain" /\ guest' = "talking" /\ UNCHANGED <<guestSent, inbox>>
      <3>1. Voice' = Voice
        BY <2>1, <2>5 DEF Control, Voice
      <3> QED BY <2>1, <2>2, <2>3, <2>5, <3>1 DEF Upstream, Queued
    <2> QED BY <2>1, <2>4, <2>5
  <1>5. CASE GuestSends
    <2>1. /\ inbox' = Append(inbox, Binary(guestSent + 1)) /\ guestSent' = guestSent + 1 /\ guest = "talking"
          /\ UNCHANGED <<up, hostGot, heard, host, pc, relay, kind>>
      BY <1>5 DEF GuestSends, bridge, tcp, ends
    <2>2. Voice' = Voice /\ (kind' # "secure" => relay # "passthrough")
      BY <2>1 DEF Voice, Upstream
    <2> QED BY <1>3, <2>1, <2>2
  <1>6. CASE GuestLeaves
    <2>1. /\ guest' = "left" /\ UNCHANGED <<up, hostGot, heard, guestSent, kind, host, pc, relay>>
          /\ UNCHANGED inbox \/ inbox' = Append(inbox, Signal("peer-left"))
      BY <1>6 DEF GuestLeaves, bridge, tcp, ends
    <2>2. Lines(inbox', lo, hi, guestSent)
      BY <1>1, <1>s, <1>t, <2>1, LinesSignal
    <2> QED BY <1>1, <2>1, <2>2 DEF Upstream, Queued, Voice
  <1> QED BY <1>2, <1>4, <1>5, <1>6

(* Until the bridge has read that it is paired, nothing of the guest's is  *)
(* ahead of that signal.                                                   *)
Announced ==
  pc = "phase1" /\ guest # "out" =>
    \E i \in 1 .. Len(inbox) : inbox[i].type = "paired" /\ \A j \in 1 .. i : inbox[j].type # "binary"

LEMMA AnnouncedAppends ==
  ASSUME Types, Announced, guest # "out", NEW m \in Messages, inbox' = Append(inbox, m), UNCHANGED pc
  PROVE  Announced'
  <1>1. /\ Len(inbox) \in Nat /\ Len(inbox') = Len(inbox) + 1
        /\ \A i \in 1 .. Len(inbox) : inbox'[i] = inbox[i]
    BY DEF Types
  <1>2. SUFFICES ASSUME pc = "phase1"
                 PROVE  \E i \in 1 .. Len(inbox') : inbox'[i].type = "paired" /\ \A j \in 1 .. i : inbox'[j].type # "binary"
    BY DEF Announced
  <1>3. PICK i \in 1 .. Len(inbox) : inbox[i].type = "paired" /\ \A j \in 1 .. i : inbox[j].type # "binary"
    BY <1>2 DEF Announced
  <1>4. i \in 1 .. Len(inbox')
    BY <1>1
  <1>5. \A j \in 1 .. i : inbox'[j].type # "binary"
    BY <1>1, <1>3
  <1> QED BY <1>1, <1>3, <1>4, <1>5

LEMMA AnnouncedStep == Types /\ Control /\ Upstream /\ Announced /\ [Next]_vars => Announced'
  <1> SUFFICES ASSUME Types, Control, Upstream, Announced, [Next]_vars PROVE Announced'
    OBVIOUS
  <1> USE DEF bridge, panel, tcp, ends, visitor, web
  <1>1. CASE Enable \/ Upgrade \/ Dial \/ OnPaired \/ SendCaps \/ Route \/ Connect
    BY <1>1 DEF Enable, Upgrade, Fresh, Dial, OnPaired, SendCaps, Route, Connect, Over, Control, Announced
  <1>2. CASE First \/ Drain \/ Read \/ Write
    BY <1>2, FirstCases, DrainCases, ReadCases DEF Announced
  <1>3. CASE Phase1
    <2>1. CASE pc' # "phase1" \/ guest = "out"
      BY <1>3, <2>1, Phase1Cases DEF Announced
    <2>2. CASE pc' = "phase1" /\ guest # "out"
      <3>1. /\ inbox # <<>> /\ inbox' = Tail(inbox) /\ pc = "phase1" /\ UNCHANGED guest
            /\ Head(inbox).type # "paired"
        BY <1>3, <2>2, Phase1Cases
      <3>2. PICK i \in 1 .. Len(inbox) : inbox[i].type = "paired" /\ \A j \in 1 .. i : inbox[j].type # "binary"
        BY <2>2, <3>1 DEF Announced
      <3>3. /\ Len(inbox) \in Nat /\ Len(inbox) > 0 /\ Len(inbox') = Len(inbox) - 1 /\ Head(inbox) = inbox[1]
            /\ \A k \in 1 .. Len(inbox') : inbox'[k] = inbox[k + 1]
        BY <3>1 DEF Types
      <3>4. i # 1 /\ i - 1 \in 1 .. Len(inbox')
        BY <3>1, <3>2, <3>3
      <3>5. inbox'[i - 1].type = "paired"
        BY <3>2, <3>3, <3>4
      <3>6. ASSUME NEW j \in 1 .. i - 1 PROVE inbox'[j].type # "binary"
        <4>1. j \in 1 .. Len(inbox') /\ j + 1 \in 1 .. i
          BY <3>3, <3>4
        <4> QED BY <3>2, <3>3, <4>1
      <3> QED BY <3>4, <3>5, <3>6 DEF Announced
    <2> QED BY <2>1, <2>2
  <1>4. CASE Reader \/ Host \/ Relisten \/ RoomExpires \/ Cut \/ GuestReads \/ UNCHANGED vars
    <2>1. UNCHANGED <<inbox, pc>> /\ (guest' # "out" => guest # "out")
      BY <1>4 DEF Reader, Host, Relisten, RoomExpires, Cut, GuestReads, ReaderReads, ReaderEnds, ReaderSends,
                  HostReads, HostSends, HostEnds, HostTimesOut, HostSeesEnd, HostCloses, vars
    <2> QED BY <2>1 DEF Announced
  <1>5. CASE GuestJoins
    <2>1. pc = "phase1" /\ guest = "out" /\ inbox' = Append(inbox, Signal("paired"))
      BY <1>5 DEF GuestJoins
    <2>2. PICK lo \in Nat, hi \in Nat : Lines(inbox, lo, hi, guestSent) /\ hi - lo = guestSent
      BY <2>1 DEF Upstream, Queued, Before
    <2>3. guestSent = 0
      BY <2>1 DEF Control
    <2>4. \A i \in 1 .. Len(inbox) : inbox[i].type # "binary"
      BY <2>2, <2>3 DEF Lines
    <2>5. /\ Len(inbox) \in Nat /\ Len(inbox') = Len(inbox) + 1 /\ inbox'[Len(inbox) + 1] = Signal("paired")
          /\ \A i \in 1 .. Len(inbox) : inbox'[i] = inbox[i]
      BY <2>1, SeqTypes DEF Types
    <2>6. Signal("paired").type = "paired"
      BY DEF Signal
    <2>7. \A i \in 1 .. Len(inbox) + 1 : inbox'[i].type # "binary"
      BY <2>4, <2>5, <2>6
    <2> QED BY <2>5, <2>6, <2>7 DEF Announced
  <1>6. CASE GuestDecides \/ GuestSends \/ GuestLeaves
    <2>1. /\ UNCHANGED pc /\ guest # "out"
          /\ UNCHANGED inbox \/ \E m \in Messages : inbox' = Append(inbox, m)
      <3>1. guestSent + 1 \in Nat /\ 1 \in Nat
        BY BridgeAssumption DEF Types, Scalars
      <3> QED BY <1>6, <3>1, SeqTypes DEF GuestDecides, GuestSends, GuestLeaves
    <2> QED BY <2>1, AnnouncedAppends DEF Announced
  <1> QED BY <1>1, <1>2, <1>3, <1>4, <1>5, <1>6 DEF Next, Bridge, Guest

LEMMA UpstreamStep == Types /\ Control /\ Upstream /\ Announced /\ [Next]_vars => Upstream'
  <1> SUFFICES ASSUME Types, Control, Upstream, Announced, [Next]_vars PROVE Upstream'
    OBVIOUS
  <1> USE DEF bridge, panel, tcp, ends, visitor, web
  <1>1. CASE Enable \/ Upgrade
    <2>1. /\ inbox' = <<>> /\ up' = <<>> /\ hostGot' = <<>> /\ guestSent' = 0 /\ heard' = "none" /\ relay' = "none"
          /\ pc' \notin {"drain", "read", "write"}
      BY <1>1 DEF Enable, Upgrade, Fresh
    <2>2. Lines(inbox', 0, 0, guestSent')
      BY <2>1 DEF Lines
    <2>3. Queued' /\ hostGot' = UpTo(Len(hostGot'))
      BY <2>1, <2>2 DEF Queued, UpTo
    <2> QED BY <2>1, <2>3 DEF Upstream
  <1>2. CASE Dial
    <2>1. CASE pc' = "idle"
      <3>1. UNCHANGED <<inbox, up, hostGot, heard, guestSent, kind, guest, host, relay>>
        BY <1>2, <2>1 DEF Dial, Over
      <3> QED BY <2>1, <3>1, UpstreamSame DEF Before
    <2>2. CASE pc' # "idle"
      <3>1. /\ inbox' = <<Signal("waiting")>> /\ pc' = "phase1" /\ pc = "dial"
            /\ UNCHANGED <<up, hostGot, heard, guestSent, kind, guest, host, relay>>
        BY <1>2, <2>2 DEF Dial, Over
      <3>2. guestSent = 0 /\ up = <<>> /\ hostGot = <<>>
        BY <3>1 DEF Control
      <3>3. Lines(inbox', 1, 1, 0) /\ Len(inbox') = 1
        <4>1. Len(inbox') = 1 /\ inbox'[1].type # "binary"
          BY <3>1 DEF Signal
        <4> QED BY <4>1 DEF Lines
      <3>4. Queued'
        BY <3>1, <3>2, <3>3 DEF Queued
      <3> QED BY <3>1, <3>4 DEF Upstream, Voice
    <2> QED BY <2>1, <2>2
  <1>3. CASE OnPaired \/ SendCaps \/ Route \/ Connect
    <2>1. /\ UNCHANGED <<inbox, up, hostGot, heard, guestSent, kind, guest, relay>>
          /\ host' # "gone" => host # "gone"
          /\ pc \in Before /\ pc' \notin {"drain", "read", "write"}
      BY <1>3 DEF OnPaired, SendCaps, Route, Connect, Over, Before, Control
    <2> QED BY <2>1, UpstreamSame
  <1>4. CASE Phase1
    <2>1. CASE inbox # <<>> /\ inbox' = Tail(inbox) /\ pc' # "idle"
      <3>1. pc = "phase1" /\ pc' \in {"phase1", "paired"}
            /\ UNCHANGED <<up, hostGot, heard, guestSent, kind, guest, host, relay>>
        BY <1>4, <2>1, Phase1Cases
      <3>2. Head(inbox).type # "binary"
        <4>1. CASE guest = "out"
          <5>1. guestSent = 0
            BY <4>1 DEF Control
          <5>2. PICK lo \in Nat, hi \in Nat : Lines(inbox, lo, hi, guestSent) /\ hi - lo = guestSent
            BY <3>1 DEF Upstream, Queued, Before
          <5>3. Head(inbox) = inbox[1] /\ Len(inbox) >= 1
            BY <2>1 DEF Types
          <5> QED BY <5>1, <5>2, <5>3 DEF Lines
        <4>2. CASE guest # "out"
          <5>1. PICK i \in 1 .. Len(inbox) : \A j \in 1 .. i : inbox[j].type # "binary"
            BY <3>1, <4>2 DEF Announced
          <5>2. Head(inbox) = inbox[1] /\ 1 \in 1 .. i
            BY <2>1, <5>1 DEF Types
          <5> QED BY <5>1, <5>2
        <4> QED BY <4>1, <4>2
      <3> QED BY <2>1, <3>1, <3>2, UpstreamSkips DEF Before, Upstream
    <2>2. CASE ~(inbox # <<>> /\ inbox' = Tail(inbox) /\ pc' # "idle")
      <3>1. pc' = "idle" /\ UNCHANGED <<up, hostGot, heard, guestSent, kind, guest, host, relay>>
        BY <1>4, <2>2, Phase1Cases
      <3>2. UNCHANGED inbox
        BY <1>4, <2>2, <3>1, Phase1Cases
      <3> QED BY <3>1, <3>2, UpstreamSame DEF Before
    <2> QED BY <2>1, <2>2
  <1>5. CASE First
    <2>0. pc = "first" /\ UNCHANGED <<hostGot, heard, guestSent, kind, guest, host>>
      BY <1>5, FirstCases
    <2>1. CASE pc' = "drain"
      BY <1>5, <2>0, <2>1, FirstCases, UpstreamRelays
    <2>2. CASE pc' = "idle" /\ UNCHANGED <<inbox, relay>>
      <3>1. UNCHANGED up
        BY <1>5, <2>2, FirstCases
      <3> QED BY <2>0, <2>2, <3>1, UpstreamSame DEF Before
    <2>3. CASE pc' = "idle" /\ ~UNCHANGED <<inbox, relay>>
      <3>1. /\ UNCHANGED up /\ inbox # <<>> /\ inbox' = Tail(inbox) /\ host = "gone"
            /\ relay' = for_first_message(Head(inbox).n)
        BY <1>5, <2>3, FirstCases
      <3>2. kind # "secure" => relay' # "passthrough"
        BY <3>1 DEF for_first_message, Preamble
      <3> QED BY <2>0, <2>3, <3>1, <3>2, UpstreamSkips DEF Before
    <2>4. CASE pc' = "first"
      <3>1. /\ UNCHANGED <<up, relay>> /\ inbox # <<>> /\ inbox' = Tail(inbox) /\ Head(inbox).type # "binary"
        BY <1>5, <2>4, FirstCases
      <3> QED BY <2>0, <2>4, <3>1, UpstreamSkips DEF Upstream
    <2> QED BY <1>5, <2>1, <2>2, <2>3, <2>4, FirstCases
  <1>6. CASE Drain
    <2>1. /\ pc = "drain" /\ pc' \in {"drain", "idle", "read"}
          /\ UNCHANGED <<inbox, relay, up, hostGot, heard, guestSent, kind, guest, host>>
      BY <1>6, DrainCases
    <2> QED BY <2>1, UpstreamSame DEF Before
  <1>7. CASE Read \/ Write
    <2>0. /\ pc \in {"read", "write"} /\ pc' \in {"drain", "idle", "write"}
          /\ UNCHANGED <<relay, hostGot, heard, guestSent, kind, guest, host>>
      BY <1>7, ReadCases DEF ends, visitor
    <2>1. CASE UNCHANGED <<inbox, up>>
      BY <2>0, <2>1, UpstreamSame DEF Before
    <2>2. CASE inbox # <<>> /\ Head(inbox).type = "binary" /\ inbox' = Tail(inbox) /\ pc' = "drain"
      BY <1>7, <2>0, <2>2, ReadCases, UpstreamRelays, UpstreamSame DEF Before
    <2>3. CASE /\ inbox # <<>> /\ inbox' = Tail(inbox) /\ UNCHANGED up
               /\ Head(inbox).type # "binary" \/ (host = "gone" /\ pc' = "idle")
      <3>1. kind # "secure" => relay' # "passthrough"
        BY <2>0 DEF Upstream
      <3> QED BY <2>0, <2>3, <3>1, UpstreamSkips DEF Before
    <2> QED BY <1>7, <2>1, <2>2, <2>3, ReadCases
  <1>8. CASE Reader \/ HostSends \/ GuestReads \/ Relisten \/ RoomExpires \/ Cut \/ UNCHANGED vars
    <2>1. /\ UNCHANGED <<inbox, up, hostGot, heard, guestSent, kind, pc, relay, host>>
          /\ guest' # "left" => guest # "left"
      BY <1>8 DEF Reader, HostSends, GuestReads, Relisten, RoomExpires, Cut, ReaderReads, ReaderEnds, ReaderSends, vars
    <2> QED BY <2>1, UpstreamSame
  <1>9. CASE HostReads \/ HostEnds \/ HostTimesOut \/ HostSeesEnd
    BY <1>9, UpstreamHost
  <1>10. CASE GuestJoins \/ GuestDecides \/ GuestSends \/ GuestLeaves
    BY <1>10, UpstreamGuest
  <1> QED BY <1>1, <1>2, <1>3, <1>4, <1>5, <1>6, <1>7, <1>8, <1>9, <1>10 DEF Next, Bridge, Host, Guest

-----------------------------------------------------------------------------
(* The other way: chunks of what the host sends.                            *)

(* A piece takes the stream from a to b, as the announcement trivially does;*)
(* a span is a sequence of them from a to b.                                *)
Piece(x, a, b) == a <= b /\ (x = Stretch(a, b) \/ (x = CAPS_SIGNAL /\ a = b))
Marks(q, a, b, f) ==
  /\ f[0] = a /\ f[Len(q)] = b
  /\ \A i, j \in 0 .. Len(q) : i <= j => f[i] <= f[j]
  /\ \A i \in 1 .. Len(q) : Piece(q[i], f[i - 1], f[i])
Span(q, a, b) == \E f \in [0 .. Len(q) -> Nat] : Marks(q, a, b, f)

LEMMA SpanEmpty == ASSUME NEW a \in Nat PROVE Span(<<>>, a, a)
  <1> DEFINE f == [i \in 0 .. 0 |-> a]
  <1>1. f \in [0 .. Len(<<>>) -> Nat] /\ Marks(<<>>, a, a, f)
    BY DEF Marks
  <1> QED BY <1>1 DEF Span

LEMMA SpanEnds ==
  ASSUME NEW q \in Seq(Seq(Nat)), NEW a \in Nat, NEW b \in Nat, Span(q, a, b)
  PROVE  a <= b
  <1>1. PICK f \in [0 .. Len(q) -> Nat] : Marks(q, a, b, f)
    BY DEF Span
  <1>2. Len(q) \in Nat /\ 0 \in 0 .. Len(q) /\ Len(q) \in 0 .. Len(q)
    OBVIOUS
  <1> QED BY <1>1, <1>2 DEF Marks

LEMMA SpanTail ==
  ASSUME NEW q \in Seq(Seq(Nat)), NEW a \in Nat, NEW b \in Nat, Span(q, a, b), q # <<>>
  PROVE  \E c \in Nat : Piece(Head(q), a, c) /\ a <= c /\ c <= b /\ Span(Tail(q), c, b)
  <1>1. PICK f \in [0 .. Len(q) -> Nat] : Marks(q, a, b, f)
    BY DEF Span
  <1> DEFINE n == Len(q) - 1
             r == Tail(q)
             g == [i \in 0 .. n |-> f[i + 1]]
  <1>2. /\ n \in Nat /\ Len(q) = n + 1 /\ Len(r) = n /\ Head(q) = q[1]
        /\ \A i \in 1 .. n : r[i] = q[i + 1]
    OBVIOUS
  <1> HIDE DEF n, r
  <1>3. g \in [0 .. Len(r) -> Nat]
    BY <1>2
  <1>4. f[1] \in Nat /\ f[0] = a /\ f[n + 1] = b /\ a <= f[1] /\ f[1] <= b /\ Piece(q[1], a, f[1])
    <2>1. f[0] = a /\ f[n + 1] = b /\ \A i, j \in 0 .. n + 1 : i <= j => f[i] <= f[j]
      BY <1>1, <1>2 DEF Marks
    <2>2. 0 \in 0 .. n + 1 /\ 1 \in 0 .. n + 1 /\ n + 1 \in 0 .. n + 1 /\ 1 \in 1 .. n + 1 /\ 1 - 1 = 0 /\ 1 <= n + 1
      BY <1>2
    <2>3. Piece(q[1], f[1 - 1], f[1])
      BY <1>1, <1>2, <2>2 DEF Marks
    <2> QED BY <1>2, <2>1, <2>2, <2>3
  <1>5. Marks(r, f[1], b, g)
    <2>1. g[0] = f[1] /\ g[n] = b
      BY <1>2, <1>4
    <2>2. ASSUME NEW i \in 0 .. n, NEW j \in 0 .. n, i <= j PROVE g[i] <= g[j]
      <3>1. i + 1 \in 0 .. Len(q) /\ j + 1 \in 0 .. Len(q) /\ i + 1 <= j + 1
        BY <1>2, <2>2
      <3> QED BY <1>1, <3>1 DEF Marks
    <2>3. ASSUME NEW i \in 1 .. n PROVE Piece(r[i], g[i - 1], g[i])
      <3>1. i + 1 \in 1 .. Len(q) /\ (i + 1) - 1 = i /\ (i - 1) + 1 = i /\ i - 1 \in 0 .. n /\ i \in 0 .. n
        BY <1>2
      <3>2. Piece(q[i + 1], f[(i + 1) - 1], f[i + 1])
        BY <1>1, <3>1 DEF Marks
      <3>3. g[i - 1] = f[i] /\ g[i] = f[i + 1] /\ r[i] = q[i + 1]
        BY <1>2, <3>1
      <3> QED BY <3>1, <3>2, <3>3
    <2> HIDE DEF g
    <2> QED BY <1>2, <2>1, <2>2, <2>3 DEF Marks
  <1>6. Span(r, f[1], b)
    BY <1>3, <1>5 DEF Span
  <1> QED BY <1>2, <1>4, <1>6 DEF r

LEMMA SpanAppend ==
  ASSUME NEW q \in Seq(Seq(Nat)), NEW a \in Nat, NEW b \in Nat, NEW c \in Nat, Span(q, a, b),
         NEW x \in Seq(Nat), Piece(x, b, c)
  PROVE  Span(Append(q, x), a, c)
  <1>1. PICK f \in [0 .. Len(q) -> Nat] : Marks(q, a, b, f)
    BY DEF Span
  <1> DEFINE n == Len(q)
             r == Append(q, x)
             g == [i \in 0 .. n + 1 |-> IF i = n + 1 THEN c ELSE f[i]]
  <1>2. n \in Nat /\ Len(r) = n + 1 /\ r[n + 1] = x /\ \A i \in 1 .. n : r[i] = q[i]
    OBVIOUS
  <1>3. b <= c
    BY DEF Piece
  <1>4. /\ f \in [0 .. n -> Nat] /\ f[0] = a /\ f[n] = b /\ \A i, j \in 0 .. n : i <= j => f[i] <= f[j]
        /\ \A i \in 1 .. n : Piece(q[i], f[i - 1], f[i])
    BY <1>1 DEF Marks
  <1> HIDE DEF r, n
  <1>5. g \in [0 .. n + 1 -> Nat]
    <2>1. ASSUME NEW i \in 0 .. n + 1 PROVE (IF i = n + 1 THEN c ELSE f[i]) \in Nat
      BY <1>2, <1>4
    <2> QED BY <2>1
  <1>6. /\ g[n + 1] = c /\ \A i \in 0 .. n : g[i] = f[i]
    BY <1>2
  <1> HIDE DEF g
  <1>7. Marks(r, a, c, g)
    <2>1. g[0] = a
      BY <1>2, <1>4, <1>6
    <2>2. ASSUME NEW i \in 0 .. n + 1, NEW j \in 0 .. n + 1, i <= j PROVE g[i] <= g[j]
      <3>1. CASE j = n + 1
        <4>1. CASE i = n + 1
          BY <1>6, <3>1, <4>1
        <4>2. CASE i \in 0 .. n
          <5>1. f[i] <= f[n] /\ f[i] \in Nat
            BY <1>2, <1>4, <4>2
          <5> QED BY <1>3, <1>4, <1>6, <3>1, <4>2, <5>1
        <4> QED BY <1>2, <4>1, <4>2
      <3>2. CASE j \in 0 .. n
        <4>1. i \in 0 .. n
          BY <1>2, <2>2, <3>2
        <4> QED BY <1>4, <1>6, <2>2, <3>2, <4>1
      <3> QED BY <1>2, <3>1, <3>2
    <2>3. ASSUME NEW i \in 1 .. n + 1 PROVE Piece(r[i], g[i - 1], g[i])
      <3>1. CASE i = n + 1
        <4>1. (n + 1) - 1 = n /\ n \in 0 .. n
          BY <1>2
        <4> QED BY <1>2, <1>4, <1>6, <3>1, <4>1
      <3>2. CASE i \in 1 .. n
        <4>1. i - 1 \in 0 .. n /\ i \in 0 .. n
          BY <1>2, <3>2
        <4> QED BY <1>2, <1>4, <1>6, <3>2, <4>1
      <3> QED BY <1>2, <3>1, <3>2
    <2> QED BY <1>2, <1>6, <2>1, <2>2, <2>3 DEF Marks
  <1> QED BY <1>2, <1>5, <1>7 DEF Span, r

(* The multiples of a frame.                                               *)
LEMMA Multiples ==
  ASSUME NEW q \in Nat
  PROVE  (q + 1) * Part = q * Part + Part /\ q * Part \in Nat /\ q <= q * Part
  <1>1. Part \in Nat /\ Part > 0
    BY BridgeAssumption
  <1> HIDE DEF BridgeAssumption
  <1> QED BY <1>1

LEMMA FrameIs ==
  ASSUME NEW q \in 0 .. DownMax PROVE FrameOf(Stretch(q * Part, q * Part + Part))
  <1>1. q * Part \in Nat /\ Part \in Nat
    BY Multiples, BridgeAssumption
  <1> DEFINE z == q * Part
             m == Stretch(z, z + Part)
  <1>2. Len(m) = Part /\ \A i \in 1 .. Part : m[i] = z + i
    <2> HIDE DEF z
    <2>1. z \in Nat
      BY <1>1 DEF z
    <2>2. (z + Part) - z = Part
      BY <1>1, <2>1
    <2> QED BY <1>1, <2>1, <2>2 DEF Stretch
  <1> HIDE DEF m
  <1>3. FrameOf(m)
    BY <1>2 DEF FrameOf
  <1> QED BY <1>3 DEF m

(* What the guest has, then what is on the WebSocket up to p, then, while  *)
(* the bridge runs, the channel, the reader's hand and the connection: the *)
(* stream of the host with nothing out of place.  A host that is gone may  *)
(* have taken the end of it along.                                         *)
Carried(p) ==
  pc # "idle" =>
    \E a, b, c \in Nat :
      /\ Span(chan, p, a) /\ a <= b /\ b <= c /\ c <= hostSent
      /\ chunk = Stretch(a, b) /\ down = Stretch(b, c)
      /\ host # "gone" => c = hostSent
      /\ relay # "passthrough" => \E q \in Nat : b = q * Part

Delivered ==
  /\ guestGot = UpTo(Len(guestGot))
  /\ \E p \in Nat : Span(outbox, Len(guestGot), p) /\ p <= hostSent /\ Carried(p)

(* A bridge that reframes carries whole frames.                            *)
Whole(x) == x = CAPS_SIGNAL \/ FrameOf(x)
Framed ==
  /\ reader # "none" => relay # "none" /\ guestSent > 0
  /\ reader = "none" => \A i \in 1 .. Len(outbox) : outbox[i] = CAPS_SIGNAL
  /\ kind = "plain" =>
       /\ \A i \in 1 .. Len(outbox) : Whole(outbox[i])
       /\ \A i \in 1 .. Len(chan) : FrameOf(chan[i])
       /\ reader = "sending" /\ pc # "idle" => FrameOf(chunk)

LEMMA StretchEmpty == ASSUME NEW a \in Nat PROVE Stretch(a, a) = <<>>
  <1>1. a - a = 0
    OBVIOUS
  <1> QED BY <1>1 DEF Stretch

LEMMA DownInit == Init => Delivered /\ Framed
  <1> SUFFICES ASSUME Init PROVE Delivered /\ Framed
    OBVIOUS
  <1>1. Framed
    BY DEF Init, Framed
  <1>2. guestGot = UpTo(Len(guestGot)) /\ Len(guestGot) = 0
    BY DEF Init, UpTo
  <1>3. Span(outbox, 0, 0) /\ 0 <= hostSent /\ Carried(0)
    BY SpanEmpty DEF Init, Carried
  <1> QED BY <1>1, <1>2, <1>3 DEF Delivered

LEMMA DeliveredSame ==
  ASSUME Delivered, UNCHANGED <<outbox, guestGot, hostSent>>,
         \/ pc' = "idle"
         \/ /\ UNCHANGED <<chan, chunk, down>> /\ pc # "idle"
            /\ relay' # "passthrough" => relay # "passthrough"
            /\ host' # "gone" => host # "gone"
         \/ UNCHANGED <<pc, relay, host, chan, chunk, down>>
  PROVE  Delivered'
  BY DEF Delivered, Carried

LEMMA DeliveredStep == Types /\ Control /\ Delivered /\ Framed /\ [Next]_vars => Delivered'
  <1> SUFFICES ASSUME Types, Control, Delivered, Framed, [Next]_vars PROVE Delivered'
    OBVIOUS
  <1> USE DEF bridge, panel, tcp, ends, visitor, web
  <1> DEFINE g == Len(guestGot)
  <1>t. /\ g \in Nat /\ hostSent \in Nat /\ outbox \in Seq(Seq(Nat)) /\ chan \in Seq(Seq(Nat)) /\ chunk \in Seq(Nat)
        /\ CAPS_SIGNAL \in Seq(Nat) /\ guestGot = UpTo(g)
    BY BridgeAssumption, SeqTypes DEF Types, Scalars, Delivered
  <1>p. PICK p \in Nat : Span(outbox, g, p) /\ p <= hostSent /\ Carried(p)
    BY DEF Delivered
  <1>1. CASE Enable \/ Upgrade
    <2>1. /\ guestGot' = <<>> /\ outbox' = <<>> /\ hostSent' = 0 /\ chan' = <<>> /\ chunk' = <<>> /\ down' = <<>>
          /\ host' = "none" /\ relay' = "none"
      BY <1>1 DEF Enable, Upgrade, Fresh
    <2>2. Stretch(0, 0) = <<>> /\ Span(<<>>, 0, 0) /\ 0 = 0 * Part /\ 0 \in Nat
      BY StretchEmpty, SpanEmpty, BridgeAssumption
    <2>3. Carried(0)'
      <3>1. \E a, b, c \in Nat :
              /\ Span(chan', 0, a) /\ a <= b /\ b <= c /\ c <= hostSent'
              /\ chunk' = Stretch(a, b) /\ down' = Stretch(b, c)
              /\ host' # "gone" => c = hostSent'
              /\ relay' # "passthrough" => \E q \in Nat : b = q * Part
        <4>1. \E q \in Nat : 0 = q * Part
          BY <2>2
        <4>2. /\ Span(chan', 0, 0) /\ 0 <= 0 /\ 0 <= hostSent' /\ chunk' = Stretch(0, 0) /\ down' = Stretch(0, 0)
              /\ 0 = hostSent'
          BY <2>1, <2>2
        <4> QED BY <4>1, <4>2
      <3> QED BY <3>1 DEF Carried
    <2>4. guestGot' = UpTo(Len(guestGot')) /\ Len(guestGot') = 0
      BY <2>1 DEF UpTo
    <2>5. Span(outbox', Len(guestGot'), 0) /\ 0 <= hostSent'
      BY <2>1, <2>2, <2>4
    <2> QED BY <2>2, <2>3, <2>4, <2>5 DEF Delivered
  <1>2. CASE Dial \/ Phase1 \/ OnPaired \/ Route \/ Connect
    <2>1. /\ UNCHANGED <<outbox, guestGot, hostSent, chan, chunk, down, relay>> /\ pc # "idle"
          /\ host' # "gone" => host # "gone"
      BY <1>2, Phase1Cases DEF Dial, OnPaired, Route, Connect, Over, Control
    <2> QED BY <2>1, DeliveredSame
  <1>3. CASE SendCaps
    <2>1. CASE pc' = "idle"
      <3>1. UNCHANGED <<outbox, guestGot, hostSent>>
        BY <1>3, <2>1 DEF SendCaps, Over
      <3> QED BY <2>1, <3>1, DeliveredSame
    <2>2. CASE pc' # "idle"
      <3>1. /\ outbox' = Append(outbox, CAPS_SIGNAL) /\ pc # "idle"
            /\ UNCHANGED <<guestGot, hostSent, chan, chunk, down, relay, host>>
        BY <1>3, <2>2 DEF SendCaps, Over
      <3>2. Piece(CAPS_SIGNAL, p, p)
        BY DEF Piece
      <3>3. Span(outbox', g, p)
        BY <1>t, <1>p, <3>1, <3>2, SpanAppend
      <3>4. Carried(p)'
        BY <1>p, <3>1 DEF Carried
      <3> QED BY <1>t, <1>p, <3>1, <3>3, <3>4 DEF Delivered
    <2> QED BY <2>1, <2>2
  <1>4. CASE First
    <2>1. /\ pc = "first" /\ UNCHANGED <<outbox, chan, chunk, down, guestGot, hostSent, host>>
          /\ pc' = "idle" \/ relay' # "passthrough" => relay # "passthrough" \/ pc' = "idle"
      BY <1>4, FirstCases DEF Control, Before
    <2>2. relay = "none"
      BY <2>1 DEF Control, Before
    <2> QED BY <2>1, <2>2, DeliveredSame
  <1>5. CASE Drain
    <2>1. CASE outbox' = Append(outbox, Head(chan)) /\ chan # <<>> /\ chan' = Tail(chan) /\ UNCHANGED pc
      <3>1. pc = "drain" /\ UNCHANGED <<guestGot, hostSent, chunk, down, relay, host>>
        BY <1>5, DrainCases
      <3>2. PICK a \in Nat, b \in Nat, c \in Nat :
              /\ Span(chan, p, a) /\ a <= b /\ b <= c /\ c <= hostSent
              /\ chunk = Stretch(a, b) /\ down = Stretch(b, c)
              /\ host # "gone" => c = hostSent
              /\ relay # "passthrough" => \E q \in Nat : b = q * Part
        BY <1>p, <3>1 DEF Carried
      <3>3. PICK d \in Nat : Piece(Head(chan), p, d) /\ d <= a /\ Span(chan', d, a)
        BY <1>t, <2>1, <3>2, SpanTail
      <3>4. Head(chan) \in Seq(Nat)
        BY <2>1, SeqTypes
      <3>5. Span(outbox', g, d)
        BY <1>t, <1>p, <2>1, <3>3, <3>4, SpanAppend
      <3>6. d <= hostSent
        BY <1>t, <3>2, <3>3
      <3>7. Carried(d)'
        <4>1. \E x, y, z \in Nat :
                /\ Span(chan', d, x) /\ x <= y /\ y <= z /\ z <= hostSent'
                /\ chunk' = Stretch(x, y) /\ down' = Stretch(y, z)
                /\ host' # "gone" => z = hostSent'
                /\ relay' # "passthrough" => \E q \in Nat : y = q * Part
          BY <3>1, <3>2, <3>3
        <4> QED BY <4>1 DEF Carried
      <3> QED BY <1>t, <3>1, <3>5, <3>6, <3>7 DEF Delivered
    <2>2. CASE ~(outbox' = Append(outbox, Head(chan)) /\ chan # <<>> /\ chan' = Tail(chan) /\ UNCHANGED pc)
      <3>1. /\ UNCHANGED <<outbox, guestGot, hostSent, relay, host, chunk, down>> /\ pc # "idle"
            /\ pc' = "idle" \/ UNCHANGED chan
        BY <1>5, <2>2, DrainCases
      <3> QED BY <3>1, DeliveredSame
    <2> QED BY <2>1, <2>2
  <1>6. CASE Read \/ Write
    <2>1. /\ UNCHANGED <<outbox, guestGot, hostSent, chunk, down, relay, host>> /\ pc \in {"read", "write"}
          /\ pc' = "idle" \/ UNCHANGED chan
      BY <1>6, ReadCases DEF ends, visitor
    <2> QED BY <2>1, DeliveredSame
  <1>7. CASE ReaderReads \/ ReaderSends \/ ReaderEnds \/ HostSends \/ HostEnds \/ HostTimesOut \/ HostSeesEnd
    <2>1. UNCHANGED <<outbox, guestGot, pc, relay>> /\ hostSent' \in Nat /\ hostSent <= hostSent'
      BY <1>7, <1>t DEF ReaderReads, ReaderSends, ReaderEnds, HostSends, HostEnds, HostTimesOut, HostSeesEnd, HostCloses
    <2>2. CASE pc = "idle"
      <3>1. p <= hostSent' /\ Carried(p)'
        BY <1>t, <1>p, <2>1, <2>2 DEF Carried
      <3> QED BY <1>t, <1>p, <2>1, <3>1 DEF Delivered
    <2>3. CASE pc # "idle"
      <3>1. PICK a \in Nat, b \in Nat, c \in Nat :
              /\ Span(chan, p, a) /\ a <= b /\ b <= c /\ c <= hostSent
              /\ chunk = Stretch(a, b) /\ down = Stretch(b, c)
              /\ host # "gone" => c = hostSent
              /\ relay # "passthrough" => \E q \in Nat : b = q * Part
        BY <1>p, <2>3 DEF Carried
      <3>2. Len(down) = c - b /\ Len(chunk) = b - a
        BY <3>1, UpToOn
      <3>3. SUFFICES \E x, y, z \in Nat :
              /\ Span(chan', p, x) /\ x <= y /\ y <= z /\ z <= hostSent'
              /\ chunk' = Stretch(x, y) /\ down' = Stretch(y, z)
              /\ host' # "gone" => z = hostSent'
              /\ relay' # "passthrough" => \E q \in Nat : y = q * Part
        <4>1. p <= hostSent'
          BY <1>t, <1>p, <2>1
        <4>2. Carried(p)'
          BY <3>3 DEF Carried
        <4> QED BY <1>t, <1>p, <2>1, <4>1, <4>2 DEF Delivered
      <3>4. CASE ReaderReads
        <4>1. reader = "reading" /\ UNCHANGED <<chan, hostSent, host>>
          BY <3>4 DEF ReaderReads
        <4>2. PICK k \in 1 .. Len(down) : /\ relay = "reframe" => k = Part
                                          /\ chunk' = SubSeq(down, 1, k) /\ down' = SubSeq(down, k + 1, Len(down))
          BY <3>4 DEF ReaderReads
        <4>3. a = b
          <5>1. Len(chunk) = 0
            BY <4>1 DEF Control
          <5> QED BY <3>2, <5>1
        <4>4. k \in 0 .. c - b /\ b + k \in Nat /\ b <= b + k /\ b + k <= c
          BY <3>1, <3>2, <4>2
        <4>5. chunk' = Stretch(b, b + k) /\ down' = Stretch(b + k, c)
          <5>1. /\ SubSeq(Stretch(b, c), 1, k) = Stretch(b, b + k)
                /\ SubSeq(Stretch(b, c), k + 1, c - b) = Stretch(b + k, c)
            BY <3>1, <4>4, StretchParts
          <5> QED BY <3>1, <3>2, <4>2, <5>1
        <4>6. relay' # "passthrough" => \E q \in Nat : b + k = q * Part
          <5> SUFFICES ASSUME relay # "passthrough" PROVE \E q \in Nat : b + k = q * Part
            BY <2>1
          <5>1. relay = "reframe" => k = Part
            BY <4>2
          <5>2. PICK q \in Nat : b = q * Part
            BY <3>1
          <5>3. relay = "reframe"
            BY <4>1 DEF Framed, Types, Scalars
          <5> QED BY <5>1, <5>2, <5>3, Multiples
        <4> QED BY <3>1, <4>1, <4>3, <4>4, <4>5, <4>6
      <3>5. CASE ReaderSends
        <4>1. chan' = Append(chan, chunk) /\ chunk' = <<>> /\ UNCHANGED <<down, hostSent, host>>
          BY <2>3, <3>5 DEF ReaderSends
        <4>2. Piece(chunk, a, b)
          BY <3>1 DEF Piece
        <4>3. Span(chan', p, b)
          BY <1>t, <3>1, <4>1, <4>2, SpanAppend
        <4>4. chunk' = Stretch(b, b)
          BY <4>1, StretchEmpty
        <4> QED BY <2>1, <3>1, <4>1, <4>3, <4>4
      <3>6. CASE ReaderEnds
        BY <2>1, <3>1, <3>6 DEF ReaderEnds
      <3>7. CASE HostSends
        <4>1. /\ host = "talking" /\ hostSent' = hostSent + 1 /\ down' = Append(down, hostSent + 1)
              /\ UNCHANGED <<chan, chunk, host>>
          BY <3>7 DEF HostSends
        <4>2. c = hostSent /\ down' = Stretch(b, c + 1) /\ c + 1 \in Nat /\ b <= c + 1
          <5>1. c = hostSent /\ down = Stretch(b, c)
            BY <3>1, <4>1
          <5>2. Append(Stretch(b, c), c + 1) = Stretch(b, c + 1)
            BY <3>1, StretchNext
          <5>3. c + 1 \in Nat /\ b <= c + 1
            BY <3>1
          <5> QED BY <4>1, <5>1, <5>2, <5>3
        <4> QED BY <2>1, <3>1, <4>1, <4>2
      <3>8. CASE HostEnds \/ HostTimesOut \/ HostSeesEnd
        <4>1. host' = "gone" /\ UNCHANGED <<chan, chunk, hostSent>>
          BY <3>8 DEF HostEnds, HostTimesOut, HostSeesEnd, HostCloses
        <4>2. PICK k \in 0 .. Len(down) : down' = SubSeq(down, 1, k)
          BY <3>8 DEF HostEnds, HostTimesOut, HostSeesEnd, HostCloses
        <4>3. k \in 0 .. c - b /\ b + k \in Nat /\ b <= b + k /\ b + k <= hostSent
          BY <1>t, <3>1, <3>2, <4>2
        <4>4. down' = Stretch(b, b + k)
          BY <3>1, <4>2, <4>3, StretchParts
        <4> QED BY <2>1, <3>1, <4>1, <4>3, <4>4
      <3> QED BY <1>7, <3>4, <3>5, <3>6, <3>7, <3>8
    <2> QED BY <2>2, <2>3
  <1>8. CASE HostReads
    <2>1. UNCHANGED <<outbox, guestGot, hostSent, chan, chunk, down, pc, relay>> /\ host # "gone"
      BY <1>8 DEF HostReads
    <2> QED BY <2>1 DEF Delivered, Carried
  <1>9. CASE GuestReads
    <2>1. /\ outbox # <<>> /\ outbox' = Tail(outbox)
          /\ guestGot' = IF Head(outbox) = CAPS_SIGNAL THEN guestGot ELSE guestGot \o Head(outbox)
          /\ UNCHANGED <<hostSent, chan, chunk, down, pc, relay, host>>
      BY <1>9 DEF GuestReads
    <2>2. PICK c \in Nat : Piece(Head(outbox), g, c) /\ g <= c /\ Span(outbox', c, p)
      BY <1>t, <1>p, <2>1, SpanTail
    <2>3. guestGot' = UpTo(c)
      <3>1. CASE Head(outbox) = CAPS_SIGNAL
        <4>1. g = c
          <5>1. ASSUME CAPS_SIGNAL = Stretch(g, c) PROVE FALSE
            <6>1. CAPS_SIGNAL[1] = 0 /\ Len(CAPS_SIGNAL) = 1
              BY DEF CAPS_SIGNAL
            <6>2. c - g = 1
              BY <1>t, <2>2, <5>1, <6>1, UpToOn
            <6>3. Stretch(g, c)[1] = g + 1
              BY <6>2 DEF Stretch
            <6> HIDE DEF g
            <6> QED BY <1>t, <5>1, <6>1, <6>3
          <5> QED BY <2>2, <3>1, <5>1 DEF Piece
        <4> QED BY <1>t, <2>1, <3>1, <4>1
      <3>2. CASE Head(outbox) # CAPS_SIGNAL
        BY <1>t, <2>1, <2>2, <3>2, UpToOn, ZenonT(30) DEF Piece
      <3> QED BY <3>1, <3>2
    <2>4. Len(guestGot') = c
      BY <2>3, UpToPart
    <2>5. Carried(p)'
      BY <1>p, <2>1 DEF Carried
    <2> QED BY <1>p, <2>1, <2>2, <2>3, <2>4, <2>5 DEF Delivered
  <1>10. CASE GuestJoins \/ GuestDecides \/ GuestSends \/ GuestLeaves \/ Relisten \/ RoomExpires \/ Cut \/ UNCHANGED vars
    <2>1. UNCHANGED <<outbox, guestGot, hostSent, pc, relay, host, chan, chunk, down>>
      BY <1>10 DEF GuestJoins, GuestDecides, GuestSends, GuestLeaves, Relisten, RoomExpires, Cut, vars
    <2> QED BY <2>1, DeliveredSame
  <1> QED BY <1>1, <1>2, <1>3, <1>4, <1>5, <1>6, <1>7, <1>8, <1>9, <1>10 DEF Next, Bridge, Reader, Host, Guest

LEMMA FramedSame ==
  ASSUME Framed, UNCHANGED <<outbox, kind, chunk>>, UNCHANGED chan \/ chan' = <<>>,
         UNCHANGED reader \/ (reader = "reading" /\ reader' = "ended"),
         reader # "none" => UNCHANGED relay, guestSent > 0 => guestSent' > 0,
         pc' # "idle" => pc # "idle"
  PROVE  Framed'
  BY DEF Framed

LEMMA FramedStep ==
  Types /\ Control /\ Upstream /\ Upstream' /\ Delivered /\ Framed /\ [Next]_vars => Framed'
  <1> SUFFICES ASSUME Types, Control, Upstream, Upstream', Delivered, Framed, [Next]_vars PROVE Framed'
    OBVIOUS
  <1> USE DEF bridge, panel, tcp, ends, visitor, web
  <1>t. outbox \in Seq(Seq(Nat)) /\ chan \in Seq(Seq(Nat)) /\ guestSent \in Nat
    BY BridgeAssumption DEF Types, Scalars
  <1>1. CASE Enable \/ Upgrade
    <2>1. outbox' = <<>> /\ reader' = "none" /\ kind' = "none"
      BY <1>1 DEF Enable, Upgrade, Fresh
    <2> QED BY <2>1 DEF Framed
  <1>2. CASE Dial \/ Phase1 \/ OnPaired \/ Route \/ Connect
    <2>1. UNCHANGED <<outbox, kind, chunk, chan, reader, relay, guestSent>> /\ pc # "idle"
      BY <1>2, Phase1Cases DEF Dial, OnPaired, Route, Connect, Over
    <2> QED BY <2>1, FramedSame
  <1>3. CASE SendCaps
    <2>1. /\ UNCHANGED <<kind, chunk, chan, reader, relay, guestSent>> /\ pc # "idle"
          /\ UNCHANGED outbox \/ outbox' = Append(outbox, CAPS_SIGNAL)
      BY <1>3 DEF SendCaps, Over
    <2>2. CASE UNCHANGED outbox
      BY <2>1, <2>2, FramedSame
    <2>3. CASE outbox' = Append(outbox, CAPS_SIGNAL)
      <3>1. /\ Len(outbox) \in Nat /\ Len(outbox') = Len(outbox) + 1 /\ outbox'[Len(outbox) + 1] = CAPS_SIGNAL
            /\ \A i \in 1 .. Len(outbox) : outbox'[i] = outbox[i]
        BY <1>t, <2>3
      <3>2. reader = "none" => \A i \in 1 .. Len(outbox') : outbox'[i] = CAPS_SIGNAL
        BY <3>1 DEF Framed
      <3>3. kind = "plain" => \A i \in 1 .. Len(outbox') : Whole(outbox'[i])
        BY <3>1 DEF Framed, Whole
      <3> QED BY <2>1, <3>2, <3>3 DEF Framed
    <2> QED BY <2>1, <2>2, <2>3
  <1>4. CASE First
    <2>1. pc = "first" /\ reader = "none" /\ chan = <<>> /\ UNCHANGED <<outbox, chan, chunk, kind, guestSent>>
      BY <1>4, FirstCases DEF Control, Before
    <2>2. CASE reader' = "none"
      BY <2>1, <2>2 DEF Framed
    <2>3. CASE reader' # "none"
      <3>1. reader' = "reading" /\ pc' = "drain" /\ relay' # "none"
        BY <1>4, <2>1, <2>3, FirstCases DEF for_first_message
      <3>2. guestSent' > 0
        BY <3>1 DEF Upstream
      <3>3. \A i \in 1 .. Len(outbox') : Whole(outbox'[i])
        BY <2>1 DEF Framed, Whole
      <3> QED BY <2>1, <3>1, <3>2, <3>3 DEF Framed
    <2> QED BY <2>2, <2>3
  <1>5. CASE Drain
    <2>1. /\ UNCHANGED <<kind, chunk, reader, relay, guestSent>> /\ pc # "idle"
          /\ \/ UNCHANGED outbox /\ (UNCHANGED chan \/ chan' = <<>>)
             \/ chan # <<>> /\ outbox' = Append(outbox, Head(chan)) /\ chan' = Tail(chan)
      BY <1>5, DrainCases
    <2>2. CASE UNCHANGED outbox /\ (UNCHANGED chan \/ chan' = <<>>)
      BY <2>1, <2>2, FramedSame
    <2>3. CASE chan # <<>> /\ outbox' = Append(outbox, Head(chan)) /\ chan' = Tail(chan)
      <3>1. /\ Len(outbox) \in Nat /\ Len(outbox') = Len(outbox) + 1 /\ outbox'[Len(outbox) + 1] = chan[1]
            /\ \A i \in 1 .. Len(outbox) : outbox'[i] = outbox[i]
        BY <1>t, <2>3
      <3>2. /\ Len(chan) > 0 /\ 1 \in 1 .. Len(chan) /\ Len(chan') = Len(chan) - 1
            /\ \A i \in 1 .. Len(chan') : chan'[i] = chan[i + 1] /\ i + 1 \in 1 .. Len(chan)
        BY <1>t, <2>3
      <3>3. reader # "none"
        BY <2>3 DEF Control
      <3>4. ASSUME kind = "plain"
            PROVE  /\ \A i \in 1 .. Len(outbox') : Whole(outbox'[i])
                   /\ \A i \in 1 .. Len(chan') : FrameOf(chan'[i])
        <4>1. FrameOf(chan[1])
          BY <3>2, <3>4 DEF Framed
        <4>2. \A i \in 1 .. Len(outbox') : Whole(outbox'[i])
          BY <3>1, <3>4, <4>1 DEF Framed, Whole
        <4>3. \A i \in 1 .. Len(chan') : FrameOf(chan'[i])
          BY <3>2, <3>4 DEF Framed
        <4> QED BY <4>2, <4>3
      <3>5. reader' # "none" /\ (kind' = "plain" /\ reader' = "sending" /\ pc' # "idle" => FrameOf(chunk'))
        BY <2>1, <3>3 DEF Framed
      <3>6. relay' # "none" /\ guestSent' > 0
        BY <2>1, <3>3 DEF Framed
      <3> QED BY <2>1, <3>4, <3>5, <3>6 DEF Framed
    <2> QED BY <2>1, <2>2, <2>3
  <1>6. CASE Read \/ Write
    <2>1. UNCHANGED <<outbox, kind, chunk, reader, relay, guestSent>> /\ pc \in {"read", "write"} /\ (UNCHANGED chan \/ chan' = <<>>)
      BY <1>6, ReadCases DEF ends, visitor
    <2> QED BY <2>1, FramedSame
  <1>7. CASE ReaderReads
    <2>1. /\ reader = "reading" /\ reader' = "sending"
          /\ UNCHANGED <<outbox, chan, kind, relay, guestSent, pc>>
      BY <1>7 DEF ReaderReads
    <2>2. ASSUME kind = "plain", pc # "idle" PROVE FrameOf(chunk')
      <3>1. relay = "reframe"
        BY <2>1, <2>2 DEF Framed, Upstream, Types, Scalars
      <3>2. PICK k \in 1 .. Len(down) : k = Part /\ chunk' = SubSeq(down, 1, k)
        BY <1>7, <3>1 DEF ReaderReads
      <3>3. PICK b \in Nat, c \in Nat : b <= c /\ c <= hostSent /\ down = Stretch(b, c) /\ \E q \in Nat : b = q * Part
        BY <2>2, <3>1 DEF Delivered, Carried
      <3>4. PICK q \in Nat : b = q * Part
        BY <3>3
      <3>5. Len(down) = c - b
        BY <3>3, UpToOn
      <3>6. k \in 0 .. c - b
        BY <3>2, <3>5
      <3>7. chunk' = Stretch(b, b + Part)
        BY <3>2, <3>3, <3>6, StretchParts
      <3>8. q \in 0 .. DownMax
        <4>1. q <= b /\ hostSent \in 0 .. DownMax
          BY <3>4, Multiples DEF Types, Scalars
        <4> QED BY <3>3, <4>1, BridgeAssumption
      <3> QED BY <3>4, <3>7, <3>8, FrameIs
    <2> QED BY <2>1, <2>2 DEF Framed
  <1>8. CASE ReaderSends
    <2>1. /\ reader = "sending" /\ reader' \in {"reading", "ended"}
          /\ UNCHANGED <<outbox, kind, relay, guestSent, pc>>
          /\ UNCHANGED chan \/ (pc # "idle" /\ chan' = Append(chan, chunk))
      BY <1>8 DEF ReaderSends
    <2>2. kind = "plain" => \A i \in 1 .. Len(chan') : FrameOf(chan'[i])
      <3>1. CASE UNCHANGED chan
        BY <3>1 DEF Framed
      <3>2. CASE pc # "idle" /\ chan' = Append(chan, chunk)
        <4>1. /\ Len(chan) \in Nat /\ Len(chan') = Len(chan) + 1 /\ chan'[Len(chan) + 1] = chunk
              /\ \A i \in 1 .. Len(chan) : chan'[i] = chan[i]
          BY <1>t, <3>2
        <4> QED BY <2>1, <3>2, <4>1 DEF Framed
      <3> QED BY <2>1, <3>1, <3>2
    <2> QED BY <2>1, <2>2 DEF Framed
  <1>9. CASE ReaderEnds \/ Host \/ Relisten \/ RoomExpires \/ Cut \/ UNCHANGED vars
    <2>1. /\ UNCHANGED <<outbox, kind, chunk, chan, relay, guestSent, pc>>
          /\ UNCHANGED reader \/ (reader = "reading" /\ reader' = "ended")
      BY <1>9 DEF ReaderEnds, Host, HostReads, HostSends, HostEnds, HostTimesOut, HostSeesEnd, HostCloses,
                  Relisten, RoomExpires, Cut, vars
    <2> QED BY <2>1, FramedSame
  <1>10. CASE GuestJoins \/ GuestSends \/ GuestLeaves
    <2>1. /\ UNCHANGED <<outbox, kind, chunk, chan, relay, reader, pc>>
          /\ UNCHANGED guestSent \/ guestSent' = guestSent + 1
      BY <1>10 DEF GuestJoins, GuestSends, GuestLeaves
    <2>2. guestSent > 0 => guestSent' > 0
      BY <1>t, <2>1
    <2> QED BY <2>1, <2>2, FramedSame
  <1>11. CASE GuestDecides
    <2>1. guest = "deciding" /\ UNCHANGED <<outbox, chunk, chan, relay, reader, pc>>
      BY <1>11 DEF GuestDecides
    <2>2. reader = "none"
      <3>1. guestSent = 0
        BY <2>1 DEF Control
      <3> QED BY <3>1 DEF Framed
    <2>3. chan = <<>> /\ \A i \in 1 .. Len(outbox) : Whole(outbox[i])
      BY <2>2 DEF Control, Framed, Whole
    <2> QED BY <2>1, <2>2, <2>3 DEF Framed
  <1>12. CASE GuestReads
    <2>1. outbox # <<>> /\ outbox' = Tail(outbox) /\ UNCHANGED <<kind, chunk, chan, relay, reader, pc, guestSent>>
      BY <1>12 DEF GuestReads
    <2>2. \A i \in 1 .. Len(outbox') : i + 1 \in 1 .. Len(outbox) /\ outbox'[i] = outbox[i + 1]
      BY <1>t, <2>1
    <2> QED BY <2>1, <2>2 DEF Framed
  <1> QED BY <1>1, <1>2, <1>3, <1>4, <1>5, <1>6, <1>7, <1>8, <1>9, <1>10, <1>11, <1>12 DEF Next, Bridge, Reader, Guest

-----------------------------------------------------------------------------
(* The inductive invariant.                                                *)
IInv == Types /\ Control /\ Announced /\ Upstream /\ Delivered /\ Framed

LEMMA Inductive == Spec => []IInv
  <1>1. Init => IInv
    <2>1. Init => Announced
      BY DEF Init, Announced
    <2> QED BY <2>1, TypesInit, UpstreamInit, DownInit DEF IInv
  <1>2. IInv /\ [Next]_vars => IInv'
    BY TypesStep, ControlStep, AnnouncedStep, UpstreamStep, DeliveredStep, FramedStep DEF IInv
  <1> QED BY <1>1, <1>2, PTL DEF Spec

(* What the panel shows is what its room is, and both ends of a session    *)
(* can read what the bridge relays: a first message that is the preamble,  *)
(* and only that, makes it pass everything on as it is.                    *)
THEOREM BothEndsSound == Spec => []BridgeSound
  <1>1. IInv => CodeIsLive
    BY DEF IInv, Control, CodeIsLive, Types, Scalars, Points, Before
  <1>2. IInv => BothEndsRead
    <2> SUFFICES ASSUME IInv PROVE BothEndsRead
      OBVIOUS
    <2>1. heard # "none" => heard = (IF kind = "secure" THEN "tunnel" ELSE "frames")
      BY DEF IInv, Upstream, Voice
    <2>2. kind = "plain" => \A i \in 1 .. Len(outbox) : (outbox[i] = CAPS_SIGNAL \/ FrameOf(outbox[i]))
      BY DEF IInv, Framed, Whole
    <2> QED BY <2>1, <2>2 DEF BothEndsRead
  <1> QED BY <1>1, <1>2, Inductive, PTL DEF BridgeSound

-----------------------------------------------------------------------------
(* Each direction implements Pipe.                                         *)

LEMMA UpwardStep == IInv /\ IInv' /\ [Next]_vars => [Upward!Next]_(Upward!vars)
  <1> SUFFICES ASSUME IInv, IInv', [Next]_vars PROVE [Upward!Next]_(Upward!vars)
    OBVIOUS
  <1> USE DEF bridge, panel, tcp, ends, visitor, web
  <1>t. /\ guestSent \in Nat /\ Len(hostGot) \in Nat /\ hostGot \in Seq(Nat) /\ UpMax \in Nat /\ UpMax >= 1
    BY BridgeAssumption DEF IInv, Types, Scalars
  <1>1. CASE Enable \/ Upgrade
    <2>1. hostGot' = <<>> /\ guestSent' = 0
      BY <1>1 DEF Enable, Upgrade, Fresh
    <2>2. UpTo(0) = <<>>
      BY DEF UpTo
    <2> QED BY <2>1, <2>2 DEF Upward!Next, Upward!Renew
  <1>2. CASE UNCHANGED <<guestSent, hostGot>>
    BY <1>2 DEF Upward!vars
  <1>3. ASSUME guestSent' = guestSent + 1, guestSent < UpMax, UNCHANGED hostGot
        PROVE  Upward!Next
    <2>1. UpTo(guestSent') = Append(UpTo(guestSent), guestSent + 1) /\ guestSent + 1 \in 1 .. UpMax
      <3>1. Append(UpTo(guestSent), guestSent + 1) = UpTo(guestSent + 1)
        BY <1>t, UpToNext
      <3>2. guestSent + 1 \in 1 .. UpMax
        BY <1>t, <1>3
      <3> QED BY <1>3, <3>1, <3>2
    <2> QED BY <1>3, <2>1 DEF Upward!Next, Upward!Send
  <1>4. CASE GuestDecides
    <2>1. /\ UNCHANGED hostGot /\ guest = "deciding"
          /\ UNCHANGED guestSent \/ guestSent' = 1
      BY <1>4 DEF GuestDecides
    <2>2. guestSent = 0
      BY <2>1 DEF IInv, Control
    <2> QED BY <1>t, <1>2, <1>3, <2>1, <2>2
  <1>5. CASE GuestSends
    <2>1. guestSent' = guestSent + 1 /\ guestSent < UpMax /\ UNCHANGED hostGot
      BY <1>5 DEF GuestSends
    <2> QED BY <1>3, <2>1
  <1>6. CASE HostReads
    <2> DEFINE k == Len(hostGot) + 1
    <2>1. UNCHANGED guestSent /\ Len(hostGot') = k
      BY <1>t, <1>6 DEF HostReads
    <2>2. hostGot' = UpTo(k) /\ k <= guestSent
      <3>1. hostGot' = UpTo(Len(hostGot')) /\ Len(hostGot') + Len(up') <= guestSent' /\ Len(up') \in Nat
        BY DEF IInv, Upstream, Types
      <3> HIDE DEF k
      <3>2. k \in Nat
        BY <1>t DEF k
      <3> QED BY <1>t, <2>1, <3>1, <3>2
    <2>3. k \in 0 .. guestSent
      BY <1>t, <2>2
    <2>4. hostGot' = SubSeq(UpTo(guestSent), 1, k) /\ Len(UpTo(guestSent)) = guestSent
      BY <1>t, <2>2, <2>3, UpToPart
    <2>5. k \in (Len(hostGot) + 1) .. Len(UpTo(guestSent))
      BY <1>t, <2>2, <2>4
    <2>6. UpTo(guestSent') = UpTo(guestSent)
      BY <2>1
    <2> HIDE DEF k
    <2> QED BY <2>4, <2>5, <2>6 DEF Upward!Next, Upward!Receive
  <1>7. CASE Bridge \/ Reader \/ HostSends \/ HostEnds \/ HostTimesOut \/ HostSeesEnd \/ GuestJoins \/ GuestReads
             \/ GuestLeaves \/ Relisten \/ RoomExpires \/ Cut \/ UNCHANGED vars
    <2>1. UNCHANGED <<guestSent, hostGot>>
      BY <1>7 DEF Bridge, Reader, Dial, Phase1, OnPaired, SendCaps, Route, Connect, First, Drain, Read, Write,
                  ReaderReads, ReaderEnds, ReaderSends, HostSends, HostEnds, HostTimesOut, HostSeesEnd, HostCloses,
                  GuestJoins, GuestReads, GuestLeaves, Relisten, RoomExpires, Cut, vars
    <2> QED BY <1>2, <2>1
  <1> QED BY <1>1, <1>4, <1>5, <1>6, <1>7 DEF Next, Host, Guest

LEMMA DownwardStep == IInv /\ IInv' /\ [Next]_vars => [Downward!Next]_(Downward!vars)
  <1> SUFFICES ASSUME IInv, IInv', [Next]_vars PROVE [Downward!Next]_(Downward!vars)
    OBVIOUS
  <1> USE DEF bridge, panel, tcp, ends, visitor, web
  <1>t. hostSent \in Nat /\ Len(guestGot) \in Nat /\ guestGot \in Seq(Nat) /\ DownMax \in Nat /\ Part \in Nat
    BY BridgeAssumption DEF IInv, Types, Scalars
  <1>1. CASE Enable \/ Upgrade
    <2>1. guestGot' = <<>> /\ hostSent' = 0
      BY <1>1 DEF Enable, Upgrade, Fresh
    <2>2. UpTo(0) = <<>>
      BY DEF UpTo
    <2> QED BY <2>1, <2>2 DEF Downward!Next, Downward!Renew
  <1>2. CASE UNCHANGED <<hostSent, guestGot>>
    BY <1>2 DEF Downward!vars
  <1>3. CASE HostSends
    <2>1. hostSent' = hostSent + 1 /\ hostSent < DownMax /\ UNCHANGED guestGot
      BY <1>t, <1>3 DEF HostSends
    <2>2. UpTo(hostSent') = Append(UpTo(hostSent), hostSent + 1) /\ hostSent + 1 \in 1 .. DownMax
      <3>1. Append(UpTo(hostSent), hostSent + 1) = UpTo(hostSent + 1)
        BY <1>t, UpToNext
      <3>2. hostSent + 1 \in 1 .. DownMax
        BY <1>t, <2>1
      <3> QED BY <2>1, <3>1, <3>2
    <2> QED BY <2>1, <2>2 DEF Downward!Next, Downward!Send
  <1>4. CASE GuestReads
    <2> DEFINE k == Len(guestGot')
    <2>1. guestGot' = UpTo(k) /\ k \in Nat
      BY DEF IInv, Delivered, Types
    <2>2. UNCHANGED hostSent
      BY <1>4 DEF GuestReads
    <2>3. k <= hostSent
      <3>1. PICK p \in Nat : Span(outbox', k, p) /\ p <= hostSent'
        BY DEF IInv, Delivered
      <3>2. k <= p
        <4>1. outbox' \in Seq(Seq(Nat))
          BY DEF IInv, Types
        <4> HIDE DEF k
        <4> QED BY <2>1, <3>1, <4>1, SpanEnds
      <3> QED BY <1>t, <2>1, <2>2, <3>1, <3>2
    <2>4. Len(guestGot) <= k
      <3>1. CASE UNCHANGED guestGot
        BY <1>t, <3>1
      <3>2. CASE outbox # <<>> /\ guestGot' = guestGot \o Head(outbox)
        <4>1. Head(outbox) \in Seq(Nat)
          BY <3>2 DEF IInv, Types
        <4> QED BY <1>t, <3>2, <4>1
      <3> QED BY <1>4, <3>1, <3>2 DEF GuestReads
    <2>5. CASE k = Len(guestGot)
      <3>1. guestGot = UpTo(Len(guestGot))
        BY DEF IInv, Delivered
      <3> QED BY <1>2, <2>1, <2>2, <2>5, <3>1
    <2>6. CASE k # Len(guestGot)
      <3>1. k \in 0 .. hostSent
        BY <1>t, <2>1, <2>3
      <3>2. guestGot' = SubSeq(UpTo(hostSent), 1, k) /\ Len(UpTo(hostSent)) = hostSent
        <4> HIDE DEF k
        <4> QED BY <1>t, <2>1, <3>1, UpToPart
      <3>3. k \in (Len(guestGot) + 1) .. Len(UpTo(hostSent))
        BY <1>t, <2>1, <2>3, <2>4, <2>6, <3>2
      <3>4. UpTo(hostSent') = UpTo(hostSent)
        BY <2>2
      <3> HIDE DEF k
      <3> QED BY <3>2, <3>3, <3>4 DEF Downward!Next, Downward!Receive
    <2> QED BY <2>5, <2>6
  <1>5. CASE Bridge \/ Reader \/ HostReads \/ HostEnds \/ HostTimesOut \/ HostSeesEnd \/ GuestJoins \/ GuestDecides
             \/ GuestSends \/ GuestLeaves \/ Relisten \/ RoomExpires \/ Cut \/ UNCHANGED vars
    <2>1. UNCHANGED <<hostSent, guestGot>>
      BY <1>5 DEF Bridge, Reader, Dial, Phase1, OnPaired, SendCaps, Route, Connect, First, Drain, Read, Write,
                  ReaderReads, ReaderEnds, ReaderSends, HostReads, HostEnds, HostTimesOut, HostSeesEnd, HostCloses,
                  GuestJoins, GuestDecides, GuestSends, GuestLeaves, Relisten, RoomExpires, Cut, vars
    <2> QED BY <1>2, <2>1
  <1> QED BY <1>1, <1>3, <1>4, <1>5 DEF Next, Host, Guest

(* Through room, buffers, channel and the two threads, whatever ends and   *)
(* whenever: the host receives a beginning of what the guest sent and the  *)
(* guest one of what the host sent, in order and each thing once.          *)
THEOREM BothWays == Spec => Pipes
  <1>1. Init => Upward!Init /\ Downward!Init
    <2>1. UpTo(0) = <<>>
      BY DEF UpTo
    <2> QED BY <2>1 DEF Init, Upward!Init, Downward!Init
  <1>2. Spec => Upward!Spec
    BY <1>1, UpwardStep, Inductive, PTL DEF Spec, Upward!Spec
  <1>3. Spec => Downward!Spec
    BY <1>1, DownwardStep, Inductive, PTL DEF Spec, Downward!Spec
  <1> QED BY <1>2, <1>3 DEF Pipes, UpwardPipe, DownwardPipe
=============================================================================

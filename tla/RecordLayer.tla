------------------------------- MODULE RecordLayer -------------------------------
(***************************************************************************)
(* One connection from the client's first byte on: the client's handshake  *)
(* (transport/src/session.rs), driven over a socket or, in a tab, over a   *)
(* WebSocket (protocol-wasm/src/tunnel.rs), and after it the tunnel, whose *)
(* two directions are sealed into numbered records by SecureStream         *)
(* (transport/src/lib.rs) and cut anywhere by whatever carries them.       *)
(*                                                                         *)
(* The carrier's bytes are pieces: a handshake message and a record are    *)
(* two each, so that a read may end inside either.  A frame of the protocol*)
(* is a length and then a body of Body units, in two writes.  Records take *)
(* up to MaxPlain units.  Cryptography is ideal: a record opens if its     *)
(* number is the next one.                                                 *)
(***************************************************************************)
EXTENDS Integers, SequencesExt

CONSTANTS
  MaxFrames, \* frames the two ends send in a connection
  Body,      \* units in a frame's body
  MaxPlain,  \* units a record may carry (MAX_PLAINTEXT)
  Threads    \* threads an end might have

ASSUME RecordAssumption ==
  /\ MaxFrames \in Nat /\ Body \in Nat \ {0} /\ MaxPlain \in Nat \ {0}
  /\ 1 \in Threads

Directions == {"up", "down"}

VARIABLES
  mode,      \* the client pairs ("pair") or reconnects by key ("known")
  tab,       \* the client is a browser's tab, or else native
  kind,      \* the host: "current", "locked", "older", "newer", or a "stranger" to the client
  agreed,    \* the code is the host's, or the host has the client on its list
  stage,     \* ClientHandshake's Stage, or "Done"
  heard,     \* whether anything has arrived
  hsbuf,     \* ClientHandshake::buf
  failure,   \* what the client reports
  host,      \* the host in its half of the handshake, or "up" or "gone"
  wire,      \* per direction: the pieces under way
  shut,      \* the directions whose writer has closed them
  cut,       \* the carrier has failed
  sealed,    \* per direction: records sealed so far
  out,       \* per direction and thread: sealed, and not yet written
  doing,     \* per direction and thread: "idle", "length", "body" or "dead"
  sent,      \* per direction: frames whose writing began
  done,      \* per direction: how many of them were written to the end
  opened,    \* per direction: records opened so far
  partial,   \* per direction: pieces of a record that is not whole
  plain,     \* per direction: opened and not yet taken
  buf,       \* per direction: units of a frame that is not whole
  got,       \* per direction: frames received
  fate       \* per direction: its reader "reads", or saw the end "clean", "truncated",
             \* "broken", or "forged": a record that does not open

hs == <<mode, tab, kind, agreed>>
client == <<stage, heard, hsbuf, failure>>
carrier == <<shut, cut>>
writers == <<sealed, out, doing, sent, done>>
readers == <<opened, partial, plain, buf, got, fate>>
connection == <<hs, client, host, wire, carrier, writers, readers>>

(* Pieces of the two halves of a handshake message, and of a record.       *)
Hello(says) == [half \in 1 .. 2 |-> [as |-> says, n |-> 0, has |-> <<>>]]
Record(n, units) == [half \in 1 .. 2 |-> [as |-> "record", n |-> n, has |-> units]]
Least(a, b) == IF a < b THEN a ELSE b
Take(s, k) == SubSeq(s, 1, k)
After(s, k) == SubSeq(s, k + 1, Len(s))

(* Session::seal: chunks of at most MaxPlain, numbered on from n.          *)
seal(n, units) ==
  LET chunks == (Len(units) + (MaxPlain - 1)) \div MaxPlain
      chunk(i) == SubSeq(units, i * MaxPlain + 1, Least((i + 1) * MaxPlain, Len(units)))
      piece(p) == [as |-> "record", n |-> n + (p \div 2), has |-> chunk(p \div 2)]
  IN  [bytes |-> [p \in 1 .. 2 * chunks |-> piece(p - 1)], n |-> n + chunks]

(* Session::feed: every record that is whole now is opened, in order; the  *)
(* rest waits.  One that does not open is the end of the tunnel.           *)
feed(n, bytes) ==
  LET whole == Len(bytes) \div 2
      rec(i) == bytes[2 * i]
  IN  [ok |-> \A i \in 1 .. whole : rec(i).as = "record" /\ rec(i).n = n + i - 1,
       plain |-> FlattenSeq([i \in 1 .. whole |-> rec(i).has]),
       partial |-> After(bytes, 2 * whole), n |-> n + whole]

(* Mutant: the length is left on the body, and its end cut off.            *)
next_frames_Shifted(units) ==
  LET size == Body + 1
      whole == Len(units) \div size
  IN  [bodies |-> [i \in 1 .. whole |-> SubSeq(units, (i - 1) * size + 1, i * size - 1)],
       rest |-> After(units, whole * size)]

(* FrameReader::next_frame in a loop, and read_frame on a stream: bodies   *)
(* that are whole.  A length names the frame it belongs to.                *)
next_frames(units) ==
  LET size == Body + 1
      whole == Len(units) \div size
  IN  [bodies |-> [i \in 1 .. whole |-> SubSeq(units, (i - 1) * size + 2, i * size)],
       rest |-> After(units, whole * size)]

length(f) == <<[frame |-> f, at |-> 0]>>
body(f) == [i \in 1 .. Body |-> [frame |-> f, at |-> i]]

(* The verdict on a client that is known, or not.                          *)
verdict(ok) == <<[frame |-> 0, at |-> IF ok THEN 0 ELSE 1]>>

Words == {"opening", "proof", "go", "reply", "locked", "newer", "record"}
Units == [frame : Nat, at : Nat]
Pieces == [as : Words, n : Nat, has : Seq(Units)]
Frames == {body(f) : f \in 1 .. MaxFrames}

HandshakeTypes ==
  /\ mode \in {"pair", "known"} /\ tab \in BOOLEAN /\ agreed \in BOOLEAN
  /\ kind \in {"current", "locked", "older", "newer", "stranger"}
  /\ stage \in {"AwaitPake", "AwaitPairReply", "AwaitKnownReply", "AwaitVerdict", "Over", "Done"}
  /\ heard \in BOOLEAN /\ hsbuf \in Seq(Pieces)
  /\ failure \in {"none", "other", "wrong-code", "host-locked", "not-paired", "unknown-host",
                  "older-host", "unsupported"}
  /\ host \in {"opening", "proof", "key", "up", "gone"} /\ cut \in BOOLEAN

TunnelTypes ==
  /\ wire \in [Directions -> Seq(Pieces)] /\ shut \subseteq Directions
  /\ sealed \in [Directions -> Nat] /\ out \in [Directions -> [Threads -> Seq(Pieces)]]
  /\ doing \in [Directions -> [Threads -> {"idle", "length", "body", "dead"}]]
  /\ sent \in [Directions -> Seq(Frames)] /\ done \in [Directions -> Nat]
  /\ opened \in [Directions -> Nat] /\ partial \in [Directions -> Seq(Pieces)]
  /\ plain \in [Directions -> Seq(Units)] /\ buf \in [Directions -> Seq(Units)]
  /\ got \in [Directions -> Seq(Frames)]
  /\ fate \in [Directions -> {"reads", "clean", "truncated", "broken", "forged"}]

RecordTypes == HandshakeTypes /\ TunnelTypes

RecordInit ==
  /\ mode \in {"pair", "known"} /\ tab \in BOOLEAN
  /\ kind \in {"current", "locked", "older", "newer", "stranger"} /\ agreed \in BOOLEAN
  /\ stage = IF mode = "pair" THEN "AwaitPake" ELSE "AwaitKnownReply"
  /\ heard = FALSE /\ hsbuf = <<>> /\ failure = "none"
  /\ host = "opening" /\ shut = {} /\ cut = FALSE
  /\ wire = [d \in Directions |-> IF d = "up" THEN Hello("opening") ELSE <<>>]
  /\ sealed = [d \in Directions |-> 0] /\ opened = [d \in Directions |-> 0]
  /\ out = [d \in Directions |-> [t \in Threads |-> <<>>]]
  /\ doing = [d \in Directions |-> [t \in Threads |-> "idle"]]
  /\ sent = [d \in Directions |-> <<>>] /\ done = [d \in Directions |-> 0]
  /\ partial = [d \in Directions |-> <<>>] /\ plain = [d \in Directions |-> <<>>]
  /\ buf = [d \in Directions |-> <<>>] /\ got = [d \in Directions |-> <<>>]
  /\ fate = [d \in Directions |-> "reads"]

-----------------------------------------------------------------------------
(* The handshake.                                                          *)

Push(d, pieces) == wire' = [wire EXCEPT ![d] = @ \o pieces]

(* accept and accept_v2, as the client sees them: they read one message    *)
(* exactly, and answer, or close without a word.  What they check is in    *)
(* HostLoop.                                                               *)
HostAnswers(next, answer) ==
  /\ Len(wire["up"]) >= 2
  /\ wire' = [up |-> After(wire["up"], 2), down |-> wire["down"] \o answer]
  /\ host' = IF answer = <<>> THEN "gone" ELSE next
  /\ UNCHANGED <<hs, client, carrier, readers>>

HostOpening ==
  /\ host = "opening" /\ UNCHANGED writers
  /\ CASE kind = "older" -> HostAnswers("gone", <<>>)
       [] kind = "locked" -> HostAnswers("gone", Hello("locked"))
       [] kind = "newer" -> HostAnswers("gone", Hello("newer"))
       [] OTHER -> HostAnswers(IF mode = "pair" THEN "proof" ELSE "key", Hello("go"))

HostProof ==
  /\ host = "proof" /\ UNCHANGED writers
  /\ HostAnswers("key", IF agreed THEN Hello("reply") ELSE <<>>)

(* The verdict is the tunnel's first record.                               *)
HostVerdict ==
  /\ host = "key"
  /\ LET ok == mode = "pair" \/ agreed
     IN  HostAnswers(IF ok THEN "up" ELSE "gone", Record(0, verdict(ok)))
  /\ sealed' = [sealed EXCEPT !["down"] = 1]
  /\ UNCHANGED <<out, doing, sent, done>>

(* A read that finds nobody, or times out: in ten seconds, or in the one   *)
(* of refuse_locked.  A carrier too slow for that counts as cut.           *)
HostGivesUp ==
  /\ host \in {"opening", "proof", "key"} /\ Len(wire["up"]) < 2 /\ (cut \/ "up" \in shut)
  /\ host' = "gone"
  /\ UNCHANGED <<hs, client, wire, carrier, writers, readers>>

(* Mutant: one that refused without a word stays on the line.              *)
HostGone_Lingers ==
  /\ host = "gone" /\ "down" \notin shut /\ wire["down"] # <<>>
  /\ shut' = shut \cup {"down"}
  /\ UNCHANGED <<hs, client, host, wire, cut, writers, readers>>

(* A host that is through with a client closes its end.                    *)
HostGone ==
  /\ host = "gone" /\ "down" \notin shut
  /\ shut' = shut \cup {"down"}
  /\ UNCHANGED <<hs, client, host, wire, cut, writers, readers>>

-----------------------------------------------------------------------------
(* ClientHandshake::feed, for a chunk as long as the carrier made it.  A   *)
(* message that is not whole waits in buf.  One whole message makes one    *)
(* transition, since the host writes no more until it is answered.         *)

Waits(all) == hsbuf' = all /\ UNCHANGED <<stage, failure, shut>>
FailsWith(why) == stage' = "Over" /\ failure' = why /\ shut' = shut \cup {"up"} /\ hsbuf' = <<>>
Replies(next, all) == stage' = next /\ hsbuf' = After(all, 2) /\ UNCHANGED <<failure, shut>>

(* host_status.                                                            *)
Refusal(says) == CASE says = "locked" -> "host-locked" [] says = "newer" -> "unsupported" [] OTHER -> "none"

FeedHandshake ==
  /\ stage \in {"AwaitPake", "AwaitPairReply", "AwaitKnownReply"}
  /\ \E k \in 1 .. Len(wire["down"]) :
       LET all == hsbuf \o Take(wire["down"], k)
           whole == Len(all) >= 2
           why == IF ~whole THEN "none"
                  ELSE IF Refusal(all[1].as) # "none" THEN Refusal(all[1].as)
                  ELSE IF stage = "AwaitKnownReply" /\ kind = "stranger" THEN "unknown-host" ELSE "none"
       IN  /\ heard' = TRUE
           /\ wire' = [down |-> After(wire["down"], k),
                       up |-> wire["up"] \o IF whole /\ why = "none" THEN Hello("proof") ELSE <<>>]
           /\ IF ~whole THEN Waits(all)
              ELSE IF why # "none" THEN FailsWith(why)
              ELSE Replies(IF stage = "AwaitPake" THEN "AwaitPairReply" ELSE "AwaitVerdict", all)
  /\ UNCHANGED <<hs, host, cut, writers, readers>>

Received(d, units) ==
  LET r == next_frames(buf[d] \o units)
  IN  buf' = [buf EXCEPT ![d] = r.rest] /\ got' = [got EXCEPT ![d] = @ \o r.bodies]

(* What a read has opened: the tab takes all of it at once (drain), a      *)
(* native reader when it is asked.                                         *)
Opened(d, f, units) ==
  /\ opened' = [opened EXCEPT ![d] = f.n]
  /\ partial' = [partial EXCEPT ![d] = f.partial]
  /\ IF d = "down" /\ tab THEN Received(d, units) /\ UNCHANGED plain
                          ELSE plain' = [plain EXCEPT ![d] = units] /\ UNCHANGED <<buf, got>>

(* The first unit of the tunnel is the verdict.  What came with it stays   *)
(* in the session that the caller is given.                                *)
FeedVerdict ==
  /\ stage = "AwaitVerdict"
  /\ \E k \in 1 .. Len(wire["down"]) :
       LET f == feed(opened["down"], partial["down"] \o Take(wire["down"], k))
       IN  /\ wire' = [wire EXCEPT !["down"] = After(@, k)]
           /\ CASE ~f.ok -> FailsWith("other") /\ UNCHANGED readers
                [] f.ok /\ f.plain = <<>> ->
                     Opened("down", f, <<>>) /\ UNCHANGED <<stage, hsbuf, failure, shut, fate>>
                [] f.ok /\ f.plain # <<>> /\ <<f.plain[1]>> = verdict(TRUE) ->
                     /\ stage' = "Done" /\ Opened("down", f, Tail(f.plain))
                     /\ UNCHANGED <<hsbuf, failure, shut, fate>>
                [] OTHER -> FailsWith("not-paired") /\ UNCHANGED readers
  /\ heard' = TRUE
  /\ UNCHANGED <<hs, host, cut, writers>>

(* The carrier closes first (ClientHandshake::closed), or a read fails for *)
(* another reason, such as the caller's timeout.                           *)
closed ==
  CASE stage \in {"AwaitPake", "AwaitKnownReply"} /\ ~heard -> "older-host"
    [] stage = "AwaitPairReply" -> "wrong-code"
    [] OTHER -> "other"
Closed ==
  /\ stage \notin {"Over", "Done"} /\ wire["down"] = <<>> /\ ("down" \in shut \/ cut)
  /\ FailsWith(closed) \/ (cut /\ FailsWith("other"))
  /\ UNCHANGED <<hs, heard, host, wire, cut, writers, readers>>

-----------------------------------------------------------------------------
(* The tunnel: SecureStream::write and read.                               *)

Other(d) == CHOOSE e \in Directions : e # d
Live(d) == IF d = "up" THEN stage = "Done" ELSE host = "up"
Ended(d) == cut \/ d \in shut \/ Other(d) \in shut

(* Mutant: every thread with a handle of the stream writes.                *)
WritersOf_All(d) == Threads

(* The threads that write a direction: one.  On the client write_input; on *)
(* the host the thread a session writes from.                              *)
WritersOf(d) == {1}

(* One write of write_framed: what is sealed under the lock is written     *)
(* after it has been let go.                                               *)
Seals(d, t, units, what) ==
  LET s == seal(sealed[d], units)
  IN  /\ sealed' = [sealed EXCEPT ![d] = s.n]
      /\ out' = [out EXCEPT ![d][t] = s.bytes]
      /\ doing' = [doing EXCEPT ![d][t] = what]

(* write_framed writes the length, and then the body.                      *)
BeginFrame(d, t) ==
  /\ Live(d) /\ doing[d][t] = "idle" /\ Len(sent["up"]) + Len(sent["down"]) < MaxFrames
  /\ LET f == Len(sent[d]) + 1
     IN  Seals(d, t, length(f), "length") /\ sent' = [sent EXCEPT ![d] = Append(@, body(f))]
  /\ UNCHANGED <<hs, client, host, wire, carrier, done, readers>>

SealBody(d, t) ==
  /\ doing[d][t] = "length" /\ out[d][t] = <<>>
  /\ Seals(d, t, body(Len(sent[d])), "body")
  /\ UNCHANGED <<hs, client, host, wire, carrier, sent, done, readers>>

(* write_all.  One that a close or a cut catches part way is there.        *)
Write(d, t) ==
  /\ out[d][t] # <<>> /\ ~Ended(d)
  /\ Push(d, out[d][t]) /\ out' = [out EXCEPT ![d][t] = <<>>]
  /\ done' = [done EXCEPT ![d] = IF doing[d][t] = "body" THEN @ + 1 ELSE @]
  /\ doing' = [doing EXCEPT ![d][t] = IF @ = "body" THEN "idle" ELSE @]
  /\ UNCHANGED <<hs, client, host, carrier, sealed, sent, readers>>

WriteFails(d, t) ==
  /\ out[d][t] # <<>> /\ Ended(d)
  /\ out' = [out EXCEPT ![d][t] = <<>>] /\ doing' = [doing EXCEPT ![d][t] = "dead"]
  /\ UNCHANGED <<hs, client, host, wire, carrier, sealed, sent, done, readers>>

Reading(d) == fate[d] = "reads" /\ IF d = "up" THEN host = "up" ELSE stage = "Done"

(* SecureStream::read: what is opened already is handed out before the     *)
(* socket is touched, as much of it as the caller has room for.            *)
TakePlain(d) ==
  /\ Reading(d) /\ plain[d] # <<>>
  /\ \E k \in 1 .. Len(plain[d]) :
       Received(d, Take(plain[d], k)) /\ plain' = [plain EXCEPT ![d] = After(@, k)]
  /\ UNCHANGED <<hs, client, host, wire, carrier, writers, opened, partial, fate>>

(* A read of the socket, or the tab's onmessage, and the feed of it.       *)
ReadChunk(d) ==
  /\ Reading(d) /\ plain[d] = <<>>
  /\ \E k \in 1 .. Len(wire[d]) :
       LET f == feed(opened[d], partial[d] \o Take(wire[d], k))
       IN  /\ wire' = [wire EXCEPT ![d] = After(@, k)]
           /\ IF f.ok THEN Opened(d, f, f.plain) /\ UNCHANGED fate
                      ELSE /\ fate' = [fate EXCEPT ![d] = "forged"]
                           /\ UNCHANGED <<opened, partial, plain, buf, got>>
  /\ UNCHANGED <<hs, client, host, carrier, writers>>

(* The end of the stream: inside a record it is a truncation, which a tab  *)
(* does not look for.  A carrier that failed may say so instead.           *)
ReadEnd(d) ==
  /\ Reading(d) /\ plain[d] = <<>> /\ wire[d] = <<>> /\ Ended(d)
  /\ fate' = [fate EXCEPT ![d] = IF partial[d] # <<>> /\ ~(tab /\ d = "down") THEN "truncated" ELSE "clean"]
  /\ UNCHANGED <<hs, client, host, wire, carrier, writers, opened, partial, plain, buf, got>>

ReadBroken(d) ==
  /\ Reading(d) /\ plain[d] = <<>> /\ cut
  /\ fate' = [fate EXCEPT ![d] = "broken"]
  /\ UNCHANGED <<hs, client, host, wire, carrier, writers, opened, partial, plain, buf, got>>

Unwritten(d, t) == IF Ended(d) THEN <<>> ELSE out[d][t]

(* Session::drop shuts the socket both ways, whatever its threads are      *)
(* doing; so does the end of a session on the host.  A write may be part   *)
(* way through.  A bound: a connection is closed or cut once.              *)
Close(d) ==
  /\ Live(d) /\ shut = {} /\ ~cut
  /\ shut' = shut \cup {d}
  /\ \E t \in Threads : \E k \in {0} \cup 1 .. (Len(Unwritten(d, t)) - 1) :
       Push(d, Take(Unwritten(d, t), k))
  /\ UNCHANGED <<hs, client, host, cut, writers, readers>>

(* The network: what is under way, or being written, is lost from some     *)
(* point on, or comes too late for those who wait for it.                  *)
Cut ==
  /\ ~cut /\ shut = {} /\ cut' = TRUE
  /\ \E t \in Threads :
       LET under(d) == wire[d] \o Unwritten(d, t)
       IN  \E u \in 0 .. Len(under("up")), v \in 0 .. Len(under("down")) :
             wire' = [up |-> Take(under("up"), u), down |-> Take(under("down"), v)]
  /\ UNCHANGED <<hs, client, host, shut, writers, readers>>

RecordNext ==
  \/ HostOpening \/ HostProof \/ HostVerdict \/ HostGivesUp \/ HostGone
  \/ FeedHandshake \/ FeedVerdict \/ Closed
  \/ \E d \in Directions : \E t \in WritersOf(d) :
       BeginFrame(d, t) \/ SealBody(d, t) \/ Write(d, t) \/ WriteFails(d, t)
  \/ \E d \in Directions :
       TakePlain(d) \/ ReadChunk(d) \/ ReadEnd(d) \/ ReadBroken(d) \/ Close(d)
  \/ Cut

RecordSpec == RecordInit /\ [][RecordNext]_connection

(* Both ends of a handshake run, and a carrier that works delivers.        *)
RecordFairness ==
  /\ WF_connection(HostOpening \/ HostProof \/ HostVerdict \/ HostGivesUp \/ HostGone)
  /\ WF_connection(FeedHandshake \/ FeedVerdict \/ Closed)

FairRecords == RecordSpec /\ RecordFairness

-----------------------------------------------------------------------------
(* Each direction is a pipe of frames, however the bytes were cut up and   *)
(* whatever came along with the verdict (SecureStream, FrameReader).       *)
UpPipe == INSTANCE Pipe WITH Items <- Frames, sent <- sent["up"], got <- got["up"]
DownPipe == INSTANCE Pipe WITH Items <- Frames, sent <- sent["down"], got <- got["down"]
BothPipes == UpPipe!Spec /\ DownPipe!Spec

(* Records go on the wire in the order they were sealed in, so a record    *)
(* nobody has touched always opens, although the lock is let go between    *)
(* the two (SecureStream::write).                                          *)
NoFalseAlarm ==
  /\ \A d \in Directions : fate[d] # "forged"
  /\ failure = "other" => cut

(* A reader that was told of a clean end by its peer has every frame that  *)
(* was written, and a native one no beginning of a record either.          *)
CleanEndIsWhole ==
  \A d \in Directions :
    fate[d] = "clean" /\ d \in shut /\ Other(d) \notin shut /\ ~cut =>
      /\ Len(got[d]) = done[d]
      /\ (d = "up" \/ ~tab) => partial[d] = <<>>

(* What the client tells its user of a handshake that failed is so: the    *)
(* reason given is the host's, unless the network failed in between        *)
(* (ClientHandshake::feed, closed).                                        *)
ReasonFits ==
  /\ failure = "wrong-code" => ~agreed \/ cut
  /\ failure = "host-locked" => kind = "locked"
  /\ failure = "unsupported" => kind = "newer"
  /\ failure = "older-host" => kind = "older" \/ cut
  /\ failure = "unknown-host" => mode = "known" /\ kind = "stranger"
  /\ failure = "not-paired" => mode = "known" /\ ~agreed

(* Whatever a reader or a user is told of an end is true.                  *)
EndsAreTrue == NoFalseAlarm /\ CleanEndIsWhole /\ ReasonFits

(* A client that nobody cuts off is told, one way or the other.            *)
Settles == <>(stage \in {"Done", "Over"})
=============================================================================

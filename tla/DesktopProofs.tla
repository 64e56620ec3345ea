------------------------------ MODULE DesktopProofs ------------------------------
(***************************************************************************)
(* The theorems of four parts of the desktop programs.  What the client's  *)
(* window shows is whole and in order (DesktopVideo), for any sizes, number*)
(* of frames, room in the channel and in the socket, and any distance of   *)
(* keyframes.  What its user holds is held at the host, and what is held   *)
(* there besides was left down as control was given up or before the       *)
(* connection (DesktopInput), for any keys, buttons and characters and any *)
(* length of the way.  And the panels of a host's window keep the account in one     *)
(* state and name the computer they show (HostPanels).  The two bindings   *)
(* tell an app the same, and the sizes and keys that are told are true     *)
(* (MediaPath, Keys), for any events and any monitors.                     *)
(***************************************************************************)
EXTENDS MediaPath, DesktopVideo, DesktopInput, HostPanels, TLAPS

-----------------------------------------------------------------------------
(* The picture.                                                             *)
PictureSpec == PictureInit /\ [][PictureNext]_picture

Frames == [n : Nat, key : BOOLEAN, from : Nat] \cup [n : {0}]
Messages == [start : {TRUE}] \cup [start : {FALSE}, f : Frames]

(* A frame leads a decoder that is at a to b, its own number, if it is a   *)
(* keyframe or was coded from a; an empty one leaves it where it is, and so*)
(* does the message that starts the stream.                                *)
Leads(x, a, b) ==
  \/ x.n = 0 /\ a = b
  \/ x.n = b /\ a < b /\ (x.key = TRUE \/ (x.from = a /\ a > 0))
Link(t, x, a, b) ==
  IF t = "frame" THEN Leads(x, a, b)
  ELSE \/ x.start = TRUE /\ a = b
       \/ x.start = FALSE /\ x.f.n # 0 /\ Leads(x.f, a, b)

(* A sequence of them leads from a to b, past none that is ahead of b.      *)
Marks(t, q, a, b, f) ==
  /\ f[0] = a /\ f[Len(q)] = b
  /\ \A i \in 0 .. Len(q) : f[i] <= b
  /\ \A i \in 1 .. Len(q) : Link(t, q[i], f[i - 1], f[i])
Chain(t, q, a, b) == \E f \in [0 .. Len(q) -> Nat] : Marks(t, q, a, b, f)

LEMMA ChainEmpty == ASSUME NEW t, NEW a \in Nat PROVE Chain(t, <<>>, a, a)
  <1> DEFINE f == [i \in 0 .. 0 |-> a]
  <1>1. f \in [0 .. Len(<<>>) -> Nat] /\ Marks(t, <<>>, a, a, f)
    BY DEF Marks
  <1> QED BY <1>1 DEF Chain

LEMMA ChainEnds ==
  ASSUME NEW t, NEW S, NEW q \in Seq(S), NEW a \in Nat, NEW b \in Nat, Chain(t, q, a, b)
  PROVE  a <= b
  <1>1. PICK f \in [0 .. Len(q) -> Nat] : Marks(t, q, a, b, f)
    BY DEF Chain
  <1>2. 0 \in 0 .. Len(q)
    OBVIOUS
  <1> QED BY <1>1, <1>2 DEF Marks

LEMMA ChainTail ==
  ASSUME NEW t, NEW S, NEW q \in Seq(S), NEW a \in Nat, NEW b \in Nat, Chain(t, q, a, b), q # <<>>
  PROVE  \E c \in Nat : Link(t, Head(q), a, c) /\ c <= b /\ Chain(t, Tail(q), c, b)
  <1>1. PICK f \in [0 .. Len(q) -> Nat] : Marks(t, q, a, b, f)
    BY DEF Chain
  <1> DEFINE n == Len(q) - 1
             r == Tail(q)
             g == [i \in 0 .. n |-> f[i + 1]]
  <1>2. /\ n \in Nat /\ Len(q) = n + 1 /\ Len(r) = n /\ Head(q) = q[1]
        /\ \A i \in 1 .. n : r[i] = q[i + 1]
    OBVIOUS
  <1> HIDE DEF n, r
  <1>3. g \in [0 .. Len(r) -> Nat]
    BY <1>2
  <1>4. f[1] \in Nat /\ f[n + 1] = b /\ f[1] <= b /\ Link(t, q[1], a, f[1])
    <2>1. 0 \in 0 .. n + 1 /\ 1 \in 0 .. n + 1 /\ 1 \in 1 .. n + 1 /\ 1 - 1 = 0
      BY <1>2
    <2>2. Link(t, q[1], f[1 - 1], f[1])
      BY <1>1, <1>2, <2>1 DEF Marks
    <2> QED BY <1>1, <1>2, <2>1, <2>2 DEF Marks
  <1>5. Marks(t, r, f[1], b, g)
    <2>1. g[0] = f[1] /\ g[n] = b
      BY <1>2, <1>4
    <2>2. ASSUME NEW i \in 0 .. n PROVE g[i] <= b
      <3>1. i + 1 \in 0 .. Len(q)
        BY <1>2
      <3> QED BY <1>1, <3>1 DEF Marks
    <2>3. ASSUME NEW i \in 1 .. n PROVE Link(t, r[i], g[i - 1], g[i])
      <3>1. i + 1 \in 1 .. Len(q) /\ (i + 1) - 1 = i /\ (i - 1) + 1 = i /\ i - 1 \in 0 .. n /\ i \in 0 .. n
        BY <1>2
      <3>2. Link(t, q[i + 1], f[(i + 1) - 1], f[i + 1])
        BY <1>1, <3>1 DEF Marks
      <3>3. g[i - 1] = f[i] /\ g[i] = f[i + 1] /\ r[i] = q[i + 1]
        BY <1>2, <3>1
      <3> QED BY <3>1, <3>2, <3>3
    <2> HIDE DEF g
    <2> QED BY <1>2, <2>1, <2>2, <2>3 DEF Marks
  <1>6. Chain(t, r, f[1], b)
    BY <1>3, <1>5 DEF Chain
  <1> QED BY <1>2, <1>4, <1>6 DEF r

LEMMA ChainAppend ==
  ASSUME NEW t, NEW S, NEW q \in Seq(S), NEW a \in Nat, NEW b \in Nat, NEW c \in Nat, Chain(t, q, a, b),
         NEW x \in S, Link(t, x, b, c), b <= c
  PROVE  Chain(t, Append(q, x), a, c)
  <1>1. PICK f \in [0 .. Len(q) -> Nat] : Marks(t, q, a, b, f)
    BY DEF Chain
  <1> DEFINE n == Len(q)
             r == Append(q, x)
             g == [i \in 0 .. n + 1 |-> IF i = n + 1 THEN c ELSE f[i]]
  <1>2. n \in Nat /\ Len(r) = n + 1 /\ r[n + 1] = x /\ \A i \in 1 .. n : r[i] = q[i]
    OBVIOUS
  <1>3. /\ f \in [0 .. n -> Nat] /\ f[0] = a /\ f[n] = b /\ \A i \in 0 .. n : f[i] <= b
        /\ \A i \in 1 .. n : Link(t, q[i], f[i - 1], f[i])
    BY <1>1 DEF Marks
  <1> HIDE DEF r, n
  <1>4. g \in [0 .. n + 1 -> Nat]
    <2>1. ASSUME NEW i \in 0 .. n + 1 PROVE (IF i = n + 1 THEN c ELSE f[i]) \in Nat
      BY <1>2, <1>3
    <2> QED BY <2>1
  <1>5. g[n + 1] = c /\ \A i \in 0 .. n : g[i] = f[i]
    BY <1>2
  <1> HIDE DEF g
  <1>6. Marks(t, r, a, c, g)
    <2>1. g[0] = a
      BY <1>2, <1>3, <1>5
    <2>2. ASSUME NEW i \in 0 .. n + 1 PROVE g[i] <= c
      <3>1. CASE i = n + 1
        BY <1>5, <3>1
      <3>2. CASE i \in 0 .. n
        <4>1. g[i] = f[i] /\ f[i] \in Nat /\ f[i] <= b
          BY <1>3, <1>5, <3>2
        <4> QED BY <4>1
      <3> QED BY <1>2, <3>1, <3>2
    <2>3. ASSUME NEW i \in 1 .. n + 1 PROVE Link(t, r[i], g[i - 1], g[i])
      <3>1. CASE i = n + 1
        <4>1. (n + 1) - 1 = n /\ n \in 0 .. n
          <5>1. n \in Nat
            BY <1>2
          <5> QED BY <5>1
        <4> QED BY <1>2, <1>3, <1>5, <3>1, <4>1
      <3>2. CASE i \in 1 .. n
        <4>1. i - 1 \in 0 .. n /\ i \in 0 .. n
          BY <1>2, <3>2
        <4> QED BY <1>2, <1>3, <1>5, <3>2, <4>1
      <3> QED BY <1>2, <3>1, <3>2
    <2> QED BY <1>2, <1>5, <2>1, <2>2, <2>3 DEF Marks
  <1> QED BY <1>2, <1>4, <1>6 DEF Chain, r

-----------------------------------------------------------------------------
(* The inductive invariant.                                                *)

PictureTypes ==
  /\ encoded \in Nat /\ last_coded \in Nat /\ last_key \in Nat
  /\ here \in BOOLEAN /\ begun \in BOOLEAN /\ garbled = FALSE
  /\ stage \in {"listening", "chosen", "serving", "barrier", "joining"}
  /\ channel \in Seq(Frames) /\ callback \in Seq(Frames) /\ socket \in Seq(Messages)
  /\ decoder \in Nat \cup {New} /\ shared \in Nat /\ texture \in Nat

(* The display captured is the one of the size the client was given.       *)
OwnDisplay ==
  /\ slot = [id |-> slot.id, size |-> slot.size]
  /\ stage \in {"serving", "barrier", "joining"} =>
       target \in {None, Primary} \/ slot = [id |-> target, size |-> want]
  /\ stage \in {"listening", "chosen"} => encoded = 0

(* The stream starts once, before its first frame.                         *)
Opening ==
  /\ \A i \in 1 .. Len(socket) : socket[i].start = TRUE <=> (i = 1 /\ decoder = None)
  /\ here => (begun <=> (decoder # None \/ socket # <<>>))
  /\ ~here => socket = <<>> /\ decoder = None /\ shared = None /\ texture = None
  /\ begun => encoded > 0

(* The number the decoder is at.                                           *)
At == IF decoder = New THEN 0 ELSE decoder

Drawn ==
  /\ texture <= At
  /\ shared # None => texture < shared /\ shared <= At

(* From the decoder through the socket to what was written last, and from  *)
(* there, while the stream goes on, through the channel and the callback to*)
(* what was coded last, each frame leads to the next.                      *)
Led ==
  /\ last_coded <= encoded /\ last_key <= last_coded
  /\ \E w \in Nat :
       /\ w <= last_coded
       /\ ~begun => w = 0
       /\ here => Chain("message", socket, At, w)
       /\ stage \in {"chosen", "serving"} => Chain("frame", channel \o callback, w, last_coded)

PictureInv == PictureTypes /\ OwnDisplay /\ Opening /\ Drawn /\ Led

LEMMA PictureInvInit == PictureInit => PictureInv
  <1> SUFFICES ASSUME PictureInit PROVE PictureInv
    OBVIOUS
  <1>1. PictureTypes
    <2>1. encoded \in Nat /\ last_coded \in Nat /\ last_key \in Nat /\ decoder \in Nat /\ shared \in Nat /\ texture \in Nat
      BY DEF PictureInit, None
    <2>2. channel \in Seq(Frames) /\ callback \in Seq(Frames) /\ socket \in Seq(Messages)
      BY DEF PictureInit
    <2> QED BY <2>1, <2>2 DEF PictureInit, PictureTypes
  <1>2. OwnDisplay
    BY DEF PictureInit, OwnDisplay
  <1>3. Opening /\ Drawn
    BY DEF PictureInit, Opening, Drawn, At, None, New
  <1>4. Led
    BY DEF PictureInit, Led
  <1> QED BY <1>1, <1>2, <1>3, <1>4 DEF PictureInv

LEMMA Joins ==
  ASSUME NEW S, NEW p \in Seq(S), NEW q \in Seq(S)
  PROVE  /\ p # <<>> => Tail(p) \in Seq(S) /\ Head(p) \in S /\ Tail(p) \o q = Tail(p \o q)
                        /\ Head(p \o q) = Head(p) /\ p \o q # <<>>
         /\ p \o q \in Seq(S) /\ (p \o q) \o <<>> = p \o q
         /\ \A x \in S : p \o <<x>> = Append(p, x) /\ <<x>> \in Seq(S)
  OBVIOUS

LEMMA StreamStep == PictureInv /\ stream_to_client => PictureInv'
  <1> SUFFICES ASSUME PictureInv, stream_to_client PROVE PictureInv'
    OBVIOUS
  <1> DEFINE f == Head(channel)
             Frame == [start |-> FALSE, f |-> f]
             Start == [start |-> TRUE]
             pending == channel \o callback
  <1>1. /\ stage = "serving" /\ channel # <<>> /\ channel' = Tail(channel)
        /\ UNCHANGED <<forced, slot, shim, registered, want, target, encoded, last_key, last_coded, callback, here,
                       decoder, garbled, shared, texture>>
        /\ \/ (f.n = 0 \/ (~begun /\ ~f.key)) /\ UNCHANGED <<stage, begun, socket>>
           \/ /\ ~(f.n = 0 \/ (~begun /\ ~f.key)) /\ here /\ begun' = TRUE /\ UNCHANGED stage
              /\ socket' = socket \o (IF begun THEN <<Frame>> ELSE <<Start, Frame>>)
           \/ stage' = "barrier" /\ UNCHANGED <<begun, socket>>
    BY DEF stream_to_client, display, viewer
  <1>2. PICK w \in Nat : /\ w <= last_coded /\ (~begun => w = 0)
                         /\ here => Chain("message", socket, At, w)
                         /\ Chain("frame", pending, w, last_coded)
    BY <1>1 DEF PictureInv, Led
  <1>3. /\ pending \in Seq(Frames) /\ pending # <<>> /\ Head(pending) = f /\ f \in Frames
        /\ Tail(pending) = channel' \o callback' /\ channel' \in Seq(Frames)
    BY <1>1, Joins DEF PictureInv, PictureTypes
  <1>4. last_coded \in Nat /\ encoded \in Nat /\ last_coded <= encoded /\ last_key <= last_coded
    BY DEF PictureInv, PictureTypes, Led
  <1> HIDE DEF f, pending
  <1>5. PICK c \in Nat : Link("frame", f, w, c) /\ c <= last_coded /\ Chain("frame", channel' \o callback', c, last_coded)
    <2>1. \E c \in Nat : /\ Link("frame", Head(pending), w, c) /\ c <= last_coded
                         /\ Chain("frame", Tail(pending), c, last_coded)
      BY <1>2, <1>3, <1>4, ChainTail
    <2> QED BY <1>3, <2>1
  <1>6. Leads(f, w, c)
    BY <1>5 DEF Link
  <1>7. UNCHANGED At
    BY <1>1 DEF At
  <1>8. OwnDisplay' /\ Drawn'
    BY <1>1, <1>7 DEF PictureInv, OwnDisplay, Drawn
  <1>9. CASE (f.n = 0 \/ (~begun /\ ~f.key)) /\ UNCHANGED <<stage, begun, socket>>
    <2>1. w = c
      BY <1>2, <1>6, <1>9 DEF Leads
    <2>2. PictureTypes' /\ Opening'
      BY <1>1, <1>3, <1>9 DEF PictureInv, PictureTypes, Opening
    <2>3. Led'
      BY <1>1, <1>2, <1>4, <1>5, <1>7, <1>9, <2>1 DEF Led
    <2> QED BY <1>8, <2>2, <2>3 DEF PictureInv
  <1>10. CASE stage' = "barrier" /\ UNCHANGED <<begun, socket>>
    <2>1. PictureTypes' /\ Opening'
      BY <1>1, <1>3, <1>10 DEF PictureInv, PictureTypes, Opening
    <2>2. Led'
      BY <1>1, <1>2, <1>4, <1>7, <1>10 DEF Led
    <2> QED BY <1>8, <2>1, <2>2 DEF PictureInv
  <1>11. CASE /\ ~(f.n = 0 \/ (~begun /\ ~f.key)) /\ here /\ begun' = TRUE /\ UNCHANGED stage
              /\ socket' = socket \o (IF begun THEN <<Frame>> ELSE <<Start, Frame>>)
    <2>1. f.n = c /\ w < c /\ c > 0
      BY <1>2, <1>6, <1>11 DEF Leads
    <2>2. Start \in Messages /\ Frame \in Messages
      BY <1>3 DEF Messages
    <2>3. Link("message", Frame, w, c) /\ \A a : Link("message", Start, a, a)
      BY <1>6, <2>1 DEF Link
    <2>4. Frame.start = FALSE /\ Start.start = TRUE
      OBVIOUS
    <2> HIDE DEF Frame, Start
    <2>5. socket \in Seq(Messages) /\ At \in Nat
      BY DEF PictureInv, PictureTypes, At
    <2>6. CASE begun
      <3>1. socket' = Append(socket, Frame)
        BY <1>11, <2>2, <2>5, <2>6, Joins
      <3>2. Chain("message", socket', At, c)
        <4>1. Chain("message", socket, At, w)
          BY <1>2, <1>11
        <4>2. w <= c
          BY <2>1
        <4>3. Chain("message", Append(socket, Frame), At, c)
          BY <2>2, <2>3, <2>5, <4>1, <4>2, ChainAppend
        <4> QED BY <3>1, <4>3
      <3>3. /\ socket' \in Seq(Messages) /\ Len(socket') = Len(socket) + 1 /\ Len(socket) \in Nat
            /\ socket'[Len(socket) + 1] = Frame /\ \A i \in 1 .. Len(socket) : socket'[i] = socket[i]
        BY <2>2, <2>5, <3>1
      <3>4. decoder # None \/ socket # <<>>
        BY <1>11, <2>6 DEF PictureInv, Opening
      <3>5. \A i \in 1 .. Len(socket') : socket'[i].start = TRUE <=> (i = 1 /\ decoder = None)
        <4>1. ASSUME NEW i \in 1 .. Len(socket') PROVE socket'[i].start = TRUE <=> (i = 1 /\ decoder = None)
          <5>1. CASE i \in 1 .. Len(socket)
            BY <3>3, <5>1 DEF PictureInv, Opening
          <5>2. CASE i = Len(socket) + 1
            <6>1. socket'[i].start = FALSE
              BY <2>4, <3>3, <5>2
            <6>2. ~(i = 1 /\ decoder = None)
              <7>1. i = 1 => socket = <<>>
                BY <2>5, <3>3, <5>2
              <7> QED BY <3>4, <7>1
            <6>3. socket'[i].start # TRUE
              BY <6>1
            <6> QED BY <6>2, <6>3
          <5>3. i \in 1 .. Len(socket) \/ i = Len(socket) + 1
            BY <3>3
          <5> QED BY <5>1, <5>2, <5>3, Zenon
        <4> QED BY <4>1
      <3>6. socket' # <<>>
        BY <3>3
      <3>7. Opening'
        BY <1>1, <1>11, <2>6, <3>5, <3>6 DEF PictureInv, Opening
      <3>8. PictureTypes'
        BY <1>1, <1>3, <1>11, <3>3 DEF PictureInv, PictureTypes
      <3>9. Led'
        BY <1>1, <1>4, <1>5, <1>7, <1>11, <3>2 DEF Led
      <3> QED BY <1>8, <3>7, <3>8, <3>9 DEF PictureInv
    <2>7. CASE ~begun
      <3>1. decoder = None /\ socket = <<>> /\ w = 0 /\ At = 0
        BY <1>2, <1>11, <2>7 DEF PictureInv, Opening, At, None, New
      <3>2. socket' = Append(Append(<<>>, Start), Frame) /\ socket' = <<Start, Frame>>
        BY <1>11, <2>7, <3>1
      <3>3. Chain("message", <<>>, 0, 0) /\ <<>> \in Seq(Messages) /\ 0 \in Nat
        BY ChainEmpty
      <3>4. Chain("message", Append(<<>>, Start), 0, 0) /\ Append(<<>>, Start) \in Seq(Messages)
        <4>1. Chain("message", Append(<<>>, Start), 0, 0)
          <5>1. Link("message", Start, 0, 0) /\ 0 <= 0
            BY <2>3
          <5> QED BY <2>2, <3>3, <5>1, ChainAppend
        <4> QED BY <2>2, <4>1
      <3>5. Chain("message", socket', 0, c)
        <4>1. Link("message", Frame, 0, c) /\ 0 <= c
          BY <2>1, <2>3, <3>1
        <4>2. Chain("message", Append(Append(<<>>, Start), Frame), 0, c)
          BY <2>2, <3>3, <3>4, <4>1, ChainAppend
        <4> QED BY <3>2, <4>2
      <3>6. socket' \in Seq(Messages) /\ Len(socket') = 2 /\ socket'[1] = Start /\ socket'[2] = Frame /\ socket' # <<>>
        BY <2>2, <3>2
      <3>7. \A i \in 1 .. Len(socket') : socket'[i].start = TRUE <=> (i = 1 /\ decoder = None)
        BY <2>4, <3>1, <3>6
      <3>8. encoded > 0
        BY <1>4, <1>5, <2>1
      <3>9. Opening'
        BY <1>1, <1>11, <3>6, <3>7, <3>8 DEF PictureInv, Opening
      <3>10. PictureTypes'
        BY <1>1, <1>3, <1>11, <3>6 DEF PictureInv, PictureTypes
      <3>11. Led'
        BY <1>1, <1>4, <1>5, <1>7, <1>11, <3>1, <3>5 DEF Led
      <3> QED BY <1>8, <3>9, <3>10, <3>11 DEF PictureInv
    <2> QED BY <2>6, <2>7
  <1> QED BY <1>1, <1>9, <1>10, <1>11

LEMMA CaptureStep == PictureInv /\ capture_and_encode => PictureInv'
  <1> SUFFICES ASSUME PictureInv, capture_and_encode PROVE PictureInv'
    OBVIOUS
  <1> DEFINE Coded(key) == [n |-> encoded + 1, key |-> key, from |-> last_coded]
             Empty == [n |-> 0]
  <1>1. /\ stage \in {"serving", "barrier"} /\ callback = <<>> /\ encoded' = encoded + 1
        /\ UNCHANGED <<forced, slot, shim, registered, want, target, stage, channel, begun, socket, here,
                       decoder, garbled, shared, texture>>
        /\ \/ callback' = <<Coded(TRUE)>> /\ last_coded' = encoded' /\ last_key' = encoded'
           \/ last_key # 0 /\ callback' = <<Coded(FALSE)>> /\ last_coded' = encoded' /\ last_key' = last_key
           \/ callback' = <<Empty>> /\ UNCHANGED <<last_coded, last_key>>
           \/ UNCHANGED <<callback, last_coded, last_key>>
    BY DEF capture_and_encode, Captures, display, viewer
  <1>2. /\ encoded \in Nat /\ last_coded \in Nat /\ last_key \in Nat /\ last_coded <= encoded /\ last_key <= last_coded
        /\ channel \in Seq(Frames)
    BY DEF PictureInv, PictureTypes, Led
  <1>3. PICK w \in Nat : /\ w <= last_coded /\ (~begun => w = 0)
                         /\ here => Chain("message", socket, At, w)
                         /\ stage = "serving" => Chain("frame", channel \o callback, w, last_coded)
    BY DEF PictureInv, Led
  <1>4. UNCHANGED At
    BY <1>1 DEF At
  <1>5. /\ Coded(TRUE) \in Frames /\ Coded(FALSE) \in Frames /\ Empty \in Frames
        /\ encoded' \in Nat /\ last_coded < encoded' /\ encoded' > 0
    BY <1>1, <1>2 DEF Frames
  <1>6. /\ Link("frame", Coded(TRUE), last_coded, encoded')
        /\ last_key # 0 => Link("frame", Coded(FALSE), last_coded, encoded')
        /\ Link("frame", Empty, last_coded, last_coded)
    BY <1>1, <1>2, <1>5 DEF Link, Leads
  <1> HIDE DEF Coded, Empty
  <1>7. OwnDisplay' /\ Drawn' /\ Opening'
    <2>1. OwnDisplay'
      BY <1>1 DEF PictureInv, OwnDisplay
    <2>2. Drawn'
      BY <1>1, <1>4 DEF PictureInv, Drawn
    <2> QED BY <1>1, <1>5, <2>1, <2>2 DEF PictureInv, Opening
  <1>8. /\ last_coded' \in Nat /\ last_key' \in Nat /\ callback' \in Seq(Frames) /\ last_coded <= last_coded'
        /\ last_coded' <= encoded' /\ last_key' <= last_coded'
    <2>1. \A x \in Frames : <<x>> \in Seq(Frames)
      OBVIOUS
    <2>2. callback \in Seq(Frames)
      BY DEF PictureInv, PictureTypes
    <2>3. callback' \in Seq(Frames)
      BY <1>1, <1>5, <2>1, <2>2
    <2>4. CASE UNCHANGED <<last_coded, last_key>>
      BY <1>1, <1>2, <1>5, <2>3, <2>4
    <2>5. CASE last_coded' = encoded' /\ last_key' \in {last_key, encoded'}
      BY <1>1, <1>2, <1>5, <2>3, <2>5
    <2> QED BY <1>1, <2>4, <2>5
  <1>9. PictureTypes'
    BY <1>1, <1>5, <1>8 DEF PictureInv, PictureTypes
  <1>10. ASSUME stage = "serving" PROVE Chain("frame", channel' \o callback', w, last_coded')
    <2>1. Chain("frame", channel, w, last_coded)
      BY <1>1, <1>2, <1>3, <1>10, Joins
    <2>2. \A x \in Frames : channel \o <<x>> = Append(channel, x)
      BY <1>2, Joins
    <2>3. CASE callback' = <<Coded(TRUE)>> /\ last_coded' = encoded'
      <3>1. Chain("frame", Append(channel, Coded(TRUE)), w, encoded')
        <4>1. Link("frame", Coded(TRUE), last_coded, encoded') /\ last_coded <= encoded'
          <5>1. Link("frame", Coded(TRUE), last_coded, encoded')
            BY <1>6, Zenon
          <5>2. last_coded <= encoded'
            BY <1>2, <1>5, SMT
          <5> QED BY <5>1, <5>2
        <4>2. channel \in Seq(Frames) /\ Coded(TRUE) \in Frames /\ last_coded \in Nat /\ encoded' \in Nat
          BY <1>2, <1>5
        <4>3. \A a, b, c \in Nat, x \in Frames :
                Chain("frame", channel, a, b) /\ Link("frame", x, b, c) /\ b <= c => Chain("frame", Append(channel, x), a, c)
          BY <4>2, ChainAppend
        <4> QED BY <2>1, <4>1, <4>2, <4>3
      <3> QED BY <1>1, <1>5, <2>2, <2>3, <3>1
    <2>4. CASE last_key # 0 /\ callback' = <<Coded(FALSE)>> /\ last_coded' = encoded'
      <3>1. Chain("frame", Append(channel, Coded(FALSE)), w, encoded')
        <4>1. Link("frame", Coded(FALSE), last_coded, encoded') /\ last_coded <= encoded'
          <5>1. Link("frame", Coded(FALSE), last_coded, encoded')
            BY <1>6, <2>4, Zenon
          <5>2. last_coded <= encoded'
            BY <1>2, <1>5, SMT
          <5> QED BY <5>1, <5>2
        <4>2. channel \in Seq(Frames) /\ Coded(FALSE) \in Frames /\ last_coded \in Nat /\ encoded' \in Nat
          BY <1>2, <1>5
        <4>3. \A a, b, c \in Nat, x \in Frames :
                Chain("frame", channel, a, b) /\ Link("frame", x, b, c) /\ b <= c => Chain("frame", Append(channel, x), a, c)
          BY <4>2, ChainAppend
        <4> QED BY <2>1, <4>1, <4>2, <4>3
      <3> QED BY <1>1, <1>5, <2>2, <2>4, <3>1
    <2>5. CASE callback' = <<Empty>> /\ last_coded' = last_coded
      <3>1. Chain("frame", Append(channel, Empty), w, last_coded)
        BY <1>2, <1>5, <1>6, <2>1, ChainAppend
      <3> QED BY <1>1, <1>5, <2>2, <2>5, <3>1
    <2>6. CASE callback' = callback /\ last_coded' = last_coded
      BY <1>1, <1>3, <1>10, <2>6
    <2> QED BY <1>1, <2>3, <2>4, <2>5, <2>6
  <1>11. Led'
    BY <1>1, <1>2, <1>3, <1>4, <1>8, <1>10 DEF Led
  <1> QED BY <1>7, <1>9, <1>11 DEF PictureInv

LEMMA DecodeStep == PictureInv /\ decodes => PictureInv'
  <1> SUFFICES ASSUME PictureInv, decodes PROVE PictureInv'
    OBVIOUS
  <1> DEFINE m == Head(socket)
  <1>1. /\ here /\ socket # <<>> /\ socket' = Tail(socket)
        /\ UNCHANGED <<forced, slot, shim, registered, want, target, stage, encoded, last_key, last_coded, callback,
                       channel, begun, here, texture>>
        /\ \/ m.start /\ decoder' = New /\ UNCHANGED <<garbled, shared>>
           \/ /\ ~m.start /\ decoder' = m.f.n /\ shared' \in {m.f.n, shared}
              /\ garbled' = (decoder = None \/ (~m.f.key /\ (garbled \/ decoder # m.f.from)))
    BY DEF decodes, display, pipe
  <1>2. /\ last_coded \in Nat /\ socket \in Seq(Messages) /\ At \in Nat /\ decoder \in Nat \cup {New}
        /\ shared \in Nat /\ texture \in Nat /\ garbled = FALSE
    BY DEF PictureInv, PictureTypes, At
  <1>3. PICK w \in Nat : /\ w <= last_coded /\ (~begun => w = 0)
                         /\ Chain("message", socket, At, w)
                         /\ stage \in {"chosen", "serving"} => Chain("frame", channel \o callback, w, last_coded)
    BY <1>1 DEF PictureInv, Led
  <1>4. PICK c \in Nat : Link("message", m, At, c) /\ Chain("message", socket', c, w)
    BY <1>1, <1>2, <1>3, ChainTail
  <1>5. /\ m = socket[1] /\ m \in Messages /\ socket' \in Seq(Messages) /\ 1 \in 1 .. Len(socket)
        /\ \A i \in 1 .. Len(socket') : i + 1 \in 1 .. Len(socket) /\ i + 1 # 1 /\ socket'[i] = socket[i + 1]
    BY <1>1, <1>2
  <1>6. begun /\ encoded > 0
    BY <1>1 DEF PictureInv, Opening
  <1>7. m.start = TRUE <=> decoder = None
    BY <1>5 DEF PictureInv, Opening
  <1>8. ASSUME NEW i \in 1 .. Len(socket') PROVE socket'[i].start # TRUE
    <2>1. socket[i + 1].start = TRUE <=> (i + 1 = 1 /\ decoder = None)
      BY <1>5 DEF PictureInv, Opening
    <2> QED BY <1>5, <2>1
  <1>9. m.start \in BOOLEAN
    BY <1>5 DEF Messages
  <1>10. OwnDisplay'
    BY <1>1 DEF PictureInv, OwnDisplay
  <1> HIDE DEF m
  <1>11. ASSUME decoder' \in Nat \cup {New}, decoder' # None, garbled' = FALSE, shared' \in Nat, At' = c, Drawn'
         PROVE  PictureInv'
    <2>1. PictureTypes'
      BY <1>1, <1>2, <1>5, <1>11 DEF PictureInv, PictureTypes
    <2>2. Opening'
      <3>1. \A i \in 1 .. Len(socket') : socket'[i].start = TRUE <=> (i = 1 /\ decoder' = None)
        BY <1>8, <1>11, Zenon
      <3> QED BY <1>1, <1>6, <1>11, <3>1 DEF PictureInv, Opening
    <2>3. Led'
      BY <1>1, <1>3, <1>4, <1>11 DEF PictureInv, Led
    <2> QED BY <1>10, <1>11, <2>1, <2>2, <2>3 DEF PictureInv
  <1>12. CASE m.start = TRUE
    <2>1. decoder = None /\ decoder' = New /\ UNCHANGED <<garbled, shared>>
      BY <1>1, <1>7, <1>12
    <2>2. At = 0 /\ At' = 0
      BY <2>1 DEF At, None, New
    <2>3. c = 0
      BY <1>4, <1>12, <2>2 DEF Link
    <2>4. Drawn'
      BY <1>1, <2>1, <2>2 DEF PictureInv, Drawn
    <2>5. decoder' # None
      BY <2>1 DEF None, New
    <2> QED BY <1>2, <1>11, <2>1, <2>2, <2>3, <2>4, <2>5
  <1>13. CASE m.start = FALSE
    <2>1. /\ decoder # None /\ decoder' = m.f.n /\ shared' \in {m.f.n, shared}
          /\ garbled' = (decoder = None \/ (~m.f.key /\ (garbled \/ decoder # m.f.from)))
      BY <1>1, <1>7, <1>13
    <2>2. m.f.n = c /\ At < c /\ c > 0 /\ (m.f.key = TRUE \/ (m.f.from = At /\ At > 0))
      BY <1>2, <1>4, <1>13 DEF Link, Leads
    <2>3. m.f.from = At /\ At > 0 => decoder = m.f.from
      BY <1>2 DEF At
    <2>4. garbled' = FALSE
      <3>1. m.f.key = TRUE \/ decoder = m.f.from
        BY <2>2, <2>3
      <3> QED BY <1>2, <2>1, <3>1, Zenon
    <2>5. At' = c /\ decoder' \in Nat /\ decoder' # None
      BY <2>1, <2>2 DEF At, New, None
    <2>6. Drawn'
      <3>1. texture <= At /\ (shared # None => texture < shared /\ shared <= At)
        BY DEF PictureInv, Drawn
      <3>2. texture' = texture /\ texture < c
        BY <1>1, <1>2, <2>2, <3>1
      <3>3. CASE shared' = c
        BY <1>2, <2>5, <3>2, <3>3 DEF Drawn
      <3>4. CASE shared' = shared
        BY <1>2, <2>2, <2>5, <3>1, <3>2, <3>4 DEF Drawn
      <3> QED BY <2>1, <2>2, <3>3, <3>4
    <2>7. shared' \in Nat
      BY <1>2, <2>1, <2>2
    <2> QED BY <1>11, <2>4, <2>5, <2>6, <2>7
  <1> QED BY <1>9, <1>12, <1>13

(* A client that is gone, or never came, has decoded and drawn nothing.    *)
LEMMA Blank ==
  /\ NoViewer => decoder' = 0 /\ garbled' = FALSE /\ shared' = 0 /\ texture' = 0 /\ At' = 0 /\ Drawn'
  /\ PictureInv /\ encoded = 0 => ~begun /\ socket = <<>> /\ decoder = 0 /\ shared = 0 /\ texture = 0
  <1>1. NoViewer => decoder' = 0 /\ garbled' = FALSE /\ shared' = 0 /\ texture' = 0 /\ At' = 0
    BY DEF NoViewer, At, None, New
  <1>2. NoViewer => Drawn'
    BY <1>1 DEF Drawn, None
  <1>3. ASSUME PictureInv, encoded = 0 PROVE ~begun /\ socket = <<>> /\ decoder = 0 /\ shared = 0 /\ texture = 0
    <2>1. ~begun /\ decoder = 0 /\ socket = <<>>
      BY <1>3 DEF PictureInv, PictureTypes, Opening, None
    <2>2. At = 0
      BY <2>1 DEF At, New
    <2> QED BY <1>3, <2>1, <2>2 DEF PictureInv, PictureTypes, Drawn, None
  <1> QED BY <1>1, <1>2, <1>3

LEMMA RestStep ==
  PictureInv /\ (read_hello \/ ensure_display \/ TurnsOn \/ Refused \/ send \/ dispatch_async_and_wait \/ join \/ leaves \/ render)
    => PictureInv'
  <1> SUFFICES ASSUME PictureInv PROVE read_hello \/ ensure_display \/ TurnsOn \/ Refused \/ send
                                       \/ dispatch_async_and_wait \/ join \/ leaves \/ render => PictureInv'
    OBVIOUS
  <1> USE DEF display, pipe, viewer
  <1>1. CASE read_hello
    <2>1. /\ NoPipe /\ NoViewer /\ here' = TRUE /\ socket' = <<>> /\ slot' = slot
          /\ stage' = "chosen" \/ (stage' = "joining" /\ target' = None) \/ (stage' = "serving" /\ target' = Primary)
      BY <1>1 DEF read_hello
    <2>2. PictureTypes'
      <3>1. <<>> \in Seq(Frames) /\ <<>> \in Seq(Messages)
        OBVIOUS
      <3>2. decoder' = 0 /\ garbled' = FALSE /\ shared' = 0 /\ texture' = 0
        BY <2>1, Blank
      <3> QED BY <2>1, <3>1, <3>2 DEF PictureInv, PictureTypes, NoPipe
    <2>3. OwnDisplay'
      BY <2>1 DEF PictureInv, OwnDisplay, NoPipe
    <2>4. Opening'
      BY <2>1, Blank DEF NoPipe, Opening, None
    <2>5. Led'
      <3>1. Chain("message", socket', 0, 0) /\ Chain("frame", channel' \o callback', 0, 0)
        BY <2>1, ChainEmpty DEF NoPipe
      <3> QED BY <2>1, <3>1, Blank DEF NoPipe, Led
    <2> QED BY <2>1, <2>2, <2>3, <2>4, <2>5, Blank DEF PictureInv
  <1>2. CASE ensure_display
    <2>1. /\ UNCHANGED <<pipe, socket, here, viewer, want>> /\ stage = "chosen" /\ stage' \in {"serving", "listening"}
          /\ slot' = slot \/ slot' = [id |-> shim', size |-> want]
          /\ stage' = "serving" => slot' = [id |-> target', size |-> want]
      <3>1. slot = [id |-> slot.id, size |-> slot.size]
        BY DEF PictureInv, OwnDisplay
      <3> QED BY <1>2, <3>1 DEF ensure_display
    <2>2. UNCHANGED At
      BY <2>1 DEF At
    <2>3. PictureTypes' /\ Opening' /\ Drawn'
      BY <2>1, <2>2 DEF PictureInv, PictureTypes, Opening, Drawn
    <2>4. OwnDisplay'
      BY <2>1 DEF PictureInv, OwnDisplay
    <2>5. Led'
      BY <2>1, <2>2 DEF PictureInv, Led
    <2> QED BY <2>3, <2>4, <2>5 DEF PictureInv
  <1>3. CASE TurnsOn
    <2>1. UNCHANGED At
      BY <1>3 DEF TurnsOn, At
    <2> QED BY <1>3, <2>1 DEF TurnsOn, PictureInv, PictureTypes, OwnDisplay, Opening, Drawn, Led
  <1>4. CASE Refused
    <2>1. /\ UNCHANGED <<display, pipe, socket, viewer>> /\ here' = FALSE /\ encoded = 0 /\ stage' = "listening"
      BY <1>4 DEF Refused
    <2>2. UNCHANGED At
      BY <2>1 DEF At
    <2>3. ~begun /\ socket = <<>> /\ decoder = 0 /\ shared = 0 /\ texture = 0
      BY <2>1, Blank
    <2>4. PictureTypes' /\ OwnDisplay' /\ Drawn'
      BY <2>1, <2>2 DEF PictureInv, PictureTypes, OwnDisplay, Drawn
    <2>5. Opening'
      BY <2>1, <2>3 DEF PictureInv, Opening, None
    <2>6. Led'
      BY <2>1 DEF PictureInv, Led
    <2> QED BY <2>4, <2>5, <2>6 DEF PictureInv
  <1>5. CASE send
    <2>1. /\ UNCHANGED <<display, stage, encoded, last_key, last_coded, begun, socket, here, viewer>>
          /\ channel' = channel \o callback /\ callback' = <<>>
      BY <1>5 DEF send
    <2>2. UNCHANGED At
      BY <2>1 DEF At
    <2>3. /\ channel' \in Seq(Frames) /\ callback' \in Seq(Frames)
          /\ channel' \o callback' = channel \o callback
      BY <2>1, Joins DEF PictureInv, PictureTypes
    <2>4. PictureTypes'
      BY <2>1, <2>3 DEF PictureInv, PictureTypes
    <2>5. OwnDisplay' /\ Opening' /\ Drawn'
      BY <2>1, <2>2 DEF PictureInv, OwnDisplay, Opening, Drawn
    <2>6. Led'
      BY <2>1, <2>2, <2>3 DEF PictureInv, Led
    <2> QED BY <2>4, <2>5, <2>6 DEF PictureInv
  <1>6. CASE dispatch_async_and_wait
    <2>1. UNCHANGED <<display, pipe, socket, here, viewer>> /\ stage = "barrier" /\ stage' = "joining"
      BY <1>6 DEF dispatch_async_and_wait
    <2>2. UNCHANGED At
      BY <2>1 DEF At
    <2>3. PictureTypes' /\ Opening' /\ Drawn'
      BY <2>1, <2>2 DEF PictureInv, PictureTypes, Opening, Drawn
    <2>4. OwnDisplay' /\ Led'
      BY <2>1, <2>2 DEF PictureInv, OwnDisplay, Led
    <2> QED BY <2>3, <2>4 DEF PictureInv
  <1>7. CASE join
    <2>1. /\ NoPipe /\ NoViewer /\ here' = FALSE /\ socket' = <<>> /\ stage' = "listening" /\ UNCHANGED display
      BY <1>7 DEF join
    <2>2. PictureTypes'
      <3>1. <<>> \in Seq(Frames) /\ <<>> \in Seq(Messages)
        OBVIOUS
      <3>2. decoder' = 0 /\ garbled' = FALSE /\ shared' = 0 /\ texture' = 0
        BY <2>1, Blank
      <3> QED BY <2>1, <3>1, <3>2 DEF PictureInv, PictureTypes, NoPipe
    <2>3. OwnDisplay' /\ Led' /\ Drawn'
      BY <2>1, Blank DEF PictureInv, OwnDisplay, NoPipe, Led
    <2>4. Opening'
      BY <2>1, Blank DEF NoPipe, Opening, None
    <2> QED BY <2>2, <2>3, <2>4 DEF PictureInv
  <1>8. CASE leaves
    <2>1. here' = FALSE /\ socket' = <<>> /\ NoViewer /\ UNCHANGED <<display, stage, pipe>>
      BY <1>8 DEF leaves
    <2>2. PictureTypes'
      <3>1. <<>> \in Seq(Messages)
        OBVIOUS
      <3>2. decoder' = 0 /\ garbled' = FALSE /\ shared' = 0 /\ texture' = 0
        BY <2>1, Blank
      <3> QED BY <2>1, <3>1, <3>2 DEF PictureInv, PictureTypes
    <2>3. OwnDisplay' /\ Led' /\ Drawn'
      BY <2>1, Blank DEF PictureInv, OwnDisplay, Led
    <2>4. Opening'
      BY <2>1, Blank DEF PictureInv, Opening, None
    <2> QED BY <2>2, <2>3, <2>4 DEF PictureInv
  <1>9. CASE render
    <2>1. /\ shared # None /\ texture' = shared /\ shared' = None
          /\ UNCHANGED <<display, stage, pipe, socket, here, decoder, garbled>>
      BY <1>9 DEF render
    <2>2. UNCHANGED At
      BY <2>1 DEF At
    <2>3. PictureTypes' /\ Drawn'
      BY <2>1, <2>2 DEF PictureInv, PictureTypes, Drawn, None
    <2>4. OwnDisplay' /\ Led'
      BY <2>1, <2>2 DEF PictureInv, OwnDisplay, Led
    <2>5. Opening'
      BY <2>1 DEF PictureInv, Opening
    <2> QED BY <2>3, <2>4, <2>5 DEF PictureInv
  <1> QED BY <1>1, <1>2, <1>3, <1>4, <1>5, <1>6, <1>7, <1>8, <1>9

LEMMA PictureInvWhole == PictureInv => PictureWhole
  <1> SUFFICES ASSUME PictureInv PROVE PictureWhole
    OBVIOUS
  <1>1. /\ garbled = FALSE /\ encoded \in Nat /\ last_coded \in Nat /\ decoder \in Nat \cup {New} /\ socket \in Seq(Messages)
        /\ shared \in Nat /\ texture \in Nat /\ At \in Nat
    BY DEF PictureInv, PictureTypes, At
  <1>2. texture <= At /\ (shared # None => texture < shared /\ shared <= At)
    BY DEF PictureInv, Drawn
  <1>3. shared # None => shared <= decoder
    BY <1>1, <1>2 DEF At, None
  <1>4. texture <= encoded
    <2>1. CASE here
      <3>1. PICK w \in Nat : w <= last_coded /\ Chain("message", socket, At, w)
        BY <2>1 DEF PictureInv, Led
      <3>2. At <= w
        BY <1>1, <3>1, ChainEnds
      <3>3. last_coded <= encoded
        BY DEF PictureInv, Led
      <3> QED BY <1>1, <1>2, <3>1, <3>2, <3>3
    <2>2. CASE ~here
      BY <1>1, <2>2 DEF PictureInv, Opening, None
    <2> QED BY <2>1, <2>2
  <1>5. encoded > 0 /\ target \notin {None, Primary} => slot = [id |-> target, size |-> want]
    BY <1>1 DEF PictureInv, PictureTypes, OwnDisplay
  <1> QED BY <1>1, <1>2, <1>3, <1>4, <1>5 DEF PictureWhole

-----------------------------------------------------------------------------
(* What the client's window shows is whole and in order, on every run of   *)
(* the command-line host and its clients: the chain of frames holds through*)
(* the callback, the channel, the socket and the decoder, whatever is      *)
(* dropped before the first keyframe, whenever a client leaves and whatever*)
(* display the next one is given.                                          *)
THEOREM PictureStaysWhole == PictureSpec => []PictureWhole
  <1>1. PictureInv /\ UNCHANGED picture => PictureInv'
    <2> SUFFICES ASSUME PictureInv, UNCHANGED picture PROVE PictureInv'
      OBVIOUS
    <2>1. UNCHANGED <<forced, slot, shim, registered, want, target, stage, encoded, last_key, last_coded, callback,
                      channel, begun, socket, here, decoder, garbled, shared, texture>>
      BY DEF picture, display, pipe, viewer
    <2>2. UNCHANGED At
      BY <2>1 DEF At
    <2> QED BY <2>1, <2>2 DEF PictureInv, PictureTypes, OwnDisplay, Opening, Drawn, Led
  <1>2. PictureInv /\ [PictureNext]_picture => PictureInv'
    BY <1>1, StreamStep, CaptureStep, DecodeStep, RestStep DEF PictureNext
  <1> QED BY PictureInvInit, <1>2, PictureInvWhole, PTL DEF PictureSpec

-----------------------------------------------------------------------------
(* The key tables.  A row of a table says what the table says, and the      *)
(* tables of the three systems tell any two keys of the client apart.       *)
LEMMA TableFacts ==
  ASSUME NEW rows
  PROVE  /\ DOMAIN Table(rows) = UNION {DOMAIN r : r \in rows}
         /\ \A r \in rows : \A u \in DOMAIN r :
              (\A q \in rows : u \in DOMAIN q => q = r) => Table(rows)[u] = r[u]
  BY DEF Table

LEMMA HidNames ==
  /\ DOMAIN hid_names = (4 .. 49) \cup (51 .. 69) \cup (73 .. 82) \cup (224 .. 231)
  /\ DOMAIN hid_to_linux_key = DOMAIN hid_names
  /\ \A u \in DOMAIN hid_names : hid_to_linux_key[u] = hid_names[u]
<1> DEFINE A == Row(4, Letters)
           D == Row(30, <<"1", "2", "3", "4", "5", "6", "7", "8", "9", "0">>)
           E1 == Row(40, <<"Enter", "Escape", "Backspace", "Tab", "Space">>)
           E2 == Row(45, <<"Minus", "Equal", "BracketLeft", "BracketRight", "Backslash">>)
           E == Row(40, <<"Enter", "Escape", "Backspace", "Tab", "Space", "Minus", "Equal",
               "BracketLeft", "BracketRight", "Backslash">>)
           G == Row(51, <<"Semicolon", "Quote", "Backquote", "Comma", "Period", "Slash", "CapsLock">>)
           F == Row(58, FKeys)
           W == Row(79, <<"Right", "Left", "Down", "Up">>)
           M == Row(224, <<"LeftCtrl", "LeftShift", "LeftAlt", "LeftMeta",
                "RightCtrl", "RightShift", "RightAlt", "RightMeta">>)
           I == Row(73, <<"Insert", "Home", "PageUp", "Delete", "End", "PageDown">>)
           P1 == Row(75, <<"PageUp">>)
           P2 == Row(78, <<"PageDown">>)
           P3 == Row(74, <<"Home">>)
           P4 == Row(77, <<"End">>)
           P5 == Row(73, <<"Insert">>)
           P6 == Row(76, <<"Delete">>)
<1>1. hid_names = Table({A, D, E1, E2, G, W, P1, P2, P3, P4, P5, P6, F, M})
  BY DEF hid_names
<1>2. hid_to_linux_key = Table({A, D, E, G, F, I, W, M})
  BY DEF hid_to_linux_key
<1>a. DOMAIN A = 4 .. 29
  BY DEF Row, Letters
<1>b. DOMAIN D = 30 .. 39
  BY DEF Row
<1>c. DOMAIN E1 = 40 .. 44 /\ DOMAIN E2 = 45 .. 49
  BY DEF Row
<1>d. DOMAIN E = 40 .. 49
  BY DEF Row
<1>e. DOMAIN G = 51 .. 57
  BY DEF Row
<1>f. DOMAIN F = 58 .. 69
  BY DEF Row, FKeys
<1>g. DOMAIN W = 79 .. 82
  BY DEF Row
<1>h. DOMAIN M = 224 .. 231
  BY DEF Row
<1>i. DOMAIN I = 73 .. 78
  BY DEF Row
<1>j. DOMAIN P1 = {75} /\ DOMAIN P2 = {78} /\ DOMAIN P3 = {74} /\ DOMAIN P4 = {77} /\ DOMAIN P5 = {73}
      /\ DOMAIN P6 = {76}
  BY DEF Row
<1>k. P1[75] = I[75] /\ P2[78] = I[78] /\ P3[74] = I[74] /\ P4[77] = I[77] /\ P5[73] = I[73] /\ P6[76] = I[76]
  BY DEF Row
<1>l. \A u \in 40 .. 49 : E[u] = IF u \in 40 .. 44 THEN E1[u] ELSE E2[u]
  BY DEF Row
<1> HIDE DEF A, D, E, E1, E2, G, F, W, M, I, P1, P2, P3, P4, P5, P6
<1> DEFINE S == {A, D, E1, E2, G, W, P1, P2, P3, P4, P5, P6, F, M}
           T == {A, D, E, G, F, I, W, M}
<1>3. \A r \in S, q \in S : \A u \in DOMAIN r : u \in DOMAIN q => q = r
  BY <1>a, <1>b, <1>c, <1>e, <1>f, <1>g, <1>h, <1>j
<1>4. \A r \in T, q \in T : \A u \in DOMAIN r : u \in DOMAIN q => q = r
  BY <1>a, <1>b, <1>d, <1>e, <1>f, <1>g, <1>h, <1>i
<1>5. UNION {DOMAIN r : r \in S} = (4 .. 49) \cup (51 .. 69) \cup (73 .. 82) \cup (224 .. 231)
  BY <1>a, <1>b, <1>c, <1>e, <1>f, <1>g, <1>h, <1>j
<1>6. UNION {DOMAIN r : r \in T} = (4 .. 49) \cup (51 .. 69) \cup (73 .. 82) \cup (224 .. 231)
  BY <1>a, <1>b, <1>d, <1>e, <1>f, <1>g, <1>h, <1>i
<1>7. hid_names = Table(S) /\ hid_to_linux_key = Table(T)
  BY <1>1, <1>2
<1> HIDE DEF S, T
<1>8. \A r \in S : \A u \in DOMAIN r : hid_names[u] = r[u]
  BY <1>3, <1>7, TableFacts
<1>9. \A r \in T : \A u \in DOMAIN r : hid_to_linux_key[u] = r[u]
  BY <1>4, <1>7, TableFacts
<1>10. DOMAIN hid_names = UNION {DOMAIN r : r \in S} /\ DOMAIN hid_to_linux_key = UNION {DOMAIN r : r \in T}
  BY <1>7, TableFacts
<1>11. ASSUME NEW u \in DOMAIN hid_names PROVE hid_to_linux_key[u] = hid_names[u]
  <2>1. ASSUME NEW r \in S, r \in T, u \in DOMAIN r PROVE hid_to_linux_key[u] = hid_names[u]
    BY <1>8, <1>9, <2>1
  <2>2. CASE u \in 40 .. 49
    <3>1. hid_to_linux_key[u] = E[u]
      BY <1>9, <1>d, <2>2 DEF T
    <3>2. u \in 40 .. 44 => hid_names[u] = E1[u]
      BY <1>8, <1>c DEF S
    <3>3. u \in 45 .. 49 => hid_names[u] = E2[u]
      BY <1>8, <1>c DEF S
    <3> QED BY <2>2, <3>1, <3>2, <3>3, <1>l
  <2>3. CASE u \in 73 .. 78
    <3>1. hid_to_linux_key[u] = I[u]
      BY <1>9, <1>i, <2>3 DEF T
    <3>2. /\ hid_names[75] = P1[75] /\ hid_names[78] = P2[78] /\ hid_names[74] = P3[74]
          /\ hid_names[77] = P4[77] /\ hid_names[73] = P5[73] /\ hid_names[76] = P6[76]
      BY <1>8, <1>j DEF S
    <3> QED BY <2>3, <3>1, <3>2, <1>k
  <2>4. CASE u \notin 40 .. 49 /\ u \notin 73 .. 78
    <3>1. {A, D, G, F, W, M} \subseteq S \cap T
      BY DEF S, T
    <3>2. u \in DOMAIN A \cup DOMAIN D \cup DOMAIN G \cup DOMAIN F \cup DOMAIN W \cup DOMAIN M
      BY <1>5, <1>10, <2>4, <1>a, <1>b, <1>e, <1>f, <1>g, <1>h
    <3> QED BY <2>1, <3>1, <3>2
  <2> QED BY <2>2, <2>3, <2>4
<1> QED BY <1>5, <1>6, <1>10, <1>11

LEMMA WindowsNames ==
  /\ DOMAIN hid_to_windows_vk = DOMAIN hid_names
  /\ \A u \in DOMAIN hid_names : hid_to_windows_vk[u] = hid_names[u]
<1> DEFINE A == Row(4, Letters)
           D == Row(30, <<"1", "2", "3", "4", "5", "6", "7", "8", "9", "0">>)
           E1 == Row(40, <<"Enter", "Escape", "Backspace", "Tab", "Space">>)
           E2 == Row(45, <<"Minus", "Equal", "BracketLeft", "BracketRight", "Backslash">>)
           E == Row(40, <<"Enter", "Escape", "Backspace", "Tab", "Space", "Minus", "Equal",
               "BracketLeft", "BracketRight", "Backslash">>)
           G == Row(51, <<"Semicolon", "Quote", "Backquote", "Comma", "Period", "Slash", "CapsLock">>)
           F == Row(58, FKeys)
           W == Row(79, <<"Right", "Left", "Down", "Up">>)
           M == Row(224, <<"LeftCtrl", "LeftShift", "LeftAlt", "LeftMeta",
                "RightCtrl", "RightShift", "RightAlt", "RightMeta">>)
           A1 == [u \in 4 .. 29 |-> Letters[u - 4 + 1]]
           D1 == [u \in 30 .. 38 |-> <<"1", "2", "3", "4", "5", "6", "7", "8", "9">>[u - 30 + 1]]
           D2 == Row(39, <<"0">>)
           P1 == Row(75, <<"PageUp">>)
           P2 == Row(78, <<"PageDown">>)
           P3 == Row(74, <<"Home">>)
           P4 == Row(77, <<"End">>)
           P5 == Row(73, <<"Insert">>)
           P6 == Row(76, <<"Delete">>)
<1>1. hid_names = Table({A, D, E1, E2, G, W, P1, P2, P3, P4, P5, P6, F, M})
  BY DEF hid_names
<1>2. hid_to_windows_vk = Table({A1, D1, D2, E, G, W, P1, P2, P3, P4, P5, P6, F, M})
  BY DEF hid_to_windows_vk
<1>a. DOMAIN A = 4 .. 29
  BY DEF Row, Letters
<1>b. DOMAIN D = 30 .. 39
  BY DEF Row
<1>c. DOMAIN E1 = 40 .. 44 /\ DOMAIN E2 = 45 .. 49
  BY DEF Row
<1>d. DOMAIN E = 40 .. 49
  BY DEF Row
<1>e. DOMAIN G = 51 .. 57
  BY DEF Row
<1>f. DOMAIN F = 58 .. 69
  BY DEF Row, FKeys
<1>g. DOMAIN W = 79 .. 82
  BY DEF Row
<1>h. DOMAIN M = 224 .. 231
  BY DEF Row
<1>i. DOMAIN A1 = 4 .. 29 /\ DOMAIN D1 = 30 .. 38
  OBVIOUS
<1>m. DOMAIN D2 = {39} /\ D2[39] = D[39]
  BY DEF Row
<1>n. \A u \in 4 .. 29 : A1[u] = A[u]
  BY <1>a DEF Row
<1>o. \A u \in 30 .. 38 : D1[u] = D[u]
  BY DEF Row
<1>j. DOMAIN P1 = {75} /\ DOMAIN P2 = {78} /\ DOMAIN P3 = {74} /\ DOMAIN P4 = {77} /\ DOMAIN P5 = {73}
      /\ DOMAIN P6 = {76}
  BY DEF Row
<1>l. \A u \in 40 .. 49 : E[u] = IF u \in 40 .. 44 THEN E1[u] ELSE E2[u]
  BY DEF Row
<1> HIDE DEF A, A1, D, D1, D2, E, E1, E2, G, F, W, M, P1, P2, P3, P4, P5, P6
<1> DEFINE S == {A, D, E1, E2, G, W, P1, P2, P3, P4, P5, P6, F, M}
           T == {A1, D1, D2, E, G, W, P1, P2, P3, P4, P5, P6, F, M}
<1>3. \A r \in S, q \in S : \A u \in DOMAIN r : u \in DOMAIN q => q = r
  BY <1>a, <1>b, <1>c, <1>e, <1>f, <1>g, <1>h, <1>j
<1>4. \A r \in T, q \in T : \A u \in DOMAIN r : u \in DOMAIN q => q = r
  BY <1>d, <1>e, <1>f, <1>g, <1>h, <1>i, <1>j, <1>m
<1>5. UNION {DOMAIN r : r \in S} = (4 .. 49) \cup (51 .. 69) \cup (73 .. 82) \cup (224 .. 231)
  BY <1>a, <1>b, <1>c, <1>e, <1>f, <1>g, <1>h, <1>j
<1>6. UNION {DOMAIN r : r \in T} = (4 .. 49) \cup (51 .. 69) \cup (73 .. 82) \cup (224 .. 231)
  BY <1>d, <1>e, <1>f, <1>g, <1>h, <1>i, <1>j, <1>m
<1>7. hid_names = Table(S) /\ hid_to_windows_vk = Table(T)
  BY <1>1, <1>2
<1> HIDE DEF S, T
<1>8. \A r \in S : \A u \in DOMAIN r : hid_names[u] = r[u]
  BY <1>3, <1>7, TableFacts
<1>9. \A r \in T : \A u \in DOMAIN r : hid_to_windows_vk[u] = r[u]
  BY <1>4, <1>7, TableFacts
<1>10. DOMAIN hid_names = UNION {DOMAIN r : r \in S} /\ DOMAIN hid_to_windows_vk = UNION {DOMAIN r : r \in T}
  BY <1>7, TableFacts
<1>11. ASSUME NEW u \in DOMAIN hid_names PROVE hid_to_windows_vk[u] = hid_names[u]
  <2>1. ASSUME NEW r \in S, r \in T, u \in DOMAIN r PROVE hid_to_windows_vk[u] = hid_names[u]
    BY <1>8, <1>9, <2>1
  <2>2. CASE u \in 40 .. 49
    <3>1. hid_to_windows_vk[u] = E[u]
      BY <1>9, <1>d, <2>2 DEF T
    <3>2. u \in 40 .. 44 => hid_names[u] = E1[u]
      BY <1>8, <1>c DEF S
    <3>3. u \in 45 .. 49 => hid_names[u] = E2[u]
      BY <1>8, <1>c DEF S
    <3> QED BY <2>2, <3>1, <3>2, <3>3, <1>l
  <2>3. CASE u \in 4 .. 39
    <3>1. /\ u \in 4 .. 29 => hid_to_windows_vk[u] = A1[u] /\ hid_names[u] = A[u]
          /\ u \in 30 .. 38 => hid_to_windows_vk[u] = D1[u] /\ hid_names[u] = D[u]
          /\ u = 39 => hid_to_windows_vk[u] = D2[u] /\ hid_names[u] = D[u]
      BY <1>8, <1>9, <1>a, <1>b, <1>i, <1>m DEF S, T
    <3> QED BY <2>3, <3>1, <1>m, <1>n, <1>o
  <2>4. CASE u \notin 4 .. 49
    <3>1. {G, F, W, M, P1, P2, P3, P4, P5, P6} \subseteq S \cap T
      BY DEF S, T
    <3>2. \E r \in {G, F, W, M, P1, P2, P3, P4, P5, P6} : u \in DOMAIN r
      BY <1>5, <1>10, <2>4, <1>e, <1>f, <1>g, <1>h, <1>j
    <3> QED BY <2>1, <3>1, <3>2
  <2> QED BY <2>2, <2>3, <2>4
<1> QED BY <1>5, <1>6, <1>10, <1>11

LEMMA MacInjective ==
  /\ DOMAIN hid_to_macos = (4 .. 49) \cup (51 .. 69) \cup (73 .. 82) \cup (224 .. 231)
  /\ \A u, v \in DOMAIN hid_to_macos : hid_to_macos[u] = hid_to_macos[v] => u = v
<1> DEFINE A == Row(4, <<0, 11, 8, 2, 14, 3, 5, 4, 34, 38, 40, 37, 46, 45,
                       31, 35, 12, 15, 1, 17, 32, 9, 13, 7, 16, 6>>)
           B == Row(30, <<18, 19, 20, 21, 23, 22, 26, 28, 25, 29>>)
           C == Row(40, <<36, 53, 51, 48, 49, 27, 24, 33, 30, 42>>)
           D == Row(51, <<41, 39, 50, 43, 47, 44, 57>>)
           E == Row(79, <<124, 123, 125, 126>>)
           F == Row(75, <<116>>)
           G == Row(78, <<121>>)
           H == Row(74, <<115>>)
           I == Row(77, <<119>>)
           J == Row(73, <<114>>)
           K == Row(76, <<117>>)
           L == Row(58, <<122, 120, 99, 118, 96, 97, 98, 100, 101, 109, 103,
                       111>>)
           M == Row(224, <<59, 56, 58, 55, 62, 60, 61, 54>>)
<1> DEFINE Of(x) == IF x \in {0, 1, 2, 3, 4, 5, 6, 7, 8, 9, 11, 12, 13, 14, 15, 16,
                        17, 31, 32, 34, 35, 37, 38, 40, 45, 46} THEN 4
                 ELSE IF x \in {18, 19, 20, 21, 22, 23, 25, 26, 28, 29} THEN 30
                 ELSE IF x \in {24, 27, 30, 33, 36, 42, 48, 49, 51, 53} THEN 40
                 ELSE IF x \in {39, 41, 43, 44, 47, 50, 57} THEN 51
                 ELSE IF x \in {123, 124, 125, 126} THEN 79
                 ELSE IF x \in {116} THEN 75
                 ELSE IF x \in {121} THEN 78
                 ELSE IF x \in {115} THEN 74
                 ELSE IF x \in {119} THEN 77
                 ELSE IF x \in {114} THEN 73
                 ELSE IF x \in {117} THEN 76
                 ELSE IF x \in {96, 97, 98, 99, 100, 101, 103, 109, 111, 118, 120,
                        122} THEN 58
                 ELSE 224
           Holds(r, a, b) == /\ DOMAIN r = a .. b /\ \A u \in a .. b : Of(r[u]) = a
                             /\ \A u, v \in a .. b : r[u] = r[v] => u = v
<1>1. hid_to_macos = Table({A, B, C, D, E, F, G, H, I, J, K, L, M})
  BY DEF hid_to_macos
<1>a. Holds(A, 4, 29)
  BY DEF Row
<1>b. Holds(B, 30, 39)
  BY DEF Row
<1>c. Holds(C, 40, 49)
  BY DEF Row
<1>d. Holds(D, 51, 57)
  BY DEF Row
<1>e. Holds(E, 79, 82)
  BY DEF Row
<1>f. Holds(F, 75, 75)
  BY DEF Row
<1>g. Holds(G, 78, 78)
  BY DEF Row
<1>h. Holds(H, 74, 74)
  BY DEF Row
<1>i. Holds(I, 77, 77)
  BY DEF Row
<1>j. Holds(J, 73, 73)
  BY DEF Row
<1>k. Holds(K, 76, 76)
  BY DEF Row
<1>l. Holds(L, 58, 69)
  BY DEF Row
<1>m. Holds(M, 224, 231)
  BY DEF Row
<1> HIDE DEF Of, A, B, C, D, E, F, G, H, I, J, K, L, M
<1> DEFINE S == {A, B, C, D, E, F, G, H, I, J, K, L, M}
<1>2. \A r \in S, q \in S : \A u \in DOMAIN r : u \in DOMAIN q => q = r
  BY <1>a, <1>b, <1>c, <1>d, <1>e, <1>f, <1>g, <1>h, <1>i, <1>j, <1>k, <1>l, <1>m
<1>3. hid_to_macos = Table(S)
  BY <1>1
<1>6. UNION {DOMAIN r : r \in S} = (4 .. 49) \cup (51 .. 69) \cup (73 .. 82) \cup (224 .. 231)
  <2>1. UNION {DOMAIN r : r \in S}
          = (4 .. 29) \cup (30 .. 39) \cup (40 .. 49) \cup (51 .. 57) \cup (58 .. 69) \cup (73 .. 73)
            \cup (74 .. 74) \cup (75 .. 75) \cup (76 .. 76) \cup (77 .. 77) \cup (78 .. 78) \cup (79 .. 82)
            \cup (224 .. 231)
    BY <1>a, <1>b, <1>c, <1>d, <1>e, <1>f, <1>g, <1>h, <1>i, <1>j, <1>k, <1>l, <1>m
  <2> QED BY <2>1
<1>4. \A r \in S, q \in S : \A u \in DOMAIN r, v \in DOMAIN q : r[u] = q[v] => u = v
  BY <1>a, <1>b, <1>c, <1>d, <1>e, <1>f, <1>g, <1>h, <1>i, <1>j, <1>k, <1>l, <1>m
<1> HIDE DEF S
<1>5. /\ DOMAIN hid_to_macos = UNION {DOMAIN r : r \in S}
      /\ \A r \in S : \A u \in DOMAIN r : hid_to_macos[u] = r[u]
  BY <1>2, <1>3, TableFacts
<1> QED BY <1>4, <1>5, <1>6

LEMMA KeyToHid ==
  \A k \in DOMAIN key_to_hid : key_to_hid[k] \in DOMAIN hid_names /\ hid_names[key_to_hid[k]] = k
  BY DEF key_to_hid, AntiFunction, Inverse, Range

(* A key pressed at the client is pressed at the host, whichever system it    *)
(* runs: the four tables agree on every key the client knows.               *)
THEOREM TablesAgree == KeysAgree
<1>1. \A k \in DOMAIN key_to_hid :
        /\ hid_to_linux_key[key_to_hid[k]] = k
        /\ hid_to_windows_vk[key_to_hid[k]] = k
        /\ key_to_hid[k] \in DOMAIN hid_to_macos
  <2> TAKE k \in DOMAIN key_to_hid
  <2> DEFINE u == key_to_hid[k]
  <2>1. u \in DOMAIN hid_names /\ hid_names[u] = k
    BY KeyToHid
  <2> HIDE DEF u
  <2>2. hid_to_linux_key[u] = k /\ hid_to_windows_vk[u] = k
    BY <2>1, HidNames, WindowsNames
  <2>3. u \in DOMAIN hid_to_macos
    BY <2>1, HidNames, MacInjective
  <2> QED BY <2>2, <2>3 DEF u
<1>2. IsInjective(hid_to_macos)
  BY MacInjective DEF IsInjective
<1> QED BY <1>1, <1>2 DEF KeysAgree

(* The rows of Linux that a character is typed with.                        *)
DigitKeys == <<"1", "2", "3", "4", "5", "6", "7", "8", "9", "0">>
SignKeys == <<"Enter", "Escape", "Backspace", "Tab", "Space", "Minus", "Equal",
               "BracketLeft", "BracketRight", "Backslash">>
MoreKeys == <<"Semicolon", "Quote", "Backquote", "Comma", "Period", "Slash", "CapsLock">>

LEMMA LinuxRows ==
  /\ DOMAIN hid_to_linux_key = (4 .. 49) \cup (51 .. 69) \cup (73 .. 82) \cup (224 .. 231)
  /\ \A i \in 1 .. 26 : hid_to_linux_key[i + 3] = Letters[i]
  /\ \A i \in 1 .. 10 : hid_to_linux_key[i + 29] = DigitKeys[i]
  /\ \A i \in 1 .. 10 : hid_to_linux_key[i + 39] = SignKeys[i]
  /\ \A i \in 1 .. 7 : hid_to_linux_key[i + 50] = MoreKeys[i]
<1> DEFINE A == Row(4, Letters)
           D == Row(30, DigitKeys)
           E == Row(40, SignKeys)
           G == Row(51, MoreKeys)
           F == Row(58, FKeys)
           I == Row(73, <<"Insert", "Home", "PageUp", "Delete", "End", "PageDown">>)
           W == Row(79, <<"Right", "Left", "Down", "Up">>)
           M == Row(224, <<"LeftCtrl", "LeftShift", "LeftAlt", "LeftMeta",
                "RightCtrl", "RightShift", "RightAlt", "RightMeta">>)
<1>1. hid_to_linux_key = Table({A, D, E, G, F, I, W, M})
  BY DEF hid_to_linux_key, DigitKeys, SignKeys, MoreKeys
<1>a. DOMAIN A = 4 .. 29 /\ \A i \in 1 .. 26 : i + 3 \in 4 .. 29 /\ A[i + 3] = Letters[i]
  BY DEF Row, Letters
<1>b. DOMAIN D = 30 .. 39 /\ \A i \in 1 .. 10 : i + 29 \in 30 .. 39 /\ D[i + 29] = DigitKeys[i]
  BY DEF Row, DigitKeys
<1>c. DOMAIN E = 40 .. 49 /\ \A i \in 1 .. 10 : i + 39 \in 40 .. 49 /\ E[i + 39] = SignKeys[i]
  BY DEF Row, SignKeys
<1>d. DOMAIN G = 51 .. 57 /\ \A i \in 1 .. 7 : i + 50 \in 51 .. 57 /\ G[i + 50] = MoreKeys[i]
  BY DEF Row, MoreKeys
<1>e. DOMAIN F = 58 .. 69 /\ DOMAIN I = 73 .. 78 /\ DOMAIN W = 79 .. 82 /\ DOMAIN M = 224 .. 231
  BY DEF Row, FKeys
<1> HIDE DEF A, D, E, G, F, I, W, M
<1> DEFINE T == {A, D, E, G, F, I, W, M}
<1>2. \A r \in T, q \in T : \A u \in DOMAIN r : u \in DOMAIN q => q = r
  BY <1>a, <1>b, <1>c, <1>d, <1>e
<1>3. UNION {DOMAIN r : r \in T} = (4 .. 49) \cup (51 .. 69) \cup (73 .. 82) \cup (224 .. 231)
  BY <1>a, <1>b, <1>c, <1>d, <1>e
<1>4. A \in T /\ D \in T /\ E \in T /\ G \in T
  OBVIOUS
<1>5. hid_to_linux_key = Table(T)
  BY <1>1
<1> HIDE DEF T
<1>6. \A r \in T : \A u \in DOMAIN r : hid_to_linux_key[u] = r[u]
  BY <1>2, <1>5, TableFacts
<1>7. DOMAIN hid_to_linux_key = UNION {DOMAIN r : r \in T}
  BY <1>5, TableFacts
<1>8. \A i \in 1 .. 26 : hid_to_linux_key[i + 3] = Letters[i]
  BY <1>4, <1>6, <1>a
<1>9. \A i \in 1 .. 10 : hid_to_linux_key[i + 29] = DigitKeys[i]
  BY <1>4, <1>6, <1>b
<1>10. \A i \in 1 .. 10 : hid_to_linux_key[i + 39] = SignKeys[i]
  BY <1>4, <1>6, <1>c
<1>11. \A i \in 1 .. 7 : hid_to_linux_key[i + 50] = MoreKeys[i]
  BY <1>4, <1>6, <1>d
<1> QED BY <1>3, <1>7, <1>8, <1>9, <1>10, <1>11

(* A row of characters, each with its key.                                  *)
TypedBy(s, keys, b) == [c \in Range(s) |-> <<keys[CHOOSE i \in DOMAIN s : s[i] = c], b>>]

LEMMA CharRow ==
  ASSUME NEW n \in Nat, NEW s, DOMAIN s = 1 .. n, \A i, j \in 1 .. n : s[i] = s[j] => i = j,
         NEW keys, NEW b
  PROVE  LET r == TypedBy(s, keys, b)
         IN /\ \A c \in DOMAIN r : \E i \in 1 .. n : c = s[i]
            /\ \A i \in 1 .. n : s[i] \in DOMAIN r /\ r[s[i]] = <<keys[i], b>>
  <1> DEFINE r == TypedBy(s, keys, b)
  <1>1. \A c \in DOMAIN r : \E i \in 1 .. n : c = s[i]
    BY DEF Range, TypedBy
  <1>2. ASSUME NEW i \in 1 .. n PROVE s[i] \in DOMAIN r /\ r[s[i]] = <<keys[i], b>>
    <2>1. (CHOOSE k \in DOMAIN s : s[k] = s[i]) = i
      OBVIOUS
    <2>2. s[i] \in Range(s)
      BY DEF Range
    <2> QED BY <2>1, <2>2 DEF TypedBy
  <1> QED BY <1>1, <1>2

(* Which row of the table a character is of, and which one types by a key.   *)
CharRowOf(c) ==
  IF c \in {"a", "b", "c", "d", "e", "f", "g", "h", "i", "j", "k", "l", "m", "n",
     "o", "p", "q", "r", "s", "t", "u", "v", "w", "x", "y", "z"} THEN 1
  ELSE IF c \in {"A", "B", "C", "D", "E", "F", "G", "H", "I", "J", "K", "L", "M",
     "N", "O", "P", "Q", "R", "S", "T", "U", "V", "W", "X", "Y", "Z"} THEN 2
  ELSE IF c \in {"1", "2", "3", "4", "5", "6", "7", "8", "9"} THEN 3
  ELSE IF c \in {"0", "space", "newline", "tab"} THEN 4
  ELSE IF c \in {"hyphen", "equals", "lbracket", "rbracket", "backslash", "semicolon", "apostrophe", "backquote", "comma", "dot",
     "slash"} THEN 5
  ELSE IF c \in {"bang", "at", "hash", "dollar", "percent", "caret", "ampersand", "star", "lparen", "rparen"} THEN
     6
  ELSE 7

KeyRowOf(v) ==
  IF v[2] = FALSE THEN
       IF v[1] \in {"A", "B", "C", "D", "E", "F", "G", "H", "I", "J", "K", "L", "M",
          "N", "O", "P", "Q", "R", "S", "T", "U", "V", "W", "X", "Y", "Z"} THEN 1
       ELSE IF v[1] \in {"1", "2", "3", "4", "5", "6", "7", "8", "9"} THEN 3
       ELSE IF v[1] \in {"0", "Space", "Enter", "Tab"} THEN 4
       ELSE 5
  ELSE
       IF v[1] \in {"A", "B", "C", "D", "E", "F", "G", "H", "I", "J", "K", "L", "M",
          "N", "O", "P", "Q", "R", "S", "T", "U", "V", "W", "X", "Y", "Z"} THEN 2
       ELSE IF v[1] \in {"1", "2", "3", "4", "5", "6", "7", "8", "9", "0"} THEN 6
       ELSE 7

(* A row is told by its characters and by its keys, and has no two of either.*)
RowIs(r, k) ==
  /\ \A c \in DOMAIN r : /\ CharRowOf(c) = k /\ KeyRowOf(r[c]) = k
                         /\ r[c][1] \in Range(hid_to_linux_key)
  /\ \A c, d \in DOMAIN r : r[c] = r[d] => c = d

(* n characters, and n keys fit for that row.                               *)
Fit(n, s, keys, b, k) ==
  /\ DOMAIN s = 1 .. n
  /\ \A i, j \in 1 .. n : s[i] = s[j] => i = j
  /\ \A i, j \in 1 .. n : keys[i] = keys[j] => i = j
  /\ \A i \in 1 .. n : CharRowOf(s[i]) = k /\ KeyRowOf(<<keys[i], b>>) = k
                       /\ keys[i] \in Range(hid_to_linux_key)

LEMMA RowHolds ==
  ASSUME NEW n \in Nat, NEW s, NEW keys, NEW b, NEW k, Fit(n, s, keys, b, k)
  PROVE  RowIs(TypedBy(s, keys, b), k)
  <1> DEFINE r == TypedBy(s, keys, b)
  <1>1. /\ \A c \in DOMAIN r : \E i \in 1 .. n : c = s[i]
        /\ \A i \in 1 .. n : s[i] \in DOMAIN r /\ r[s[i]] = <<keys[i], b>>
    BY CharRow, SMTT(30) DEF Fit
  <1> HIDE DEF r
  <1>2. ASSUME NEW c \in DOMAIN r
        PROVE  CharRowOf(c) = k /\ KeyRowOf(r[c]) = k /\ r[c][1] \in Range(hid_to_linux_key)
    <2>1. PICK i \in 1 .. n : c = s[i]
      BY <1>1
    <2>2. r[c] = <<keys[i], b>> /\ r[c][1] = keys[i]
      BY <1>1, <2>1
    <2> QED BY <2>1, <2>2 DEF Fit
  <1>3. ASSUME NEW c \in DOMAIN r, NEW d \in DOMAIN r, r[c] = r[d] PROVE c = d
    <2>1. PICK i \in 1 .. n : c = s[i]
      BY <1>1
    <2>2. PICK j \in 1 .. n : d = s[j]
      BY <1>1
    <2>3. r[c] = <<keys[i], b>> /\ r[d] = <<keys[j], b>>
      BY <1>1, <2>1, <2>2
    <2>4. keys[i] = keys[j]
      <3>1. r[c][1] = keys[i] /\ r[d][1] = keys[j]
        BY <2>3
      <3> QED BY <1>3, <3>1
    <2> QED BY <2>1, <2>2, <2>4 DEF Fit
  <1>4. RowIs(r, k)
    BY <1>2, <1>3 DEF RowIs
  <1> QED BY <1>4 DEF r

(* The keys characters are typed with are keys Linux presses.                *)
LEMMA TypedKeys ==
  LET letters == [i \in 1 .. 26 |-> hid_to_linux_key[4 + i - 1]]
      digits == [i \in 1 .. 9 |-> hid_to_linux_key[30 + i - 1]]
  IN /\ \A i \in 1 .. 26 : letters[i] = Letters[i] /\ letters[i] \in Range(hid_to_linux_key)
     /\ \A i \in 1 .. 9 : digits[i] = DigitKeys[i]
     /\ \A i \in 1 .. 10 : /\ DigitKeys[i] \in Range(hid_to_linux_key)
                            /\ SignKeys[i] \in Range(hid_to_linux_key)
     /\ \A i \in 1 .. 7 : MoreKeys[i] \in Range(hid_to_linux_key)
  <1>1. \A u \in DOMAIN hid_to_linux_key : hid_to_linux_key[u] \in Range(hid_to_linux_key)
    BY DEF Range
  <1>2. ASSUME NEW i \in 1 .. 26
        PROVE  i + 3 \in DOMAIN hid_to_linux_key /\ 4 + i - 1 = i + 3 /\ hid_to_linux_key[i + 3] = Letters[i]
    BY LinuxRows
  <1>3. ASSUME NEW i \in 1 .. 10
        PROVE  i + 29 \in DOMAIN hid_to_linux_key /\ 30 + i - 1 = i + 29 /\ hid_to_linux_key[i + 29] = DigitKeys[i]
    BY LinuxRows
  <1>4. ASSUME NEW i \in 1 .. 10
        PROVE  i + 39 \in DOMAIN hid_to_linux_key /\ hid_to_linux_key[i + 39] = SignKeys[i]
    BY LinuxRows
  <1>5. ASSUME NEW i \in 1 .. 7
        PROVE  i + 50 \in DOMAIN hid_to_linux_key /\ hid_to_linux_key[i + 50] = MoreKeys[i]
    BY LinuxRows
  <1> QED BY <1>1, <1>2, <1>3, <1>4, <1>5

LEMMA CharsAreApart == CharsApart
  <1> DEFINE letters == [i \in 1 .. 26 |-> hid_to_linux_key[4 + i - 1]]
             digits == [i \in 1 .. 9 |-> hid_to_linux_key[30 + i - 1]]
             Lower == <<"a", "b", "c", "d", "e", "f", "g", "h", "i", "j", "k",
                      "l", "m", "n", "o", "p", "q", "r", "s", "t", "u", "v", "w", "x",
                      "y", "z">>
             Upper == Letters
             Digits == <<"1", "2", "3", "4", "5", "6", "7", "8", "9">>
             Blanks == <<"0", "space", "newline", "tab">>
             Signs == <<"hyphen", "equals", "lbracket", "rbracket", "backslash", "semicolon", "apostrophe", "backquote",
                      "comma", "dot", "slash">>
             Tops == <<"bang", "at", "hash", "dollar", "percent", "caret", "ampersand", "star", "lparen",
                      "rparen">>
             Shifts == <<"underscore", "plus", "lbrace", "rbrace", "bar", "colon", "dquote", "tilde", "less", "greater",
                      "question">>
             BlankKeys == <<"0", "Space", "Enter", "Tab">>
             PunctKeys == <<"Minus", "Equal", "BracketLeft", "BracketRight",
                      "Backslash", "Semicolon", "Quote", "Backquote", "Comma", "Period",
                      "Slash">>
             TopKeys == <<"1", "2", "3", "4", "5", "6", "7", "8", "9", "0">>
             R1 == TypedBy(Lower, letters, FALSE)
             R2 == TypedBy(Upper, letters, TRUE)
             R3 == TypedBy(Digits, digits, FALSE)
             R4 == TypedBy(Blanks, BlankKeys, FALSE)
             R5 == TypedBy(Signs, PunctKeys, FALSE)
             R6 == TypedBy(Tops, TopKeys, TRUE)
             R7 == TypedBy(Shifts, PunctKeys, TRUE)
             S == {R1, R2, R3, R4, R5, R6, R7}
  <1>1. ascii_to_key = Table(S)
    BY DEF ascii_to_key, TypedBy
  <1>2. /\ \A i \in 1 .. 26 : letters[i] = Letters[i] /\ letters[i] \in Range(hid_to_linux_key)
        /\ \A i \in 1 .. 9 : digits[i] = DigitKeys[i] /\ digits[i] \in Range(hid_to_linux_key)
        /\ \A i \in 1 .. 10 : /\ DigitKeys[i] \in Range(hid_to_linux_key)
                               /\ SignKeys[i] \in Range(hid_to_linux_key)
        /\ \A i \in 1 .. 7 : MoreKeys[i] \in Range(hid_to_linux_key)
    BY TypedKeys
  <1> HIDE DEF letters, digits
  <1>3. /\ \A i, j \in 1 .. 26 : letters[i] = letters[j] => i = j
        /\ \A i \in 1 .. 26 : KeyRowOf(<<letters[i], FALSE>>) = 1 /\ KeyRowOf(<<letters[i], TRUE>>) = 2
    <2>1. \A i, j \in 1 .. 26 : Letters[i] = Letters[j] => i = j
      BY DEF Letters
    <2>2. \A i \in 1 .. 26 : KeyRowOf(<<Letters[i], FALSE>>) = 1 /\ KeyRowOf(<<Letters[i], TRUE>>) = 2
      BY DEF Letters, KeyRowOf
    <2> QED BY <1>2, <2>1, <2>2
  <1>4. /\ \A i, j \in 1 .. 9 : digits[i] = digits[j] => i = j
        /\ \A i \in 1 .. 9 : KeyRowOf(<<digits[i], FALSE>>) = 3
    <2>1. \A i, j \in 1 .. 9 : DigitKeys[i] = DigitKeys[j] => i = j
      BY DEF DigitKeys
    <2>2. \A i \in 1 .. 9 : KeyRowOf(<<DigitKeys[i], FALSE>>) = 3
      BY DEF DigitKeys, KeyRowOf
    <2> QED BY <1>2, <2>1, <2>2
  <1>5. /\ \A i, j \in 1 .. 4 : BlankKeys[i] = BlankKeys[j] => i = j
        /\ \A i \in 1 .. 4 : KeyRowOf(<<BlankKeys[i], FALSE>>) = 4 /\ BlankKeys[i] \in Range(hid_to_linux_key)
    <2>1. /\ BlankKeys[1] = DigitKeys[10] /\ BlankKeys[2] = SignKeys[5]
          /\ BlankKeys[3] = SignKeys[1] /\ BlankKeys[4] = SignKeys[4]
      BY DEF DigitKeys, SignKeys
    <2>2. \A i \in 1 .. 4 : BlankKeys[i] \in Range(hid_to_linux_key)
      <3> HIDE DEF BlankKeys
      <3> QED BY <1>2, <2>1
    <2>3. \A i, j \in 1 .. 4 : BlankKeys[i] = BlankKeys[j] => i = j
      OBVIOUS
    <2>4. \A i \in 1 .. 4 : KeyRowOf(<<BlankKeys[i], FALSE>>) = 4
      BY DEF KeyRowOf
    <2> QED BY <2>2, <2>3, <2>4
  <1>6. /\ \A i, j \in 1 .. 11 : PunctKeys[i] = PunctKeys[j] => i = j
        /\ \A i \in 1 .. 11 : /\ KeyRowOf(<<PunctKeys[i], FALSE>>) = 5 /\ KeyRowOf(<<PunctKeys[i], TRUE>>) = 7
                               /\ PunctKeys[i] \in Range(hid_to_linux_key)
    <2>1. /\ \A i \in 1 .. 5 : PunctKeys[i] = SignKeys[i + 5]
          /\ \A i \in 6 .. 11 : PunctKeys[i] = MoreKeys[i - 5]
      BY DEF SignKeys, MoreKeys
    <2>2. \A i \in 1 .. 11 : PunctKeys[i] \in Range(hid_to_linux_key)
      <3> HIDE DEF PunctKeys
      <3>1. ASSUME NEW i \in 1 .. 5 PROVE PunctKeys[i] \in Range(hid_to_linux_key)
        <4>1. i + 5 \in 1 .. 10
          OBVIOUS
        <4> QED BY <1>2, <2>1, <4>1
      <3>2. ASSUME NEW i \in 6 .. 11 PROVE PunctKeys[i] \in Range(hid_to_linux_key)
        <4>1. i - 5 \in 1 .. 7
          OBVIOUS
        <4> QED BY <1>2, <2>1, <4>1
      <3> QED BY <3>1, <3>2
    <2>3. \A i, j \in 1 .. 11 : PunctKeys[i] = PunctKeys[j] => i = j
      OBVIOUS
    <2>4. \A i \in 1 .. 11 : KeyRowOf(<<PunctKeys[i], FALSE>>) = 5 /\ KeyRowOf(<<PunctKeys[i], TRUE>>) = 7
      BY DEF KeyRowOf
    <2> QED BY <2>2, <2>3, <2>4
  <1>7. /\ \A i, j \in 1 .. 10 : TopKeys[i] = TopKeys[j] => i = j
        /\ \A i \in 1 .. 10 : KeyRowOf(<<TopKeys[i], TRUE>>) = 6 /\ TopKeys[i] \in Range(hid_to_linux_key)
    <2>1. TopKeys = DigitKeys
      BY DEF DigitKeys
    <2>2. \A i, j \in 1 .. 10 : TopKeys[i] = TopKeys[j] => i = j
      OBVIOUS
    <2>3. \A i \in 1 .. 10 : KeyRowOf(<<TopKeys[i], TRUE>>) = 6
      BY DEF KeyRowOf
    <2> HIDE DEF TopKeys
    <2> QED BY <1>2, <2>1, <2>2, <2>3
  <1>8. RowIs(R1, 1)
    <2>1. DOMAIN Lower = 1 .. 26
      OBVIOUS
    <2>2. \A i, j \in 1 .. 26 : Lower[i] = Lower[j] => i = j
      OBVIOUS
    <2>3. \A i \in 1 .. 26 : CharRowOf(Lower[i]) = 1
      BY DEF CharRowOf
    <2>4. 26 \in Nat
      OBVIOUS
    <2> HIDE DEF Lower
    <2>5. Fit(26, Lower, letters, FALSE, 1)
      BY <1>2, <1>3, <2>1, <2>2, <2>3 DEF Fit
    <2> QED BY <2>4, <2>5, RowHolds
  <1>9. RowIs(R2, 2)
    <2>1. DOMAIN Upper = 1 .. 26
      BY DEF Letters
    <2>2. \A i, j \in 1 .. 26 : Upper[i] = Upper[j] => i = j
      BY DEF Letters
    <2>3. \A i \in 1 .. 26 : CharRowOf(Upper[i]) = 2
      BY DEF CharRowOf, Letters
    <2>4. 26 \in Nat
      OBVIOUS
    <2> HIDE DEF Upper
    <2>5. Fit(26, Upper, letters, TRUE, 2)
      BY <1>2, <1>3, <2>1, <2>2, <2>3 DEF Fit
    <2> QED BY <2>4, <2>5, RowHolds
  <1>10. RowIs(R3, 3)
    <2>1. DOMAIN Digits = 1 .. 9
      OBVIOUS
    <2>2. \A i, j \in 1 .. 9 : Digits[i] = Digits[j] => i = j
      OBVIOUS
    <2>3. \A i \in 1 .. 9 : CharRowOf(Digits[i]) = 3
      BY DEF CharRowOf
    <2>4. 9 \in Nat
      OBVIOUS
    <2> HIDE DEF Digits
    <2>5. Fit(9, Digits, digits, FALSE, 3)
      BY <1>2, <1>4, <2>1, <2>2, <2>3 DEF Fit
    <2> QED BY <2>4, <2>5, RowHolds
  <1>11. RowIs(R4, 4)
    <2>1. DOMAIN Blanks = 1 .. 4
      OBVIOUS
    <2>2. \A i, j \in 1 .. 4 : Blanks[i] = Blanks[j] => i = j
      OBVIOUS
    <2>3. \A i \in 1 .. 4 : CharRowOf(Blanks[i]) = 4
      BY DEF CharRowOf
    <2>4. 4 \in Nat
      OBVIOUS
    <2> HIDE DEF Blanks, BlankKeys
    <2>5. Fit(4, Blanks, BlankKeys, FALSE, 4)
      BY <1>2, <1>5, <2>1, <2>2, <2>3 DEF Fit
    <2> QED BY <2>4, <2>5, RowHolds
  <1>12. RowIs(R5, 5)
    <2>1. DOMAIN Signs = 1 .. 11
      OBVIOUS
    <2>2. \A i, j \in 1 .. 11 : Signs[i] = Signs[j] => i = j
      OBVIOUS
    <2>3. \A i \in 1 .. 11 : CharRowOf(Signs[i]) = 5
      BY DEF CharRowOf
    <2>4. 11 \in Nat
      OBVIOUS
    <2> HIDE DEF Signs, PunctKeys
    <2>5. Fit(11, Signs, PunctKeys, FALSE, 5)
      BY <1>2, <1>6, <2>1, <2>2, <2>3 DEF Fit
    <2> QED BY <2>4, <2>5, RowHolds
  <1>13. RowIs(R6, 6)
    <2>1. DOMAIN Tops = 1 .. 10
      OBVIOUS
    <2>2. \A i, j \in 1 .. 10 : Tops[i] = Tops[j] => i = j
      OBVIOUS
    <2>3. \A i \in 1 .. 10 : CharRowOf(Tops[i]) = 6
      BY DEF CharRowOf
    <2>4. 10 \in Nat
      OBVIOUS
    <2> HIDE DEF Tops, TopKeys
    <2>5. Fit(10, Tops, TopKeys, TRUE, 6)
      BY <1>2, <1>7, <2>1, <2>2, <2>3 DEF Fit
    <2> QED BY <2>4, <2>5, RowHolds
  <1>14. RowIs(R7, 7)
    <2>1. DOMAIN Shifts = 1 .. 11
      OBVIOUS
    <2>2. \A i, j \in 1 .. 11 : Shifts[i] = Shifts[j] => i = j
      OBVIOUS
    <2>3. \A i \in 1 .. 11 : CharRowOf(Shifts[i]) = 7
      BY DEF CharRowOf
    <2>4. 11 \in Nat
      OBVIOUS
    <2> HIDE DEF Shifts, PunctKeys
    <2>5. Fit(11, Shifts, PunctKeys, TRUE, 7)
      BY <1>2, <1>6, <2>1, <2>2, <2>3 DEF Fit
    <2> QED BY <2>4, <2>5, RowHolds
  <1> HIDE DEF R1, R2, R3, R4, R5, R6, R7
  <1>15. \A r \in S, q \in S : \A c \in DOMAIN r : c \in DOMAIN q => q = r
    BY <1>8, <1>9, <1>10, <1>11, <1>12, <1>13, <1>14 DEF RowIs
  <1>16. \A r \in S, q \in S : \A c \in DOMAIN r, d \in DOMAIN q : r[c] = q[d] => c = d
    BY <1>8, <1>9, <1>10, <1>11, <1>12, <1>13, <1>14 DEF RowIs
  <1>17. \A r \in S : \A c \in DOMAIN r : r[c][1] \in Range(hid_to_linux_key)
    BY <1>8, <1>9, <1>10, <1>11, <1>12, <1>13, <1>14 DEF RowIs
  <1> HIDE DEF S
  <1>18. /\ DOMAIN ascii_to_key = UNION {DOMAIN r : r \in S}
         /\ \A r \in S : \A c \in DOMAIN r : ascii_to_key[c] = r[c]
    BY <1>1, <1>15, TableFacts
  <1>19. IsInjective(ascii_to_key)
    BY <1>16, <1>18 DEF IsInjective
  <1>20. \A c \in DOMAIN ascii_to_key : ascii_to_key[c][1] \in Range(hid_to_linux_key)
    BY <1>17, <1>18
  <1> QED BY <1>19, <1>20 DEF CharsApart

(* What is typed at the client is typed at the host: the tables agree, and   *)
(* no character Linux types is typed by the keys of another.                 *)
THEOREM KeysStayTrue == KeysTrue
  BY TablesAgree, CharsAreApart DEF KeysTrue

-----------------------------------------------------------------------------
ControlSpec == ControlInit /\ [][ControlNext]_control

(* Remote control.  What can be sent, by the client's kind.                 *)
Items ==
  IF client = "desktop"
  THEN {button_of(b) : b \in DOMAIN map_button} \cup {key_of(key_to_hid[k]) : k \in DOMAIN key_to_hid}
  ELSE {Contact}
Inputs ==
  {Press(i, d) : i \in Items, d \in BOOLEAN}
  \cup (IF client = "desktop" THEN {[type |-> "move"]}
        ELSE {[type |-> "dragged"], [type |-> "secondary"]}
             \cup {[type |-> "text", of |-> c] : c \in Chars})

(* The keys and buttons of the host an input alters, and whether it presses *)
(* them.                                                                    *)
Presses(x) == x.type \in {"key", "button", "contact"}
Alters ==
  [x \in Inputs |-> CASE Presses(x) -> Code(<<x.type, x.of>>)
                      [] x.type = "text" -> text_keys(x.of)
                      [] x.type = "secondary" -> (IF sys = "macos" THEN {button_of("Right")} ELSE {})
                      [] OTHER -> {}]
Downs(x) == Presses(x) /\ x.pressed = TRUE

(* Whether c is down when the inputs of q before the n-th are injected, if  *)
(* it was down (d) at the start: the last one that alters it says.          *)
Before(q, n, T, c, d) ==
  \/ \E j \in 1 .. n - 1 : /\ c \in T[q[j]] /\ Downs(q[j])
                           /\ \A k \in j + 1 .. n - 1 : c \notin T[q[k]]
  \/ d /\ \A k \in 1 .. n - 1 : c \notin T[q[k]]

(* Down by this connection's doing.                                         *)
Ours(c) == net = "up" /\ c \in down \ carried

Settles(c) == Before(wire, Len(wire) + 1, Alters, c, Ours(c)) <=> c \in Codes(pressed)

ControlType ==
  /\ sys \in {"macos", "windows", "linux"} /\ client \in {"desktop", "browser"}
  /\ net \in {"connecting", "up", "ended"} /\ works \in BOOLEAN /\ left_down \in BOOLEAN
  /\ grabbed \in BOOLEAN /\ focused \in BOOLEAN
  /\ wire \in Seq(Inputs) /\ pressed \subseteq Items
  /\ net = "ended" \/ (client = "browser" /\ net # "up") => wire = <<>>
  /\ sys # "linux" => works = TRUE
  /\ net = "up" => carried \subseteq down

(* A key that is down there was pressed in a window with the keyboard.      *)
KeysGivenUp ==
  client = "desktop" /\ ~focused => \A i \in pressed : i[1] = "key" => i \in abandoned

ClientInv ==
  /\ ReleasesSent /\ KeysGivenUp
  /\ client = "desktop" /\ ~grabbed => pressed \subseteq abandoned
  /\ client = "browser" => physical = pressed

(* A drag on its way finds the button down.                                 *)
MacInv ==
  net = "up" /\ sys = "macos" =>
    /\ client = "desktop" => (left_down <=> Ours(button_of("Left")))
    /\ \A i \in 1 .. Len(wire) :
         wire[i].type = "dragged" => Before(wire, i, Alters, button_of("Left"), Ours(button_of("Left")))
    /\ posted # "none" => (posted = "drag" <=> Ours(button_of("Left")))

-----------------------------------------------------------------------------
(* Before, along a queue.                                                   *)
LEMMA BeforeFirst == ASSUME NEW q, NEW T, NEW c, NEW d \in BOOLEAN PROVE Before(q, 1, T, c, d) <=> d
  BY DEF Before

LEMMA BeforeAppend ==
  ASSUME NEW S, NEW q \in Seq(S), NEW x \in S, NEW T, NEW c, NEW d \in BOOLEAN, NEW n \in 1 .. Len(q) + 1
  PROVE  Before(Append(q, x), n, T, c, d) <=> Before(q, n, T, c, d)
  <1>1. \A j \in 1 .. n - 1 : Append(q, x)[j] = q[j]
    OBVIOUS
  <1>2. \A j \in 1 .. n - 1 : \A k \in j + 1 .. n - 1 : k \in 1 .. n - 1
    OBVIOUS
  <1> QED BY <1>1, <1>2, Zenon DEF Before

LEMMA BeforeLast ==
  ASSUME NEW S, NEW q \in Seq(S), NEW T, NEW c, NEW d \in BOOLEAN, NEW n \in 1 .. Len(q)
  PROVE  /\ c \in T[q[n]] => (Before(q, n + 1, T, c, d) <=> Downs(q[n]))
         /\ c \notin T[q[n]] => (Before(q, n + 1, T, c, d) <=> Before(q, n, T, c, d))
  <1>1. /\ (n + 1) - 1 = n /\ n \in 1 .. n
        /\ \A j \in 1 .. n : j = n \/ j \in 1 .. n - 1
        /\ \A j \in 1 .. n - 1 : j \in 1 .. n /\ n \in j + 1 .. n
        /\ \A j \in 1 .. n - 1 : \A k : k \in j + 1 .. n <=> (k = n \/ k \in j + 1 .. n - 1)
        /\ \A k : k \notin n + 1 .. n
    OBVIOUS
  <1>2. CASE c \in T[q[n]]
    BY <1>1, <1>2, Zenon DEF Before
  <1>3. CASE c \notin T[q[n]]
    BY <1>1, <1>3, Zenon DEF Before
  <1> QED BY <1>2, <1>3

LEMMA BeforeTail ==
  ASSUME NEW S, NEW q \in Seq(S), q # <<>>, NEW T, NEW c, NEW d \in BOOLEAN, NEW n \in 1 .. Len(q)
  PROVE  /\ c \in T[Head(q)] =>
              (Before(q, n + 1, T, c, d) <=> Before(Tail(q), n, T, c, Downs(Head(q))))
         /\ c \notin T[Head(q)] =>
              (Before(q, n + 1, T, c, d) <=> Before(Tail(q), n, T, c, d))
  <1> DEFINE r == Tail(q)
  <1>1. Head(q) = q[1] /\ \A j \in 1 .. n - 1 : r[j] = q[j + 1]
    OBVIOUS
  <1>2. (n + 1) - 1 = n
    OBVIOUS
  <1> HIDE DEF r
  <1>3. ASSUME NEW e \in BOOLEAN
        PROVE Before(q, n + 1, T, c, d) <=>
           \/ \E j \in 1 .. n - 1 : /\ c \in T[r[j]] /\ Downs(r[j])
                                    /\ \A k \in j + 1 .. n - 1 : c \notin T[r[k]]
           \/ /\ \A k \in 1 .. n - 1 : c \notin T[r[k]]
              /\ (c \in T[q[1]] /\ Downs(q[1])) \/ (c \notin T[q[1]] /\ d)
    <2> DEFINE A(i) == c \in T[q[i]]
               D(i) == Downs(q[i])
               B(j) == c \in T[r[j]]
               E(j) == Downs(r[j])
    <2>1. \A j \in 1 .. n - 1 : (B(j) <=> A(j + 1)) /\ (E(j) <=> D(j + 1))
      BY <1>1
    <2> HIDE DEF A, B, D, E
    <2>2. (\/ \E j \in 1 .. n : A(j) /\ D(j) /\ \A k \in j + 1 .. n : ~A(k)
           \/ d /\ \A k \in 1 .. n : ~A(k))
          <=> \/ \E j \in 1 .. n - 1 : B(j) /\ E(j) /\ \A k \in j + 1 .. n - 1 : ~B(k)
              \/ (\A k \in 1 .. n - 1 : ~B(k)) /\ ((A(1) /\ D(1)) \/ (~A(1) /\ d))
      <3>1. ASSUME NEW j \in 1 .. n - 1
            PROVE  (\A k \in j + 1 .. n - 1 : ~B(k)) <=> (\A k \in j + 2 .. n : ~A(k))
        <4>1. \A k \in j + 1 .. n - 1 : k + 1 \in j + 2 .. n /\ k \in 1 .. n - 1
          OBVIOUS
        <4>2. \A k \in j + 2 .. n : k - 1 \in j + 1 .. n - 1 /\ (k - 1) + 1 = k /\ k - 1 \in 1 .. n - 1
          OBVIOUS
        <4>3. \A k \in j + 1 .. n - 1 : B(k) <=> A(k + 1)
          BY <2>1, <4>1
        <4>4. \A k \in j + 2 .. n : A(k) <=> B(k - 1)
          <5> TAKE k \in j + 2 .. n
          <5>1. B(k - 1) <=> A((k - 1) + 1)
            BY <2>1, <4>2
          <5> QED BY <4>2, <5>1, Zenon
        <4> QED BY <4>1, <4>2, <4>3, <4>4, Zenon
      <3>2. (\A k \in 1 .. n - 1 : ~B(k)) <=> (\A k \in 2 .. n : ~A(k))
        <4>1. \A k \in 1 .. n - 1 : k + 1 \in 2 .. n
          OBVIOUS
        <4>2. \A k \in 2 .. n : k - 1 \in 1 .. n - 1 /\ (k - 1) + 1 = k
          OBVIOUS
        <4>3. \A k \in 2 .. n : A(k) <=> B(k - 1)
          <5> TAKE k \in 2 .. n
          <5>1. B(k - 1) <=> A((k - 1) + 1)
            BY <2>1, <4>2
          <5> QED BY <4>2, <5>1, Zenon
        <4> QED BY <2>1, <4>1, <4>2, <4>3, Zenon
      <3>3. (\A k \in 1 .. n : ~A(k)) <=> (~A(1) /\ \A k \in 2 .. n : ~A(k))
        <4>1. 1 \in 1 .. n /\ (\A k \in 2 .. n : k \in 1 .. n) /\ \A k \in 1 .. n : k = 1 \/ k \in 2 .. n
          OBVIOUS
        <4> QED BY <4>1
      <3>4. (\E j \in 1 .. n : A(j) /\ D(j) /\ \A k \in j + 1 .. n : ~A(k))
            <=> \/ A(1) /\ D(1) /\ \A k \in 2 .. n : ~A(k)
                \/ \E j \in 1 .. n - 1 : A(j + 1) /\ D(j + 1) /\ \A k \in j + 2 .. n : ~A(k)
        <4>1. /\ 1 \in 1 .. n
              /\ \A j \in 1 .. n - 1 : j + 1 \in 1 .. n /\ (j + 1) + 1 = j + 2
              /\ \A j \in 1 .. n : j = 1 \/ (j - 1 \in 1 .. n - 1 /\ (j - 1) + 1 = j /\ (j - 1) + 2 = j + 1)
              /\ 1 + 1 = 2
          OBVIOUS
        <4> QED BY <4>1
      <3> QED BY <2>1, <3>1, <3>2, <3>3, <3>4, Zenon
    <2> QED BY <1>2, <2>2, Zenon DEF Before, A, B, D, E
  <1> QED BY <1>1, <1>3, Zenon DEF Before, r

-----------------------------------------------------------------------------
(* What inputs are and do.                                                  *)
LEMMA ItemTypes ==
  ASSUME NEW i \in Items
  PROVE  i = <<i[1], i[2]>> /\ i[1] \in {"key", "button", "contact"}
<1>1. \E a \in {"key", "button", "contact"} : \E b : i = <<a, b>>
  BY DEF Items, key_of, button_of, Contact
<1>2. PICK a, b : a \in {"key", "button", "contact"} /\ i = <<a, b>>
  BY <1>1
<1>3. i[1] = a /\ i[2] = b
  BY <1>2
<1> QED BY <1>2, <1>3, Zenon

LEMMA PressFacts ==
  ASSUME NEW i \in Items, NEW d \in BOOLEAN
  PROVE  /\ Press(i, d) \in Inputs /\ Presses(Press(i, d)) /\ Alters[Press(i, d)] = Code(i)
         /\ Downs(Press(i, d)) <=> d
         /\ <<Press(i, d).type, Press(i, d).of>> = i /\ Press(i, d).pressed = d
  <1>1. Press(i, d) \in Inputs
    BY DEF Inputs
  <1>2. /\ Press(i, d).type = i[1] /\ Press(i, d).of = i[2] /\ Press(i, d).pressed = d
    BY DEF Press
  <1>3. Presses(Press(i, d)) /\ <<Press(i, d).type, Press(i, d).of>> = i
    BY <1>2, ItemTypes, Zenon DEF Presses
  <1>4. Alters[Press(i, d)] = Code(i)
    <2>1. \A x \in Inputs : Presses(x) => Alters[x] = Code(<<x.type, x.of>>)
      <3> SUFFICES ASSUME NEW x \in Inputs, Presses(x) PROVE Alters[x] = Code(<<x.type, x.of>>)
        OBVIOUS
      <3>1. Alters[x] = CASE Presses(x) -> Code(<<x.type, x.of>>)
                          [] x.type = "text" -> text_keys(x.of)
                          [] x.type = "secondary" -> (IF sys = "macos" THEN {button_of("Right")} ELSE {})
                          [] OTHER -> {}
        BY Zenon DEF Alters
      <3>2. x.type # "text" /\ x.type # "secondary"
        BY DEF Presses
      <3> QED BY <3>1, <3>2
    <2> QED BY <2>1, <1>1, <1>3, Zenon
  <1>5. Downs(Press(i, d)) <=> d
    BY <1>2, <1>3 DEF Downs
  <1> QED BY <1>1, <1>2, <1>3, <1>4, <1>5, Zenon

Dragged == [type |-> "dragged"]
Move == [type |-> "move"]
Secondary == [type |-> "secondary"]
Text(c) == [type |-> "text", of |-> c]

LEMMA OtherFacts ==
  /\ client = "desktop" => Move \in Inputs /\ Alters[Move] = {}
  /\ client # "desktop" => Dragged \in Inputs /\ Alters[Dragged] = {}
  /\ client # "desktop" =>
       /\ Secondary \in Inputs
       /\ Alters[Secondary] = IF sys = "macos" THEN {button_of("Right")} ELSE {}
  /\ \A c \in Chars : client # "desktop" => Text(c) \in Inputs /\ Alters[Text(c)] = text_keys(c)
  /\ ~Presses(Move) /\ ~Presses(Dragged) /\ ~Presses(Secondary) /\ \A c : ~Presses(Text(c))
  /\ ~Downs(Move) /\ ~Downs(Dragged) /\ ~Downs(Secondary) /\ \A c : ~Downs(Text(c))
  <1>1. /\ Move.type = "move" /\ Dragged.type = "dragged" /\ Secondary.type = "secondary"
        /\ \A c : Text(c).type = "text" /\ Text(c).of = c
    BY DEF Move, Dragged, Secondary, Text
  <1>2. /\ client = "desktop" => Move \in Inputs
        /\ client # "desktop" => /\ Dragged \in Inputs /\ Secondary \in Inputs
                                 /\ \A c \in Chars : Text(c) \in Inputs
    BY DEF Inputs, Move, Dragged, Secondary, Text
  <1>3. ~Presses(Move) /\ ~Presses(Dragged) /\ ~Presses(Secondary) /\ \A c : ~Presses(Text(c))
    BY <1>1 DEF Presses
  <1>4. client = "desktop" => Alters[Move] = {}
    BY <1>1, <1>2, <1>3 DEF Alters
  <1>5. client # "desktop" => Alters[Dragged] = {}
    BY <1>1, <1>2, <1>3 DEF Alters
  <1>6. client # "desktop" => Alters[Secondary] = IF sys = "macos" THEN {button_of("Right")} ELSE {}
    BY <1>1, <1>2, <1>3 DEF Alters
  <1>7. ASSUME NEW c \in Chars, client # "desktop" PROVE Alters[Text(c)] = text_keys(c)
    BY <1>1, <1>2, <1>3, <1>7 DEF Alters
  <1> QED BY <1>2, <1>3, <1>4, <1>5, <1>6, <1>7 DEF Downs

LEMMA InputCases ==
  ASSUME NEW x \in Inputs
  PROVE  \/ \E i \in Items, d \in BOOLEAN : x = Press(i, d)
         \/ client = "desktop" /\ x = Move
         \/ client # "desktop" /\ (x = Dragged \/ x = Secondary \/ \E c \in Chars : x = Text(c))
  BY DEF Inputs, Move, Dragged, Secondary, Text

(* A press is of something of the client's; the rest presses nothing, and   *)
(* alters nothing the client holds.                                         *)
LEMMA OthersApart ==
  ASSUME ControlType, NEW x \in Inputs, ~Presses(x), NEW c \in Alters[x]
  PROVE  \A i \in pressed : c \notin Code(i)
<1>1. client # "desktop" /\ (x = Secondary \/ \E e \in Chars : x = Text(e))
  BY InputCases, PressFacts, OtherFacts
<1>2. ASSUME NEW i \in pressed, c \in Code(i) PROVE FALSE
  <2>1. i = Contact
    BY <1>1, <1>2 DEF ControlType, Items
  <2>2. c = button_of("Left") /\ sys = "macos"
    BY <1>2, <2>1 DEF Code, Contact
  <2>3. CASE x = Secondary
    BY <1>1, <2>2, <2>3, OtherFacts DEF button_of
  <2>4. CASE \E e \in Chars : x = Text(e)
    <3>1. PICK e \in Chars : c \in text_keys(e)
      BY <1>1, <2>4, OtherFacts
    <3> QED BY <2>2, <3>1 DEF text_keys, key_of, button_of
  <2> QED BY <1>1, <2>3, <2>4
<1> QED BY <1>2

LEMMA Fixed ==
  ASSUME UNCHANGED <<sys, client>>
  PROVE  /\ Items' = Items /\ Inputs' = Inputs /\ Alters' = Alters
         /\ \A c : c \in Codes(pressed)' <=> \E i \in pressed' : c \in Code(i)
         /\ \A c : c \in Codes(pressed) <=> \E i \in pressed : c \in Code(i)
<1>1. Items' = Items /\ Inputs' = Inputs
  BY DEF Items, Inputs
<1>2. /\ \A i : Code(i)' = Code(i)
      /\ \A c : text_keys(c)' = text_keys(c)
  BY DEF Code, text_keys
<1>3. Alters' = Alters
  BY <1>1, <1>2 DEF Alters
<1> QED BY <1>1, <1>2, <1>3 DEF Codes

-----------------------------------------------------------------------------
(* The client's steps.                                                      *)
(* Two items of a client come out of different keys or buttons.             *)
LEMMA Apart ==
  ASSUME ControlType, NEW i \in Items, NEW j \in Items, NEW c, c \in Code(i), c \in Code(j)
  PROVE  i = j
<1> DEFINE os == hid_to_os[sys]
<1>1. \A k, l \in DOMAIN key_to_hid :
        /\ key_to_hid[k] \in DOMAIN os /\ key_to_hid[l] \in DOMAIN os
        /\ os[key_to_hid[k]] = os[key_to_hid[l]]
        => key_to_hid[k] = key_to_hid[l]
  <2>1. CASE sys = "linux"
    <3>1. os = hid_to_linux_key
      BY <2>1 DEF hid_to_os
    <3> QED BY <3>1, HidNames, KeyToHid
  <2>2. CASE sys = "windows"
    <3>1. os = hid_to_windows_vk
      BY <2>2 DEF hid_to_os
    <3> QED BY <3>1, WindowsNames, KeyToHid
  <2>3. CASE sys = "macos"
    <3>1. os = hid_to_macos
      BY <2>3 DEF hid_to_os
    <3> QED BY <3>1, MacInjective
  <2> QED BY <2>1, <2>2, <2>3 DEF ControlType
<1> HIDE DEF os
<1>2. \A x : /\ x[1] = "button" => Code(x) = {x}
             /\ x[1] = "key" => Code(x) = {key_of(os[u]) : u \in {x[2]} \cap DOMAIN os}
  BY DEF Code, os
<1>3. CASE client = "desktop"
  <2>1. /\ i[1] = "button" \/ \E k \in DOMAIN key_to_hid : i = key_of(key_to_hid[k])
        /\ j[1] = "button" \/ \E l \in DOMAIN key_to_hid : j = key_of(key_to_hid[l])
    BY <1>3 DEF Items, button_of
  <2>2. \A u : key_of(u)[1] = "key" /\ key_of(u)[2] = u
    BY DEF key_of
  <2>3. i[1] = "button" /\ j[1] = "button" => i = j
    BY <1>2
  <2>4. \A x, k : ~(x[1] = "button" /\ c \in Code(x) /\ c \in Code(key_of(k)))
    BY <1>2, <2>2
  <2>5. ASSUME NEW k \in DOMAIN key_to_hid, NEW l \in DOMAIN key_to_hid,
               i = key_of(key_to_hid[k]), j = key_of(key_to_hid[l])
        PROVE  i = j
    <3>1. /\ c \in {key_of(os[u]) : u \in {key_to_hid[k]} \cap DOMAIN os}
          /\ c \in {key_of(os[u]) : u \in {key_to_hid[l]} \cap DOMAIN os}
      BY <1>2, <2>2, <2>5
    <3>2. /\ key_to_hid[k] \in DOMAIN os /\ key_to_hid[l] \in DOMAIN os
          /\ os[key_to_hid[k]] = os[key_to_hid[l]]
      BY <2>2, <3>1
    <3> QED BY <1>1, <2>5, <3>2
  <2> QED BY <2>1, <2>3, <2>4, <2>5
<1>4. CASE client # "desktop"
  BY <1>4 DEF Items
<1> QED BY <1>3, <1>4

(* The client's item is sent, pressed or let go of; or another input is; or *)
(* nothing is.                                                              *)
ClientSends ==
  \/ \E i \in Items, d \in BOOLEAN : Sends(i, d)
  \/ \E x \in Inputs : ~Presses(x) /\ SendsOther(x)
  \/ UNCHANGED <<wire, pressed>>

LEMMA SendsType ==
  ASSUME ControlType, UNCHANGED Host, ClientSends, grabbed' \in BOOLEAN, focused' \in BOOLEAN,
         client = "browser" => net = "up"
  PROVE  ControlType'
<1>1. wire' \in Seq(Inputs) /\ (net = "ended" => wire' = <<>>) /\ pressed' \subseteq Items
  <2>1. ASSUME NEW i \in Items, NEW d \in BOOLEAN, Sends(i, d)
        PROVE  wire' \in Seq(Inputs) /\ (net = "ended" => wire' = <<>>) /\ pressed' \subseteq Items
    <3>1. net = "ended" => wire = <<>>
      BY DEF ControlType
    <3> QED BY <2>1, <3>1, PressFacts, SMTT(30) DEF Sends, ControlType
  <2>2. ASSUME NEW x \in Inputs, SendsOther(x)
        PROVE  wire' \in Seq(Inputs) /\ (net = "ended" => wire' = <<>>) /\ pressed' \subseteq Items
    BY <2>2 DEF SendsOther, ControlType
  <2> QED BY <2>1, <2>2 DEF ClientSends, ControlType
<1> QED BY <1>1, Fixed DEF ControlType, Host

LEMMA SendsSettle ==
  ASSUME ControlType, UNCHANGED Host, ClientSends, net # "ended", NEW c, Settles(c)
  PROVE  Settles(c)'
<1> DEFINE n == Len(wire) + 1
           d0 == Ours(c)
<1>0. /\ d0 \in BOOLEAN /\ Ours(c)' = Ours(c) /\ n \in 1 .. Len(wire) + 1
      /\ wire \in Seq(Inputs)
  BY DEF Ours, Host, ControlType
<1>1. /\ Alters' = Alters
      /\ c \in Codes(pressed)' <=> \E i \in pressed' : c \in Code(i)
      /\ c \in Codes(pressed) <=> \E i \in pressed : c \in Code(i)
  BY Fixed DEF Host
<1>2. Settles(c)' <=> (Before(wire', Len(wire') + 1, Alters, c, d0) <=> \E i \in pressed' : c \in Code(i))
  BY <1>0, <1>1, Zenon DEF Settles
<1>3. Before(wire, n, Alters, c, d0) <=> \E i \in pressed : c \in Code(i)
  BY <1>1, Zenon DEF Settles
<1> HIDE DEF d0
<1>4. ASSUME NEW x \in Inputs, wire' = Append(wire, x)
      PROVE  /\ c \in Alters[x] => (Before(wire', Len(wire') + 1, Alters, c, d0) <=> Downs(x))
             /\ c \notin Alters[x] => (Before(wire', Len(wire') + 1, Alters, c, d0) <=> Before(wire, n, Alters, c, d0))
  <2>1. wire' \in Seq(Inputs) /\ Len(wire') = n /\ wire'[n] = x /\ n \in 1 .. Len(wire')
    BY <1>0, <1>4
  <2>2. Before(wire', n, Alters, c, d0) <=> Before(wire, n, Alters, c, d0)
    BY <1>0, <1>4, BeforeAppend
  <2>3. /\ c \in Alters[wire'[n]] => (Before(wire', n + 1, Alters, c, d0) <=> Downs(wire'[n]))
        /\ c \notin Alters[wire'[n]] => (Before(wire', n + 1, Alters, c, d0) <=> Before(wire', n, Alters, c, d0))
    BY <1>0, <2>1, BeforeLast
  <2> QED BY <2>1, <2>2, <2>3, Zenon
<1>5. ASSUME NEW i \in Items, NEW d \in BOOLEAN, Sends(i, d)
      PROVE  Settles(c)'
  <2>1. wire' = Append(wire, Press(i, d)) /\ Press(i, d) \in Inputs
    BY <1>5, PressFacts DEF Sends
  <2>2. Alters[Press(i, d)] = Code(i) /\ (Downs(Press(i, d)) <=> d)
    BY PressFacts
  <2>3. pressed' = IF d THEN pressed \cup {i} ELSE pressed \ {i}
    BY <1>5 DEF Sends
  <2>4. c \in Code(i) => \A j \in pressed : c \in Code(j) => j = i
    BY Apart DEF ControlType
  <2>5. (\E j \in pressed' : c \in Code(j)) <=> IF c \in Code(i) THEN d ELSE \E j \in pressed : c \in Code(j)
    BY <2>3, <2>4
  <2> QED BY <1>2, <1>3, <1>4, <2>1, <2>2, <2>5
<1>6. ASSUME NEW x \in Inputs, ~Presses(x), SendsOther(x)
      PROVE  Settles(c)'
  <2>1. wire' = Append(wire, x) /\ pressed' = pressed /\ ~Downs(x)
    BY <1>6 DEF SendsOther, Downs
  <2>2. c \in Alters[x] => ~\E i \in pressed : c \in Code(i)
    BY <1>6, OthersApart
  <2> QED BY <1>2, <1>3, <1>4, <2>1, <2>2
<1>7. CASE UNCHANGED <<wire, pressed>>
  BY <1>2, <1>3, <1>7
<1> QED BY <1>5, <1>6, <1>7 DEF ClientSends

Connecting == net = "connecting" \/ (net = "up" /\ works = TRUE)
ControlInv ==
  /\ ControlType /\ ClientInv /\ MacInv
  /\ Connecting => \A c : Settles(c)

LEMMA SendsMac ==
  ASSUME ControlInv, UNCHANGED Host, ClientSends, SendsOther(Dragged) => Contact \in pressed
  PROVE  MacInv'
<1> SUFFICES ASSUME net = "up", sys = "macos" PROVE MacInv'
  BY DEF MacInv, Host
<1> DEFINE L == button_of("Left")
           d0 == Ours(L)
<1>1. /\ UNCHANGED <<net, sys, client, left_down, posted>> /\ Alters' = Alters /\ Ours(L)' = d0
      /\ d0 \in BOOLEAN /\ wire \in Seq(Inputs)
  BY Fixed DEF Host, Ours, ControlInv, ControlType
<1>2. \A i \in 1 .. Len(wire) : wire[i].type = "dragged" => Before(wire, i, Alters, L, d0)
  BY DEF ControlInv, MacInv
<1>3. Contact \in pressed => Before(wire, Len(wire) + 1, Alters, L, d0)
  <2>1. Settles(L)
    BY DEF ControlInv, Connecting, ControlType
  <2>2. L \in Code(Contact)
    BY DEF Code, Contact
  <2>3. Contact \in pressed => L \in Codes(pressed)
    BY <2>2 DEF Codes
  <2> QED BY <2>1, <2>3, Zenon DEF Settles
<1> HIDE DEF d0, L
<1>4. ASSUME NEW x \in Inputs, wire' = Append(wire, x), x = Dragged => Contact \in pressed
      PROVE  \A i \in 1 .. Len(wire') : wire'[i].type = "dragged" => Before(wire', i, Alters, L, d0)
  <2> TAKE i \in 1 .. Len(wire')
  <2> HAVE wire'[i].type = "dragged"
  <2>1. Len(wire') = Len(wire) + 1 /\ i \in 1 .. Len(wire) + 1
    BY <1>1, <1>4
  <2>2. Before(wire', i, Alters, L, d0) <=> Before(wire, i, Alters, L, d0)
    BY <1>1, <1>4, <2>1, BeforeAppend
  <2>3. CASE i \in 1 .. Len(wire)
    <3>1. wire'[i] = wire[i]
      BY <1>1, <1>4, <2>3
    <3> QED BY <1>2, <2>2, <2>3, <3>1
  <2>4. CASE i = Len(wire) + 1
    <3>1. wire'[i] = x
      BY <1>1, <1>4, <2>4
    <3>2. x = Dragged
      <4>1. \A j \in Items, d \in BOOLEAN : Press(j, d).type # "dragged"
        BY PressFacts DEF Presses
      <4>2. Move.type = "move" /\ Secondary.type = "secondary" /\ \A c : Text(c).type = "text"
        BY DEF Move, Secondary, Text
      <4> QED BY <3>1, <4>1, <4>2, InputCases
    <3> QED BY <1>3, <1>4, <2>2, <2>4, <3>2
  <2> QED BY <2>1, <2>3, <2>4
<1>5. \A i \in 1 .. Len(wire') : wire'[i].type = "dragged" => Before(wire', i, Alters, L, d0)
  <2>1. ASSUME NEW i \in Items, NEW d \in BOOLEAN, Sends(i, d)
        PROVE  \A j \in 1 .. Len(wire') : wire'[j].type = "dragged" => Before(wire', j, Alters, L, d0)
    <3>1. wire' = Append(wire, Press(i, d)) /\ Press(i, d) \in Inputs /\ Press(i, d) # Dragged
      BY <2>1, PressFacts, OtherFacts DEF Sends
    <3> QED BY <3>1, <1>4
  <2>2. ASSUME NEW x \in Inputs, SendsOther(x)
        PROVE  \A j \in 1 .. Len(wire') : wire'[j].type = "dragged" => Before(wire', j, Alters, L, d0)
    <3>1. wire' = Append(wire, x) /\ (x = Dragged => Contact \in pressed)
      BY <2>2 DEF SendsOther
    <3> QED BY <3>1, <1>4
  <2> QED BY <1>2, <2>1, <2>2 DEF ClientSends
<1> QED BY <1>1, <1>5 DEF MacInv, ControlInv, L, d0

LEMMA SendsKeep ==
  ASSUME ControlInv, UNCHANGED Host, ClientSends, grabbed' \in BOOLEAN, focused' \in BOOLEAN,
         SendsOther(Dragged) => Contact \in pressed, client = "browser" => net = "up", ClientInv'
  PROVE  ControlInv'
<1>1. ControlType' /\ MacInv'
  BY SendsType, SendsMac DEF ControlInv
<1>2. ASSUME Connecting', NEW c PROVE Settles(c)'
  <2>1. Connecting /\ net # "ended"
    BY <1>2 DEF Connecting, Host
  <2> QED BY <2>1, SendsSettle DEF ControlInv
<1> QED BY <1>1, <1>2 DEF ControlInv

(* The items behind what the user holds.                                    *)
LEMMA HeldItems ==
  ASSUME NEW i
  PROVE  /\ i \in Held <=> \/ i \in physical /\ i[1] # "key"
                           \/ \E k \in DOMAIN key_to_hid : key_of(k) \in physical /\ i = key_of(key_to_hid[k])
         /\ i \in Held' <=> \/ i \in physical' /\ i[1] # "key"
                            \/ \E k \in DOMAIN key_to_hid : key_of(k) \in physical' /\ i = key_of(key_to_hid[k])
  BY DEF Held

LEMMA DesktopItems ==
  ASSUME client = "desktop"
  PROVE  /\ \A b \in DOMAIN map_button : map_button[b] = b /\ button_of(b) \in Items
         /\ \A b : button_of(b) \in Items => b \in DOMAIN map_button
         /\ \A k \in DOMAIN key_to_hid : key_of(key_to_hid[k]) \in Items
         /\ \A b, k : button_of(b) # key_of(k) /\ button_of(b)[1] # "key" /\ key_of(k)[1] = "key"
         /\ \A k, l : key_of(k) = key_of(l) => k = l
  BY DEF map_button, Items, button_of, key_of, Contact

LEMMA NotDragged ==
  ASSUME ControlType, wire' = wire \/ \E x \in Inputs : x # Dragged /\ wire' = Append(wire, x)
  PROVE  ~SendsOther(Dragged)
<1> DEFINE Carried == Inputs \cup {Dragged}
<1>1. wire \in Seq(Carried) /\ Dragged \in Carried
  BY DEF ControlType
<1> HIDE DEF Carried
<1>2. Append(wire, Dragged) # wire
  BY <1>1
<1>3. \A x \in Carried : Append(wire, x) = Append(wire, Dragged) => x = Dragged
  <2> TAKE x \in Carried
  <2>1. Append(wire, x)[Len(wire) + 1] = x /\ Append(wire, Dragged)[Len(wire) + 1] = Dragged
    BY <1>1
  <2> QED BY <2>1
<1>4. \A x \in Inputs : x \in Carried
  BY DEF Carried
<1> QED BY <1>2, <1>3, <1>4 DEF SendsOther

LEMMA DesktopKeeps == ASSUME ControlInv, Desktop PROVE ControlInv'
<1>0. /\ client = "desktop" /\ UNCHANGED Host /\ ControlType /\ UNCHANGED client
      /\ ReleasesSent /\ KeysGivenUp /\ (~grabbed => pressed \subseteq abandoned)
      /\ grabbed \in BOOLEAN /\ focused \in BOOLEAN /\ pressed \subseteq Items
  BY DEF Desktop, ControlInv, ClientInv, ControlType, KeysGivenUp, Host
<1>1. ASSUME NEW i \in Items, NEW d \in BOOLEAN, Sends(i, d)
      PROVE  ~SendsOther(Dragged)
  <2>1. Press(i, d) \in Inputs /\ Press(i, d) # Dragged
    BY PressFacts, OtherFacts
  <2>2. wire' = wire \/ wire' = Append(wire, Press(i, d))
    BY <1>1 DEF Sends
  <2> QED BY <1>0, <2>1, <2>2, NotDragged
<1>2. UNCHANGED wire => ~SendsOther(Dragged)
  BY <1>0, NotDragged
<1> DEFINE Good == /\ ClientSends /\ ~SendsOther(Dragged)
                   /\ grabbed' \in BOOLEAN /\ focused' \in BOOLEAN /\ KeysGivenUp'
                   /\ \A i \in pressed' : i \in Held' \/ i \in abandoned'
                   /\ ~grabbed' => pressed' \subseteq abandoned'
<1>3. \A i \in pressed : i \in Held \/ i \in abandoned
  BY <1>0 DEF ReleasesSent
<1>4. ASSUME NEW b \in WindowButtons, NEW d \in BOOLEAN, mouse_input(b, d), UNCHANGED focused
      PROVE  Good
  <2>1. /\ physical' = IF d THEN physical \cup {button_of(b)} ELSE physical \ {button_of(b)}
        /\ grabbed' \in BOOLEAN /\ (~grabbed' => ~grabbed)
    BY <1>0, <1>4 DEF mouse_input, Physical
  <2>2. \A i \in Held : i # button_of(b) => i \in Held'
    BY <2>1, HeldItems, DesktopItems, <1>0
  <2>3. CASE grabbed /\ b \in DOMAIN map_button
    <3>1. Sends(button_of(b), d) /\ button_of(b) \in Items
      BY <1>0, <1>4, <2>3, DesktopItems DEF mouse_input
    <3>2. /\ pressed' = IF d THEN pressed \cup {button_of(b)} ELSE pressed \ {button_of(b)}
          /\ abandoned' = abandoned \ {button_of(b)}
      BY <3>1 DEF Sends
    <3>3. d => button_of(b) \in Held'
      BY <2>1, HeldItems, DesktopItems, <1>0
    <3>4. ClientSends /\ ~SendsOther(Dragged)
      BY <3>1, <1>1 DEF ClientSends
    <3>5. KeysGivenUp'
      BY <1>0, <1>4, <3>2, DesktopItems DEF KeysGivenUp
    <3> QED BY <1>0, <1>3, <1>4, <2>1, <2>2, <2>3, <3>2, <3>3, <3>4, <3>5
  <2>4. CASE ~(grabbed /\ b \in DOMAIN map_button)
    <3>1. UNCHANGED <<wire, pressed, abandoned>>
      BY <1>4, <2>4 DEF mouse_input, SendsNothing
    <3>2. grabbed => button_of(b) \notin pressed
      BY <1>0, <2>4, DesktopItems
    <3>3. KeysGivenUp'
      BY <1>0, <1>4, <3>1 DEF KeysGivenUp
    <3> QED BY <1>0, <1>2, <1>3, <1>4, <2>1, <2>2, <3>1, <3>2, <3>3 DEF ClientSends
  <2> QED BY <2>3, <2>4
<1>5. ASSUME NEW k \in WindowKeys, NEW d \in BOOLEAN, keyboard_input(k, d), UNCHANGED focused, focused = TRUE
      PROVE  Good
  <2>0. KeysGivenUp'
    BY <1>5 DEF KeysGivenUp
  <2>1. physical' = IF d THEN physical \cup {key_of(k)} ELSE physical \ {key_of(k)}
    BY <1>5 DEF keyboard_input, Physical
  <2>2. CASE grabbed /\ k = "Escape" /\ d
    <3>1. Release
      BY <1>5, <2>2 DEF keyboard_input
    <3> QED BY <1>0, <1>2, <1>5, <2>0, <3>1 DEF Release, ClientSends
  <2>3. CASE grabbed /\ ~(k = "Escape" /\ d) /\ k \in DOMAIN key_to_hid
    <3> DEFINE u == key_of(key_to_hid[k])
    <3>1. Sends(u, d) /\ u \in Items /\ UNCHANGED grabbed
      BY <1>0, <1>5, <2>3, DesktopItems DEF keyboard_input
    <3>2. /\ pressed' = IF d THEN pressed \cup {u} ELSE pressed \ {u}
          /\ abandoned' = abandoned \ {u}
      BY <3>1 DEF Sends
    <3>3. d => u \in Held'
      BY <2>1, <2>3, HeldItems
    <3>4. ClientSends /\ ~SendsOther(Dragged)
      BY <3>1, <1>1 DEF ClientSends
    <3>5. \A i \in Held : i # u => i \in Held'
      <4> TAKE i \in Held
      <4> HAVE i # u
      <4>1. i \in physical /\ i[1] # "key" => i \in physical'
        BY <2>1, <1>0, DesktopItems
      <4>2. \A l \in DOMAIN key_to_hid : i = key_of(key_to_hid[l]) => l # k
        OBVIOUS
      <4>3. \A l : l # k => key_of(l) # key_of(k)
        BY <1>0, DesktopItems
      <4> HIDE DEF u
      <4> QED BY <2>1, <4>1, <4>2, <4>3, HeldItems
    <3> HIDE DEF u
    <3> QED BY <1>0, <1>3, <1>5, <2>0, <2>3, <3>1, <3>2, <3>3, <3>4, <3>5
  <2>4. CASE ~grabbed \/ ((k # "Escape" \/ ~d) /\ k \notin DOMAIN key_to_hid)
    <3>1. UNCHANGED <<wire, pressed, abandoned, grabbed>>
      BY <1>5, <2>4 DEF keyboard_input, SendsNothing
    <3>2. grabbed => \A i \in Held : i \in Held'
      <4> SUFFICES ASSUME grabbed, NEW i \in Held PROVE i \in Held'
        OBVIOUS
      <4>1. i \in physical /\ i[1] # "key" => i \in physical'
        BY <2>1, <1>0, DesktopItems
      <4>2. \A l \in DOMAIN key_to_hid : key_of(l) # key_of(k)
        BY <1>0, <2>4, DesktopItems
      <4> QED BY <2>1, <4>1, <4>2, HeldItems
    <3> QED BY <1>0, <1>2, <1>3, <1>5, <2>0, <3>1, <3>2 DEF ClientSends
  <2>5. (grabbed /\ k = "Escape" /\ d) \/ (grabbed /\ ~(k = "Escape" /\ d) /\ k \in DOMAIN key_to_hid)
        \/ (~grabbed \/ ((k # "Escape" \/ ~d) /\ k \notin DOMAIN key_to_hid))
    BY <1>0
  <2> HIDE DEF Good
  <2> QED BY <2>2, <2>3, <2>4, <2>5
<1>6. ASSUME focus_lost \/ focus_gained PROVE Good
  <2>1. UNCHANGED <<wire, pressed, physical>> /\ focused' \in BOOLEAN /\ (grabbed' = grabbed \/ grabbed' = FALSE)
        /\ (focus_lost => grabbed' = FALSE) /\ (focus_gained => focused' = TRUE)
    BY <1>0, <1>6 DEF focus_lost, focus_gained, Release
  <2>2. abandoned' = abandoned \/ abandoned' = abandoned \cup pressed
    BY <1>6 DEF focus_lost, focus_gained, Release
  <2>3. ~grabbed' => pressed' \subseteq abandoned'
    BY <1>0, <1>6 DEF focus_lost, focus_gained, Release
  <2>4. \A i : i \in Held => i \in Held'
    BY <2>1, HeldItems
  <2>5. KeysGivenUp'
    BY <1>0, <1>6, <2>1, <2>3 DEF KeysGivenUp, focus_lost, Release
  <2> QED BY <1>0, <1>2, <1>3, <1>6, <2>1, <2>2, <2>3, <2>4, <2>5 DEF ClientSends
<1>7. ASSUME device_event PROVE Good
  <2>1. /\ Move \in Inputs /\ ~Presses(Move) /\ Move # Dragged
    BY <1>0, OtherFacts DEF Move, Dragged
  <2>2. SendsOther(Move) /\ UNCHANGED <<physical, focused, grabbed, pressed, abandoned>>
    BY <1>7 DEF device_event, SendsOther, Move
  <2>3. ~SendsOther(Dragged)
    BY <1>0, <2>1, <2>2, NotDragged DEF SendsOther
  <2>4. \A i : i \in Held => i \in Held'
    BY <2>2, HeldItems
  <2>5. KeysGivenUp'
    BY <1>0, <2>2 DEF KeysGivenUp
  <2> QED BY <1>0, <1>3, <2>1, <2>2, <2>3, <2>4, <2>5 DEF ClientSends
<1>8. ASSUME NEW item \in physical, let_go_elsewhere(item) PROVE Good
  <2>1. /\ UNCHANGED <<wire, pressed, abandoned, focused, grabbed>> /\ ~focused
        /\ physical' = physical \ {item} /\ (item[1] = "button" => ~grabbed)
    BY <1>8 DEF let_go_elsewhere, SendsNothing, Physical
  <2>2. ASSUME NEW i \in pressed PROVE i \in Held' \/ i \in abandoned
    <3>1. CASE ~grabbed \/ i[1] = "key"
      BY <1>0, <2>1, <3>1 DEF KeysGivenUp
    <3>2. CASE grabbed /\ i[1] # "key"
      <4>1. i[1] = "button"
        BY <1>0, <3>2 DEF Items, button_of, key_of
      <4>2. i # item
        BY <2>1, <3>2, <4>1
      <4>3. i \in physical \/ i \in abandoned
        BY <1>0, <1>3, <3>2, HeldItems, DesktopItems, SMTT(30)
      <4> QED BY <2>1, <3>2, <4>2, <4>3, HeldItems
    <3> QED BY <3>1, <3>2
  <2>3. KeysGivenUp'
    BY <1>0, <2>1 DEF KeysGivenUp
  <2> QED BY <1>0, <1>2, <2>1, <2>2, <2>3 DEF ClientSends
<1>9. Good
  BY <1>4, <1>5, <1>6, <1>7, <1>8 DEF Desktop, window_event
<1>10. ClientInv'
  BY <1>0, <1>9 DEF ClientInv, ReleasesSent, KeysGivenUp
<1> QED BY <1>0, <1>9, <1>10, SendsKeep

LEMMA BrowserKeeps == ASSUME ControlInv, Browser PROVE ControlInv'
<1>0. /\ client = "browser" /\ UNCHANGED <<Host, focused, grabbed, client>> /\ ControlType
      /\ physical = pressed /\ pressed \subseteq {Contact} /\ Contact \in Items
      /\ grabbed \in BOOLEAN /\ focused \in BOOLEAN /\ net = "up"
  BY DEF Browser, ControlInv, ClientInv, ControlType, Host, Items, KeysGivenUp
<1>1. /\ ClientSends /\ physical' = pressed' /\ pressed' \subseteq {Contact}
      /\ (SendsOther(Dragged) => Contact \in pressed)
  <2>1. ASSUME NEW d \in BOOLEAN, Physical(Contact, d), Sends(Contact, d)
        PROVE /\ ClientSends /\ physical' = pressed' /\ pressed' \subseteq {Contact} /\ ~SendsOther(Dragged)
    <3>1. Press(Contact, d) \in Inputs /\ Press(Contact, d) # Dragged
      BY <1>0, PressFacts, OtherFacts
    <3>2. ~SendsOther(Dragged)
      BY <1>0, <2>1, <3>1, NotDragged DEF Sends
    <3> QED BY <1>0, <2>1, <3>2 DEF Physical, Sends, ClientSends
  <2>2. CASE Contact \in physical /\ SendsOther(Dragged) /\ UNCHANGED physical
    BY <1>0, <2>2, OtherFacts DEF SendsOther, ClientSends
  <2>3. ASSUME NEW x \in Inputs, ~Presses(x), x # Dragged, SendsOther(x), UNCHANGED physical
        PROVE /\ ClientSends /\ physical' = pressed' /\ pressed' \subseteq {Contact} /\ ~SendsOther(Dragged)
    BY <1>0, <2>3, NotDragged DEF SendsOther, ClientSends
  <2>4. Touches => \/ \E d \in BOOLEAN : Physical(Contact, d) /\ Sends(Contact, d)
                   \/ Contact \in physical /\ SendsOther(Dragged) /\ UNCHANGED physical
    BY DEF Touches, Dragged
  <2>5. Gestures => \E x \in Inputs : ~Presses(x) /\ x # Dragged /\ SendsOther(x) /\ UNCHANGED physical
    <3>1. Secondary # Dragged /\ \A c : Text(c) # Dragged
      BY DEF Secondary, Text, Dragged
    <3> QED BY <1>0, <3>1, OtherFacts DEF Gestures, Secondary, Text
  <2> QED BY <2>1, <2>2, <2>3, <2>4, <2>5 DEF Browser
<1>2. ClientInv'
  <2>1. \A i \in pressed' : i \in Held'
    <3>1. Contact[1] # "key"
      BY DEF Contact
    <3>2. \A i \in pressed' : i = Contact /\ i \in physical'
      BY <1>1
    <3> QED BY <3>1, <3>2, HeldItems
  <2> QED BY <1>0, <1>1, <2>1 DEF ClientInv, ReleasesSent, KeysGivenUp
<1> QED BY <1>0, <1>1, <1>2, SendsKeep

-----------------------------------------------------------------------------
(* The host's steps.                                                        *)
LEMMA InjectFacts ==
  ASSUME ControlType, NEW x \in Inputs, inject(x), NEW c
  PROVE  /\ c \notin Alters[x] => (c \in down' <=> c \in down) /\ (c \in carried' <=> c \in carried)
         /\ c \in Alters[x] => c \notin carried' /\ (works => (c \in down' <=> Downs(x)))
         /\ (c \in carried => c \in down) => (c \in carried' => c \in down')
<1>1. ASSUME NEW S, NEW d \in BOOLEAN, Put(S, d)
      PROVE  /\ c \notin S => (c \in down' <=> c \in down) /\ (c \in carried' <=> c \in carried)
             /\ c \in S => c \notin carried' /\ (works => (c \in down' <=> d))
             /\ (c \in carried => c \in down) => (c \in carried' => c \in down')
  BY <1>1 DEF Put, ControlType
<1>2. CASE \E i \in Items, d \in BOOLEAN : x = Press(i, d)
  <2>1. PICK i \in Items, d \in BOOLEAN : x = Press(i, d)
    BY <1>2
  <2>2. /\ <<x.type, x.of>> = i /\ x.pressed = d /\ Alters[x] = Code(i) /\ (Downs(x) <=> d)
        /\ x.type \in {"key", "button", "contact"}
    BY <2>1, PressFacts DEF Presses
  <2>3. Put(Code(i), d)
    BY <2>2 DEF inject
  <2> QED BY <1>1, <2>2, <2>3
<1>3. CASE x = Move \/ x = Dragged
  <2>0. /\ Move.type = "move" /\ Dragged.type = "dragged" /\ Secondary.type = "secondary"
        /\ \A e : Text(e).type = "text"
    BY DEF Move, Dragged, Secondary, Text
  <2>1. Alters[x] = {}
    <3>1. x = Move => client = "desktop"
      BY <1>3, <2>0, InputCases, PressFacts, OtherFacts
    <3>2. x = Dragged => client # "desktop"
      BY <1>3, <2>0, InputCases, PressFacts, OtherFacts
    <3> QED BY <1>3, <3>1, <3>2, OtherFacts
  <2>2. UNCHANGED <<down, carried>>
    <3>1. x.type \in {"move", "dragged"}
      BY <1>3, <2>0
    <3> QED BY <3>1 DEF inject
  <2> QED BY <2>1, <2>2
<1>4. CASE x = Secondary
  <2>1. /\ Alters[x] = (IF sys = "macos" THEN {button_of("Right")} ELSE {}) /\ ~Downs(x)
        /\ Put(IF sys = "macos" THEN {button_of("Right")} ELSE {}, FALSE)
    <3>1. client # "desktop"
      BY <1>4, InputCases, PressFacts, OtherFacts DEF Secondary, Move
    <3> QED BY <3>1, <1>4, OtherFacts DEF inject, Secondary
  <2> QED BY <1>1, <2>1
<1>5. CASE client # "desktop" /\ \E e \in Chars : x = Text(e)
  <2>1. PICK e \in Chars : x = Text(e)
    BY <1>5
  <2>2. Alters[x] = text_keys(e) /\ ~Downs(x) /\ Put(text_keys(e), FALSE)
    <3>1. x.type = "text" /\ x.of = e
      BY <2>1 DEF Text
    <3> QED BY <1>5, <2>1, <3>1, OtherFacts DEF inject
  <2> QED BY <1>1, <2>2
<1> QED BY <1>2, <1>3, <1>4, <1>5, InputCases

LEMMA ReceiveType ==
  ASSUME ControlInv, receive_and_inject
  PROVE  ControlType' /\ ClientInv'
<1>1. wire \in Seq(Inputs) /\ wire # <<>> /\ Head(wire) \in Inputs /\ Tail(wire) \in Seq(Inputs)
  BY DEF receive_and_inject, ControlInv, ControlType
<1>2. /\ UNCHANGED <<sys, client, physical, focused, grabbed, net, pressed, abandoned, works>>
      /\ Inputs' = Inputs /\ Items' = Items /\ wire' = Tail(wire) /\ net = "up" /\ inject(Head(wire))
  BY Fixed DEF receive_and_inject, Here
<1>3. carried' \subseteq down'
  <2> SUFFICES ASSUME NEW c \in carried' PROVE c \in down'
    OBVIOUS
  <2>1. c \in carried => c \in down
    BY <1>2 DEF ControlInv, ControlType
  <2> QED BY <1>1, <1>2, <2>1, InjectFacts DEF ControlInv
<1>4. left_down' \in BOOLEAN
  <2>1. CASE \E i \in Items, d \in BOOLEAN : Head(wire) = Press(i, d)
    <3>1. PICK i \in Items, d \in BOOLEAN : Head(wire) = Press(i, d)
      BY <2>1
    <3>2. Head(wire).pressed = d /\ Head(wire).type \in {"key", "button", "contact"}
      BY <3>1, PressFacts DEF Presses
    <3> QED BY <1>2, <3>2 DEF inject, ControlInv, ControlType
  <2>2. CASE ~ \E i \in Items, d \in BOOLEAN : Head(wire) = Press(i, d)
    <3>1. Head(wire).type \in {"move", "dragged", "secondary", "text"}
      BY <1>1, <2>2, InputCases DEF Move, Dragged, Secondary, Text
    <3>2. UNCHANGED left_down
      BY <1>2, <3>1 DEF inject
    <3> QED BY <3>2 DEF ControlInv, ControlType
  <2> QED BY <2>1, <2>2
<1>5. ClientInv'
  BY <1>2 DEF ControlInv, ClientInv, ReleasesSent, KeysGivenUp, Held
<1>6. ControlType'
  BY <1>1, <1>2, <1>3, <1>4 DEF ControlInv, ControlType
<1> QED BY <1>5, <1>6

LEMMA ReceiveSettles ==
  ASSUME ControlInv, receive_and_inject, works = TRUE, NEW c
  PROVE  Settles(c)' /\ (Ours(c)' <=> IF c \in Alters[Head(wire)] THEN Downs(Head(wire)) ELSE Ours(c))
<1> DEFINE x == Head(wire)
           d0 == Ours(c)
           n == Len(wire)
<1>1. wire \in Seq(Inputs) /\ wire # <<>> /\ x \in Inputs /\ Tail(wire) \in Seq(Inputs)
      /\ n \in 1 .. Len(wire) /\ Len(Tail(wire)) + 1 = n
  BY DEF receive_and_inject, ControlInv, ControlType
<1>2. /\ UNCHANGED <<net, pressed>> /\ Alters' = Alters /\ wire' = Tail(wire) /\ net = "up" /\ inject(x)
      /\ c \in Codes(pressed)' <=> c \in Codes(pressed)
  BY Fixed DEF receive_and_inject, Here
<1>3. d0 \in BOOLEAN /\ Downs(x) \in BOOLEAN
  BY DEF Ours, Downs
<1>4. Settles(c)
  BY <1>2 DEF ControlInv, Connecting
<1>5. /\ c \notin Alters[x] => (c \in down' <=> c \in down) /\ (c \in carried' <=> c \in carried)
      /\ c \in Alters[x] => c \notin carried' /\ (c \in down' <=> Downs(x))
  BY <1>1, <1>2, InjectFacts DEF ControlInv
<1>6. Ours(c)' <=> IF c \in Alters[x] THEN Downs(x) ELSE d0
  BY <1>2, <1>5 DEF Ours
<1>7. /\ c \in Alters[x] =>
           (Before(wire, n + 1, Alters, c, d0) <=> Before(Tail(wire), n, Alters, c, Downs(x)))
      /\ c \notin Alters[x] =>
           (Before(wire, n + 1, Alters, c, d0) <=> Before(Tail(wire), n, Alters, c, d0))
  BY <1>1, <1>3, BeforeTail
<1>8. Settles(c)' <=> (Before(Tail(wire), n, Alters, c, Ours(c)') <=> c \in Codes(pressed))
  BY <1>1, <1>2, Zenon DEF Settles
<1>9. Before(wire, n + 1, Alters, c, d0) <=> c \in Codes(pressed)
  BY <1>4 DEF Settles
<1>10. Before(Tail(wire), n, Alters, c, Ours(c)') <=> Before(wire, n + 1, Alters, c, d0)
  <2> HIDE DEF d0, n, x
  <2>1. CASE c \in Alters[x]
    BY <1>3, <1>6, <1>7, <2>1 DEF Before
  <2>2. CASE c \notin Alters[x]
    BY <1>3, <1>6, <1>7, <2>2 DEF Before
  <2> QED BY <2>1, <2>2
<1> QED BY <1>6, <1>8, <1>9, <1>10

LEMMA ReceiveMac ==
  ASSUME ControlInv, receive_and_inject
  PROVE  MacInv'
<1> SUFFICES ASSUME net = "up", sys = "macos" PROVE MacInv'
  BY DEF MacInv, receive_and_inject, Here
<1> DEFINE x == Head(wire)
           L == button_of("Left")
           d0 == Ours(L)
           d1 == Ours(L)'
<1>1. /\ wire \in Seq(Inputs) /\ wire # <<>> /\ x \in Inputs /\ wire[1] = x
      /\ wire' = Tail(wire) /\ Len(wire') = Len(wire) - 1 /\ Len(wire) \in Nat \ {0}
      /\ \A i \in 1 .. Len(wire') : wire'[i] = wire[i + 1]
  BY DEF receive_and_inject, ControlInv, ControlType
<1>2. UNCHANGED <<sys, client>> /\ inject(x) /\ Alters' = Alters
  BY Fixed DEF receive_and_inject, Here
<1>3. /\ client = "desktop" => (left_down <=> d0)
      /\ \A i \in 1 .. Len(wire) : wire[i].type = "dragged" => Before(wire, i, Alters, L, d0)
      /\ d0 \in BOOLEAN /\ d1 \in BOOLEAN /\ Downs(x) \in BOOLEAN
  BY DEF ControlInv, MacInv, Ours, Downs
<1>4. d1 <=> IF L \in Alters[x] THEN Downs(x) ELSE d0
  BY ReceiveSettles DEF ControlInv, ControlType
<1>5. /\ Move.type = "move" /\ Dragged.type = "dragged" /\ Secondary.type = "secondary"
      /\ \A e : Text(e).type = "text"
  BY DEF Move, Dragged, Secondary, Text
<1>6. x.type = "dragged" => d0
  <2> HAVE x.type = "dragged"
  <2>1. Before(wire, 1, Alters, L, d0)
    BY <1>1, <1>3
  <2> QED BY <2>1, <1>3, BeforeFirst
<1> HIDE DEF d0, d1
<1>7. /\ client' = "desktop" => (left_down' <=> d1)
      /\ posted' # "none" => (posted' = "drag" <=> d1)
  <2>1. CASE \E i \in Items, d \in BOOLEAN : x = Press(i, d)
    <3>1. PICK i \in Items, d \in BOOLEAN : x = Press(i, d)
      BY <2>1
    <3>2. /\ <<x.type, x.of>> = i /\ x.pressed = d /\ Alters[x] = Code(i) /\ (Downs(x) <=> d)
          /\ x.type \in {"key", "button", "contact"}
      BY <3>1, PressFacts DEF Presses
    <3>3. left_down' = IF i = L THEN d ELSE left_down
      BY <1>2, <3>2 DEF inject
    <3>4. posted' = "none"
      BY <1>2, <3>2 DEF inject, post_mouse
    <3>5. client = "desktop" => (L \in Code(i) <=> i = L)
      <4>1. client = "desktop" => i[1] \in {"button", "key"}
        BY DEF Items, button_of, key_of
      <4>2. i[1] = "button" => Code(i) = {i}
        BY DEF Code
      <4>3. i[1] = "key" => L \notin Code(i) /\ i # L
        BY DEF Code, key_of, button_of
      <4> QED BY <4>1, <4>2, <4>3
    <3> QED BY <1>2, <1>3, <1>4, <3>2, <3>3, <3>4, <3>5
  <2>2. CASE client = "desktop" /\ x = Move
    <3>1. d1 <=> d0
      BY <1>4, <2>2, OtherFacts
    <3>2. UNCHANGED left_down /\ (left_down => posted' = "drag") /\ (~left_down => posted' = "move")
      BY <1>2, <1>5, <2>2 DEF inject, post_mouse
    <3> QED BY <1>2, <1>3, <2>2, <3>1, <3>2
  <2>3. CASE client # "desktop" /\ x = Dragged
    <3>1. d1 <=> d0
      BY <1>4, <2>3, OtherFacts
    <3>2. posted' = "drag"
      BY <1>2, <1>5, <2>3 DEF inject, post_mouse
    <3> QED BY <1>2, <1>5, <1>6, <2>3, <3>1, <3>2
  <2>4. CASE client # "desktop" /\ (x = Secondary \/ \E e \in Chars : x = Text(e))
    <3>1. posted' = "none"
      BY <1>2, <1>5, <2>4 DEF inject, post_mouse
    <3> QED BY <1>2, <2>4, <3>1
  <2> QED BY <1>1, <2>1, <2>2, <2>3, <2>4, InputCases
<1>8. ASSUME NEW i \in 1 .. Len(wire'), wire'[i].type = "dragged"
      PROVE  Before(wire', i, Alters, L, d1)
  <2>1. i + 1 \in 1 .. Len(wire) /\ i \in 1 .. Len(wire) /\ wire[i + 1].type = "dragged"
    BY <1>1, <1>8
  <2>2. Before(wire, i + 1, Alters, L, d0)
    BY <1>3, <2>1
  <2>3. /\ L \in Alters[x] => (Before(wire, i + 1, Alters, L, d0) <=> Before(wire', i, Alters, L, Downs(x)))
        /\ L \notin Alters[x] => (Before(wire, i + 1, Alters, L, d0) <=> Before(wire', i, Alters, L, d0))
    BY <1>1, <1>3, <2>1, BeforeTail, ZenonT(30)
  <2> HIDE DEF x, L
  <2>4. CASE L \in Alters[x]
    BY <1>3, <1>4, <2>2, <2>3, <2>4 DEF Before
  <2>5. CASE L \notin Alters[x]
    BY <1>3, <1>4, <2>2, <2>3, <2>5 DEF Before
  <2> QED BY <2>4, <2>5
<1> QED BY <1>2, <1>7, <1>8, Zenon DEF MacInv, d1, L

LEMMA ReceiveKeeps == ASSUME ControlInv, receive_and_inject PROVE ControlInv'
<1>1. ControlType' /\ ClientInv' /\ MacInv'
  BY ReceiveType, ReceiveMac
<1>2. Connecting' => works = TRUE
  BY DEF Connecting, receive_and_inject, Here
<1> QED BY <1>1, <1>2, ReceiveSettles DEF ControlInv

LEMMA ConnectedKeeps == ASSUME ControlInv, Connected PROVE ControlInv'
<1>1. /\ UNCHANGED <<sys, client, physical, focused, grabbed, wire, pressed, abandoned>>
      /\ Items' = Items /\ Inputs' = Inputs /\ Alters' = Alters
      /\ \A c : c \in Codes(pressed)' <=> c \in Codes(pressed)
      /\ net = "connecting" /\ net' = "up" /\ carried' = down' /\ left_down' = FALSE /\ posted' = "none"
  BY Fixed DEF Connected, Here
<1>2. ControlType' /\ ClientInv'
  <2>1. works' \in BOOLEAN /\ (sys # "linux" => works' = TRUE)
    BY DEF Connected
  <2>2. ClientInv'
    BY <1>1 DEF ControlInv, ClientInv, ReleasesSent, KeysGivenUp, Held
  <2> QED BY <1>1, <2>1, <2>2 DEF ControlInv, ControlType
<1>3. \A c : Ours(c)' = FALSE /\ Ours(c) = FALSE
  BY <1>1 DEF Ours
<1>4. \A c : Settles(c) => Settles(c)'
  BY <1>1, <1>3, Zenon DEF Settles
<1>5. MacInv'
  <2>1. client = "browser" => wire = <<>>
    BY <1>1 DEF ControlInv, ControlType
  <2>2. client = "desktop" => \A i \in 1 .. Len(wire) : wire[i].type # "dragged"
    <3>1. \A x \in Inputs : client = "desktop" => x.type # "dragged"
      <4>1. Move.type = "move"
        BY DEF Move
      <4> QED BY <4>1, InputCases, PressFacts DEF Presses
    <3>2. \A i \in 1 .. Len(wire) : wire[i] \in Inputs
      BY DEF ControlInv, ControlType
    <3> QED BY <3>1, <3>2
  <2>3. \A i \in 1 .. Len(wire) : wire[i].type # "dragged"
    BY <2>1, <2>2 DEF ControlInv, ControlType
  <2> QED BY <1>1, <1>3, <2>3 DEF MacInv
<1> QED BY <1>1, <1>2, <1>4, <1>5 DEF ControlInv, Connecting

LEMMA EndedKeeps == ASSUME ControlInv, Ended \/ Restarted PROVE ControlInv'
<1>0. UNCHANGED <<sys, client, works, carried, left_down>> /\ Items' = Items /\ Inputs' = Inputs /\ wire' = <<>>
      /\ net' # "up" /\ Len(<<>>) = 0 /\ <<>> \in Seq(Inputs) /\ net' \in {"connecting", "ended"}
  BY Fixed DEF Ended, Restarted, Here, ControlInv, ControlType
<1>1. CASE Ended
  <2>1. ControlType'
    BY <1>0, <1>1 DEF Ended, Here, ControlInv, ControlType
  <2>2. ClientInv'
    BY <1>1 DEF Ended, Here, ControlInv, ClientInv, ReleasesSent, KeysGivenUp, Held
  <2>3. ~Connecting'
    BY <1>1 DEF Ended, Connecting
  <2> QED BY <1>0, <2>1, <2>2, <2>3 DEF ControlInv, MacInv
<1>2. CASE Restarted
  <2>1. ControlType'
    BY <1>0, <1>2 DEF Restarted, ControlInv, ControlType
  <2>2. ClientInv'
    BY <1>2 DEF Restarted, ClientInv, ReleasesSent, KeysGivenUp
  <2>3. ASSUME NEW c PROVE Settles(c)'
    <3>1. Ours(c)' = FALSE /\ ~(c \in Codes(pressed)')
      BY <1>0, <1>2 DEF Ours, Codes, Restarted
    <3>2. Before(<<>>, 1, Alters', c, Ours(c)') <=> Ours(c)'
      BY BeforeFirst DEF Ours
    <3> QED BY <1>0, <3>1, <3>2 DEF Settles
  <2> QED BY <1>0, <2>1, <2>2, <2>3 DEF ControlInv, MacInv
<1> QED BY <1>1, <1>2

LEMMA ControlStarts == ASSUME ControlInit PROVE ControlInv
<1>1. <<>> \in Seq(Inputs) /\ Len(<<>>) = 0
  OBVIOUS
<1>2. ControlType /\ ClientInv /\ MacInv
  BY <1>1 DEF ControlInit, ControlType, ClientInv, ReleasesSent, KeysGivenUp, MacInv
<1>3. ASSUME NEW c PROVE Settles(c)
  <2>1. Ours(c) = FALSE /\ c \notin Codes(pressed) /\ wire = <<>>
    BY DEF Ours, Codes, ControlInit
  <2>2. Before(<<>>, 1, Alters, c, Ours(c)) <=> Ours(c)
    BY BeforeFirst DEF Ours
  <2> QED BY <1>1, <2>1, <2>2 DEF Settles
<1> QED BY <1>2, <1>3 DEF ControlInv

LEMMA ControlStutters == ASSUME ControlInv, UNCHANGED control PROVE ControlInv'
<1>1. /\ UNCHANGED <<sys, client, physical, focused, grabbed, net, wire, pressed, abandoned,
                    works, down, carried, left_down, posted>>
      /\ Items' = Items /\ Inputs' = Inputs /\ Alters' = Alters
      /\ \A c : c \in Codes(pressed)' <=> c \in Codes(pressed)
  BY Fixed DEF control
<1>2. \A c : Settles(c) => Settles(c)'
  BY <1>1 DEF Settles, Ours
<1>3. MacInv'
  BY <1>1 DEF ControlInv, MacInv, Ours
<1>4. ControlType' /\ ClientInv'
  BY <1>1 DEF ControlInv, ControlType, ClientInv, ReleasesSent, KeysGivenUp, Held
<1> QED BY <1>1, <1>2, <1>3, <1>4 DEF ControlInv, Connecting

(* What is down at the host was pressed by its client and is held still, but *)
(* for what was left down when control was given up (abandoned) or was down  *)
(* before the connection (carried); and a drag is posted as a drag.          *)
THEOREM HeldStaysHeld == ControlSpec => []HeldIsHeld
<1>1. ASSUME ControlInv, [ControlNext]_control PROVE ControlInv'
  BY <1>1, DesktopKeeps, BrowserKeeps, ReceiveKeeps, ConnectedKeeps, EndedKeeps, ControlStutters
     DEF ControlNext
<1>2. ASSUME ControlInv PROVE HeldIsHeld
  <2>1. ReleasesSent
    BY <1>2 DEF ControlInv, ClientInv
  <2>2. DownIsPressed
    <3> SUFFICES ASSUME net = "up", wire = <<>>, works = TRUE PROVE down = Codes(pressed) \cup carried
      BY <1>2 DEF DownIsPressed, ControlInv, ControlType
    <3>1. \A c : Settles(c) /\ (Before(<<>>, 1, Alters, c, Ours(c)) <=> Ours(c))
      BY <1>2, BeforeFirst DEF ControlInv, Connecting, Ours
    <3>2. Len(wire) + 1 = 1 /\ carried \subseteq down
      BY <1>2 DEF ControlInv, ControlType
    <3>3. \A c : Ours(c) <=> c \in Codes(pressed)
      BY <3>1, <3>2 DEF Settles
    <3> QED BY <3>2, <3>3 DEF Ours
  <2>3. DragsAreDrags
    BY <1>2 DEF ControlInv, MacInv, DragsAreDrags, Ours
  <2> QED BY <2>1, <2>2, <2>3 DEF HeldIsHeld
<1> QED BY <1>1, <1>2, ControlStarts, PTL DEF ControlSpec

-----------------------------------------------------------------------------
(* The panels.                                                              *)
PanelsSpec == PanelsInit /\ [][PanelsNext]_panels

-----------------------------------------------------------------------------
(* The account.  One thread at most brings a session: the refresh begins   *)
(* with one in memory, a worker without, and only the user, signing out    *)
(* while one of them is at it (raced), can bring both about.               *)
Refreshing == refresh.at \in {"asked", "saved", "tokened"}
Handing == \E k \in DOMAIN rx : rx[k].kind = "signed_in"
Verifying == worker.at \in {"verify", "saved"} \/ Handing
Filed(n) == unsaved = FALSE => file = n

Threads == [at : {"none", "spawned", "asked", "saved", "tokened", "otp", "verify"}, next : Nat]
Answers == [kind : {"code_sent", "signed_in", "failed"}, session : Nat]
AccountType ==
  /\ session \in Nat /\ token \in Nat /\ file \in Nat /\ issued \in Nat
  /\ refresh \in Threads /\ worker \in Threads
  /\ rx \in Seq(Answers)
  /\ busy \in BOOLEAN /\ raced \in BOOLEAN /\ unsaved \in BOOLEAN

(* A button that is off has its one answer on the way.                      *)
OneAnswer ==
  /\ worker.at # "none" => busy = TRUE /\ rx = <<>>
  /\ rx # <<>> => busy = TRUE /\ Tail(rx) = <<>>

(* Which of the three places already hold the session on its way; the file  *)
(* only if the last save did what it was to.                                *)
Places ==
  /\ Refreshing => session # SignedOut /\ ~Verifying
  /\ Verifying => session = SignedOut
  /\ ~Refreshing /\ ~Verifying => token = session /\ Filed(session)
  /\ refresh.at = "asked" \/ worker.at = "verify" => token = session /\ Filed(session)
  /\ refresh.at = "saved" => Filed(refresh.next)
  /\ refresh.at = "tokened" => Filed(refresh.next) /\ token = refresh.next
  /\ worker.at = "saved" => Filed(worker.next)
  /\ \A k \in DOMAIN rx : rx[k].kind = "signed_in" => Filed(rx[k].session)

AccountInv == AccountType /\ OneAnswer /\ (raced = FALSE => Places)

LEMMA ThreadType ==
  ASSUME NEW at \in {"none", "spawned", "asked", "saved", "tokened", "otp", "verify"}, NEW n \in Nat
  PROVE  Thread(at, n) \in Threads /\ Thread(at, n).at = at /\ Thread(at, n).next = n
  BY DEF Thread, Threads

LEMMA ThreadTypes ==
  /\ NoThread \in Threads /\ NoThread.at = "none"
  /\ Thread("spawned", SignedOut) \in Threads /\ Thread("asked", SignedOut) \in Threads
  /\ Thread("otp", SignedOut) \in Threads /\ Thread("verify", SignedOut) \in Threads
  BY DEF Thread, Threads, NoThread, SignedOut

LEMMA NoAnswers == <<>> \in Seq(Answers)
  OBVIOUS

LEMMA AccountStarts == PanelsInit => AccountInv
<1> SUFFICES ASSUME PanelsInit PROVE AccountInv
  OBVIOUS
<1>1. AccountType
  <2>1. session \in Nat /\ token \in Nat /\ file \in Nat /\ issued \in Nat
    BY DEF PanelsInit, SignedOut
  <2>2. refresh \in Threads /\ worker \in Threads /\ rx \in Seq(Answers)
    BY ThreadTypes, NoAnswers DEF PanelsInit
  <2> QED BY <2>1, <2>2 DEF PanelsInit, AccountType
<1>2. refresh.at = "spawned" /\ worker.at = "none" /\ rx = <<>> /\ token = session /\ file = session
  BY ThreadTypes DEF PanelsInit, Thread
<1>3. OneAnswer /\ Places
  BY <1>2 DEF OneAnswer, Places, Filed, Refreshing, Verifying, Handing
<1> QED BY <1>1, <1>3 DEF AccountInv

(* What the operations have in common.                                      *)
LEMMA TypeKept == ASSUME AccountInv, AccountNext PROVE AccountType'
  <1> USE ThreadTypes, NoAnswers DEF AccountInv, AccountType, dialog, save_session
  <1>1. CASE Refresh
    <2>1. CASE RefreshReads
      BY <1>1, <2>1 DEF Refresh, RefreshReads
    <2>2. CASE RefreshAnswered
      <3>1. issued + 1 \in Nat /\ Thread("saved", issued + 1) \in Threads /\ SignedOut \in Nat
        BY DEF Thread, Threads, SignedOut
      <3> QED BY <1>1, <2>2, <3>1 DEF Refresh, RefreshAnswered
    <2>3. CASE RefreshTokens
      <3>1. refresh.next \in Nat /\ [refresh EXCEPT !.at = "tokened"] \in Threads
        BY DEF Threads
      <3> QED BY <1>1, <2>3, <3>1 DEF Refresh, RefreshTokens
    <2>4. CASE RefreshEnds
      <3>1. refresh.next \in Nat
        BY DEF Threads
      <3> QED BY <1>1, <2>4, <3>1 DEF Refresh, RefreshEnds
    <2> QED BY <1>1, <2>1, <2>2, <2>3, <2>4 DEF Refresh
  <1>2. CASE drain
    <2>1. rx # <<>> /\ Tail(rx) \in Seq(Answers) /\ Head(rx) \in Answers
      BY <1>2 DEF drain
    <2>2. Head(rx).session \in Nat
      BY <2>1 DEF Answers
    <2> QED BY <1>2, <2>1, <2>2 DEF drain, Hears
  <1>3. CASE Asks
    BY <1>3 DEF Asks, send_code, verify
  <1>4. CASE different_email \/ Shows
    BY <1>4 DEF different_email, Shows
  <1>5. CASE Worker
    <2>1. ASSUME NEW kind \in {"code_sent", "signed_in", "failed"}, NEW n \in Nat, HandsBack(kind, n)
          PROVE  rx' \in Seq(Answers) /\ worker' \in Threads
      <3>1. [kind |-> kind, session |-> n] \in Answers
        BY DEF Answers
      <3> QED BY <2>1, <3>1 DEF HandsBack
    <2>2. /\ issued + 1 \in Nat /\ Thread("saved", issued + 1) \in Threads
          /\ worker.next \in Nat /\ SignedOut \in Nat
      BY DEF Thread, Threads, SignedOut
    <2>3. CASE worker.at = "verify" /\ issued' = issued + 1 /\ file' \in {issued', file, SignedOut} /\ unsaved' = (file' # issued') /\ worker' = Thread("saved", issued')
               /\ UNCHANGED rx
      BY <1>5, <2>2, <2>3 DEF Worker
    <2>4. CASE \E kind \in {"code_sent", "signed_in", "failed"}, n \in Nat :
                 HandsBack(kind, n) /\ UNCHANGED <<file, unsaved, issued>>
      BY <1>5, <2>1, <2>4 DEF Worker
    <2> QED BY <1>5, <2>2, <2>3, <2>4 DEF Worker
  <1>6. CASE sign_out
    BY <1>6 DEF sign_out, SignedOut, Underway, Accepted
  <1>7. CASE Restarts
    BY <1>7 DEF Restarts
  <1> QED BY <1>1, <1>2, <1>3, <1>4, <1>5, <1>6, <1>7 DEF AccountNext

LEMMA AnswersKept == ASSUME AccountInv, AccountNext PROVE OneAnswer'
  <1> USE DEF AccountInv, AccountType, OneAnswer
  <1>1. CASE Refresh
    BY <1>1 DEF Refresh, dialog
  <1>2. CASE drain
    BY <1>2 DEF drain
  <1>3. CASE Asks
    BY <1>3 DEF Asks, send_code, verify
  <1>4. CASE different_email \/ Shows
    BY <1>4 DEF different_email, Shows
  <1>5. CASE Worker
    <2>0. worker.at # "none" /\ rx = <<>> /\ busy = TRUE /\ busy' = TRUE
      BY <1>5 DEF Worker, dialog
    <2>1. ASSUME NEW kind, NEW n, HandsBack(kind, n)
          PROVE  worker'.at = "none" /\ Tail(rx') = <<>>
      BY <2>0, <2>1, ThreadTypes DEF HandsBack
    <2>2. CASE UNCHANGED rx
      BY <2>0, <2>2
    <2>3. CASE \E kind, n : HandsBack(kind, n)
      BY <2>0, <2>1, <2>3
    <2> QED BY <1>5, <2>2, <2>3 DEF Worker
  <1>6. CASE sign_out
    BY <1>6 DEF sign_out
  <1>7. CASE Restarts
    BY <1>7, ThreadTypes DEF Restarts
  <1> QED BY <1>1, <1>2, <1>3, <1>4, <1>5, <1>6, <1>7 DEF AccountNext

LEMMA PlacesKept == ASSUME AccountInv, AccountNext, raced' = FALSE PROVE Places'
  <1>0. OneAnswer /\ AccountType
    BY DEF AccountInv
  <1> USE DEF Places, Filed
  <1>1. CASE Refresh
    <2>0. Places /\ UNCHANGED <<worker, rx>> /\ (Verifying' <=> Verifying) /\ (Handing' <=> Handing)
      BY <1>1 DEF Refresh, AccountInv, Verifying, Handing
    <2>1. CASE RefreshReads
      BY <1>1, <2>0, <2>1, ThreadTypes DEF RefreshReads, Refreshing, Thread
    <2>2. CASE RefreshAnswered
      <3>1. CASE refresh' = NoThread /\ UNCHANGED <<issued, file, unsaved>>
        BY <1>1, <2>0, <2>2, <3>1, ThreadTypes DEF RefreshAnswered, Refreshing
      <3>2. CASE unsaved' = (file' # issued') /\ refresh' = Thread("saved", issued')
        <4>1. refresh'.at = "saved" /\ refresh'.next = issued' /\ (unsaved' = FALSE => file' = issued')
          BY <3>2 DEF Thread
        <4>2. ~Verifying /\ UNCHANGED <<session, token>>
          BY <1>1, <2>0, <2>2 DEF Refresh, RefreshAnswered, Refreshing
        <4>3. Refreshing /\ Refreshing' /\ worker.at \notin {"verify", "saved"} /\ ~Handing
          BY <2>2, <4>1, <4>2 DEF RefreshAnswered, Refreshing, Verifying
        <4> QED BY <2>0, <4>1, <4>2, <4>3 DEF Handing
      <3> QED BY <2>2, <3>1, <3>2 DEF RefreshAnswered, save_session
    <2>3. CASE RefreshTokens
      <3>1. /\ refresh'.at = "tokened" /\ refresh'.next = refresh.next /\ token' = refresh.next
            /\ UNCHANGED <<session, file, unsaved>> /\ refresh.at = "saved"
        BY <1>0, <2>3 DEF RefreshTokens, AccountType, Threads
      <3>2. session # SignedOut /\ ~Verifying /\ Filed(refresh.next)
        BY <2>0, <3>1 DEF Refreshing
      <3> QED BY <2>0, <3>1, <3>2 DEF Refreshing, Verifying, Handing
    <2>4. CASE RefreshEnds
      BY <1>1, <2>0, <2>4, ThreadTypes DEF RefreshEnds, Refreshing
    <2> QED BY <1>1, <2>1, <2>2, <2>3, <2>4 DEF Refresh
  <1>2. CASE drain
    <2>0. /\ Places /\ rx # <<>> /\ rx' = <<>> /\ worker' = worker /\ worker.at = "none"
          /\ ~Verifying' /\ ~Handing' /\ Head(rx) = rx[1] /\ 1 \in DOMAIN rx
          /\ UNCHANGED <<file, unsaved, refresh>> /\ (Refreshing' <=> Refreshing)
      BY <1>0, <1>2 DEF drain, OneAnswer, AccountType, Verifying, Handing, AccountInv, Refreshing
    <2>1. CASE Head(rx).kind = "signed_in"
      <3>1. Handing /\ Verifying /\ Filed(Head(rx).session)
        BY <2>0, <2>1 DEF Handing, Verifying
      <3> QED BY <1>2, <2>0, <2>1, <3>1 DEF drain, Hears, Refreshing
    <2>2. CASE Head(rx).kind # "signed_in"
      <3>1. ~Handing
        <4>1. rx \in Seq(Answers) /\ Tail(rx) = <<>>
          BY <1>0, <2>0 DEF OneAnswer, AccountType
        <4>a. Len(<<>>) = 0
          OBVIOUS
        <4>0. Len(Tail(rx)) = 0
          BY <4>1, <4>a, Zenon
        <4>2. Len(Tail(rx)) = Len(rx) - 1 /\ DOMAIN rx = 1 .. Len(rx) /\ Len(rx) \in Nat
          BY <2>0, <4>1 DEF Answers
        <4>3. DOMAIN rx = {1}
          BY <4>0, <4>2
        <4> QED BY <2>0, <2>2, <4>3 DEF Handing
      <3> QED BY <1>2, <2>0, <2>2, <3>1 DEF drain, Hears, Verifying
    <2> QED BY <2>1, <2>2
  <1>3. CASE Asks
    <2>0. /\ Places /\ session = SignedOut /\ UNCHANGED <<session, token, file, unsaved, refresh, rx>>
          /\ worker.at = "none" /\ rx = <<>> /\ (Refreshing' <=> Refreshing)
      BY <1>0, <1>3 DEF Asks, AccountInv, OneAnswer, AccountType, Refreshing
    <2>1. ~Verifying /\ ~Handing /\ ~Handing' /\ ~Refreshing
      BY <2>0 DEF Verifying, Handing
    <2>2. worker' = worker \/ worker' = Thread("otp", SignedOut) \/ worker' = Thread("verify", SignedOut)
      BY <1>3 DEF Asks, send_code, verify
    <2> QED BY <2>0, <2>1, <2>2 DEF Verifying, Thread, Refreshing
  <1>4. CASE different_email \/ Shows
    BY <1>4 DEF different_email, Shows, AccountInv, Refreshing, Verifying, Handing
  <1>5. CASE Worker
    <2>0. /\ Places /\ worker.at # "none" /\ rx = <<>> /\ ~Handing
          /\ UNCHANGED <<session, token, refresh>> /\ (Refreshing' <=> Refreshing)
      BY <1>0, <1>5 DEF Worker, AccountInv, OneAnswer, Handing, Refreshing
    <2>1. CASE worker.at = "otp"
      <3>1. \E kind \in {"code_sent", "failed"} : HandsBack(kind, SignedOut) /\ UNCHANGED <<file, unsaved, issued>>
        BY <1>5, <2>1 DEF Worker
      <3> QED BY <2>0, <2>1, <3>1, ThreadTypes DEF HandsBack, Verifying, Handing, Refreshing
    <2>2. CASE worker.at = "verify" /\ worker' = Thread("saved", issued') /\ unsaved' = (file' # issued') /\ UNCHANGED rx
      BY <2>0, <2>2 DEF Verifying, Handing, Thread, Refreshing
    <2>3. CASE worker.at = "verify" /\ HandsBack("failed", SignedOut) /\ UNCHANGED <<file, unsaved>>
      BY <2>0, <2>3, ThreadTypes DEF HandsBack, Verifying, Handing, Refreshing
    <2>4. CASE worker.at = "saved" /\ HandsBack("signed_in", worker.next) /\ UNCHANGED <<file, unsaved>>
      BY <2>0, <2>4, ThreadTypes DEF HandsBack, Verifying, Handing, Refreshing
    <2> QED BY <1>5, <2>1, <2>2, <2>3, <2>4 DEF Worker, save_session
  <1>6. CASE sign_out
    <2>1. ~Underway /\ UNCHANGED <<refresh, worker, rx>> /\ session' = SignedOut /\ token' = SignedOut
          /\ unsaved' = (file' # SignedOut)
      BY <1>6 DEF sign_out, save_session
    <2>2. ~Refreshing' /\ ~Verifying' /\ ~Handing'
      BY <2>1 DEF Underway, Accepted, Refreshing, Verifying, Handing
    <2>3. unsaved' = FALSE => file' = session'
      BY <2>1
    <2> QED BY <2>1, <2>2, <2>3 DEF Refreshing, Verifying, Handing
  <1>7. CASE Restarts
    BY <1>7, ThreadTypes DEF Restarts, Refreshing, Verifying, Handing, Thread
  <1> QED BY <1>1, <1>2, <1>3, <1>4, <1>5, <1>6, <1>7 DEF AccountNext

LEMMA AccountKeeps == ASSUME AccountInv, [PanelsNext]_panels PROVE AccountInv'
<1>1. CASE AccountNext
  <2>1. AccountType' /\ OneAnswer'
    BY <1>1, TypeKept, AnswersKept
  <2>2. raced' = FALSE => Places'
    BY <1>1, PlacesKept
  <2> QED BY <2>1, <2>2 DEF AccountInv
<1>2. CASE UNCHANGED account
  BY <1>2 DEF account, AccountInv, AccountType, OneAnswer, Places, Filed, Refreshing, Verifying, Handing
<1> QED BY <1>1, <1>2 DEF PanelsNext, ViewerNext, panels

(* At rest the token and the file hold the session, and whoever signed out  *)
(* stays so until a code is accepted, unless the last save failed or the    *)
(* user signed out during a fetch.                                          *)
THEOREM AccountStaysKept == PanelsSpec => AccountKept
<1>1. PanelsSpec => []AccountInv
  BY AccountStarts, AccountKeeps, PTL DEF PanelsSpec
<1>2. AccountInv => Underway \/ raced \/ (token = session /\ (unsaved \/ file = session))
  BY DEF AccountInv, AccountType, Places, Underway, Accepted, Refreshing, Verifying, Handing, Filed
<1>3. ASSUME AccountInv, [PanelsNext]_panels
      PROVE  (session = SignedOut /\ session' # SignedOut) => (Accepted \/ raced \/ unsaved)
  <2> SUFFICES ASSUME session = SignedOut, session' # SignedOut, raced = FALSE, unsaved = FALSE, ~Accepted,
                      AccountNext
               PROVE  FALSE
    BY <1>3 DEF PanelsNext, panels, account, ViewerNext, AccountInv, AccountType
  <2>0. Places /\ ~Refreshing /\ ~Handing /\ worker.at # "saved"
    BY <1>3 DEF AccountInv, Places, Accepted, Handing
  <2>1. CASE Refresh
    BY <2>0, <2>1 DEF Refresh, RefreshReads, RefreshAnswered, RefreshTokens, RefreshEnds, Refreshing
  <2>2. CASE drain
    <3>1. Head(rx) = rx[1] /\ 1 \in DOMAIN rx
      BY <1>3, <2>2 DEF drain, AccountInv, AccountType
    <3> QED BY <2>0, <2>2, <3>1 DEF drain, Hears, Handing
  <2>3. CASE Restarts
    <3>1. Filed(SignedOut)
      BY <2>0 DEF Places, Verifying
    <3> QED BY <2>3, <3>1 DEF Restarts, Filed
  <2> QED BY <2>1, <2>2, <2>3 DEF AccountNext, Asks, different_email, Worker, sign_out, Shows
<1> QED BY <1>1, <1>2, <1>3, PTL DEF PanelsSpec, AccountKept

-----------------------------------------------------------------------------
(* The viewer.  The waiter is at work exactly while there is a client.      *)
ViewerInv ==
  /\ phase.open \in BOOLEAN
  /\ child.at \in {"none", "running", "exited"} /\ waiter.at \in {"none", "reading"}
  /\ phase.open <=> child.at # "none"
  /\ waiter.at = "reading" <=> child.at # "none"
  /\ phase.open => phase.addr = child.addr

(* The panel names the computer its client was sent to, and shows nothing   *)
(* once that client is gone.                                                *)
THEOREM ViewerStaysTrue == PanelsSpec => []ViewerTrue
<1>1. PanelsInit => ViewerInv
  BY DEF PanelsInit, ViewerInv, NoChild
<1>2. ASSUME ViewerInv, [PanelsNext]_panels PROVE ViewerInv'
  <2>1. CASE UNCHANGED viewing
    BY <1>2, <2>1 DEF viewing, ViewerInv
  <2>2. CASE choose \/ Types
    BY <1>2, <2>2 DEF choose, Types, ViewerInv
  <2>3. CASE launch
    <3>1. CASE \E why : /\ phase' = [open |-> FALSE, addr |-> NoAddress, note |-> why]
                       /\ UNCHANGED <<child, waiter>>
      BY <1>2, <2>3, <3>1 DEF launch, ViewerInv
    <3>2. CASE /\ phase' = [open |-> TRUE, addr |-> normalise_addr(address), note |-> Silent]
               /\ child' = [at |-> "running", addr |-> normalise_addr(address), said |-> Silent]
               /\ waiter' = [at |-> "reading", problem |-> Silent]
      BY <3>2 DEF ViewerInv
    <3> QED BY <2>3, <3>1, <3>2 DEF launch
  <2>4. CASE Client
    <3>1. CASE \E e \in {"error", "needs_code"} : child' = [child EXCEPT !.said = e]
      <4>1. child'.at = child.at /\ child'.addr = child.addr
        BY <3>1
      <4> QED BY <1>2, <2>4, <4>1 DEF Client, ViewerInv
    <3>2. CASE child' = [child EXCEPT !.at = "exited"]
      <4>1. child'.addr = child.addr
        BY <3>2
      <4> QED BY <1>2, <2>4, <3>2, <4>1 DEF Client, ViewerInv
    <3> QED BY <2>4, <3>1, <3>2 DEF Client
  <2>5. CASE Waits
    <3>1. CASE waiter' = [waiter EXCEPT !.problem = child.said] /\ UNCHANGED <<phase, child>>
      <4>1. waiter'.at = waiter.at
        BY <3>1
      <4> QED BY <1>2, <3>1, <4>1 DEF ViewerInv
    <3>2. CASE /\ waiter' = [at |-> "none", problem |-> Silent] /\ child' = NoChild
               /\ phase' = [open |-> FALSE, addr |-> NoAddress, note |-> waiter.problem]
      BY <3>2 DEF NoChild, ViewerInv
    <3> QED BY <2>5, <3>1, <3>2 DEF Waits
  <2> QED BY <1>2, <2>1, <2>2, <2>3, <2>4, <2>5 DEF PanelsNext, AccountNext, ViewerNext, panels, viewing
<1>3. ViewerInv => ViewerTrue
  BY DEF ViewerInv, ViewerTrue
<1> QED BY <1>1, <1>2, <1>3, PTL DEF PanelsSpec

-----------------------------------------------------------------------------
(* What a host sends and an app is told, and the sizes of pictures.          *)
MediaSpec == MediaInit /\ [][MediaNext]_media

(* Arithmetic.                                                              *)
LEMMA Quotient ==
  ASSUME NEW a \in Nat, NEW d \in Nat, d > 0
  PROVE  /\ a \div d \in Nat
         /\ d * (a \div d) <= a /\ a < d * (a \div d) + d
  OBVIOUS

LEMMA Exact ==
  ASSUME NEW a \in Nat, NEW d \in Nat, d > 0
  PROVE  (d * a) \div d = a
  <1> DEFINE q == (d * a) \div d
  <1>0. d * a \in Nat
    OBVIOUS
  <1>1. q \in Nat /\ d * q <= d * a /\ d * a < d * q + d
    BY <1>0, Quotient
  <1> HIDE DEF q
  <1>2. q <= a
    BY <1>1
  <1>3. d * a < d * (q + 1)
    BY <1>1
  <1>4. a < q + 1
    BY <1>1, <1>3
  <1>5. q = a
    BY <1>1, <1>2, <1>4
  <1> QED BY <1>5 DEF q

LEMMA EvenFacts ==
  ASSUME NEW n \in Nat
  PROVE  /\ Even(n) \in Nat /\ Even(n) % 2 = 0 /\ Even(n) >= 2
         /\ n - 1 <= Even(n) /\ Even(n) <= n + 2
         /\ n >= 2 => Even(n) <= n
  BY DEF Even

LEMMA Times ==
  ASSUME NEW n \in Nat, NEW b \in Nat, NEW e \in Int, -b <= e, e <= b
  PROVE  -(b * n) <= n * e /\ n * e <= b * n
  OBVIOUS

(* A side scaled by num / den, and cut to an even number.                   *)
LEMMA ScaledFacts ==
  ASSUME NEW n \in Nat, NEW num \in Nat, NEW den \in Nat, den > 0, NEW size \in Scaled(n, num, den)
  PROVE  /\ size \in Nat /\ size % 2 = 0 /\ size >= 2
         /\ den * size - n * num \in -3 * den .. 2 * den
         /\ \A m \in Nat : m >= 2 /\ n * num <= m * den => size <= m
  <1> DEFINE q == (n * num) \div den
  <1>1. n * num \in Nat
    OBVIOUS
  <1>2. q \in Nat /\ den * q <= n * num /\ n * num < den * q + den
    BY <1>1, Quotient
  <1>3. size = Even(q) \/ (q > 0 /\ size = Even(q - 1))
    BY DEF Scaled
  <1> HIDE DEF q
  <1>4. /\ size \in Nat /\ size % 2 = 0 /\ size >= 2
        /\ q - 2 <= size /\ size <= q + 2 /\ (q >= 2 => size <= q) /\ (q < 2 => size = 2)
    <2>1. CASE size = Even(q)
      BY <1>2, <2>1, EvenFacts DEF Even
    <2>2. CASE q > 0 /\ size = Even(q - 1)
      <3>1. q - 1 \in Nat
        BY <1>2, <2>2
      <3> QED BY <1>2, <2>2, <3>1, EvenFacts DEF Even
    <2> QED BY <1>3, <2>1, <2>2
  <1>5. den * size - n * num \in -3 * den .. 2 * den
    <2> DEFINE f == size - q
    <2>1. f \in -2 .. 2 /\ size = q + f
      BY <1>2, <1>4
    <2> HIDE DEF f
    <2>2. den * size = den * q + den * f
      BY <1>2, <2>1
    <2>3. -(2 * den) <= den * f /\ den * f <= 2 * den
      BY <2>1
    <2>4. den * size \in Int /\ n * num \in Int /\ den * q \in Int /\ den * f \in Int
      BY <1>2, <1>4, <2>1
    <2> QED BY <1>2, <2>2, <2>3, <2>4
  <1>6. ASSUME NEW m \in Nat, m >= 2, n * num <= m * den PROVE size <= m
    <2>1. den * q <= den * m
      BY <1>1, <1>2, <1>6
    <2>2. q <= m
      BY <1>2, <2>1
    <2> QED BY <1>2, <1>4, <1>6, <2>2
  <1> QED BY <1>4, <1>5, <1>6

LEMMA ScaledSelf ==
  ASSUME NEW n \in Nat, n > 0, NEW num \in Nat, num % 2 = 0, num >= 4, NEW size \in Scaled(n, num, n)
  PROVE  size \in num - 2 .. num
  <1>1. (n * num) \div n = num
    BY Exact
  <1>2. size = Even(num) \/ size = Even(num - 1)
    BY <1>1 DEF Scaled
  <1> QED BY <1>2 DEF Even

(* A side capped to m keeps the shape. *)
LEMMA Shape ==
  ASSUME NEW u \in Nat, NEW v \in Nat, NEW a \in Nat, NEW b \in Nat, NEW m \in Nat, m <= a, a > 0,
         v * a - u * b \in -2 * (u + v) .. 2 * (u + v),
         NEW x \in m - 2 .. m, NEW y \in Nat, a * y - b * m \in -3 * a .. 2 * a
  PROVE  v * x - u * y \in -5 * (u + v) .. 5 * (u + v)
  <1> DEFINE D == v * a - u * b
             F == a * y - b * m
             g == x - m
             N == u + v
             E == v * x - u * y
  <1>1. D \in Int /\ F \in Int /\ g \in -2 .. 0 /\ N \in Nat /\ E \in Int
    OBVIOUS
  <1>2. a * E = m * D + a * (v * g) - u * F
    OBVIOUS
  <1>3. -(2 * (m * N)) <= m * D /\ m * D <= 2 * (m * N)
    <2>1. -(2 * N) <= D /\ D <= 2 * N /\ 2 * N \in Nat
      OBVIOUS
    <2> HIDE DEF D, N
    <2> QED BY <1>1, <2>1, Times
  <1>4. m * N <= a * N
    <2> HIDE DEF N
    <2> QED BY <1>1
  <1>5. -(a * (2 * v)) <= a * (v * g) /\ a * (v * g) <= 0
    <2>1. v * g \in Int /\ -(2 * v) <= v * g /\ v * g <= 0
      <3> HIDE DEF g
      <3> QED BY <1>1
    <2> DEFINE w == v * g
    <2> HIDE DEF w
    <2>2. w \in Int /\ -(2 * v) <= w /\ w <= 0
      BY <2>1 DEF w
    <2>3. -(a * (2 * v)) <= a * w /\ a * w <= 0
      BY <2>2
    <2> QED BY <2>3 DEF w
  <1>6. -(u * (3 * a)) <= u * F /\ u * F <= u * (3 * a)
    <2>1. -(3 * a) <= F /\ F <= 3 * a
      OBVIOUS
    <2> HIDE DEF F
    <2> QED BY <1>1, <2>1
  <1>7. a * E <= a * (5 * N) /\ -(a * (5 * N)) <= a * E
    <2>1. a * (5 * N) = 2 * (a * N) + 3 * (a * u) + 3 * (a * v)
      OBVIOUS
    <2>2. a * (2 * v) = 2 * (a * v) /\ u * (3 * a) = 3 * (a * u)
      OBVIOUS
    <2>3. /\ a * E \in Int /\ m * D \in Int /\ a * (v * g) \in Int /\ u * F \in Int
          /\ m * N \in Int /\ a * N \in Int /\ a * u \in Nat /\ a * v \in Nat
      BY <1>1
    <2> HIDE DEF D, F, g, N, E
    <2> QED BY <1>2, <1>3, <1>4, <1>5, <1>6, <2>1, <2>2, <2>3
  <1>8. -(5 * N) <= E /\ E <= 5 * N
    <2> HIDE DEF N, E
    <2> QED BY <1>1, <1>7
  <1> QED BY <1>1, <1>8

(* A client's monitors.                                                     *)
PanelType(p) ==
  /\ p.monitors \in Seq(Nat \X Nat) /\ p.primary \in Nat
  /\ p.current = <<>> \/ p.current \in Nat \X Nat

LEMMA NativeType ==
  ASSUME NEW p, PanelType(p), NEW index \in Int
  PROVE  native_resolution(p.monitors, p.primary, p.current, index) \in Nat \X Nat
  <1>1. CASE p.monitors = <<>>
    BY <1>1 DEF PanelType, native_resolution, FALLBACK_RES
  <1>2. CASE p.monitors # <<>>
    <2>1. /\ Len(p.monitors) \in Nat /\ 1 \in DOMAIN p.monitors /\ DOMAIN p.monitors = 1 .. Len(p.monitors)
          /\ \A i \in DOMAIN p.monitors : p.monitors[i] \in Nat \X Nat
      BY <1>2 DEF PanelType
    <2>2. index \in 0 .. Len(p.monitors) - 1 => index + 1 \in DOMAIN p.monitors
      BY <2>1
    <2> QED BY <1>2, <2>1, <2>2 DEF native_resolution
  <1> QED BY <1>1, <1>2

(* A preset is one of the four.                                             *)
Near(n, percent, side) ==
  /\ side \in Nat /\ side >= 2 /\ side % 2 = 0
  /\ 100 * side - n * percent \in -200 .. 200

LEMMA Percent ==
  ASSUME NEW n \in Nat, NEW percent \in {100, 75, 67, 50}
  PROVE  Near(n, percent, Even((n * percent) \div 100))
  <1> DEFINE q == (n * percent) \div 100
  <1>1. q \in Nat /\ 100 * q <= n * percent /\ n * percent < 100 * q + 100 /\ n * percent \in Nat
    OBVIOUS
  <1> HIDE DEF q
  <1>2. /\ Even(q) \in Nat /\ Even(q) % 2 = 0 /\ Even(q) >= 2
        /\ q - 1 <= Even(q) /\ Even(q) <= q + 2
    BY <1>1, EvenFacts
  <1>3. 100 * Even(q) - n * percent \in -200 .. 200
    BY <1>1, <1>2
  <1> QED BY <1>2, <1>3 DEF Near, q

LEMMA PercentShape ==
  ASSUME NEW u \in Nat, NEW v \in Nat, NEW p \in {100, 75, 67, 50}, NEW a, NEW b,
         Near(u, p, a), Near(v, p, b)
  PROVE  v * a - u * b \in -2 * (u + v) .. 2 * (u + v)
  <1> DEFINE e == 100 * a - u * p
             f == 100 * b - v * p
  <1>0. a \in Nat /\ b \in Nat /\ e \in Int /\ -200 <= e /\ e <= 200 /\ f \in Int /\ -200 <= f /\ f <= 200
    BY DEF Near
  <1>1. 100 * (v * a - u * b) = v * e - u * f
    BY <1>0
  <1>2. -(200 * v) <= v * e /\ v * e <= 200 * v
    <2> HIDE DEF e
    <2> QED BY <1>0
  <1>3. -(200 * u) <= u * f /\ u * f <= 200 * u
    <2> HIDE DEF f
    <2> QED BY <1>0
  <1>4. v * a - u * b \in Int /\ v * e \in Int /\ u * f \in Int
    BY <1>0
  <1> DEFINE D == v * a - u * b
             ve == v * e
             uf == u * f
  <1>5. /\ D \in Int /\ ve \in Int /\ uf \in Int /\ 100 * D = ve - uf
        /\ -(200 * v) <= ve /\ ve <= 200 * v /\ -(200 * u) <= uf /\ uf <= 200 * u
    BY <1>1, <1>2, <1>3, <1>4
  <1> HIDE DEF D, ve, uf
  <1>6. D \in -2 * (u + v) .. 2 * (u + v)
    BY <1>5
  <1> QED BY <1>6 DEF D

(* What the cap to the decoder's largest picture makes of a size of the     *)
(* shape of u by v.                                                         *)
Reported(u, v, size) ==
  /\ size[1] % 2 = 0 /\ size[1] \in 2 .. 3840
  /\ size[2] % 2 = 0 /\ size[2] \in 2 .. 2160
  /\ v * size[1] - u * size[2] \in -5 * (u + v) .. 5 * (u + v)

LEMMA Cap ==
  ASSUME NEW u \in Nat, NEW v \in Nat, NEW a \in Nat, NEW b \in Nat,
         a >= 2, b >= 2, a % 2 = 0, b % 2 = 0,
         v * a - u * b \in -2 * (u + v) .. 2 * (u + v),
         NEW size \in cap_to_decodable(a, b)
  PROVE  Reported(u, v, size)
  <1>1. CASE a <= 3840 /\ b <= 2160
    <2>1. size = <<a, b>>
      BY <1>1 DEF cap_to_decodable, MAX_DECODE_DIM
    <2>2. v * a - u * b \in -5 * (u + v) .. 5 * (u + v)
      <3> DEFINE D == v * a - u * b
      <3>1. D \in -2 * (u + v) .. 2 * (u + v)
        OBVIOUS
      <3> HIDE DEF D
      <3>2. D \in -5 * (u + v) .. 5 * (u + v)
        BY <3>1
      <3> QED BY <3>2 DEF D
    <2> QED BY <1>1, <2>1, <2>2 DEF Reported
  <1>2. CASE ~(a <= 3840 /\ b <= 2160) /\ 3840 * b <= 2160 * a
    <2>1. a > 3840 /\ b * 3840 <= 2160 * a
      BY <1>2
    <2>2. size \in Scaled(a, 3840, a) \X Scaled(b, 3840, a)
      BY <1>2 DEF cap_to_decodable, MAX_DECODE_DIM
    <2> DEFINE x == size[1] y == size[2]
    <2>3. x \in Scaled(a, 3840, a) /\ y \in Scaled(b, 3840, a)
      BY <2>2
    <2> HIDE DEF x, y
    <2>4. x \in 3840 - 2 .. 3840 /\ x % 2 = 0
      <3>1. a > 0 /\ 3840 \in Nat /\ 3840 % 2 = 0 /\ 3840 >= 4
        BY <2>1
      <3>2. x \in 3840 - 2 .. 3840
        BY <2>3, <3>1, ScaledSelf
      <3>3. x % 2 = 0
        BY <2>3, <3>1, ScaledFacts
      <3> QED BY <3>2, <3>3
    <2>5. y \in Nat /\ y % 2 = 0 /\ y >= 2 /\ a * y - b * 3840 \in -3 * a .. 2 * a /\ y <= 2160
      BY <2>1, <2>3, ScaledFacts
    <2>6. v * x - u * y \in -5 * (u + v) .. 5 * (u + v)
      BY <2>1, <2>4, <2>5, Shape
    <2>7. x \in 2 .. 3840 /\ y \in 2 .. 2160
      BY <2>4, <2>5
    <2> QED BY <2>4, <2>5, <2>6, <2>7, SMTT(30) DEF Reported, x, y
  <1>3. CASE ~(a <= 3840 /\ b <= 2160) /\ ~(3840 * b <= 2160 * a)
    <2>1. b > 2160 /\ a * 2160 <= 3840 * b
      BY <1>3
    <2>2. size \in Scaled(a, 2160, b) \X Scaled(b, 2160, b)
      BY <1>3 DEF cap_to_decodable, MAX_DECODE_DIM
    <2> DEFINE x == size[1] y == size[2]
    <2>3. x \in Scaled(a, 2160, b) /\ y \in Scaled(b, 2160, b)
      BY <2>2
    <2> HIDE DEF x, y
    <2>4. y \in 2160 - 2 .. 2160 /\ y % 2 = 0
      <3>1. b > 0 /\ 2160 \in Nat /\ 2160 % 2 = 0 /\ 2160 >= 4
        BY <2>1
      <3>2. y \in 2160 - 2 .. 2160
        BY <2>3, <3>1, ScaledSelf
      <3>3. y % 2 = 0
        BY <2>3, <3>1, ScaledFacts
      <3> QED BY <3>2, <3>3
    <2>5. x \in Nat /\ x % 2 = 0 /\ x >= 2 /\ b * x - a * 2160 \in -3 * b .. 2 * b /\ x <= 3840
      BY <2>1, <2>3, ScaledFacts, SMTT(30)
    <2>6. u * b - v * a \in -2 * (v + u) .. 2 * (v + u)
      <3> DEFINE va == v * a ub == u * b
      <3>1. va \in Int /\ ub \in Int /\ va - ub \in -2 * (u + v) .. 2 * (u + v)
        OBVIOUS
      <3> HIDE DEF va, ub
      <3>2. ub - va \in -2 * (v + u) .. 2 * (v + u)
        BY <3>1
      <3> QED BY <3>2 DEF va, ub
    <2>7. u * y - v * x \in -5 * (v + u) .. 5 * (v + u)
      BY <2>1, <2>4, <2>5, <2>6, Shape
    <2>8. v * x - u * y \in -5 * (u + v) .. 5 * (u + v)
      <3> DEFINE vx == v * x uy == u * y
      <3>1. vx \in Int /\ uy \in Int /\ uy - vx \in -5 * (v + u) .. 5 * (v + u)
        BY <2>4, <2>5, <2>7
      <3> HIDE DEF vx, uy
      <3>2. vx - uy \in -5 * (u + v) .. 5 * (u + v)
        BY <3>1
      <3> QED BY <3>2 DEF vx, uy
    <2>9. x \in 2 .. 3840 /\ y \in 2 .. 2160
      BY <2>4, <2>5
    <2> QED BY <2>4, <2>5, <2>8, <2>9, SMTT(30) DEF Reported, x, y
  <1> QED BY <1>1, <1>2, <1>3

LEMMA Resolved ==
  ASSUME NEW p, PanelType(p), NEW index \in Int, NEW res \in Int,
         NEW size \in resolve_resolution(p.monitors, p.primary, p.current, index, res)
  PROVE  LET native == native_resolution(p.monitors, p.primary, p.current, index)
         IN Reported(native[1], native[2], size)
  <1> DEFINE native == native_resolution(p.monitors, p.primary, p.current, index)
             percent == SCALE_PRESETS[(IF res \in 0 .. Len(SCALE_PRESETS) - 1 THEN res ELSE 0) + 1]
             u == native[1]
             v == native[2]
             a == Even((u * percent) \div 100)
             b == Even((v * percent) \div 100)
  <1>1. u \in Nat /\ v \in Nat
    BY NativeType
  <1>2. percent \in {100, 75, 67, 50}
    BY DEF SCALE_PRESETS
  <1>3. size \in cap_to_decodable(a, b)
    BY DEF resolve_resolution, scaled_even
  <1> HIDE DEF native, percent
  <1> HIDE DEF u, v
  <1>4. Near(u, percent, a) /\ Near(v, percent, b)
    BY <1>1, <1>2, Percent
  <1> HIDE DEF a, b
  <1>5. v * a - u * b \in -2 * (u + v) .. 2 * (u + v)
    BY <1>1, <1>2, <1>4, PercentShape
  <1>6. Reported(u, v, size)
    BY <1>1, <1>3, <1>4, <1>5, Cap DEF Near
  <1> QED BY <1>6 DEF u, v, native

(* Division is the one way to write a number as a multiple and a rest.      *)
LEMMA Division ==
  ASSUME NEW a \in Nat, NEW d \in Nat, d > 0
  PROVE  /\ a \div d \in Nat /\ a % d \in 0 .. d - 1 /\ a = d * (a \div d) + (a % d)
         /\ \A q \in Nat, r \in 0 .. d - 1 : a = d * q + r => a \div d = q /\ a % d = r
  <1>1. a \div d \in Nat /\ a % d \in 0 .. d - 1 /\ a = d * (a \div d) + (a % d)
    <2>1. a \div d \in Nat
      BY Quotient
    <2>2. a % d \in 0 .. d - 1
      OBVIOUS
    <2>3. a % d = a - d * (a \div d)
      OBVIOUS
    <2>4. d * (a \div d) \in Nat
      BY <2>1
    <2> QED BY <2>1, <2>2, <2>3, <2>4
  <1> DEFINE p == a \div d s == a % d
  <1> SUFFICES ASSUME NEW q \in Nat, NEW r \in 0 .. d - 1, a = d * q + r PROVE p = q /\ s = r
    BY <1>1
  <1>2. p \in Nat /\ s \in 0 .. d - 1 /\ a = d * p + s
    BY <1>1
  <1> HIDE DEF p, s
  <1>3. ~ p < q
    <2>1. SUFFICES ASSUME p < q PROVE FALSE
      OBVIOUS
    <2>2. d * (p + 1) <= d * q
      BY <1>2, <2>1
    <2> QED BY <1>2, <2>2
  <1>4. ~ q < p
    <2>1. SUFFICES ASSUME q < p PROVE FALSE
      OBVIOUS
    <2>2. d * (q + 1) <= d * p
      BY <1>2, <2>1
    <2> QED BY <1>2, <2>2
  <1> QED BY <1>2, <1>3, <1>4

(* The p-th of the pixels of a picture w wide and h high.                   *)
LEMMA Place ==
  ASSUME NEW w \in Nat, NEW h \in Nat, w > 0, NEW p \in 1 .. h * w
  PROVE  /\ (p - 1) \div w \in 0 .. h - 1 /\ (p - 1) % w \in 0 .. w - 1
         /\ p - 1 = w * ((p - 1) \div w) + ((p - 1) % w)
  <1> DEFINE q == (p - 1) \div w r == (p - 1) % w
  <1>1. p - 1 \in Nat /\ h * w \in Nat /\ p - 1 < h * w
    OBVIOUS
  <1>2. q \in Nat /\ r \in 0 .. w - 1 /\ p - 1 = w * q + r
    BY <1>1, Division
  <1> HIDE DEF q, r
  <1>3. ~ h <= q
    <2>1. SUFFICES ASSUME h <= q PROVE FALSE
      OBVIOUS
    <2>2. w * h <= w * q
      BY <1>2, <2>1
    <2> QED BY <1>1, <1>2, <2>2
  <1>4. q \in 0 .. h - 1
    BY <1>2, <1>3
  <1>5. q \in 0 .. h - 1 /\ r \in 0 .. w - 1 /\ p - 1 = w * q + r
    BY <1>2, <1>4
  <1> QED BY <1>5 DEF q, r

(* A pixel of the first w columns of a picture sw wide.                     *)
LEMMA Packed ==
  ASSUME NEW sw \in Nat, NEW sh \in Nat, NEW w \in Nat, NEW h \in Nat, w > 0, w <= sw, h <= sh,
         NEW p \in 1 .. h * w
  PROVE  LET j == ((p - 1) \div w) * sw + ((p - 1) % w) + 1
         IN /\ j \in 1 .. sw * sh
            /\ (j - 1) \div sw = (p - 1) \div w /\ (j - 1) % sw = (p - 1) % w
  <1> DEFINE q == (p - 1) \div w r == (p - 1) % w j == q * sw + r + 1
  <1>1. q \in 0 .. h - 1 /\ r \in 0 .. w - 1
    BY Place
  <1> HIDE DEF q, r
  <1>2. j - 1 \in Nat /\ j - 1 = sw * q + r /\ r \in 0 .. sw - 1 /\ q \in Nat /\ sw > 0
    BY <1>1
  <1>3. (j - 1) \div sw = q /\ (j - 1) % sw = r
    BY <1>2, Division
  <1>4. sw * (q + 1) <= sw * sh
    BY <1>1, <1>2
  <1>5. j <= sw * (q + 1)
    BY <1>2
  <1>6. j \in 1 .. sw * sh
    <2>1. j \in Int /\ sw * (q + 1) \in Int /\ sw * sh \in Int /\ j >= 1
      BY <1>2
    <2> QED BY <1>4, <1>5, <2>1
  <1> QED BY <1>3, <1>6 DEF q, r

LEMMA Length ==
  ASSUME NEW n \in Nat, NEW f(_)
  PROVE  Len([i \in 1 .. n |-> f(i)]) = n
  OBVIOUS

PackedRows(src, sw, w, h) ==
  [p \in 1 .. h * w |-> src[((p - 1) \div w) * sw + ((p - 1) % w) + 1]]

(* All the rows are there when the picture is whole.                        *)
LEMMA PackRows ==
  ASSUME NEW src, NEW sw \in Nat, NEW sh \in Nat, NEW w \in Nat, NEW h \in Nat, w <= sw, h <= sh,
         Len(src) = sw * sh
  PROVE  pack_rows(src, sw, w, h) = PackedRows(src, sw, w, h)
  <1> DEFINE rows == {n \in 0 .. h : \A y \in 0 .. n - 1 : y * sw + w <= Len(src)}
  <1>1. ASSUME NEW y \in 0 .. h - 1 PROVE y * sw + w <= Len(src)
    <2>1. sw * (y + 1) <= sw * sh
      BY <1>1
    <2>2. y * sw + w <= sw * (y + 1)
      BY <1>1
    <2>3. y * sw + w \in Int /\ sw * (y + 1) \in Int /\ sw * sh \in Int
      BY <1>1
    <2> QED BY <2>1, <2>2, <2>3
  <1>2. h \in rows /\ \A n \in rows : n \in Int /\ n <= h
    BY <1>1
  <1> HIDE DEF rows
  <1>3. (CHOOSE n \in rows : \A m \in rows : m <= n) = h
    <2> DEFINE t == CHOOSE n \in rows : \A m \in rows : m <= n
    <2>1. t \in rows /\ \A m \in rows : m <= t
      BY <1>2
    <2> HIDE DEF t
    <2>2. t = h
      BY <1>2, <2>1
    <2> QED BY <2>2 DEF t
  <1> QED BY <1>3 DEF pack_rows, PackedRows, rows

(* A picture of sw by sh pixels, cut to even sides and fitted to a size the *)
(* encoder was told.                                                        *)
Pixels(sw, sh) == [p \in 1 .. sw * sh |-> <<(p - 1) \div sw, (p - 1) % sw>>]

LEMMA EncodeDims ==
  ASSUME NEW w \in Nat, NEW h \in Nat, w > 0, NEW max \in Nat, NEW out \in encode_dims(w, h, max)
  PROVE  out = <<w, h>> \/ (out \in Nat \X Nat)
  <1> DEFINE long == IF w > h THEN w ELSE h
  <1>1. CASE long <= max
    BY <1>1 DEF encode_dims
  <1>2. CASE ~(long <= max)
    <2>1. out \in Scaled(w, max, long) \X Scaled(h, max, long)
      BY <1>2 DEF encode_dims
    <2>2. long \in Nat /\ long > 0
      OBVIOUS
    <2> HIDE DEF long
    <2>3. Scaled(w, max, long) \subseteq Nat /\ Scaled(h, max, long) \subseteq Nat
      BY <2>2, ScaledFacts
    <2> QED BY <2>1, <2>3
  <1> QED BY <1>1, <1>2

LEMMA Fitted ==
  ASSUME NEW sw \in Nat, NEW sh \in Nat, sw >= 2, sh >= 2, NEW max \in Nat,
         NEW out \in encode_dims(Even(sw), Even(sh), max)
  PROVE  LET crop == <<Even(sw), Even(sh)>>
             frame == fit(Pixels(sw, sh), sw, crop, out)
         IN /\ Len(frame) = out[1] * out[2]
            /\ out = crop => \A p \in DOMAIN frame :
                 frame[p] = <<(p - 1) \div out[1], (p - 1) % out[1]>>
  <1> DEFINE w == Even(sw)
             h == Even(sh)
             bgra == Pixels(sw, sh)
             packed == pack_rows(bgra, sw, w, h)
             crop == <<w, h>>
             frame == fit(bgra, sw, crop, out)
  <1>1. w \in Nat /\ w > 0 /\ w <= sw /\ h \in Nat /\ h > 0 /\ h <= sh
    <2>1. ASSUME NEW n \in Nat, n >= 2 PROVE Even(n) \in Nat /\ Even(n) > 0 /\ Even(n) <= n
      BY <2>1 DEF Even
    <2> QED BY <2>1
  <1>2. sw * sh \in Nat /\ h * w \in Nat /\ w * h = h * w
    BY <1>1
  <1>3. Len(bgra) = sw * sh
    BY <1>2, Length DEF Pixels
  <1>4. out = <<w, h>> \/ out \in Nat \X Nat
    BY <1>1, EncodeDims
  <1>5. frame = IF out = crop THEN packed ELSE downscale(packed, w, h, out[1], out[2])
    BY DEF fit
  <1> HIDE DEF w, h, bgra
  <1>6. packed = PackedRows(bgra, sw, w, h)
    BY <1>1, <1>3, PackRows
  <1> HIDE DEF packed, frame
  <1>7. Len(packed) = h * w
    BY <1>2, <1>6, Length DEF PackedRows
  <1>8. CASE out = crop
    <2>1. Len(frame) = out[1] * out[2]
      BY <1>2, <1>5, <1>7, <1>8
    <2>2. ASSUME NEW p \in 1 .. h * w PROVE packed[p] = <<(p - 1) \div w, (p - 1) % w>>
      <3> DEFINE j == ((p - 1) \div w) * sw + ((p - 1) % w) + 1
      <3>1. packed[p] = bgra[j]
        BY <1>6 DEF PackedRows
      <3>2. /\ j \in 1 .. sw * sh
            /\ (j - 1) \div sw = (p - 1) \div w /\ (j - 1) % sw = (p - 1) % w
        BY <1>1, Packed
      <3> HIDE DEF j
      <3>3. bgra[j] = <<(j - 1) \div sw, (j - 1) % sw>>
        BY <3>2 DEF bgra, Pixels
      <3> QED BY <3>1, <3>2, <3>3
    <2>3. DOMAIN packed = 1 .. h * w
      BY <1>6 DEF PackedRows
    <2> QED BY <1>5, <1>8, <2>1, <2>2, <2>3 DEF frame, w, h, bgra
  <1>9. CASE out # crop
    <2>1. out[1] * out[2] \in Nat
      BY <1>4, <1>9
    <2>2. frame = [p \in 1 .. out[1] * out[2] |-> packed[1]]
      BY <1>2, <1>5, <1>7, <1>9 DEF downscale
    <2>3. Len(frame) = out[1] * out[2]
      BY <2>1, <2>2, Length
    <2> QED BY <1>9, <2>3 DEF frame, w, h, bgra
  <1> QED BY <1>8, <1>9

LEMMA SizesAre == ASSUME PanelType(panel) PROVE SizesTrue
  <1>1. ASSUME NEW index \in -1 .. 2, NEW res \in -1 .. 4,
               NEW size \in resolve_resolution(panel.monitors, panel.primary, panel.current, index, res)
        PROVE  LET native == native_resolution(panel.monitors, panel.primary, panel.current, index)
               IN /\ \A d \in {1, 2} : size[d] % 2 = 0 /\ size[d] \in 2 .. MAX_DECODE_DIM[d]
                  /\ native[2] * size[1] - native[1] * size[2]
                       \in -5 * (native[1] + native[2]) .. 5 * (native[1] + native[2])
    <2> DEFINE native == native_resolution(panel.monitors, panel.primary, panel.current, index)
    <2>1. index \in Int /\ res \in Int
      OBVIOUS
    <2>2. Reported(native[1], native[2], size)
      BY <2>1, Resolved
    <2> HIDE DEF native
    <2>3. \A d \in {1, 2} : size[d] % 2 = 0 /\ size[d] \in 2 .. MAX_DECODE_DIM[d]
      <3>1. MAX_DECODE_DIM[1] = 3840 /\ MAX_DECODE_DIM[2] = 2160
        BY DEF MAX_DECODE_DIM
      <3>2. size[1] % 2 = 0 /\ size[1] \in 2 .. 3840 /\ size[2] % 2 = 0 /\ size[2] \in 2 .. 2160
        BY <2>2, SMTT(30) DEF Reported
      <3>3. ASSUME NEW d \in {1, 2} PROVE size[d] % 2 = 0 /\ size[d] \in 2 .. MAX_DECODE_DIM[d]
        <4>1. CASE d = 1
          <5>1. size[d] = size[1] /\ MAX_DECODE_DIM[d] = MAX_DECODE_DIM[1]
            BY <4>1, Zenon
          <5> QED BY <3>1, <3>2, <5>1, SMTT(30)
        <4>2. CASE d = 2
          <5>1. size[d] = size[2] /\ MAX_DECODE_DIM[d] = MAX_DECODE_DIM[2]
            BY <4>2, Zenon
          <5> QED BY <3>1, <3>2, <5>1, SMTT(30)
        <4> QED BY <4>1, <4>2
      <3> QED BY <3>3
    <2>4. native[2] * size[1] - native[1] * size[2]
            \in -5 * (native[1] + native[2]) .. 5 * (native[1] + native[2])
      BY <2>2 DEF Reported
    <2> QED BY <2>3, <2>4 DEF native
  <1>2. ASSUME NEW src \in {<<4, 3>>, <<5, 4>>, <<7, 2>>}, NEW max \in {2, 4, 8}
        PROVE  LET crop == <<Even(src[1]), Even(src[2])>>
                   bgra == [p \in 1 .. src[1] * src[2] |-> <<(p - 1) \div src[1], (p - 1) % src[1]>>]
               IN \A out \in encode_dims(crop[1], crop[2], max) :
                    LET frame == fit(bgra, src[1], crop, out)
                    IN /\ Len(frame) = out[1] * out[2]
                       /\ out = crop => \A p \in DOMAIN frame :
                            frame[p] = <<(p - 1) \div out[1], (p - 1) % out[1]>>
    <2> DEFINE sw == src[1] sh == src[2]
    <2>1. sw \in Nat /\ sh \in Nat /\ sw >= 2 /\ sh >= 2 /\ max \in Nat
      OBVIOUS
    <2> HIDE DEF sw, sh
    <2> QED BY <2>1, Fitted, ZenonT(30) DEF Pixels, sw, sh
  <1> QED BY <1>1, <1>2 DEF SizesTrue

(* A client's monitors do not change.                                       *)
LEMMA PanelIsTyped == ASSUME NEW p \in Panels PROVE PanelType(p)
  BY PanelsAssumption DEF PanelsAssumption, PanelType

(* The fields of the record on the Android handle.                          *)
Fields(r) ==
  \E kind, width, height, codec, keyframe, pts_value, data :
    r = [kind |-> kind, width |-> width, height |-> height, codec |-> codec, keyframe |-> keyframe,
         pts_value |-> pts_value, data |-> data]

(* What the Android record and the iOS one have in common after an event.   *)
Same(n, f, e) ==
  /\ Fields(n) /\ n.kind = e.kind /\ f.kind = e.kind /\ n.data = f.data
  /\ e.kind = 0 => n.width = f.width /\ n.height = f.height /\ n.codec = f.codec
  /\ e.kind = 1 => n.keyframe = f.keyframe /\ n.pts_value = f.pts_value
  /\ e.kind = 2 => n.codec = e.slot /\ f.slot = e.slot /\ f.data = e.data

LEMMA Records ==
  ASSUME NEW r, Fields(r), NEW e, e.kind \in 0 .. 4
  PROVE  Same(nativeNextEvent(r, e), ffi_event(e), e)
  <1> DEFINE n == nativeNextEvent(r, e)
             f == ffi_event(e)
             base == [kind |-> e.kind, width |-> 0, height |-> 0, codec |-> 0, slot |-> 0,
                      keyframe |-> FALSE, pts_value |-> 0, data |-> <<>>]
  <1>0. CASE e.kind = 0
    <2>1. n = [r EXCEPT !.kind = 0, !.width = e.width, !.height = e.height,
                  !.codec = codec_tag(e.codec), !.keyframe = FALSE, !.pts_value = 0,
                  !.data = annex_b_parameter_sets(e.parameter_sets)]
      BY <1>0 DEF nativeNextEvent
    <2>2. f = [base EXCEPT !.width = e.width, !.height = e.height, !.codec = codec_tag(e.codec),
                     !.data = annex_b_parameter_sets(e.parameter_sets)]
      BY <1>0 DEF ffi_event
    <2> HIDE DEF n, f
    <2>3. Same(n, f, e)
      <3> PICK kind, width, height, codec, keyframe, pts_value, data :
             r = [kind |-> kind, width |-> width, height |-> height, codec |-> codec,
                  keyframe |-> keyframe, pts_value |-> pts_value, data |-> data]
        BY DEF Fields
      <3>1. n = [kind |-> 0, width |-> e.width, height |-> e.height,
                 codec |-> codec_tag(e.codec), keyframe |-> FALSE, pts_value |-> 0,
                 data |-> annex_b_parameter_sets(e.parameter_sets)]
        BY <2>1
      <3>2. Fields(n)
        BY <3>1 DEF Fields
      <3> QED BY <1>0, <2>2, <3>1, <3>2 DEF Same
    <2> QED BY <2>3 DEF n, f
  <1>1. CASE e.kind = 1
    <2>1. n = [r EXCEPT !.kind = 1, !.keyframe = e.keyframe, !.pts_value = e.pts_value,
                  !.data = append_annex_b(<<>>, e.data)]
      BY <1>1 DEF nativeNextEvent
    <2>2. f = [base EXCEPT !.keyframe = e.keyframe, !.pts_value = e.pts_value,
                     !.data = append_annex_b(<<>>, e.data)]
      BY <1>1 DEF ffi_event
    <2> HIDE DEF n, f
    <2>3. Same(n, f, e)
      <3> PICK kind, width, height, codec, keyframe, pts_value, data :
             r = [kind |-> kind, width |-> width, height |-> height, codec |-> codec,
                  keyframe |-> keyframe, pts_value |-> pts_value, data |-> data]
        BY DEF Fields
      <3>1. n = [kind |-> 1, width |-> width, height |-> height, codec |-> codec,
                 keyframe |-> e.keyframe, pts_value |-> e.pts_value,
                 data |-> append_annex_b(<<>>, e.data)]
        BY <2>1
      <3>2. Fields(n)
        BY <3>1 DEF Fields
      <3> QED BY <1>1, <2>2, <3>1, <3>2 DEF Same
    <2> QED BY <2>3 DEF n, f
  <1>2. CASE e.kind = 2
    <2>1. n = [r EXCEPT !.kind = 2, !.width = e.width, !.height = e.height, !.codec = e.slot,
                  !.keyframe = FALSE, !.pts_value = 0, !.data = e.data]
      BY <1>2 DEF nativeNextEvent
    <2>2. f = [base EXCEPT !.width = e.width, !.height = e.height, !.slot = e.slot, !.data = e.data]
      BY <1>2 DEF ffi_event
    <2> HIDE DEF n, f
    <2>3. Same(n, f, e)
      <3> PICK kind, width, height, codec, keyframe, pts_value, data :
             r = [kind |-> kind, width |-> width, height |-> height, codec |-> codec,
                  keyframe |-> keyframe, pts_value |-> pts_value, data |-> data]
        BY DEF Fields
      <3>1. n = [kind |-> 2, width |-> e.width, height |-> e.height, codec |-> e.slot,
                 keyframe |-> FALSE, pts_value |-> 0, data |-> e.data]
        BY <2>1
      <3>2. Fields(n)
        BY <3>1 DEF Fields
      <3> QED BY <1>2, <2>2, <3>1, <3>2 DEF Same
    <2> QED BY <2>3 DEF n, f
  <1>3. CASE e.kind = 3
    <2> DEFINE text == e.os \o <<Newline>> \o e.name
    <2>1. n = [r EXCEPT !.kind = 3, !.data = text]
      BY <1>3 DEF nativeNextEvent
    <2>2. f = [base EXCEPT !.data = text]
      BY <1>3 DEF ffi_event
    <2> HIDE DEF n, f, text
    <2>3. Same(n, f, e)
      <3> PICK kind, width, height, codec, keyframe, pts_value, data :
             r = [kind |-> kind, width |-> width, height |-> height, codec |-> codec,
                  keyframe |-> keyframe, pts_value |-> pts_value, data |-> data]
        BY DEF Fields
      <3>1. n = [kind |-> 3, width |-> width, height |-> height, codec |-> codec,
                 keyframe |-> keyframe, pts_value |-> pts_value,
                 data |-> text]
        BY <2>1
      <3>2. Fields(n)
        BY <3>1 DEF Fields
      <3> QED BY <1>3, <2>2, <3>1, <3>2 DEF Same
    <2> QED BY <2>3 DEF n, f
  <1>4. CASE e.kind = 4
    <2>1. n = [r EXCEPT !.kind = 4, !.data = window_lines(e.windows)]
      BY <1>4 DEF nativeNextEvent
    <2>2. f = [base EXCEPT !.data = window_lines(e.windows)]
      BY <1>4 DEF ffi_event
    <2> HIDE DEF n, f
    <2>3. Same(n, f, e)
      <3> PICK kind, width, height, codec, keyframe, pts_value, data :
             r = [kind |-> kind, width |-> width, height |-> height, codec |-> codec,
                  keyframe |-> keyframe, pts_value |-> pts_value, data |-> data]
        BY DEF Fields
      <3>1. n = [kind |-> 4, width |-> width, height |-> height, codec |-> codec,
                 keyframe |-> keyframe, pts_value |-> pts_value,
                 data |-> window_lines(e.windows)]
        BY <2>1
      <3>2. Fields(n)
        BY <3>1 DEF Fields
      <3> QED BY <1>4, <2>2, <3>1, <3>2 DEF Same
    <2> QED BY <2>3 DEF n, f
  <1> QED BY <1>0, <1>1, <1>2, <1>3, <1>4

LEMMA Reads ==
  ASSUME NEW n, NEW f, NEW k \in 0 .. 4, n.kind = k, f.kind = k, n.data = f.data,
         k = 0 => n.width = f.width /\ n.height = f.height /\ n.codec = f.codec,
         k = 1 => n.keyframe = f.keyframe /\ n.pts_value = f.pts_value,
         k = 2 => n.codec = f.slot
  PROVE  /\ android_reads(n) = ios_reads(f)
         /\ k = 2 => ios_reads(f).slot = f.slot /\ ios_reads(f).data = f.data
  <1>0. CASE k = 0
    BY <1>0 DEF android_reads, ios_reads
  <1>1. CASE k = 1
    BY <1>1 DEF android_reads, ios_reads
  <1>2. CASE k = 2
    BY <1>2 DEF android_reads, ios_reads
  <1>3. CASE k = 3
    BY <1>3 DEF android_reads, ios_reads
  <1>4. CASE k = 4
    BY <1>4 DEF android_reads, ios_reads
  <1> QED BY <1>0, <1>1, <1>2, <1>3, <1>4

LEMMA Delivers ==
  ASSUME Fields(record), NEW e, e.kind \in 0 .. 4, Delivered(e)
  PROVE  /\ Fields(record') /\ android' = ios' /\ panel' = panel
         /\ e.kind = 2 => ios'.slot = e.slot /\ ios'.data = e.data
  <1> DEFINE n == nativeNextEvent(record, e)
             f == ffi_event(e)
  <1>1. record' = n /\ android' = android_reads(n) /\ ios' = ios_reads(f) /\ panel' = panel
    BY DEF Delivered
  <1>2. Same(n, f, e)
    BY Records
  <1> HIDE DEF n, f
  <1>3. /\ android_reads(n) = ios_reads(f)
        /\ e.kind = 2 => ios_reads(f).slot = f.slot /\ ios_reads(f).data = f.data
    BY <1>2, Reads DEF Same
  <1> QED BY <1>1, <1>2, <1>3 DEF Same

MediaInv == Fields(record) /\ BindingsAgree /\ PanelType(panel)

LEMMA MediaStarts == MediaInit => MediaInv
  <1>1. Fields(Fresh)
    BY DEF Fields, Fresh
  <1>2. NoEvent.kind = -1
    BY DEF NoEvent
  <1> QED BY <1>1, <1>2, PanelIsTyped DEF MediaInit, MediaInv, BindingsAgree

LEMMA MediaKeeps == ASSUME MediaInv, [MediaNext]_media PROVE MediaInv'
  <1>0. Fields(record) /\ BindingsAgree /\ PanelType(panel)
    BY DEF MediaInv
  <1>1. ASSUME NEW e, e.kind \in 0 .. 4, Delivered(e),
               said'.kind = 2 => said'.slot = e.slot /\ said'.data = e.data /\ e.kind = 2
        PROVE  MediaInv'
    BY <1>0, <1>1, Delivers DEF MediaInv, BindingsAgree
  <1>2. CASE Greets
    <2>1. PICK name \in {<<110>>, <<110, Newline, 109>>} :
            LET e == [kind |-> 3, os |-> <<111>>, name |-> name] IN said' = e /\ Delivered(e)
      BY <1>2 DEF Greets
    <2> DEFINE e == [kind |-> 3, os |-> <<111>>, name |-> name]
    <2>2. said' = e /\ Delivered(e) /\ e.kind = 3
      BY <2>1
    <2> HIDE DEF e
    <2> QED BY <1>1, <2>2
  <1>3. CASE StreamStarts
    <2>1. PICK unit \in Units, long \in [1 .. 4 -> BOOLEAN] :
            LET split == split_annex_b(Encoded(unit, long))
                e == [kind |-> 0, width |-> 2, height |-> 2, codec |-> "H264",
                      parameter_sets |-> split.parameter_sets]
            IN /\ said' = [kind |-> 0, width |-> 2, height |-> 2, unit |-> unit, split |-> split]
               /\ Delivered(e)
      BY <1>3 DEF StreamStarts
    <2> DEFINE split == split_annex_b(Encoded(unit, long))
               e == [kind |-> 0, width |-> 2, height |-> 2, codec |-> "H264",
                     parameter_sets |-> split.parameter_sets]
    <2>2. said'.kind = 0 /\ Delivered(e) /\ e.kind = 0
      BY <2>1
    <2> HIDE DEF e
    <2> QED BY <1>1, <2>2
  <1>4. ASSUME NEW unit, NEW split, SendsFrame(unit, split) PROVE MediaInv'
    <2> DEFINE e == [kind |-> 1, pts_value |-> pts, keyframe |-> split.keyframe,
                     data |-> split.frame_data]
    <2>1. said'.kind = 1 /\ Delivered(e) /\ e.kind = 1
      BY <1>4 DEF SendsFrame
    <2> HIDE DEF e
    <2> QED BY <1>1, <2>1
  <1>5. CASE FirstFrame \/ NextFrame
    BY <1>4, <1>5 DEF FirstFrame, NextFrame
  <1>6. CASE SendsSnapshot
    <2>1. PICK at \in {-1, 0, 1}, data \in {<<>>, <<255, 216>>} :
            LET e == [kind |-> 2, width |-> 3, height |-> 2, slot |-> at, data |-> data]
            IN said' = e /\ Delivered(e)
      BY <1>6 DEF SendsSnapshot
    <2> DEFINE e == [kind |-> 2, width |-> 3, height |-> 2, slot |-> at, data |-> data]
    <2>2. said' = e /\ Delivered(e) /\ e.kind = 2
      BY <2>1
    <2> HIDE DEF e
    <2> QED BY <1>1, <2>2
  <1>7. CASE SendsWindows
    <2>1. PICK windows \in Windows, os \in {"windows", "linux"} :
            /\ said' = [kind |-> 4, windows |-> SelectSeq(windows, LAMBDA w : is_pickable(os, w))]
            /\ Delivered([kind |-> 4, windows |-> list_windows(os, windows)])
      BY <1>7 DEF SendsWindows
    <2> DEFINE e == [kind |-> 4, windows |-> list_windows(os, windows)]
    <2>2. said'.kind = 4 /\ Delivered(e) /\ e.kind = 4
      BY <2>1
    <2> HIDE DEF e
    <2> QED BY <1>1, <2>2
  <1>8. CASE UNCHANGED media
    BY <1>0, <1>8 DEF media, MediaInv, BindingsAgree
  <1> QED BY <1>2, <1>3, <1>5, <1>6, <1>7, <1>8 DEF MediaNext

(* The two bindings tell their apps the same, whatever the encoder gives and *)
(* whatever event the Android record held before; a picture has its slot.    *)
THEOREM BindingsStayAgreed == MediaSpec => []BindingsAgree
  <1>1. MediaInv => BindingsAgree
    BY DEF MediaInv
  <1>2. MediaInv /\ [MediaNext]_media => MediaInv'
    BY MediaKeeps
  <1> QED BY MediaStarts, <1>1, <1>2, PTL DEF MediaSpec

(* The size a client reports suits the host, its decoder and the shape of    *)
(* its panel, for monitors of any sizes; a frame has the size that was told. *)
THEOREM SizesStayTrue == MediaSpec => []SizesTrue
  <1>1. MediaInv => SizesTrue
    BY SizesAre DEF MediaInv
  <1>2. MediaInv /\ [MediaNext]_media => MediaInv'
    BY MediaKeeps
  <1> QED BY MediaStarts, <1>1, <1>2, PTL DEF MediaSpec
=================================================================================

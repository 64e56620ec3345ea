------------------------------- MODULE X11Capture -------------------------------
(***************************************************************************)
(* The Linux host's capture (host-linux/src/capture.rs) and the frames its *)
(* stream takes from it (host-linux/src/stream.rs).  The process has one   *)
(* Capturer, behind a lock.  A grab asks the X server for the size of the  *)
(* root window, clips the area to it, and has the server write that part   *)
(* into a shared segment, or send it.  The desktop may be resized between  *)
(* any two of these.                                                       *)
(***************************************************************************)
EXTENDS H264

CONSTANTS
  Roots,    \* sizes the root window may have
  Areas,    \* second screens: records [x, y, width, height]
  Layouts,  \* what a server may declare of its pixels (PixelLayout)
  Segment,  \* a segment's size is a multiple of this many bytes
  MAX_CONSECUTIVE_GRAB_FAILURES

VARIABLES
  layout, root,
  paint,    \* what is on the desktop: one of two paintings
  area,     \* what the stream captures: a region, or WholeRoot
  shm,      \* the bytes of the attached segment, or NoSegment
  grab,     \* the grab that holds the lock, or Unlocked
  streamer, \* the stream's thread: "opens", "runs" or "ended"
  src_size, \* the even size the stream was opened with
  misses,   \* grabs that failed one after the other
  got,      \* the picture the step before gave, and what was there to grab
  given     \* the frame made of it for the encoder

grabbing == <<layout, root, paint, area, shm, grab, streamer, src_size, misses, got, given>>

WholeRoot == [x |-> 0, y |-> 0, width |-> -1, height |-> -1]
NoSegment == <<>>
Unlocked == [who |-> "nobody"]
NoPicture == [size |-> <<0, 0>>]

AtMost(a, b) == IF a <= b THEN a ELSE b
Ceil(n, d) == (n + d - 1) \div d

-----------------------------------------------------------------------------
(* Pixels.  A channel's mask is its lowest bit and its number of bits.     *)

\* The part of a region inside a w by h root, or NoPicture.
clip_to(r, w, h) ==
  LET left == IF r.x < 0 THEN 0 ELSE r.x
      top == IF r.y < 0 THEN 0 ELSE r.y
      right == AtMost(r.x + r.width, w)
      bottom == AtMost(r.y + r.height, h)
  IN IF right <= left \/ bottom <= top THEN NoPicture
     ELSE [x |-> left, y |-> top, width |-> right - left, height |-> bottom - top]

stride(l, width) ==
  LET pad == (IF l.scanline_pad < 8 THEN 8 ELSE l.scanline_pad) \div 8
  IN Ceil(width * l.bytes_per_pixel, pad) * pad

is_native_bgrx(l) ==
  /\ l.bytes_per_pixel = 4 /\ l.lsb_first
  /\ l.red_mask = <<16, 8>> /\ l.green_mask = <<8, 8>> /\ l.blue_mask = <<0, 8>>

read_pixel(bytes, lsb_first) ==
  LET ordered == IF lsb_first THEN Reverse(bytes) ELSE bytes
  IN FoldLeft(LAMBDA v, b : v * 256 + b, 0, ordered)

scale_to_8(value, width) ==
  IF width = 0 THEN 0
  ELSE IF width >= 8 THEN value % 256
  ELSE LET max == 2 ^ width - 1 IN Ceil(AtMost(value, max) * 255, max)

\* A picture is the sequence of its pixels, each <<B, G, R, A>>.
to_bgra(l, data, width, height) ==
  IF l.bytes_per_pixel = 0 \/ Len(data) < stride(l, width) * height THEN NoPicture
  ELSE LET Channel(raw, mask) ==
             scale_to_8((raw \div 2 ^ mask[1]) % 2 ^ mask[2], mask[2])
           At(p) == ((p - 1) \div width) * stride(l, width)
                    + ((p - 1) % width) * l.bytes_per_pixel
           Raw(p) == read_pixel(SubSeq(data, At(p) + 1, At(p) + l.bytes_per_pixel), l.lsb_first)
       IN [size |-> <<width, height>>,
           pixels |-> [p \in 1 .. width * height |->
                         <<Channel(Raw(p), l.blue_mask), Channel(Raw(p), l.green_mask),
                           Channel(Raw(p), l.red_mask), 255>>]]

pack(l, data, w, h) ==
  IF ~is_native_bgrx(l) THEN to_bgra(l, data, w, h)
  ELSE IF Len(data) < stride(l, w) * h THEN NoPicture
  ELSE LET At(p) == ((p - 1) \div w) * stride(l, w) + ((p - 1) % w) * 4
       IN [size |-> <<w, h>>,
           pixels |-> [p \in 1 .. w * h |-> SubSeq(data, At(p) + 1, At(p) + 3) \o <<255>>]]

-----------------------------------------------------------------------------
(* The X server.                                                           *)

\* The colour of a point of the desktop, each channel none, one or full.
Colour(x, y) ==
  LET Of(n, mask) == <<0, 1, 2 ^ mask[2] - 1>>[1 + (n % 3)]
  IN [red |-> Of(x + paint, layout.red_mask), green |-> Of(y + paint, layout.green_mask),
      blue |-> Of(x + y + 2 * paint, layout.blue_mask)]

\* A rectangle of the desktop, each row padded.  A byte that belongs to no
\* channel may hold anything.
Image(r) ==
  LET Stored(c) == c.red * 2 ^ layout.red_mask[1] + c.green * 2 ^ layout.green_mask[1]
                   + c.blue * 2 ^ layout.blue_mask[1]
      Lsb(v) == [i \in 1 .. layout.bytes_per_pixel |->
                   IF i = 4 THEN 7 ELSE (v \div 256 ^ (i - 1)) % 256]
      Bytes(v) == IF layout.lsb_first THEN Lsb(v) ELSE Reverse(Lsb(v))
      Bare(y) == FlattenSeq([i \in 1 .. r.width |-> Bytes(Stored(Colour(r.x + i - 1, y)))])
      Unit == layout.scanline_pad \div 8
      Row(y) == Bare(y) \o [i \in 1 .. (Unit - (Len(Bare(y)) % Unit)) % Unit |-> 9]
  IN FlattenSeq([j \in 1 .. r.height |-> Row(r.y + j - 1)])

\* The server refuses a rectangle that is not all inside the root.
Inside(r) == r.x + r.width <= root[1] /\ r.y + r.height <= root[2]

\* A step that gives no picture.
Nothing == got' = NoPicture /\ given' = NoPicture

Resizes == root' \in Roots \ {root} /\ Nothing /\ UNCHANGED <<layout, paint, area, shm, grab, streamer, src_size, misses>>
Paints == paint' = 1 - paint /\ Nothing /\ UNCHANGED <<layout, root, area, shm, grab, streamer, src_size, misses>>

-----------------------------------------------------------------------------
(* The capturer.                                                           *)

NewSegment(len) == [i \in 1 .. Ceil(len, Segment) * Segment |-> 0]

\* The old segment is let go of first.  The server, or the system, may refuse
\* the new one, and then there is none.
try_attach_shm(len) == {NoSegment, NewSegment(len)}

\* Capturer::open: the root as it is now, four bytes a pixel.
GrabInit ==
  /\ layout \in Layouts /\ root \in Roots /\ paint = 0
  /\ area \in Areas \cup {WholeRoot}
  /\ shm \in try_attach_shm(root[1] * root[2] * 4)
  /\ grab = Unlocked /\ streamer = "opens" /\ src_size = <<0, 0>> /\ misses = 0
  /\ got = NoPicture /\ given = NoPicture

\* What a caller does with the picture.  A stream's first one says how large
\* it is; one of another size ends it.
Returns(who, picture) ==
  LET even == <<picture.size[1] - (picture.size[1] % 2), picture.size[2] - (picture.size[2] % 2)>>
      Goes(to) == streamer' = to /\ given' = NoPicture /\ UNCHANGED <<misses, src_size>>
  IN CASE who = "preview" -> Goes(streamer)
       [] streamer = "opens" ->
            IF even[1] = 0 \/ even[2] = 0 THEN Goes("ended")
            ELSE streamer' = "runs" /\ src_size' = even /\ given' = NoPicture /\ UNCHANGED misses
       [] picture = NoPicture ->
            /\ misses' = misses + 1
            /\ streamer' = IF misses' >= MAX_CONSECUTIVE_GRAB_FAILURES THEN "ended" ELSE "runs"
            /\ given' = NoPicture /\ UNCHANGED src_size
       [] even # src_size ->
            streamer' = "ended" /\ misses' = 0 /\ given' = NoPicture /\ UNCHANGED src_size
       [] OTHER ->
            /\ misses' = 0 /\ UNCHANGED <<streamer, src_size>>
            /\ given' = [size |-> src_size,
                         pixels |-> fit(picture.pixels, picture.size[1], src_size, src_size)]

\* grab_area up to the server's answer about the root, and the new segment a
\* larger picture needs.
grab_area(who, region) ==
  /\ grab = Unlocked
  /\ LET r == IF region = WholeRoot THEN [x |-> 0, y |-> 0, width |-> root[1], height |-> root[2]]
              ELSE clip_to(region, root[1], root[2])
     IN IF r = NoPicture
        THEN /\ got' = NoPicture /\ Returns(who, NoPicture) /\ UNCHANGED <<shm, grab>>
        ELSE LET needed == stride(layout, r.width) * r.height
             IN /\ shm' \in IF shm # NoSegment /\ Len(shm) < needed
                            THEN try_attach_shm(needed) ELSE {shm}
                /\ grab' = [who |-> who, region |-> region, root |-> root, r |-> r]
                /\ Nothing /\ UNCHANGED <<streamer, src_size, misses>>
  /\ UNCHANGED <<layout, root, paint, area>>

Streams == streamer \in {"opens", "runs"} /\ grab_area("stream", area)
Previews == grab_area("preview", WholeRoot)

Gives(data) ==
  LET r == grab.r
      picture == pack(layout, data, r.width, r.height)
  IN /\ Returns(grab.who, picture)
     /\ got' = [picture |-> picture, of |-> grab,
                colours |-> [p \in 1 .. r.width * r.height |->
                               Colour(r.x + ((p - 1) % r.width), r.y + (p - 1) \div r.width)]]

\* The server writes into the segment, which keeps what is after the picture.
ShmGetImage ==
  /\ grab # Unlocked /\ shm # NoSegment /\ Inside(grab.r)
  /\ LET image == Image(grab.r)
         needed == stride(layout, grab.r.width) * grab.r.height
     IN /\ shm' = image \o SubSeq(shm, Len(image) + 1, Len(shm))
        /\ Gives(SubSeq(shm', 1, needed))
  /\ grab' = Unlocked
  /\ UNCHANGED <<layout, root, paint, area>>

\* A refusal, whatever its reason, is the end of shared memory.
ShmFails ==
  /\ grab # Unlocked /\ shm # NoSegment
  /\ shm' = NoSegment
  /\ Nothing /\ UNCHANGED <<layout, root, paint, area, grab, streamer, src_size, misses>>

GetImage ==
  /\ grab # Unlocked /\ shm = NoSegment
  /\ IF Inside(grab.r) THEN Gives(Image(grab.r))
     ELSE got' = NoPicture /\ Returns(grab.who, NoPicture)
  /\ grab' = Unlocked
  /\ UNCHANGED <<layout, root, paint, area, shm>>

GrabNext == Resizes \/ Paints \/ Streams \/ Previews \/ ShmGetImage \/ ShmFails \/ GetImage

-----------------------------------------------------------------------------
(* Properties.                                                             *)

\* A channel as the server has it against the byte it has become.
Widened(value, width, byte) ==
  /\ byte \in 0 .. 255
  /\ value = 0 <=> byte = 0
  /\ value = 2 ^ width - 1 <=> byte = 255
  /\ width = 8 => byte = value

\* Whatever the server's pixels are made of, whichever way they come, and
\* whatever grab was there before, a picture is that of the points of the
\* area inside the desktop: each in its place, its channels in theirs, as
\* bright as they were and opaque.  A frame of the stream has the size the
\* stream was opened with, and the pixels of the picture it was made from.
GrabTrue ==
  /\ got # NoPicture =>
       LET r == got.of.r
           region == got.of.region
           points == {p \in (0 .. got.of.root[1] - 1) \X (0 .. got.of.root[2] - 1) :
                        region = WholeRoot \/ /\ p[1] \in region.x .. region.x + region.width - 1
                                              /\ p[2] \in region.y .. region.y + region.height - 1}
       IN /\ points = (r.x .. r.x + r.width - 1) \X (r.y .. r.y + r.height - 1)
          /\ got.picture.size = <<r.width, r.height>>
          /\ \A p \in DOMAIN got.colours :
               LET pixel == got.picture.pixels[p] c == got.colours[p]
               IN /\ Widened(c.blue, layout.blue_mask[2], pixel[1])
                  /\ Widened(c.green, layout.green_mask[2], pixel[2])
                  /\ Widened(c.red, layout.red_mask[2], pixel[3])
                  /\ pixel[4] = 255
  /\ given # NoPicture =>
       /\ given.size = src_size /\ Len(given.pixels) = src_size[1] * src_size[2]
       /\ \A p \in DOMAIN given.pixels :
              given.pixels[p] = got.picture.pixels[((p - 1) \div src_size[1]) * got.picture.size[1]
                                                    + ((p - 1) % src_size[1]) + 1]
=============================================================================

---------------------------------- MODULE H264 ----------------------------------
(***************************************************************************)
(* The forms a picture takes on its way (h264/src/lib.rs, the bitstream   *)
(* half of protocol/src/lib.rs, the sizes of client/src/main.rs).  A host's*)
(* encoder gives an access unit in Annex-B form, NAL units after start     *)
(* codes; the wire has its parameter sets bare, the rest in AVCC form,     *)
(* each NAL after its length; a client's decoder wants Annex-B again.      *)
(* A byte is its number, a pixel a value of any kind.                      *)
(***************************************************************************)
EXTENDS Integers, Sequences, SequencesExt

ParameterSet(nal) == nal[1] % 32 \in {7, 8}
Idr(nal) == nal[1] % 32 = 5

-----------------------------------------------------------------------------
(* The host's half.                                                        *)

\* Mutant: the zero at the head of a four-byte start code is left to the NAL.
annex_b_nals_Untrimmed(data) ==
  LET Code(i) == data[i] = 0 /\ data[i + 1] = 0 /\ data[i + 2] = 1
      at == SetToSortSeq({i \in 1 .. Len(data) - 2 : Code(i)}, <)
      Nal(k) == SubSeq(data, at[k] + 3, IF k = Len(at) THEN Len(data) ELSE at[k + 1] - 1)
  IN SelectSeq([k \in 1 .. Len(at) |-> Nal(k)], LAMBDA nal : nal # <<>>)

\* The NALs of an Annex-B buffer.  The scan steps over a start code it has
\* found, and one cannot begin inside another, so it finds them all.  A zero
\* before the next code is the head of a four-byte code.
annex_b_nals(data) ==
  LET Code(i) == data[i] = 0 /\ data[i + 1] = 0 /\ data[i + 2] = 1
      at == SetToSortSeq({i \in 1 .. Len(data) - 2 : Code(i)}, <)
      Nal(k) == LET s == at[k] + 3
                IN IF k = Len(at) THEN SubSeq(data, s, Len(data))
                   ELSE LET i == at[k + 1]
                        IN SubSeq(data, s, IF i > s /\ data[i - 1] = 0 THEN i - 2 ELSE i - 1)
  IN SelectSeq([k \in 1 .. Len(at) |-> Nal(k)], LAMBDA nal : nal # <<>>)

be32(n) == <<n \div 16777216, (n \div 65536) % 256, (n \div 256) % 256, n % 256>>

split_annex_b(data) ==
  LET nals == annex_b_nals(data)
      rest == SelectSeq(nals, LAMBDA nal : ~ParameterSet(nal))
  IN [parameter_sets |-> SelectSeq(nals, ParameterSet),
      frame_data |-> FlattenSeq([k \in DOMAIN rest |-> be32(Len(rest[k])) \o rest[k]]),
      keyframe |-> \E k \in DOMAIN rest : Idr(rest[k])]

\* The first width pixels of the first height rows, as far as there are any.
pack_rows(src, src_w, width, height) ==
  LET rows == {n \in 0 .. height : \A y \in 0 .. n - 1 : y * src_w + width <= Len(src)}
      whole == CHOOSE n \in rows : \A m \in rows : m <= n
  IN [p \in 1 .. whole * width |-> src[((p - 1) \div width) * src_w + ((p - 1) % width) + 1]]

\* A buffer too short for its size is given back as it is (the filter itself
\* is external: only the number of pixels is kept).
downscale(src, sw, sh, dw, dh) ==
  IF Len(src) < sw * sh THEN src ELSE [p \in 1 .. dw * dh |-> src[1]]

fit(bgra, src_w, crop, out) ==
  LET packed == pack_rows(bgra, src_w, crop[1], crop[2])
  IN IF out = crop THEN packed ELSE downscale(packed, crop[1], crop[2], out[1], out[2])

-----------------------------------------------------------------------------
(* The client's half.                                                      *)

\* The NALs of an AVCC buffer, up to a truncated or an empty one.
nal_units[data \in Seq(0 .. 255)] ==
  IF Len(data) < 4 THEN <<>>
  ELSE LET len == data[1] * 16777216 + data[2] * 65536 + data[3] * 256 + data[4]
       IN IF len = 0 \/ Len(data) < 4 + len THEN <<>>
          ELSE <<SubSeq(data, 5, 4 + len)>> \o nal_units[SubSeq(data, 5 + len, Len(data))]

is_keyframe(codec, data) ==
  \E k \in DOMAIN nal_units[data] :
    LET b == nal_units[data][k][1]
    IN IF codec = "H264" THEN b % 32 = 5 ELSE (b \div 2) % 64 \in 16 .. 23

StartCode == <<0, 0, 0, 1>>

annex_b_parameter_sets(sets) == FlattenSeq([k \in DOMAIN sets |-> StartCode \o sets[k]])

append_annex_b(out, avcc) == out \o annex_b_parameter_sets(nal_units[avcc])

-----------------------------------------------------------------------------
(* Sizes.  A product of floating-point numbers that should be a whole      *)
(* number may fall just short of it, so each of these is a set of sizes.   *)

Even(n) == IF n < 2 THEN 2 ELSE n - (n % 2)

Scaled(n, num, den) ==
  LET exact == (n * num) \div den
  IN {Even(exact)} \cup (IF (n * num) % den = 0 /\ exact > 0 THEN {Even(exact - 1)} ELSE {})

encode_dims(w, h, max_long) ==
  LET long == IF w > h THEN w ELSE h
  IN IF long <= max_long THEN {<<w, h>>}
     ELSE Scaled(w, max_long, long) \X Scaled(h, max_long, long)

SCALE_PRESETS == <<100, 75, 67, 50>>
MAX_DECODE_DIM == <<3840, 2160>>
FALLBACK_RES == <<1920, 1080>>

scaled_even(native, percent) ==
  <<Even((native[1] * percent) \div 100), Even((native[2] * percent) \div 100)>>

\* The tighter of the two ratios: max_w / w against max_h / h.
cap_to_decodable(w, h) ==
  LET mw == MAX_DECODE_DIM[1]
      mh == MAX_DECODE_DIM[2]
  IN IF w <= mw /\ h <= mh THEN {<<w, h>>}
     ELSE IF mw * h <= mh * w THEN Scaled(w, mw, w) \X Scaled(h, mw, w)
     ELSE Scaled(w, mh, h) \X Scaled(h, mh, h)

\* The monitor asked for, or the primary one, or the first: indices from 0.
native_resolution(monitors, primary, current, index) ==
  IF monitors = <<>> THEN IF current # <<>> THEN current ELSE FALLBACK_RES
  ELSE IF index \in 0 .. Len(monitors) - 1 THEN monitors[index + 1]
  ELSE IF primary \in DOMAIN monitors THEN monitors[primary] ELSE monitors[1]

resolve_resolution(monitors, primary, current, index, res) ==
  LET idx == IF res \in 0 .. Len(SCALE_PRESETS) - 1 THEN res ELSE 0
      size == scaled_even(native_resolution(monitors, primary, current, index),
                          SCALE_PRESETS[idx + 1])
  IN cap_to_decodable(size[1], size[2])
=============================================================================

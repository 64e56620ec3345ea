-------------------------------- MODULE MediaPath --------------------------------
(***************************************************************************)
(* What a host sends and an app is told, through the two bindings          *)
(* (android-jni/src/lib.rs read by ExtenderSession.kt, mobile-ffi/src/     *)
(* lib.rs read by ExtenderSession.swift) and the desktop client's decoder. *)
(* A software host's stream opens on its first keyframe (stream.rs of the  *)
(* Windows and the Linux host); a clicker's host sends pictures and window *)
(* titles.  The iOS binding hands over a fresh record per event, the       *)
(* Android one keeps one record on the handle and writes some fields of it.*)
(***************************************************************************)
EXTENDS X11Capture, Keys

CONSTANTS
  Units,    \* access units an encoder may give: sequences of NALs
  Windows,  \* desktops: sequences of windows [id, title, shown]
  Panels,   \* monitors a client may have: records [monitors, primary, current]
  MaxPts    \* frames of a stream

VARIABLES
  mode,     \* "stream" or "clicker"
  started,  \* the host has sent StreamStart
  opened,   \* the parameter sets it sent
  pts,      \* the presentation time of the next frame
  said,     \* what the host meant to say last
  record,   \* AndroidSession: the current event's fields
  ios,      \* what the iOS app read last
  android,  \* what the Android app read last
  primed, decoded,  \* the desktop client's sps_pps and its last access unit
  panel     \* the client's monitors, and what it asked for

\* A monitor's two sides, in pixels, are numbers; a client may have no monitor
\* that is the current one.
PanelsAssumption ==
  \A p \in Panels : /\ p.monitors \in Seq(Nat \X Nat) /\ p.primary \in Nat
                    /\ p.current = <<>> \/ p.current \in Nat \X Nat
ASSUME PanelsAssumption

media == <<mode, started, opened, pts, said, record, ios, android, primed, decoded, panel>>

\* A record that has held no event: AndroidSession as nativeConnect makes it.
Fresh == [kind |-> -1, width |-> 0, height |-> 0, codec |-> 0, keyframe |-> FALSE,
          pts_value |-> 0, data |-> <<>>]
NoEvent == [kind |-> -1]

MediaInit ==
  /\ mode \in {"stream", "clicker"}
  /\ started = FALSE /\ opened = <<>> /\ pts = 0
  /\ said = NoEvent /\ record = Fresh /\ ios = NoEvent /\ android = NoEvent
  /\ primed = <<>> /\ decoded = <<>>
  /\ panel \in Panels

-----------------------------------------------------------------------------
(* Text in a byte payload: a character is its code, a window's id, written *)
(* out in digits, one number above them.                                   *)

Tab == 9
Newline == 10
Space == 32
Number(c) == c > 255

\* A title loses its tabs and its ends of lines; Linux trims it too.
flatten(title) == [k \in DOMAIN title |-> IF title[k] \in {Tab, Newline, 13} THEN Space ELSE title[k]]

trim(title) ==
  LET inked == {k \in DOMAIN title : title[k] # Space}
  IN IF inked = {} THEN <<>> ELSE SubSeq(title, Min(inked), Max(inked))

flattened(os, title) == IF os = "linux" THEN trim(flatten(title)) ELSE flatten(title)

\* A window worth listing: an ordinary one that is shown, with a title.
is_pickable(os, w) ==
  w.shown /\ (IF os = "linux" THEN flattened(os, w.title) ELSE w.title) # <<>>

list_windows(os, windows) ==
  LET picked == SelectSeq(windows, LAMBDA w : is_pickable(os, w))
  IN [k \in DOMAIN picked |-> <<picked[k].id, flattened(os, picked[k].title)>>]

\* One "id tab title" line per window, with newlines between.
window_lines(windows) ==
  FlattenSeq([k \in DOMAIN windows |->
    (IF k > 1 THEN <<Newline>> ELSE <<>>) \o <<windows[k][1], Tab>> \o windows[k][2]])

Positions(text, mark) == SetToSortSeq({k \in DOMAIN text : text[k] = mark}, <)

\* The pieces of a text between its newlines.
Lines(text) ==
  LET nl == <<0>> \o Positions(text, Newline) \o <<Len(text) + 1>>
  IN [k \in 1 .. Len(nl) - 1 |-> SubSeq(text, nl[k] + 1, nl[k + 1] - 1)]

\* A line without a tab, or with something else than a number before the
\* first one, is passed over.
parse_windows(text) ==
  LET Line(l) == LET t == Positions(l, Tab) IN t # <<>> /\ t[1] = 2 /\ Number(l[1])
      lines == SelectSeq(Lines(text), Line)
  IN IF text = <<>> THEN <<>>
     ELSE [k \in DOMAIN lines |-> <<lines[k][1], SubSeq(lines[k], 3, Len(lines[k]))>>]

split2(text) ==
  LET nl == Positions(text, Newline)
  IN IF nl = <<>> THEN <<text, <<>>>>
     ELSE <<SubSeq(text, 1, nl[1] - 1), SubSeq(text, nl[1] + 1, Len(text))>>

-----------------------------------------------------------------------------
(* The bindings.  An event of the core is a record with its kind's number. *)

codec_tag(codec) == IF codec = "H264" THEN 0 ELSE 1

\* extender_session_next_event: a record of its own, everything else zero.
ffi_event(e) ==
  LET base == [kind |-> e.kind, width |-> 0, height |-> 0, codec |-> 0, slot |-> 0,
               keyframe |-> FALSE, pts_value |-> 0, data |-> <<>>]
  IN CASE e.kind = 0 -> [base EXCEPT !.width = e.width, !.height = e.height,
                           !.codec = codec_tag(e.codec),
                           !.data = annex_b_parameter_sets(e.parameter_sets)]
       [] e.kind = 1 -> [base EXCEPT !.keyframe = e.keyframe, !.pts_value = e.pts_value,
                           !.data = append_annex_b(<<>>, e.data)]
       [] e.kind = 2 -> [base EXCEPT !.width = e.width, !.height = e.height,
                           !.slot = e.slot, !.data = e.data]
       [] e.kind = 3 -> [base EXCEPT !.data = e.os \o <<Newline>> \o e.name]
       [] e.kind = 4 -> [base EXCEPT !.data = window_lines(e.windows)]

\* startPump of the iOS app: the accessors it calls for each kind.
ios_reads(r) ==
  CASE r.kind = 0 -> [kind |-> 0, width |-> r.width, height |-> r.height,
                      codec |-> r.codec, data |-> r.data]
    [] r.kind = 1 -> [kind |-> 1, keyframe |-> r.keyframe, pts_value |-> r.pts_value,
                      data |-> r.data]
    [] r.kind = 2 -> [kind |-> 2, slot |-> r.slot, data |-> r.data]
    [] r.kind = 3 -> [kind |-> 3, os |-> split2(r.data)[1], name |-> split2(r.data)[2]]
    [] r.kind = 4 -> [kind |-> 4, windows |-> parse_windows(r.data)]

\* nativeNextEvent: the fields each kind writes; the others keep what they had.
nativeNextEvent(r, e) ==
  CASE e.kind = 0 -> [r EXCEPT !.kind = 0, !.width = e.width, !.height = e.height,
                        !.codec = codec_tag(e.codec), !.keyframe = FALSE, !.pts_value = 0,
                        !.data = annex_b_parameter_sets(e.parameter_sets)]
    [] e.kind = 1 -> [r EXCEPT !.kind = 1, !.keyframe = e.keyframe, !.pts_value = e.pts_value,
                        !.data = append_annex_b(<<>>, e.data)]
    [] e.kind = 2 -> [r EXCEPT !.kind = 2, !.width = e.width, !.height = e.height,
                        !.codec = e.slot, !.keyframe = FALSE, !.pts_value = 0, !.data = e.data]
    [] e.kind = 3 -> [r EXCEPT !.kind = 3, !.data = e.os \o <<Newline>> \o e.name]
    [] e.kind = 4 -> [r EXCEPT !.kind = 4, !.data = window_lines(e.windows)]

\* startPump of the Android app: the codec accessor carries a picture's slot.
android_reads(r) ==
  CASE r.kind = 0 -> [kind |-> 0, width |-> r.width, height |-> r.height,
                      codec |-> r.codec, data |-> r.data]
    [] r.kind = 1 -> [kind |-> 1, keyframe |-> r.keyframe, pts_value |-> r.pts_value,
                      data |-> r.data]
    [] r.kind = 2 -> [kind |-> 2, slot |-> r.codec, data |-> r.data]
    [] r.kind = 3 -> [kind |-> 3, os |-> split2(r.data)[1], name |-> split2(r.data)[2]]
    [] r.kind = 4 -> [kind |-> 4, windows |-> parse_windows(r.data)]

\* decode_loop of the desktop client: what it keeps and what it decodes.
decode_loop(e) ==
  CASE e.kind = 0 -> /\ primed' = annex_b_parameter_sets(e.parameter_sets)
                     /\ UNCHANGED decoded
    [] e.kind = 1 -> /\ decoded' = append_annex_b(IF e.keyframe THEN primed ELSE <<>>, e.data)
                     /\ UNCHANGED primed
    [] OTHER -> UNCHANGED <<primed, decoded>>

Delivered(e) ==
  /\ record' = nativeNextEvent(record, e)
  /\ android' = android_reads(record')
  /\ ios' = ios_reads(ffi_event(e))
  /\ decode_loop(e)
  /\ UNCHANGED <<mode, panel>>

-----------------------------------------------------------------------------
(* The host.                                                               *)

\* Every session opens with the host's identity; a name may have two lines.
Greets ==
  /\ said.kind = -1
  /\ \E name \in {<<110>>, <<110, Newline, 109>>} :
       LET e == [kind |-> 3, os |-> <<111>>, name |-> name]
       IN said' = e /\ Delivered(e)
  /\ UNCHANGED <<started, opened, pts>>

\* An encoder's access unit: each NAL after a start code of three or four
\* bytes.
Encoded(unit, long) ==
  FlattenSeq([k \in DOMAIN unit |->
    (IF long[k] THEN <<0, 0, 0, 1>> ELSE <<0, 0, 1>>) \o unit[k]])

\* Before the stream has opened, whatever is not a keyframe with its
\* parameter sets is left out.
Opens(split) == split.keyframe /\ split.parameter_sets # <<>>

StreamStarts ==
  /\ mode = "stream" /\ said.kind # -1 /\ ~started
  /\ \E unit \in Units, long \in [1 .. 4 -> BOOLEAN] :
       LET split == split_annex_b(Encoded(unit, long))
           e == [kind |-> 0, width |-> 2, height |-> 2, codec |-> "H264",
                 parameter_sets |-> split.parameter_sets]
       IN /\ Opens(split)
          /\ started' = TRUE /\ opened' = split.parameter_sets
          /\ said' = [kind |-> 0, width |-> 2, height |-> 2, unit |-> unit, split |-> split]
          /\ Delivered(e)
  /\ UNCHANGED pts

SendsFrame(unit, split) ==
  LET e == [kind |-> 1, pts_value |-> pts, keyframe |-> split.keyframe,
            data |-> split.frame_data]
  IN /\ said' = [kind |-> 1, pts_value |-> pts, unit |-> unit]
     /\ pts' = pts + 1
     /\ Delivered(e)
     /\ UNCHANGED <<started, opened>>

\* The frame the stream opens with, then one per access unit.
FirstFrame ==
  /\ mode = "stream" /\ said.kind = 0
  /\ SendsFrame(said.unit, said.split)

NextFrame ==
  /\ mode = "stream" /\ said.kind = 1 /\ pts < MaxPts
  /\ \E unit \in Units, long \in [1 .. 4 -> BOOLEAN] :
       SendsFrame(unit, split_annex_b(Encoded(unit, long)))

SendsSnapshot ==
  /\ mode = "clicker" /\ said.kind # -1
  /\ \E slot \in {-1, 0, 1}, data \in {<<>>, <<255, 216>>} :
       LET e == [kind |-> 2, width |-> 3, height |-> 2, slot |-> slot, data |-> data]
       IN said' = e /\ Delivered(e)
  /\ UNCHANGED <<started, opened, pts>>

SendsWindows ==
  /\ mode = "clicker" /\ said.kind # -1
  /\ \E windows \in Windows, os \in {"windows", "linux"} :
       /\ said' = [kind |-> 4, windows |-> SelectSeq(windows, LAMBDA w : is_pickable(os, w))]
       /\ Delivered([kind |-> 4, windows |-> list_windows(os, windows)])
  /\ UNCHANGED <<started, opened, pts>>

MediaNext == Greets \/ StreamStarts \/ FirstFrame \/ NextFrame \/ SendsSnapshot \/ SendsWindows

-----------------------------------------------------------------------------
(* Properties.                                                             *)

\* What is left of a title when its spaces of every kind are taken out.
Ink(title) == SelectSeq(title, LAMBDA c : c \notin {Tab, Newline, 13, Space})

\* Whichever binding an app reads through, and whatever the event before was,
\* it is told the same; a picture with its own slot and bytes.
BindingsAgree ==
  /\ android = ios
  /\ said.kind = 2 => ios.slot = said.slot /\ ios.data = said.data

\* An app is told what the host said: besides its pictures, the host's name,
\* and every window there is to pick by its own id and title, however the
\* title breaks the lines of the list.
ToldTrue ==
  /\ BindingsAgree
  /\ said.kind = 3 => ios.os = said.os /\ ios.name = said.name
  /\ said.kind = 4 => /\ Len(ios.windows) = Len(said.windows)
                      /\ \A k \in DOMAIN said.windows :
                           /\ ios.windows[k][1] = said.windows[k].id
                           /\ Ink(ios.windows[k][2]) = Ink(said.windows[k].title)

\* No picture is spoilt on the way: the parameter sets a decoder is opened
\* with are those of the encoder's first keyframe, each frame has the other
\* NALs of its access unit in their order, it is called a keyframe just when
\* there is an IDR slice in it, and the times of the frames go up by one.
\* The desktop client gives its decoder the parameter sets with each
\* keyframe.
FedTrue ==
  /\ said.kind = 0 =>
       /\ annex_b_nals(ios.data) = SelectSeq(said.unit, ParameterSet)
       /\ ios.width = said.width /\ ios.height = said.height /\ ios.codec = 0
  /\ said.kind = 1 =>
       LET rest == SelectSeq(said.unit, LAMBDA nal : ~ParameterSet(nal))
           key == \E k \in DOMAIN rest : Idr(rest[k])
           sent == FlattenSeq([k \in DOMAIN rest |-> be32(Len(rest[k])) \o rest[k]])
       IN /\ annex_b_nals(ios.data) = rest
          /\ ios.keyframe = key /\ is_keyframe("H264", sent) = key
          /\ ios.pts_value = said.pts_value
          /\ annex_b_nals(decoded) = (IF key THEN opened ELSE <<>>) \o rest

\* Whatever monitors the client has and whatever it was asked to use, the
\* size it reports is one the host accepts and its decoder can decode, even
\* both ways and, with no side off by more than five pixels, of the shape of
\* the panel.  A frame the host scales for the encoder has the size the
\* encoder was told.
SizesTrue ==
  /\ \A index \in -1 .. 2, res \in -1 .. 4 :
       LET native == native_resolution(panel.monitors, panel.primary, panel.current, index)
       IN \A size \in resolve_resolution(panel.monitors, panel.primary, panel.current, index, res) :
            /\ \A d \in {1, 2} : size[d] % 2 = 0 /\ size[d] \in 2 .. MAX_DECODE_DIM[d]
            /\ native[2] * size[1] - native[1] * size[2]
                 \in -5 * (native[1] + native[2]) .. 5 * (native[1] + native[2])
  /\ \A src \in {<<4, 3>>, <<5, 4>>, <<7, 2>>}, max \in {2, 4, 8} :
       LET crop == <<Even(src[1]), Even(src[2])>>
           bgra == [p \in 1 .. src[1] * src[2] |-> <<(p - 1) \div src[1], (p - 1) % src[1]>>]
       IN \A out \in encode_dims(crop[1], crop[2], max) :
            LET frame == fit(bgra, src[1], crop, out)
            IN /\ Len(frame) = out[1] * out[2]
               /\ out = crop => \A p \in DOMAIN frame :
                    frame[p] = <<(p - 1) \div out[1], (p - 1) % out[1]>>

\* All of that, from the grab (GrabTrue) to the app, and the keys.  A
\* client's monitors do not change, nor do the tables.
FormsKept == SizesTrue /\ KeysTrue /\ [](ToldTrue /\ FedTrue /\ GrabTrue)
=============================================================================

-------------------------------- MODULE MCDesktop --------------------------------
(* The parts of the desktop programs that do not act on each other, checked *)
(* in one run: `part`, chosen at the start, says which of them steps.       *)
EXTENDS MediaPath, DesktopInput, DesktopVideo, HostPanels

VARIABLE part

MCUnits ==
  LET sps == <<103, 1>> pps == <<104, 2>> idr == <<101, 0, 7>>
      p == <<65, 0, 0, 3>> sei == <<6, 5>>
  IN {<<sps, pps, idr>>, <<sei, sps, pps, idr>>, <<idr>>, <<p>>, <<sei, p>>, <<p, p>>, <<sps, pps>>}
MCWindows ==
  LET W(id, title) == [id |-> id, title |-> title, shown |-> TRUE]
  IN {<<>>, <<W(1007, <<97, 9, 98>>), W(1008, <<10, 98>>)>>,
      <<W(1009, <<32>>), [W(1007, <<97>>) EXCEPT !.shown = FALSE], W(1010, <<>>), W(1008, <<98, 32>>)>>}
MCPanels ==
  [monitors : {<<>>, <<<<2560, 1440>>>>, <<<<1366, 768>>, <<5120, 2880>>>>,
               <<<<3440, 1440>>, <<2160, 3840>>>>},
   primary : {0, 2}, current : {<<>>, <<3968, 2232>>}]
\* The usual pixels, 565 most significant byte first, and 24 bits.
MCLayouts ==
  LET L(b, lsb, r, g, bl) ==
        [bytes_per_pixel |-> b, scanline_pad |-> 32, lsb_first |-> lsb,
         red_mask |-> r, green_mask |-> g, blue_mask |-> bl]
  IN {L(4, TRUE, <<16, 8>>, <<8, 8>>, <<0, 8>>), L(2, FALSE, <<11, 5>>, <<5, 6>>, <<0, 5>>),
      L(3, TRUE, <<0, 8>>, <<8, 8>>, <<16, 8>>)}
MCRoots == {<<2, 2>>, <<5, 3>>, <<4, 3>>}
MCAreas == {[x |-> 2, y |-> -1, width |-> 3, height |-> 4]}
MCAddresses == {[host |-> "a", port |-> 0], [host |-> "b", port |-> 1]}

\* A part that does not step stays at the first of its beginnings.
Parts == {"media", "control", "grab", "picture", "account", "viewer"}
Init ==
  /\ part \in Parts
  /\ MediaInit /\ GrabInit /\ ControlInit /\ PictureInit /\ PanelsInit
  /\ part # "media" => mode = "stream" /\ panel = [monitors |-> <<>>, primary |-> 0, current |-> <<>>]
  /\ part # "grab" => /\ layout = CHOOSE l \in Layouts : TRUE
                     /\ root = <<2, 2>> /\ area = WholeRoot /\ shm = NoSegment
  /\ part # "control" => sys = "macos" /\ client = "desktop"
  /\ part # "picture" => forced = 0
  /\ part # "account" => file = SignedOut

Account == part = "account" /\ UNCHANGED <<media, grabbing, control, picture, viewing, part>>
Viewer == part = "viewer" /\ UNCHANGED <<media, grabbing, control, picture, account, part>>

Next ==
  \/ part = "media" /\ MediaNext /\ UNCHANGED <<grabbing, control, picture, panels, part>>
  \/ part = "grab" /\ GrabNext /\ UNCHANGED <<media, control, picture, panels, part>>
  \/ part = "control" /\ ControlNext /\ UNCHANGED <<media, grabbing, picture, panels, part>>
  \/ part = "picture" /\ PictureNext /\ UNCHANGED <<media, grabbing, control, panels, part>>
  \/ Account /\ AccountNext
  \/ Viewer /\ ViewerNext

vars == <<media, grabbing, control, picture, panels, part>>

Spec ==
  /\ Init /\ [][Next]_vars
  /\ WF_vars(Account /\ Worker) /\ WF_vars(Account /\ drain) /\ WF_vars(Viewer /\ Waits)
=============================================================================

--------------------------- MODULE MCMirrorSession ---------------------------
(* MirrorSession for TLC: desktops and panels of a few pixels.             *)
EXTENDS MirrorSession

Of(w, h) == [w |-> w, h |-> h]
MCDesktops == {Of(4, 2), Of(5, 4), Of(2, 2)}
MCPanels == {Of(2, 4), Of(3, 2), Of(1, 2), Of(8, 2)}

MCOneDesktop == {Of(4, 2)}
MCOnePanel == {Of(2, 2)}
=============================================================================

---------------------------- MODULE MCClickerSession ----------------------------
(* ClickerSession for TLC: a document of distinct slides, and one that has *)
(* a slide twice and is longer than a scan.                                *)
EXTENDS ClickerSession
CONSTANTS a, b, c
MCDecks == {<<a, b, c>>, <<a, a, b, a>>}
=============================================================================

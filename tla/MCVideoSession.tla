----------------------------- MODULE MCVideoSession -----------------------------
(* VideoSession for TLC: clients of two sizes and two device names, one    *)
(* name the user may give.                                                 *)
EXTENDS VideoSession
CONSTANTS phone, tablet, small, large, label, l1
MCAsks == {[size |-> small, name |-> phone], [size |-> large, name |-> phone],
           [size |-> large, name |-> tablet]}
=============================================================================

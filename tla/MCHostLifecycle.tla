--------------------------- MODULE MCHostLifecycle ---------------------------
(* HostLifecycle as TLC runs it: two ports, two PINs, three starts.  The   *)
(* same instance in MCHostLifecycle.cfg, MCRestart.cfg and MCListener.cfg, *)
(* which differ in what they ask of it.                                    *)
EXTENDS HostLifecycle
=============================================================================

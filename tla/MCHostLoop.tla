------------------------------ MODULE MCHostLoop ------------------------------
(* HostLoop as TLC runs it.  Two instances: MCHostGuard (one current and   *)
(* one legacy client, lockouts, fairness) and MCHostTrust (one current     *)
(* client paired elsewhere, three PINs, a restart and a forget).           *)
EXTENDS HostLoop
=============================================================================

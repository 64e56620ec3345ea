---------------------------------- MODULE Pipe ----------------------------------
(***************************************************************************)
(* What one direction of a connection promises, whatever it is relayed     *)
(* through or sealed with: the far end has received a beginning of what the*)
(* near end sent, in order, nothing lost in between and nothing twice, and *)
(* what it has received stays received.                                    *)
(***************************************************************************)
EXTENDS Naturals, Sequences

CONSTANT Items

VARIABLES sent, got

vars == <<sent, got>>

Begins(a, b) == Len(a) <= Len(b) /\ a = SubSeq(b, 1, Len(a))

Init == sent = <<>> /\ got = <<>>

Send == /\ \E m \in Items : sent' = Append(sent, m)
        /\ UNCHANGED got

Receive == /\ \E k \in (Len(got) + 1) .. Len(sent) : got' = SubSeq(sent, 1, k)
           /\ UNCHANGED sent

(* The connection is over and another may begin.                           *)
Renew == sent' = <<>> /\ got' = <<>>

Next == Send \/ Receive \/ Renew

Spec == Init /\ [][Next]_vars
=============================================================================

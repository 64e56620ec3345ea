------------------------------ MODULE AtomicFile ------------------------------
(***************************************************************************)
(* What write_private (crates/transport/src/pairing.rs) promises of the    *)
(* pairing file: a save replaces the whole text at one moment or not at    *)
(* all, and a crash leaves the old text rather than half of a new one.  It *)
(* does not promise that a text, once read, outlives a crash: the folder   *)
(* may come back as it was before.                                         *)
(***************************************************************************)
CONSTANTS Procs, Texts, NoFile, Nothing

VARIABLES
  content,  \* the text readers see, or NoFile
  earlier,  \* what they saw since the folder was last written to the disk
  pending   \* per process, the text it is saving, or Nothing

vars == <<content, earlier, pending>>

Begin(p) ==
  /\ pending[p] = Nothing
  /\ \E t \in Texts : pending' = [pending EXCEPT ![p] = t]
  /\ UNCHANGED <<content, earlier>>

Publish(p) ==
  /\ pending[p] # Nothing
  /\ content' = pending[p]
  /\ earlier' = earlier \cup {content}
  /\ pending' = [pending EXCEPT ![p] = Nothing]

Abandon(p) ==
  /\ pending' = [pending EXCEPT ![p] = Nothing]
  /\ UNCHANGED <<content, earlier>>

(* The folder reaches the disk.                                            *)
Settle == earlier' = {} /\ UNCHANGED <<content, pending>>

(* The machine stops: every save under way is lost, and perhaps the last   *)
(* ones that were done.                                                    *)
Crash ==
  /\ content' \in earlier \cup {content}
  /\ earlier' = {}
  /\ pending' = [p \in Procs |-> Nothing]

(* Somebody removes the file by hand, or saves another text there.         *)
Delete == content' = NoFile /\ earlier' = earlier \cup {content} /\ UNCHANGED pending
Edit   == content' \in Texts /\ earlier' = {} /\ UNCHANGED pending

Init ==
  /\ content \in Texts \cup {NoFile}
  /\ earlier = {}
  /\ pending = [p \in Procs |-> Nothing]

Next ==
  \/ \E p \in Procs : Begin(p) \/ Publish(p) \/ Abandon(p)
  \/ Settle \/ Crash
  \/ Delete \/ Edit

Spec == Init /\ [][Next]_vars
=============================================================================

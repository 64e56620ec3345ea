----------------------------- MODULE MCRecordLayer ------------------------------
(* Instance of RecordLayer for TLC: two frames, both of one direction or   *)
(* one of each; a body of two units in records of one, so that a frame is  *)
(* three records.                                                          *)
EXTENDS RecordLayer
=============================================================================

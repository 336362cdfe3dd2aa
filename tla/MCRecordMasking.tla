--------------------------- MODULE MCRecordMasking ---------------------------
(* Instances of RecordMasking for TLC. *)
EXTENDS RecordMasking

\* The users of demo-realm.json: an administrator and a writer who is none.
CONSTANTS admin, writer
==============================================================================

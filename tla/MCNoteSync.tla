------------------------------ MODULE MCNoteSync ------------------------------
(* NoteSync on a few notes and screens. *)
EXTENDS NoteSync
CONSTANTS t1, s1, s2, u1, u2

\* Bound: a kill or a change of another device, not both.
OneDisturbance == used.restarts + used.remote <= 1
=============================================================================

-------------------------------- MODULE MCNotes --------------------------------
(***************************************************************************)
(* NoteSync with its history on a device with one note that the server and *)
(* another device have too, and room for one that is made on the device.   *)
(***************************************************************************)
EXTENDS NoteSyncProps
CONSTANTS u1, t1, s0, s1, s2

\* The note the device began with is as it was, and no screen is at it.
Untouched ==
    /\ server[s0].state = "live" /\ server[s0].updated_at = 1
    /\ \E n \in local : n.id = s0 /\ n.updated_at = 1 /\ ~n.pendingDelete
    /\ \A u \in Screens : scr[u].pc # "idle" => scr[u].item.id # s0

\* Bounds: either the first note is worked on, with a pull and another device,
\* or a new one; and after a kill there is one edit less.
OneNote ==
    /\ born = {} \/ (Untouched /\ clock <= 3 /\ used.pulls = 0 /\ used.remote = 0)
    /\ used.restarts # 0 => clock < (IF born = {} THEN 4 ELSE 3)
================================================================================

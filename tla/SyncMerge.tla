------------------------------ MODULE SyncMerge ------------------------------
(***************************************************************************)
(* The pure half of the client's pull: frontend/src/syncMergeCore.ts.      *)
(*                                                                         *)
(* A record is [id, updated_at, created_at, isLocal, pendingDelete] with   *)
(* any further fields (content).  A timestamp is a natural number and 0 is *)
(* one that cannot be read ('' or an unparsable date, NaN in the code).    *)
(* The local store is an array in the code and a set here; the array may   *)
(* hold two records with one id (see NoteSync), and of those the Map of    *)
(* the code keeps the last it visits: here, any one of them.               *)
(***************************************************************************)
EXTENDS Naturals

recordTimestamp(r) == IF r.updated_at # 0 THEN r.updated_at ELSE r.created_at

\* NaN is 0, so "an unreadable a loses, an unreadable b is beaten" is ">".
isNewerTimestamp(a, b) == a > b

WithId(S, i) == {r \in S : r.id = i}

IdsOf(S) == {r.id : r \in S}

absenceMeansDeleted(r, complete, pullStartedAt) ==
    complete /\ ~isNewerTimestamp(recordTimestamp(r), pullStartedAt)

\* Mistake: a record queued for deletion is treated like any other.
SurvivesHidden(r, server, complete, pullStartedAt) ==
    \/ r.isLocal
    \/ /\ ~r.isLocal /\ r.id \in IdsOf(server)
       /\ \A s \in WithId(server, r.id) :
              isNewerTimestamp(recordTimestamp(r), recordTimestamp(s))
    \/ /\ ~r.isLocal /\ r.id \notin IdsOf(server)
       /\ ~absenceMeansDeleted(r, complete, pullStartedAt)

\* Does the second loop of mergeRecords put the local record r in the result?
Survives(r, server, complete, pullStartedAt) ==
    \/ r.pendingDelete /\ r.id \in IdsOf(server)
    \/ ~r.pendingDelete /\ r.isLocal
    \/ /\ ~r.pendingDelete /\ ~r.isLocal /\ r.id \in IdsOf(server)
       /\ \A s \in WithId(server, r.id) :
              isNewerTimestamp(recordTimestamp(r), recordTimestamp(s))
    \/ /\ ~r.pendingDelete /\ ~r.isLocal /\ r.id \notin IdsOf(server)
       /\ ~absenceMeansDeleted(r, complete, pullStartedAt)

\* The subsets of S with one record for every id of S.
OnePerId(S) ==
    {m \in SUBSET S : IdsOf(m) = IdsOf(S) /\ \A a, b \in m : a.id = b.id => a = b}

\* The results mergeRecords can return: a surviving local record replaces the
\* server's record with its id, every other server record is taken as it is,
\* marked as no longer local.
mergeRecords(server, local, complete, pullStartedAt) ==
    LET kept  == {r \in local : Survives(r, server, complete, pullStartedAt)}
        taken == {s \in server : s.id \notin IdsOf(kept)}
    IN  {{[s EXCEPT !.isLocal = FALSE] : s \in taken} \cup m : m \in OnePerId(kept)}

=============================================================================

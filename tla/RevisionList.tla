---------------------------- MODULE RevisionList ----------------------------
(***************************************************************************)
(* The revisions.txt of the server (server/revision_list.py): a list of    *)
(* revisions, the latest at the end.  The time kept with each entry grows  *)
(* along the list and is left out.                                         *)
(***************************************************************************)
EXTENDS Integers, SequencesExt

\* _find_revision_index, counted from 1 and 0 for None.
Find(l, r) ==
  IF r \in ToSet(l)
  THEN CHOOSE i \in DOMAIN l : l[i] = r /\ \A j \in DOMAIN l : l[j] = r => i <= j
  ELSE 0

\* The test "if index:" is false of None and of index 0 as well: an entry at
\* the head of the list stays there when the revision is added again.
AddRevision(l, r) ==
  IF l # <<>> /\ Last(l) = r THEN l
  ELSE Append(IF Find(l, r) > 1 THEN RemoveAt(l, Find(l, r)) ELSE l, r)

RemoveRevision(l, r) ==
  IF Find(l, r) = 0 THEN l ELSE RemoveAt(l, Find(l, r))

\* as_list: the newest first.
AsList(l) == Reverse(l)
=============================================================================

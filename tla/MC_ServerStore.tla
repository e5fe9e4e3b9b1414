--------------------------- MODULE MC_ServerStore ---------------------------
(* Model values and request mixes for checking ServerStore.                *)
EXTENDS ServerStore

CONSTANTS w1, w2, r1, r2, p1, p2

OneWorker == {w1}
TwoWorkers == {w1, w2}
RRevs == {r1, r2}
PRevs == {p1, p2}
OnePRev == {p1}
NoneMigrated == {}
OneMigrated == {r1}

AllRequests == {"put", "remove revision", "remove recipe", "remove package",
                "remove packages", "latest"}
Uploads == {"put"}
Rotation == {"put", "remove revision"}
Lookups == {"put", "latest"}

\* What an idle worker remembers of its last request is never read again, nor
\* is the last answer; and that files were lost matters while their upload counts
\* as answered.
Seen ==
  <<files, lost \cap acked, acked, crashes, pc,
    [w \in Worker |-> IF pc[w] \in {"idle", "rm recipe"} THEN <<>>
                      ELSE <<place[w], id[w], removing[w], todo[w], list[w]>>]>>
Alike == {p @@ q : p \in Permutations(RRevs), q \in Permutations(PRevs)}
=============================================================================

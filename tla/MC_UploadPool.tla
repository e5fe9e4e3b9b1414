--------------------------- MODULE MC_UploadPool ----------------------------
(* Two recipes, of which one has two packages, in two remotes.               *)
EXTENDS UploadPool
CONSTANTS r1, r2, p1, p2, x, y, z, u, v, w1, w2

Packages == [r \in Ref |-> IF r = r1 THEN {p1, p2} ELSE {}]
Two == <<[name |-> x, url |-> u], [name |-> y, url |-> v]>>

\* One recipe has a remote, the other one, with its packages, will have the first.
FewInit == Init /\ recipes[r1] = None /\ recipes[r2] = y
FewSpec == FewInit /\ [][Next]_vars /\ Fairness

\* What does not hold without the conditions of RemotesKnown and UploadEnds.
AlwaysKnown ==
  (\A a \in Admin : command[a] = Idle) =>
    Range(recipes) \cup Range(packages) \subseteq Names(registry) \cup {None}
AlwaysEnds == upload.phase = "collect" ~> upload.phase \in {"done", "failed"}
=============================================================================

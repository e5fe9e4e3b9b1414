--------------------------- MODULE ReadersWriters ---------------------------
(***************************************************************************)
(* What a readers-writer lock promises: who may be inside at the same time.*)
(***************************************************************************)
CONSTANT Proc

VARIABLE role  \* the lock each process holds

Init == role = [p \in Proc |-> "none"]

\* Readers share the lock, a writer keeps everyone else out.
Read(p) ==
  /\ role[p] = "none"
  /\ \A q \in Proc : role[q] # "writer"
  /\ role' = [role EXCEPT ![p] = "reader"]

Write(p) ==
  /\ \A q \in Proc : role[q] = "none"
  /\ role' = [role EXCEPT ![p] = "writer"]

Release(p) ==
  /\ role[p] # "none"
  /\ role' = [role EXCEPT ![p] = "none"]

Next == \E p \in Proc : Read(p) \/ Write(p) \/ Release(p)

Spec == Init /\ [][Next]_role
=============================================================================

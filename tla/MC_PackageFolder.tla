--------------------------- MODULE MC_PackageFolder ---------------------------
(***************************************************************************)
(* Instances of PackageFolder: which commands run, how many processes run  *)
(* them, and where they may be killed or fail.  The session says it, from  *)
(* the start.                                                              *)
(***************************************************************************)
EXTENDS PackageFolder, TLC

CONSTANTS p1, p2, r1, r2, a, b, Sessions

VARIABLE session

MCvars == <<vars, session>>

\* One recipe revision has a package on the server, the other has none.
SomeRemote == r1 :> a @@ r2 :> NoRev

AllCommands == {"install", "export_pkg", "remove", "export"}
LockedCommands == {"install"}

\* Everywhere but while a package is removed; and, with export-pkg, but
\* between its files and its metadata.
NotRemoving == Places \ {"removing"}
NotBetween == Places \ {"removing", "undirty", "meta"}

\* Two processes install four times, or one runs commands of every kind and is
\* not stopped between the files and the metadata of an export-pkg, or anything.
Fits ==
  \/ /\ session = "installs"
     /\ commands'[p1] + commands'[p2] <= 4 /\ stops' <= 2
     /\ \A p \in Proc : kind'[p] \in {"undecided"} \cup Decisions
  \/ /\ session = "alone"
     /\ pc'[p2] = "idle" /\ (stops' # stops => pc[p1] \in NotBetween)
  \/ session = "any"

MCInit == Init /\ session \in Sessions

MCNext == Next /\ Fits /\ UNCHANGED session

MCSpec == MCInit /\ [][MCNext]_MCvars
=============================================================================

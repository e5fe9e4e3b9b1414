--------------------------- MODULE MC_RecipeFolder ---------------------------
\* Two processes, two packages that have build folders of their own or share
\* one, two revisions of the recipe.
EXTENDS RecipeFolder, TLC

CONSTANTS p1, p2, a, b, shared, r1, r2

Procs == {p1, p2}
Packages == {a, b}
Folders == {a, b, shared}
BuildIds == {a :> a @@ b :> b, a :> shared @@ b :> shared}
Revs == {r1, r2}
Symmetry == Permutations(Procs) \cup Permutations(Packages) \cup Permutations(Revs)
==============================================================================

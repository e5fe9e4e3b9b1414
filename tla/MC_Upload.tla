------------------------------ MODULE MC_Upload ------------------------------
\* Instances of Upload: two clients, three files (compressed file, conanfile.py
\* or conaninfo.txt, conanmanifest.txt).
EXTENDS Upload, TLC

CONSTANTS c1, c2, h1, h2, d

Clients == {c1, c2}
Handlers == {h1, h2}
Alike == Permutations(Handlers)
Setup(package, local, policy) == [package |-> package, local |-> local, policy |-> policy]

\* Revisions enabled: the content is the same.  Revisions disabled: everybody
\* uploads revision "0".
SameContent == [c \in Clients |-> 1]
OwnContent == c1 :> 1 @@ c2 :> 2

Overwriting == [c \in Clients |-> "none"]
NoneOverwrites == [c \in Clients |-> "no-overwrite"]

APackage == Setup(TRUE, SameContent, c1 :> "none" @@ c2 :> "no-overwrite")
OwnRecipes == Setup(FALSE, OwnContent, c1 :> "force" @@ c2 :> "none")
Revisions == {APackage, OwnRecipes}

OneRecipe == {Setup(FALSE, SameContent, Overwriting)}
NoOverwrites == {Setup(FALSE, OwnContent, NoneOverwrites)}
=============================================================================

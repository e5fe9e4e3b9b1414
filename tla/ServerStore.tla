---------------------------- MODULE ServerStore ----------------------------
(***************************************************************************)
(* The storage of conan_server for one recipe: its revisions, and under    *)
(* each of them the revisions of one package, both with an index, a        *)
(* revisions.txt (server/store/server_store.py, driven by                  *)
(* service/v2/service_v2.py and service/common/common.py).                 *)
(*                                                                         *)
(* Requests run in worker processes.  Only single reads and writes of an   *)
(* index are under its file lock (disk_adapter.py), so that the steps of   *)
(* requests interleave.  A place is where an index lives: Recipe, or a     *)
(* recipe revision for its packages.  The files of a revision are not      *)
(* told apart (see Upload for those); it is stored when its folder is      *)
(* there, and whole when its files are.  Empty folders above it are left   *)
(* out.                                                                    *)
(***************************************************************************)
EXTENDS RevisionList, FiniteSets

CONSTANTS
  Worker,      \* the worker processes of the server
  RRev, PRev,  \* the recipe revisions and the package revisions
  Recipe,      \* the place of the recipe's own index
  NoFile,      \* an index that does not exist
  Corrupt,     \* an index cut short by a crash
  NotFound,    \* the answer 404, or an error
  Unasked,     \* no answer yet
  Requests,    \* the requests that clients send
  Migrated,    \* the revisions left by a migration that wrote no index
  MaxEntries,  \* bound: no upload when an index has that many entries
  MaxCrashes   \* bound: how often workers are killed

Places == {Recipe} \cup RRev
Revision(p) == IF p = Recipe THEN RRev ELSE PRev

ASSUME PlaceAssumption == Recipe \notin RRev
ASSUME RRevAssumption == RRev # {}
ASSUME FileAssumption ==
  NoFile # Corrupt /\ \A p \in Places : {NoFile, Corrupt} \cap Seq(Revision(p)) = {}
ASSUME RequestsAssumption ==
  Requests \subseteq {"put", "remove revision", "remove recipe", "remove package",
                      "remove packages", "latest"}
ASSUME MigratedAssumption == Migrated \subseteq RRev
ASSUME BoundsAssumption == MaxEntries \in Nat /\ MaxCrashes \in Nat

VARIABLES
  stored,   \* the revisions that have a folder at each place
  whole,    \* the revisions that have their files
  lost,     \* those whose files a killed worker was replacing, and not saved since
  index,    \* each revisions.txt
  lock,     \* whether each revisions.txt.lock exists
  pc,       \* where each worker is in its request
  place, id,  \* what the request of each worker is about
  removing, \* whether the request removes
  todo,     \* what a worker has still to remove, itself included
  list,     \* the index as each worker is about to write it
  acked,    \* the revisions whose upload was answered, and no removal asked for since
  answer,   \* the last answer to "latest"
  crashes

files == <<stored, whole, index, lock>>
worker == <<pc, place, id, removing, todo, list>>
vars == <<files, worker, lost, acked, answer, crashes>>

AnyRevision == RRev \cup PRev
Deleting == {"rm recipe", "rm revision", "rm packages", "rm package", "unlink"}

TypeOK ==
  /\ stored \in [Places -> SUBSET AnyRevision]
  /\ \A p \in Places : stored[p] \subseteq Revision(p)
  /\ whole \subseteq Places \X AnyRevision /\ lost \subseteq Places \X AnyRevision
  /\ \A p \in Places : index[p] \in Seq(Revision(p)) \cup {NoFile, Corrupt}
  /\ DOMAIN index = Places
  /\ lock \in [Places -> BOOLEAN]
  /\ pc \in [Worker -> {"idle", "put", "save", "fill", "remove", "load", "store", "tidy"}
                           \cup Deleting]
  /\ place \in [Worker -> Places]
  /\ id \in [Worker -> AnyRevision]
  /\ removing \in [Worker -> BOOLEAN]
  /\ todo \in [Worker -> Seq(PRev)]
  /\ list \in [Worker -> Seq(AnyRevision)]
  /\ \A w \in Worker : id[w] \in Revision(place[w])
  /\ \A w \in Worker : pc[w] = "store" => list[w] \in Seq(Revision(place[w]))
  /\ acked \subseteq Places \X AnyRevision
  /\ answer \in AnyRevision \cup {NotFound, Unasked}
  /\ crashes \in 0..MaxCrashes

Init ==
  /\ stored = [p \in Places |-> IF p = Recipe THEN Migrated ELSE {}]
  /\ whole = {Recipe} \X Migrated /\ lost = {}
  /\ index = [p \in Places |-> NoFile]
  /\ lock = [p \in Places |-> FALSE]
  /\ pc = [w \in Worker |-> "idle"]
  /\ place = [w \in Worker |-> Recipe]
  /\ id = [w \in Worker |-> CHOOSE r \in RRev : TRUE]
  /\ removing = [w \in Worker |-> FALSE]
  /\ todo = [w \in Worker |-> <<>>]
  /\ list = [w \in Worker |-> <<>>]
  /\ acked = {}
  /\ answer = Unasked
  /\ crashes = 0

Go(w, to) == pc' = [pc EXCEPT ![w] = to]

\* The list in an index, empty when it cannot be read.
Entries(p) == IF index[p] \in {NoFile, Corrupt} THEN <<>> ELSE index[p]

\* What a file or folder of a place is there for.
HasIndex(p) == index[p] # NoFile \/ lock[p]
\* The folder of a recipe revision, and the one of the recipe.
FolderExists(r) == r \in stored[Recipe] \/ stored[r] # {} \/ HasIndex(r)
RecipeExists == HasIndex(Recipe) \/ \E r \in RRev : FolderExists(r)

-----------------------------------------------------------------------------
(* The requests.  One that is refused changes nothing and is left out.     *)

Request(w, kind) == pc[w] = "idle" /\ kind \in Requests

\* A worker that goes to a step for revision i of place p.
Begin(w, to, p, i, remove, all) ==
  /\ Go(w, to)
  /\ place' = [place EXCEPT ![w] = p]
  /\ id' = [id EXCEPT ![w] = i]
  /\ removing' = [removing EXCEPT ![w] = remove]
  /\ todo' = [todo EXCEPT ![w] = all]
  /\ list' = [list EXCEPT ![w] = <<>>]

\* Mutant: a package is accepted without its recipe.
PutFile_Unchecked(w, p, i) ==
  /\ Request(w, "put")
  /\ Len(Entries(p)) < MaxEntries
  /\ Begin(w, "put", p, i, FALSE, <<>>)
  /\ UNCHANGED <<files, lost, acked, answer, crashes>>

\* upload_recipe_file, upload_package_file: for a package, check that the
\* recipe exists.
PutFile(w, p, i) ==
  /\ Request(w, "put")
  /\ p = Recipe \/ p \in stored[Recipe]
  /\ Len(Entries(p)) < MaxEntries
  /\ Begin(w, "put", p, i, FALSE, <<>>)
  /\ UNCHANGED <<files, lost, acked, answer, crashes>>

\* _upload_to_path: an old file goes first, ...
UnlinkFile(w) ==
  /\ pc[w] = "put"
  /\ whole' = whole \ {<<place[w], id[w]>>}
  /\ Go(w, "save")
  /\ UNCHANGED <<stored, index, lock, place, id, removing, todo, list, lost, acked, answer, crashes>>

\* ... then the folders that are missing are made, ...
MakeFolder(w) ==
  /\ pc[w] = "save"
  /\ stored' = [stored EXCEPT ![place[w]] = @ \cup {id[w]}]
  /\ Go(w, "fill")
  /\ UNCHANGED <<whole, index, lock, place, id, removing, todo, list, lost, acked, answer, crashes>>

\* ... and the new file is saved.  That fails over a file of another worker,
\* or when another worker has removed the folder.
SaveFile(w) ==
  LET revision == <<place[w], id[w]>>
      fails == id[w] \notin stored[place[w]] \/ revision \in whole
  IN  /\ pc[w] = "fill"
      /\ Go(w, IF fails THEN "idle" ELSE "load")
      /\ whole' = IF fails THEN whole ELSE whole \cup {revision}
      /\ lost' = IF fails THEN lost ELSE lost \ {revision}
      /\ UNCHANGED <<stored, index, lock, place, id, removing, todo, list, acked, answer, crashes>>

\* remove_conanfile with a revision: its folder goes, packages and all.
RemoveRecipeRevision(w, r) ==
  /\ Request(w, "remove revision") /\ FolderExists(r)
  /\ acked' = acked \ ({<<Recipe, r>>} \cup {<<r, i>> : i \in PRev})
  /\ Begin(w, "rm revision", Recipe, r, TRUE, <<>>)
  /\ UNCHANGED <<files, lost, answer, crashes>>

\* remove_conanfile without a revision: the folder of the recipe goes.
RemoveRecipe(w) ==
  /\ Request(w, "remove recipe") /\ RecipeExists
  /\ acked' = {}
  /\ Go(w, "rm recipe")
  /\ UNCHANGED <<files, place, id, removing, todo, list, lost, answer, crashes>>

\* remove_all_packages
RemoveAllPackages(w, r) ==
  /\ Request(w, "remove packages") /\ (stored[r] # {} \/ HasIndex(r))
  /\ acked' = acked \ {<<r, i>> : i \in PRev}
  /\ Begin(w, "rm packages", Recipe, r, TRUE, <<>>)
  /\ UNCHANGED <<files, lost, answer, crashes>>

\* remove_package: the revision asked for, or all that the index lists.
RemovePackage(w, r, all) ==
  /\ Request(w, "remove package") /\ all # <<>>
  /\ Begin(w, "remove", r, Head(all), TRUE, all)
  /\ UNCHANGED <<files, lost, acked, answer, crashes>>

PackagesToRemove(r) ==
  {<<i>> : i \in PRev} \cup {AsList(Entries(r))}

\* The next of them.  One that is not there ends the request.
RemovePackageFolder(w) ==
  LET r == place[w]
      i == Head(todo[w])
  IN  /\ pc[w] = "remove"
      /\ Go(w, IF i \in stored[r] THEN "rm package" ELSE "idle")
      /\ acked' = acked \ {<<r, i>>}
      /\ id' = [id EXCEPT ![w] = i]
      /\ UNCHANGED <<files, place, removing, todo, list, lost, answer, crashes>>

-----------------------------------------------------------------------------
(* Deleting folders: delete_folder, with shutil.rmtree.                    *)

\* The folders, and the indexes with their locks, that a worker deletes.
Deletes(w, p, i) ==
  \/ pc[w] = "rm recipe"
  \/ pc[w] = "rm revision" /\ (p = id[w] \/ (p = Recipe /\ i = id[w]))
  \/ pc[w] = "rm packages" /\ p = id[w]
  \/ pc[w] = "rm package" /\ p = place[w] /\ i = id[w]

DeletesIndex(w, p) ==
  \/ pc[w] = "rm recipe"
  \/ pc[w] \in {"rm revision", "rm packages"} /\ p = id[w]
  \/ pc[w] = "unlink" /\ p = Recipe

\* They go one by one in any order.
DeleteFolder(w, p, i) ==
  /\ Deletes(w, p, i) /\ i \in stored[p]
  /\ stored' = [stored EXCEPT ![p] = @ \ {i}]
  /\ whole' = whole \ {<<p, i>>}
  /\ UNCHANGED <<index, lock, worker, lost, acked, answer, crashes>>

DeleteIndex(w, p) ==
  /\ DeletesIndex(w, p) /\ index[p] # NoFile
  /\ index' = [index EXCEPT ![p] = NoFile]
  /\ UNCHANGED <<stored, whole, lock, worker, lost, acked, answer, crashes>>

DeleteLock(w, p) ==
  /\ DeletesIndex(w, p) /\ lock[p]
  /\ lock' = [lock EXCEPT ![p] = FALSE]
  /\ UNCHANGED <<stored, whole, index, worker, lost, acked, answer, crashes>>

Delete(w) ==
  \E p \in Places :
    \/ \E i \in Revision(p) : DeleteFolder(w, p, i)
    \/ DeleteIndex(w, p) \/ DeleteLock(w, p)

Left(w) ==
  \E p \in Places :
    \/ \E i \in stored[p] : Deletes(w, p, i)
    \/ DeletesIndex(w, p) /\ HasIndex(p)

\* When nothing is left the request goes on, to its index if it has to.  What
\* another worker adds meanwhile, or removes, ends the deletion early: rmdir
\* passes over a file that is gone and fails at a folder that is not empty.
EndDelete(w) ==
  LET next == IF pc[w] \in {"rm revision", "rm package"} THEN "load" ELSE "idle"
      early == \E v \in Worker \ {w} : pc[v] # "idle"
  IN  /\ pc[w] \in Deleting /\ (~Left(w) \/ early)
      /\ \E to \in IF Left(w) THEN {next, "idle"} ELSE {next} : Go(w, to)
      /\ UNCHANGED <<files, place, id, removing, todo, list, lost, acked, answer, crashes>>

-----------------------------------------------------------------------------
(* Updating an index: _update_last_revision, _remove_*_from_index.         *)

\* Mutant: an upload always starts a new index.
LoadIndex_Afresh(w) ==
  /\ pc[w] = "load"
  /\ Go(w, "store")
  /\ lock' = [lock EXCEPT ![place[w]] = TRUE]
  /\ list' = [list EXCEPT ![w] = IF removing[w] THEN <<>> ELSE <<id[w]>>]
  /\ UNCHANGED <<stored, whole, index, place, id, removing, todo, lost, acked, answer, crashes>>

\* Mutant: the index of the recipe is read for packages as well.
LoadIndex_OfRecipe(w) ==
  /\ pc[w] = "load"
  /\ Go(w, "store")
  /\ lock' = [lock EXCEPT ![place[w]] = TRUE]
  /\ list' = [list EXCEPT ![w] = AddRevision(Entries(Recipe), id[w])]
  /\ UNCHANGED <<stored, whole, index, place, id, removing, todo, lost, acked, answer, crashes>>

\* Read the index.  An upload starts a missing one; a removal fails, and
\* leaves the lock file that the attempt to read created.
LoadIndex(w) ==
  LET p == place[w]
      starts == ~removing[w] /\ index[p] = NoFile
      fails == ~starts /\ index[p] \in {NoFile, Corrupt}
  IN  /\ pc[w] = "load"
      /\ Go(w, IF fails THEN "idle" ELSE "store")
      /\ lock' = [lock EXCEPT ![p] = @ \/ ~starts]
      /\ list' = [list EXCEPT ![w] =
                    IF fails THEN <<>>
                    ELSE IF removing[w] THEN RemoveRevision(Entries(p), id[w])
                    ELSE AddRevision(Entries(p), id[w])]
      /\ UNCHANGED <<stored, whole, index, place, id, removing, todo, lost, acked, answer, crashes>>

\* Write it, which makes the folders that are missing.  Then an upload is
\* answered, and a removal goes on.
WriteIndex(w) ==
  LET p == place[w]
  IN  /\ pc[w] = "store"
      /\ index' = [index EXCEPT ![p] = list[w]]
      /\ lock' = [lock EXCEPT ![p] = TRUE]
      /\ list' = [list EXCEPT ![w] = <<>>]
      /\ IF removing[w]
         THEN /\ Go(w, IF p = Recipe THEN "tidy"
                       ELSE IF Len(todo[w]) > 1 THEN "remove" ELSE "idle")
              /\ todo' = [todo EXCEPT ![w] = IF @ = <<>> THEN @ ELSE Tail(@)]
              /\ UNCHANGED acked
         ELSE /\ Go(w, "idle")
              /\ acked' = acked \cup {<<p, id[w]>>}
              /\ UNCHANGED todo
      /\ UNCHANGED <<stored, whole, place, id, removing, lost, answer, crashes>>

\* Mutant: the folder of the recipe is never tidied.
Tidy_Never(w) ==
  /\ pc[w] = "tidy"
  /\ Go(w, "idle")
  /\ UNCHANGED <<files, place, id, removing, todo, list, lost, acked, answer, crashes>>

\* _delete_empty_dirs: from the folder of the revision upwards.  When the
\* folder of the recipe holds the index and its lock only, these two are removed,
\* and so is the folder if it is empty then.
Tidy(w) ==
  /\ pc[w] = "tidy"
  /\ Go(w, IF /\ \A r \in RRev : ~FolderExists(r)
              /\ index[Recipe] # NoFile /\ lock[Recipe]
           THEN "unlink" ELSE "idle")
  /\ UNCHANGED <<files, place, id, removing, todo, list, lost, acked, answer, crashes>>

\* A worker is killed between two steps, in the middle of a write, or with some
\* files of a folder deleted.
Crash(w) ==
  LET p == place[w]
  IN  /\ pc[w] # "idle" /\ crashes < MaxCrashes
      /\ crashes' = crashes + 1
      /\ Go(w, "idle")
      /\ \/ UNCHANGED <<index, lock>>
         \/ /\ pc[w] = "store"
            /\ index' = [index EXCEPT ![p] = Corrupt]
            /\ lock' = [lock EXCEPT ![p] = TRUE]
      /\ list' = [list EXCEPT ![w] = <<>>]
      /\ \E cut \in {{}} \cup {{x} : x \in {y \in whole : Deletes(w, y[1], y[2])}} :
           whole' = whole \ cut
      /\ lost' = IF pc[w] \in {"save", "fill"} THEN lost \cup {<<p, id[w]>>} ELSE lost
      /\ UNCHANGED <<stored, place, id, removing, todo, acked, answer>>

\* _get_latest_revision.  "if not rev_list" is never true, as a RevisionList
\* has no length: what it guards, an index made for revision "0" when there is
\* none, is never reached.
Latest(p) ==
  IF Entries(p) = <<>> THEN NotFound ELSE Last(Entries(p))

GetLatestRevision(w) ==
  /\ Request(w, "latest")
  /\ answer' = Latest(Recipe)
  /\ UNCHANGED <<files, worker, lost, acked, crashes>>

-----------------------------------------------------------------------------
Next ==
  \E w \in Worker :
    \/ \E p \in Places : \E i \in Revision(p) : PutFile(w, p, i)
    \/ \E r \in RRev :
         \/ RemoveRecipeRevision(w, r) \/ RemoveAllPackages(w, r)
         \/ \E all \in PackagesToRemove(r) : RemovePackage(w, r, all)
    \/ RemoveRecipe(w) \/ GetLatestRevision(w)
    \/ UnlinkFile(w) \/ MakeFolder(w) \/ SaveFile(w)
    \/ RemovePackageFolder(w) \/ Delete(w) \/ EndDelete(w)
    \/ LoadIndex(w) \/ WriteIndex(w) \/ Tidy(w) \/ Crash(w)

Spec == Init /\ [][Next]_vars

-----------------------------------------------------------------------------
(* Properties.                                                             *)

Idle == \A w \in Worker : pc[w] = "idle"

\* The files of the revision are being replaced.
Replaced(p, i) ==
  \E w \in Worker : pc[w] \in {"save", "fill"} /\ place[w] = p /\ id[w] = i

\* A revision whose upload was answered is on the server, and its index lists
\* it ("If the upload was ok, update the pointer to the latest",
\* upload_recipe_file), unless a crash cut that index short; and it has its
\* files, but while they are replaced, or when a worker was killed at that.
AckedServed ==
  \A p \in Places, i \in AnyRevision :
    <<p, i>> \in acked =>
      /\ i \in stored[p]
      /\ index[p] = Corrupt \/ i \in ToSet(Entries(p))
      /\ <<p, i>> \in whole \cup lost \/ Replaced(p, i)

\* A package whose upload was answered belongs to a recipe that is there
\* (upload_package_file checks it), until it or its recipe is asked to be
\* removed, wherever workers are killed.  A removal that is killed may leave
\* packages without their recipe, of which nobody was told that they stay.
PackagesHaveRecipe ==
  \A r \in RRev, i \in PRev : <<r, i>> \in acked => r \in stored[Recipe]

\* When the last revision has been removed nothing is left of the recipe, so
\* that it is not found any more (_delete_empty_dirs).
NothingLeft ==
  Idle /\ crashes = 0 /\ (\A r \in RRev : ~FolderExists(r)) => ~RecipeExists

\* When some uploads were answered the latest revision is one that is there:
\* "If we have two RREvs in the server and we remove the second one, the first
\* is now the latest" (test_rotation_deleting_recipe_revisions).
LatestServed ==
  \A p \in Places, i \in AnyRevision :
    Idle /\ index[p] # Corrupt /\ <<p, i>> \in acked => Latest(p) \in stored[p]

\* "FIXING BREAK MIGRATION NOT CREATING INDEXES": the latest revision is found
\* when the migration left one and no index.
MigratedFound ==
  [][\A w \in Worker : GetLatestRevision(w) /\ Migrated \subseteq stored[Recipe]
                         /\ Migrated # {} => answer' # NotFound]_vars
=============================================================================

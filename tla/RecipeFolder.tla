----------------------------- MODULE RecipeFolder -----------------------------
(***************************************************************************)
(* The folder of one recipe in the cache: what was exported or downloaded  *)
(* (proxy.py, remote_manager.py, export.py), the sources taken from it     *)
(* (source.py), and the build folders and packages made from those         *)
(* (installer.py), by several conan processes.                             *)
(*                                                                         *)
(* The recipe lock is modelled by what it promises, ReadersWriters, which  *)
(* CountLock shows to hold until its files are removed.  remove_recipe     *)
(* removes them inside its own write section: it is the release of the     *)
(* lock, long before the section ends.                                     *)
(*                                                                         *)
(* A folder is None, the revision it holds, or Torn: anything else.  Not   *)
(* in here: --keep-source, --keep-build, build_policy "always", editable   *)
(* packages; of the packages, all that PackageFolder models.               *)
(***************************************************************************)
EXTENDS Naturals

CONSTANTS
  Proc,
  Package,
  Folder,       \* the names of build folders, those of the packages included
  BuildFolders, \* what build_id may say: the build folder of each package
  Rev,          \* revisions of the recipe
  None, Torn,
  Nobody,
  MaxCommands,  \* bound: how many commands are started
  MaxStops      \* bound: how many processes are killed, or fail

ASSUME PackageAssumption == Package \subseteq Folder
ASSUME BuildFoldersAssumption == BuildFolders \subseteq [Package -> Folder]
ASSUME ValuesAssumption ==
  None \notin Rev /\ Torn \notin Rev /\ None # Torn /\ Nobody \notin Proc
ASSUME BoundsAssumption == MaxCommands \in Nat /\ MaxStops \in Nat

VARIABLES
  export,      \* the export folder, with conanfile.py
  exports,     \* the folder of the exported sources, which may be fetched later
  revision,    \* recipe.revision of metadata.json
  source, sourceDirty,
  build,       \* what each build folder was copied, or built, from
  built,       \* whether it was built
  buildDirty,
  packaged,    \* what each package was built from, once it is
  claims,      \* the recipe revision metadata.json says it was built from
  role,        \* the recipe lock: see ReadersWriters
  holder,      \* the process that holds the lock of each package
  pc,
  cmd,         \* the command of each process: see Command
  latest,      \* the latest revision on the server
  commands, stops,
  gap,         \* whether a step went through a gap of the locks and the marks
  buildOf,     \* what build_id says, from the start
  noCopy       \* no_copy_source of the recipe, from the start

recipe == <<export, exports, revision>>
sources == <<source, sourceDirty>>
builds == <<build, built, buildDirty>>
packages == <<packaged, claims>>
folders == <<recipe, sources, builds, packages>>
bounds == <<latest, commands, stops, buildOf, noCopy>>
vars == <<folders, role, holder, pc, cmd, bounds, gap>>

Content == Rev \cup {None, Torn}

\* The package that is installed, the revision and the loaded recipe it is
\* installed from, whether it is not built, or what is exported is not new.
Command == [pkg : Package \cup {None}, rev : Rev \cup {None}, loaded : Content,
            skip : BOOLEAN]
NoCommand == [pkg |-> None, rev |-> None, loaded |-> None, skip |-> FALSE]

\* The parts of a command, by the lines that protect them, or do not.
Fetching == {"fetch", "clear", "record"}
Sourcing == {"mark", "unpack", "unpacked", "source", "filling", "copy"}
Building == {"folder", "sources", "reader", "build", "package"} \cup Sourcing
Exporting == {"replace", "replaced"}
AfterExport == {"revise", "stale"}

TypeOK ==
  /\ {export, exports, source} \subseteq Content
  /\ revision \in Rev \cup {None}
  /\ sourceDirty \in BOOLEAN
  /\ build \in [Folder -> Content]
  /\ built \in [Folder -> BOOLEAN] /\ buildDirty \in [Folder -> BOOLEAN]
  /\ packaged \in [Package -> Content]
  /\ claims \in [Package -> Rev \cup {None}]
  /\ role \in [Proc -> {"none", "reader", "writer"}]
  /\ holder \in [Package -> Proc \cup {Nobody}]
  /\ pc \in [Proc -> {"idle", "dead", "recipe", "get", "load", "lock", "export"}
                     \cup Fetching \cup Building \cup Exporting \cup AfterExport]
  /\ cmd \in [Proc -> Command]
  /\ latest \in Rev
  /\ commands \in 0..MaxCommands /\ stops \in 0..MaxStops
  /\ gap \in BOOLEAN
  /\ buildOf \in BuildFolders /\ noCopy \in BOOLEAN

RW == INSTANCE ReadersWriters WITH Proc <- Proc, role <- role

Init ==
  /\ export = None /\ exports = None /\ revision = None
  /\ source = None /\ sourceDirty = FALSE
  /\ build = [f \in Folder |-> None]
  /\ built = [f \in Folder |-> FALSE]
  /\ buildDirty = [f \in Folder |-> FALSE]
  /\ packaged = [k \in Package |-> None]
  /\ claims = [k \in Package |-> None]
  /\ RW!Init
  /\ holder = [k \in Package |-> Nobody]
  /\ pc = [p \in Proc |-> "idle"]
  /\ cmd = [p \in Proc |-> NoCommand]
  /\ latest \in Rev
  /\ commands = 0 /\ stops = 0 /\ gap = FALSE
  /\ buildOf \in BuildFolders /\ noCopy \in BOOLEAN

Go(p, to) == pc' = [pc EXCEPT ![p] = to]
Goes(p, from, to) == pc[p] = from /\ Go(p, to)
BuildFolder(p) == buildOf[cmd[p].pkg]
Active(p) == pc[p] \notin {"idle", "dead"}

Unlock(p) == role' = [role EXCEPT ![p] = "none"]

\* The end of a command, by whatever way: it has no package lock any more.
Leave(p, to) ==
  /\ Go(p, to)
  /\ cmd' = [cmd EXCEPT ![p] = NoCommand]
  /\ holder' = [k \in Package |-> IF holder[k] = p THEN Nobody ELSE holder[k]]

\* An exception leaves all sections; every mark stays as it is.
Raise(p) ==
  /\ stops < MaxStops /\ stops' = stops + 1
  /\ Leave(p, "idle") /\ Unlock(p)
  /\ UNCHANGED <<latest, commands, buildOf, noCopy>>

-----------------------------------------------------------------------------
(* The recipe: ConanProxy.get_recipe and RemoteManager.get_recipe.         *)

Start(p, to, command) ==
  /\ commands < MaxCommands
  /\ commands' = commands + 1
  /\ Goes(p, "idle", to)
  /\ cmd' = [cmd EXCEPT ![p] = command]
  /\ UNCHANGED <<folders, role, holder, latest, stops, buildOf, noCopy>>

\* Of a package, and of a revision of the recipe or of whichever there is.
Install(p, k, r) == Start(p, "recipe", [NoCommand EXCEPT !.pkg = k, !.rev = r])

WriteLock(p, from, to) ==
  /\ Goes(p, from, to) /\ RW!Write(p)
  /\ UNCHANGED <<folders, holder, cmd, bounds>>

\* remove_recipe: the sources, what was exported, and the lock.
RemoveRecipe(p) == source' = None /\ export' = None /\ exports' = None /\ Unlock(p)

\* The recipe in the cache is used, if there is one of the revision asked for,
\* or with --update replaced by one that is newer on the server; another
\* revision is fetched with --update, and refused without.
GetRecipe(p) ==
  /\ pc[p] = "get"
  /\ \/ /\ export = None \/ cmd[p].rev \notin {None, revision}
        /\ Go(p, "fetch")
        /\ UNCHANGED <<recipe, source, role, holder, cmd>>
     \/ /\ export # None /\ cmd[p].rev \notin {None, revision}
        /\ Leave(p, "idle") /\ Unlock(p)
        /\ UNCHANGED <<recipe, source>>
     \/ /\ export # None /\ cmd[p].rev = None /\ latest # export
        /\ Go(p, "fetch") /\ RemoveRecipe(p)
        /\ UNCHANGED <<revision, holder, cmd>>
     \/ /\ export # None /\ cmd[p].rev \in {None, revision}
        /\ Go(p, "load") /\ Unlock(p)
        /\ cmd' = [cmd EXCEPT ![p].rev = revision]
        /\ UNCHANGED <<recipe, source, holder>>
  /\ UNCHANGED <<sourceDirty, builds, packages, bounds>>

\* get_recipe begins with export_remove, then it resolves the latest revision
\* and downloads it: if that fails there is no recipe any more.
Fetch(p) ==
  /\ pc[p] = "fetch"
  /\ exports' = None
  /\ \/ /\ Go(p, "clear")
        /\ cmd' = [cmd EXCEPT ![p].rev = IF @ = None THEN latest ELSE @]
        /\ export' = cmd'[p].rev
        /\ UNCHANGED <<role, holder, bounds>>
     \/ Raise(p) /\ export' = None
  /\ UNCHANGED <<revision, sources, builds, packages>>

\* Mutant: the sources are left to config_source.
ClearSource_Keep(p) ==
  /\ Goes(p, "clear", "record")
  /\ UNCHANGED <<folders, role, holder, cmd, bounds>>

\* "Make sure that the source dir is deleted", ...
ClearSource(p) ==
  /\ Goes(p, "clear", "record")
  /\ source' = None
  /\ UNCHANGED <<recipe, sourceDirty, builds, packages, role, holder, cmd, bounds>>

\* ... and the metadata at the end.
Record(p) ==
  /\ Goes(p, "record", "load")
  /\ revision' = cmd[p].rev /\ Unlock(p)
  /\ UNCHANGED <<export, exports, sources, builds, packages, holder, cmd, bounds>>

\* The loader reads conanfile.py without a lock.
Load(p) ==
  /\ pc[p] = "load"
  /\ IF export \in Rev /\ cmd[p].rev # None
     THEN /\ Go(p, "lock") /\ cmd' = [cmd EXCEPT ![p].loaded = export]
          /\ UNCHANGED holder
     ELSE Leave(p, "idle")
  /\ UNCHANGED <<folders, role, bounds>>

-----------------------------------------------------------------------------
(* The build: BinaryInstaller._handle_node_cache and                       *)
(* _PackageBuilder.build_package.                                          *)

\* The package lock, and the package is removed: see PackageFolder.
LockPackage(p) ==
  /\ Goes(p, "lock", "folder")
  /\ holder[cmd[p].pkg] = Nobody
  /\ holder' = [holder EXCEPT ![cmd[p].pkg] = p]
  /\ packaged' = [packaged EXCEPT ![cmd[p].pkg] = None]
  /\ UNCHANGED <<recipe, sources, builds, claims, role, cmd, bounds>>

\* Mutant: the folder goes, its mark stays.
GetBuildFolder_Marked(p) ==
  LET f == BuildFolder(p)
      reuse == f # cmd[p].pkg /\ build[f] # None /\ ~buildDirty[f]
  IN  /\ Goes(p, "folder", IF reuse THEN "reader" ELSE "sources")
      /\ build' = [build EXCEPT ![f] = IF buildDirty[f] THEN None ELSE @]
      /\ built' = [built EXCEPT ![f] = @ /\ ~buildDirty[f]]
      /\ cmd' = [cmd EXCEPT ![p].skip = reuse]
      /\ UNCHANGED <<recipe, sources, buildDirty, packages, role, holder, bounds>>

\* _get_build_folder: a dirty build folder goes, with its mark; one that is
\* not of this package, as build_id says, is used as it is.
GetBuildFolder(p) ==
  LET f == BuildFolder(p)
      reuse == f # cmd[p].pkg /\ build[f] # None /\ ~buildDirty[f]
  IN  /\ Goes(p, "folder", IF reuse THEN "reader" ELSE "sources")
      /\ build' = [build EXCEPT ![f] = IF buildDirty[f] THEN None ELSE @]
      /\ built' = [built EXCEPT ![f] = @ /\ ~buildDirty[f]]
      /\ buildDirty' = [buildDirty EXCEPT ![f] = FALSE]
      /\ cmd' = [cmd EXCEPT ![p].skip = reuse]
      /\ UNCHANGED <<recipe, sources, packages, role, holder, bounds>>

\* set_dirty fails where there is a mark.
MarkBuild(p) ==
  /\ pc[p] = "mark"
  /\ IF buildDirty[BuildFolder(p)] THEN Leave(p, "idle") /\ Unlock(p)
     ELSE Go(p, "unpack") /\ UNCHANGED <<role, holder, cmd>>
  /\ buildDirty' = [buildDirty EXCEPT ![BuildFolder(p)] = TRUE]
  /\ UNCHANGED <<recipe, sources, build, built, packages, bounds>>

\* retrieve_exports_sources: a folder that exists is the exported sources, ...
RetrieveExports(p) ==
  /\ Goes(p, "unpack", IF exports # None THEN "source" ELSE "unpacked")
  /\ exports' = IF exports # None THEN exports ELSE Torn
  /\ UNCHANGED <<export, revision, sources, builds, packages, role, holder, cmd, bounds>>

\* Mutant: what could be extracted of a damaged archive is left.
Unpacked_Left(p) ==
  /\ pc[p] = "unpacked"
  /\ \/ Go(p, "source") /\ exports' = cmd[p].rev /\ UNCHANGED <<role, holder, cmd, bounds>>
     \/ Raise(p) /\ UNCHANGED exports
  /\ UNCHANGED <<export, revision, sources, builds, packages>>

\* ... which an archive that cannot be extracted does not leave behind.
Unpacked(p) ==
  /\ pc[p] = "unpacked"
  /\ \/ Go(p, "source") /\ exports' = cmd[p].rev /\ UNCHANGED <<role, holder, cmd, bounds>>
     \/ Raise(p) /\ exports' = None
  /\ UNCHANGED <<export, revision, sources, builds, packages>>

\* config_source: dirty sources go, and if there are none they are prepared
\* under a mark, ...
ConfigSource(p) ==
  LET prepare == sourceDirty \/ source = None
  IN  /\ Goes(p, "source", IF prepare THEN "filling" ELSE "copy")
      /\ source' = IF prepare THEN Torn ELSE source
      /\ sourceDirty' = prepare
      /\ UNCHANGED <<recipe, builds, packages, role, holder, cmd, bounds>>

\* ... by source() of the recipe, from the exported files.
RunSource(p) ==
  /\ pc[p] = "filling"
  /\ \/ /\ Go(p, "copy")
        /\ source' = IF export = exports /\ export = cmd[p].loaded THEN export ELSE Torn
        /\ sourceDirty' = FALSE
        /\ UNCHANGED <<role, holder, cmd, bounds>>
     \/ Raise(p) /\ UNCHANGED sources
  /\ UNCHANGED <<recipe, builds, packages>>

\* The end of the write section.  Without a copy there is no build folder yet.
CopySources(p) ==
  LET f == BuildFolder(p)
  IN  /\ Goes(p, "copy", "reader") /\ Unlock(p)
      /\ build' = [build EXCEPT ![f] = IF noCopy THEN None ELSE source]
      /\ built' = [built EXCEPT ![f] = FALSE]
      /\ UNCHANGED <<recipe, sources, buildDirty, packages, holder, cmd, bounds>>

ReadLock(p) ==
  /\ Goes(p, "reader", IF cmd[p].skip THEN "package" ELSE "build")
  /\ RW!Read(p)
  /\ UNCHANGED <<folders, holder, cmd, bounds>>

\* What build() and package() of the recipe make of what they are given.
Made(p, from) == IF from = cmd[p].loaded THEN from ELSE Torn

BuildFinishes(p) ==
  /\ Go(p, "package")
  /\ build' = [build EXCEPT ![BuildFolder(p)] = Made(p, IF noCopy THEN source ELSE @)]
  /\ built' = [built EXCEPT ![BuildFolder(p)] = TRUE]
  /\ UNCHANGED <<role, holder, cmd, bounds>>

BuildFails(p) ==
  /\ Raise(p)
  /\ build' = [build EXCEPT ![BuildFolder(p)] = IF @ = None THEN Torn ELSE @]
  /\ UNCHANGED built

\* Mutant: a build folder is clean before it is built.
Build_CleanFirst(p) ==
  /\ pc[p] = "build" /\ (BuildFinishes(p) \/ BuildFails(p))
  /\ buildDirty' = [buildDirty EXCEPT ![BuildFolder(p)] = FALSE]
  /\ UNCHANGED <<recipe, sources, packages>>

\* A build that fails leaves the folder it made, and the mark; clean_dirty
\* fails where there is none.
Build(p) ==
  /\ pc[p] = "build"
  /\ \/ BuildFinishes(p) /\ buildDirty[BuildFolder(p)]
        /\ buildDirty' = [buildDirty EXCEPT ![BuildFolder(p)] = FALSE]
     \/ (BuildFails(p) \/ (~buildDirty[BuildFolder(p)] /\ Leave(p, "idle") /\ Unlock(p)
                           /\ UNCHANGED <<build, built, bounds>>))
        /\ UNCHANGED buildDirty
  /\ UNCHANGED <<recipe, sources, packages>>

\* Mutant: the metadata of an earlier package is kept.
MakePackage_OldClaim(p) ==
  LET f == BuildFolder(p)
      k == cmd[p].pkg
  IN  /\ pc[p] = "package" /\ Leave(p, "idle") /\ Unlock(p)
      /\ packaged' = [packaged EXCEPT ![k] = IF built[f] THEN Made(p, build[f]) ELSE Torn]
      /\ claims' = [claims EXCEPT ![k] = IF @ = None THEN cmd[p].rev ELSE @]
      /\ UNCHANGED <<recipe, sources, builds, bounds>>

\* package(), the metadata of the package, and its mark goes: the command ends.
MakePackage(p) ==
  LET f == BuildFolder(p)
      k == cmd[p].pkg
  IN  /\ pc[p] = "package" /\ Leave(p, "idle") /\ Unlock(p)
      /\ packaged' = [packaged EXCEPT ![k] = IF built[f] THEN Made(p, build[f]) ELSE Torn]
      /\ claims' = [claims EXCEPT ![k] = cmd[p].rev]
      /\ UNCHANGED <<recipe, sources, builds, bounds>>

-----------------------------------------------------------------------------
(* conan export: cmd_export.                                               *)

Export(p, r) == Start(p, "export", [NoCommand EXCEPT !.rev = r])

\* export_remove, then the files one by one.
Replace(p) ==
  /\ Goes(p, "replace", "replaced")
  /\ cmd' = [cmd EXCEPT ![p].skip = export = cmd[p].rev]  \* "has not changed"
  /\ export' = Torn /\ exports' = Torn
  /\ UNCHANGED <<revision, sources, builds, packages, role, holder, bounds>>

Replaced(p) ==
  /\ Goes(p, "replaced", "revise") /\ Unlock(p)
  /\ export' = cmd[p].rev /\ exports' = cmd[p].rev
  /\ UNCHANGED <<revision, sources, builds, packages, holder, cmd, bounds>>

\* From here on no lock is held.
Revise(p) ==
  /\ Goes(p, "revise", "stale")
  /\ revision' = cmd[p].rev
  /\ UNCHANGED <<export, exports, sources, builds, packages, role, holder, cmd, bounds>>

\* The sources are removed, or where that fails marked.
RemoveSource ==
  \/ source' = None /\ sourceDirty' = FALSE
  \/ source' = Torn /\ sourceDirty' = TRUE

\* The packages of other revisions are removed.
Purge ==
  packaged' = [k \in Package |-> IF claims[k] \in {None, revision} THEN packaged[k] ELSE None]

\* Dirty sources go, and those of another recipe.
RemoveStale(p) ==
  /\ pc[p] = "stale" /\ Leave(p, "idle")
  /\ IF source # None /\ (sourceDirty \/ ~cmd[p].skip) THEN RemoveSource ELSE UNCHANGED sources
  /\ Purge
  /\ UNCHANGED <<recipe, builds, claims, role, bounds>>

-----------------------------------------------------------------------------
(* The rest of the world.                                                  *)

\* A killed process stays in the count of the recipe lock; the package lock is
\* released with it.
Kill(p) ==
  /\ Active(p) /\ stops < MaxStops
  /\ stops' = stops + 1
  /\ Leave(p, IF role[p] # "none" THEN "dead" ELSE "idle")
  /\ UNCHANGED <<folders, role, latest, commands, buildOf, noCopy>>

\* conan remove --locks, while nothing runs.
CleanLocks(p) ==
  /\ Goes(p, "dead", "idle") /\ RW!Release(p)
  /\ \A q \in Proc : ~Active(q)
  /\ UNCHANGED <<folders, holder, cmd, bounds>>

Publish(r) ==
  /\ latest # r /\ latest' = r
  /\ commands < MaxCommands /\ commands' = commands + 1
  /\ UNCHANGED <<folders, role, holder, pc, cmd, stops, buildOf, noCopy>>

-----------------------------------------------------------------------------
(* The gaps: what neither a lock nor a mark covers.                        *)

\* export goes on without its lock, and so does an update after remove_recipe.
Unlocked(p) ==
  \/ pc[p] \in AfterExport
  \/ pc[p] \in Fetching /\ role[p] = "none"

\* A recipe is replaced while another process, between its locks, goes on with
\* the old one.
Replaces(p, q) == pc[p] \in {"fetch", "replaced"} /\ pc[q] \in {"load", "lock"} \cup Building

\* What build_id says: one build folder, and two package locks.
Share(p, q) ==
  /\ {pc[p], pc[q]} \subseteq Building
  /\ cmd[p].pkg # cmd[q].pkg /\ BuildFolder(p) = BuildFolder(q)

Overlap ==
  \E p, q \in Proc :
    p # q /\ ((Unlocked(p) /\ Active(q)) \/ Replaces(p, q) \/ Share(p, q))

\* Folders are half way between two recipes, with no mark to tell.
HalfWay(p) == pc[p] \in {"clear", "record", "unpacked", "replaced", "revise", "stale"}

-----------------------------------------------------------------------------
Step(p) ==
  \/ GetRecipe(p) \/ Fetch(p) \/ ClearSource(p) \/ Record(p) \/ Load(p)
  \/ GetBuildFolder(p) \/ MarkBuild(p) \/ RetrieveExports(p) \/ Unpacked(p)
  \/ ConfigSource(p) \/ RunSource(p) \/ CopySources(p)
  \/ Build(p) \/ MakePackage(p)
  \/ Replace(p) \/ Replaced(p) \/ Revise(p) \/ RemoveStale(p)

Enter(p) ==
  \/ WriteLock(p, "recipe", "get")
  \/ WriteLock(p, "sources", "mark")
  \/ WriteLock(p, "export", "replace")
  \/ ReadLock(p) \/ LockPackage(p)

Work(p) ==
  \/ \E k \in Package, r \in Rev \cup {None} : Install(p, k, r)
  \/ \E r \in Rev : Export(p, r)
  \/ Enter(p) \/ Step(p) \/ CleanLocks(p)

Next ==
  \/ (\E p \in Proc : Work(p)) /\ gap' = (gap \/ Overlap')
  \/ \E p \in Proc : Kill(p) /\ gap' = (gap \/ HalfWay(p))
  \/ (\E r \in Rev : Publish(r)) /\ UNCHANGED gap

Spec == Init /\ [][Next]_vars

\* A process that polls for the recipe lock gets it, if it is free again and
\* again, and so for the lock of a package.
LiveSpec ==
  /\ Spec
  /\ \A p \in Proc : WF_vars(Step(p) /\ gap' = (gap \/ Overlap'))
                     /\ SF_vars(Enter(p) /\ gap' = (gap \/ Overlap'))

-----------------------------------------------------------------------------
(* Properties.                                                             *)

\* Nobody is in the middle of a change of the recipe.
Settled ==
  \A p \in Proc : role[p] # "writer" /\ pc[p] \notin AfterExport \cup Fetching

\* Sources without a mark are those of the recipe in the cache ("Make sure that
\* the source dir is deleted", "remove old sources if dirty"): killed or failed
\* anywhere else, and by whichever process prepared, no build starts from the
\* sources of another recipe or from a part of them, not even after a download
\* that failed and took the recipe away.
SourcesAgree ==
  ~gap /\ Settled /\ export # None /\ source # None /\ ~sourceDirty => source = export

\* The revision in the metadata is that of the recipe, and the sources exported
\* with it, fetched at once or by a later build, are its own.
RecipeAgrees ==
  ~gap /\ Settled /\ export # None => revision = export /\ exports \in {None, export}

\* A package is built, as a whole, from the recipe revision its metadata names:
\* what the revision of a package is good for.
AlwaysAsClaimed == ~gap => \A k \in Package : packaged[k] \in {None, claims[k]}

\* The same, where a package has a build folder of its own: the build folder of
\* a build_id outlives the recipe it was built from.
BuiltAsClaimed ==
  ~gap => \A k \in Package : buildOf[k] = k => packaged[k] \in {None, claims[k]}

\* A build folder without a mark was built to the end, all of it from one
\* recipe, whichever package builds or uses it next.
BuildsWhole ==
  ~gap => \A f \in Folder : build[f] # None /\ ~buildDirty[f] => built[f] /\ build[f] \in Rev

\* set_dirty never finds the mark of a build folder and clean_dirty never
\* misses it: a failed or killed build can be run again.
MarksBalanced ==
  ~gap => \A p \in Proc : /\ pc[p] = "mark" => ~buildDirty[BuildFolder(p)]
                          /\ pc[p] = "build" => buildDirty[BuildFolder(p)]

\* Every command ends, unless it waits for the lock of a dead process.
CommandEnds ==
  \A p \in Proc : Active(p) ~> (~Active(p) \/ \E q \in Proc : pc[q] = "dead")
=============================================================================

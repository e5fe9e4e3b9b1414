---------------------------- MODULE PackageFolder ----------------------------
(***************************************************************************)
(* One package in the local cache: its folder, the dirty mark beside it    *)
(* and its entry in metadata.json, under the conan processes that share    *)
(* the cache (client/graph/graph_binaries.py, client/installer.py,         *)
(* client/remote_manager.py, client/cmd/export_pkg.py, client/cmd/export.py*)
(* and client/remover.py, over package_cache_layout.py).                   *)
(*                                                                         *)
(* An install takes the package lock to clean a corrupted folder before it *)
(* decides where the binary comes from, to act on that decision, and to    *)
(* use what it downloaded.  Others may change the package in between.      *)
(* export-pkg, export and remove take no package lock, and remove deletes  *)
(* the lock file: "lockFile" is the inode behind its name, "fd" the one    *)
(* each process has open (see CountLock).                                  *)
(*                                                                         *)
(* The content of a package is known by its revision and the revision of   *)
(* its recipe.  update_metadata is one step (see MetadataFile).  Revisions are enabled.        *)
(***************************************************************************)
EXTENDS Integers

CONSTANTS
  Proc,        \* the conan processes that share the cache
  RRev, PRev,  \* recipe and package revisions
  Remote,      \* the package revision on the server for a recipe revision
  NoRev,       \* no revision: none on the server, or not known yet
  None,        \* no folder, or no entry in the metadata
  Partial,     \* a folder with some of the files of a package
  Unread,      \* metadata that was not read under the lock
  Commands,    \* the commands the processes run
  StopsAt,     \* the places where a process may be killed or fail
  MaxCommands, \* bound: how many commands each process runs
  MaxStops     \* bound: how many of them are killed or fail

Package == [rev : PRev, rrev : RRev]

ASSUME RevAssumption == RRev # {} /\ NoRev \notin PRev
ASSUME RemoteAssumption == Remote \in [RRev -> PRev \cup {NoRev}]
ASSUME NoneAssumption ==
  /\ None # Partial /\ None # Unread
  /\ {None, Partial, Unread} \cap Package = {}
ASSUME CommandsAssumption == Commands \subseteq {"install", "export_pkg", "remove", "export"}
ASSUME BoundsAssumption == MaxCommands \in Nat /\ MaxStops \in Nat

VARIABLES
  folder,    \* the package folder
  dirty,     \* whether <folder>.dirty exists
  meta,      \* the entry of the package in metadata.json
  recipe,    \* the recipe revision in the cache
  lockFile,  \* the inode behind the name of the package lock
  fd,        \* the one each process has open
  locked,    \* whether it owns the lock of that inode
  pc,        \* where each process is
  kind,      \* what it does to the package: its command, or its decision
  rrev,      \* the recipe revision it works with
  prev,      \* the package revision it decided on, or produced
  known,     \* the metadata it decides on
  commands,  \* how many commands each process has begun
  stops      \* how many of them were killed or failed

package == <<folder, dirty, meta>>
locks == <<lockFile, fd, locked>>
choice == <<kind, rrev, prev, known>>
bounds == <<commands, stops>>
vars == <<package, recipe, locks, pc, choice, bounds>>

Places == {"idle", "waiting", "clean", "decide", "act", "check", "removing", "mark",
           "meta", "begin", "end", "undirty", "fetched", "forget", "use"}
Decisions == {"cache", "download", "build"}

TypeOK ==
  /\ folder \in Package \cup {None, Partial}
  /\ dirty \in BOOLEAN
  /\ meta \in Package \cup {None}
  /\ recipe \in RRev
  /\ lockFile \in Nat
  /\ fd \in [Proc -> Nat]
  /\ locked \in [Proc -> BOOLEAN]
  /\ pc \in [Proc -> Places]
  /\ kind \in [Proc -> Decisions \cup {"undecided", "export_pkg", "remove", "export"}]
  /\ rrev \in [Proc -> RRev]
  /\ prev \in [Proc -> PRev \cup {NoRev}]
  /\ known \in [Proc -> Package \cup {None, Unread}]
  /\ commands \in [Proc -> 0..MaxCommands]
  /\ stops \in 0..MaxStops

Init ==
  /\ folder = None /\ dirty = FALSE /\ meta = None
  /\ recipe \in RRev
  /\ lockFile = 0
  /\ fd = [p \in Proc |-> 0]
  /\ locked = [p \in Proc |-> FALSE]
  /\ pc = [p \in Proc |-> "idle"]
  /\ kind = [p \in Proc |-> "undecided"]
  /\ rrev = [p \in Proc |-> recipe]
  /\ prev = [p \in Proc |-> NoRev]
  /\ known = [p \in Proc |-> Unread]
  /\ commands = [p \in Proc |-> 0] /\ stops = 0

Go(p, to) == pc' = [pc EXCEPT ![p] = to]
Unlock(p) == locked' = [locked EXCEPT ![p] = FALSE] /\ UNCHANGED <<lockFile, fd>>

\* What a process is about to do to the package; it knows nothing of it yet.
Choose(p, k, r) ==
  /\ kind' = [kind EXCEPT ![p] = k]
  /\ rrev' = [rrev EXCEPT ![p] = r]
  /\ prev' = [prev EXCEPT ![p] = NoRev]
  /\ known' = [known EXCEPT ![p] = Unread]

Begins(p, command) ==
  /\ pc[p] = "idle" /\ command \in Commands
  /\ commands[p] < MaxCommands /\ commands' = [commands EXCEPT ![p] = @ + 1]
  /\ UNCHANGED stops

\* InterProcessLock.acquire opens the lock file, then polls it.
AwaitLock(p) ==
  /\ Go(p, "waiting")
  /\ fd' = [fd EXCEPT ![p] = lockFile]
  /\ UNCHANGED <<lockFile, locked>>

\* package_remove deletes file by file, and then the dirty mark.
StartRemoving(p) ==
  /\ Go(p, "removing")
  /\ folder' = IF folder = None THEN None ELSE Partial
  /\ UNCHANGED <<dirty, meta>>

-----------------------------------------------------------------------------
(* Evaluating the binary: GraphBinariesAnalyzer._process_node.             *)

\* conan install, with the recipe in the cache or an update of it.  A build
\* that is forced is not evaluated.
Install(p, r, forced) ==
  /\ Begins(p, "install")
  /\ recipe' = r
  /\ Choose(p, IF forced THEN "build" ELSE "undecided", r)
  /\ AwaitLock(p)
  /\ UNCHANGED package

\* Mutant: the lock is not the same for every decision about a package.
Acquire_PerKind(p) ==
  /\ pc[p] = "waiting"
  /\ \A q \in Proc : locked[q] /\ kind[q] = kind[p] => fd[q] # fd[p]
  /\ locked' = [locked EXCEPT ![p] = TRUE]
  /\ Go(p, IF kind[p] = "undecided" THEN "clean" ELSE "act")
  /\ UNCHANGED <<package, recipe, lockFile, fd, choice, bounds>>

Acquire(p) ==
  /\ pc[p] = "waiting"
  /\ \A q \in Proc : locked[q] => fd[q] # fd[p]
  /\ locked' = [locked EXCEPT ![p] = TRUE]
  /\ Go(p, IF kind[p] = "undecided" THEN "clean" ELSE "act")
  /\ UNCHANGED <<package, recipe, lockFile, fd, choice, bounds>>

\* Mutant: a dirty package is taken like any other.
Clean_Dirty(p) ==
  /\ pc[p] = "clean"
  /\ known' = [known EXCEPT ![p] = meta]
  /\ IF meta # None /\ meta.rrev # rrev[p]
     THEN StartRemoving(p) /\ UNCHANGED locks
     ELSE Go(p, "decide") /\ Unlock(p) /\ UNCHANGED package
  /\ UNCHANGED <<recipe, kind, rrev, prev, bounds>>

\* _evaluate_clean_pkg_folder_dirty: a dirty package goes, so does one of
\* another recipe revision.
Clean(p) ==
  /\ pc[p] = "clean"
  /\ known' = [known EXCEPT ![p] = IF dirty THEN Unread ELSE meta]
  /\ IF dirty \/ (meta # None /\ meta.rrev # rrev[p])
     THEN StartRemoving(p) /\ UNCHANGED locks
     ELSE Go(p, "decide") /\ Unlock(p) /\ UNCHANGED package
  /\ UNCHANGED <<recipe, kind, rrev, prev, bounds>>

\* The possible outcomes of _process_node, as pairs of kind and revision: what
\* is in the cache, or an update of it; what the server has; or a build, of
\* what is missing or outdated.
Outcomes(p) ==
  LET entry == IF known[p] = Unread THEN meta ELSE known[p]
      onServer == Remote[rrev[p]]
      download == IF onServer = NoRev THEN {} ELSE {<<"download", onServer>>}
      cache == IF folder # None /\ entry # None THEN {<<"cache", entry.rev>>} ELSE {}
  IN  {<<"build", NoRev>>} \cup cache
        \cup (IF cache = {} THEN download
              ELSE {d \in download : d[2] # entry.rev})

\* The decision, with no lock.
Decide(p) ==
  /\ pc[p] = "decide"
  /\ \E d \in Outcomes(p) :
       /\ kind' = [kind EXCEPT ![p] = d[1]]
       /\ prev' = [prev EXCEPT ![p] = d[2]]
  /\ AwaitLock(p)
  /\ UNCHANGED <<package, recipe, rrev, known, bounds>>

\* Missing, and not to be built: an error.
Missing(p) ==
  /\ pc[p] = "decide" /\ \A d \in Outcomes(p) : d[1] = "build"
  /\ Go(p, "idle")
  /\ UNCHANGED <<package, recipe, locks, choice, bounds>>

-----------------------------------------------------------------------------
(* Acting on it: _handle_node_cache and _download, get_package.            *)

\* A package in the cache must have a folder, another one is removed first.
Act(p) ==
  /\ pc[p] = "act"
  /\ IF kind[p] # "cache" THEN StartRemoving(p) /\ UNCHANGED locks
     ELSE /\ IF folder = None THEN Go(p, "idle") /\ Unlock(p)
             ELSE Go(p, "use") /\ UNCHANGED locks
          /\ UNCHANGED package
  /\ UNCHANGED <<recipe, choice, bounds>>

\* What follows each step that changes the package.  Mutant: a download is
\* clean before it is unpacked.
Download_CleanFirst ==
  [removing |-> "mark", mark |-> "meta", meta |-> "undirty", undirty |-> "begin",
   begin |-> "end", end |-> "fetched"]

\* A download writes the metadata and then the files.
Download ==
  [removing |-> "mark", mark |-> "meta", meta |-> "begin", begin |-> "end",
   end |-> "undirty", undirty |-> "fetched"]

\* Mutant: a build writes the metadata of a package that is clean already.
Build_MetaLast ==
  [removing |-> "mark", mark |-> "begin", begin |-> "end", end |-> "undirty",
   undirty |-> "meta", meta |-> "use"]

\* A build writes the files and then the metadata.
Build ==
  [removing |-> "mark", mark |-> "begin", begin |-> "end", end |-> "meta",
   meta |-> "undirty", undirty |-> "use"]

\* So does export-pkg, but when the package is clean already.
Exporting ==
  [removing |-> "mark", mark |-> "begin", begin |-> "end", end |-> "undirty",
   undirty |-> "meta", meta |-> "idle"]

Following ==
  [download |-> Download, build |-> Build, export_pkg |-> Exporting,
   undecided |-> [removing |-> "decide"], remove |-> [removing |-> "forget"],
   export |-> [removing |-> "idle"]]

Proceed(p) == Go(p, Following[kind[p]][pc[p]])

\* Mutant: the dirty mark is left behind.
Removed_Dirty(p) ==
  /\ pc[p] = "removing"
  /\ folder' = None
  /\ Proceed(p)
  /\ IF kind[p] = "undecided" THEN Unlock(p) ELSE UNCHANGED locks
  /\ UNCHANGED <<dirty, meta, recipe, choice, bounds>>

\* The end of package_remove.
Removed(p) ==
  /\ pc[p] = "removing"
  /\ folder' = None /\ dirty' = FALSE
  /\ Proceed(p)
  /\ IF kind[p] = "undecided" THEN Unlock(p) ELSE UNCHANGED locks
  /\ UNCHANGED <<meta, recipe, choice, bounds>>

\* The process ends with an error: it owns no lock any more.
Fail(p) == Go(p, "idle") /\ Unlock(p)

\* set_dirty, which fails when the mark is there.
Mark(p) ==
  /\ pc[p] = "mark"
  /\ dirty' = TRUE
  /\ IF dirty THEN Fail(p) ELSE Proceed(p) /\ UNCHANGED locks
  /\ UNCHANGED <<folder, meta, recipe, choice, bounds>>

WriteMeta(p) ==
  /\ pc[p] = "meta"
  /\ meta' = [rev |-> prev[p], rrev |-> rrev[p]]
  /\ Proceed(p)
  /\ UNCHANGED <<folder, dirty, recipe, locks, choice, bounds>>

BeginFiles(p) ==
  /\ pc[p] = "begin"
  /\ folder' = Partial
  /\ Proceed(p)
  /\ UNCHANGED <<dirty, meta, recipe, locks, choice, bounds>>

\* The last file is there.  What was made here has a revision of its own.
EndFiles(p) ==
  /\ pc[p] = "end"
  /\ \E r \in IF kind[p] = "download" THEN {prev[p]} ELSE PRev :
       /\ prev' = [prev EXCEPT ![p] = r]
       /\ folder' = [rev |-> r, rrev |-> rrev[p]]
  /\ Proceed(p)
  /\ UNCHANGED <<dirty, meta, recipe, locks, kind, rrev, known, bounds>>

\* clean_dirty, which fails when the mark is not there.
Undirty(p) ==
  /\ pc[p] = "undirty"
  /\ dirty' = FALSE
  /\ IF dirty THEN Proceed(p) /\ UNCHANGED locks ELSE Fail(p)
  /\ UNCHANGED <<folder, meta, recipe, choice, bounds>>

\* All downloads come before the packages are used: the lock is released, and
\* taken again when this one has its turn.
Fetched(p) ==
  /\ pc[p] = "fetched"
  /\ kind' = [kind EXCEPT ![p] = "cache"]
  /\ Go(p, "waiting")
  /\ locked' = [locked EXCEPT ![p] = FALSE]
  /\ fd' = [fd EXCEPT ![p] = lockFile]
  /\ UNCHANGED <<package, recipe, lockFile, rrev, prev, known, bounds>>

\* package_info(), and the lock is released.
Use(p) ==
  /\ pc[p] = "use"
  /\ Go(p, "idle") /\ Unlock(p)
  /\ UNCHANGED <<package, recipe, choice, bounds>>

-----------------------------------------------------------------------------
(* The commands that take no package lock.                                 *)

\* conan export-pkg --force; without it, when there is no package.
ExportPkg(p) ==
  /\ Begins(p, "export_pkg")
  /\ Choose(p, "export_pkg", recipe)
  /\ StartRemoving(p)
  /\ UNCHANGED <<recipe, locks>>

\* conan export of a recipe, which removes the packages of other revisions.
Export(p, r) ==
  /\ Begins(p, "export")
  /\ recipe' = r
  /\ Choose(p, "export", r)
  /\ Go(p, "check")
  /\ UNCHANGED <<package, locks>>

\* conan remove -p: the lock files go first.
Remove(p) ==
  /\ Begins(p, "remove")
  /\ Choose(p, "remove", recipe)
  /\ lockFile' = lockFile + 1
  /\ Go(p, "check")
  /\ UNCHANGED <<package, recipe, fd, locked>>

Check(p) ==
  /\ pc[p] = "check"
  /\ IF /\ folder # None
        /\ kind[p] = "export" => meta # None /\ meta.rrev # recipe
     THEN StartRemoving(p)
     ELSE Go(p, "idle") /\ UNCHANGED package
  /\ UNCHANGED <<recipe, locks, choice, bounds>>

\* metadata.clear_package
Forget(p) ==
  /\ pc[p] = "forget"
  /\ meta' = None
  /\ Go(p, "idle")
  /\ UNCHANGED <<folder, dirty, recipe, locks, choice, bounds>>

\* A process is killed, or a step of it raises: set_dirty_context_manager has
\* no try, the dirty mark stays.
Stop(p) ==
  /\ pc[p] \in StopsAt \ {"idle"} /\ stops < MaxStops
  /\ stops' = stops + 1
  /\ Fail(p)
  /\ UNCHANGED <<package, recipe, choice, commands>>

-----------------------------------------------------------------------------
Next ==
  \E p \in Proc :
    \/ \E r \in RRev : \E forced \in BOOLEAN : Install(p, r, forced)
    \/ \E r \in RRev : Export(p, r)
    \/ Acquire(p) \/ Clean(p) \/ Decide(p) \/ Missing(p) \/ Act(p) \/ Removed(p)
    \/ Mark(p) \/ WriteMeta(p) \/ BeginFiles(p) \/ EndFiles(p) \/ Undirty(p) \/ Fetched(p)
    \/ Use(p)
    \/ ExportPkg(p) \/ Remove(p) \/ Check(p) \/ Forget(p) \/ Stop(p)

Spec == Init /\ [][Next]_vars

-----------------------------------------------------------------------------
(* Properties.                                                             *)

\* Nobody is in the middle of changing the package.
AtRest == \A p \in Proc : pc[p] \in {"idle", "waiting", "decide"}

\* A package folder without a dirty mark has all its files: "Check if dirty, to
\* remove it" (_evaluate_clean_pkg_folder_dirty) finds every corrupted one.
CleanIsWhole == AtRest /\ ~dirty => folder # Partial

\* The revisions in metadata.json are those of what is in the folder: what an
\* install in the cache reports as the revision of the package (node.prev).
MetadataAgrees ==
  AtRest /\ ~dirty /\ folder \in Package => meta = folder

\* set_dirty never finds a mark ("is already dirty"), clean_dirty never misses
\* one: no history of kills and failures makes a package uninstallable.
MarksBalanced ==
  \A p \in Proc : /\ pc[p] = "mark" => ~dirty
                  /\ pc[p] = "undirty" => dirty

\* A package that is used ("Already installed!") has all its files, although
\* the installs around it decide without the lock.  Once one of them was killed
\* or failed that is no longer so: see the README.
UsedIsWhole == stops = 0 => \A p \in Proc : pc[p] = "use" => folder \in Package

\* No other process has run a command.
Alone(p) == \A q \in Proc \ {p} : commands[q] = 0

\* An install of a process that has been alone in the cache uses the package
\* that it has decided on, whatever came before it.
UsedAsDecidedAlone ==
  \A p \in Proc : pc[p] = "use" /\ Alone(p) => folder = [rev |-> prev[p], rrev |-> rrev[p]]
=============================================================================

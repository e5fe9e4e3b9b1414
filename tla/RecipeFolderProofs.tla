-------------------------- MODULE RecipeFolderProofs --------------------------
(***************************************************************************)
(* Proofs about RecipeFolder: until a step goes through a gap of the locks *)
(* and the marks, the folders of a recipe are those of one revision,       *)
(* whatever the processes do and wherever they are killed or fail.         *)
(***************************************************************************)
EXTENDS RecipeFolder, TLAPS

-----------------------------------------------------------------------------
(* Types, roles and locks.                                                 *)

\* Who goes on with the recipe it has loaded, or is about to load.
Using == {"load", "lock"} \cup Building

\* Who may change the recipe or its sources; under the write lock, or not.
Locked == {"get"} \cup Sourcing \cup Exporting
Writing == Locked \cup Fetching \cup AfterExport

\* The lock of the recipe, by the step of its owner.
RoleOf(p) ==
  /\ role[p] = "writer" => pc[p] \in Locked \cup Fetching \cup {"dead"}
  /\ pc[p] \in Locked => role[p] = "writer"
  /\ role[p] = "reader" => pc[p] \in {"build", "package", "dead"}
  /\ pc[p] \in {"build", "package"} => role[p] = "reader"

Exclusive == \A p, q \in Proc : p # q /\ role[p] = "writer" => role[q] = "none"

\* What a command knows at each of its steps, and the lock of its package.
CmdOf(p) ==
  /\ pc[p] \in {"recipe", "get"} \cup Fetching \cup Using => cmd[p].pkg \in Package
  /\ pc[p] \in {"clear", "record", "lock", "export"} \cup Building \cup Exporting \cup AfterExport
       => cmd[p].rev \in Rev
  /\ pc[p] \in {"lock"} \cup Building => cmd[p].loaded \in Rev
  /\ pc[p] \in {"sources", "build"} \cup Sourcing => ~cmd[p].skip
  /\ pc[p] \in {"reader", "package"} /\ cmd[p].skip => BuildFolder(p) # cmd[p].pkg
  /\ pc[p] \in Building => holder[cmd[p].pkg] = p

Typed ==
  /\ TypeOK
  /\ Exclusive
  /\ \A p \in Proc : RoleOf(p) /\ CmdOf(p)

Steps ==
  {"idle", "dead", "recipe", "get", "load", "lock", "export"}
    \cup Fetching \cup Building \cup Exporting \cup AfterExport

\* The types of the folders, and of what all commands share.
FoldersOK ==
  /\ export \in Content /\ exports \in Content /\ source \in Content
  /\ revision \in Rev \cup {None} /\ sourceDirty \in BOOLEAN
  /\ build \in [Folder -> Content]
  /\ built \in [Folder -> BOOLEAN] /\ buildDirty \in [Folder -> BOOLEAN]
  /\ packaged \in [Package -> Content] /\ claims \in [Package -> Rev \cup {None}]

SharedOK ==
  /\ latest \in Rev /\ commands \in 0..MaxCommands /\ stops \in 0..MaxStops
  /\ gap \in BOOLEAN /\ buildOf \in BuildFolders /\ noCopy \in BOOLEAN

ProcessesOK ==
  /\ role \in [Proc -> {"none", "reader", "writer"}]
  /\ holder \in [Package -> Proc \cup {Nobody}]
  /\ pc \in [Proc -> Steps] /\ cmd \in [Proc -> Command]

LEMMA TypeParts == TypeOK <=> FoldersOK /\ SharedOK /\ ProcessesOK
BY DEF TypeOK, FoldersOK, SharedOK, ProcessesOK, Steps

LEMMA FolderOf ==
  ASSUME Typed, NEW k \in Package
  PROVE  buildOf[k] \in Folder
BY BuildFoldersAssumption DEF Typed, TypeOK

\* A step of p leaves the roles and commands of the others alone, ...
LEMMA Stepping ==
  ASSUME Typed, FoldersOK', SharedOK', Exclusive',
         NEW p \in Proc, NEW to \in Steps, NEW c \in Command, NEW r \in {"none", "reader", "writer"},
         pc' = [pc EXCEPT ![p] = to], cmd' = [cmd EXCEPT ![p] = c],
         role' = [role EXCEPT ![p] = r],
         holder' \in [Package -> Proc \cup {Nobody}],
         \A k \in Package : holder[k] \in Proc \ {p} => holder'[k] = holder[k],
         RoleOf(p)', CmdOf(p)', UNCHANGED buildOf
  PROVE  Typed'
<1>1. ProcessesOK
  BY TypeParts DEF Typed
<1>2. ProcessesOK'
  BY <1>1 DEF ProcessesOK
<1>3. ASSUME NEW q \in Proc, q # p
      PROVE  RoleOf(q)' /\ CmdOf(q)'
  <2>1. pc'[q] = pc[q] /\ cmd'[q] = cmd[q] /\ role'[q] = role[q]
    BY <1>1, <1>3 DEF ProcessesOK
  <2>2. RoleOf(q)'
    BY <2>1 DEF Typed, RoleOf
  <2>3. pc[q] \in Building => cmd[q].pkg \in Package
    BY DEF Typed, CmdOf, Using
  <2>4. CmdOf(q)'
    BY <1>3, <2>1, <2>3 DEF Typed, CmdOf, BuildFolder
  <2>5. QED
    BY <2>2, <2>4
<1>4. TypeOK'
  BY <1>2, TypeParts DEF TypeOK, FoldersOK, SharedOK, ProcessesOK, Steps
<1>5. QED
  BY <1>3, <1>4 DEF Typed

\* ... and one that takes no lock keeps them exclusive.
LEMMA Moving ==
  ASSUME Typed, FoldersOK', SharedOK',
         NEW p \in Proc, NEW to \in Steps, NEW c \in Command, NEW r \in {"none", role[p]},
         pc' = [pc EXCEPT ![p] = to], cmd' = [cmd EXCEPT ![p] = c],
         role' = [role EXCEPT ![p] = r],
         holder' \in [Package -> Proc \cup {Nobody}],
         \A k \in Package : holder[k] \in Proc \ {p} => holder'[k] = holder[k],
         RoleOf(p)', CmdOf(p)', UNCHANGED buildOf
  PROVE  Typed'
<1>1. ProcessesOK
  BY TypeParts DEF Typed
<1>2. Exclusive' /\ r \in {"none", "reader", "writer"}
  BY <1>1 DEF Typed, Exclusive, ProcessesOK
<1>3. QED
  BY <1>2, Stepping

\* A command that ends holds no lock any more.
LEMMA Leaving ==
  ASSUME Typed, FoldersOK', SharedOK', UNCHANGED buildOf,
         NEW p \in Proc, Leave(p, "idle"),
         Unlock(p) \/ (UNCHANGED role /\ role[p] = "none")
  PROVE  Typed'
<1>1. ProcessesOK
  BY TypeParts DEF Typed
<1>2. NoCommand \in Command
  BY DEF NoCommand, Command, Content
<1>3. /\ pc' = [pc EXCEPT ![p] = "idle"] /\ cmd' = [cmd EXCEPT ![p] = NoCommand]
      /\ holder' = [k \in Package |-> IF holder[k] = p THEN Nobody ELSE holder[k]]
  BY DEF Leave, Go
<1>4. role' = [role EXCEPT ![p] = "none"]
  BY <1>1 DEF Unlock, ProcessesOK
<1>5. RoleOf(p)' /\ CmdOf(p)'
  <2>1. pc'[p] = "idle" /\ role'[p] = "none"
    BY <1>1, <1>3, <1>4 DEF ProcessesOK
  <2>2. QED
    BY <2>1 DEF RoleOf, CmdOf, Locked, Using, Fetching, Sourcing, Building, Exporting, AfterExport
<1>6. holder' \in [Package -> Proc \cup {Nobody}]
  BY <1>1, <1>3 DEF ProcessesOK
<1>7. \A k \in Package : holder[k] \in Proc \ {p} => holder'[k] = holder[k]
  BY <1>3
<1>8. "idle" \in Steps
  BY DEF Steps
<1>9. QED
  BY <1>2, <1>3, <1>4, <1>5, <1>6, <1>7, <1>8, Moving

LEMMA StartTyped ==
  ASSUME Typed, gap' \in BOOLEAN, NEW p \in Proc,
         \/ \E k \in Package, r \in Rev \cup {None} : Install(p, k, r)
         \/ \E r \in Rev : Export(p, r)
  PROVE  Typed'
<1>1. FoldersOK /\ SharedOK /\ ProcessesOK
  BY TypeParts DEF Typed
<1>2. PICK to \in {"recipe", "export"}, c \in Command :
        /\ Start(p, to, c)
        /\ to = "recipe" => c.pkg \in Package
        /\ to = "export" => c.rev \in Rev
  <2>1. CASE \E k \in Package, r \in Rev \cup {None} : Install(p, k, r)
    <3>1. PICK k \in Package, r \in Rev \cup {None} : Install(p, k, r)
      BY <2>1
    <3> DEFINE c == [NoCommand EXCEPT !.pkg = k, !.rev = r]
    <3>2. c \in Command /\ c.pkg = k
      BY DEF Command, NoCommand, Content
    <3>3. Start(p, "recipe", c)
      BY <3>1 DEF Install
    <3> HIDE DEF c
    <3>4. QED
      BY <3>2, <3>3
  <2>2. CASE \E r \in Rev : Export(p, r)
    <3>1. PICK r \in Rev : Export(p, r)
      BY <2>2
    <3> DEFINE c == [NoCommand EXCEPT !.rev = r]
    <3>2. c \in Command /\ c.rev = r
      BY DEF Command, NoCommand, Content
    <3>3. Start(p, "export", c)
      BY <3>1 DEF Export
    <3> HIDE DEF c
    <3>4. QED
      BY <3>2, <3>3
  <2>3. QED
    BY <2>1, <2>2
<1>3. FoldersOK' /\ SharedOK'
  BY <1>1, <1>2, BoundsAssumption
     DEF Start, FoldersOK, SharedOK, folders, recipe, sources, builds, packages
<1>4. pc[p] = "idle" /\ pc' = [pc EXCEPT ![p] = to] /\ cmd' = [cmd EXCEPT ![p] = c]
      /\ UNCHANGED <<role, holder, buildOf>>
  BY <1>2 DEF Start, Goes, Go
<1>5. RoleOf(p)
  BY DEF Typed
<1>6. RoleOf(p)' /\ CmdOf(p)'
  BY <1>1, <1>2, <1>4, <1>5
     DEF ProcessesOK, RoleOf, CmdOf, Locked, Using, Fetching, Sourcing, Building, Exporting, AfterExport
<1>7. to \in Steps
  BY DEF Steps
<1>8. role' = [role EXCEPT ![p] = role[p]]
  BY <1>1, <1>4 DEF ProcessesOK
<1>9. QED
  BY <1>1, <1>3, <1>4, <1>6, <1>7, <1>8, Moving DEF ProcessesOK

\* The steps that change neither the command nor its locks.
LEMMA Proceeding ==
  ASSUME Typed, FoldersOK', SharedOK', NEW p \in Proc, NEW to \in Steps, Go(p, to),
         UNCHANGED <<role, holder, cmd, buildOf>>, RoleOf(p)', CmdOf(p)'
  PROVE  Typed'
<1>1. ProcessesOK
  BY TypeParts DEF Typed
<1>2. cmd' = [cmd EXCEPT ![p] = cmd[p]] /\ role' = [role EXCEPT ![p] = role[p]]
  BY <1>1 DEF ProcessesOK
<1>3. cmd[p] \in Command /\ holder' \in [Package -> Proc \cup {Nobody}]
  BY <1>1 DEF ProcessesOK
<1>4. QED
  BY <1>2, <1>3, Moving DEF Go

\* An exception ends the command.
LEMMA RaiseTyped ==
  ASSUME Typed, FoldersOK', gap' \in BOOLEAN, NEW p \in Proc, Raise(p)
  PROVE  Typed'
<1>1. SharedOK'
  BY BoundsAssumption, TypeParts DEF Typed, SharedOK, Raise
<1>2. QED
  BY <1>1, Leaving DEF Raise

LEMMA RecipeTyped ==
  ASSUME Typed, gap' \in BOOLEAN, NEW p \in Proc,
         GetRecipe(p) \/ Fetch(p) \/ ClearSource(p) \/ Record(p) \/ Load(p)
  PROVE  Typed'
<1> USE DEF folders, recipe, sources, builds, packages, bounds
<1>0. /\ FoldersOK /\ SharedOK /\ ProcessesOK /\ RoleOf(p) /\ CmdOf(p)
      /\ cmd[p] \in Command /\ {"load", "lock"} \cup Fetching \subseteq Steps
  BY TypeParts DEF Typed, ProcessesOK, Steps
<1> DEFINE Same == UNCHANGED bounds
<1>1. Same => SharedOK'
  BY <1>0 DEF SharedOK
<1>2. CASE GetRecipe(p)
  <2>1. FoldersOK' /\ Same /\ pc[p] = "get"
    BY <1>0, <1>2 DEF GetRecipe, RemoveRecipe, FoldersOK, Content
  <2>2. CASE Leave(p, "idle") /\ Unlock(p)
    BY <1>1, <2>1, <2>2, Leaving
  <2>3. CASE Go(p, "fetch") /\ UNCHANGED <<role, holder, cmd>>
    <3>1. RoleOf(p)' /\ CmdOf(p)'
      BY <1>0, <2>1, <2>3
         DEF Go, ProcessesOK, RoleOf, CmdOf, Locked, Using, Fetching, Sourcing, Building,
             Exporting, AfterExport
    <3>2. QED
      BY <1>0, <1>1, <2>1, <2>3, <3>1, Proceeding DEF Fetching
  <2>4. CASE Go(p, "fetch") /\ Unlock(p) /\ UNCHANGED <<holder, cmd>>
    <3>1. pc' = [pc EXCEPT ![p] = "fetch"] /\ cmd' = [cmd EXCEPT ![p] = cmd[p]]
          /\ role' = [role EXCEPT ![p] = "none"]
      BY <1>0, <2>4 DEF Go, Unlock, ProcessesOK
    <3>2. RoleOf(p)' /\ CmdOf(p)'
      BY <1>0, <2>1, <2>4, <3>1
         DEF ProcessesOK, RoleOf, CmdOf, Locked, Using, Fetching, Sourcing, Building,
             Exporting, AfterExport
    <3>3. QED
      BY <1>0, <1>1, <2>1, <2>4, <3>1, <3>2, Moving DEF ProcessesOK, Fetching
  <2>5. CASE Go(p, "load") /\ Unlock(p) /\ cmd' = [cmd EXCEPT ![p].rev = revision]
             /\ UNCHANGED holder
    <3> DEFINE c == [cmd[p] EXCEPT !.rev = revision]
    <3>1. c \in Command /\ c.pkg = cmd[p].pkg
      BY <1>0 DEF Command, FoldersOK
    <3>2. pc' = [pc EXCEPT ![p] = "load"] /\ cmd' = [cmd EXCEPT ![p] = c]
          /\ role' = [role EXCEPT ![p] = "none"]
      BY <2>5 DEF Go, Unlock
    <3> HIDE DEF c
    <3>3. RoleOf(p)' /\ CmdOf(p)'
      BY <1>0, <2>1, <2>5, <3>1, <3>2
         DEF ProcessesOK, RoleOf, CmdOf, Locked, Using, Fetching, Sourcing, Building,
             Exporting, AfterExport
    <3>4. QED
      BY <1>0, <1>1, <2>1, <2>5, <3>1, <3>2, <3>3, Moving DEF ProcessesOK
  <2>6. QED
    BY <1>2, <2>2, <2>3, <2>4, <2>5 DEF GetRecipe, RemoveRecipe
<1>3. CASE Fetch(p)
  <2>1. CASE Raise(p) /\ export' = None
    <3>1. FoldersOK'
      BY <1>0, <1>3, <2>1 DEF Fetch, FoldersOK, Content
    <3>2. QED
      BY <2>1, <3>1, RaiseTyped
  <2>2. CASE ~(Raise(p) /\ export' = None)
    <3> DEFINE rev == IF cmd[p].rev = None THEN latest ELSE cmd[p].rev
               c == [cmd[p] EXCEPT !.rev = rev]
    <3>1. rev \in Rev /\ c \in Command /\ c.pkg = cmd[p].pkg /\ c.rev = rev
      BY <1>0 DEF SharedOK, Command
    <3>2. pc[p] = "fetch" /\ pc' = [pc EXCEPT ![p] = "clear"]
          /\ cmd' = [cmd EXCEPT ![p] = c] /\ UNCHANGED <<role, holder, bounds>>
          /\ exports' = None /\ UNCHANGED <<revision, sources, builds, packages>>
      BY <1>3, <2>2 DEF Fetch, Go
    <3>3. export' = cmd'[p].rev
      BY <1>3, <2>2 DEF Fetch
    <3> HIDE DEF c, rev
    <3>4. export' \in Rev
      BY <1>0, <3>1, <3>2, <3>3 DEF ProcessesOK
    <3>5. FoldersOK'
      BY <1>0, <3>2, <3>4 DEF FoldersOK, Content
    <3>6. RoleOf(p)' /\ CmdOf(p)'
      BY <1>0, <3>1, <3>2
         DEF ProcessesOK, RoleOf, CmdOf, Locked, Using, Fetching, Sourcing, Building,
             Exporting, AfterExport
    <3>7. role' = [role EXCEPT ![p] = role[p]]
      BY <1>0, <3>2 DEF ProcessesOK
    <3>8. "clear" \in Steps
      BY DEF Steps, Fetching
    <3>9. QED
      BY <1>0, <1>1, <3>1, <3>2, <3>5, <3>6, <3>7, <3>8, Moving DEF ProcessesOK
  <2>3. QED
    BY <2>1, <2>2
<1>4. CASE ClearSource(p)
  <2>1. FoldersOK' /\ Same /\ UNCHANGED <<role, holder, cmd>>
        /\ pc[p] = "clear" /\ Go(p, "record")
    BY <1>0, <1>4 DEF ClearSource, FoldersOK, Content, Goes
  <2>2. RoleOf(p)' /\ CmdOf(p)'
    BY <1>0, <2>1
       DEF Go, ProcessesOK, RoleOf, CmdOf, Locked, Using, Fetching, Sourcing, Building,
           Exporting, AfterExport
  <2>3. QED
    BY <1>0, <1>1, <2>1, <2>2, Proceeding DEF Fetching
<1>5. CASE Record(p)
  <2>1. /\ pc[p] = "record" /\ pc' = [pc EXCEPT ![p] = "load"] /\ UNCHANGED <<holder, cmd>>
        /\ role' = [role EXCEPT ![p] = "none"] /\ cmd' = [cmd EXCEPT ![p] = cmd[p]] /\ Same
    BY <1>0, <1>5 DEF Record, Goes, Go, Unlock, ProcessesOK
  <2>2. FoldersOK'
    BY <1>0, <1>5 DEF Record, FoldersOK, ProcessesOK, Command
  <2>3. RoleOf(p)' /\ CmdOf(p)'
    BY <1>0, <2>1
       DEF ProcessesOK, RoleOf, CmdOf, Locked, Using, Fetching, Sourcing, Building,
           Exporting, AfterExport
  <2>4. QED
    BY <1>0, <1>1, <2>1, <2>2, <2>3, Moving DEF ProcessesOK
<1>6. CASE Load(p)
  <2>1. FoldersOK' /\ Same /\ pc[p] = "load" /\ UNCHANGED role
    BY <1>0, <1>6 DEF Load, FoldersOK
  <2>2. role[p] = "none"
    BY <1>0, <2>1 DEF RoleOf, ProcessesOK, Locked, Fetching, Sourcing, Exporting
  <2>3. CASE export \in Rev /\ cmd[p].rev # None
    <3> DEFINE c == [cmd[p] EXCEPT !.loaded = export]
    <3>1. c \in Command /\ c.pkg = cmd[p].pkg /\ c.rev \in Rev /\ c.loaded \in Rev
      BY <1>0, <2>3 DEF Command, Content
    <3>2. pc' = [pc EXCEPT ![p] = "lock"] /\ cmd' = [cmd EXCEPT ![p] = c]
          /\ role' = [role EXCEPT ![p] = role[p]] /\ UNCHANGED holder
      BY <1>0, <1>6, <2>3 DEF Load, Go, ProcessesOK
    <3> HIDE DEF c
    <3>3. RoleOf(p)' /\ CmdOf(p)'
      BY <1>0, <2>1, <2>2, <3>1, <3>2
         DEF ProcessesOK, RoleOf, CmdOf, Locked, Using, Fetching, Sourcing, Building,
             Exporting, AfterExport
    <3>4. QED
      BY <1>0, <1>1, <2>1, <3>1, <3>2, <3>3, Moving DEF ProcessesOK
  <2>4. CASE ~(export \in Rev /\ cmd[p].rev # None)
    BY <1>1, <1>6, <2>1, <2>2, <2>4, Leaving DEF Load
  <2>5. QED
    BY <2>3, <2>4
<1>7. QED
  BY <1>2, <1>3, <1>4, <1>5, <1>6

\* The steps that take a lock.
LEMMA EnterTyped ==
  ASSUME Typed, gap' \in BOOLEAN, NEW p \in Proc, Enter(p)
  PROVE  Typed'
<1> USE DEF folders, recipe, sources, builds, packages, bounds
<1>0. /\ FoldersOK /\ SharedOK /\ ProcessesOK /\ RoleOf(p) /\ CmdOf(p) /\ cmd[p] \in Command
      /\ {"get", "mark", "replace", "build", "package", "folder"} \subseteq Steps
  BY TypeParts DEF Typed, ProcessesOK, Steps, Sourcing, Building, Exporting
<1>1. UNCHANGED bounds => SharedOK'
  BY <1>0 DEF SharedOK
<1>2. ASSUME NEW from \in {"recipe", "sources", "export"}, NEW to \in {"get", "mark", "replace"},
             WriteLock(p, from, to),
             <<from, to>> \in {<<"recipe", "get">>, <<"sources", "mark">>, <<"export", "replace">>}
      PROVE  Typed'
  <2>1. /\ pc[p] = from /\ pc' = [pc EXCEPT ![p] = to] /\ UNCHANGED <<folders, holder, cmd, bounds>>
        /\ role' = [role EXCEPT ![p] = "writer"] /\ \A q \in Proc : role[q] = "none"
        /\ cmd' = [cmd EXCEPT ![p] = cmd[p]]
    BY <1>0, <1>2 DEF WriteLock, RW!Write, Goes, Go, ProcessesOK
  <2>2. FoldersOK'
    BY <1>0, <2>1 DEF FoldersOK
  <2>3. Exclusive'
    BY <1>0, <2>1 DEF Exclusive, ProcessesOK
  <2>4. RoleOf(p)' /\ CmdOf(p)'
    BY <1>0, <1>2, <2>1
       DEF ProcessesOK, RoleOf, CmdOf, Locked, Using, Fetching, Sourcing, Building,
           Exporting, AfterExport
  <2>5. QED
    BY <1>0, <1>1, <2>1, <2>2, <2>3, <2>4, Stepping DEF ProcessesOK
<1>3. CASE ReadLock(p)
  <2> DEFINE to == IF cmd[p].skip THEN "package" ELSE "build"
  <2>1. /\ pc[p] = "reader" /\ pc' = [pc EXCEPT ![p] = to] /\ UNCHANGED <<folders, holder, cmd, bounds>>
        /\ role' = [role EXCEPT ![p] = "reader"] /\ \A q \in Proc : role[q] # "writer"
        /\ cmd' = [cmd EXCEPT ![p] = cmd[p]]
    BY <1>0, <1>3 DEF ReadLock, RW!Read, Goes, Go, ProcessesOK
  <2>2. FoldersOK'
    BY <1>0, <2>1 DEF FoldersOK
  <2>3. Exclusive'
    BY <1>0, <2>1 DEF Exclusive, ProcessesOK
  <2>4. to \in Steps /\ to \in {"build", "package"} /\ (to = "build" => ~cmd[p].skip)
    BY <1>0
  <2> HIDE DEF to
  <2>5. pc'[p] = to /\ role'[p] = "reader" /\ cmd'[p] = cmd[p] /\ buildOf' = buildOf
    BY <1>0, <2>1 DEF ProcessesOK
  <2>6. RoleOf(p)' /\ CmdOf(p)'
    BY <1>0, <2>1, <2>4, <2>5
       DEF RoleOf, CmdOf, Locked, Using, Fetching, Sourcing, Building, Exporting, AfterExport,
           BuildFolder
  <2>7. QED
    BY <1>0, <1>1, <2>1, <2>2, <2>3, <2>4, <2>6, Stepping DEF ProcessesOK
<1>4. CASE LockPackage(p)
  <2>1. /\ pc[p] = "lock" /\ pc' = [pc EXCEPT ![p] = "folder"] /\ UNCHANGED <<role, cmd, bounds>>
        /\ holder[cmd[p].pkg] = Nobody /\ holder' = [holder EXCEPT ![cmd[p].pkg] = p]
        /\ cmd' = [cmd EXCEPT ![p] = cmd[p]] /\ role' = [role EXCEPT ![p] = role[p]]
    BY <1>0, <1>4 DEF LockPackage, Goes, Go, ProcessesOK
  <2>2. FoldersOK'
    BY <1>0, <1>4 DEF LockPackage, FoldersOK, Content
  <2>3. /\ holder' \in [Package -> Proc \cup {Nobody}]
        /\ \A k \in Package : holder[k] \in Proc \ {p} => holder'[k] = holder[k]
    BY <1>0, <2>1, ValuesAssumption DEF ProcessesOK
  <2>4. RoleOf(p)' /\ CmdOf(p)'
    BY <1>0, <2>1
       DEF ProcessesOK, RoleOf, CmdOf, Locked, Using, Fetching, Sourcing, Building,
           Exporting, AfterExport
  <2>5. QED
    BY <1>0, <1>1, <2>1, <2>2, <2>3, <2>4, Moving
<1>5. QED
  BY <1>2, <1>3, <1>4 DEF Enter

LEMMA ExportTyped ==
  ASSUME Typed, gap' \in BOOLEAN, NEW p \in Proc,
         Replace(p) \/ Replaced(p) \/ Revise(p) \/ RemoveStale(p)
  PROVE  Typed'
<1> USE DEF folders, recipe, sources, builds, packages, bounds
<1>0. /\ FoldersOK /\ SharedOK /\ ProcessesOK /\ RoleOf(p) /\ CmdOf(p)
      /\ cmd[p] \in Command /\ Exporting \cup AfterExport \subseteq Steps
  BY TypeParts DEF Typed, ProcessesOK, Steps
<1>1. UNCHANGED bounds => SharedOK'
  BY <1>0 DEF SharedOK
<1>2. CASE Replace(p)
  <2> DEFINE c == [cmd[p] EXCEPT !.skip = export = cmd[p].rev]
  <2>1. c \in Command /\ c.rev = cmd[p].rev
    BY <1>0 DEF Command
  <2>2. /\ pc[p] = "replace" /\ pc' = [pc EXCEPT ![p] = "replaced"] /\ cmd' = [cmd EXCEPT ![p] = c]
        /\ UNCHANGED <<role, holder, bounds>> /\ role' = [role EXCEPT ![p] = role[p]]
    BY <1>0, <1>2 DEF Replace, Goes, Go, ProcessesOK
  <2>3. FoldersOK'
    BY <1>0, <1>2 DEF Replace, FoldersOK, Content
  <2> HIDE DEF c
  <2>4. RoleOf(p)' /\ CmdOf(p)'
    BY <1>0, <2>1, <2>2
       DEF ProcessesOK, RoleOf, CmdOf, Locked, Using, Fetching, Sourcing, Building,
           Exporting, AfterExport
  <2>5. QED
    BY <1>0, <1>1, <2>1, <2>2, <2>3, <2>4, Moving DEF ProcessesOK, Exporting
<1>3. CASE Replaced(p)
  <2>1. /\ pc[p] = "replaced" /\ pc' = [pc EXCEPT ![p] = "revise"] /\ cmd' = [cmd EXCEPT ![p] = cmd[p]]
        /\ role' = [role EXCEPT ![p] = "none"] /\ UNCHANGED <<holder, bounds>>
    BY <1>0, <1>3 DEF Replaced, Goes, Go, Unlock, ProcessesOK
  <2>2. FoldersOK'
    BY <1>0, <1>3 DEF Replaced, FoldersOK, Content, Command
  <2>3. RoleOf(p)' /\ CmdOf(p)'
    BY <1>0, <2>1
       DEF ProcessesOK, RoleOf, CmdOf, Locked, Using, Fetching, Sourcing, Building,
           Exporting, AfterExport
  <2>4. QED
    BY <1>0, <1>1, <2>1, <2>2, <2>3, Moving DEF ProcessesOK, AfterExport
<1>4. CASE Revise(p)
  <2>1. /\ pc[p] = "revise" /\ Go(p, "stale") /\ UNCHANGED <<role, holder, cmd, bounds>>
    BY <1>4 DEF Revise, Goes
  <2>2. FoldersOK'
    BY <1>0, <1>4 DEF Revise, FoldersOK, Content, Command
  <2>3. RoleOf(p)' /\ CmdOf(p)'
    BY <1>0, <2>1
       DEF Go, ProcessesOK, RoleOf, CmdOf, Locked, Using, Fetching, Sourcing, Building,
           Exporting, AfterExport
  <2>4. QED
    BY <1>0, <1>1, <2>1, <2>2, <2>3, Proceeding DEF AfterExport
<1>5. CASE RemoveStale(p)
  <2>1. role[p] = "none"
    BY <1>0, <1>5
       DEF RemoveStale, RoleOf, ProcessesOK, Locked, Fetching, Sourcing, Exporting
  <2>2. source' \in Content /\ sourceDirty' \in BOOLEAN
    BY <1>0, <1>5 DEF RemoveStale, RemoveSource, FoldersOK, Content
  <2>3. packaged' \in [Package -> Content]
    BY <1>0, <1>5 DEF RemoveStale, Purge, FoldersOK, Content
  <2>4. FoldersOK' /\ UNCHANGED bounds /\ UNCHANGED role
    BY <1>0, <1>5, <2>2, <2>3 DEF RemoveStale, FoldersOK
  <2>5. QED
    BY <1>1, <1>5, <2>1, <2>4, Leaving DEF RemoveStale
<1>6. QED
  BY <1>2, <1>3, <1>4, <1>5

\* The steps of a build that change neither the command nor its locks; ...
LEMMA SourceTyped ==
  ASSUME Typed, gap' \in BOOLEAN, NEW p \in Proc,
         RetrieveExports(p) \/ Unpacked(p) \/ ConfigSource(p) \/ RunSource(p) \/ CopySources(p)
  PROVE  Typed'
<1> USE DEF folders, recipe, sources, builds, packages, bounds
<1>0. /\ FoldersOK /\ SharedOK /\ ProcessesOK /\ RoleOf(p) /\ CmdOf(p)
      /\ cmd[p] \in Command /\ Building \subseteq Steps
  BY TypeParts DEF Typed, ProcessesOK, Steps
<1>1. pc[p] \in Sourcing /\ cmd[p].pkg \in Package /\ BuildFolder(p) \in Folder
  BY <1>0, FolderOf
     DEF RetrieveExports, Unpacked, ConfigSource, RunSource, CopySources, Goes, CmdOf,
         Using, Sourcing, Building, BuildFolder
<1>2. FoldersOK'
  <2>1. CASE RetrieveExports(p) \/ Unpacked(p)
    BY <1>0, <2>1 DEF RetrieveExports, Unpacked, FoldersOK, Content, Command
  <2>2. CASE ConfigSource(p)
    BY <1>0, <2>2 DEF ConfigSource, FoldersOK, Content
  <2>3. CASE RunSource(p)
    BY <1>0, <2>3 DEF RunSource, FoldersOK, Content
  <2>4. CASE CopySources(p)
    BY <1>0, <1>1, <2>4 DEF CopySources, FoldersOK, Content
  <2>5. QED
    BY <2>1, <2>2, <2>3, <2>4
<1>3. CASE Raise(p)
  BY <1>2, <1>3, RaiseTyped
<1>4. ASSUME ~Raise(p), ~CopySources(p)
      PROVE  Typed'
  <2>1. PICK to \in Sourcing :
          pc' = [pc EXCEPT ![p] = to] /\ UNCHANGED <<role, holder, cmd, bounds>>
    BY <1>4 DEF RetrieveExports, Unpacked, ConfigSource, RunSource, Goes, Go, Sourcing
  <2>2. SharedOK' /\ to \in Steps
    BY <1>0, <2>1 DEF SharedOK, Building
  <2>3. pc'[p] = to /\ role'[p] = role[p] /\ cmd'[p] = cmd[p] /\ holder' = holder
    BY <1>0, <2>1 DEF ProcessesOK
  <2>4. RoleOf(p)' /\ CmdOf(p)'
    BY <1>0, <1>1, <2>3
       DEF RoleOf, CmdOf, Locked, Using, Fetching, Sourcing, Building, Exporting, AfterExport
  <2>5. QED
    BY <1>2, <2>1, <2>2, <2>4, Proceeding DEF Go
<1>5. CASE CopySources(p)
  <2>1. /\ pc[p] = "copy" /\ pc' = [pc EXCEPT ![p] = "reader"] /\ cmd' = [cmd EXCEPT ![p] = cmd[p]]
        /\ role' = [role EXCEPT ![p] = "none"] /\ UNCHANGED <<holder, bounds>>
    BY <1>0, <1>5 DEF CopySources, Goes, Go, Unlock, ProcessesOK
  <2>2. SharedOK' /\ "reader" \in Steps
    BY <1>0, <2>1 DEF SharedOK, Building
  <2>3. RoleOf(p)' /\ CmdOf(p)'
    BY <1>0, <2>1
       DEF ProcessesOK, RoleOf, CmdOf, Locked, Using, Fetching, Sourcing, Building,
           Exporting, AfterExport
  <2>4. QED
    BY <1>0, <1>2, <2>1, <2>2, <2>3, Moving DEF ProcessesOK
<1>6. QED
  BY <1>3, <1>4, <1>5

\* ... and the others.
LEMMA BuildTyped ==
  ASSUME Typed, gap' \in BOOLEAN, NEW p \in Proc,
         GetBuildFolder(p) \/ MarkBuild(p) \/ Build(p) \/ MakePackage(p)
  PROVE  Typed'
<1> USE DEF folders, recipe, sources, builds, packages, bounds
<1>0. /\ FoldersOK /\ SharedOK /\ ProcessesOK /\ RoleOf(p) /\ CmdOf(p)
      /\ cmd[p] \in Command /\ Building \subseteq Steps
  BY TypeParts DEF Typed, ProcessesOK, Steps
<1>1. pc[p] \in Building /\ cmd[p].pkg \in Package /\ BuildFolder(p) \in Folder
  BY <1>0, FolderOf
     DEF GetBuildFolder, MarkBuild, Build, MakePackage, Goes, CmdOf, Using, Sourcing, Building,
         BuildFolder
<1>2. UNCHANGED bounds => SharedOK'
  BY <1>0 DEF SharedOK
<1>3. CASE GetBuildFolder(p)
  <2> DEFINE f == BuildFolder(p)
             reuse == f # cmd[p].pkg /\ build[f] # None /\ ~buildDirty[f]
             to == IF reuse THEN "reader" ELSE "sources"
             c == [cmd[p] EXCEPT !.skip = reuse]
  <2>1. /\ pc[p] = "folder" /\ pc' = [pc EXCEPT ![p] = to] /\ cmd' = [cmd EXCEPT ![p] = c]
        /\ UNCHANGED <<role, holder, bounds>> /\ role' = [role EXCEPT ![p] = role[p]]
    BY <1>0, <1>3 DEF GetBuildFolder, Goes, Go, ProcessesOK
  <2>2. FoldersOK'
    BY <1>0, <1>1, <1>3 DEF GetBuildFolder, FoldersOK, Content
  <2>3. /\ c \in Command /\ c.pkg = cmd[p].pkg /\ c.rev = cmd[p].rev /\ c.loaded = cmd[p].loaded
        /\ c.skip => buildOf[c.pkg] # c.pkg
        /\ to \in Steps /\ to \in {"reader", "sources"} /\ (to = "sources" => ~c.skip)
    BY <1>0 DEF Command, Building, BuildFolder
  <2> HIDE DEF f, reuse, to, c
  <2>4. pc'[p] = to /\ role'[p] = role[p] /\ cmd'[p] = c /\ buildOf' = buildOf /\ holder' = holder
    BY <1>0, <2>1 DEF ProcessesOK
  <2>5. RoleOf(p)' /\ CmdOf(p)'
    BY <1>0, <2>1, <2>3, <2>4
       DEF RoleOf, CmdOf, Locked, Using, Fetching, Sourcing, Building, Exporting, AfterExport,
           BuildFolder
  <2>6. QED
    BY <1>0, <1>2, <2>1, <2>2, <2>3, <2>5, Moving DEF ProcessesOK
<1>4. CASE MarkBuild(p)
  <2>1. FoldersOK' /\ UNCHANGED bounds /\ pc[p] = "mark"
    BY <1>0, <1>1, <1>4 DEF MarkBuild, FoldersOK
  <2>2. CASE Leave(p, "idle") /\ Unlock(p)
    BY <1>2, <2>1, <2>2, Leaving
  <2>3. CASE Go(p, "unpack") /\ UNCHANGED <<role, holder, cmd>>
    <3>1. RoleOf(p)' /\ CmdOf(p)'
      BY <1>0, <2>1, <2>3
         DEF Go, ProcessesOK, RoleOf, CmdOf, Locked, Using, Fetching, Sourcing, Building,
             Exporting, AfterExport
    <3>2. "unpack" \in Steps
      BY DEF Steps, Building, Sourcing
    <3>3. QED
      BY <1>2, <2>1, <2>3, <3>1, <3>2, Proceeding
  <2>4. QED
    BY <1>4, <2>2, <2>3 DEF MarkBuild
<1>5. CASE Build(p)
  <2>1. FoldersOK'
    BY <1>0, <1>1, <1>5 DEF Build, BuildFinishes, BuildFails, Made, FoldersOK, Content
  <2>2. CASE Raise(p)
    BY <2>1, <2>2, RaiseTyped
  <2>3. CASE Leave(p, "idle") /\ Unlock(p) /\ UNCHANGED bounds
    BY <1>2, <2>1, <2>3, Leaving
  <2>4. CASE BuildFinishes(p)
    <3>1. pc[p] = "build" /\ Go(p, "package") /\ UNCHANGED <<role, holder, cmd, bounds>>
      BY <1>5, <2>4 DEF Build, BuildFinishes
    <3>2. RoleOf(p)' /\ CmdOf(p)'
      BY <1>0, <3>1
         DEF Go, ProcessesOK, RoleOf, CmdOf, Locked, Using, Fetching, Sourcing, Building,
             Exporting, AfterExport
    <3>3. QED
      BY <1>0, <1>2, <2>1, <3>1, <3>2, Proceeding DEF Building
  <2>5. QED
    BY <1>5, <2>2, <2>3, <2>4 DEF Build, BuildFails
<1>6. CASE MakePackage(p)
  <2>1. FoldersOK'
    BY <1>0, <1>1, <1>6 DEF MakePackage, Made, FoldersOK, Content, Command
  <2>2. QED
    BY <1>2, <1>6, <2>1, Leaving DEF MakePackage
<1>7. QED
  BY <1>3, <1>4, <1>5, <1>6

\* The rest of the world.
LEMMA KillTyped ==
  ASSUME Typed, gap' \in BOOLEAN, NEW p \in Proc, Kill(p)
  PROVE  Typed'
<1> USE DEF folders, recipe, sources, builds, packages
<1> DEFINE to == IF role[p] # "none" THEN "dead" ELSE "idle"
<1>1. FoldersOK /\ SharedOK /\ ProcessesOK /\ RoleOf(p)
  BY TypeParts DEF Typed
<1>2. /\ FoldersOK' /\ SharedOK' /\ NoCommand \in Command /\ to \in Steps
  BY <1>1, BoundsAssumption DEF Kill, FoldersOK, SharedOK, NoCommand, Command, Content, Steps
<1>3. /\ pc' = [pc EXCEPT ![p] = to] /\ cmd' = [cmd EXCEPT ![p] = NoCommand]
      /\ holder' = [k \in Package |-> IF holder[k] = p THEN Nobody ELSE holder[k]]
      /\ role' = [role EXCEPT ![p] = role[p]] /\ UNCHANGED buildOf
  BY <1>1 DEF Kill, Leave, Go, ProcessesOK
<1>4. RoleOf(p)' /\ CmdOf(p)'
  BY <1>1, <1>3
     DEF ProcessesOK, RoleOf, CmdOf, Locked, Using, Fetching, Sourcing, Building, Exporting,
         AfterExport
<1>5. holder' \in [Package -> Proc \cup {Nobody}]
  BY <1>1, <1>3 DEF ProcessesOK
<1> HIDE DEF to
<1>6. QED
  BY <1>2, <1>3, <1>4, <1>5, Moving

LEMMA CleanTyped ==
  ASSUME Typed, gap' \in BOOLEAN, NEW p \in Proc, CleanLocks(p)
  PROVE  Typed'
<1> USE DEF folders, recipe, sources, builds, packages, bounds
<1>1. FoldersOK /\ SharedOK /\ ProcessesOK
  BY TypeParts DEF Typed
<1>2. FoldersOK' /\ SharedOK' /\ "idle" \in Steps
  BY <1>1 DEF CleanLocks, FoldersOK, SharedOK, Steps
<1>3. /\ pc[p] = "dead" /\ pc' = [pc EXCEPT ![p] = "idle"] /\ cmd' = [cmd EXCEPT ![p] = cmd[p]]
      /\ role' = [role EXCEPT ![p] = "none"] /\ UNCHANGED <<holder, buildOf>>
  BY <1>1 DEF CleanLocks, Goes, Go, RW!Release, ProcessesOK
<1>4. RoleOf(p)' /\ CmdOf(p)'
  BY <1>1, <1>3
     DEF ProcessesOK, RoleOf, CmdOf, Locked, Using, Fetching, Sourcing, Building, Exporting,
         AfterExport
<1>5. QED
  BY <1>1, <1>2, <1>3, <1>4, Moving DEF ProcessesOK

LEMMA StutterTyped ==
  ASSUME Typed, FoldersOK', SharedOK', UNCHANGED <<role, holder, pc, cmd, buildOf>>
  PROVE  Typed'
<1>1. ProcessesOK'
  BY TypeParts DEF Typed, ProcessesOK
<1>2. TypeOK'
  BY <1>1 DEF TypeOK, FoldersOK, SharedOK, ProcessesOK, Steps
<1>3. Exclusive'
  BY DEF Typed, Exclusive
<1>4. \A q \in Proc : RoleOf(q)' /\ CmdOf(q)'
  BY DEF Typed, RoleOf, CmdOf, BuildFolder
<1>5. QED
  BY <1>2, <1>3, <1>4 DEF Typed

LEMMA WorkTyped ==
  ASSUME Typed, gap' \in BOOLEAN, NEW p \in Proc, Work(p)
  PROVE  Typed'
BY StartTyped, EnterTyped, CleanTyped, RecipeTyped, SourceTyped, BuildTyped, ExportTyped
   DEF Work, Step

LEMMA InitTyped == Init => Typed
<1> SUFFICES ASSUME Init PROVE Typed
  OBVIOUS
<1>1. FoldersOK
  BY DEF Init, FoldersOK, Content
<1>2. SharedOK
  <2>1. commands \in 0..MaxCommands /\ stops \in 0..MaxStops
    BY BoundsAssumption DEF Init
  <2>2. QED
    BY <2>1, Zenon DEF Init, SharedOK
<1>3. role = [p \in Proc |-> "none"]
  BY DEF Init, RW!Init
<1>4. ProcessesOK
  BY <1>3 DEF Init, ProcessesOK, Steps, NoCommand, Command, Content
<1>5. Exclusive /\ \A p \in Proc : RoleOf(p) /\ CmdOf(p)
  BY <1>3
     DEF Init, Exclusive, RoleOf, CmdOf, Locked, Using, Fetching, Sourcing, Building, Exporting,
         AfterExport
<1>6. QED
  BY <1>1, <1>2, <1>4, <1>5, TypeParts DEF Typed

LEMMA NextTyped == Typed /\ [Next]_vars => Typed'
<1> SUFFICES ASSUME Typed, [Next]_vars PROVE Typed'
  OBVIOUS
<1>1. FoldersOK /\ SharedOK
  BY TypeParts DEF Typed
<1>2. CASE UNCHANGED vars
  <2>1. FoldersOK' /\ SharedOK'
    BY <1>1, <1>2
       DEF vars, folders, recipe, sources, builds, packages, bounds, FoldersOK, SharedOK
  <2>2. QED
    BY <1>2, <2>1, StutterTyped DEF vars, bounds
<1>3. ASSUME NEW p \in Proc, Work(p), gap' = (gap \/ Overlap')
      PROVE  Typed'
  <2>1. gap' \in BOOLEAN
    BY <1>1, <1>3 DEF SharedOK, Overlap
  <2>2. QED
    BY <1>3, <2>1, WorkTyped
<1>4. ASSUME NEW p \in Proc, Kill(p), gap' = (gap \/ HalfWay(p))
      PROVE  Typed'
  <2>1. gap' \in BOOLEAN
    BY <1>1, <1>4 DEF SharedOK, HalfWay
  <2>2. QED
    BY <1>4, <2>1, KillTyped
<1>5. ASSUME NEW r \in Rev, Publish(r), UNCHANGED gap
      PROVE  Typed'
  <2>1. FoldersOK' /\ SharedOK'
    BY <1>1, <1>5, BoundsAssumption
       DEF Publish, folders, recipe, sources, builds, packages, FoldersOK, SharedOK
  <2>2. QED
    BY <1>5, <2>1, StutterTyped DEF Publish
<1>6. QED
  BY <1>2, <1>3, <1>4, <1>5 DEF Next

\* Every reachable state is of its type.
THEOREM TypeCorrect == Spec => []TypeOK
<1>1. Typed => TypeOK
  BY DEF Typed
<1>2. QED
  BY InitTyped, NextTyped, <1>1, PTL DEF Spec

-----------------------------------------------------------------------------
(* What the folders hold, until a gap.                                     *)

\* A recipe that is there has its revision in the metadata, and the exported
\* sources and the sources are its own, but while somebody replaces it.
Consistent ==
  /\ (\A p \in Proc : pc[p] \notin {"clear", "record", "replaced", "revise"}) /\ export # None
       => export \in Rev /\ revision = export
  /\ (\A p \in Proc : pc[p] \notin {"unpacked", "replaced"}) => exports \in {None, export}
  /\ (\A p \in Proc : pc[p] \notin {"clear", "replaced", "revise", "stale"})
       /\ export # None /\ source # None /\ ~sourceDirty => source = export

\* Nobody uses the recipe that somebody fetches.
Unused(p) ==
  pc[p] \in {"clear", "record"} => \A q \in Proc : q # p => pc[q] \notin Using

\* What is there in the middle of a change of the recipe: the revision that was
\* fetched, without sources, or the one that was exported.  The sources are
\* kept if they are those of the same revision.
Changes(p) ==
  /\ pc[p] \in {"clear", "record"} => export = cmd[p].rev
  /\ pc[p] = "record" => source = None
  /\ pc[p] \in {"revise", "stale"} => export = cmd[p].rev
  /\ pc[p] \in {"replaced"} \cup AfterExport /\ cmd[p].skip /\ source # None /\ ~sourceDirty
       => source = cmd[p].rev

\* The recipe a command uses is the one it was started with and has loaded; so
\* are the sources, once they are prepared.
Prepared(p) == pc[p] \in {"copy", "build"} \/ (pc[p] = "reader" /\ ~cmd[p].skip)

Uses(p) ==
  /\ pc[p] \in Using => export = cmd[p].rev /\ export \in Rev
  /\ pc[p] \in {"lock"} \cup Building => cmd[p].loaded = export
  /\ pc[p] \in {"source", "filling"} => exports = export
  /\ pc[p] = "filling" => sourceDirty
  /\ Prepared(p) => source = export /\ ~sourceDirty

\* The build folder of a command that builds, and its package.
Builds(p) ==
  /\ pc[p] \in {"sources", "mark"} => ~buildDirty[BuildFolder(p)]
  /\ pc[p] \in Sourcing \ {"mark"} \/ Prepared(p) => buildDirty[BuildFolder(p)]
  /\ Prepared(p) /\ pc[p] # "copy" /\ ~noCopy => build[BuildFolder(p)] = export
  /\ pc[p] = "package" /\ ~cmd[p].skip => built[BuildFolder(p)] /\ build[BuildFolder(p)] = export
  /\ pc[p] \in Building => packaged[cmd[p].pkg] = None

Facts(p) == Changes(p) /\ Uses(p) /\ Builds(p)

Whole(f) == build[f] # None /\ ~buildDirty[f] => built[f] /\ build[f] \in Rev
Claimed(k) == buildOf[k] = k => packaged[k] \in {None, claims[k]}

Good ==
  /\ ~Overlap
  /\ Consistent
  /\ \A p \in Proc : Unused(p) /\ Facts(p)
  /\ \A f \in Folder : Whole(f)
  /\ \A k \in Package : Claimed(k)

Inv == Typed /\ (~gap => Good)

-----------------------------------------------------------------------------
(* Who is beside whom, without a gap.                                      *)

\* One process at a time changes the recipe or its sources.
LEMMA OneWriter ==
  ASSUME Typed, ~Overlap, NEW p \in Proc, NEW q \in Proc, p # q, pc[p] \in Writing
  PROVE  pc[q] \notin Writing
<1>1. SUFFICES ASSUME pc[q] \in Writing PROVE FALSE
  OBVIOUS
<1>2. Active(p) /\ Active(q)
  BY <1>1
     DEF Active, Writing, Locked, Fetching, Sourcing, Exporting, AfterExport
<1>3. ~Unlocked(p) /\ ~Unlocked(q)
  BY <1>2 DEF Overlap
<1>4. RoleOf(p) /\ RoleOf(q) /\ ProcessesOK
  BY TypeParts DEF Typed
<1>5. role[p] = "writer" /\ role[q] = "writer"
  BY <1>1, <1>3, <1>4
     DEF RoleOf, ProcessesOK, Unlocked, Writing, Fetching
<1>6. QED
  BY <1>5 DEF Typed, Exclusive

\* Nobody uses the recipe, and nobody else changes it, while it is replaced.
LEMMA Away ==
  ASSUME Typed, Good, NEW p \in Proc, NEW q \in Proc, p # q,
         pc[p] \in Fetching \cup {"replaced"} \cup AfterExport
  PROVE  pc[q] \notin Using \cup Writing
<1>1. ~Overlap /\ Unused(p)
  BY DEF Good
<1>2. pc[q] \notin Writing
  BY <1>1, OneWriter DEF Writing, Locked, Exporting
<1>3. CASE pc[p] \in {"fetch", "replaced"}
  BY <1>1, <1>2, <1>3 DEF Overlap, Replaces, Using
<1>4. CASE pc[p] \in {"clear", "record"}
  BY <1>1, <1>2, <1>4 DEF Unused
<1>5. CASE pc[p] \in AfterExport
  <2>1. ~Active(q)
    BY <1>1, <1>5 DEF Overlap, Unlocked
  <2>2. QED
    BY <1>2, <2>1 DEF Active, Using, Building, Sourcing
<1>6. QED
  BY <1>3, <1>4, <1>5 DEF Fetching

\* Two builds have a package and a build folder of their own.
LEMMA OwnFolder ==
  ASSUME Typed, ~Overlap, NEW p \in Proc, NEW q \in Proc, p # q,
         pc[p] \in Building, pc[q] \in Building
  PROVE  cmd[p].pkg # cmd[q].pkg /\ BuildFolder(p) # BuildFolder(q)
<1>1. cmd[p].pkg # cmd[q].pkg
  BY DEF Typed, CmdOf
<1>2. QED
  BY <1>1 DEF Overlap, Share

LEMMA NothingKnown ==
  ASSUME NEW p \in Proc, pc[p] \notin Using \cup Writing
  PROVE  Unused(p) /\ Facts(p)
BY DEF Facts, Unused, Changes, Uses, Builds, Prepared, Using, Writing, Locked, Fetching, Building,
       Sourcing, Exporting, AfterExport

\* Nobody begins to use what is fetched.
LEMMA KeepsUnused ==
  ASSUME Typed, Good, NEW p \in Proc, NEW to, pc' = [pc EXCEPT ![p] = to],
         to \in Using => pc[p] \in Using \cup {"get", "record"},
         to \in {"clear", "record"} => pc[p] \in {"fetch", "clear"}
  PROVE  \A q \in Proc : Unused(q)'
<1> SUFFICES ASSUME NEW q \in Proc, NEW x \in Proc, x # q, pc'[q] \in {"clear", "record"}
             PROVE  pc'[x] \notin Using
  BY DEF Unused
<1>0. pc'[p] = to /\ (q # p => pc'[q] = pc[q]) /\ (x # p => pc'[x] = pc[x])
      /\ ~Overlap /\ Unused(q)
  BY TypeParts DEF Typed, ProcessesOK, Good
<1>1. CASE q = p
  BY <1>0, <1>1, Away DEF Fetching
<1>2. CASE q # p /\ x = p
  <2>1. pc[q] \in Writing /\ pc[p] \notin Using
    BY <1>0, <1>2 DEF Unused, Writing, Fetching
  <2>2. pc[p] \notin {"get", "record"}
    BY <1>0, <1>2, <2>1, OneWriter DEF Writing, Locked, Fetching
  <2>3. QED
    BY <1>0, <1>2, <2>1, <2>2
<1>3. CASE q # p /\ x # p
  BY <1>0, <1>3 DEF Unused
<1>4. QED
  BY <1>1, <1>2, <1>3

\* A step that changes neither the recipe nor the sources, and is not in the
\* middle of a change of them, leaves them as consistent as they are, ...
LEMMA KeepsConsistent ==
  ASSUME Typed, Good, NEW p \in Proc, NEW to, pc' = [pc EXCEPT ![p] = to],
         ~HalfWay(p), UNCHANGED <<recipe, sources>>
  PROVE  Consistent'
<1>1. \A q \in Proc : pc[q] # pc'[q] => q = p
  BY TypeParts DEF Typed, ProcessesOK
<1>2. Consistent
  BY DEF Good
<1>3. UNCHANGED <<export, exports, revision, source, sourceDirty>>
  BY DEF recipe, sources
<1>4. QED
  BY <1>1, <1>2, <1>3 DEF Consistent, HalfWay

\* ... and so what the others know of them, and of folders of their own.
LEMMA KeepsFacts ==
  ASSUME Typed, Good, NEW p \in Proc, NEW q \in Proc, p # q,
         pc'[q] = pc[q], cmd'[q] = cmd[q],
         UNCHANGED <<recipe, sources, buildOf, noCopy>>,
         pc[q] \in Building =>
           LET f == BuildFolder(q)
           IN  /\ build'[f] = build[f] /\ built'[f] = built[f] /\ buildDirty'[f] = buildDirty[f]
               /\ packaged[cmd[q].pkg] = None => packaged'[cmd[q].pkg] = None
  PROVE  Facts(q)'
<1>1. Facts(q)
  BY DEF Good
<1>2. UNCHANGED <<export, exports, source, sourceDirty>>
  BY DEF recipe, sources
<1>3. Changes(q)' /\ Uses(q)'
  BY <1>1, <1>2 DEF Facts, Changes, Uses, Prepared
<1>4. Builds(q)'
  <2>1. CASE pc[q] \in Building
    BY <1>1, <1>2, <2>1 DEF Facts, Builds, Prepared, BuildFolder
  <2>2. CASE pc[q] \notin Building
    BY <2>2 DEF Builds, Prepared, Building, Sourcing
  <2>3. QED
    BY <2>1, <2>2
<1>5. QED
  BY <1>3, <1>4 DEF Facts

-----------------------------------------------------------------------------
(* Every step, until it goes through a gap.                                *)

\* The steps that change no folder.
LEMMA IdleGood ==
  ASSUME Typed, Good, ~Overlap', NEW p \in Proc, NEW to, NEW c,
         pc' = [pc EXCEPT ![p] = to], cmd' = [cmd EXCEPT ![p] = c],
         UNCHANGED <<folders, buildOf, noCopy>>, ~HalfWay(p),
         to \in Using => pc[p] \in Using \cup {"get"}, to \notin {"clear", "record"},
         Facts(p)'
  PROVE  Good'
<1>1. Consistent' /\ \A q \in Proc : Unused(q)'
  BY KeepsConsistent, KeepsUnused DEF folders
<1>2. ASSUME NEW q \in Proc, q # p
      PROVE  Facts(q)'
  <2>1. pc'[q] = pc[q] /\ cmd'[q] = cmd[q]
    BY <1>2, TypeParts DEF Typed, ProcessesOK
  <2>2. QED
    BY <1>2, <2>1, KeepsFacts DEF folders, builds, packages
<1>3. (\A f \in Folder : Whole(f)') /\ (\A k \in Package : Claimed(k)')
  BY DEF Good, Whole, Claimed, folders, builds, packages
<1>4. QED
  BY <1>1, <1>2, <1>3 DEF Good

\* The steps that replace the recipe, or else are in its way.
LEMMA AwayGood ==
  ASSUME Typed, Good, ~Overlap', NEW p \in Proc, NEW to, NEW c,
         pc' = [pc EXCEPT ![p] = to], cmd' = [cmd EXCEPT ![p] = c],
         \/ pc[p] \in Fetching \cup {"replaced"} \cup AfterExport
         \/ pc[p] \in Locked /\ to \in {"fetch", "replaced"},
         to \in Using => pc[p] = "record",
         to \in {"clear", "record"} => pc[p] \in {"fetch", "clear"},
         Consistent', Facts(p)',
         \A f \in Folder : Whole(f)', \A k \in Package : Claimed(k)'
  PROVE  Good'
<1>1. \A q \in Proc : Unused(q)'
  BY KeepsUnused
<1>2. ASSUME NEW q \in Proc, q # p
      PROVE  Facts(q)'
  <2>1. pc'[p] = to /\ pc'[q] = pc[q] /\ ~Overlap
    BY <1>2, TypeParts DEF Typed, ProcessesOK, Good
  <2>2. pc[q] \notin Using \cup Writing
    <3>1. CASE pc[p] \in Fetching \cup {"replaced"} \cup AfterExport
      BY <1>2, <3>1, Away
    <3>2. CASE pc[p] \in Locked /\ to \in {"fetch", "replaced"}
      <4>1. pc[q] \notin Writing
        BY <1>2, <2>1, <3>2, OneWriter DEF Writing
      <4>2. pc[q] \notin Using
        BY <1>2, <2>1, <3>2 DEF Overlap, Replaces, Using
      <4>3. QED
        BY <4>1, <4>2
    <3>3. QED
      BY <3>1, <3>2
  <2>3. QED
    BY <2>1, <2>2
       DEF Facts, Changes, Uses, Builds, Prepared, Using, Writing, Locked, Fetching, Building,
           Sourcing, Exporting, AfterExport
<1>3. QED
  BY <1>1, <1>2 DEF Good

\* A command that ends, or is killed, where it leaves all folders as they are.
LEMMA LeaveGood ==
  ASSUME Typed, Good, ~Overlap', NEW p \in Proc, NEW to \in {"idle", "dead"}, Leave(p, to),
         UNCHANGED <<folders, buildOf, noCopy>>, ~HalfWay(p)
  PROVE  Good'
<1>1. pc' = [pc EXCEPT ![p] = to] /\ cmd' = [cmd EXCEPT ![p] = NoCommand] /\ pc'[p] = to
  BY TypeParts DEF Leave, Go, Typed, ProcessesOK
<1>2. to \notin Using /\ Facts(p)'
  BY <1>1
     DEF Facts, Changes, Uses, Builds, Prepared, Using, Fetching, Building, Sourcing, AfterExport
<1>3. QED
  BY <1>1, <1>2, IdleGood

LEMMA StartGood ==
  ASSUME Typed, Good, ~Overlap', NEW p \in Proc,
         \/ \E k \in Package, r \in Rev \cup {None} : Install(p, k, r)
         \/ \E r \in Rev : Export(p, r)
  PROVE  Good'
<1>0. PICK to \in {"recipe", "export"} : \E c : Start(p, to, c)
  BY DEF Install, Export
<1>1. PICK c : Start(p, to, c)
  BY <1>0
<1>2. /\ pc[p] = "idle" /\ pc' = [pc EXCEPT ![p] = to] /\ cmd' = [cmd EXCEPT ![p] = c]
      /\ UNCHANGED <<folders, buildOf, noCopy>>
  BY <1>1 DEF Start, Goes, Go
<1>3. pc'[p] = to /\ ~HalfWay(p)
  BY <1>2, TypeParts DEF Typed, ProcessesOK, HalfWay
<1>4. to \notin Using /\ Facts(p)'
  BY <1>3
     DEF Facts, Changes, Uses, Builds, Prepared, Using, Fetching, Building, Sourcing, AfterExport
<1>5. QED
  BY <1>2, <1>3, <1>4, IdleGood

\* A recipe that is there when its lock is taken is all there.
LEMMA RecipeIsThere ==
  ASSUME Typed, Good, NEW p \in Proc, pc[p] \in Locked \ {"unpacked", "replaced"}
  PROVE  /\ export # None => export \in Rev /\ revision = export
         /\ exports \in {None, export}
         /\ export # None /\ source # None /\ ~sourceDirty => source = export
<1>1. ASSUME NEW q \in Proc
      PROVE  pc[q] \notin {"clear", "record", "unpacked", "replaced", "revise", "stale"}
  <2>1. CASE q = p
    BY <2>1 DEF Locked, Sourcing, Exporting
  <2>2. CASE q # p
    BY <2>2, OneWriter DEF Good, Writing, Locked, Sourcing, Exporting, Fetching, AfterExport
  <2>3. QED
    BY <2>1, <2>2
<1>2. QED
  BY <1>1 DEF Good, Consistent

LEMMA EnterGood ==
  ASSUME Typed, Good, ~Overlap', NEW p \in Proc, Enter(p)
  PROVE  Good'
<1>0. pc \in [Proc -> Steps] /\ cmd \in [Proc -> Command] /\ Facts(p) /\ Unused(p)
  BY TypeParts DEF Typed, ProcessesOK, Good
<1>1. ASSUME NEW to \in {"get", "mark", "replace", "build", "package"}, Go(p, to),
             UNCHANGED <<folders, cmd, bounds>>,
             \/ pc[p] = "recipe" /\ to = "get"
             \/ pc[p] = "sources" /\ to = "mark"
             \/ pc[p] = "export" /\ to = "replace"
             \/ pc[p] = "reader" /\ to = IF cmd[p].skip THEN "package" ELSE "build"
      PROVE  Good'
  <2>1. pc' = [pc EXCEPT ![p] = to] /\ cmd' = [cmd EXCEPT ![p] = cmd[p]] /\ ~HalfWay(p)
        /\ UNCHANGED <<folders, buildOf, noCopy>>
    BY <1>0, <1>1 DEF Go, bounds, HalfWay
  <2>2. pc'[p] = to /\ cmd'[p] = cmd[p]
    BY <1>0, <2>1
  <2>3. UNCHANGED <<export, exports, source, sourceDirty, build, built, buildDirty, packaged,
                    buildOf, noCopy>>
    BY <2>1 DEF folders, recipe, sources, builds, packages
  <2>4. Changes(p)' /\ Uses(p)' /\ Builds(p)'
    BY <1>0, <1>1, <2>2, <2>3
       DEF Facts, Changes, Uses, Builds, Prepared, Using, Fetching, Building, Sourcing,
           AfterExport, BuildFolder
  <2>5. to \in Using => pc[p] \in Using
    BY <1>1 DEF Using, Building, Sourcing
  <2>6. QED
    BY <2>1, <2>4, <2>5, IdleGood DEF Facts
<1>2. CASE LockPackage(p)
  <2>1. /\ pc[p] = "lock" /\ pc' = [pc EXCEPT ![p] = "folder"] /\ UNCHANGED <<cmd, bounds>>
        /\ holder[cmd[p].pkg] = Nobody /\ UNCHANGED <<recipe, sources, builds, claims>>
        /\ packaged' = [packaged EXCEPT ![cmd[p].pkg] = None]
    BY <1>2 DEF LockPackage, Goes, Go
  <2>2. pc'[p] = "folder" /\ cmd'[p] = cmd[p] /\ cmd[p].pkg \in Package /\ UNCHANGED buildOf
        /\ packaged \in [Package -> Content]
    BY <1>0, <2>1, TypeParts DEF Typed, CmdOf, Using, bounds, FoldersOK
  <2>3. Consistent' /\ \A q \in Proc : Unused(q)'
    BY <2>1, KeepsConsistent, KeepsUnused DEF HalfWay, Using, Building
  <2>4. Facts(p)'
    BY <1>0, <2>1, <2>2
       DEF Facts, Changes, Uses, Builds, Prepared, Using, Fetching, Building, Sourcing,
           AfterExport, recipe
  <2>5. ASSUME NEW q \in Proc, q # p
        PROVE  Facts(q)'
    <3>1. pc'[q] = pc[q] /\ cmd'[q] = cmd[q] /\ UNCHANGED noCopy
      BY <1>0, <2>1, <2>5 DEF bounds
    <3>2. pc[q] \in Building /\ packaged[cmd[q].pkg] = None => packaged'[cmd[q].pkg] = None
      BY <2>1, <2>2 DEF Typed, CmdOf, Using
    <3>3. QED
      BY <2>1, <2>2, <2>5, <3>1, <3>2, KeepsFacts DEF builds
  <2>6. (\A f \in Folder : Whole(f)') /\ (\A k \in Package : Claimed(k)')
    BY <2>1, <2>2 DEF Good, Whole, Claimed, builds
  <2>7. QED
    BY <2>3, <2>4, <2>5, <2>6 DEF Good
<1>3. QED
  <2>1. CASE WriteLock(p, "recipe", "get") \/ WriteLock(p, "sources", "mark")
               \/ WriteLock(p, "export", "replace")
    BY <1>1, <2>1 DEF WriteLock, Goes
  <2>2. CASE ReadLock(p)
    BY <1>1, <2>2 DEF ReadLock, Goes
  <2>3. QED
    BY <1>2, <2>1, <2>2 DEF Enter

LEMMA RecipeGood ==
  ASSUME Typed, Good, ~Overlap', NEW p \in Proc,
         GetRecipe(p) \/ Fetch(p) \/ ClearSource(p) \/ Record(p) \/ Load(p)
  PROVE  Good'
<1> USE DEF recipe, sources
<1>0. /\ pc \in [Proc -> Steps] /\ cmd \in [Proc -> Command] /\ latest \in Rev
      /\ Facts(p) /\ CmdOf(p) /\ Consistent
      /\ (\A f \in Folder : Whole(f)) /\ (\A k \in Package : Claimed(k))
  BY TypeParts DEF Typed, ProcessesOK, SharedOK, Good
<1> DEFINE Rest == \A q \in Proc : q # p => pc'[q] = pc[q]
<1>1. UNCHANGED <<builds, packages, buildOf>> =>
        (\A f \in Folder : Whole(f)') /\ (\A k \in Package : Claimed(k)')
  BY <1>0 DEF Whole, Claimed, builds, packages
<1>2. CASE GetRecipe(p)
  <2>1. /\ pc[p] = "get" /\ ~HalfWay(p) /\ pc[p] \in Locked /\ UNCHANGED <<builds, packages, bounds>>
        /\ UNCHANGED sourceDirty
    BY <1>2 DEF GetRecipe, HalfWay, Locked
  <2>2. CASE Go(p, "fetch") /\ UNCHANGED <<recipe, source, role, holder, cmd>>
    <3>1. pc' = [pc EXCEPT ![p] = "fetch"] /\ cmd' = [cmd EXCEPT ![p] = cmd[p]]
      BY <1>0, <2>2 DEF Go
    <3>2. Facts(p)' /\ "fetch" \notin Using
      BY <1>0, <3>1
         DEF Facts, Changes, Uses, Builds, Prepared, Using, Fetching, Building, Sourcing, AfterExport
    <3>3. UNCHANGED <<folders, buildOf, noCopy>>
      BY <2>1, <2>2 DEF folders, bounds
    <3>4. "fetch" \in Using => pc[p] \in Using \cup {"get"}
      BY <3>2
    <3>5. Facts(p)' /\ ~HalfWay(p) /\ "fetch" \notin {"clear", "record"}
      BY <2>1, <3>2
    <3> HIDE DEF recipe, sources
    <3>6. QED
      BY <3>1, <3>3, <3>4, <3>5, IdleGood
  <2>3. CASE Leave(p, "idle") /\ UNCHANGED <<recipe, source>>
    BY <2>1, <2>3, LeaveGood DEF folders, bounds
  <2>4. CASE Go(p, "fetch") /\ RemoveRecipe(p) /\ UNCHANGED <<revision, holder, cmd>>
    <3>1. pc' = [pc EXCEPT ![p] = "fetch"] /\ cmd' = [cmd EXCEPT ![p] = cmd[p]] /\ pc'[p] = "fetch"
          /\ source' = None /\ export' = None /\ exports' = None
      BY <1>0, <2>4 DEF Go, RemoveRecipe
    <3>2. Facts(p)' /\ "fetch" \notin Using
      BY <3>1
         DEF Facts, Changes, Uses, Builds, Prepared, Using, Fetching, Building, Sourcing, AfterExport
    <3>3. Consistent'
      BY <3>1 DEF Consistent
    <3>4. QED
      BY <1>1, <2>1, <3>1, <3>2, <3>3, AwayGood DEF bounds
  <2>5. CASE /\ export # None /\ cmd[p].rev \in {None, revision} /\ Go(p, "load")
             /\ cmd' = [cmd EXCEPT ![p].rev = revision] /\ UNCHANGED <<recipe, source>>
    <3> DEFINE c == [cmd[p] EXCEPT !.rev = revision]
    <3>1. pc' = [pc EXCEPT ![p] = "load"] /\ cmd' = [cmd EXCEPT ![p] = c] /\ pc'[p] = "load"
          /\ cmd'[p].rev = revision
      BY <1>0, <2>5 DEF Go, Command
    <3>2. export \in Rev /\ revision = export
      BY <2>1, <2>5, RecipeIsThere
    <3> HIDE DEF c
    <3>3. Facts(p)'
      BY <2>5, <3>1, <3>2
         DEF Facts, Changes, Uses, Builds, Prepared, Using, Fetching, Building, Sourcing, AfterExport
    <3>4. QED
      BY <2>1, <2>5, <3>1, <3>3, IdleGood DEF folders, bounds
  <2>6. QED
    BY <1>2, <2>2, <2>3, <2>4, <2>5 DEF GetRecipe
<1>3. CASE Fetch(p)
  <2>1. pc[p] = "fetch" /\ exports' = None /\ UNCHANGED <<revision, sources, builds, packages>>
    BY <1>3 DEF Fetch
  <2>2. CASE Raise(p) /\ export' = None
    <3>1. pc' = [pc EXCEPT ![p] = "idle"] /\ cmd' = [cmd EXCEPT ![p] = NoCommand] /\ UNCHANGED buildOf
          /\ pc'[p] = "idle"
      BY <1>0, <2>2 DEF Raise, Leave, Go
    <3>2. Facts(p)' /\ "idle" \notin Using
      BY <3>1
         DEF Facts, Changes, Uses, Builds, Prepared, Using, Fetching, Building, Sourcing, AfterExport
    <3>3. Consistent'
      BY <2>1, <2>2 DEF Consistent
    <3>4. QED
      BY <1>1, <2>1, <3>1, <3>2, <3>3, AwayGood DEF Fetching
  <2>3. CASE ~(Raise(p) /\ export' = None)
    <3> DEFINE rev == IF cmd[p].rev = None THEN latest ELSE cmd[p].rev
               c == [cmd[p] EXCEPT !.rev = rev]
    <3>1. rev \in Rev /\ c.rev = rev
      BY <1>0 DEF Command
    <3>2. pc' = [pc EXCEPT ![p] = "clear"] /\ cmd' = [cmd EXCEPT ![p] = c] /\ UNCHANGED bounds
          /\ export' = cmd'[p].rev
      BY <1>3, <2>3 DEF Fetch, Go
    <3> HIDE DEF c, rev
    <3>3. pc'[p] = "clear" /\ cmd'[p].rev = rev /\ export' = rev
      BY <1>0, <3>1, <3>2
    <3>4. Facts(p)' /\ "clear" \notin Using
      BY <3>3
         DEF Facts, Changes, Uses, Builds, Prepared, Using, Fetching, Building, Sourcing, AfterExport
    <3>5. Consistent'
      BY <2>1, <3>3 DEF Consistent
    <3>6. QED
      BY <1>1, <2>1, <3>2, <3>4, <3>5, AwayGood DEF Fetching, bounds
  <2>4. QED
    BY <2>2, <2>3
<1>4. CASE ClearSource(p)
  <2>1. /\ pc[p] = "clear" /\ pc' = [pc EXCEPT ![p] = "record"] /\ cmd' = [cmd EXCEPT ![p] = cmd[p]]
        /\ source' = None /\ UNCHANGED <<recipe, sourceDirty, builds, packages, bounds>>
    BY <1>0, <1>4 DEF ClearSource, Goes, Go
  <2>2. pc'[p] = "record" /\ cmd'[p] = cmd[p] /\ Rest
    BY <1>0, <2>1
  <2>3. Facts(p)' /\ "record" \notin Using
    BY <1>0, <2>1, <2>2
       DEF Facts, Changes, Uses, Builds, Prepared, Using, Fetching, Building, Sourcing, AfterExport
  <2>4. Consistent'
    BY <1>0, <2>1, <2>2 DEF Consistent
  <2>5. QED
    BY <1>1, <2>1, <2>3, <2>4, AwayGood DEF Fetching, bounds
<1>5. CASE Record(p)
  <2>1. /\ pc[p] = "record" /\ pc' = [pc EXCEPT ![p] = "load"] /\ cmd' = [cmd EXCEPT ![p] = cmd[p]]
        /\ revision' = cmd[p].rev /\ UNCHANGED <<export, exports, sources, builds, packages, bounds>>
    BY <1>0, <1>5 DEF Record, Goes, Go
  <2>2. pc'[p] = "load" /\ cmd'[p] = cmd[p] /\ Rest
    BY <1>0, <2>1
  <2>3. export = cmd[p].rev /\ source = None /\ cmd[p].rev \in Rev
    BY <1>0, <2>1 DEF Facts, Changes, CmdOf
  <2>4. Facts(p)'
    BY <2>1, <2>2, <2>3
       DEF Facts, Changes, Uses, Builds, Prepared, Using, Fetching, Building, Sourcing, AfterExport
  <2>5. Consistent'
    BY <1>0, <2>1, <2>2, <2>3 DEF Consistent
  <2>6. QED
    BY <1>1, <2>1, <2>4, <2>5, AwayGood DEF Fetching, bounds
<1>6. CASE Load(p)
  <2>1. pc[p] = "load" /\ ~HalfWay(p) /\ UNCHANGED <<folders, bounds>>
    BY <1>6 DEF Load, HalfWay
  <2>2. CASE export \in Rev /\ cmd[p].rev # None
    <3> DEFINE c == [cmd[p] EXCEPT !.loaded = export]
    <3>1. c.rev = cmd[p].rev /\ c.loaded = export
      BY <1>0 DEF Command
    <3>2. pc' = [pc EXCEPT ![p] = "lock"] /\ cmd' = [cmd EXCEPT ![p] = c]
      BY <1>6, <2>2 DEF Load, Go
    <3> HIDE DEF c
    <3>3. pc'[p] = "lock" /\ cmd'[p] = c /\ export' = export
      BY <1>0, <2>1, <3>2 DEF folders
    <3>4. Facts(p)'
      BY <1>0, <2>1, <3>1, <3>3
         DEF Facts, Changes, Uses, Builds, Prepared, Using, Fetching, Building, Sourcing, AfterExport
    <3>5. UNCHANGED <<folders, buildOf, noCopy>> /\ pc[p] \in Using
      BY <2>1 DEF bounds, Using
    <3>6. /\ "lock" \in Using => pc[p] \in Using \cup {"get"}
          /\ ~HalfWay(p) /\ "lock" \notin {"clear", "record"}
      BY <2>1, <3>5
    <3>7. UNCHANGED <<folders, buildOf, noCopy>>
      BY <3>5
    <3> HIDE DEF recipe, sources
    <3>8. QED
      BY <3>2, <3>4, <3>6, <3>7, IdleGood
  <2>3. CASE ~(export \in Rev /\ cmd[p].rev # None)
    BY <1>6, <2>1, <2>3, LeaveGood DEF Load, bounds
  <2>4. QED
    BY <2>2, <2>3
<1>7. QED
  BY <1>2, <1>3, <1>4, <1>5, <1>6

LEMMA ExportGood ==
  ASSUME Typed, Good, ~Overlap', NEW p \in Proc,
         Replace(p) \/ Replaced(p) \/ Revise(p) \/ RemoveStale(p)
  PROVE  Good'
<1> USE DEF recipe, sources
<1>0. /\ pc \in [Proc -> Steps] /\ cmd \in [Proc -> Command]
      /\ Facts(p) /\ CmdOf(p) /\ Consistent
      /\ (\A f \in Folder : Whole(f)) /\ (\A k \in Package : Claimed(k))
  BY TypeParts DEF Typed, ProcessesOK, Good
<1> DEFINE Rest == \A q \in Proc : q # p => pc'[q] = pc[q]
<1>1. UNCHANGED <<builds, packages, buildOf>> =>
        (\A f \in Folder : Whole(f)') /\ (\A k \in Package : Claimed(k)')
  BY <1>0 DEF Whole, Claimed, builds, packages
<1>2. CASE Replace(p)
  <2> DEFINE c == [cmd[p] EXCEPT !.skip = export = cmd[p].rev]
  <2>1. c.rev = cmd[p].rev /\ (c.skip => export = cmd[p].rev)
    BY <1>0 DEF Command
  <2>2. /\ pc[p] = "replace" /\ pc' = [pc EXCEPT ![p] = "replaced"] /\ cmd' = [cmd EXCEPT ![p] = c]
        /\ UNCHANGED <<sources, builds, packages, bounds>>
    BY <1>2 DEF Replace, Goes, Go
  <2> HIDE DEF c
  <2>3. pc'[p] = "replaced" /\ cmd'[p] = c /\ pc[p] \in Locked \ {"unpacked", "replaced"}
    BY <1>0, <2>2 DEF Locked, Exporting
  <2>4. cmd[p].rev \in Rev
    BY <1>0, <2>2 DEF CmdOf, Exporting
  <2>5. export # None /\ source # None /\ ~sourceDirty => source = export
    BY <2>3, RecipeIsThere
  <2>6. Facts(p)' /\ "replaced" \notin Using
    BY <2>1, <2>2, <2>3, <2>4, <2>5, ValuesAssumption
       DEF Facts, Changes, Uses, Builds, Prepared, Using, Fetching, Building, Sourcing, AfterExport
  <2>7. Consistent'
    BY <2>3 DEF Consistent
  <2>8. QED
    BY <1>1, <2>2, <2>3, <2>6, <2>7, AwayGood DEF bounds
<1>3. CASE Replaced(p)
  <2>1. /\ pc[p] = "replaced" /\ pc' = [pc EXCEPT ![p] = "revise"] /\ cmd' = [cmd EXCEPT ![p] = cmd[p]]
        /\ export' = cmd[p].rev /\ exports' = cmd[p].rev
        /\ UNCHANGED <<revision, sources, builds, packages, bounds>>
    BY <1>0, <1>3 DEF Replaced, Goes, Go
  <2>2. pc'[p] = "revise" /\ cmd'[p] = cmd[p]
    BY <1>0, <2>1
  <2>3. Facts(p)' /\ "revise" \notin Using
    BY <1>0, <2>1, <2>2
       DEF Facts, Changes, Uses, Builds, Prepared, Using, Fetching, Building, Sourcing, AfterExport
  <2>4. Consistent'
    BY <2>1, <2>2 DEF Consistent
  <2>5. QED
    BY <1>1, <2>1, <2>3, <2>4, AwayGood DEF bounds
<1>4. CASE Revise(p)
  <2>1. /\ pc[p] = "revise" /\ pc' = [pc EXCEPT ![p] = "stale"] /\ cmd' = [cmd EXCEPT ![p] = cmd[p]]
        /\ revision' = cmd[p].rev
        /\ UNCHANGED <<export, exports, sources, builds, packages, bounds>>
    BY <1>0, <1>4 DEF Revise, Goes, Go
  <2>2. pc'[p] = "stale" /\ cmd'[p] = cmd[p] /\ Rest
    BY <1>0, <2>1
  <2>3. export = cmd[p].rev /\ cmd[p].rev \in Rev
    BY <1>0, <2>1 DEF Facts, Changes, CmdOf, AfterExport
  <2>4. Facts(p)' /\ "stale" \notin Using
    BY <1>0, <2>1, <2>2
       DEF Facts, Changes, Uses, Builds, Prepared, Using, Fetching, Building, Sourcing, AfterExport
  <2>5. Consistent'
    BY <1>0, <2>1, <2>2, <2>3 DEF Consistent
  <2>6. QED
    BY <1>1, <2>1, <2>4, <2>5, AwayGood DEF bounds, AfterExport
<1>5. CASE RemoveStale(p)
  <2>1. /\ pc[p] = "stale" /\ pc' = [pc EXCEPT ![p] = "idle"] /\ cmd' = [cmd EXCEPT ![p] = NoCommand]
        /\ UNCHANGED <<recipe, builds, claims, buildOf>>
    BY <1>5 DEF RemoveStale, Leave, Go, bounds
  <2>2. pc'[p] = "idle" /\ Rest
    BY <1>0, <2>1
  <2>3. Facts(p)' /\ "idle" \notin Using
    BY <2>2
       DEF Facts, Changes, Uses, Builds, Prepared, Using, Fetching, Building, Sourcing, AfterExport
  <2>4. source' # None /\ ~sourceDirty' => source' = export
    <3>1. export = cmd[p].rev
          /\ (cmd[p].skip /\ source # None /\ ~sourceDirty => source = cmd[p].rev)
      BY <1>0, <2>1 DEF Facts, Changes, AfterExport
    <3>2. QED
      BY <1>5, <3>1 DEF RemoveStale, RemoveSource
  <2>5. Consistent'
    BY <1>0, <2>1, <2>2, <2>4 DEF Consistent
  <2>6. (\A f \in Folder : Whole(f)') /\ (\A k \in Package : Claimed(k)')
    BY <1>0, <1>5, <2>1 DEF Whole, Claimed, builds, RemoveStale, Purge
  <2>7. QED
    BY <2>1, <2>3, <2>5, <2>6, AwayGood DEF AfterExport
<1>6. QED
  BY <1>2, <1>3, <1>4, <1>5

\* The steps that prepare the sources, under the write lock.
LEMMA SourceStep ==
  ASSUME Typed, Good, ~Overlap', NEW p \in Proc, NEW to, NEW c, pc[p] \in Sourcing,
         pc' = [pc EXCEPT ![p] = to], cmd' = [cmd EXCEPT ![p] = c],
         to \in Sourcing \cup {"idle"},
         UNCHANGED <<export, revision, builds, packages, buildOf, noCopy>>,
         source = export /\ export \in Rev /\ ~sourceDirty => UNCHANGED sources,
         to = "unpacked" \/ exports' \in {None, export},
         export # None /\ source' # None /\ ~sourceDirty' => source' = export,
         Facts(p)'
  PROVE  Good'
<1>1. /\ pc'[p] = to /\ pc[p] \in Writing /\ pc[p] \in Using /\ ~Overlap
      /\ \A q \in Proc : q # p => pc'[q] = pc[q] /\ cmd'[q] = cmd[q]
  BY TypeParts DEF Typed, ProcessesOK, Good, Writing, Locked, Using, Building
<1>2. \A q \in Proc : q # p => pc[q] \notin Writing
  BY <1>1, OneWriter
<1>3. \A q \in Proc : Unused(q)'
  <2>1. to \notin {"clear", "record"}
    BY DEF Sourcing
  <2>2. QED
    BY <1>1, <2>1, KeepsUnused
<1>4. ASSUME NEW q \in Proc, q # p
      PROVE  Facts(q)'
  <2>1. Facts(q) /\ pc[q] \notin Writing /\ pc'[q] = pc[q] /\ cmd'[q] = cmd[q]
    BY <1>1, <1>2, <1>4 DEF Good
  <2>2. Changes(q)'
    BY <2>1 DEF Changes, Writing, Fetching, Exporting, Locked, AfterExport
  <2>3. Prepared(q) => UNCHANGED sources
    BY <2>1 DEF Facts, Uses, Prepared, Using, Building, Sourcing
  <2>4. Uses(q)'
    BY <2>1, <2>3
       DEF Facts, Uses, Prepared, sources, Writing, Locked, Sourcing
  <2>5. Builds(q)'
    BY <2>1 DEF Facts, Builds, Prepared, BuildFolder, builds, packages
  <2>6. QED
    BY <2>2, <2>4, <2>5 DEF Facts
<1>5. Consistent'
  <2>1. pc[p] \notin {"clear", "record", "replaced", "revise", "stale"}
    BY DEF Sourcing
  <2>2. \A q \in Proc : pc[q] \notin {"clear", "record", "replaced", "revise", "stale"}
    BY <1>2, <2>1 DEF Writing, Locked, Fetching, Exporting, AfterExport
  <2>3. export # None => export \in Rev /\ revision = export
    BY <2>2 DEF Good, Consistent
  <2>4. QED
    BY <1>1, <2>3 DEF Consistent
<1>6. (\A f \in Folder : Whole(f)') /\ (\A k \in Package : Claimed(k)')
  BY DEF Good, Whole, Claimed, builds, packages
<1>7. QED
  BY <1>3, <1>4, <1>5, <1>6, Facts(p)' DEF Good

LEMMA SourceGood ==
  ASSUME Typed, Good, ~Overlap', NEW p \in Proc,
         RetrieveExports(p) \/ Unpacked(p) \/ ConfigSource(p) \/ RunSource(p)
  PROVE  Good'
<1> DEFINE Rest == UNCHANGED <<export, revision, builds, packages, buildOf, noCopy>>
<1>0. /\ pc \in [Proc -> Steps] /\ cmd \in [Proc -> Command] /\ pc[p] \in Sourcing /\ Rest
      /\ pc[p] \in {"unpack", "unpacked", "source", "filling"}
  BY TypeParts
     DEF Typed, ProcessesOK, RetrieveExports, Unpacked, ConfigSource, RunSource, Raise, Goes,
         Sourcing, recipe, bounds
<1>1. /\ Facts(p) /\ CmdOf(p) /\ export = cmd[p].rev /\ export \in Rev /\ cmd[p].loaded = export
      /\ export # None
  BY <1>0, ValuesAssumption DEF Good, Facts, Uses, Typed, Using, Building
<1>2. pc[p] # "unpacked" =>
        /\ exports \in {None, export}
        /\ source # None /\ ~sourceDirty => source = export
  BY <1>0, <1>1, RecipeIsThere DEF Locked
<1>3. pc[p] = "unpacked" => (source # None /\ ~sourceDirty => source = export)
  <2>1. SUFFICES ASSUME pc[p] = "unpacked"
                 PROVE  \A q \in Proc : pc[q] \notin {"clear", "replaced", "revise", "stale"}
    BY <1>1 DEF Good, Consistent
  <2>2. QED
    BY <2>1, OneWriter DEF Good, Writing, Locked, Sourcing, Exporting, Fetching, AfterExport
<1>4. ASSUME NEW to \in Sourcing, Go(p, to), UNCHANGED cmd,
             source = export /\ export \in Rev /\ ~sourceDirty => UNCHANGED sources,
             to = "unpacked" \/ exports' \in {None, export},
             source' # None /\ ~sourceDirty' => source' = export,
             to \notin {"unpack", "mark"},
             to \in {"source", "filling"} => exports' = export,
             to = "filling" => sourceDirty',
             to = "copy" => source' = export /\ ~sourceDirty'
      PROVE  Good'
  <2>1. pc' = [pc EXCEPT ![p] = to] /\ cmd' = [cmd EXCEPT ![p] = cmd[p]]
        /\ pc'[p] = to /\ cmd'[p] = cmd[p]
    BY <1>0, <1>4 DEF Go
  <2>2. Changes(p)'
    BY <2>1 DEF Changes, Sourcing, AfterExport
  <2>3. Uses(p)'
    BY <1>0, <1>1, <1>4, <2>1 DEF Uses, Prepared, Sourcing
  <2>4. Builds(p)'
    BY <1>0, <1>1, <1>4, <2>1
       DEF Facts, Builds, Prepared, Building, Sourcing, BuildFolder, builds, packages
  <2>5. QED
    BY <1>0, <1>4, <2>1, <2>2, <2>3, <2>4, SourceStep DEF Facts
<1>5. ASSUME Raise(p), exports' \in {None, export}, UNCHANGED sources
      PROVE  Good'
  <2>1. pc' = [pc EXCEPT ![p] = "idle"] /\ cmd' = [cmd EXCEPT ![p] = NoCommand] /\ pc'[p] = "idle"
    BY <1>0, <1>5 DEF Raise, Leave, Go
  <2>2. Facts(p)'
    BY <2>1
       DEF Facts, Changes, Uses, Builds, Prepared, Using, Fetching, Building, Sourcing, AfterExport
  <2>3. source' # None /\ ~sourceDirty' => source' = export
    BY <1>0, <1>2, <1>3, <1>5 DEF sources
  <2>4. QED
    BY <1>0, <1>5, <2>1, <2>2, <2>3, SourceStep
<1>6. CASE RetrieveExports(p)
  BY <1>0, <1>1, <1>2, <1>4, <1>6 DEF RetrieveExports, Goes, sources, Sourcing
<1>7. CASE Unpacked(p)
  BY <1>0, <1>1, <1>3, <1>4, <1>5, <1>7 DEF Unpacked, sources, Sourcing
<1>8. CASE ConfigSource(p)
  <2>1. exports = export /\ exports' = export /\ UNCHANGED cmd /\ pc[p] = "source"
    BY <1>0, <1>1, <1>8 DEF ConfigSource, Goes, Facts, Uses, recipe
  <2>2. CASE sourceDirty \/ source = None
    BY <1>1, <1>4, <1>8, <2>1, <2>2 DEF ConfigSource, Goes, Sourcing
  <2>3. CASE ~(sourceDirty \/ source = None)
    <3>1. source = export /\ source' = source /\ ~sourceDirty' /\ Go(p, "copy")
      BY <1>2, <1>8, <2>1, <2>3 DEF ConfigSource, Goes
    <3>2. sourceDirty \in BOOLEAN /\ sourceDirty' \in BOOLEAN
      BY <1>8, TypeParts DEF Typed, FoldersOK, ConfigSource
    <3>3. UNCHANGED sources
      BY <2>3, <3>1, <3>2 DEF sources
    <3>4. QED
      BY <1>4, <2>1, <3>1, <3>3 DEF Sourcing
  <2>4. QED
    BY <2>2, <2>3
<1>9. CASE RunSource(p)
  <2>1. exports = export /\ exports' = export /\ sourceDirty
    BY <1>0, <1>1, <1>9 DEF RunSource, Facts, Uses, recipe
  <2>2. CASE Raise(p) /\ UNCHANGED sources
    BY <1>5, <2>1, <2>2
  <2>3. CASE Go(p, "copy") /\ source' = export /\ sourceDirty' = FALSE /\ UNCHANGED cmd
    BY <1>4, <2>1, <2>3 DEF Sourcing
  <2>4. QED
    BY <1>1, <1>9, <2>1, <2>2, <2>3 DEF RunSource
<1>10. QED
  BY <1>6, <1>7, <1>8, <1>9

\* The steps that change a build folder or a package, their own.
LEMMA BuildStep ==
  ASSUME Typed, Good, ~Overlap', NEW p \in Proc, NEW to, NEW c, pc[p] \in Building, ~HalfWay(p),
         pc' = [pc EXCEPT ![p] = to], cmd' = [cmd EXCEPT ![p] = c], to \notin {"clear", "record"},
         UNCHANGED <<recipe, sources, buildOf, noCopy>>,
         NEW own, own = BuildFolder(p), NEW k, k = cmd[p].pkg,
         \A f \in Folder \ {own} :
           build'[f] = build[f] /\ built'[f] = built[f] /\ buildDirty'[f] = buildDirty[f],
         \A l \in Package \ {k} : packaged'[l] = packaged[l] /\ claims'[l] = claims[l],
         Whole(own)', Claimed(k)', Facts(p)'
  PROVE  Good'
<1>1. pc[p] \in Using
  BY DEF Using
<1>2. Consistent' /\ \A q \in Proc : Unused(q)'
  BY <1>1, KeepsConsistent, KeepsUnused
<1>3. ASSUME NEW q \in Proc, q # p
      PROVE  Facts(q)'
  <2>1. pc'[q] = pc[q] /\ cmd'[q] = cmd[q] /\ ~Overlap
    BY <1>3, TypeParts DEF Typed, ProcessesOK, Good
  <2>2. ASSUME pc[q] \in Building
        PROVE  /\ BuildFolder(q) \in Folder \ {own}
               /\ cmd[q].pkg \in Package \ {k}
    <3>1. cmd[q].pkg \in Package
      BY <2>2 DEF Typed, CmdOf, Using
    <3>2. QED
      BY <1>3, <2>1, <2>2, <3>1, OwnFolder, FolderOf DEF BuildFolder
  <2>3. QED
    BY <1>3, <2>1, <2>2, KeepsFacts
<1>4. \A f \in Folder : Whole(f)'
  BY DEF Good, Whole
<1>5. \A l \in Package : Claimed(l)'
  BY DEF Good, Claimed
<1>6. QED
  BY <1>2, <1>3, <1>4, <1>5, Facts(p)' DEF Good

LEMMA BuildGood ==
  ASSUME Typed, Good, ~Overlap', NEW p \in Proc,
         GetBuildFolder(p) \/ MarkBuild(p) \/ CopySources(p) \/ Build(p) \/ MakePackage(p)
  PROVE  Good'
<1>0. /\ pc \in [Proc -> Steps] /\ cmd \in [Proc -> Command] /\ cmd[p] \in Command
      /\ pc[p] \in {"folder", "mark", "copy", "build", "package"}
      /\ pc[p] \in Building /\ ~HalfWay(p) /\ UNCHANGED <<recipe, sources, buildOf, noCopy>>
  BY TypeParts
     DEF Typed, ProcessesOK, GetBuildFolder, MarkBuild, CopySources, Build, BuildFinishes,
         BuildFails, MakePackage, Raise, Goes, HalfWay, Building, Sourcing, bounds
<1>1. PICK own \in Folder, k \in Package : own = BuildFolder(p) /\ k = cmd[p].pkg
  BY <1>0, FolderOf DEF Typed, CmdOf, Using, BuildFolder
<1>2. /\ own = buildOf[k]
      /\ build \in [Folder -> Content] /\ built \in [Folder -> BOOLEAN]
      /\ buildDirty \in [Folder -> BOOLEAN]
      /\ packaged \in [Package -> Content] /\ claims \in [Package -> Rev \cup {None}]
      /\ cmd[p].rev \in Rev /\ cmd[p].loaded \in Rev
  BY <1>0, <1>1, TypeParts DEF Typed, FoldersOK, CmdOf, Using, BuildFolder
<1>3. /\ export = cmd[p].rev /\ export \in Rev /\ cmd[p].loaded = export /\ packaged[k] = None
      /\ export # None /\ Facts(p) /\ CmdOf(p) /\ Whole(own) /\ Claimed(k)
  BY <1>0, <1>1, <1>2, ValuesAssumption DEF Good, Facts, Uses, Builds, Typed, Using
<1>4. UNCHANGED <<export, exports, source, sourceDirty>>
  BY <1>0 DEF recipe, sources
<1> DEFINE Others ==
      /\ \A f \in Folder \ {own} :
           build'[f] = build[f] /\ built'[f] = built[f] /\ buildDirty'[f] = buildDirty[f]
      /\ \A l \in Package \ {k} : packaged'[l] = packaged[l] /\ claims'[l] = claims[l]
<1>5. ASSUME NEW to \in Building, NEW c, pc' = [pc EXCEPT ![p] = to], cmd' = [cmd EXCEPT ![p] = c],
             c.pkg = k, c.rev = cmd[p].rev, c.loaded = cmd[p].loaded,
             Others, UNCHANGED packages, Whole(own)',
             to \in {"sources", "unpack", "reader", "package"},
             to = "sources" => ~buildDirty'[own],
             to = "unpack" => buildDirty'[own],
             to = "reader" /\ ~c.skip =>
               /\ source = export /\ ~sourceDirty /\ buildDirty'[own]
               /\ ~noCopy => build'[own] = export,
             to = "package" /\ ~c.skip => built'[own] /\ build'[own] = export
      PROVE  Good'
  <2>1. pc'[p] = to /\ cmd'[p] = c /\ BuildFolder(p)' = own /\ UNCHANGED <<packaged, claims, noCopy>>
    BY <1>0, <1>2, <1>5 DEF BuildFolder, packages
  <2>2. Changes(p)' /\ Uses(p)'
    BY <1>3, <1>4, <1>5, <2>1
       DEF Changes, Uses, Prepared, Using, Building, Sourcing, AfterExport
  <2>3. Builds(p)'
    BY <1>3, <1>4, <1>5, <2>1 DEF Builds, Prepared, Building, Sourcing
  <2>4. Claimed(k)'
    BY <1>0, <1>3, <2>1 DEF Claimed
  <2>5. to \notin {"clear", "record"}
    BY <1>5
  <2>6. QED
    BY <1>0, <1>1, <1>5, <2>2, <2>3, <2>4, <2>5, BuildStep DEF Facts
<1>6. ASSUME Leave(p, "idle"), Others, Whole(own)', Claimed(k)'
      PROVE  Good'
  <2>1. pc' = [pc EXCEPT ![p] = "idle"] /\ cmd' = [cmd EXCEPT ![p] = NoCommand] /\ pc'[p] = "idle"
    BY <1>0, <1>6 DEF Leave, Go
  <2>2. Facts(p)' /\ "idle" \notin {"clear", "record"}
    BY <2>1
       DEF Facts, Changes, Uses, Builds, Prepared, Using, Fetching, Building, Sourcing, AfterExport
  <2>3. QED
    BY <1>0, <1>1, <1>6, <2>1, <2>2, BuildStep
<1>7. CASE GetBuildFolder(p)
  <2> DEFINE reuse == own # k /\ build[own] # None /\ ~buildDirty[own]
             to == IF reuse THEN "reader" ELSE "sources"
             c == [cmd[p] EXCEPT !.skip = reuse]
  <2>1. /\ pc' = [pc EXCEPT ![p] = to] /\ cmd' = [cmd EXCEPT ![p] = c]
        /\ build' = [build EXCEPT ![own] = IF buildDirty[own] THEN None ELSE @]
        /\ built' = [built EXCEPT ![own] = @ /\ ~buildDirty[own]]
        /\ buildDirty' = [buildDirty EXCEPT ![own] = FALSE]
        /\ UNCHANGED packages
    BY <1>1, <1>7 DEF GetBuildFolder, Goes, Go
  <2>2. c.pkg = k /\ c.rev = cmd[p].rev /\ c.loaded = cmd[p].loaded /\ c.skip = reuse
    BY <1>1, <1>0 DEF Command
  <2>3. to \in Building /\ to \in {"sources", "reader"} /\ (to = "reader" => c.skip)
    BY <2>2 DEF Building
  <2>4. Others
    BY <1>2, <2>1 DEF packages
  <2>5. ~buildDirty'[own] /\ Whole(own)'
    BY <1>2, <1>3, <2>1 DEF Whole
  <2> HIDE DEF reuse, to, c
  <2>6. QED
    BY <1>5, <2>1, <2>2, <2>3, <2>4, <2>5
<1>8. CASE MarkBuild(p)
  <2>1. pc[p] = "mark" /\ ~buildDirty[own]
    BY <1>1, <1>3, <1>8 DEF MarkBuild, Facts, Builds
  <2>2. /\ pc' = [pc EXCEPT ![p] = "unpack"] /\ cmd' = [cmd EXCEPT ![p] = cmd[p]]
        /\ buildDirty' = [buildDirty EXCEPT ![own] = TRUE] /\ UNCHANGED <<build, built, packages>>
    BY <1>1, <1>0, <1>8, <2>1 DEF MarkBuild, Go
  <2>3. Others /\ buildDirty'[own] /\ Whole(own)' /\ "unpack" \in Building
    BY <1>2, <2>2 DEF Whole, packages, Building, Sourcing
  <2>4. QED
    BY <1>1, <1>5, <2>2, <2>3
<1>9. CASE CopySources(p)
  <2>1. /\ pc[p] = "copy" /\ pc' = [pc EXCEPT ![p] = "reader"] /\ cmd' = [cmd EXCEPT ![p] = cmd[p]]
        /\ build' = [build EXCEPT ![own] = IF noCopy THEN None ELSE source]
        /\ built' = [built EXCEPT ![own] = FALSE] /\ UNCHANGED <<buildDirty, packages>>
    BY <1>1, <1>0, <1>9 DEF CopySources, Goes, Go
  <2>2. source = export /\ ~sourceDirty /\ buildDirty[own]
    BY <1>1, <1>3, <2>1 DEF Facts, Uses, Builds, Prepared, Sourcing
  <2>3. Others /\ Whole(own)' /\ buildDirty'[own] /\ (~noCopy => build'[own] = export)
    BY <1>2, <2>1, <2>2 DEF Whole, packages
  <2>4. "reader" \in Building
    BY DEF Building
  <2>5. QED
    BY <1>1, <1>5, <2>1, <2>2, <2>3, <2>4
<1>10. CASE Build(p)
  <2>1. pc[p] = "build" /\ UNCHANGED packages
    BY <1>10 DEF Build
  <2>2. /\ source = export /\ buildDirty[own] /\ (~noCopy => build[own] = export)
        /\ Claimed(k)'
    BY <1>1, <1>0, <1>3, <2>1
       DEF Facts, Uses, Builds, Prepared, Claimed, Building, Sourcing, packages
  <2>3. CASE BuildFinishes(p)
    <3>1. /\ pc' = [pc EXCEPT ![p] = "package"] /\ cmd' = [cmd EXCEPT ![p] = cmd[p]]
          /\ build' = [build EXCEPT ![own] = Made(p, IF noCopy THEN source ELSE build[own])]
          /\ built' = [built EXCEPT ![own] = TRUE]
      BY <1>1, <1>0, <2>3 DEF BuildFinishes, Go
    <3>2. Made(p, IF noCopy THEN source ELSE build[own]) = export
      BY <1>3, <2>2 DEF Made
    <3>3. build'[own] = export /\ built'[own] /\ Whole(own)'
      BY <1>2, <1>3, <1>4, <3>1, <3>2 DEF Whole
    <3>4. buildDirty' = buildDirty \/ buildDirty' = [buildDirty EXCEPT ![own] = FALSE]
      BY <1>1, <1>10 DEF Build
    <3>5. Others
      BY <1>2, <2>1, <3>1, <3>4 DEF packages
    <3>6. "package" \in Building
      BY DEF Building
    <3>7. QED
      BY <1>1, <1>5, <2>1, <3>1, <3>3, <3>5, <3>6
  <2>4. CASE ~BuildFinishes(p)
    <3>1. Leave(p, "idle") /\ UNCHANGED <<built, buildDirty>>
          /\ (build' = build \/ build' = [build EXCEPT ![own] = IF @ = None THEN Torn ELSE @])
      BY <1>1, <1>10, <2>2, <2>4 DEF Build, BuildFails, Raise
    <3>2. Others /\ Whole(own)'
      BY <1>2, <2>1, <2>2, <3>1 DEF packages, Whole
    <3>3. QED
      BY <1>6, <2>2, <3>1, <3>2
  <2>5. QED
    BY <2>3, <2>4
<1>11. CASE MakePackage(p)
  <2>1. /\ pc[p] = "package" /\ Leave(p, "idle") /\ UNCHANGED <<build, built, buildDirty, buildOf>>
        /\ packaged' = [packaged EXCEPT ![k] = IF built[own] THEN Made(p, build[own]) ELSE Torn]
        /\ claims' = [claims EXCEPT ![k] = cmd[p].rev]
    BY <1>1, <1>0, <1>11 DEF MakePackage, builds
  <2>2. Others /\ Whole(own)'
    BY <1>2, <1>3, <2>1 DEF Whole
  <2>3. Claimed(k)'
    <3>1. SUFFICES ASSUME own = k PROVE packaged'[k] = claims'[k]
      BY <1>2, <2>1 DEF Claimed
    <3>2. ~cmd[p].skip
      BY <1>1, <1>3, <2>1, <3>1 DEF CmdOf
    <3>3. built[own] /\ build[own] = export
      BY <1>1, <1>3, <2>1, <3>2 DEF Facts, Builds
    <3>4. QED
      BY <1>2, <1>3, <2>1, <3>3 DEF Made
  <2>4. QED
    BY <1>6, <2>1, <2>2, <2>3
<1>12. QED
  BY <1>7, <1>8, <1>9, <1>10, <1>11

LEMMA CleanGood ==
  ASSUME Typed, Good, ~Overlap', NEW p \in Proc, CleanLocks(p)
  PROVE  Good'
<1>1. /\ pc[p] = "dead" /\ pc' = [pc EXCEPT ![p] = "idle"] /\ cmd' = [cmd EXCEPT ![p] = cmd[p]]
      /\ UNCHANGED <<folders, buildOf, noCopy>> /\ pc'[p] = "idle" /\ ~HalfWay(p)
  BY TypeParts DEF Typed, ProcessesOK, CleanLocks, Goes, Go, bounds, HalfWay
<1>2. Facts(p)' /\ "idle" \notin Using
  BY <1>1
     DEF Facts, Changes, Uses, Builds, Prepared, Using, Fetching, Building, Sourcing, AfterExport
<1>3. QED
  BY <1>1, <1>2, IdleGood

LEMMA WorkGood ==
  ASSUME Typed, Good, ~Overlap', NEW p \in Proc, Work(p)
  PROVE  Good'
BY StartGood, EnterGood, CleanGood, RecipeGood, SourceGood, BuildGood, ExportGood DEF Work, Step

\* Nobody comes nearer to another by being killed.
LEMMA KillGood ==
  ASSUME Typed, Good, NEW p \in Proc, Kill(p), ~HalfWay(p)
  PROVE  Good'
<1>1. PICK to \in {"idle", "dead"} : Leave(p, to)
  BY DEF Kill
<1>2. UNCHANGED <<folders, role, buildOf, noCopy>>
  BY DEF Kill
<1>3. pc'[p] \in {"idle", "dead"} /\ \A q \in Proc : q # p => pc'[q] = pc[q] /\ cmd'[q] = cmd[q]
  BY <1>1, TypeParts DEF Leave, Go, Typed, ProcessesOK
<1>4. ~Overlap'
  <2> SUFFICES ASSUME NEW q \in Proc, NEW x \in Proc, q # x,
                      (Unlocked(q) /\ Active(x))' \/ Replaces(q, x)' \/ Share(q, x)'
               PROVE  FALSE
    BY DEF Overlap
  <2>1. q # p /\ x # p
    BY <1>3
       DEF Unlocked, Active, Replaces, Share, Building, Sourcing, Fetching, AfterExport
  <2>2. (Unlocked(q) /\ Active(x)) \/ Replaces(q, x) \/ Share(q, x)
    BY <1>2, <1>3, <2>1 DEF Unlocked, Active, Replaces, Share, BuildFolder
  <2>3. QED
    BY <2>2 DEF Good, Overlap
<1>5. QED
  BY <1>1, <1>2, <1>4, LeaveGood

LEMMA SameGood ==
  ASSUME Good, UNCHANGED <<folders, role, pc, cmd, buildOf, noCopy>>
  PROVE  Good'
<1>1. UNCHANGED <<export, exports, revision, source, sourceDirty, build, built, buildDirty,
                  packaged, claims>>
  BY DEF folders, recipe, sources, builds, packages
<1>2. ~Overlap'
  BY DEF Good, Overlap, Unlocked, Active, Replaces, Share, BuildFolder
<1>3. Consistent' /\ \A p \in Proc : Unused(p)'
  BY <1>1 DEF Good, Consistent, Unused
<1>4. \A p \in Proc : Facts(p)'
  BY <1>1 DEF Good, Facts, Changes, Uses, Builds, Prepared, BuildFolder
<1>5. (\A f \in Folder : Whole(f)') /\ (\A k \in Package : Claimed(k)')
  BY <1>1 DEF Good, Whole, Claimed
<1>6. QED
  BY <1>2, <1>3, <1>4, <1>5 DEF Good

LEMMA InitGood == Init => Good
<1> SUFFICES ASSUME Init PROVE Good
  OBVIOUS
<1>1. \A p \in Proc : pc[p] = "idle"
  BY DEF Init
<1>2. ~Overlap
  BY <1>1 DEF Overlap, Unlocked, Replaces, Share, Building, Sourcing, Fetching, AfterExport
<1>3. Consistent
  BY DEF Init, Consistent
<1>4. \A p \in Proc : Unused(p) /\ Facts(p)
  BY <1>1
     DEF Unused, Facts, Changes, Uses, Builds, Prepared, Using, Fetching, Building, Sourcing,
         AfterExport
<1>5. (\A f \in Folder : Whole(f)) /\ (\A k \in Package : Claimed(k))
  BY DEF Init, Whole, Claimed
<1>6. QED
  BY <1>2, <1>3, <1>4, <1>5 DEF Good

LEMMA NextInv == Inv /\ [Next]_vars => Inv'
<1> SUFFICES ASSUME Inv, [Next]_vars, ~gap' PROVE Good'
  BY NextTyped DEF Inv
<1>1. Typed /\ (~gap => Good)
  BY DEF Inv
<1>2. CASE UNCHANGED vars
  BY <1>1, <1>2, SameGood DEF vars, bounds
<1>3. ASSUME NEW p \in Proc, Work(p), gap' = (gap \/ Overlap')
      PROVE  Good'
  BY <1>1, <1>3, WorkGood
<1>4. ASSUME NEW p \in Proc, Kill(p), gap' = (gap \/ HalfWay(p))
      PROVE  Good'
  BY <1>1, <1>4, KillGood
<1>5. ASSUME NEW r \in Rev, Publish(r), UNCHANGED gap
      PROVE  Good'
  BY <1>1, <1>5, SameGood DEF Publish
<1>6. QED
  BY <1>2, <1>3, <1>4, <1>5 DEF Next

LEMMA Always == Spec => []Inv
<1>1. Init => Inv
  BY InitTyped, InitGood DEF Inv
<1>2. QED
  BY <1>1, NextInv, PTL DEF Spec

-----------------------------------------------------------------------------
(* What holds until a step goes through a gap, for any number of           *)
(* processes, packages, revisions, commands, kills and failures.           *)

\* When nobody is in the middle of a change, nobody is half way, but for the
\* archive of the exported sources, which is unpacked under the write lock.
LEMMA SettledIsNotHalfWay ==
  ASSUME Typed, Settled, NEW p \in Proc
  PROVE  ~HalfWay(p)
BY DEF Typed, RoleOf, Settled, HalfWay, Locked, Sourcing, Exporting, Fetching, AfterExport

\* Sources without a mark are those of the recipe in the cache (config_source,
\* "remove old sources if dirty").
THEOREM SourcesOfTheRecipe == Spec => []SourcesAgree
<1>1. Inv => SourcesAgree
  BY SettledIsNotHalfWay DEF Inv, Good, Consistent, HalfWay, SourcesAgree
<1>2. QED
  BY <1>1, Always, PTL

\* The metadata, and the exported sources, are those of the recipe (get_recipe,
\* cmd_export, retrieve_exports_sources).
THEOREM MetadataOfTheRecipe == Spec => []RecipeAgrees
<1>1. Inv => RecipeAgrees
  BY SettledIsNotHalfWay DEF Inv, Good, Consistent, HalfWay, RecipeAgrees
<1>2. QED
  BY <1>1, Always, PTL

\* A package with a build folder of its own is whole and was built from the
\* recipe revision in its metadata, although the recipe lock is released three
\* times on the way (_build_package, build_package).
THEOREM PackagesAsClaimed == Spec => []BuiltAsClaimed
<1>1. Inv => BuiltAsClaimed
  BY DEF Inv, Good, Claimed, BuiltAsClaimed
<1>2. QED
  BY <1>1, Always, PTL

\* A build folder without a mark was built to the end, from one recipe, also
\* when packages share it (_get_build_folder).
THEOREM BuildFoldersAreWhole == Spec => []BuildsWhole
<1>1. Inv => BuildsWhole
  BY DEF Inv, Good, Whole, BuildsWhole
<1>2. QED
  BY <1>1, Always, PTL

\* No build finds the mark of another, nor misses its own (set_dirty,
\* clean_dirty): however builds were stopped, they can be run again.
THEOREM BuildsBalanceMarks == Spec => []MarksBalanced
<1>1. Inv => MarksBalanced
  BY DEF Inv, Good, Facts, Builds, Prepared, MarksBalanced
<1>2. QED
  BY <1>1, Always, PTL

=============================================================================

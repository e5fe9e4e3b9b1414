------------------------- MODULE PackageFolderProofs -------------------------
(***************************************************************************)
(* Proofs about the package folder, for any number of processes, commands, *)
(* kills and failures, and about the file that holds its entry in the      *)
(* metadata, for any number of threads, processes, updates and kills.      *)
(***************************************************************************)
EXTENDS PackageFolder, MetadataFile, TLAPS

-----------------------------------------------------------------------------
(* Type correctness, which needs to know what each process is doing to the *)
(* package where.                                                          *)

Writers == {"download", "build", "export_pkg"}
Kinds == Decisions \cup {"undecided", "export_pkg", "remove", "export"}

Doing ==
  \A p \in Proc :
    /\ pc[p] = "waiting" => kind[p] \in Decisions \cup {"undecided"}
    /\ pc[p] \in {"clean", "decide"} => kind[p] = "undecided"
    /\ pc[p] = "act" => kind[p] \in Decisions
    /\ pc[p] = "removing" => kind[p] # "cache"
    /\ pc[p] = "check" => kind[p] \in {"remove", "export"}
    /\ pc[p] \in {"mark", "meta", "begin", "end", "undirty"} => kind[p] \in Writers
    /\ kind[p] = "download" => prev[p] \in PRev
    /\ pc[p] = "meta" => prev[p] \in PRev
    /\ pc[p] = "undirty" => prev[p] \in PRev

Typed == TypeOK /\ Doing

\* The steps of a process that install and export-pkg share.
Starts(p) ==
  \/ \E r \in RRev : \E forced \in BOOLEAN : Install(p, r, forced)
  \/ \E r \in RRev : Export(p, r)
  \/ ExportPkg(p) \/ Remove(p)
Evaluates(p) == Acquire(p) \/ Clean(p) \/ Decide(p) \/ Missing(p) \/ Act(p) \/ Fetched(p)
Writes(p) ==
  Removed(p) \/ Mark(p) \/ WriteMeta(p) \/ BeginFiles(p) \/ EndFiles(p) \/ Undirty(p)
Ends(p) == Use(p) \/ Check(p) \/ Forget(p) \/ Stop(p)

LEMMA StepsOfNext ==
  ASSUME Next
  PROVE  \E p \in Proc : Starts(p) \/ Evaluates(p) \/ Writes(p) \/ Ends(p)
BY DEF Next, Starts, Evaluates, Writes, Ends

LEMMA InitTyped == Init => Typed
<1> SUFFICES ASSUME Init PROVE Typed
  OBVIOUS
<1>1. TypeOK
  <2>1. /\ pc \in [Proc -> Places] /\ fd \in [Proc -> Nat]
        /\ locked \in [Proc -> BOOLEAN]
        /\ rrev \in [Proc -> RRev] /\ known \in [Proc -> Package \cup {None, Unread}]
        /\ prev \in [Proc -> PRev \cup {NoRev}]
    BY DEF Init, Places
  <2>2. kind \in [Proc -> Decisions \cup {"undecided", "export_pkg", "remove", "export"}]
    BY DEF Init
  <2>3. /\ folder \in Package \cup {None, Partial} /\ meta \in Package \cup {None}
        /\ dirty \in BOOLEAN /\ recipe \in RRev
    BY DEF Init
  <2>4. lockFile \in Nat /\ commands \in [Proc -> 0..MaxCommands] /\ stops \in 0..MaxStops
    BY BoundsAssumption DEF Init
  <2>5. QED
    BY <2>1, <2>2, <2>3, <2>4 DEF TypeOK
<1>2. Doing
  BY DEF Init, Doing
<1>3. QED
  BY <1>1, <1>2 DEF Typed

\* The metadata a writer writes, and the tables.
LEMMA Followed ==
  ASSUME NEW k \in Writers
  PROVE  /\ Following[k]["removing"] = "mark"
         /\ Following[k]["begin"] = "end"
         /\ k = "download" => /\ Following[k]["mark"] = "meta"
                              /\ Following[k]["meta"] = "begin"
                              /\ Following[k]["end"] = "undirty"
                              /\ Following[k]["undirty"] = "fetched"
         /\ k = "build" => /\ Following[k]["mark"] = "begin"
                           /\ Following[k]["end"] = "meta"
                           /\ Following[k]["meta"] = "undirty"
                           /\ Following[k]["undirty"] = "use"
         /\ k = "export_pkg" => /\ Following[k]["mark"] = "begin"
                                /\ Following[k]["end"] = "undirty"
                                /\ Following[k]["undirty"] = "meta"
                                /\ Following[k]["meta"] = "idle"
BY DEF Writers, Following, Download, Build, Exporting

LEMMA FollowedRemoval ==
  /\ Following["undecided"]["removing"] = "decide"
  /\ Following["remove"]["removing"] = "forget"
  /\ Following["export"]["removing"] = "idle"
BY DEF Following

LEMMA StartsTyped ==
  ASSUME Typed, NEW p \in Proc, Starts(p)
  PROVE  Typed'
<1> USE DEF Typed, TypeOK, Doing, Places, Decisions, Writers, Package
<1>1. commands' \in [Proc -> 0..MaxCommands] /\ stops' = stops
  BY BoundsAssumption DEF Starts, Install, Export, ExportPkg, Remove, Begins
<1>2. ASSUME NEW r \in RRev, NEW forced \in BOOLEAN, Install(p, r, forced)
      PROVE  Typed'
  BY <1>1, <1>2 DEF Install, Choose, AwaitLock, Go, package
<1>3. ASSUME NEW r \in RRev, Export(p, r)
      PROVE  Typed'
  BY <1>1, <1>3 DEF Export, Choose, Go, package, locks
<1>4. CASE ExportPkg(p)
  BY <1>1, <1>4 DEF ExportPkg, Choose, StartRemoving, Go, locks
<1>5. CASE Remove(p)
  BY <1>1, <1>5 DEF Remove, Choose, Go, package
<1>6. QED
  BY <1>2, <1>3, <1>4, <1>5 DEF Starts

LEMMA EvaluatesTyped ==
  ASSUME Typed, NEW p \in Proc, Evaluates(p)
  PROVE  Typed'
<1> USE DEF Typed, TypeOK, Doing, Places, Decisions, Writers
<1>1. CASE Acquire(p)
  BY <1>1 DEF Acquire, Go, package, choice, bounds
<1>2. CASE Clean(p)
  <2>1. /\ pc[p] = "clean" /\ UNCHANGED <<recipe, kind, rrev, prev, bounds>>
        /\ known' = [known EXCEPT ![p] = IF dirty THEN Unread ELSE meta]
    BY <1>2 DEF Clean
  <2>2. \/ StartRemoving(p) /\ UNCHANGED locks
        \/ Go(p, "decide") /\ Unlock(p) /\ UNCHANGED package
    BY <1>2 DEF Clean
  <2>3. CASE StartRemoving(p) /\ UNCHANGED locks
    BY <2>1, <2>3 DEF StartRemoving, Go, locks, bounds
  <2>4. CASE Go(p, "decide") /\ Unlock(p) /\ UNCHANGED package
    BY <2>1, <2>4 DEF Go, Unlock, package, bounds
  <2>5. QED
    BY <2>2, <2>3, <2>4
<1>3. CASE Decide(p)
  <2>1. PICK d \in Outcomes(p) : /\ kind' = [kind EXCEPT ![p] = d[1]]
                                 /\ prev' = [prev EXCEPT ![p] = d[2]]
    BY <1>3 DEF Decide
  <2>2. /\ d[1] \in Decisions /\ d[2] \in PRev \cup {NoRev}
        /\ d[1] = "download" => d[2] \in PRev
    <3> DEFINE entry == IF known[p] = Unread THEN meta ELSE known[p]
               onServer == Remote[rrev[p]]
    <3>1. entry \in Package \cup {None}
      BY NoneAssumption
    <3>2. onServer \in PRev \cup {NoRev}
      BY RemoteAssumption
    <3>3. \/ d = <<"build", NoRev>>
          \/ entry # None /\ d = <<"cache", entry.rev>>
          \/ onServer # NoRev /\ d = <<"download", onServer>>
      BY <2>1 DEF Outcomes
    <3>4. entry # None => entry.rev \in PRev
      BY <3>1 DEF Package
    <3> HIDE DEF entry, onServer
    <3>5. QED
      BY <3>2, <3>3, <3>4
  <2>3. QED
    BY <1>3, <2>1, <2>2 DEF Decide, AwaitLock, Go, package, bounds
<1>4. CASE Missing(p)
  BY <1>4 DEF Missing, Go, package, locks, choice, bounds
<1>5. CASE Act(p)
  <2>1. CASE kind[p] # "cache"
    BY <1>5, <2>1 DEF Act, StartRemoving, Go, locks, choice, bounds
  <2>2. CASE kind[p] = "cache" /\ folder = None
    BY <1>5, <2>2 DEF Act, Go, Unlock, package, choice, bounds
  <2>3. CASE kind[p] = "cache" /\ folder # None
    BY <1>5, <2>3 DEF Act, Go, package, locks, choice, bounds
  <2>4. QED
    BY <2>1, <2>2, <2>3
<1>6. CASE Fetched(p)
  BY <1>6 DEF Fetched, Go, package, bounds
<1>7. QED
  BY <1>1, <1>2, <1>3, <1>4, <1>5, <1>6 DEF Evaluates

LEMMA WritesTyped ==
  ASSUME Typed, NEW p \in Proc, Writes(p)
  PROVE  Typed'
<1> USE DEF Typed, TypeOK, Doing, Places
<1>0. /\ pc[p] \in {"removing", "mark", "meta", "begin", "end", "undirty"}
      /\ kind[p] \in Kinds /\ kind' = kind
      /\ UNCHANGED <<recipe, rrev, known, bounds>>
  BY DEF Writes, Removed, Mark, WriteMeta, BeginFiles, EndFiles, Undirty, choice, Kinds
<1>1. CASE Removed(p)
  <2>1. pc' = [pc EXCEPT ![p] = Following[kind[p]]["removing"]]
    BY <1>1 DEF Removed, Proceed, Go
  <2>2. Following[kind[p]]["removing"] \in {"mark", "decide", "forget", "idle"}
        /\ (Following[kind[p]]["removing"] = "mark" => kind[p] \in Writers)
        /\ (Following[kind[p]]["removing"] = "decide" => kind[p] = "undecided")
    BY <1>0, <1>1, Followed, FollowedRemoval DEF Removed, Kinds, Decisions, Writers
  <2>3. QED
    BY <1>1, <2>1, <2>2 DEF Removed, Unlock, locks, choice, bounds
<1>2. CASE pc[p] # "removing"
  <2>1. kind[p] \in Writers
    BY <1>0, <1>2
  <2>2. CASE Mark(p)
    <3>1. /\ pc[p] = "mark" /\ dirty' = TRUE /\ UNCHANGED <<folder, meta, choice>>
          /\ Fail(p) \/ (Proceed(p) /\ UNCHANGED locks)
      BY <2>2 DEF Mark
    <3>2. /\ UNCHANGED <<lockFile, fd>>
          /\ locked' = locked \/ locked' = [locked EXCEPT ![p] = FALSE]
      BY <3>1 DEF Fail, Unlock, locks
    <3>3. Following[kind[p]]["mark"] = IF kind[p] = "download" THEN "meta" ELSE "begin"
      BY <2>1, Followed DEF Writers
    <3>4. \/ pc' = [pc EXCEPT ![p] = "idle"]
          \/ pc' = [pc EXCEPT ![p] = "meta"] /\ kind[p] = "download"
          \/ pc' = [pc EXCEPT ![p] = "begin"]
      BY <3>1, <3>3 DEF Fail, Proceed, Go
    <3>5. QED
      BY <1>0, <2>1, <3>1, <3>2, <3>4 DEF choice, bounds
  <2>3. CASE WriteMeta(p)
    <3>0. Following[kind[p]]["meta"] \in {"begin", "undirty", "idle"}
      BY <2>1, Followed DEF Writers
    <3>1. \E to \in {"begin", "undirty", "idle"} : pc' = [pc EXCEPT ![p] = to]
      BY <2>3, <3>0 DEF WriteMeta, Proceed, Go
    <3>2. meta' \in Package
      BY <2>3 DEF WriteMeta, Package
    <3>3. QED
      BY <2>1, <2>3, <3>1, <3>2 DEF WriteMeta, locks, choice, bounds
  <2>4. CASE BeginFiles(p)
    BY <2>1, <2>4, Followed DEF BeginFiles, Proceed, Go, locks, choice, bounds, Writers
  <2>5. CASE EndFiles(p)
    <3>1. PICK r \in PRev : /\ prev' = [prev EXCEPT ![p] = r]
                            /\ folder' = [rev |-> r, rrev |-> rrev[p]]
      BY <2>5 DEF EndFiles
    <3>2. QED
      BY <2>1, <2>5, <3>1, Followed DEF EndFiles, Proceed, Go, locks, bounds, Writers, Package
  <2>6. CASE Undirty(p)
    <3>1. /\ pc[p] = "undirty" /\ dirty' = FALSE /\ UNCHANGED <<folder, meta, choice>>
          /\ Fail(p) \/ (Proceed(p) /\ UNCHANGED locks)
      BY <2>6 DEF Undirty
    <3>2. /\ UNCHANGED <<lockFile, fd>>
          /\ locked' = locked \/ locked' = [locked EXCEPT ![p] = FALSE]
      BY <3>1 DEF Fail, Unlock, locks
    <3>3. Following[kind[p]]["undirty"] \in {"meta", "use", "fetched"}
      BY <2>1, Followed DEF Writers
    <3>4. \E to \in {"idle", "meta", "use", "fetched"} : pc' = [pc EXCEPT ![p] = to]
      BY <3>1, <3>3 DEF Fail, Proceed, Go
    <3>5. QED
      BY <1>0, <2>1, <3>1, <3>2, <3>4 DEF choice, bounds
  <2>7. QED
    BY <1>2, <2>2, <2>3, <2>4, <2>5, <2>6 DEF Writes, Removed
<1>3. QED
  BY <1>1, <1>2 DEF Writes, Mark, WriteMeta, BeginFiles, EndFiles, Undirty

LEMMA EndsTyped ==
  ASSUME Typed, NEW p \in Proc, Ends(p)
  PROVE  Typed'
<1> USE DEF Typed, TypeOK, Doing, Places, Decisions
<1>1. CASE Use(p)
  BY <1>1 DEF Use, Go, Unlock, package, choice, bounds
<1>2. CASE Check(p)
  BY <1>2 DEF Check, StartRemoving, Go, package, locks, choice, bounds
<1>3. CASE Forget(p)
  BY <1>3 DEF Forget, Go, locks, choice, bounds
<1>4. CASE Stop(p)
  BY <1>4, BoundsAssumption DEF Stop, Fail, Go, Unlock, package, choice
<1>5. QED
  BY <1>1, <1>2, <1>3, <1>4 DEF Ends

LEMMA StutterTyped ==
  ASSUME Typed, UNCHANGED vars
  PROVE  Typed'
BY DEF Typed, TypeOK, Doing, vars, package, locks, choice, bounds

LEMMA StepTyped ==
  ASSUME Typed, [Next]_vars
  PROVE  Typed'
BY StepsOfNext, StartsTyped, EvaluatesTyped, WritesTyped, EndsTyped, StutterTyped

\* Every reachable state is of its type.
THEOREM TypeCorrect == Spec => []TypeOK
<1>1. Spec => []Typed
  BY InitTyped, StepTyped, PTL DEF Spec
<1>2. Typed => TypeOK
  BY DEF Typed
<1>3. QED
  BY <1>1, <1>2, PTL

-----------------------------------------------------------------------------
(* When the processes only install, the package lock keeps them apart.     *)

OnlyInstalls == Commands = {"install"} /\ "removing" \notin StopsAt

Writing == {"removing", "mark", "meta", "begin", "end", "undirty"}
Inside == Writing \cup {"clean", "act", "fetched", "use"}

Exclusive ==
  /\ lockFile = 0
  /\ \A p \in Proc : fd[p] = 0
  /\ \A p \in Proc : locked[p] <=> pc[p] \in Inside
  /\ \A p, q \in Proc : pc[p] \in Inside /\ pc[q] \in Inside => p = q
  /\ \A p \in Proc : kind[p] \in Decisions \cup {"undecided"}
  /\ \A p \in Proc : pc[p] \notin {"check", "forget"}

\* A process moves to a place: it stays out, comes in, stays in or goes out.
StaysOut(p, to) ==
  pc[p] \notin Inside /\ to \notin Inside /\ locked' = locked
ComesIn(p, to) ==
  /\ pc[p] \notin Inside /\ to \in Inside /\ locked' = [locked EXCEPT ![p] = TRUE]
  /\ \A q \in Proc : ~locked[q]
StaysIn(p, to) ==
  pc[p] \in Inside /\ to \in Inside /\ locked' = locked
GoesOut(p, to) ==
  pc[p] \in Inside /\ to \notin Inside /\ locked' = [locked EXCEPT ![p] = FALSE]

Moves(p, to) ==
  /\ pc' = [pc EXCEPT ![p] = to]
  /\ to \notin {"check", "forget"}
  /\ lockFile' = lockFile
  /\ fd' = fd \/ fd' = [fd EXCEPT ![p] = lockFile]
  /\ StaysOut(p, to) \/ ComesIn(p, to) \/ StaysIn(p, to) \/ GoesOut(p, to)

LEMMA MovesExclusive ==
  ASSUME Typed, Exclusive, NEW p \in Proc, NEW to, Moves(p, to),
         \/ kind' = kind
         \/ \E k \in Decisions \cup {"undecided"} : kind' = [kind EXCEPT ![p] = k]
  PROVE  Exclusive'
<1> USE DEF Typed, TypeOK, Exclusive, Moves
<1>1. lockFile' = 0 /\ \A q \in Proc : fd'[q] = 0
  OBVIOUS
<1>2. \A q \in Proc : kind'[q] \in Decisions \cup {"undecided"}
  OBVIOUS
<1>3. \A q \in Proc : pc'[q] \notin {"check", "forget"}
  OBVIOUS
<1>4. \A q \in Proc : q # p => pc'[q] = pc[q] /\ locked'[q] = locked[q]
  BY DEF StaysOut, ComesIn, StaysIn, GoesOut
<1>5. pc'[p] = to /\ (locked'[p] <=> to \in Inside)
  BY DEF StaysOut, ComesIn, StaysIn, GoesOut
<1>6. to \in Inside => \A q \in Proc : q # p => pc[q] \notin Inside
  BY DEF StaysOut, ComesIn, StaysIn, GoesOut
<1>7. QED
  BY <1>1, <1>2, <1>3, <1>4, <1>5, <1>6

LEMMA InstallsOnly ==
  ASSUME OnlyInstalls, NEW p \in Proc, Starts(p)
  PROVE  \E r \in RRev : \E forced \in BOOLEAN : Install(p, r, forced)
BY DEF OnlyInstalls, Starts, Export, ExportPkg, Remove, Begins

\* Where each step of an install goes.
LEMMA InstallMoves ==
  ASSUME OnlyInstalls, Typed, Exclusive, NEW p \in Proc, Starts(p)
  PROVE  Moves(p, "waiting") /\ pc[p] = "idle" /\ UNCHANGED package
         /\ \E k \in {"build", "undecided"} : kind' = [kind EXCEPT ![p] = k]
<1>1. PICK r \in RRev, forced \in BOOLEAN : Install(p, r, forced)
  BY InstallsOnly
<1>2. QED
  BY <1>1 DEF Install, Begins, Choose, AwaitLock, Go, Moves, StaysOut, Inside, Writing

LEMMA EvaluatesMoves ==
  ASSUME Typed, Exclusive, NEW p \in Proc, Evaluates(p)
  PROVE  /\ \E to \in {"clean", "act", "removing", "decide", "waiting", "idle", "use"} :
              Moves(p, to)
         /\ \/ kind' = kind
            \/ \E k \in Decisions \cup {"undecided"} : kind' = [kind EXCEPT ![p] = k]
<1> USE DEF Typed, TypeOK, Exclusive, Moves, Inside, Writing, Go
<1>1. CASE Acquire(p)
  <2>1. \A q \in Proc : ~locked[q]
    BY <1>1 DEF Acquire
  <2>2. \E to \in {"clean", "act"} : pc' = [pc EXCEPT ![p] = to]
    BY <1>1 DEF Acquire
  <2>3. QED
    BY <1>1, <2>1, <2>2 DEF Acquire, ComesIn, choice
<1>2. CASE Clean(p)
  <2>1. \/ pc' = [pc EXCEPT ![p] = "removing"] /\ UNCHANGED locks
        \/ pc' = [pc EXCEPT ![p] = "decide"] /\ Unlock(p)
    BY <1>2 DEF Clean, StartRemoving
  <2>2. kind' = kind /\ pc[p] = "clean"
    BY <1>2 DEF Clean
  <2>3. QED
    BY <2>1, <2>2 DEF Unlock, locks, StaysIn, GoesOut
<1>3. CASE Decide(p)
  <2>1. \E k \in Decisions : kind' = [kind EXCEPT ![p] = k]
    <3>1. PICK d \in Outcomes(p) : kind' = [kind EXCEPT ![p] = d[1]]
      BY <1>3 DEF Decide
    <3>2. d[1] \in Decisions
      BY <3>1 DEF Outcomes, Decisions
    <3>3. QED
      BY <3>1, <3>2
  <2>2. QED
    BY <1>3, <2>1 DEF Decide, AwaitLock, StaysOut
<1>4. CASE Missing(p)
  BY <1>4 DEF Missing, locks, choice, StaysOut
<1>5. CASE Act(p)
  <2>1. \/ \E to \in {"removing", "use"} : pc' = [pc EXCEPT ![p] = to] /\ UNCHANGED locks
        \/ pc' = [pc EXCEPT ![p] = "idle"] /\ Unlock(p)
    BY <1>5 DEF Act, StartRemoving
  <2>2. kind' = kind /\ pc[p] = "act"
    BY <1>5 DEF Act, choice
  <2>3. QED
    BY <2>1, <2>2 DEF Unlock, locks, StaysIn, GoesOut
<1>6. CASE Fetched(p)
  BY <1>6 DEF Fetched, GoesOut, Decisions
<1>7. QED
  BY <1>1, <1>2, <1>3, <1>4, <1>5, <1>6 DEF Evaluates

\* The steps that write, for the kinds an install has.
LEMMA WriterKinds ==
  ASSUME Typed, Exclusive, NEW p \in Proc, pc[p] \in Writing
  PROVE  /\ pc[p] # "removing" => kind[p] \in {"download", "build"}
         /\ kind[p] \in {"download", "build", "undecided"}
BY DEF Typed, Doing, Exclusive, Writing, Writers, Decisions

LEMMA RemovedGoes ==
  ASSUME Typed, Exclusive, NEW p \in Proc, Removed(p)
  PROVE  /\ \/ pc' = [pc EXCEPT ![p] = "mark"] /\ UNCHANGED locks
            \/ pc' = [pc EXCEPT ![p] = "decide"] /\ Unlock(p)
         /\ folder' = None /\ dirty' = FALSE
<1>1. kind[p] \in {"download", "build", "undecided"}
  BY WriterKinds DEF Removed, Writing
<1>2. CASE kind[p] = "undecided"
  BY <1>2, FollowedRemoval DEF Removed, Proceed, Go
<1>3. CASE kind[p] \in {"download", "build"}
  BY <1>3, Followed DEF Removed, Proceed, Go, Writers
<1>4. QED
  BY <1>1, <1>2, <1>3 DEF Removed

LEMMA WriteGoes ==
  ASSUME Typed, Exclusive, NEW p \in Proc, Writes(p), pc[p] # "removing"
  PROVE  \/ /\ pc' = [pc EXCEPT ![p] = "idle"] /\ Unlock(p)
            /\ ((Mark(p) /\ dirty) \/ (Undirty(p) /\ ~dirty))
         \/ /\ UNCHANGED locks
            /\ \E to \in {"meta", "begin", "end", "undirty", "fetched", "use"} :
                  /\ pc' = [pc EXCEPT ![p] = to]
                  /\ to = Following[kind[p]][pc[p]]
<1> DEFINE to == Following[kind[p]][pc[p]]
<1>1. kind[p] \in {"download", "build"} /\ pc[p] \in Writing
  BY WriterKinds
     DEF Writes, Removed, Mark, WriteMeta, BeginFiles, EndFiles, Undirty, Writing
<1>2. to \in {"meta", "begin", "end", "undirty", "fetched", "use"}
  BY <1>1, Followed DEF Writing, Writers
<1>3. \/ Proceed(p) /\ UNCHANGED locks
      \/ Fail(p) /\ ((Mark(p) /\ dirty) \/ (Undirty(p) /\ ~dirty))
  <2>1. CASE Mark(p)
    <3>1. IF dirty THEN Fail(p) ELSE Proceed(p) /\ UNCHANGED locks
      BY <2>1 DEF Mark
    <3>2. QED
      BY <2>1, <3>1
  <2>2. CASE Undirty(p)
    <3>1. IF dirty THEN Proceed(p) /\ UNCHANGED locks ELSE Fail(p)
      BY <2>2 DEF Undirty
    <3>2. QED
      BY <2>2, <3>1
  <2>3. CASE WriteMeta(p) \/ BeginFiles(p) \/ EndFiles(p)
    BY <2>3 DEF WriteMeta, BeginFiles, EndFiles
  <2>4. QED
    BY <2>1, <2>2, <2>3 DEF Writes, Removed
<1>4. QED
  BY <1>2, <1>3 DEF Proceed, Fail, Go

LEMMA WritesMoves ==
  ASSUME Typed, Exclusive, NEW p \in Proc, Writes(p)
  PROVE  (\E to \in {"mark", "decide", "idle", "meta", "begin", "end", "undirty", "fetched",
                     "use"} : Moves(p, to))
         /\ kind' = kind
<1> USE DEF Typed, TypeOK, Exclusive, Moves, Inside, Writing
<1>1. kind' = kind /\ pc[p] \in Writing
  BY DEF Writes, Removed, Mark, WriteMeta, BeginFiles, EndFiles, Undirty, choice
<1>2. CASE Removed(p)
  BY <1>1, <1>2, RemovedGoes DEF Unlock, locks, StaysIn, GoesOut
<1>3. CASE pc[p] # "removing"
  <2>1. \/ pc' = [pc EXCEPT ![p] = "idle"] /\ Unlock(p)
        \/ /\ UNCHANGED locks
           /\ \E to \in {"meta", "begin", "end", "undirty", "fetched", "use"} :
                 pc' = [pc EXCEPT ![p] = to]
    BY <1>3, WriteGoes
  <2>2. QED
    BY <1>1, <2>1 DEF Unlock, locks, StaysIn, GoesOut
<1>4. QED
  BY <1>1, <1>2, <1>3 DEF Writes, Mark, WriteMeta, BeginFiles, EndFiles, Undirty

LEMMA EndsMoves ==
  ASSUME Typed, Exclusive, NEW p \in Proc, Ends(p)
  PROVE  /\ Moves(p, "idle") /\ UNCHANGED package /\ kind' = kind
         /\ pc[p] # "use" => pc[p] \in StopsAt
<1>1. ~Check(p) /\ ~Forget(p)
  BY DEF Exclusive, Check, Forget
<1>2. pc' = [pc EXCEPT ![p] = "idle"] /\ Unlock(p) /\ UNCHANGED package /\ kind' = kind
      /\ (pc[p] # "use" => pc[p] \in StopsAt)
  BY <1>1 DEF Ends, Use, Stop, Fail, Go, choice
<1>3. CASE pc[p] \in Inside
  BY <1>2, <1>3 DEF Moves, GoesOut, Unlock, Inside, Writing
<1>4. CASE pc[p] \notin Inside
  <2>1. ~locked[p]
    BY <1>4 DEF Exclusive
  <2>2. locked' = locked
    BY <1>2, <2>1 DEF Typed, TypeOK, Unlock
  <2>3. QED
    BY <1>2, <1>4, <2>2 DEF Moves, StaysOut, Unlock, Inside, Writing
<1>5. QED
  BY <1>2, <1>3, <1>4

LEMMA StepExclusive ==
  ASSUME OnlyInstalls, Typed, Exclusive, [Next]_vars
  PROVE  Exclusive'
<1>1. CASE UNCHANGED vars
  BY <1>1 DEF Exclusive, vars, locks, choice
<1>2. ASSUME NEW p \in Proc, Starts(p) \/ Evaluates(p) \/ Writes(p) \/ Ends(p)
      PROVE  Exclusive'
  <2>1. CASE Starts(p)
    BY <2>1, InstallMoves, MovesExclusive DEF Decisions
  <2>2. CASE Evaluates(p)
    BY <2>2, EvaluatesMoves, MovesExclusive
  <2>3. CASE Writes(p)
    BY <2>3, WritesMoves, MovesExclusive
  <2>4. CASE Ends(p)
    BY <2>4, EndsMoves, MovesExclusive
  <2>5. QED
    BY <1>2, <2>1, <2>2, <2>3, <2>4
<1>3. QED
  BY <1>1, <1>2, StepsOfNext

-----------------------------------------------------------------------------
(* What is in the folder when nobody writes it, and while somebody does.   *)

Content(p) == [rev |-> prev[p], rrev |-> rrev[p]]

Whole ==
  /\ ~dirty => folder # Partial /\ (folder \in Package => meta = folder)
  /\ stops = 0 => ~dirty

\* Nobody is at the steps that change the package.
Quiet == \A p \in Proc : pc[p] \notin Writing

Of(p) ==
  /\ pc[p] = "mark" => folder = None /\ ~dirty
  /\ pc[p] \in {"meta", "begin", "end"} => dirty
  /\ pc[p] = "undirty" => dirty /\ folder \in Package /\ meta = folder
  /\ kind[p] = "download" /\ pc[p] \in {"begin", "end"} => meta = Content(p)
  /\ kind[p] = "build" /\ pc[p] = "meta" => folder = Content(p)
  /\ pc[p] = "use" /\ stops = 0 => folder \in Package

Kept == (Quiet => Whole) /\ \A p \in Proc : Of(p)

LEMMA InitKept == Init => Exclusive /\ Kept
BY NoneAssumption
   DEF Init, Exclusive, Kept, Quiet, Whole, Of, Writing, Inside, Decisions

\* What happened stays happened, and a step that ends early is counted.
LEMMA StopsCounted ==
  ASSUME Typed, NEW p \in Proc, Starts(p) \/ Evaluates(p) \/ Writes(p) \/ Ends(p)
  PROVE  /\ stops' = 0 => stops = 0
         /\ Ends(p) => stops' # 0 \/ Use(p) \/ Check(p) \/ Forget(p)
<1>1. Starts(p) => stops' = stops
  <2>1. ASSUME NEW command, Begins(p, command) PROVE stops' = stops
    BY <2>1 DEF Begins
  <2>2. QED
    BY <2>1 DEF Starts, Install, Export, ExportPkg, Remove
<1>2. UNCHANGED bounds => stops' = stops
  BY DEF bounds
<1>3. Evaluates(p) => UNCHANGED bounds
  BY DEF Evaluates, Acquire, Clean, Decide, Missing, Act, Fetched
<1>4. Writes(p) => UNCHANGED bounds
  BY DEF Writes, Removed, Mark, WriteMeta, BeginFiles, EndFiles, Undirty
<1>5. Use(p) \/ Check(p) \/ Forget(p) => UNCHANGED bounds
  BY DEF Use, Check, Forget
<1>6. Stop(p) => stops' # 0
  BY BoundsAssumption DEF Stop, Typed, TypeOK
<1>7. QED
  BY <1>1, <1>2, <1>3, <1>4, <1>5, <1>6 DEF Ends

\* A step that leaves the package alone, and does not leave a step half done.
LEMMA AloneKept ==
  ASSUME Typed, Exclusive, Kept, NEW p \in Proc, NEW to, Moves(p, to),
         UNCHANGED package, pc[p] \notin Writing, stops' = 0 => stops = 0,
         to \notin {"mark", "meta", "begin", "end", "undirty", "use"},
         \A q \in Proc : q # p => kind'[q] = kind[q] /\ Content(q)' = Content(q)
  PROVE  Kept'
<1> USE DEF Typed, TypeOK, Moves
<1>1. Quiet' => Quiet
  BY DEF Quiet
<1>2. Whole => Whole'
  BY DEF Whole, package
<1>3. Of(p)'
  BY DEF Of
<1>4. \A q \in Proc : q # p => Of(q)'
  BY DEF Of, Kept, package
<1>5. QED
  BY <1>1, <1>2, <1>3, <1>4 DEF Kept

\* A step of the process that holds the lock: it has to say what it leaves.
LEMMA HolderKept ==
  ASSUME Typed, Exclusive, NEW p \in Proc, pc[p] \in Inside, NEW to,
         pc' = [pc EXCEPT ![p] = to],
         Of(p)', to \notin Writing => Whole'
  PROVE  Kept'
<1> USE DEF Typed, TypeOK
<1>1. Quiet' => Whole'
  BY DEF Quiet
<1>2. \A q \in Proc : q # p => pc'[q] \notin Inside
  BY DEF Exclusive
<1>3. \A q \in Proc : q # p => Of(q)'
  BY <1>2 DEF Of, Inside, Writing
<1>4. QED
  BY <1>1, <1>3 DEF Kept

\* The others write nothing while a process holds the lock and does not.
LEMMA HolderQuiet ==
  ASSUME Exclusive, Kept, NEW p \in Proc, pc[p] \in Inside \ Writing
  PROVE  Whole
BY DEF Exclusive, Kept, Quiet, Inside

LEMMA StartsKept ==
  ASSUME OnlyInstalls, Typed, Exclusive, Kept, NEW p \in Proc, Starts(p)
  PROVE  Kept'
<1>1. PICK r \in RRev, forced \in BOOLEAN : Install(p, r, forced)
  BY InstallsOnly
<1>2. /\ \A q \in Proc : q # p => kind'[q] = kind[q] /\ Content(q)' = Content(q)
      /\ pc[p] \notin Writing
  BY <1>1 DEF Install, Begins, Choose, Content, Typed, TypeOK, Writing
<1>3. Moves(p, "waiting") /\ UNCHANGED package
  BY InstallMoves
<1>4. QED
  BY <1>2, <1>3, AloneKept, StopsCounted

LEMMA EvaluatesKept ==
  ASSUME Typed, Exclusive, Kept, NEW p \in Proc, Evaluates(p)
  PROVE  Kept'
<1>1. PICK to \in {"clean", "act", "removing", "decide", "waiting", "idle", "use"} :
        Moves(p, to)
  BY EvaluatesMoves
<1>2. /\ \A q \in Proc : q # p => kind'[q] = kind[q] /\ Content(q)' = Content(q)
      /\ pc[p] \notin Writing
  <2>1. CASE Decide(p)
    BY <2>1 DEF Decide, Content, Typed, TypeOK, Writing
  <2>2. CASE Fetched(p)
    BY <2>2 DEF Fetched, Content, Typed, TypeOK, Writing
  <2>3. CASE ~Decide(p) /\ ~Fetched(p)
    BY <2>3 DEF Evaluates, Acquire, Clean, Missing, Act, choice, Content, Writing
  <2>4. QED
    BY <2>1, <2>2, <2>3
<1>3. pc' = [pc EXCEPT ![p] = to] /\ pc'[p] = to
  BY <1>1 DEF Moves, Typed, TypeOK
<1>4. CASE to = "removing"
  <2>1. pc[p] \in Inside
    BY <1>3, <1>4
       DEF Evaluates, Acquire, Clean, Decide, Missing, Act, Fetched, Go, AwaitLock, Inside, Typed, TypeOK
  <2>2. Of(p)'
    BY <1>3, <1>4 DEF Of
  <2>3. QED
    BY <1>3, <1>4, <2>1, <2>2, HolderKept DEF Writing
<1>5. CASE to = "use"
  <2>1. Act(p) /\ pc[p] = "act" /\ UNCHANGED package /\ folder # None
    BY <1>3, <1>5
       DEF Evaluates, Acquire, Clean, Decide, Missing, Act, Fetched, Go, AwaitLock, StartRemoving,
           Typed, TypeOK
  <2>2. Whole
    BY <2>1, HolderQuiet DEF Inside, Writing
  <2>3. Whole' /\ (stops' = 0 => folder' \in Package)
    BY <2>1, <2>2, StopsCounted DEF Whole, package, Typed, TypeOK
  <2>4. Of(p)'
    BY <1>3, <1>5, <2>3 DEF Of
  <2>5. QED
    BY <1>3, <2>1, <2>3, <2>4, HolderKept DEF Inside
<1>6. CASE to \notin {"removing", "use"}
  <2>1. UNCHANGED package
    BY <1>3, <1>6
       DEF Evaluates, Acquire, Clean, Decide, Missing, Act, Fetched, Go, StartRemoving, Typed, TypeOK
  <2>2. QED
    BY <1>1, <1>2, <1>6, <2>1, AloneKept, StopsCounted
<1>7. QED
  BY <1>4, <1>5, <1>6

LEMMA WritesKept ==
  ASSUME Typed, Exclusive, Kept, NEW p \in Proc, Writes(p)
  PROVE  Kept'
<1> USE DEF Typed, TypeOK
<1>0. pc[p] \in Inside /\ Of(p)
  BY DEF Writes, Removed, Mark, WriteMeta, BeginFiles, EndFiles, Undirty, Inside, Writing, Kept
<1>1. CASE Removed(p)
  <2>1. PICK to \in {"mark", "decide"} : pc' = [pc EXCEPT ![p] = to]
    BY <1>1, RemovedGoes
  <2>2. Whole' /\ Of(p)'
    BY <1>1, <2>1, RemovedGoes, NoneAssumption DEF Whole, Of
  <2>3. QED
    BY <1>0, <2>1, <2>2, HolderKept
<1>2. CASE pc[p] # "removing"
  <2> DEFINE to == Following[kind[p]][pc[p]]
  <2>1. kind[p] \in {"download", "build"} /\ kind' = kind /\ rrev' = rrev
    BY <1>2, WriterKinds
       DEF Writes, Removed, Mark, WriteMeta, BeginFiles, EndFiles, Undirty, choice, Writing
  <2>2. /\ ~(Mark(p) /\ dirty) /\ ~(Undirty(p) /\ ~dirty)
    BY <1>0 DEF Of, Mark, Undirty
  <2>3. pc' = [pc EXCEPT ![p] = to] /\ pc'[p] = to
    BY <1>2, <2>2, WriteGoes
  <2>4. CASE Mark(p)
    <3>1. to = IF kind[p] = "download" THEN "meta" ELSE "begin"
      BY <2>1, <2>4, Followed DEF Mark, Writers
    <3>2. Of(p)' /\ to \in Writing
      BY <2>1, <2>3, <2>4, <3>1 DEF Mark, Of, Writing
    <3>3. QED
      BY <1>0, <2>3, <3>2, HolderKept
  <2>5. CASE WriteMeta(p)
    <3>1. to = IF kind[p] = "download" THEN "begin" ELSE "undirty"
      BY <2>1, <2>5, Followed DEF WriteMeta, Writers
    <3>2. dirty' /\ meta' = Content(p) /\ Content(p)' = Content(p) /\ folder' = folder
      BY <1>0, <2>5 DEF WriteMeta, Of, Content, choice
    <3>3. Content(p) \in Package
      BY <2>5 DEF WriteMeta, Doing, Content, Package
    <3>4. kind[p] = "build" => folder = Content(p)
      BY <1>0, <2>5 DEF WriteMeta, Of
    <3>5. Of(p)' /\ to \in Writing
      BY <2>1, <2>3, <3>1, <3>2, <3>3, <3>4 DEF Of, Writing
    <3>6. QED
      BY <1>0, <2>3, <3>5, HolderKept
  <2>6. CASE BeginFiles(p)
    <3>1. to = "end"
      BY <2>1, <2>6, Followed DEF BeginFiles, Writers
    <3>2. Of(p)' /\ to \in Writing
      BY <1>0, <2>1, <2>3, <2>6, <3>1 DEF BeginFiles, Of, Writing, Content, choice
    <3>3. QED
      BY <1>0, <2>3, <3>2, HolderKept
  <2>7. CASE EndFiles(p)
    <3>1. to = IF kind[p] = "build" THEN "meta" ELSE "undirty"
      BY <2>1, <2>7, Followed DEF EndFiles, Writers
    <3>2. PICK r \in PRev : /\ prev' = [prev EXCEPT ![p] = r]
                            /\ folder' = [rev |-> r, rrev |-> rrev[p]]
                            /\ kind[p] = "download" => r = prev[p]
      BY <2>7 DEF EndFiles, Doing
    <3>3. folder' = Content(p)' /\ folder' \in Package /\ dirty' /\ meta' = meta
      BY <1>0, <2>1, <2>7, <3>2 DEF EndFiles, Content, Package, Of
    <3>4. kind[p] = "download" => meta = folder'
      BY <1>0, <2>7, <3>2 DEF EndFiles, Of, Content
    <3>5. Of(p)' /\ to \in Writing
      BY <2>1, <2>3, <3>1, <3>3, <3>4 DEF Of, Writing
    <3>6. QED
      BY <1>0, <2>3, <3>5, HolderKept
  <2>8. CASE Undirty(p)
    <3>1. to \in {"use", "fetched"}
      BY <2>1, <2>8, Followed DEF Undirty, Writers
    <3>2. ~dirty' /\ folder' = folder /\ meta' = meta /\ folder \in Package /\ meta = folder
      BY <1>0, <2>8 DEF Undirty, Of
    <3>3. Of(p)' /\ Whole'
      BY <2>3, <3>1, <3>2, NoneAssumption DEF Of, Whole
    <3>4. QED
      BY <1>0, <2>3, <3>3, HolderKept
  <2>9. QED
    BY <1>2, <2>4, <2>5, <2>6, <2>7, <2>8 DEF Writes, Removed
<1>3. QED
  BY <1>1, <1>2 DEF Writes, Mark, WriteMeta, BeginFiles, EndFiles, Undirty

LEMMA EndsKept ==
  ASSUME OnlyInstalls, Typed, Exclusive, Kept, NEW p \in Proc, Ends(p)
  PROVE  Kept'
<1>1. /\ Moves(p, "idle") /\ UNCHANGED package
      /\ kind' = kind /\ (pc[p] # "use" => pc[p] \in StopsAt)
  BY EndsMoves
<1>2. \A q \in Proc : Content(q)' = Content(q)
  BY DEF Ends, Use, Check, Forget, Stop, choice, Content
<1>6. stops' = 0 => stops = 0
  BY StopsCounted
<1>3. CASE pc[p] \notin Writing
  BY <1>1, <1>2, <1>3, <1>6, AloneKept
<1>4. CASE pc[p] \in Writing
  <2>1. pc[p] # "removing"
    BY <1>1, <1>4 DEF OnlyInstalls, Writing
  <2>0. stops' # 0
    <3>1. ~Use(p) /\ ~Check(p) /\ ~Forget(p)
      BY <1>4 DEF Writing, Use, Check, Forget
    <3>2. QED
      BY <3>1, StopsCounted
  <2>2. ~dirty => folder # Partial /\ (folder \in Package => meta = folder)
    BY <1>4, <2>1, NoneAssumption DEF Kept, Of, Writing
  <2>3. Whole'
    BY <1>1, <2>0, <2>2 DEF Whole, package
  <2>4. pc' = [pc EXCEPT ![p] = "idle"] /\ pc'[p] = "idle"
    BY <1>1 DEF Moves, Typed, TypeOK
  <2>5. Of(p)'
    BY <2>4 DEF Of
  <2>6. QED
    BY <1>4, <2>3, <2>4, <2>5, HolderKept DEF Inside
<1>5. QED
  BY <1>3, <1>4

Inv == Typed /\ Exclusive /\ Kept

LEMMA InstallsInv ==
  ASSUME OnlyInstalls
  PROVE  Spec => []Inv
<1>1. Init => Inv
  BY InitTyped, InitKept DEF Inv
<1>2. Inv /\ [Next]_vars => Inv'
  <2> SUFFICES ASSUME Inv, [Next]_vars PROVE Kept'
    BY StepTyped, StepExclusive DEF Inv
  <2>1. CASE UNCHANGED vars
    BY <2>1 DEF Inv, Kept, Quiet, Whole, Of, Content, vars, package, choice, bounds
  <2>2. ASSUME NEW p \in Proc, Starts(p) \/ Evaluates(p) \/ Writes(p) \/ Ends(p)
        PROVE  Kept'
    BY <2>2, StartsKept, EvaluatesKept, WritesKept, EndsKept DEF Inv
  <2>3. QED
    BY <2>1, <2>2, StepsOfNext
<1>3. QED
  BY <1>1, <1>2, PTL DEF Spec

LEMMA RestIsWhole == ASSUME Inv, AtRest PROVE Whole
BY DEF Inv, Kept, Quiet, AtRest, Writing

\* However many processes install, and wherever they are killed or fail but
\* while a package is removed, the dirty mark tells every corrupted package
\* (_evaluate_clean_pkg_folder_dirty), ...
THEOREM InstallsKeepWhole == OnlyInstalls => (Spec => []CleanIsWhole)
<1> SUFFICES ASSUME OnlyInstalls PROVE Spec => []CleanIsWhole
  OBVIOUS
<1>1. Inv => CleanIsWhole
  BY RestIsWhole DEF CleanIsWhole, Whole
<1>2. QED
  BY <1>1, InstallsInv, PTL

\* ... the metadata is that of the package (node.prev), ...
THEOREM InstallsKeepMetadata == OnlyInstalls => (Spec => []MetadataAgrees)
<1> SUFFICES ASSUME OnlyInstalls PROVE Spec => []MetadataAgrees
  OBVIOUS
<1>1. Inv => MetadataAgrees
  BY RestIsWhole DEF MetadataAgrees, Whole
<1>2. QED
  BY <1>1, InstallsInv, PTL

\* ... and no mark is found twice or missed (set_dirty, clean_dirty).
THEOREM InstallsBalanceMarks == OnlyInstalls => (Spec => []MarksBalanced)
<1> SUFFICES ASSUME OnlyInstalls PROVE Spec => []MarksBalanced
  OBVIOUS
<1>1. Inv => MarksBalanced
  BY DEF Inv, Kept, Of, MarksBalanced
<1>2. QED
  BY <1>1, InstallsInv, PTL

\* As long as none of the processes that install was killed or failed, nobody
\* uses a package that is not whole, although installs decide without the lock.
THEOREM InstallsUseWhole == OnlyInstalls => (Spec => []UsedIsWhole)
<1> SUFFICES ASSUME OnlyInstalls PROVE Spec => []UsedIsWhole
  OBVIOUS
<1>1. Inv => UsedIsWhole
  BY DEF Inv, Kept, Of, UsedIsWhole
<1>2. QED
  BY <1>1, InstallsInv, PTL

-----------------------------------------------------------------------------
(* One process alone, with every command.                                  *)

\* It is not stopped where a removal leaves some of the files, nor between the
\* files and the metadata of an export-pkg.
StopsAlone ==
  "removing" \notin StopsAt /\ ("meta" \in StopsAt => "export_pkg" \notin Commands)

Agree == ~dirty => folder # Partial /\ (folder \in Package => meta = folder)

\* The package is dirty, or whole and with its metadata, ...
Sound(p) == pc[p] # "removing" /\ ~(pc[p] = "meta" /\ kind[p] = "export_pkg") => Agree

\* ... while it is written, ...
Produced(p) ==
  /\ pc[p] = "mark" => folder = None /\ ~dirty
  /\ pc[p] \in {"begin", "end"} => dirty
  /\ pc[p] = "meta" => (dirty <=> kind[p] # "export_pkg")
  /\ pc[p] = "meta" /\ kind[p] # "download" => folder = Content(p)
  /\ pc[p] = "undirty" => dirty /\ folder = Content(p)
  /\ pc[p] = "undirty" /\ kind[p] # "export_pkg" => meta = Content(p)
  /\ pc[p] \in {"begin", "end"} /\ kind[p] = "download" => meta = Content(p)
  /\ pc[p] = "forget" => folder = None

\* ... and what was decided on is in the folder when it is used.
Decided(p) ==
  /\ pc[p] = "decide" => ~dirty /\ (folder # None => known[p] = meta /\ meta.rrev = rrev[p])
  /\ pc[p] \in {"waiting", "act"} /\ kind[p] = "cache" => folder = Content(p)
  /\ pc[p] \in {"fetched", "use"} => folder = Content(p)

AloneOf(p) == Sound(p) /\ Produced(p) /\ Decided(p)

\* Who has run no command is nowhere, and nobody exports where that is no command.
Fresh ==
  \A p \in Proc : /\ commands[p] = 0 => pc[p] = "idle"
                  /\ kind[p] = "export_pkg" => "export_pkg" \in Commands

AInv == Typed /\ Fresh /\ \A p \in Proc : Alone(p) => AloneOf(p)

\* A process that moves to a place where nothing has to be known.
LEMMA MovesSound ==
  ASSUME Typed, NEW p \in Proc, AloneOf(p), UNCHANGED package,
         pc'[p] \in {"idle", "clean", "check", "removing"},
         pc'[p] # "removing" => Sound(p) /\ pc[p] # "removing"
                               /\ ~(pc[p] = "meta" /\ kind[p] = "export_pkg")
  PROVE  AloneOf(p)'
BY DEF AloneOf, Sound, Produced, Decided, Agree, package

LEMMA StartsAlone ==
  ASSUME Typed, NEW p \in Proc, AloneOf(p), Starts(p)
  PROVE  AloneOf(p)'
<1>0. pc[p] = "idle" /\ Agree
  BY DEF Starts, Install, Export, ExportPkg, Remove, Begins, AloneOf, Sound
<1>1. ASSUME NEW r \in RRev, NEW forced \in BOOLEAN, Install(p, r, forced)
      PROVE  AloneOf(p)'
  <2>1. pc'[p] = "waiting" /\ kind'[p] # "cache" /\ UNCHANGED package
    BY <1>1 DEF Install, Choose, AwaitLock, Go, Typed, TypeOK
  <2>2. QED
    BY <1>0, <2>1 DEF AloneOf, Sound, Produced, Decided, Agree, package
<1>2. CASE ExportPkg(p)
  <2>1. pc'[p] = "removing"
    BY <1>2 DEF ExportPkg, StartRemoving, Go, Typed, TypeOK
  <2>2. QED
    BY <2>1 DEF AloneOf, Sound, Produced, Decided
<1>3. CASE Remove(p) \/ \E r \in RRev : Export(p, r)
  <2>1. pc'[p] = "check" /\ UNCHANGED package
    BY <1>3 DEF Remove, Export, Go, Typed, TypeOK
  <2>2. QED
    BY <1>0, <2>1, MovesSound DEF AloneOf
<1>4. QED
  BY <1>1, <1>2, <1>3 DEF Starts

LEMMA EvaluatesAlone ==
  ASSUME Typed, NEW p \in Proc, AloneOf(p), Evaluates(p)
  PROVE  AloneOf(p)'
<1> USE DEF Typed, TypeOK
<1>0. /\ pc[p] \in {"waiting", "clean", "decide", "act", "fetched"} /\ Agree
      /\ rrev' = rrev
  BY DEF Evaluates, Acquire, Clean, Decide, Missing, Act, Fetched, choice, AloneOf, Sound
<1>1. ASSUME pc'[p] = "removing" PROVE AloneOf(p)'
  BY <1>1 DEF AloneOf, Sound, Produced, Decided
<1>2. CASE Acquire(p)
  <2>1. pc'[p] \in {"clean", "act"} /\ UNCHANGED <<package, choice>> /\ pc[p] = "waiting"
    BY <1>2 DEF Acquire, Go
  <2>2. QED
    BY <1>0, <2>1 DEF AloneOf, Sound, Produced, Decided, Agree, Content, package, choice
<1>3. CASE Clean(p)
  <2>1. CASE dirty \/ (meta # None /\ meta.rrev # rrev[p])
    BY <1>1, <1>3, <2>1 DEF Clean, StartRemoving, Go
  <2>2. CASE ~(dirty \/ (meta # None /\ meta.rrev # rrev[p]))
    <3>1. pc'[p] = "decide" /\ UNCHANGED package /\ known'[p] = meta
      BY <1>3, <2>2 DEF Clean, Go
    <3>2. folder # None => meta.rrev = rrev[p]
      BY <1>0, <2>2, NoneAssumption DEF Agree
    <3>3. QED
      BY <1>0, <2>2, <3>1, <3>2 DEF AloneOf, Sound, Produced, Decided, Agree, package
  <2>3. QED
    BY <2>1, <2>2
<1>4. CASE Decide(p)
  <2>1. PICK d \in Outcomes(p) : /\ kind' = [kind EXCEPT ![p] = d[1]]
                                 /\ prev' = [prev EXCEPT ![p] = d[2]]
    BY <1>4 DEF Decide
  <2>2. pc'[p] = "waiting" /\ UNCHANGED package /\ pc[p] = "decide"
    BY <1>4 DEF Decide, AwaitLock, Go
  <2>3. kind'[p] = d[1] /\ prev'[p] = d[2]
    BY <2>1
  <2>4. d[1] = "cache" => folder = Content(p)'
    <3>1. SUFFICES ASSUME d[1] = "cache" PROVE folder = Content(p)'
      OBVIOUS
    <3>2. folder # None /\ d[2] = (IF known[p] = Unread THEN meta ELSE known[p]).rev
      BY <3>1 DEF Outcomes
    <3>3. folder \in Package /\ meta = folder /\ known[p] = meta /\ meta.rrev = rrev[p]
      BY <1>0, <2>2, <3>2 DEF AloneOf, Decided, Agree
    <3>4. d[2] = folder.rev
      BY <3>2, <3>3
    <3>5. QED
      BY <1>0, <2>3, <3>3, <3>4 DEF Content, Package
  <2>5. QED
    BY <1>0, <2>2, <2>3, <2>4 DEF AloneOf, Sound, Produced, Decided, Agree, package
<1>5. CASE Missing(p)
  <2>1. pc'[p] = "idle" /\ UNCHANGED package
    BY <1>5 DEF Missing, Go
  <2>2. QED
    BY <1>0, <2>1, MovesSound DEF Sound
<1>6. CASE Act(p)
  <2>1. CASE kind[p] # "cache"
    BY <1>1, <1>6, <2>1 DEF Act, StartRemoving, Go
  <2>2. CASE kind[p] = "cache"
    <3>1. /\ pc[p] = "act" /\ UNCHANGED <<package, choice>> /\ pc'[p] \in {"idle", "use"}
      BY <1>6, <2>2 DEF Act, Go
    <3>2. QED
      BY <1>0, <2>2, <3>1 DEF AloneOf, Sound, Produced, Decided, Agree, Content, package, choice
  <2>3. QED
    BY <2>1, <2>2
<1>7. CASE Fetched(p)
  <2>1. /\ pc[p] = "fetched" /\ pc'[p] = "waiting" /\ UNCHANGED package
        /\ Content(p)' = Content(p)
    BY <1>7 DEF Fetched, Go, Content
  <2>2. QED
    BY <1>0, <2>1 DEF AloneOf, Sound, Produced, Decided, Agree, package
<1>8. QED
  BY <1>2, <1>3, <1>4, <1>5, <1>6, <1>7 DEF Evaluates

LEMMA RemovedAlone ==
  ASSUME Typed, NEW p \in Proc, AloneOf(p), Removed(p)
  PROVE  AloneOf(p)'
<1>1. kind[p] \in Kinds \ {"cache"} /\ kind' = kind
  BY DEF Removed, Typed, TypeOK, Doing, Kinds, choice
<1>2. Following[kind[p]]["removing"] \in {"mark", "decide", "forget", "idle"}
  BY <1>1, Followed, FollowedRemoval DEF Kinds, Decisions, Writers
<1>3. pc'[p] \in {"mark", "decide", "forget", "idle"} /\ folder' = None /\ ~dirty'
  BY <1>2 DEF Removed, Proceed, Go, Typed, TypeOK
<1>4. QED
  BY <1>3, NoneAssumption DEF AloneOf, Sound, Produced, Decided, Agree

LEMMA WritesAlone ==
  ASSUME Typed, NEW p \in Proc, AloneOf(p), Writes(p), ~Removed(p)
  PROVE  AloneOf(p)'
<1> USE DEF Typed, TypeOK
<1> DEFINE to == Following[kind[p]][pc[p]]
<1>1. kind[p] \in Writers /\ kind' = kind /\ rrev' = rrev
  BY DEF Doing, Writes, Removed, Mark, WriteMeta, BeginFiles, EndFiles, Undirty, choice
<1>2. CASE Mark(p)
  <2>1. pc[p] = "mark" /\ folder = None /\ ~dirty
    BY <1>2 DEF Mark, AloneOf, Produced
  <2>2. pc'[p] = to /\ dirty' = TRUE
    BY <1>2, <2>1 DEF Mark, Proceed, Go
  <2>3. to = IF kind[p] = "download" THEN "meta" ELSE "begin"
    BY <1>1, <2>1, Followed DEF Writers
  <2>4. QED
    BY <1>1, <2>2, <2>3 DEF AloneOf, Sound, Produced, Decided, Agree
<1>3. CASE WriteMeta(p)
  <2>1. pc[p] = "meta" /\ pc'[p] = to /\ UNCHANGED <<folder, dirty>>
    BY <1>3 DEF WriteMeta, Proceed, Go
  <2>2. meta' = Content(p) /\ Content(p)' = Content(p)
    BY <1>3 DEF WriteMeta, Content, choice
  <2>3. to = CASE kind[p] = "download" -> "begin"
               [] kind[p] = "build" -> "undirty"
               [] kind[p] = "export_pkg" -> "idle"
    BY <1>1, <2>1, Followed DEF Writers
  <2>4. (dirty <=> kind[p] # "export_pkg") /\ (kind[p] # "download" => folder = Content(p))
    BY <2>1 DEF AloneOf, Produced
  <2>5. Content(p) \in Package
    BY <2>1 DEF Doing, Content, Package
  <2>6. CASE kind[p] = "export_pkg"
    BY <1>1, <2>1, <2>2, <2>3, <2>4, <2>5, <2>6, NoneAssumption
       DEF AloneOf, Sound, Produced, Decided, Agree
  <2>7. CASE kind[p] # "export_pkg"
    BY <1>1, <2>1, <2>2, <2>3, <2>4, <2>7 DEF AloneOf, Sound, Produced, Decided, Agree, Writers
  <2>8. QED
    BY <2>6, <2>7
<1>4. CASE BeginFiles(p)
  <2>1. /\ pc[p] = "begin" /\ pc'[p] = "end" /\ UNCHANGED <<dirty, meta>> /\ dirty
        /\ Content(p)' = Content(p)
    BY <1>1, <1>4, Followed
       DEF BeginFiles, Proceed, Go, AloneOf, Produced, Content, choice
  <2>2. QED
    BY <1>1, <2>1 DEF AloneOf, Sound, Produced, Decided, Agree
<1>5. CASE EndFiles(p)
  <2>1. PICK r \in PRev : /\ prev' = [prev EXCEPT ![p] = r]
                          /\ folder' = [rev |-> r, rrev |-> rrev[p]]
                          /\ kind[p] = "download" => r = prev[p]
    BY <1>5 DEF EndFiles, Doing
  <2>2. folder' = Content(p)' /\ (kind[p] = "download" => Content(p)' = Content(p))
    BY <1>1, <2>1 DEF Content
  <2>3. pc[p] = "end" /\ pc'[p] = to /\ dirty /\ UNCHANGED <<dirty, meta>>
    BY <1>5 DEF EndFiles, Proceed, Go, AloneOf, Produced
  <2>4. to = IF kind[p] = "build" THEN "meta" ELSE "undirty"
    BY <1>1, <2>3, Followed DEF Writers
  <2>5. kind[p] = "download" => meta = Content(p)
    BY <2>3 DEF AloneOf, Produced
  <2>6. QED
    BY <1>1, <2>2, <2>3, <2>4, <2>5 DEF AloneOf, Sound, Produced, Decided, Agree, Writers
<1>6. CASE Undirty(p)
  <2>1. /\ pc[p] = "undirty" /\ dirty /\ folder = Content(p)
        /\ kind[p] # "export_pkg" => meta = Content(p)
    BY <1>6 DEF Undirty, AloneOf, Produced
  <2>2. pc'[p] = to /\ ~dirty' /\ UNCHANGED <<folder, meta>> /\ Content(p)' = Content(p)
    BY <1>6, <2>1 DEF Undirty, Proceed, Go, Content, choice
  <2>3. to = CASE kind[p] = "download" -> "fetched"
               [] kind[p] = "build" -> "use"
               [] kind[p] = "export_pkg" -> "meta"
    BY <1>1, <2>1, Followed DEF Writers
  <2>4. Content(p) \in Package
    BY <2>1 DEF Doing, Content, Package
  <2>5. QED
    BY <1>1, <2>1, <2>2, <2>3, <2>4, NoneAssumption
       DEF AloneOf, Sound, Produced, Decided, Agree, Writers
<1>7. QED
  BY <1>2, <1>3, <1>4, <1>5, <1>6 DEF Writes

LEMMA EndsAlone ==
  ASSUME StopsAlone, Typed, Fresh, NEW p \in Proc, AloneOf(p), Ends(p)
  PROVE  AloneOf(p)'
<1> USE DEF Typed, TypeOK
<1>1. CASE Use(p) \/ Stop(p)
  <2>1. pc'[p] = "idle" /\ UNCHANGED package
    BY <1>1 DEF Use, Stop, Fail, Go
  <2>2. pc[p] # "removing" /\ ~(pc[p] = "meta" /\ kind[p] = "export_pkg")
    BY <1>1 DEF Use, Stop, StopsAlone, Fresh
  <2>3. QED
    BY <2>1, <2>2, MovesSound DEF AloneOf
<1>2. CASE Check(p)
  <2>1. pc[p] = "check"
    BY <1>2 DEF Check
  <2>2. CASE pc'[p] = "removing"
    BY <2>2 DEF AloneOf, Sound, Produced, Decided
  <2>3. CASE pc'[p] # "removing"
    <3>1. pc'[p] = "idle" /\ UNCHANGED package
      BY <1>2, <2>3 DEF Check, StartRemoving, Go
    <3>2. QED
      BY <2>1, <3>1, MovesSound DEF AloneOf
  <2>4. QED
    BY <2>2, <2>3
<1>3. CASE Forget(p)
  <2>1. pc[p] = "forget" /\ folder = None /\ folder' = folder /\ pc'[p] = "idle"
    BY <1>3 DEF Forget, Go, AloneOf, Produced
  <2>2. QED
    BY <2>1, NoneAssumption DEF AloneOf, Sound, Produced, Decided, Agree
<1>4. QED
  BY <1>1, <1>2, <1>3 DEF Ends

\* Commands are counted, and never forgotten.
LEMMA StepFresh ==
  ASSUME Typed, Fresh, NEW p \in Proc, Starts(p) \/ Evaluates(p) \/ Writes(p) \/ Ends(p)
  PROVE  /\ Fresh'
         /\ commands'[p] # 0
         /\ \A q \in Proc : q # p => commands'[q] = commands[q]
<1> USE DEF Typed, TypeOK
<1>1. \A q \in Proc : q # p => pc'[q] = pc[q] /\ kind'[q] = kind[q]
  <2>1. CASE Starts(p)
    BY <2>1 DEF Starts, Install, Export, ExportPkg, Remove, Choose, AwaitLock, StartRemoving, Go
  <2>2. CASE Evaluates(p)
    BY <2>2 DEF Evaluates, Acquire, Clean, Decide, Missing, Act, Fetched, AwaitLock,
       StartRemoving, Go, choice
  <2>3. CASE Writes(p)
    BY <2>3 DEF Writes, Removed, Mark, WriteMeta, BeginFiles, EndFiles, Undirty, Proceed, Fail,
       Go, choice
  <2>4. CASE Ends(p)
    BY <2>4 DEF Ends, Use, Check, Forget, Stop, Fail, StartRemoving, Go, choice
  <2>5. QED
    BY <2>1, <2>2, <2>3, <2>4
<1>2. CASE Starts(p)
  <2>1. commands' = [commands EXCEPT ![p] = @ + 1]
    BY <1>2 DEF Starts, Install, Export, ExportPkg, Remove, Begins
  <2>2. commands'[p] # 0 /\ \A q \in Proc : q # p => commands'[q] = commands[q]
    BY <2>1
  <2>3. kind'[p] = "export_pkg" => "export_pkg" \in Commands
    BY <1>2 DEF Starts, Install, Export, ExportPkg, Remove, Choose, Begins
  <2>4. QED
    BY <1>1, <2>2, <2>3 DEF Fresh
<1>3. CASE ~Starts(p)
  <2>1. commands' = commands
    BY <1>3 DEF Evaluates, Acquire, Clean, Decide, Missing, Act, Fetched, Writes, Removed, Mark,
       WriteMeta, BeginFiles, EndFiles, Undirty, Ends, Use, Check, Forget, Stop, bounds
  <2>2. pc[p] # "idle"
    BY <1>3 DEF Evaluates, Acquire, Clean, Decide, Missing, Act, Fetched, Writes, Removed, Mark,
       WriteMeta, BeginFiles, EndFiles, Undirty, Ends, Use, Check, Forget, Stop
  <2>3. kind'[p] \in {kind[p], "cache", "download", "build"}
    <3>1. CASE Decide(p)
      <4>1. PICK d \in Outcomes(p) : kind' = [kind EXCEPT ![p] = d[1]]
        BY <3>1 DEF Decide
      <4>2. d[1] \in {"cache", "download", "build"}
        BY <4>1 DEF Outcomes
      <4>3. QED
        BY <4>1, <4>2
    <3>2. CASE Fetched(p)
      BY <3>2 DEF Fetched
    <3>3. CASE ~Decide(p) /\ ~Fetched(p)
      BY <1>3, <3>3 DEF Evaluates, Acquire, Clean, Missing, Act, Writes, Removed, Mark,
         WriteMeta, BeginFiles, EndFiles, Undirty, Ends, Use, Check, Forget, Stop, choice
    <3>4. QED
      BY <3>1, <3>2, <3>3
  <2>4. QED
    BY <1>1, <2>1, <2>2, <2>3 DEF Fresh
<1>4. QED
  BY <1>2, <1>3

LEMMA StepAlone ==
  ASSUME StopsAlone, AInv, [Next]_vars
  PROVE  AInv'
<1>0. Typed'
  BY StepTyped DEF AInv
<1>1. CASE UNCHANGED vars
  BY <1>0, <1>1 DEF AInv, Fresh, Alone, AloneOf, Sound, Agree, Produced, Decided, Content, vars,
     package, choice, bounds
<1>2. ASSUME NEW p \in Proc, Starts(p) \/ Evaluates(p) \/ Writes(p) \/ Ends(p)
      PROVE  AInv'
  <2>1. /\ Fresh' /\ commands'[p] # 0
        /\ \A q \in Proc : q # p => commands'[q] = commands[q]
    BY <1>2, StepFresh DEF AInv
  <2>2. AloneOf(p) => AloneOf(p)'
    BY <1>2, StartsAlone, EvaluatesAlone, RemovedAlone, WritesAlone, EndsAlone DEF AInv
  <2>3. ASSUME NEW q \in Proc, Alone(q)' PROVE AloneOf(q)'
    BY <2>1, <2>2, <2>3 DEF Alone, AInv
  <2>4. QED
    BY <1>0, <2>1, <2>3 DEF AInv
<1>3. QED
  BY <1>1, <1>2, StepsOfNext

LEMMA AloneInv ==
  ASSUME StopsAlone
  PROVE  Spec => []AInv
<1>1. Init => AInv
  <2>1. Init => Fresh
    BY DEF Init, Fresh
  <2>2. Init => \A p \in Proc : AloneOf(p)
    BY NoneAssumption DEF Init, AloneOf, Sound, Agree, Produced, Decided
  <2>3. QED
    BY <2>1, <2>2, InitTyped DEF AInv
<1>2. QED
  BY <1>1, StepAlone, PTL DEF Spec

\* A process that is alone in the cache uses what it decided on, whatever
\* commands it ran before and wherever they were killed or failed, but in a
\* removal or between the files and the metadata of an export-pkg.
THEOREM AloneUsesAsDecided == StopsAlone => (Spec => []UsedAsDecidedAlone)
<1> SUFFICES ASSUME StopsAlone PROVE Spec => []UsedAsDecidedAlone
  OBVIOUS
<1>1. AInv => UsedAsDecidedAlone
  BY DEF AInv, AloneOf, Decided, Content, UsedAsDecidedAlone
<1>2. QED
  BY <1>1, AloneInv, PTL

\* Until a second process runs a command, every command of the first, stopped as
\* above, keeps a clean package whole, its metadata its own, and finds the dirty
\* mark as it expects it.
THEOREM AloneKeepsPackages ==
  StopsAlone =>
    (Spec => [](\A p \in Proc : Alone(p) => CleanIsWhole /\ MetadataAgrees /\ MarksBalanced))
<1> DEFINE KeptAlone == \A p \in Proc : Alone(p) => CleanIsWhole /\ MetadataAgrees /\ MarksBalanced
<1> SUFFICES ASSUME StopsAlone PROVE Spec => []KeptAlone
  OBVIOUS
<1>1. AInv => KeptAlone
  <2> SUFFICES ASSUME AInv, NEW p \in Proc, Alone(p)
               PROVE  CleanIsWhole /\ MetadataAgrees /\ MarksBalanced
    OBVIOUS
  <2>1. Sound(p) /\ Produced(p) /\ \A q \in Proc : q # p => pc[q] = "idle"
    BY DEF AInv, AloneOf, Alone, Fresh
  <2>2. CleanIsWhole /\ MetadataAgrees
    BY <2>1 DEF Sound, Agree, AtRest, CleanIsWhole, MetadataAgrees
  <2>3. MarksBalanced
    BY <2>1 DEF Produced, MarksBalanced
  <2>4. QED
    BY <2>2, <2>3
<1>2. QED
  BY <1>1, AloneInv, PTL
-----------------------------------------------------------------------------
(* metadata.json, which the steps above update at once: what update_metadata *)
(* does step by step (MetadataFile) loses no update.                       *)

UpdateSteps(t) ==
  \/ LockFile(t) \/ LockThread(t) \/ Load(t) \/ UpdateFails(t) \/ Truncate(t) \/ Write(t)
  \/ UnlockThread(t) \/ ReleaseFile(t)

\* Where a thread has the lock in memory, and where it was granted the file.
Updating == {"load", "body", "save", "unlock"}
Granted == Updating \cup {"thread", "release"}

\* A thread has the lock in memory of its process.
OwnsMetadataMutex == \A t \in Thread : step[t] \in Updating => mutex[processOf[t]] = t

\* A process that is alone in having threads of its own has the file.
OwnsMetadata == Apart => \A t \in Thread : step[t] \in Granted => owner = processOf[t]

\* What a thread has loaded is what was saved, for as long as it is to save it.
FreshCopy ==
  Apart \/ Together =>
    \A t \in Thread : /\ step[t] \in {"body", "save"} => seen[t] = saved
                      /\ step[t] = "save" => content = Empty

MetadataInv == MetadataTypeOK /\ OwnsMetadataMutex /\ OwnsMetadata /\ FreshCopy /\ UpdatesKept

-----------------------------------------------------------------------------
LEMMA MetadataInitInv == MetadataInit => MetadataInv
BY PlacementsAssumption, UpdatesAssumption, EmptyAssumption
   DEF MetadataInit, MetadataInv, MetadataTypeOK, OwnsMetadataMutex, OwnsMetadata, FreshCopy,
       UpdatesKept, Metadata, NoMetadata,
       Updating, Granted, Apart, Together

\* Nobody else has the lock in memory when threads and processes do not mix.
LEMMA UpdatesAlone ==
  ASSUME MetadataTypeOK, OwnsMetadataMutex, OwnsMetadata, Apart \/ Together,
         NEW t \in Thread, NEW u \in Thread, step[t] \in Updating, step[u] \in Updating
  PROVE  t = u
<1>1. mutex[processOf[t]] = t /\ mutex[processOf[u]] = u
  BY DEF OwnsMetadataMutex
<1>2. CASE Together
  BY <1>1, <1>2 DEF Together
<1>3. CASE Apart
  <2>1. processOf[t] = processOf[u]
    BY <1>3 DEF OwnsMetadata, Granted
  <2>2. QED
    BY <1>3, <2>1 DEF Apart
<1>4. QED
  BY <1>2, <1>3

LEMMA UpdateStartInv ==
  ASSUME MetadataInv, NEW t \in Thread, Start(t)
  PROVE  MetadataInv'
BY UpdatesAssumption
   DEF Start, Advance, MetadataInv, MetadataTypeOK, OwnsMetadataMutex, OwnsMetadata,
       FreshCopy, UpdatesKept, Updating, Granted,
       Apart, Together

\* The processOf never changes.
LEMMA MetadataPlacementKept ==
  ASSUME processOf' = processOf
  PROVE  (Apart' <=> Apart) /\ (Together' <=> Together)
BY DEF Apart, Together

LEMMA UpdatesTyped ==
  ASSUME MetadataTypeOK, NEW t \in Thread, UpdateSteps(t)
  PROVE  MetadataTypeOK' /\ processOf' = processOf /\ kills' = kills
<1> USE PlacementsAssumption DEF MetadataTypeOK, Advance
<1>1. CASE LockFile(t)
  BY <1>1 DEF LockFile
<1>2. CASE LockThread(t)
  BY <1>2 DEF LockThread
<1>3. CASE Load(t)
  BY <1>3 DEF Load
<1>4. CASE UpdateFails(t)
  BY <1>4 DEF UpdateFails
<1>5. CASE Truncate(t)
  BY <1>5 DEF Truncate
<1>6. CASE Write(t)
  BY <1>6 DEF Write, Metadata
<1>7. CASE UnlockThread(t)
  BY <1>7 DEF UnlockThread
<1>8. CASE ReleaseFile(t)
  BY <1>8 DEF ReleaseFile
<1>9. QED
  BY <1>1, <1>2, <1>3, <1>4, <1>5, <1>6, <1>7, <1>8 DEF UpdateSteps

LEMMA UpdatesOwn ==
  ASSUME MetadataTypeOK, OwnsMetadataMutex, OwnsMetadata, NEW t \in Thread, UpdateSteps(t)
  PROVE  OwnsMetadataMutex' /\ OwnsMetadata'
<1> USE PlacementsAssumption, NobodyAssumption
    DEF MetadataTypeOK, Advance, OwnsMetadataMutex, OwnsMetadata, Updating, Granted, Apart
<1>1. CASE LockFile(t)
  BY <1>1 DEF LockFile
<1>2. CASE LockThread(t)
  BY <1>2 DEF LockThread
<1>3. CASE Load(t)
  BY <1>3 DEF Load
<1>4. CASE UpdateFails(t)
  BY <1>4 DEF UpdateFails
<1>5. CASE Truncate(t)
  BY <1>5 DEF Truncate
<1>6. CASE Write(t)
  BY <1>6 DEF Write
<1>7. CASE UnlockThread(t)
  BY <1>7 DEF UnlockThread
<1>8. CASE ReleaseFile(t)
  BY <1>8 DEF ReleaseFile
<1>9. QED
  BY <1>1, <1>2, <1>3, <1>4, <1>5, <1>6, <1>7, <1>8 DEF UpdateSteps

LEMMA UpdatesKeep ==
  ASSUME MetadataInv, NEW t \in Thread, UpdateSteps(t), Apart \/ Together
  PROVE  FreshCopy' /\ UpdatesKept'
<1>0. MetadataTypeOK /\ OwnsMetadataMutex /\ OwnsMetadata /\ FreshCopy /\ UpdatesKept
  BY DEF MetadataInv
<1>1. \A u \in Thread : u # t /\ step[t] \in Updating => step[u] \notin Updating
  BY <1>0, UpdatesAlone
<1> USE <1>0 DEF MetadataTypeOK, Advance, FreshCopy, UpdatesKept, Updating
<1>2. CASE LockFile(t)
  BY <1>2 DEF LockFile
<1>3. CASE LockThread(t)
  BY <1>3 DEF LockThread
<1>4. CASE Load(t)
  <2>1. content = saved
    BY <1>4 DEF Load
  <2>2. QED
    BY <1>4, <2>1 DEF Load
<1>5. CASE UpdateFails(t)
  BY <1>5 DEF UpdateFails
<1>6. CASE Truncate(t)
  BY <1>1, <1>6 DEF Truncate
<1>7. CASE Write(t)
  <2>1. seen[t] = saved /\ step[t] = "save" /\ content' = saved'
    BY <1>7 DEF Write
  <2>2. content' # Empty
    BY <1>7, EmptyAssumption DEF Write, Metadata
  <2>3. \A u \in Thread : u # t => step'[u] \notin {"body", "save"}
    BY <1>1, <1>7 DEF Write
  <2>4. step'[t] = "unlock"
    BY <1>7 DEF Write
  <2>5. QED
    BY <2>1, <2>2, <2>3, <2>4
<1>8. CASE UnlockThread(t)
  BY <1>8 DEF UnlockThread
<1>9. CASE ReleaseFile(t)
  BY <1>9 DEF ReleaseFile
<1>10. QED
  BY <1>2, <1>3, <1>4, <1>5, <1>6, <1>7, <1>8, <1>9 DEF UpdateSteps

LEMMA UpdateKillInv ==
  ASSUME MetadataInv, NEW p \in Process, Kill(p)
  PROVE  MetadataInv'
<1> DEFINE mine == {t \in Thread : processOf[t] = p}
<1>1. /\ kills' = kills + 1 /\ kills < MaxKills
      /\ step' = [t \in Thread |-> IF t \in mine THEN "idle" ELSE step[t]]
      /\ owner' = IF owner = p THEN Nobody ELSE owner
      /\ mutex' = [mutex EXCEPT ![p] = Nobody]
      /\ UNCHANGED <<content, seen, saved, started, processOf>>
  BY DEF Kill
<1>2. MetadataTypeOK'
  BY <1>1, UpdatesAssumption DEF MetadataInv, MetadataTypeOK
<1>3. \A t \in Thread : step'[t] # "idle" => step'[t] = step[t] /\ processOf[t] # p
  BY <1>1
<1>4. OwnsMetadataMutex'
  BY <1>1, <1>3, PlacementsAssumption DEF MetadataInv, MetadataTypeOK, OwnsMetadataMutex, Updating
<1>5. OwnsMetadata'
  BY <1>1, <1>3 DEF MetadataInv, OwnsMetadata, Apart, Granted, Updating
<1>6. kills' > 0
  BY <1>1, UpdatesAssumption DEF MetadataInv, MetadataTypeOK
<1>7. FreshCopy' /\ UpdatesKept'
  BY <1>1, <1>3, <1>6 DEF MetadataInv, FreshCopy, UpdatesKept, Apart, Together
<1>8. QED
  BY <1>2, <1>4, <1>5, <1>7 DEF MetadataInv

LEMMA MetadataSpecInv == MetadataSpec => []MetadataInv
<1>1. MetadataInv /\ [MetadataNext]_metadataVars => MetadataInv'
  <2> SUFFICES ASSUME MetadataInv, [MetadataNext]_metadataVars PROVE MetadataInv'
    OBVIOUS
  <2>1. CASE UNCHANGED metadataVars
    BY <2>1 DEF metadataVars, MetadataInv, MetadataTypeOK, OwnsMetadataMutex, OwnsMetadata,
        FreshCopy, UpdatesKept, Apart, Together
  <2>2. ASSUME NEW t \in Thread, UpdateSteps(t)
        PROVE  MetadataInv'
    <3>1. /\ MetadataTypeOK' /\ OwnsMetadataMutex' /\ OwnsMetadata'
          /\ (Apart' <=> Apart) /\ (Together' <=> Together)
      BY <2>2, UpdatesTyped, UpdatesOwn, MetadataPlacementKept DEF MetadataInv
    <3>2. FreshCopy' /\ UpdatesKept'
      <4>1. CASE Apart \/ Together
        BY <2>2, <4>1, UpdatesKeep
      <4>2. CASE ~(Apart \/ Together)
        BY <3>1, <4>2 DEF FreshCopy, UpdatesKept
      <4>3. QED
        BY <4>1, <4>2
    <3>3. QED
      BY <3>1, <3>2 DEF MetadataInv
  <2>3. QED
    BY <2>1, <2>2, UpdateStartInv, UpdateKillInv DEF MetadataNext, Update, UpdateSteps
<1>2. QED
  BY <1>1, MetadataInitInv, PTL DEF MetadataSpec

\* Every reachable state is of its type: a thread never takes a truncated file
\* for the metadata (load_metadata).
THEOREM MetadataTypeCorrect == MetadataSpec => []MetadataTypeOK
<1>1. MetadataInv => MetadataTypeOK
  BY DEF MetadataInv
<1>2. QED
  BY <1>1, MetadataSpecInv, PTL

\* However many threads of one process, or processes, update the metadata, and
\* whatever is killed, no update is lost (update_metadata).
THEOREM NothingLost == MetadataSpec => []UpdatesKept
<1>1. MetadataInv => UpdatesKept
  BY DEF MetadataInv
<1>2. QED
  BY <1>1, MetadataSpecInv, PTL
=============================================================================

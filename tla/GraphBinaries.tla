--------------------------- MODULE GraphBinaries ---------------------------
(***************************************************************************)
(* What to do about the binary of every package of a graph, and doing it:  *)
(* GraphBinariesAnalyzer with the build modes of build_mode.py, the        *)
(* package ids of info.py, the skipping of private dependencies of         *)
(* graph.py, the recursion over build requirements of graph_manager.py,    *)
(* and the loop of BinaryInstaller.                                        *)
(*                                                                         *)
(* The id of a package is a value that says what it is computed from: its  *)
(* reference, its configuration and what it takes from its requirements.   *)
(* A revision of a package is a number.  What there is of a package, in    *)
(* the cache and on the servers, is chosen when it is first looked at.     *)
(*                                                                         *)
(* Left out: how the graph is resolved (DepsGraph) and what a folder holds *)
(* (PackageFolder); lockfiles, several remotes, python_requires, build     *)
(* requirements that a package requires as well, or that are analyzed in   *)
(* several groups, and compatible packages other than those of             *)
(* compatibility(), for recipes whose package_id() leaves the requirements *)
(* alone.                                                                  *)
(***************************************************************************)
EXTENDS Naturals, FiniteSets, SequencesExt

CONSTANT
  Worlds  \* what may be: a graph, and what the user, the recipes, the cache
          \* and the servers have to do with it

Kinds == {"public", "private", "build"}  \* of edges

\* Nodes are numbers; the graph says for each its reference, which is a number
\* too, its configuration, and the nodes that are made for its build requirements.
ASSUME WorldsAssumption ==
  \A w \in Worlds : \A n \in DOMAIN w.ref :
    /\ w.ref[n] \in Nat
    /\ w.idMode[w.ref[n]] \in {"clear", "semver", "package", "revision"}
    /\ w.facts \subseteq [cache : 0..1, remote : 0..2, stale : BOOLEAN]

\* What DepsGraph makes: no loops, nothing that requires the consumer, nodes of
\* their own for build requirements, ...
ASSUME GraphsAssumption ==
  \A w \in Worlds :
    LET all == DOMAIN w.ref
    IN  /\ 1 \in w.initial /\ w.tools \in [all -> SUBSET all]
        /\ w.initial \cup UNION {w.tools[n] : n \in all} = all
        /\ \A n \in all : /\ w.tools[n] \cap w.initial = {}
                          /\ \A m \in all \ {n} : w.tools[n] \cap w.tools[m] = {}
        /\ w.edges \subseteq all \X (all \ {1}) \X Kinds
        /\ \A set \in SUBSET all :
             set # {} => \E n \in set : \A e \in w.edges : e[1] = n => e[2] \notin set

\* All that edges lead to.
Reached(all, from, edges) ==
  {n \in all : \A set \in SUBSET all :
     from \subseteq set /\ (\A e \in edges : e[1] \in set => e[2] \in set) => n \in set}

\* What a node gets from its requirements.
Given(w, n) ==
  Reached(DOMAIN w.ref, {e[2] : e \in {d \in w.edges : d[1] = n /\ d[3] # "build"}},
          {e \in w.edges : e[3] = "public"})

\* ... which have in common with the graph at most what their node is given too.
ASSUME EdgesAssumption ==
  \A w \in Worlds : \A e \in w.edges :
    IF e[3] = "build" THEN e[2] \in w.tools[e[1]]
    ELSE /\ e[1] \in w.initial => e[2] \in w.initial
         /\ \A n \in DOMAIN w.ref :
              e[1] \in w.tools[n] => e[2] \in w.tools[n] \cup Given(w, n)

NoPrev == 0
NewPrev == 3       \* of a package that was built, unless it is again what it was
EditablePrev == 4
Root == 1
NoId == <<>>
Unknown == <<"Package_ID_unknown">>
Invalid == <<"INVALID">>

VARIABLES
  world,      \* what there is
  present,    \* the nodes of the graph
  nodes,      \* what is known of each: its id, what to do, its revision
  facts,      \* what there is of a package, by reference and id
  evaluated,  \* the first node that was evaluated for a package
  frames,     \* the calls of _recurse_build_requires
  call,       \* the call of _evaluate_node
  todo,       \* the nodes to install
  processed,  \* the packages that were, with their revisions
  stage       \* "analyze", "download", "install", or how it ended

vars == <<world, present, nodes, facts, evaluated, frames, call, todo, processed, stage>>
analysis == <<world, present, evaluated, frames>>

Ref(n) == world.ref[n]
Config(n) == <<Ref(n), world.conf[n]>>
Key(n) == <<Ref(n), nodes[n].id>>
Into(n, kinds) == {e[2] : e \in {d \in world.edges : d[1] = n /\ d[3] \in kinds}}
Requires(n) == Into(n, {"public", "private"})
Neighbors(n) == Into(n, Kinds) \cap present
With(f, k, v) == [x \in DOMAIN f \cup {k} |-> IF x = k THEN v ELSE f[x]]

\* by_levels: first what depends on nothing of the set, then what depends on
\* nothing of the rest, and so on; a level by reference.
Level(set) == {n \in set : Into(n, Kinds) \cap set = {}}
Walk(set) == [left |-> set, level |-> Level(set)]
IsNext(n, walk) == n \in walk.level /\ \A m \in walk.level : Ref(n) <= Ref(m)
Past(n, walk) ==
  LET left == walk.left \ {n}
  IN  [left |-> left,
       level |-> IF walk.level = {n} THEN Level(left) ELSE walk.level \ {n}]
AtOnce(set) == [left |-> set, level |-> set]

-----------------------------------------------------------------------------
(* Package ids.                                                            *)

\* What a package takes from a requirement: nothing, its reference, its id too,
\* or also its revision.
Width(r) == [clear |-> 0, semver |-> 1, package |-> 2, revision |-> 3][world.idMode[r]]

\* Mutant: a revision that is not known yet counts as it is.
PackageId_AnyRevision(r, conf, used) ==
  IF Width(r) >= 2 /\ \E p \in used : p[2] = Unknown THEN Unknown
  ELSE <<r, conf, {SubSeq(p, 1, Width(r)) : p \in used}>>

\* RequirementsInfo.sha and ConanInfo.package_id: the first requirement whose id
\* or revision is not known, or that is invalid, says what the id is.
PackageId(r, conf, used) ==
  LET unknown(p) == (Width(r) >= 2 /\ p[2] = Unknown) \/ (Width(r) = 3 /\ p[3] = NoPrev)
      bad == {p \in used : unknown(p) \/ (Width(r) >= 2 /\ p[2] = Invalid)}
      first == CHOOSE p \in bad : \A q \in bad : p[1] <= q[1]
  IN  IF bad = {} THEN <<r, conf, {SubSeq(p, 1, Width(r)) : p \in used}>>
      ELSE IF unknown(first) THEN Unknown ELSE Invalid

\* package_id_transitive_reqs, and what ConanInfo.create gets of it, from what is
\* known of the neighbors.  Without full_transitive_package_id this is what they
\* know of only.  What is required indirectly does not count by default.
Requirements(n, known, neighbors) ==
  LET direct == {<<Ref(d), nodes[d].id, nodes[d].prev>> : d \in Requires(n)}
      indirect == (UNION {known[d].direct \cup known[d].indirect : d \in Requires(n)}) \ direct
      visible == {p \in indirect : world.fixed \/ \E d \in neighbors : \E q \in known[d].info :
                                                    q[1] = p[1] /\ q[2] = p[2]}
  IN  [direct |-> direct, indirect |-> indirect,
       info |-> IF Width(Ref(n)) = 0 THEN {} ELSE direct \cup visible,
       used |-> CASE Width(Ref(n)) = 0 -> {}
                  [] Width(Ref(n)) = 1 -> direct
                  [] OTHER -> direct \cup visible]

Own(n) == Requirements(n, nodes, Neighbors(n))
Transitive(n) == [nodes[n] EXCEPT !.direct = Own(n).direct, !.indirect = Own(n).indirect]
IdWith(n, conf) == PackageId(Ref(n), conf, Own(n).used)

\* _compute_package_id, with validate().
Computed(n) ==
  [Transitive(n) EXCEPT
     !.id = IF Config(n) \in world.invalid THEN Invalid ELSE IdWith(n, world.conf[n]),
     !.info = Own(n).info]

-----------------------------------------------------------------------------
(* Build modes.                                                            *)

NoBuildMode == [options |-> {}, patterns |-> {}, excluded |-> {}]

Forced(mode, r, withDepsToBuild) ==
  /\ r \notin mode.excluded /\ world.policy[r] # "never" /\ "never" \notin mode.options
  /\ \/ "all" \in mode.options
     \/ world.policy[r] = "always"
     \/ "cascade" \in mode.options /\ withDepsToBuild
     \/ r \in mode.patterns

Allowed(r) ==
  /\ world.policy[r] # "never"
  /\ world.buildMode.options \cap {"missing", "outdated"} # {} \/ world.policy[r] = "missing"

DepsToBuild(n) == \E d \in Neighbors(n) : nodes[d].binary = "build"

\* A package that is to be built, unless validate_build() refuses.
ToBuild(n, node) ==
  [node EXCEPT !.should = TRUE, !.prev = NoPrev,
               !.binary = IF Config(n) \in world.cantBuild THEN "invalid" ELSE "build"]

-----------------------------------------------------------------------------
(* The analysis of the graph.                                              *)

NewNode == [id |-> NoId, binary |-> "none", nonSkip |-> "none", prev |-> NoPrev,
            should |-> FALSE, direct |-> {}, indirect |-> {}, info |-> {}]
NoCall == [step |-> "none"]
Frame(set, root) == [phase |-> "evaluate", set |-> set, todo |-> Walk(set), root |-> root]

Init ==
  /\ world \in Worlds
  /\ present = world.initial
  /\ nodes = [n \in DOMAIN world.ref |-> NewNode]
  /\ facts = [k \in {} |-> NoId] /\ evaluated = facts /\ processed = facts
  /\ frames = <<Frame(world.initial, Root)>>
  /\ call = NoCall
  /\ todo = Walk({})
  /\ stage = "analyze"

Top == Last(frames)
WithTop(frame) == Append(Front(frames), frame)
In(phase) == stage = "analyze" /\ call = NoCall /\ frames # <<>> /\ Top.phase = phase

\* The ids to try: its own, then those of compatible configurations.
Evaluation(n, id) ==
  [step |-> "process", node |-> n, own |-> TRUE, id |-> id, mode |-> world.buildMode,
   rest |-> [i \in DOMAIN world.compatible[Config(n)] |->
               IdWith(n, world.compatible[Config(n)][i])]]

\* evaluate_graph, one node of it.
Evaluate(n) ==
  LET node == Computed(n)
      label == CASE n = Root -> "none"
                 [] n # Root /\ Ref(n) \in world.editable -> "editable"
                 [] OTHER -> IF node.id = Unknown THEN "unknown" ELSE "none"
  IN  /\ In("evaluate") /\ IsNext(n, Top.todo)
      /\ nodes' = [nodes EXCEPT ![n] = [node EXCEPT !.binary = label]]
      /\ call' = IF label = "none" /\ n # Root THEN Evaluation(n, node.id) ELSE NoCall
      /\ frames' = WithTop([Top EXCEPT !.todo = Past(n, @)])
      /\ UNCHANGED <<world, present, facts, evaluated, todo, processed, stage>>

\* Mutant: a node of which nothing is known yet is taken for one that is there.
SkipsPrivate_Unknown(n) ==
  nodes[n].binary \in {"cache", "download", "update", "skip", "unknown"}

SkipsPrivate(n) == nodes[n].binary \in {"cache", "download", "update", "skip"}

\* mark_private_skippable: what only packages need that are there already.
MarkPrivateSkippable ==
  LET followed == {e \in world.edges : /\ {e[1], e[2]} \subseteq present
                                       /\ e[3] = "private" => ~SkipsPrivate(e[1])}
      public == Reached(present, {Top.root}, followed)
  IN  /\ In("evaluate") /\ Top.todo.left = {}
      /\ nodes' = [n \in DOMAIN nodes |->
                     IF n \in Top.set \ public
                     THEN [nodes[n] EXCEPT !.nonSkip = nodes[n].binary, !.binary = "skip"]
                     ELSE nodes[n]]
      /\ frames' = WithTop([Top EXCEPT !.phase = "extend", !.todo = Walk(Top.set)])
      /\ UNCHANGED <<world, present, facts, evaluated, call, todo, processed, stage>>

\* What may be built gets its build requirements, which are analyzed at once.
\* "Packages with PACKAGE_ID_UNKNOWN might be built in the future"
RecurseBuildRequires(n) ==
  LET rest == WithTop([Top EXCEPT !.todo = Past(n, @)])
      tools == IF nodes[n].binary \in {"build", "editable", "unknown"} \/ n = Root
               THEN world.tools[n] ELSE {}
  IN  /\ In("extend") /\ IsNext(n, Top.todo)
      /\ present' = present \cup tools
      /\ frames' = IF tools = {} THEN rest ELSE Append(rest, Frame(tools, n))
      /\ UNCHANGED <<world, nodes, facts, evaluated, call, todo, processed, stage>>

\* The end of a call; after the last one, _classify: nothing is installed when
\* a package is invalid or missing.
Classify ==
  LET is(binaries) == {n \in present : nodes[n].binary \in binaries}
  IN  /\ In("extend") /\ Top.todo.left = {}
      /\ frames' = Front(frames)
      /\ IF Len(frames) > 1 THEN UNCHANGED <<stage, todo>>
         ELSE /\ stage' = CASE is({"invalid"}) # {} -> "invalid"
                            [] is({"invalid"}) = {} /\ is({"missing"}) # {} -> "missing"
                            [] OTHER -> "download"
              /\ todo' = AtOnce(is({"download", "update"}))
      /\ UNCHANGED <<world, present, nodes, facts, evaluated, call, processed>>

-----------------------------------------------------------------------------
(* _evaluate_node: _process_node for one id after the other.               *)

Processing == call.step = "process"
Self == call.node
CallKey == <<Ref(Self), call.id>>
IsCached == CallKey \in DOMAIN evaluated

\* Another id is tried while the package is missing; once it is not, the node
\* has the id that was tried.
Settle(node) ==
  LET stop == IF call.own THEN node.binary \notin {"missing", "invalid"} \/ node.should
              ELSE node.binary # "missing"
  IN  /\ nodes' = [nodes EXCEPT ![Self] = IF stop /\ ~call.own THEN [node EXCEPT !.id = call.id]
                                          ELSE node]
      /\ call' = [call EXCEPT !.step = IF ~stop THEN "compatible" ELSE "handle"]
      /\ UNCHANGED <<world, present, frames, todo, processed, stage>>

\* _evaluate_is_cached: what was decided for the package, also if it was skipped.
Inherit ==
  LET first == nodes[evaluated[CallKey]]
  IN  /\ Processing /\ IsCached /\ first.binary # "none"
      /\ Settle([nodes[Self] EXCEPT
                   !.binary = IF first.binary = "skip" THEN first.nonSkip ELSE first.binary,
                   !.prev = first.prev, !.id = first.id])
      /\ UNCHANGED <<facts, evaluated>>

\* "assert node.binary is not None": two compatible configurations have one id.
FailTwice ==
  /\ Processing /\ IsCached /\ nodes[evaluated[CallKey]].binary = "none"
  /\ stage' = "failed" /\ call' = NoCall
  /\ UNCHANGED <<analysis, nodes, facts, todo, processed>>

BeFirst == Processing /\ ~IsCached /\ evaluated' = With(evaluated, CallKey, Self)
IsForced == Forced(call.mode, Ref(Self), DepsToBuild(Self))

RefuseInvalid ==
  /\ BeFirst /\ call.id = Invalid
  /\ Settle([nodes[Self] EXCEPT !.binary = "invalid",
                                !.should = @ \/ Forced(call.mode, Ref(Self), FALSE)])
  /\ UNCHANGED facts

\* There is nothing under an unknown id, and what there is of a package that is
\* built for certain does not matter.
Fact == IF CallKey \in DOMAIN facts THEN {facts[CallKey]}
        ELSE IF call.id = Unknown \/ (IsForced /\ Config(Self) \notin world.cantBuild)
        THEN {[cache |-> NoPrev, remote |-> NoPrev, stale |-> FALSE]} ELSE world.facts

ForceBuild ==
  /\ BeFirst /\ call.id # Invalid /\ IsForced
  /\ \E f \in Fact : facts' = With(facts, CallKey, f)
  /\ Settle(ToBuild(Self, nodes[Self]))

\* _evaluate_cache_pkg and _evaluate_remote_pkg: with --update a newer one.
Found(f, node) ==
  LET updated == world.update /\ f.cache # NoPrev /\ f.remote > f.cache
  IN  [node EXCEPT
         !.prev = IF f.cache # NoPrev /\ ~updated THEN f.cache ELSE f.remote,
         !.binary = CASE updated -> "update"
                      [] ~updated /\ f.cache # NoPrev -> "cache"
                      [] OTHER -> IF f.remote # NoPrev THEN "download" ELSE "missing"]

LookUp ==
  /\ BeFirst /\ call.id # Invalid /\ ~IsForced
  /\ \E f \in Fact :
       LET found == Found(f, nodes[Self])
       IN  /\ facts' = With(facts, CallKey, f)
           /\ Settle(IF "outdated" \in call.mode.options /\ found.binary # "missing" /\ f.stale
                     THEN ToBuild(Self, found) ELSE found)

\* The next compatible one, without a build mode, unless it is the same.
TryCompatible ==
  /\ call.step = "compatible" /\ call.rest # <<>>
  /\ IF Head(call.rest) = nodes[Self].id
     THEN nodes' = nodes /\ call' = [call EXCEPT !.rest = Tail(@)]
     ELSE /\ nodes' = [nodes EXCEPT ![Self].binary = "none"]
          /\ call' = [call EXCEPT !.step = "process", !.own = FALSE, !.id = Head(call.rest),
                                  !.mode = NoBuildMode, !.rest = Tail(@)]
  /\ UNCHANGED <<analysis, facts, todo, processed, stage>>

\* None was found: what is missing is built if it may be.
Conclude ==
  LET node == nodes[Self]
  IN  /\ call.step = "compatible" /\ call.rest = <<>>
      /\ nodes' = [nodes EXCEPT ![Self] =
           CASE node.binary = "missing" /\ node.id = Invalid -> [node EXCEPT !.binary = "invalid"]
             [] node.binary = "missing" /\ node.id # Invalid /\ Allowed(Ref(Self)) -> ToBuild(Self, node)
             [] OTHER -> node]
      /\ call' = [call EXCEPT !.step = "handle"]
      /\ UNCHANGED <<analysis, facts, todo, processed, stage>>

EndEvaluation ==
  /\ stage = "analyze" /\ call.step = "handle" /\ call' = NoCall
  /\ UNCHANGED <<analysis, nodes, facts, todo, processed, stage>>

EvaluateNode ==
  \/ Inherit \/ FailTwice \/ RefuseInvalid \/ ForceBuild \/ LookUp
  \/ TryCompatible \/ Conclude \/ EndEvaluation

-----------------------------------------------------------------------------
(* BinaryInstaller._build.                                                 *)

CacheOf(k) == IF k \in DOMAIN facts THEN facts[k].cache ELSE NoPrev
Stop(why) == stage' = why /\ UNCHANGED <<analysis, nodes, facts, call, todo, processed>>
InCache(k, p) == facts' = [facts EXCEPT ![k].cache = p, ![k].stale = FALSE]

\* _download: what has to be downloaded is, a package once; by threads, in any order.
Download(n) ==
  /\ stage = "download" /\ n \in todo.left
  /\ \/ /\ Key(n) \in DOMAIN processed
        /\ todo' = Past(n, todo)
        /\ UNCHANGED <<analysis, nodes, facts, call, processed, stage>>
     \/ /\ Key(n) \notin DOMAIN processed
        /\ IF facts[Key(n)].remote = nodes[n].prev
           THEN /\ InCache(Key(n), nodes[n].prev)
                /\ processed' = With(processed, Key(n), nodes[n].prev)
                /\ todo' = Past(n, todo)
                /\ UNCHANGED <<analysis, nodes, call, stage>>
           ELSE Stop("broken")

StartBuild ==
  /\ stage = "download" /\ todo.left = {}
  /\ stage' = "install" /\ todo' = Walk(present \ {Root})
  /\ UNCHANGED <<analysis, nodes, facts, call, processed>>

\* Mutant: what a node requires is not looked at again.
PropagateInfo_Not(n) == nodes[n]

\* _propagate_info: the revisions of what a node requires are known now.
PropagateInfo(n) == Transitive(n)

Installing(n) == stage = "install" /\ call = NoCall /\ IsNext(n, todo)

\* An editable package, or one that is not needed.
Pass(n) ==
  /\ Installing(n) /\ nodes[n].binary \in {"editable", "skip"}
  /\ nodes' = [nodes EXCEPT ![n] =
       IF nodes[n].binary = "skip" THEN PropagateInfo(n)
       ELSE [PropagateInfo(n) EXCEPT !.prev = EditablePrev]]
  /\ todo' = Past(n, todo)
  /\ UNCHANGED <<analysis, facts, call, processed, stage>>

\* reevaluate_node.
Reevaluate(n) ==
  LET node == Computed(n)
  IN  /\ Installing(n) /\ nodes[n].binary = "unknown"
      /\ IF node.id = Unknown THEN Stop("broken")
         ELSE /\ nodes' = [nodes EXCEPT ![n] = [node EXCEPT !.binary = "none"]]
              /\ call' = Evaluation(n, node.id)
              /\ UNCHANGED <<analysis, facts, todo, processed, stage>>

HandleNow(n) ==
  \/ stage = "install" /\ call.step = "handle" /\ n = Self
  \/ Installing(n) /\ nodes[n].binary \notin {"editable", "skip", "unknown"}

RaiseMissing(n) == HandleNow(n) /\ nodes[n].binary = "missing" /\ Stop("missing")

\* Done with a node, which has revision p.
Handled(n, p) ==
  /\ nodes' = [nodes EXCEPT ![n] = [PropagateInfo(n) EXCEPT !.prev = p]]
  /\ processed' = IF p = NoPrev THEN processed ELSE With(processed, Key(n), p)
  /\ todo' = Past(n, todo)
  /\ call' = NoCall
  /\ UNCHANGED <<analysis, stage>>

\* Mutant: a package is built once for every node.
IsProcessed_Never(n) == nodes[n].binary # "build" /\ Key(n) \in DOMAIN processed

IsProcessed(n) == Key(n) \in DOMAIN processed

\* _handle_node_cache: the package was handled for another node, ...
HandleAgain(n) ==
  /\ HandleNow(n) /\ nodes[n].binary # "missing" /\ IsProcessed(n)
  /\ UNCHANGED facts /\ Handled(n, processed[Key(n)])

\* ... it is built, ...
Build(n) ==
  /\ HandleNow(n) /\ nodes[n].binary = "build" /\ ~IsProcessed(n)
  /\ \E p \in {1, NewPrev} : InCache(Key(n), p) /\ Handled(n, p)

\* ... downloaded, after its id was computed again, ...
DownloadLate(n) ==
  /\ HandleNow(n) /\ nodes[n].binary \in {"download", "update"} /\ ~IsProcessed(n)
  /\ IF facts[Key(n)].remote = nodes[n].prev
     THEN InCache(Key(n), nodes[n].prev) /\ Handled(n, nodes[n].prev)
     ELSE Stop("broken")

\* ... or should be in the cache.
UseCached(n) ==
  /\ HandleNow(n) /\ nodes[n].binary \in {"cache", "invalid"} /\ ~IsProcessed(n)
  /\ IF CacheOf(Key(n)) # NoPrev THEN UNCHANGED facts /\ Handled(n, nodes[n].prev)
     ELSE Stop("broken")

Finish ==
  /\ stage = "install" /\ todo.left = {}
  /\ stage' = "done" /\ nodes' = [nodes EXCEPT ![Root] = PropagateInfo(Root)]
  /\ UNCHANGED <<analysis, facts, call, todo, processed>>

Next ==
  \/ \E n \in present :
       \/ Evaluate(n) \/ RecurseBuildRequires(n) \/ Download(n) \/ Pass(n) \/ Reevaluate(n)
       \/ RaiseMissing(n) \/ HandleAgain(n) \/ Build(n) \/ DownloadLate(n) \/ UseCached(n)
  \/ MarkPrivateSkippable \/ Classify \/ StartBuild \/ Finish
  \/ EvaluateNode

Spec == Init /\ [][Next]_vars

-----------------------------------------------------------------------------
(* Properties.                                                             *)

Installed(n) == stage \in {"install", "done"} /\ n \notin todo.left
Packages == {n \in present \ {Root} : nodes[n].binary \notin {"skip", "editable"}}

\* What the next command will know, when nothing has to be built any more: what
\* is required for builds is not in its graph, and all revisions are known.
AtNextCommand(n) ==
  LET later[m \in present] == Requirements(m, later, Requires(m)) IN later[n]

\* A package is installed under the id that the next command computes for it,
\* also if its requirements were built only after the graph was analyzed: else it
\* would not be found.  ("This is mandatory, otherwise it doesn't work", say the
\* tests of full_transitive_package_id.)
SameIds ==
  stage = "done" => \A n \in Packages : nodes[n].binary # "invalid" =>
    nodes[n].id = PackageId(Ref(n), nodes[n].id[2], AtNextCommand(n).used)

IdsAgree == world.fixed => SameIds

\* Invalid after all, or passed without a revision or an id that others may ask for.
Unsettled(n) ==
  \/ nodes[n].binary = "invalid"
  \/ nodes[n].binary = "skip" /\ nodes[n].prev = NoPrev
  \/ nodes[n].binary \in {"skip", "editable"} /\ nodes[n].id = Unknown

\* Once nothing is missing or invalid, what was decided for a package is done: no
\* assertion fails and nothing that was found is gone, unless a package turns out
\* to be unsettled.  The revision of a node is that of the package in the
\* cache, whatever was installed since, and for whichever node.
InstalledAsDecided ==
  /\ stage = "broken" => \E n \in present : Unsettled(n)
  /\ \A n \in Packages : Installed(n) /\ nodes[n].binary # "invalid" =>
       nodes[n].prev # NoPrev /\ CacheOf(Key(n)) = nodes[n].prev

\* What a build is given, or the consumer: what it requires, and what that passes on.
Needed(n) == Reached(present, Neighbors(n), {e \in world.edges : e[3] = "public"})

\* All of it was installed before, nothing of it was skipped.
NothingNeededSkipped ==
  \A n \in present : \/ n = Root /\ stage = "done"
                     \/ n # Root /\ Installed(n) /\ nodes[n].binary = "build"
    => \A d \in Needed(n) : Installed(d) /\ nodes[d].binary # "skip"

\* "Build packages from source that have at least one dependency being built".
CascadeBuilds ==
  stage = "done" /\ "cascade" \in world.buildMode.options =>
    \A n \in Packages : DepsToBuild(n) => nodes[n].binary = "build"
=============================================================================

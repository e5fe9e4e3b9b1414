------------------------------ MODULE DepsGraph ------------------------------
(***************************************************************************)
(* The resolution of a dependency graph: DepsGraphBuilder, with the nodes  *)
(* of graph.py, the requirements of requires.py, the version ranges of     *)
(* range_resolver.py and the options of options.py.                        *)
(*                                                                         *)
(* The recursion of the builder is a stack of frames, one for each node    *)
(* that is expanded.  A recipe is chosen when it is first read.  A version *)
(* is a number, a range a set of versions, and every package has one       *)
(* option, with one of two values, the first being its default.            *)
(*                                                                         *)
(* Left out: aliases, lockfiles, user and channel, revisions, settings,    *)
(* options with patterns, and recipes that ask for other requirements for  *)
(* another value of an option.                                             *)
(***************************************************************************)
EXTENDS Naturals, FiniteSets, SequencesExt

CONSTANTS
  Name,     \* the names of packages
  Root,     \* the name of the consumer
  Version,  \* a set of numbers other than 0
  Worlds,   \* what there may be, by some name of it: recipes, the versions in
            \* the cache (local) and on the servers (remote), and how many
            \* build requirements (extends)
  MaxNodes  \* bounds the nodes of a graph

ASSUME WorldAssumption ==
  /\ Root \notin Name /\ Version \subseteq Nat \ {0} /\ MaxNodes \in Nat \ {0}
  /\ \A w \in Range(Worlds) :
       /\ \A set \in (SUBSET (w.local \cup w.remote)) \ {{}} : \E newest \in set : \A v \in set : newest >= v
       /\ w.local \subseteq Version /\ w.remote \subseteq Version
       /\ w.update \in BOOLEAN /\ w.extends \in Nat

None == 0
Value == 1..2
Default == 1
Context == {"host", "build"}
Key == (Name \cup {Root}) \X Context
Kind == {"normal", "private", "override", "build"}

\* A requirement without a range has an empty one; a range that was not
\* resolved has no version yet; a build requirement may switch the context.
Requirement == [name : Name, version : Version \cup {None}, range : SUBSET Version,
                kind : Kind, switch : BOOLEAN]

\* What the methods of a recipe set the options of the package itself and of
\* its dependencies to, for each value that its own option may have.
Settings == [Value -> [Name -> Value \cup {None}]]

\* Requirements has one requirement of each name, and every requirement asks
\* for some version.  Only build requirements may be for the other context.
ASSUME RecipesAssumption ==
  \A w \in Range(Worlds) : \A k \in Name \cup {Root} : \A r \in w.recipes[k] :
    /\ r.method \in BOOLEAN /\ r.options \in [Name -> Value \cup {None}]
    /\ {r.config_options, r.configure} \subseteq Settings
    /\ r.requires \in Seq(Requirement)
    /\ \A i \in DOMAIN r.requires :
         /\ r.requires[i].kind # "build" /\ ~r.requires[i].switch
         /\ ~(r.requires[i].version = None /\ r.requires[i].range = {})
         /\ \A j \in DOMAIN r.requires : r.requires[i].name = r.requires[j].name => i = j

VARIABLES
  world,    \* what there is
  recipes,  \* the recipes that were read: what they require, the options that
            \* they give to what they depend on, and what their methods set
  nodes,    \* the nodes of the graph, in the order they were made
  stack,    \* the calls of _expand_node
  outcome,  \* "expanding", or why the resolution failed
  extended  \* the calls of extend_build_requires

vars == <<world, stack, outcome, extended, recipes, nodes>>

World == Worlds[world]
Node == DOMAIN nodes
KeyOf(n) == <<nodes[n].name, nodes[n].context>>
Held(dict) == {dict[k] : k \in DOMAIN dict} \ {None}

TypeOK ==
  /\ world \in DOMAIN Worlds
  /\ Len(nodes) \in 1..MaxNodes
  /\ \A n \in Node :
       /\ KeyOf(n) \in Key /\ nodes[n].version \in IF n = 1 THEN {None} ELSE Version
       /\ Range(nodes[n].requires) \subseteq Requirement
       /\ nodes[n].option \in Value /\ nodes[n].frozen \in BOOLEAN
       /\ nodes[n].deps \in [Name -> Value \cup {None}]
       /\ nodes[n].edges \subseteq [dst : Node, name : Name, kind : Kind]
       /\ {nodes[n].public_deps, nodes[n].public_closure} \subseteq [Key -> Node \cup {None}]
       /\ nodes[n].transitive \in [Name \cup {Root} -> Node \cup {None}]
       /\ nodes[n].inverse \subseteq Node /\ nodes[n].ancestors \subseteq Key
  /\ outcome \in {"expanding", "loop", "conflict", "options", "range", "requirements", "missing"}
  /\ extended \in 0..World.extends

NoReqs == [k \in {} |-> None]
NoOptions == [k \in Name |-> None]

\* Node(): its closure is itself.
NewNode(n, name, version, context, recipe) ==
  [name |-> name, version |-> version, context |-> context,
   recipe |-> recipe, requires |-> recipe.requires, configured |-> FALSE,
   option |-> Default, modified |-> FALSE, frozen |-> FALSE, deps |-> recipe.options, depsModified |-> {},
   edges |-> {}, inverse |-> {}, ancestors |-> {},
   public_deps |-> [k \in Key |-> IF k = <<name, context>> THEN n ELSE None],
   public_closure |-> [k \in Key |-> IF k = <<name, context>> THEN n ELSE None],
   transitive |-> [k \in Name \cup {Root} |-> IF k = name THEN n ELSE None]]

\* A call of _expand_node, with what comes from downstream, and the node that
\* takes over what this one depends on when it is done.
Frame(node, reqs, options, then) ==
  [node |-> node, phase |-> "configure", todo |-> <<>>,
   reqs |-> reqs, options |-> options, then |-> then]

\* load_graph.
Init ==
  /\ world \in DOMAIN Worlds
  /\ \E r \in World.recipes[Root] : nodes = <<NewNode(1, Root, None, "host", r)>>
  /\ recipes = [k \in {} |-> None]
  /\ stack = <<Frame(1, NoReqs, NoOptions, None)>>
  /\ outcome = "expanding"
  /\ extended = 0

Running == outcome = "expanding" /\ stack # <<>>
Top == Last(stack)
WithTop(frame) == Append(Front(stack), frame)
Self == nodes[Top.node]

Fails(why) == outcome' = why /\ UNCHANGED <<world, recipes, nodes, stack, extended>>

-----------------------------------------------------------------------------
(* _get_node_requirements: options, then requirements, then ranges.        *)

Configuring == Running /\ Top.phase = "configure"
DownOption(k) == IF k \in Name THEN Top.options[k] ELSE None

\* A recipe assigns options whenever it is evaluated, and nothing remembers it.
Assigned(node, settings) ==
  LET given == settings[node.option]
  IN  [node EXCEPT !.option = IF node.name \in Name /\ given[node.name] # None THEN given[node.name] ELSE @,
                   !.deps = [k \in Name |-> IF k # node.name /\ given[k] # None THEN given[k] ELSE @[k]]]

\* config_options() comes first, ...
Ready == Assigned(Self, Self.recipe.config_options)

\* ... then propagate_upstream: an option is changed from downstream once, ...
OptionRefused ==
  LET node == Ready
  IN  \/ /\ DownOption(node.name) \notin {None, node.option}
         /\ node.modified \/ node.frozen
      \/ \E k \in Name \ {node.name} :
           /\ Top.options[k] \notin {None, node.deps[k]}
           /\ k \in node.depsModified \/ (node.frozen /\ node.deps[k] # None)

\* ... which is remembered if it was a change ...
Propagated(node) ==
  LET own == DownOption(node.name)
      changed == {k \in Name \ {node.name} : Top.options[k] \notin {None, node.deps[k]}}
  IN  [node EXCEPT !.option = IF own # None THEN own ELSE @,
                   !.modified = @ \/ own \notin {None, node.option},
                   !.deps = [k \in Name |-> IF k \in changed THEN Top.options[k] ELSE @[k]],
                   !.depsModified = @ \cup changed]

\* ... and at last configure() and requirements(), over what was propagated.
Configured == [Assigned(Propagated(Ready), Self.recipe.configure) EXCEPT !.configured = TRUE]

\* Requirements.update: downstream wins, but not over a private requirement.
Updated(req) ==
  IF req.kind = "private" \/ req.name \notin DOMAIN Top.reqs
     \/ Top.reqs[req.name].version = req.version
  THEN req
  ELSE [req EXCEPT !.version = Top.reqs[req.name].version,
                   !.range = IF Top.reqs[req.name].range = {} THEN {} ELSE @]

\* RangeResolver.resolve: the newest that the cache has, and if it has none, or
\* with --update, the newest of the servers.
Found(range) ==
  LET local == World.local \cap range
      remote == World.remote \cap range
      first == IF World.update THEN remote ELSE local
  IN  IF first # {} THEN first ELSE local \cup remote

Resolved(req) ==
  IF req.version # None \/ Found(req.range) = {} THEN req
  ELSE [req EXCEPT !.version = Max(Found(req.range))]

\* Mutant: a version that it was overridden with is not looked at.
RangeRefused_Unresolved(req) == req.range # {} /\ req.version = None

RangeRefused(req) == req.range # {} /\ req.version \notin req.range

\* requirements() makes requirements anew, the attribute keeps what it was
\* overridden with.
Asked == IF Self.recipe.method THEN Self.recipe.requires ELSE Self.requires
Required == [i \in DOMAIN Asked |-> Resolved(Updated(Asked[i]))]
SameRequires(a, b) == \A i \in DOMAIN a : a[i].version = b[i].version

\* What is passed on: what came from downstream, and what is required here.
PassedOn(reqs, required) ==
  LET own == {i \in DOMAIN required : required[i].kind # "private"}
      names == (DOMAIN reqs \ {Self.name}) \cup {required[i].name : i \in own}
  IN  [k \in names |-> IF \E i \in own : required[i].name = k
                       THEN required[CHOOSE i \in own : required[i].name = k]
                       ELSE reqs[k]]

GetNodeRequirements ==
  /\ Configuring /\ ~OptionRefused
  /\ \A i \in DOMAIN Required : ~RangeRefused(Required[i])
  /\ Self.configured => SameRequires(Required, Self.requires) \/ ~Self.recipe.method
  /\ nodes' = [nodes EXCEPT ![Top.node] = [Configured EXCEPT !.requires = Required]]
  /\ stack' = WithTop([Top EXCEPT
                !.phase = "expand",
                !.todo = Required,
                !.reqs = PassedOn(@, Required),
                !.options = nodes'[Top.node].deps])
  /\ UNCHANGED <<world, recipes, outcome, extended>>

\* Another value for an option, a version out of its range, or other
\* requirements than the last time.
RefuseOptions == Configuring /\ OptionRefused /\ Fails("options")
RefuseRange ==
  /\ Configuring /\ ~OptionRefused
  /\ \E i \in DOMAIN Required : RangeRefused(Required[i])
  /\ Fails("range")
RefuseRequires ==
  /\ Configuring /\ ~OptionRefused
  /\ \A i \in DOMAIN Required : ~RangeRefused(Required[i])
  /\ Self.configured /\ Self.recipe.method /\ ~SameRequires(Required, Self.requires)
  /\ Fails("requirements")

-----------------------------------------------------------------------------
(* _expand_require: a requirement is a loop, a new node or a diamond.      *)

Require == Head(Top.todo)
AtRequire(override) ==
  /\ Running /\ Top.phase = "expand" /\ Top.todo # <<>>
  /\ (Require.kind = "override") = override
Advanced == WithTop([Top EXCEPT !.todo = Tail(@)])
RequireContext == IF Require.switch THEN "build" ELSE Self.context
RequireKey == <<Require.name, RequireContext>>

\* connect_closure, of each of the nodes from with each of the nodes to.
Connect(ns, from, to) ==
  LET key(n) == <<ns[n].name, ns[n].context>>
      put(dict) == [k \in Key |-> IF \E n \in to : key(n) = k
                                  THEN CHOOSE n \in to : key(n) = k ELSE dict[k]]
  IN  [n \in DOMAIN ns |->
         [ns[n] EXCEPT !.public_closure = IF n \in from THEN put(@) ELSE @,
                       !.public_deps = IF n \in from THEN put(@) ELSE @,
                       !.inverse = IF n \in to THEN @ \cup from ELSE @]]

AddEdge(ns, dst) ==
  [ns EXCEPT ![Top.node].edges =
     IF \E e \in @ : e.dst = dst THEN @
     ELSE @ \cup {[dst |-> dst, name |-> Require.name, kind |-> Require.kind]}]

TakeOver(ns, n, m) ==
  [ns EXCEPT ![n].transitive =
     [k \in DOMAIN @ |-> IF ns[m].transitive[k] # None THEN ns[m].transitive[k] ELSE @[k]]]

\* Mutant: only a node that requires itself is a loop.
IsLoop_Self == RequireKey = KeyOf(Top.node)

IsLoop == RequireKey \in Self.ancestors \cup {KeyOf(Top.node)}

Expanding == AtRequire(FALSE)

\* An override says what version others require, and is no requirement itself.
PassOverride ==
  AtRequire(TRUE) /\ stack' = Advanced /\ UNCHANGED <<world, recipes, nodes, outcome, extended>>

Loop == Expanding /\ IsLoop /\ Fails("loop")

Previous == Self.public_deps[RequireKey]
IsNew ==
  \/ Previous = None
  \/ Require.kind \in {"private", "build"} /\ Self.public_closure[RequireKey] = None

\* A new node is connected with the node that requires it and, unless this is
\* private, with all nodes that have that one in their closure.
ExpandNew(recipe) ==
  LET n == Top.node
      m == Len(nodes) + 1
      public == Require.kind = "normal"
      made == [NewNode(m, Require.name, Require.version, RequireContext, recipe)
                 EXCEPT !.ancestors = Self.ancestors \cup {KeyOf(n)}]
      joined == AddEdge(Connect(Append(nodes, made),
                                {n} \cup IF public THEN Self.inverse ELSE {}, {m}), m)
  IN  /\ nodes' = [joined EXCEPT
                     ![m].public_deps = IF public THEN joined[n].public_deps
                                        ELSE joined[n].public_closure,
                     ![n].transitive[Require.name] = IF public THEN m ELSE @]
      /\ stack' = Append(Advanced, Frame(m, Top.reqs, Top.options, IF public THEN n ELSE None))

Available == Require.version \in World.local \cup World.remote

\* Neither in the cache nor on a server.
Missing == Expanding /\ ~IsLoop /\ IsNew /\ ~Available /\ Fails("missing")

\* The recipe is read, unless it was already.
CreateNode ==
  LET ref == <<Require.name, Require.version>>
  IN  /\ Expanding /\ ~IsLoop /\ IsNew /\ Available /\ Len(nodes) < MaxNodes
      /\ \E r \in IF ref \in DOMAIN recipes THEN {recipes[ref]}
                  ELSE World.recipes[Require.name] :
           /\ recipes' = [k \in DOMAIN recipes \cup {ref} |-> IF k = ref THEN r ELSE recipes[k]]
           /\ ExpandNew(r)
      /\ UNCHANGED <<world, outcome, extended>>

Conflict ==
  /\ Expanding /\ ~IsLoop /\ ~IsNew
  /\ nodes[Previous].version # Require.version
  /\ Fails("conflict")

\* _recurse: something in the closure of the node is not as it should be.
InClosure(k) == nodes[Previous].public_closure[<<k, nodes[Previous].context>>]
OtherVersion ==
  \E k \in DOMAIN Top.reqs :
    InClosure(k) # None /\ nodes[InClosure(k)].version # Top.reqs[k].version
OtherOption ==
  \E k \in Name : InClosure(k) # None /\ Top.options[k] \notin {None, nodes[InClosure(k)].option}

\* Mutants: only options, or only versions are looked at.
MustRecurse_Options == OtherOption
MustRecurse_Versions == OtherVersion

MustRecurse == OtherVersion \/ OtherOption

\* Mutant: only the node itself gets the ancestors.
AddAncestors_Previous ==
  [nodes EXCEPT ![Previous].ancestors = @ \cup Self.ancestors \cup {KeyOf(Top.node)}]

AddAncestors ==
  [x \in Node |->
     [nodes[x] EXCEPT !.ancestors =
        IF x \in Held(nodes[Previous].public_closure)
        THEN @ \cup Self.ancestors \cup {KeyOf(Top.node)} ELSE @]]

\* Mutant: what depends on the node is not connected.
JoinClosures_NodeOnly(ns) ==
  Connect(TakeOver(ns, Top.node, Previous), {Top.node}, Held(nodes[Previous].transitive))

\* What is passed on comes to the node, and to all that have it in a closure.
JoinClosures(ns) ==
  Connect(TakeOver(ns, Top.node, Previous), {Top.node} \cup Self.inverse,
          Held(nodes[Previous].transitive))

\* A diamond: the node is there already, and is expanded again if it must.
CloseDiamond ==
  LET linked == AddEdge(Connect(AddAncestors, {Top.node}, {Previous}), Previous)
  IN  /\ Expanding /\ ~IsLoop /\ ~IsNew
      /\ nodes[Previous].version = Require.version
      /\ nodes' = IF Require.kind = "normal" THEN JoinClosures(linked) ELSE linked
      /\ stack' = IF MustRecurse THEN Append(Advanced, Frame(Previous, Top.reqs, Top.options, None))
                  ELSE Advanced
      /\ UNCHANGED <<world, recipes, outcome, extended>>

\* The end of _expand_node.
Return ==
  /\ Running /\ Top.phase = "expand" /\ Top.todo = <<>>
  /\ nodes' = IF Top.then = None THEN nodes ELSE TakeOver(nodes, Top.then, Top.node)
  /\ stack' = Front(stack)
  /\ UNCHANGED <<world, recipes, outcome, extended>>

-----------------------------------------------------------------------------
(* What depends on what, and the build requirements.                       *)

\* The nodes in every set that has those it starts from, and what they depend on.
Reached(from, kinds) ==
  LET isClosed(set) == \A n \in set : \A e \in nodes[n].edges : e.kind \in kinds => e.dst \in set
  IN  {n \in Node : \A set \in SUBSET Node : from \subseteq set /\ isClosed(set) => n \in set}

Public(n) == Reached({n}, {"normal"})
Direct(n) == {e.dst : e \in nodes[n].edges}
Closure(n) == {n} \cup UNION {Public(d) : d \in Direct(n)}

\* _propagate_options: once the graph is there, a node gets the options that its
\* dependencies have, and no option can be changed any more.
Actual(n, others) ==
  [k \in Name |-> LET found == {d \in Closure(n) \ {n} : nodes[d].name = k}
                  IN  IF found = {} THEN others[k] ELSE nodes[CHOOSE d \in found : TRUE].option]

Evaluated ==
  [n \in Node |-> IF nodes[n].frozen THEN nodes[n]
                  ELSE [nodes[n] EXCEPT !.deps = Actual(n, NoOptions), !.depsModified = {}, !.frozen = TRUE]]

\* extend_build_requires: then the nodes that will be built get their build
\* requirements, for which the options come from the node, and nothing else.
ExtendBuildRequires(n, req) ==
  /\ outcome = "expanding" /\ stack = <<>> /\ extended < World.extends
  /\ extended' = extended + 1
  /\ nodes' = Evaluated
  /\ stack' = <<[Frame(n, NoReqs, Actual(n, nodes[n].deps), None)
                   EXCEPT !.phase = "expand", !.todo = <<req>>]>>
  /\ UNCHANGED <<world, recipes, outcome>>

BuildRequirement ==
  {[name |-> k, version |-> v, range |-> {}, kind |-> "build", switch |-> s] :
     k \in Name, v \in World.local \cup World.remote, s \in BOOLEAN}

Step ==
  \/ GetNodeRequirements \/ RefuseOptions \/ RefuseRange \/ RefuseRequires
  \/ PassOverride \/ Loop \/ Missing \/ CreateNode \/ Conflict \/ CloseDiamond \/ Return

Next == Step \/ \E n \in Node, req \in BuildRequirement : ExtendBuildRequires(n, req)

\* The builder runs to its end.
Spec == Init /\ [][Next]_vars /\ WF_vars(Step)

-----------------------------------------------------------------------------
(* Properties.  The graph says what depends on what; everything else that  *)
(* a node keeps must agree with it.                                        *)

Settled == outcome = "expanding" /\ stack = <<>>

OneOfEach(n) == \A x, y \in Closure(n) : KeyOf(x) = KeyOf(y) => x = y

\* The closure of a node, kept up to date while nodes are added anywhere in the
\* graph, is what it depends on directly and what that passes on: these are the
\* packages it is compiled and linked with.  A node also knows what it passes
\* on, and who has it in a closure.  A closure has room for one of each name,
\* and a private dependency may be another one.
ClosuresAgree ==
  Settled => \A n \in Node : OneOfEach(n) =>
    /\ Held(nodes[n].public_closure) = Closure(n)
    /\ Held(nodes[n].transitive) = Public(n)
    /\ \A m \in Node \ {n} : n \in nodes[m].inverse <=> m \in Closure(n)

\* "The dependencies that will be part of deps_cpp_info, can't conflict": no
\* package is compiled and linked with two versions of another.
ClosuresCannotConflict ==
  Settled => \A n \in Node : \A x, y \in Closure(n) :
    KeyOf(x) = KeyOf(y) => nodes[x].version = nodes[y].version

\* A node depends on the version that it requires, and if that was given as a
\* range, on one in the range, however it was overridden or expanded again.
EdgesAgree ==
  Settled => \A n \in Node : \A e \in nodes[n].edges :
    e.kind # "build" => \E r \in Range(nodes[n].requires) :
      /\ r.name = e.name /\ r.version = nodes[e.dst].version
      /\ r.range # {} => r.version \in r.range

\* What a node requires, or overrides, holds for everything it depends on.
DownstreamWins ==
  Settled => \A n \in Node : OneOfEach(n) =>
    \A r \in Range(nodes[n].requires), d \in Public(n) \ {n} :
      r.kind # "private" /\ nodes[d].name = r.name => nodes[d].version = r.version

\* Some method of the recipe sets the option of k.
Sets(recipe, k) ==
  \E settings \in {recipe.config_options, recipe.configure}, own \in Value : settings[own][k] # None

\* A value other than the default that a node gives to an option of what it
\* depends on, other than for its build, is the value of this option, unless it
\* is set by the recipe of this dependency, or of one between it and the node.
OptionsAgree ==
  Settled => \A n \in Node : OneOfEach(n) =>
    \A e \in nodes[n].edges : e.kind # "build" => \A d \in Public(e.dst) :
      \/ nodes[n].deps[nodes[d].name] \in {None, Default, nodes[d].option}
      \/ \E x \in Public(e.dst) : Sets(nodes[x].recipe, nodes[d].name) /\ d \in Public(x)

\* Nothing ever depends on itself, and everything on the way to a node is among
\* its ancestors, by which loops are found, however late that way was made.
Acyclic ==
  /\ \A n \in Node : n \notin Reached(Direct(n), Kind)
  /\ Settled /\ (\A n \in Node : OneOfEach(n)) =>
       \A n \in Node : \A d \in Closure(n) \ {n} : KeyOf(n) \in nodes[d].ancestors

\* Nodes are expanded again a finite number of times.
ResolutionEnds == Running ~> ~Running
=============================================================================

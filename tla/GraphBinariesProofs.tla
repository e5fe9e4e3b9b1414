------------------------ MODULE GraphBinariesProofs ------------------------
EXTENDS GraphBinaries, SequenceTheorems, WellFoundedInduction, TLAPS
(***************************************************************************)
(* What holds of the analysis and the installation of every graph, with    *)
(* any build mode and whatever the cache and the servers have.             *)
(***************************************************************************)

Node == DOMAIN world.ref
Real == {"missing", "invalid", "build", "cache", "update", "download"}
Binaries == Real \cup {"none", "editable", "unknown", "skip"}

NodeFields == {"id", "binary", "nonSkip", "prev", "should", "direct", "indirect", "info"}
IsNode(x) ==
  /\ x = [f \in NodeFields |-> x[f]]
  /\ x.binary \in Binaries /\ x.nonSkip \in Binaries \ {"skip"}
  /\ x.prev \in Nat /\ x.should \in BOOLEAN

CallFields == {"step", "node", "own", "id", "mode", "rest"}
IsCall(c) ==
  \/ c = NoCall
  \/ /\ c = [f \in CallFields |-> c[f]]
     /\ c.step \in {"process", "compatible", "handle"} /\ c.node \in present
     /\ c.own \in BOOLEAN

Walks == [left : SUBSET Node, level : SUBSET Node]
Frames == [phase : {"evaluate", "extend"}, set : SUBSET Node, todo : Walks, root : Node]
Stages == {"analyze", "download", "install", "done", "broken", "missing", "invalid", "failed"}

Typed ==
  /\ world \in Worlds /\ world.initial \subseteq present /\ present \subseteq Node
  /\ nodes = [n \in Node |-> nodes[n]] /\ \A n \in Node : IsNode(nodes[n])
  /\ \A k \in DOMAIN facts : facts[k] \in [cache : Nat, remote : Nat, stale : BOOLEAN]
  /\ \A k \in DOMAIN evaluated : evaluated[k] \in present
  /\ \A k \in DOMAIN processed : processed[k] \in Nat
  /\ frames \in Seq(Frames) /\ IsCall(call) /\ todo \in Walks /\ stage \in Stages

-----------------------------------------------------------------------------
(* What a world is.                                                        *)

LEMMA WorldFacts ==
  ASSUME world \in Worlds
  PROVE  /\ Root \in world.initial /\ world.initial \subseteq Node
         /\ \A n \in Node : /\ world.tools[n] \subseteq Node
                            /\ world.tools[n] \cap world.initial = {}
                            /\ \A m \in Node \ {n} : world.tools[n] \cap world.tools[m] = {}
         /\ \A n \in Node \ world.initial : \E m \in Node : n \in world.tools[m]
         /\ \A e \in world.edges : e[1] \in Node /\ e[2] \in Node \ {Root} /\ e[3] \in Kinds
         /\ \A n \in Node : Ref(n) \in Nat
<1> DEFINE w == world
<1>1. /\ 1 \in w.initial /\ w.tools \in [Node -> SUBSET Node]
      /\ w.initial \cup UNION {w.tools[n] : n \in Node} = Node
      /\ \A n \in Node : /\ w.tools[n] \cap w.initial = {}
                         /\ \A m \in Node \ {n} : w.tools[n] \cap w.tools[m] = {}
      /\ w.edges \subseteq Node \X (Node \ {1}) \X Kinds
  BY GraphsAssumption DEF Node
<1>2. \A n \in Node : w.ref[n] \in Nat
  BY WorldsAssumption DEF Node
<1> HIDE DEF w
<1>3. \A n \in Node \ w.initial : \E m \in Node : n \in w.tools[m]
  BY <1>1
<1>4. \A e \in w.edges : e[1] \in Node /\ e[2] \in Node \ {1} /\ e[3] \in Kinds
  BY <1>1
<1> QED
  BY <1>1, <1>2, <1>3, <1>4 DEF w, Root, Ref

LEMMA Acyclic ==
  ASSUME world \in Worlds, NEW S \in SUBSET Node, S # {}
  PROVE  \E n \in S : \A e \in world.edges : e[1] = n => e[2] \notin S
BY GraphsAssumption DEF Node

LEMMA IntoFacts ==
  ASSUME world \in Worlds, NEW n, NEW kinds
  PROVE  /\ Into(n, kinds) \subseteq Node \ {Root}
         /\ \A d : d \in Into(n, kinds) <=>
                     \E e \in world.edges : e[1] = n /\ e[3] \in kinds /\ e[2] = d
BY WorldFacts DEF Into

LEMMA IntoRequires ==
  ASSUME world \in Worlds, NEW n
  PROVE  Into(n, Kinds) = Requires(n) \cup Into(n, {"build"})
BY IntoFacts, WorldFacts DEF Requires, Kinds

LEMMA Tools ==
  ASSUME world \in Worlds, NEW n \in Node
  PROVE  Into(n, {"build"}) \subseteq world.tools[n]
BY IntoFacts, EdgesAssumption

LEMMA RequiresOfInitial ==
  ASSUME world \in Worlds, NEW n \in world.initial
  PROVE  Requires(n) \subseteq world.initial
BY IntoFacts, EdgesAssumption DEF Requires

LEMMA RequiresOfTools ==
  ASSUME world \in Worlds, NEW m \in Node, NEW n \in world.tools[m]
  PROVE  Requires(n) \subseteq world.tools[m] \cup Given(world, m)
BY IntoFacts, EdgesAssumption DEF Requires, Node

LEMMA GivenLeast ==
  ASSUME world \in Worlds, NEW n \in Node, NEW S \in SUBSET Node,
         Requires(n) \subseteq S, \A x \in S : Into(x, {"public"}) \subseteq S
  PROVE  Given(world, n) \subseteq S
<1> DEFINE from == {e[2] : e \in {d \in world.edges : d[1] = n /\ d[3] # "build"}}
           edges == {e \in world.edges : e[3] = "public"}
<1>1. from \subseteq S
  BY IntoFacts, WorldFacts DEF Requires, Kinds
<1>2. \A e \in edges : e[1] \in S => e[2] \in S
  BY IntoFacts
<1>3. Given(world, n) = Reached(Node, from, edges)
  BY DEF Given, Node
<1> QED
  BY <1>1, <1>2, <1>3 DEF Reached

LEMMA ReachedFacts ==
  ASSUME NEW all, NEW from, NEW edges
  PROVE  /\ Reached(all, from, edges) \subseteq all
         /\ from \cap all \subseteq Reached(all, from, edges)
         /\ \A e \in edges : e[1] \in Reached(all, from, edges) /\ e[2] \in all =>
                               e[2] \in Reached(all, from, edges)
         /\ \A S \in SUBSET all :
              from \subseteq S /\ (\A e \in edges : e[1] \in S => e[2] \in S)
                => Reached(all, from, edges) \subseteq S
BY DEF Reached

-----------------------------------------------------------------------------
(* The walks over the graph, and the calls of _recurse_build_requires.     *)

\* What is taken off a walk depends on nothing that is left.
Ordered(walk, set) ==
  /\ walk.level \subseteq walk.left /\ walk.left \subseteq set
  /\ \A n \in (set \ walk.left) \cup walk.level : Into(n, Kinds) \cap walk.left = {}

LEMMA WalkOrdered ==
  ASSUME NEW S \in SUBSET Node
  PROVE  Walk(S) \in Walks /\ Walk(S).left = S /\ Ordered(Walk(S), S)
BY DEF Walk, Level, Ordered, Walks

LEMMA PastOrdered ==
  ASSUME NEW S \in SUBSET Node, NEW walk \in Walks, Ordered(walk, S), NEW n \in walk.level
  PROVE  /\ Past(n, walk) \in Walks /\ Past(n, walk).left = walk.left \ {n}
         /\ Ordered(Past(n, walk), S) /\ n \in S /\ n \in walk.left
         /\ Into(n, Kinds) \cap walk.left = {}
<1> DEFINE left == walk.left \ {n}
<1>1. /\ Past(n, walk).left = left
      /\ Past(n, walk).level = IF walk.level = {n} THEN Level(left) ELSE walk.level \ {n}
      /\ Past(n, walk) \in Walks
  BY DEF Past, Walks, Level, Ordered
<1>2. Ordered(Past(n, walk), S)
  BY <1>1 DEF Ordered, Level
<1> QED
  BY <1>1, <1>2 DEF Ordered

LEMMA TopFacts ==
  ASSUME NEW S, NEW s \in Seq(S), s # <<>>
  PROVE  /\ Len(s) \in Nat \ {0} /\ DOMAIN s = 1..Len(s) /\ Last(s) = s[Len(s)] /\ Last(s) \in S
         /\ Front(s) \in Seq(S) /\ Len(Front(s)) = Len(s) - 1
         /\ DOMAIN Front(s) = 1..(Len(s) - 1)
         /\ \A i \in 1..(Len(s) - 1) : Front(s)[i] = s[i]
<1>1. Len(s) \in Nat \ {0} /\ DOMAIN s = 1..Len(s)
  BY EmptySeq, LenProperties
<1>2. \A i \in 1..Len(s) : s[i] \in S
  BY <1>1, ElementOfSeq
<1>3. Last(s) = s[Len(s)] /\ Last(s) \in S
  BY <1>1, <1>2 DEF Last
<1>4. \A i \in 1..(Len(s) - 1) : s[i] \in S
  BY <1>1, <1>2
<1>5. /\ Front(s) \in Seq(S)
      /\ Len(Front(s)) = IF 1 <= Len(s) - 1 THEN Len(s) - 1 - 1 + 1 ELSE 0
      /\ \A i \in 1..(Len(s) - 1 - 1 + 1) : Front(s)[i] = s[1 + i - 1]
  BY <1>1, <1>4, SubSeqProperties DEF Front
<1> DEFINE n == Len(s)
           front == Front(s)
<1>n. n \in Nat \ {0}
  BY <1>1
<1>f. /\ Len(front) = IF 1 <= n - 1 THEN n - 1 - 1 + 1 ELSE 0
      /\ \A i \in 1..(n - 1 - 1 + 1) : front[i] = s[1 + i - 1]
  BY <1>5
<1>g. front \in Seq(S)
  BY <1>5
<1> HIDE DEF n, front
<1>6. Len(front) = n - 1
  BY <1>n, <1>f
<1>8. DOMAIN front = 1..(n - 1)
  BY <1>6, <1>g, LenProperties
<1>7. ASSUME NEW i \in 1..(n - 1) PROVE front[i] = s[i]
  <2>1. i \in 1..(n - 1 - 1 + 1) /\ 1 + i - 1 = i
    BY <1>n
  <2> QED
    BY <1>f, <2>1
<1> QED
  BY <1>1, <1>3, <1>5, <1>6, <1>7, <1>8 DEF n, front

LEMMA ReplacedTop ==
  ASSUME NEW S, NEW s \in Seq(S), s # <<>>, NEW x \in S
  PROVE  LET t == Append(Front(s), x) IN
         /\ t \in Seq(S) /\ Len(t) = Len(s) /\ DOMAIN t = DOMAIN s /\ t # <<>> /\ Last(t) = x
         /\ t[Len(s)] = x /\ \A i \in DOMAIN s : i # Len(s) => t[i] = s[i]
<1> DEFINE t == Append(Front(s), x)
<1>1. /\ Front(s) \in Seq(S) /\ Len(s) \in Nat \ {0} /\ Len(Front(s)) = Len(s) - 1
      /\ DOMAIN s = 1..Len(s) /\ \A i \in 1..(Len(s) - 1) : Front(s)[i] = s[i]
  BY TopFacts
<1>2. /\ t \in Seq(S) /\ Len(t) = Len(Front(s)) + 1
      /\ \A i \in 1..Len(Front(s)) : t[i] = Front(s)[i]
      /\ t[Len(Front(s)) + 1] = x
  BY <1>1, AppendProperties
<1> HIDE DEF t
<1>3. Len(t) = Len(s) /\ t[Len(s)] = x /\ t # <<>>
  BY <1>1, <1>2, EmptySeq
<1>4. DOMAIN t = DOMAIN s
  BY <1>1, <1>2, <1>3, LenProperties
<1>5. Last(t) = x
  BY <1>3 DEF Last
<1>6. \A i \in DOMAIN s : i # Len(s) => t[i] = s[i]
  <2> SUFFICES ASSUME NEW i \in DOMAIN s, i # Len(s) PROVE t[i] = s[i]
    OBVIOUS
  <2>1. i \in 1..(Len(s) - 1)
    BY <1>1
  <2> QED
    BY <1>1, <1>2, <2>1
<1> QED
  BY <1>2, <1>3, <1>4, <1>5, <1>6 DEF t

LEMMA AddedTop ==
  ASSUME NEW S, NEW s \in Seq(S), NEW x \in S
  PROVE  LET t == Append(s, x) IN
         /\ t \in Seq(S) /\ Len(t) = Len(s) + 1 /\ t # <<>> /\ Last(t) = x /\ Len(s) \in Nat
         /\ DOMAIN t = 1..(Len(s) + 1) /\ DOMAIN s = 1..Len(s)
         /\ t[Len(s) + 1] = x /\ \A i \in DOMAIN s : t[i] = s[i]
BY DEF Last

Opened(frame) == IF frame.phase = "evaluate" THEN frame.set ELSE frame.todo.left
Analyzing == stage = "analyze" /\ Top.phase = "evaluate"
Unevaluated == IF Analyzing THEN Top.todo.left ELSE {}
Marked == IF Analyzing THEN present \ Top.set ELSE present

\* Every call but the last has come to the build requirements of a node, and
\* analyzes a part of the graph of its own.
Stack ==
  /\ stage = "analyze" => frames # <<>>
  /\ \A i \in DOMAIN frames :
       /\ frames[i].set \subseteq present
       /\ Ordered(frames[i].todo, frames[i].set)
       /\ IF i = 1 THEN frames[i].root = Root /\ frames[i].set = world.initial
          ELSE /\ frames[i].root \in present \ frames[i].set
               /\ frames[i].set = world.tools[frames[i].root] /\ frames[i].set # {}
       /\ i < Len(frames) => frames[i].phase = "extend"
       /\ \A j \in DOMAIN frames \ {i} : frames[i].set \cap frames[j].set = {}

\* Build requirements are there of nodes that the walks have passed only.
OpenedLater ==
  \A m \in Node : world.tools[m] \cap present # {} =>
    m \in present /\ \A i \in DOMAIN frames : m \notin Opened(frames[i])

\* What is there, and what of it was marked, has what it requires.
ClosedUp ==
  /\ \A n \in present : Requires(n) \subseteq present
  /\ \A n \in Marked : Requires(n) \subseteq Marked

Calling ==
  call # NoCall =>
    /\ Self # Root
    /\ \/ Analyzing /\ Self \in Top.set \ Top.todo.left
       \/ stage = "install" /\ Self \in todo.level
       \/ stage \in {"broken", "missing"} /\ call.step = "handle"
    /\ call.step = "process" => nodes[Self].binary = "none"
    /\ call.step = "compatible" => nodes[Self].binary \in {"missing", "invalid"}

Todo ==
  /\ stage = "download" => todo.left \subseteq present
  /\ stage \in {"install", "done"} => Ordered(todo, present \ {Root})
  /\ stage = "done" => todo.left = {}

Known ==
  /\ nodes[Root].binary = "none"
  /\ \A n \in Node : n \notin present \/ n \in Unevaluated => nodes[n] = NewNode
  /\ \A n \in present \ {Root} : n \notin Unevaluated /\ nodes[n].binary = "none" =>
       stage = "failed" \/ (call # NoCall /\ call.step = "process" /\ n = Self)
  /\ \A n \in present \ Marked : nodes[n].binary # "skip"
  /\ \A n \in Node : nodes[n].binary = "skip" => nodes[n].nonSkip # "none"

StructureInv == Typed /\ Stack /\ OpenedLater /\ ClosedUp /\ Calling /\ Todo /\ Known

LEMMA NewNodeFacts ==
  IsNode(NewNode) /\ NewNode.binary = "none" /\ NewNode.prev = NoPrev
BY DEF IsNode, NodeFields, NewNode, Binaries, NoPrev

LEMMA StructureInit == Init => StructureInv
<1> SUFFICES ASSUME Init PROVE StructureInv
  OBVIOUS
<1> USE DEF Init
<1>1. world \in Worlds
  OBVIOUS
<1>w. /\ Root \in world.initial /\ world.initial \subseteq Node /\ Root \in Node
      /\ \A n \in Node : world.tools[n] \cap world.initial = {}
  BY <1>1, WorldFacts
<1> DEFINE frame == Frame(world.initial, Root)
<1>2. /\ frame \in Frames /\ frame.set = world.initial /\ frame.phase = "evaluate"
      /\ frame.root = Root /\ frame.todo = Walk(world.initial)
      /\ frame.todo.left = world.initial /\ Ordered(frame.todo, frame.set)
  BY <1>w, WalkOrdered DEF Frame, Frames
<1>3. /\ frames \in Seq(Frames) /\ Len(frames) = 1 /\ DOMAIN frames = 1..1
      /\ frames # <<>> /\ frames[1] = frame /\ Top = frame
  BY <1>2 DEF Top, Last
<1> HIDE DEF frame
<1>4. Typed
  <2>1. \A n \in Node : IsNode(nodes[n]) /\ nodes[n] = NewNode
    BY NewNodeFacts DEF Node
  <2>2. Walk({}) \in Walks
    BY WalkOrdered
  <2>3. IsCall(call)
    BY DEF IsCall
  <2>4. nodes = [n \in Node |-> nodes[n]]
    BY DEF Node
  <2> QED
    BY <2>1, <2>2, <2>3, <2>4, <1>3, <1>w DEF Typed, Stages
<1>5. Analyzing /\ Unevaluated = world.initial /\ Marked = {}
  BY <1>2, <1>3 DEF Analyzing, Unevaluated, Marked
<1>6. Stack
  BY <1>2, <1>3 DEF Stack
<1>7. OpenedLater
  BY <1>w DEF OpenedLater
<1>8. ClosedUp
  BY <1>5, <1>1, RequiresOfInitial DEF ClosedUp
<1>9. Calling /\ Todo
  BY DEF Calling, Todo
<1>10. Known
  BY <1>5, <1>w, NewNodeFacts DEF Known, Node
<1> QED
  BY <1>4, <1>6, <1>7, <1>8, <1>9, <1>10 DEF StructureInv

-----------------------------------------------------------------------------
(* What the steps have in common.                                          *)

\* The world stays as it is, and with it what is said of it alone.
LEMMA Static ==
  ASSUME world' = world
  PROVE  /\ Node' = Node
         /\ \A n, kinds : Into(n, kinds)' = Into(n, kinds)
         /\ \A n : Requires(n)' = Requires(n) /\ Ref(n)' = Ref(n) /\ Config(n)' = Config(n)
         /\ \A walk, set : Ordered(walk, set)' = Ordered(walk, set)
         /\ Walks' = Walks /\ Frames' = Frames
BY DEF Node, Into, Requires, Ref, Config, Ordered, Walks, Frames

\* A step changes what is known of one node.
LEMMA OneNode ==
  ASSUME nodes = [m \in Node |-> nodes[m]], NEW n \in Node, NEW v,
         nodes' = [nodes EXCEPT ![n] = v], world' = world
  PROVE  /\ nodes'[n] = v /\ \A m \in Node : m # n => nodes'[m] = nodes[m]
         /\ nodes' = [m \in Node' |-> nodes'[m]]
<1>1. nodes' = [m \in Node |-> IF m = n THEN v ELSE nodes[m]]
  OBVIOUS
<1>2. Node' = Node
  BY Static
<1> QED
  BY <1>1, <1>2

LEMMA NodeTypes ==
  ASSUME NEW n, IsNode(nodes[n]), Ref(n) \in Nat
  PROVE  /\ IsNode(Transitive(n)) /\ IsNode(Computed(n))
         /\ Transitive(n).binary = nodes[n].binary /\ Transitive(n).prev = nodes[n].prev
         /\ Transitive(n).id = nodes[n].id /\ Transitive(n).nonSkip = nodes[n].nonSkip
         /\ Computed(n).binary = nodes[n].binary /\ Computed(n).prev = nodes[n].prev
         /\ Computed(n).nonSkip = nodes[n].nonSkip
BY DEF IsNode, NodeFields, Transitive, Computed

LEMMA ChangedNode ==
  ASSUME NEW x, IsNode(x)
  PROVE  /\ \A b \in Binaries : IsNode([x EXCEPT !.binary = b])
         /\ \A i : IsNode([x EXCEPT !.id = i])
         /\ \A p \in Nat : IsNode([x EXCEPT !.prev = p])
         /\ \A p \in Nat, b \in Binaries : \A i :
              IsNode([x EXCEPT !.binary = b, !.prev = p, !.id = i])
         /\ \A p \in Nat, b \in Binaries : IsNode([x EXCEPT !.prev = p, !.binary = b])
         /\ \A b \in Binaries, s \in BOOLEAN : IsNode([x EXCEPT !.binary = b, !.should = s])
         /\ \A b \in Binaries \ {"skip"} : IsNode([x EXCEPT !.nonSkip = b, !.binary = "skip"])
<1> USE DEF IsNode, NodeFields, Binaries
<1>1. ASSUME NEW b \in Binaries PROVE IsNode([x EXCEPT !.binary = b])
  OBVIOUS
<1>2. ASSUME NEW i PROVE IsNode([x EXCEPT !.id = i])
  OBVIOUS
<1>3. ASSUME NEW p \in Nat PROVE IsNode([x EXCEPT !.prev = p])
  OBVIOUS
<1>4. ASSUME NEW p \in Nat, NEW b \in Binaries, NEW i
      PROVE  IsNode([x EXCEPT !.binary = b, !.prev = p, !.id = i])
  OBVIOUS
<1>5. ASSUME NEW p \in Nat, NEW b \in Binaries PROVE IsNode([x EXCEPT !.prev = p, !.binary = b])
  OBVIOUS
<1>6. ASSUME NEW b \in Binaries, NEW s \in BOOLEAN
      PROVE  IsNode([x EXCEPT !.binary = b, !.should = s])
  OBVIOUS
<1>7. ASSUME NEW b \in Binaries \ {"skip"} PROVE IsNode([x EXCEPT !.nonSkip = b, !.binary = "skip"])
  OBVIOUS
<1> HIDE DEF IsNode, Binaries
<1> QED
  BY <1>1, <1>2, <1>3, <1>4, <1>5, <1>6, <1>7

\* The call at the top gets further.
LEMMA TopReplaced ==
  ASSUME Typed, Stack, frames # <<>>, NEW x \in Frames, frames' = WithTop(x), world' = world,
         x.set = Top.set, x.root = Top.root, Ordered(x.todo, x.set), present \subseteq present'
  PROVE  /\ Len(frames) \in DOMAIN frames /\ Top = frames[Len(frames)]
         /\ frames' \in Seq(Frames) /\ frames' # <<>> /\ Top' = x
         /\ Len(frames') = Len(frames) /\ DOMAIN frames' = DOMAIN frames
         /\ \A i \in DOMAIN frames : frames'[i] = IF i = Len(frames) THEN x ELSE frames[i]
         /\ Stack'
<1>1. /\ Len(frames) \in DOMAIN frames /\ Top = frames[Len(frames)]
      /\ frames' \in Seq(Frames) /\ frames' # <<>> /\ Top' = x
      /\ Len(frames') = Len(frames) /\ DOMAIN frames' = DOMAIN frames
      /\ \A i \in DOMAIN frames : frames'[i] = IF i = Len(frames) THEN x ELSE frames[i]
  <2>1. /\ Len(frames) \in Nat \ {0} /\ DOMAIN frames = 1..Len(frames)
        /\ Last(frames) = frames[Len(frames)]
    BY TopFacts DEF Typed
  <2>2. frames \in Seq(Frames) /\ frames' = Append(Front(frames), x)
    BY DEF Typed, WithTop
  <2>3. /\ frames' \in Seq(Frames) /\ Len(frames') = Len(frames)
        /\ DOMAIN frames' = DOMAIN frames /\ frames' # <<>> /\ Last(frames') = x
        /\ frames'[Len(frames)] = x
        /\ \A i \in DOMAIN frames : i # Len(frames) => frames'[i] = frames[i]
    BY <2>2, ReplacedTop
  <2> QED
    BY <2>1, <2>3 DEF Top
<1>2. \A i \in DOMAIN frames :
        /\ frames'[i].set = frames[i].set /\ frames'[i].root = frames[i].root
        /\ i < Len(frames) => frames'[i].phase = frames[i].phase
        /\ Ordered(frames'[i].todo, frames'[i].set)
  BY <1>1 DEF Stack
<1>3. Stack'
  BY <1>1, <1>2, Static DEF Stack
<1> QED
  BY <1>1, <1>3

LEMMA TopOf ==
  ASSUME Typed, Stack, frames # <<>>
  PROVE  /\ Len(frames) \in DOMAIN frames /\ Top = frames[Len(frames)] /\ Top \in Frames
         /\ Top.set \subseteq present /\ Ordered(Top.todo, Top.set)
         /\ IF Len(frames) = 1 THEN Top.root = Root /\ Top.set = world.initial
            ELSE /\ Top.root \in present \ Top.set /\ Top.set = world.tools[Top.root]
                 /\ Top.set # {}
         /\ Top.root \in present
<1>1. Len(frames) \in DOMAIN frames /\ Top = frames[Len(frames)] /\ Top \in Frames
  BY TopFacts DEF Typed, Top
<1>2. Root \in present
  BY WorldFacts DEF Typed
<1> QED
  BY <1>1, <1>2 DEF Stack

-----------------------------------------------------------------------------
(* The steps of the analysis of the graph.                                 *)

LEMMA InFacts ==
  ASSUME StructureInv, NEW phase, In(phase)
  PROVE  /\ stage = "analyze" /\ call = NoCall /\ frames # <<>> /\ Top.phase = phase
         /\ phase = "evaluate" => Analyzing /\ Unevaluated = Top.todo.left /\ Marked = present \ Top.set
         /\ phase = "extend" => ~Analyzing /\ Unevaluated = {} /\ Marked = present
BY DEF In, Analyzing, Unevaluated, Marked

LEMMA EvaluateStructure ==
  ASSUME StructureInv, NEW n \in present, Evaluate(n)
  PROVE  StructureInv'
<1> USE DEF StructureInv
<1>1. In("evaluate") /\ n \in Top.todo.level
  BY DEF Evaluate, IsNext
<1> DEFINE x == [Top EXCEPT !.todo = Past(n, @)]
           label == CASE n = Root -> "none"
                      [] n # Root /\ Ref(n) \in world.editable -> "editable"
                      [] OTHER -> IF Computed(n).id = Unknown THEN "unknown" ELSE "none"
           v == [Computed(n) EXCEPT !.binary = label]
<1>2. /\ frames' = WithTop(x) /\ nodes' = [nodes EXCEPT ![n] = v]
      /\ call' = IF label = "none" /\ n # Root THEN Evaluation(n, Computed(n).id) ELSE NoCall
      /\ UNCHANGED <<world, present, facts, evaluated, todo, processed, stage>>
  BY DEF Evaluate
<1>3. /\ stage = "analyze" /\ call = NoCall /\ frames # <<>> /\ Top.phase = "evaluate"
      /\ Analyzing /\ Unevaluated = Top.todo.left /\ Marked = present \ Top.set
  BY <1>1, InFacts
<1>4. /\ Top \in Frames /\ Top.set \subseteq present /\ Ordered(Top.todo, Top.set)
      /\ Top.set \subseteq Node /\ n \in Node /\ world \in Worlds
  BY <1>3, TopOf DEF Typed
<1>5. Top.todo \in Walks
  BY <1>4 DEF Frames
<1>6. /\ Past(n, Top.todo) \in Walks /\ Past(n, Top.todo).left = Top.todo.left \ {n}
      /\ Ordered(Past(n, Top.todo), Top.set) /\ n \in Top.set /\ n \in Top.todo.left
  BY <1>1, <1>4, <1>5, PastOrdered
<1>7. /\ x \in Frames /\ x.set = Top.set /\ x.root = Top.root /\ x.phase = "evaluate"
      /\ x.todo = Past(n, Top.todo)
  BY <1>3, <1>4, <1>6 DEF Frames
<1>8. /\ Len(frames) \in DOMAIN frames /\ Top = frames[Len(frames)]
      /\ frames' \in Seq(Frames) /\ frames' # <<>> /\ Top' = x
      /\ DOMAIN frames' = DOMAIN frames
      /\ \A i \in DOMAIN frames : frames'[i] = IF i = Len(frames) THEN x ELSE frames[i]
      /\ Stack'
  BY <1>2, <1>3, <1>6, <1>7, TopReplaced
<1>9. /\ Analyzing' /\ Unevaluated' = Top.todo.left \ {n} /\ Marked' = Marked
  BY <1>2, <1>3, <1>6, <1>7, <1>8 DEF Analyzing, Unevaluated, Marked
<1>10. label \in {"none", "editable", "unknown"} /\ (label = "none" /\ n # Root => v.binary = "none")
       /\ (n = Root => label = "none")
  OBVIOUS
<1>11. IsNode(nodes[n]) /\ Ref(n) \in Nat
  BY <1>4, WorldFacts DEF Typed
<1>12. IsNode(v) /\ v.binary = label
  <2>1. IsNode(Computed(n))
    BY <1>11, NodeTypes
  <2>2. IsNode(v)
    BY <1>10, <2>1, ChangedNode DEF Binaries
  <2> QED
    BY <2>1, <2>2 DEF IsNode, NodeFields
<1> HIDE DEF v, label, x
<1>13. /\ nodes'[n] = v /\ \A m \in Node : m # n => nodes'[m] = nodes[m]
       /\ nodes' = [m \in Node' |-> nodes'[m]]
  BY <1>2, <1>4, OneNode DEF Typed
<1>14. Node' = Node /\ Walks' = Walks /\ Frames' = Frames
  BY <1>2, Static
<1>15. /\ IsCall(call)'
       /\ call' # NoCall => /\ Self' = n /\ call'.step = "process" /\ n # Root /\ label = "none"
  <2>1. CASE label = "none" /\ n # Root
    BY <1>2, <2>1 DEF IsCall, CallFields, Evaluation, Self
  <2>2. CASE ~(label = "none" /\ n # Root)
    BY <1>2, <2>2 DEF IsCall
  <2> QED
    BY <2>1, <2>2
<1>16. Typed'
  BY <1>2, <1>8, <1>12, <1>13, <1>14, <1>15 DEF Typed
<1>17. OpenedLater'
  BY <1>2, <1>3, <1>7, <1>8, <1>14 DEF OpenedLater, Opened
<1>18. ClosedUp'
  BY <1>2, <1>9, Static DEF ClosedUp
<1>19. Calling'
  BY <1>6, <1>7, <1>8, <1>9, <1>12, <1>13, <1>15 DEF Calling
<1>20. Todo'
  BY <1>2, <1>3 DEF Todo
<1>21. Known'
  <2>1. nodes'[Root].binary = "none"
    BY <1>4, <1>10, <1>12, <1>13, WorldFacts DEF Known
  <2>2. \A m \in Node : m \notin present \/ m \in Unevaluated' => nodes'[m] = NewNode
    BY <1>3, <1>9, <1>13 DEF Known
  <2>3. \A m \in present \ {Root} : m \notin Unevaluated' /\ nodes'[m].binary = "none" =>
          call' # NoCall /\ call'.step = "process" /\ m = Self'
    <3> SUFFICES ASSUME NEW m \in present \ {Root}, m \notin Unevaluated', nodes'[m].binary = "none"
                 PROVE  call' # NoCall /\ call'.step = "process" /\ m = Self'
      OBVIOUS
    <3>1. CASE m = n
      BY <1>2, <1>12, <1>13, <3>1 DEF Evaluation, Self, NoCall
    <3>2. CASE m # n
      BY <1>3, <1>9, <1>13, <3>2 DEF Known, Typed
    <3> QED
      BY <3>1, <3>2
  <2>4. \A m \in present \ Marked : nodes'[m].binary # "skip"
    BY <1>10, <1>12, <1>13 DEF Known, Typed
  <2>5. \A m \in Node : nodes'[m].binary = "skip" => nodes'[m].nonSkip # "none"
    BY <1>10, <1>12, <1>13 DEF Known
  <2> QED
    BY <1>2, <1>9, <1>14, <2>1, <2>2, <2>3, <2>4, <2>5 DEF Known
<1> QED
  BY <1>8, <1>16, <1>17, <1>18, <1>19, <1>20, <1>21

\* What is still needed when what is there already is not followed.
Followed ==
  {e \in world.edges : {e[1], e[2]} \subseteq present /\ (e[3] = "private" => ~SkipsPrivate(e[1]))}
Public == Reached(present, {Top.root}, Followed)

LEMMA Marking ==
  ASSUME StructureInv, MarkPrivateSkippable
  PROVE  /\ In("evaluate") /\ Top.todo.left = {} /\ Top \in Frames /\ Top.set \subseteq present
         /\ frames' = WithTop([Top EXCEPT !.phase = "extend", !.todo = Walk(Top.set)])
         /\ UNCHANGED <<world, present, facts, evaluated, call, todo, processed, stage>>
         /\ nodes' = [n \in Node |-> nodes'[n]]
         /\ \A n \in Node :
              IF n \in Top.set \ Public
              THEN /\ nodes'[n] = [nodes[n] EXCEPT !.nonSkip = nodes[n].binary, !.binary = "skip"]
                   /\ nodes'[n].binary = "skip" /\ nodes'[n].nonSkip = nodes[n].binary
                   /\ nodes[n].binary \in Binaries \ {"skip", "none"}
                   /\ nodes'[n].id = nodes[n].id /\ nodes'[n].prev = nodes[n].prev
                   /\ nodes'[n].direct = nodes[n].direct /\ nodes'[n].indirect = nodes[n].indirect
              ELSE nodes'[n] = nodes[n]
<1> USE DEF StructureInv
<1>1. /\ In("evaluate") /\ Top.todo.left = {}
      /\ frames' = WithTop([Top EXCEPT !.phase = "extend", !.todo = Walk(Top.set)])
      /\ UNCHANGED <<world, present, facts, evaluated, call, todo, processed, stage>>
      /\ nodes' = [n \in DOMAIN nodes |->
                     IF n \in Top.set \ Public
                     THEN [nodes[n] EXCEPT !.nonSkip = nodes[n].binary, !.binary = "skip"]
                     ELSE nodes[n]]
  BY DEF MarkPrivateSkippable, Public, Followed
<1>2. DOMAIN nodes = Node
  BY DEF Typed
<1>3. /\ stage = "analyze" /\ call = NoCall /\ frames # <<>>
      /\ Unevaluated = {} /\ Marked = present \ Top.set
  BY <1>1, InFacts
<1>4. /\ Top \in Frames /\ Top.set \subseteq present /\ Top.root \in present
      /\ Root \notin Top.set \ {Top.root}
  <2>1. world \in Worlds /\ Len(frames) \in DOMAIN frames
    BY <1>3, TopOf DEF Typed
  <2>2. CASE Len(frames) = 1
    BY <1>3, <2>2, TopOf
  <2>3. CASE Len(frames) # 1
    <3>1. Top.set = world.tools[Top.root] /\ Top.root \in Node
      BY <1>3, <2>3, TopOf DEF Typed
    <3>2. Root \in world.initial
      BY <2>1, WorldFacts
    <3> QED
      BY <1>3, <2>1, <3>1, <3>2, TopOf, WorldFacts
  <2> QED
    BY <1>3, <2>2, <2>3, TopOf
<1>5. Top.root \in Public
  BY <1>4, ReachedFacts DEF Public
<1>6. \A n \in Top.set \ Public : nodes[n].binary \in Binaries \ {"skip", "none"}
  <2> SUFFICES ASSUME NEW n \in Top.set \ Public PROVE nodes[n].binary \in Binaries \ {"skip", "none"}
    OBVIOUS
  <2>1. n \in present \ Marked /\ n \in present \ {Root} /\ n \in Node
    BY <1>3, <1>4, <1>5 DEF Typed
  <2>2. nodes[n].binary # "none" /\ nodes[n].binary # "skip"
    BY <1>3, <2>1 DEF Known
  <2> QED
    BY <2>1, <2>2 DEF Typed, IsNode
<1>7. \A n \in Node : nodes'[n] = IF n \in Top.set \ Public
                     THEN [nodes[n] EXCEPT !.nonSkip = nodes[n].binary, !.binary = "skip"]
                     ELSE nodes[n]
  BY <1>1, <1>2
<1>8. nodes' = [n \in Node |-> nodes'[n]]
  BY <1>1, <1>2
<1>9. ASSUME NEW n \in Node, n \in Top.set \ Public
      PROVE  /\ nodes'[n].binary = "skip" /\ nodes'[n].nonSkip = nodes[n].binary
             /\ nodes'[n].id = nodes[n].id /\ nodes'[n].prev = nodes[n].prev
             /\ nodes'[n].direct = nodes[n].direct /\ nodes'[n].indirect = nodes[n].indirect
  <2>1. IsNode(nodes[n])
    BY DEF Typed
  <2> QED
    BY <1>7, <1>9, <2>1 DEF IsNode, NodeFields
<1> QED
  BY <1>1, <1>4, <1>6, <1>7, <1>8, <1>9

LEMMA MarkStructure ==
  ASSUME StructureInv, MarkPrivateSkippable
  PROVE  StructureInv'
<1> USE DEF StructureInv
<1> DEFINE x == [Top EXCEPT !.phase = "extend", !.todo = Walk(Top.set)]
<1>1. /\ In("evaluate") /\ Top.todo.left = {} /\ Top \in Frames /\ Top.set \subseteq present
      /\ frames' = WithTop(x) /\ nodes' = [n \in Node |-> nodes'[n]]
      /\ UNCHANGED <<world, present, facts, evaluated, call, todo, processed, stage>>
  BY Marking
<1>2. /\ stage = "analyze" /\ call = NoCall /\ frames # <<>> /\ Top.phase = "evaluate"
      /\ Unevaluated = {} /\ Marked = present \ Top.set
  BY <1>1, InFacts
<1>3. /\ Walk(Top.set) \in Walks /\ Walk(Top.set).left = Top.set /\ Ordered(Walk(Top.set), Top.set)
      /\ Top.set \in SUBSET Node
  BY <1>1, WalkOrdered DEF Typed
<1>4. /\ x \in Frames /\ x.set = Top.set /\ x.root = Top.root /\ x.phase = "extend"
      /\ x.todo = Walk(Top.set)
  BY <1>1, <1>3 DEF Frames
<1>5. /\ Len(frames) \in DOMAIN frames /\ Top = frames[Len(frames)]
      /\ frames' \in Seq(Frames) /\ frames' # <<>> /\ Top' = x
      /\ DOMAIN frames' = DOMAIN frames
      /\ \A i \in DOMAIN frames : frames'[i] = IF i = Len(frames) THEN x ELSE frames[i]
      /\ Stack'
  BY <1>1, <1>2, <1>3, <1>4, TopReplaced
<1>6. ~Analyzing' /\ Unevaluated' = {} /\ Marked' = present
  BY <1>1, <1>4, <1>5 DEF Analyzing, Unevaluated, Marked
<1> HIDE DEF x
<1>7. Node' = Node /\ Walks' = Walks /\ Frames' = Frames
  BY <1>1, Static
<1>8. \A n \in Node :
        /\ IsNode(nodes'[n])
        /\ nodes'[n] = nodes[n] \/ (nodes'[n].binary = "skip" /\ nodes'[n].nonSkip # "none")
        /\ n \notin present => nodes'[n] = nodes[n]
        /\ n = Root => nodes'[n] = nodes[n]
  <2> SUFFICES ASSUME NEW n \in Node
               PROVE  /\ IsNode(nodes'[n])
                      /\ nodes'[n] = nodes[n] \/ (nodes'[n].binary = "skip" /\ nodes'[n].nonSkip # "none")
                      /\ n \notin present => nodes'[n] = nodes[n]
                      /\ n = Root => nodes'[n] = nodes[n]
    OBVIOUS
  <2>1. IsNode(nodes[n])
    BY DEF Typed
  <2>2. CASE n \in Top.set \ Public
    <3>1. nodes[n].binary \in Binaries \ {"skip", "none"}
      BY <2>2, Marking
    <3>2. nodes'[n] = [nodes[n] EXCEPT !.nonSkip = nodes[n].binary, !.binary = "skip"]
      BY <2>2, Marking
    <3>3. IsNode(nodes'[n])
      <4>1. nodes[n].binary \in Binaries \ {"skip"}
        BY <3>1
      <4>2. IsNode([nodes[n] EXCEPT !.nonSkip = nodes[n].binary, !.binary = "skip"])
        BY <2>1, <4>1, ChangedNode
      <4> QED
        BY <3>2, <4>2
    <3>4. nodes'[n].binary = "skip" /\ nodes'[n].nonSkip = nodes[n].binary
      BY <2>2, Marking
    <3> QED
      BY <1>1, <2>2, <3>1, <3>3, <3>4 DEF Known
  <2>3. CASE ~(n \in Top.set \ Public)
    <3>1. nodes'[n] = nodes[n]
      BY <2>3, Marking
    <3> QED
      BY <2>1, <3>1
  <2> QED
    BY <2>2, <2>3
<1>9. Typed'
  BY <1>1, <1>5, <1>7, <1>8 DEF Typed, IsCall
<1>10. OpenedLater'
  BY <1>1, <1>2, <1>3, <1>4, <1>5, <1>7 DEF OpenedLater, Opened
<1>11. ClosedUp'
  BY <1>1, <1>6, Static DEF ClosedUp
<1>12. Calling' /\ Todo'
  BY <1>1, <1>2 DEF Calling, Todo
<1>13. Known'
  <2>1. nodes'[Root].binary = "none"
    BY <1>8, WorldFacts DEF Known, Typed
  <2>2. \A m \in Node : m \notin present \/ m \in Unevaluated' => nodes'[m] = NewNode
    BY <1>6, <1>8 DEF Known
  <2>3. \A m \in present \ {Root} : nodes'[m].binary # "none"
    BY <1>2, <1>8 DEF Known, Typed
  <2>4. \A m \in Node : nodes'[m].binary = "skip" => nodes'[m].nonSkip # "none"
    BY <1>8 DEF Known
  <2> QED
    BY <1>1, <1>6, <1>7, <2>1, <2>2, <2>3, <2>4 DEF Known
<1> QED
  BY <1>5, <1>9, <1>10, <1>11, <1>12, <1>13

LEMMA RecurseStructure ==
  ASSUME StructureInv, NEW n \in present, RecurseBuildRequires(n)
  PROVE  StructureInv'
<1> USE DEF StructureInv
<1> DEFINE x == [Top EXCEPT !.todo = Past(n, @)]
           tools == IF nodes[n].binary \in {"build", "editable", "unknown"} \/ n = Root
                    THEN world.tools[n] ELSE {}
           frame == Frame(tools, n)
           rest == WithTop(x)
<1>1. /\ In("extend") /\ n \in Top.todo.level /\ present' = present \cup tools
      /\ frames' = IF tools = {} THEN WithTop(x) ELSE Append(WithTop(x), frame)
      /\ UNCHANGED <<world, nodes, facts, evaluated, call, todo, processed, stage>>
  BY DEF RecurseBuildRequires, IsNext
<1>2. /\ stage = "analyze" /\ call = NoCall /\ frames # <<>> /\ Top.phase = "extend"
      /\ Unevaluated = {} /\ Marked = present
  BY <1>1, InFacts
<1>3. /\ Top \in Frames /\ Top.set \subseteq present /\ Ordered(Top.todo, Top.set)
      /\ Top.set \subseteq Node /\ n \in Node /\ world \in Worlds /\ present \subseteq Node
  BY <1>2, TopOf DEF Typed
<1>4. Top.todo \in Walks
  BY <1>3 DEF Frames
<1>5. /\ Past(n, Top.todo) \in Walks /\ Past(n, Top.todo).left = Top.todo.left \ {n}
      /\ Ordered(Past(n, Top.todo), Top.set) /\ n \in Top.set /\ n \in Top.todo.left
  BY <1>1, <1>3, <1>4, PastOrdered
<1>6. /\ x \in Frames /\ x.set = Top.set /\ x.root = Top.root /\ x.phase = "extend"
      /\ x.todo = Past(n, Top.todo)
  BY <1>2, <1>3, <1>5 DEF Frames
<1>7. Len(frames) \in DOMAIN frames /\ Top = frames[Len(frames)] /\ DOMAIN frames = 1..Len(frames)
      /\ Len(frames) \in Nat \ {0}
  BY <1>2, TopOf, TopFacts DEF Typed
<1>8. \A i \in DOMAIN frames : i # Len(frames) => n \notin frames[i].set
  BY <1>5, <1>7 DEF Stack
<1>9. Node' = Node /\ Walks' = Walks /\ Frames' = Frames
  BY <1>1, Static
<1>10. tools \subseteq Node /\ (tools = {} \/ tools = world.tools[n]) /\ tools \cap present = {}
  <2>1. world.tools[n] \cap present = {}
    BY <1>2, <1>3, <1>5, <1>7 DEF OpenedLater, Opened
  <2>2. world.tools[n] \subseteq Node
    BY <1>3, WorldFacts
  <2> QED
    BY <2>1, <2>2
<1> HIDE DEF tools, x
<1>t. Typed' <=> frames' \in Seq(Frames)
  BY <1>1, <1>2, <1>3, <1>9, <1>10 DEF Typed, IsCall
<1>11. CASE tools = {}
  <2>1. present' = present /\ frames' = WithTop(x)
    BY <1>1, <1>11
  <2>2. /\ frames' \in Seq(Frames) /\ frames' # <<>> /\ Top' = x
        /\ DOMAIN frames' = DOMAIN frames
        /\ \A i \in DOMAIN frames : frames'[i] = IF i = Len(frames) THEN x ELSE frames[i]
        /\ Stack'
    BY <1>1, <1>2, <1>5, <1>6, <2>1, TopReplaced
  <2>3. ~Analyzing' /\ Unevaluated' = {} /\ Marked' = present
    BY <1>6, <2>1, <2>2 DEF Analyzing, Unevaluated, Marked
  <2>4. OpenedLater'
    BY <1>1, <1>2, <1>5, <1>6, <1>7, <1>9, <2>1, <2>2 DEF OpenedLater, Opened
  <2>5. ClosedUp'
    BY <1>1, <2>1, <2>3, Static DEF ClosedUp
  <2>6. Calling' /\ Todo'
    BY <1>1, <1>2 DEF Calling, Todo
  <2>7. Known'
    BY <1>1, <1>2, <1>9, <2>1, <2>3 DEF Known
  <2> QED
    BY <1>t, <2>2, <2>4, <2>5, <2>6, <2>7
<1>12. CASE tools # {}
  <2>1. tools = world.tools[n] /\ frames' = Append(WithTop(x), frame)
    BY <1>1, <1>10, <1>12
  <2>2. /\ frame \in Frames /\ frame.set = tools /\ frame.phase = "evaluate"
        /\ frame.root = n /\ frame.todo = Walk(tools) /\ frame.todo.left = tools
        /\ Ordered(frame.todo, frame.set)
    BY <1>3, <1>10, WalkOrdered DEF Frame, Frames
  <2>3. /\ rest \in Seq(Frames) /\ Len(rest) = Len(frames) /\ DOMAIN rest = DOMAIN frames
        /\ rest[Len(frames)] = x /\ \A i \in DOMAIN frames : i # Len(frames) => rest[i] = frames[i]
    BY <1>2, <1>6, ReplacedTop DEF Typed, WithTop
  <2> HIDE DEF rest, frame
  <2>4. /\ frames' \in Seq(Frames) /\ Len(frames') = Len(frames) + 1 /\ frames' # <<>>
        /\ Top' = frame /\ DOMAIN frames' = 1..(Len(frames) + 1)
        /\ frames'[Len(frames) + 1] = frame
        /\ \A i \in DOMAIN frames : frames'[i] = rest[i]
    BY <2>1, <2>2, <2>3, AddedTop DEF Top, rest
  <2>5. DOMAIN frames' = DOMAIN frames \cup {Len(frames) + 1} /\ Len(frames) + 1 \notin DOMAIN frames
    BY <1>7, <2>4
  <2>6. \A i \in DOMAIN frames : frames'[i] = IF i = Len(frames) THEN x ELSE frames[i]
    BY <1>7, <2>3, <2>4
  <2>7. \A i \in DOMAIN frames :
          /\ frames'[i].set = frames[i].set /\ frames'[i].root = frames[i].root
          /\ frames'[i].phase = "extend" /\ Ordered(frames'[i].todo, frames'[i].set)
          /\ frames'[i].set \subseteq present
    <3> SUFFICES ASSUME NEW i \in DOMAIN frames
                 PROVE  /\ frames'[i].set = frames[i].set /\ frames'[i].root = frames[i].root
                        /\ frames'[i].phase = "extend" /\ Ordered(frames'[i].todo, frames'[i].set)
                        /\ frames'[i].set \subseteq present
      OBVIOUS
    <3>1. CASE i = Len(frames)
      BY <1>3, <1>5, <1>6, <1>7, <2>6, <3>1
    <3>2. CASE i # Len(frames)
      BY <1>7, <2>6, <3>2 DEF Stack
    <3> QED
      BY <3>1, <3>2
  <2>8. Stack'
    <3> SUFFICES ASSUME NEW i \in DOMAIN frames'
                 PROVE  /\ frames'[i].set \subseteq present'
                        /\ Ordered(frames'[i].todo, frames'[i].set)
                        /\ IF i = 1 THEN frames'[i].root = Root /\ frames'[i].set = world'.initial
                           ELSE /\ frames'[i].root \in present' \ frames'[i].set
                                /\ frames'[i].set = world'.tools[frames'[i].root]
                                /\ frames'[i].set # {}
                        /\ i < Len(frames') => frames'[i].phase = "extend"
                        /\ \A j \in DOMAIN frames' \ {i} : frames'[i].set \cap frames'[j].set = {}
      BY <1>1, <2>4, Static DEF Stack
    <3>1. \A j \in DOMAIN frames : frames'[j].set \cap tools = {}
      BY <1>10, <2>7
    <3>2. CASE i \in DOMAIN frames
      BY <1>1, <2>2, <2>4, <2>5, <2>7, <3>1, <3>2, Static DEF Stack
    <3>3. CASE i = Len(frames) + 1
      BY <1>1, <1>3, <1>7, <1>10, <1>12, <2>1, <2>2, <2>4, <2>5, <3>1, <3>3, Static
    <3> QED
      BY <2>5, <3>2, <3>3
  <2>9. Analyzing' /\ Unevaluated' = tools /\ Marked' = present
    BY <1>1, <1>2, <1>10, <2>2, <2>4 DEF Analyzing, Unevaluated, Marked
  <2>10. OpenedLater'
    <3> SUFFICES ASSUME NEW m \in Node, world.tools[m] \cap present' # {}
                 PROVE  m \in present' /\ \A i \in DOMAIN frames' : m \notin Opened(frames'[i])
      BY <1>1, <1>9 DEF OpenedLater, Opened
    <3>1. CASE m = n
      <4>1. n \in present /\ n \notin tools
        BY <1>3, <1>5, <1>10
      <4>2. \A i \in DOMAIN frames : n \notin Opened(frames'[i])
        <5> SUFFICES ASSUME NEW i \in DOMAIN frames PROVE n \notin Opened(frames'[i])
          OBVIOUS
        <5>1. CASE i = Len(frames)
          BY <1>5, <1>6, <2>6, <5>1 DEF Opened
        <5>2. CASE i # Len(frames)
          BY <1>8, <2>6, <2>7, <5>2 DEF Opened, Ordered
        <5> QED
          BY <5>1, <5>2
      <4> QED
        BY <1>1, <2>2, <2>4, <2>5, <3>1, <4>1, <4>2 DEF Opened
    <3>2. CASE m # n
      <4>1. world.tools[m] \cap tools = {}
        BY <1>3, <2>1, <3>2, WorldFacts
      <4>2. world.tools[m] \cap present # {}
        BY <1>1, <4>1
      <4>3. m \in present /\ \A i \in DOMAIN frames : m \notin Opened(frames[i])
        BY <4>2 DEF OpenedLater
      <4>4. \A i \in DOMAIN frames : m \notin Opened(frames'[i])
        BY <1>2, <1>5, <1>6, <1>7, <2>6, <4>3 DEF Opened
      <4>5. m \notin tools
        BY <1>10, <4>3
      <4> QED
        BY <1>1, <2>2, <2>4, <2>5, <4>3, <4>4, <4>5 DEF Opened
    <3> QED
      BY <3>1, <3>2
  <2>11. ClosedUp'
    <3>1. Given(world, n) \subseteq present
      <4>1. \A m \in present : Into(m, {"public"}) \subseteq present
        BY <1>3, IntoFacts DEF ClosedUp, Requires
      <4> QED
        BY <1>3, <4>1, GivenLeast DEF ClosedUp
    <3>2. \A m \in tools : Requires(m) \subseteq present'
      BY <1>1, <1>3, <2>1, <3>1, RequiresOfTools
    <3>3. \A m \in present : Requires(m) \subseteq present
      BY DEF ClosedUp
    <3> QED
      BY <1>1, <2>9, <3>2, <3>3, Static DEF ClosedUp
  <2>12. Calling' /\ Todo'
    BY <1>1, <1>2 DEF Calling, Todo
  <2>13. Known'
    <3>1. \A m \in tools : nodes[m] = NewNode
      BY <1>10 DEF Known
    <3> QED
      BY <1>1, <1>2, <1>9, <2>9, <3>1, NewNodeFacts DEF Known
  <2> QED
    BY <1>t, <2>4, <2>8, <2>10, <2>11, <2>12, <2>13
<1> QED
  BY <1>11, <1>12

LEMMA ClassifyStructure ==
  ASSUME StructureInv, Classify
  PROVE  StructureInv'
<1> USE DEF StructureInv
<1>1. /\ In("extend") /\ Top.todo.left = {} /\ frames' = Front(frames)
      /\ UNCHANGED <<world, present, nodes, facts, evaluated, call, processed>>
      /\ IF Len(frames) > 1 THEN stage' = stage /\ todo' = todo
         ELSE /\ stage' \in {"invalid", "missing", "download"}
              /\ \E set \in SUBSET present : todo' = AtOnce(set)
  BY DEF Classify
<1>2. /\ stage = "analyze" /\ call = NoCall /\ frames # <<>>
      /\ Unevaluated = {} /\ Marked = present
  BY <1>1, InFacts
<1>3. /\ Len(frames) \in Nat \ {0} /\ DOMAIN frames = 1..Len(frames)
      /\ frames' \in Seq(Frames) /\ Len(frames') = Len(frames) - 1
      /\ DOMAIN frames' = 1..(Len(frames) - 1)
      /\ \A i \in 1..(Len(frames) - 1) : frames'[i] = frames[i]
  BY <1>1, <1>2, TopFacts DEF Typed
<1>4. Node' = Node /\ Walks' = Walks /\ Frames' = Frames
  BY <1>1, Static
<1>5. Typed'
  <2>1. todo' \in Walks
    BY <1>1 DEF Typed, AtOnce, Walks
  <2> QED
    BY <1>1, <1>2, <1>3, <1>4, <2>1 DEF Typed, IsCall, Stages
<1>6. DOMAIN frames' \subseteq DOMAIN frames /\ \A i \in DOMAIN frames' : frames'[i] = frames[i] /\ i < Len(frames)
  BY <1>3
<1>7. OpenedLater'
  BY <1>1, <1>4, <1>6 DEF OpenedLater, Opened
<1>8. stage' = "analyze" => /\ frames' # <<>> /\ Top' = frames[Len(frames) - 1]
                            /\ Len(frames) - 1 \in DOMAIN frames /\ Len(frames) - 1 < Len(frames)
  <2> SUFFICES ASSUME stage' = "analyze"
               PROVE  /\ frames' # <<>> /\ Top' = frames[Len(frames) - 1]
                      /\ Len(frames) - 1 \in DOMAIN frames /\ Len(frames) - 1 < Len(frames)
    OBVIOUS
  <2>1. Len(frames) > 1
    BY <1>1
  <2>2. frames' # <<>>
    BY <1>3, <2>1, EmptySeq
  <2>3. Top' = frames'[Len(frames')]
    BY DEF Top, Last
  <2> QED
    BY <1>3, <2>1, <2>2, <2>3
<1>9. stage' = "analyze" => Top'.phase = "extend"
  BY <1>8 DEF Stack
<1>10. ~Analyzing' /\ Unevaluated' = {} /\ Marked' = present
  BY <1>1, <1>9 DEF Analyzing, Unevaluated, Marked
<1>11. Stack'
  <2>1. \A i \in DOMAIN frames' : i < Len(frames') => i < Len(frames)
    BY <1>6
  <2> QED
    BY <1>1, <1>6, <1>8, <2>1, Static DEF Stack
<1>12. ClosedUp'
  BY <1>1, <1>10, Static DEF ClosedUp
<1>13. Calling' /\ Todo'
  <2>1. call' = NoCall
    BY <1>1, <1>2
  <2>2. stage' = "download" => todo'.left \subseteq present
    BY <1>1, <1>2 DEF AtOnce
  <2> QED
    BY <1>1, <1>2, <2>1, <2>2 DEF Calling, Todo
<1>14. Known'
  BY <1>1, <1>2, <1>4, <1>10 DEF Known
<1> QED
  BY <1>5, <1>7, <1>11, <1>12, <1>13, <1>14

-----------------------------------------------------------------------------
(* The steps of _evaluate_node.                                            *)

LEMMA CallFacts ==
  ASSUME StructureInv, call # NoCall
  PROVE  /\ call = [f \in CallFields |-> call[f]] /\ call.step \in {"process", "compatible", "handle"}
         /\ Self \in present /\ Self \in Node /\ Self # Root /\ IsNode(nodes[Self])
         /\ Self \notin Unevaluated /\ Ref(Self) \in Nat
         /\ stage \in {"analyze", "install"} \/ call.step = "handle"
         /\ nodes[Self].binary = "none" <=> call.step = "process"
<1>1. /\ call = [f \in CallFields |-> call[f]] /\ call.step \in {"process", "compatible", "handle"}
      /\ Self \in present
  BY DEF StructureInv, Typed, IsCall, Self
<1>2. Self \in Node /\ IsNode(nodes[Self]) /\ world \in Worlds
  BY <1>1 DEF StructureInv, Typed
<1>3. Self # Root /\ (stage \in {"analyze", "install"} \/ call.step = "handle")
  BY <1>1 DEF StructureInv, Calling, Analyzing
<1>4. Self \notin Unevaluated
  BY <1>1 DEF StructureInv, Calling, Unevaluated, Analyzing
<1>5. stage # "failed"
  BY DEF StructureInv, Calling, Analyzing
<1>6. nodes[Self].binary = "none" <=> call.step = "process"
  BY <1>1, <1>3, <1>4, <1>5 DEF StructureInv, Known, Calling
<1>7. Ref(Self) \in Nat
  BY <1>2, WorldFacts
<1> QED
  BY <1>1, <1>2, <1>3, <1>4, <1>6, <1>7

\* A step that goes on with a call.
CallOn(v) ==
  /\ nodes' = [nodes EXCEPT ![Self] = v] /\ IsNode(v) /\ v.binary # "skip"
  /\ IsCall(call)' /\ call' # NoCall /\ Self' = Self
  /\ v.binary = "none" <=> call'.step = "process"
  /\ call'.step = "compatible" => v.binary \in {"missing", "invalid"}
  /\ UNCHANGED <<world, present, frames, todo, processed, stage>>

LEMMA CallStructure ==
  ASSUME StructureInv, call # NoCall, call.step # "handle", NEW v, CallOn(v),
         \A k \in DOMAIN facts' : facts'[k] \in [cache : Nat, remote : Nat, stale : BOOLEAN],
         \A k \in DOMAIN evaluated' : evaluated'[k] \in present
  PROVE  StructureInv'
<1> USE DEF StructureInv, CallOn
<1>1. /\ Self \in present /\ Self \in Node /\ Self # Root /\ Self \notin Unevaluated
      /\ stage \in {"analyze", "install"}
  BY CallFacts
<1>2. /\ nodes'[Self] = v /\ \A m \in Node : m # Self => nodes'[m] = nodes[m]
      /\ nodes' = [m \in Node' |-> nodes'[m]]
  BY <1>1, OneNode DEF Typed
<1>3. Node' = Node /\ Walks' = Walks /\ Frames' = Frames
  BY Static
<1>4. (Analyzing' <=> Analyzing) /\ Unevaluated' = Unevaluated /\ Marked' = Marked /\ Top' = Top
  BY DEF Analyzing, Unevaluated, Marked, Top
<1>5. Typed'
  BY <1>1, <1>2, <1>3 DEF Typed
<1>6. Stack'
  BY Static DEF Stack
<1>7. OpenedLater'
  BY <1>3 DEF OpenedLater, Opened
<1>8. ClosedUp'
  BY <1>4, Static DEF ClosedUp
<1>9. Todo'
  BY Static DEF Todo
<1>10. Calling'
  BY <1>1, <1>2, <1>4 DEF Calling
<1>11. Known'
  <2>1. nodes'[Root].binary = "none"
    BY <1>1, <1>2, WorldFacts DEF Known, Typed
  <2>2. \A n \in Node : n \notin present \/ n \in Unevaluated => nodes'[n] = NewNode
    BY <1>1, <1>2 DEF Known
  <2>3. \A n \in present \ {Root} : n \notin Unevaluated /\ nodes'[n].binary = "none" =>
          call'.step = "process" /\ n = Self
    BY <1>1, <1>2 DEF Known, Typed
  <2>4. \A n \in present \ Marked : nodes'[n].binary # "skip"
    BY <1>2 DEF Known, Typed
  <2>5. \A n \in Node : nodes'[n].binary = "skip" => nodes'[n].nonSkip # "none"
    BY <1>2 DEF Known
  <2> QED
    BY <1>3, <1>4, <2>1, <2>2, <2>3, <2>4, <2>5 DEF Known
<1> QED
  BY <1>5, <1>6, <1>7, <1>8, <1>9, <1>10, <1>11

LEMMA Settled ==
  ASSUME StructureInv, Processing, NEW node, IsNode(node), node.binary \notin {"none", "skip"},
         Settle(node)
  PROVE  \E v : CallOn(v)
<1>1. call # NoCall
  BY DEF Processing, NoCall
<1>2. call = [f \in CallFields |-> call[f]] /\ Self \in present
  BY <1>1, CallFacts
<1> DEFINE stop == IF call.own THEN node.binary \notin {"missing", "invalid"} \/ node.should
                   ELSE node.binary # "missing"
           v == IF stop /\ ~call.own THEN [node EXCEPT !.id = call.id] ELSE node
<1>3. /\ nodes' = [nodes EXCEPT ![Self] = v]
      /\ call' = [call EXCEPT !.step = IF ~stop THEN "compatible" ELSE "handle"]
      /\ UNCHANGED <<world, present, frames, todo, processed, stage>>
  BY DEF Settle
<1> HIDE DEF stop
<1>4. IsNode(v) /\ v.binary = node.binary
  BY ChangedNode DEF IsNode, NodeFields
<1>8. call'.step = "compatible" => v.binary \in {"missing", "invalid"}
  BY <1>2, <1>3, <1>4 DEF CallFields, stop
<1> HIDE DEF v
<1>5. /\ call' = [f \in CallFields |-> call'[f]] /\ call'.step \in {"compatible", "handle"}
      /\ Self' = Self /\ call'.own = call.own /\ call'.node = call.node
  BY <1>2, <1>3 DEF CallFields, Self
<1>6. call.own \in BOOLEAN /\ call.node \in present
  BY <1>1 DEF StructureInv, Typed, IsCall
<1>7. IsCall(call)' /\ call' # NoCall /\ call'.step # "process"
  BY <1>3, <1>5, <1>6 DEF IsCall, NoCall
<1> QED
  BY <1>3, <1>4, <1>5, <1>7, <1>8 DEF CallOn

FactType == [cache : Nat, remote : Nat, stale : BOOLEAN]

LEMMA FactTyped ==
  ASSUME StructureInv, NEW f \in Fact
  PROVE  f \in FactType
<1>1. world \in Worlds /\ Root \in Node
  BY WorldFacts DEF StructureInv, Typed
<1>2. world.facts \subseteq FactType
  BY <1>1, WorldsAssumption DEF Node, FactType
<1>3. \A k \in DOMAIN facts : facts[k] \in FactType
  BY DEF StructureInv, Typed, FactType
<1>4. f \in FactType \/ f \in world.facts \/ (CallKey \in DOMAIN facts /\ f = facts[CallKey])
  <2>1. CASE CallKey \in DOMAIN facts
    BY <2>1 DEF Fact
  <2>2. CASE CallKey \notin DOMAIN facts
    <3>1. f \in {[cache |-> NoPrev, remote |-> NoPrev, stale |-> FALSE]} \/ f \in world.facts
      BY <2>2 DEF Fact
    <3>2. [cache |-> NoPrev, remote |-> NoPrev, stale |-> FALSE] \in FactType
      BY DEF FactType, NoPrev
    <3> QED
      BY <3>1, <3>2
  <2> QED
    BY <2>1, <2>2
<1> QED
  BY <1>2, <1>3, <1>4

\* What is found of a package, and what is to be built.
LEMMA FoundFacts ==
  ASSUME NEW f \in FactType, NEW node, IsNode(node)
  PROVE  LET found == Found(f, node)
             updated == world.update /\ f.cache # NoPrev /\ f.remote > f.cache
         IN  /\ IsNode(found) /\ found.binary \in {"missing", "cache", "update", "download"}
             /\ found.id = node.id /\ found.should = node.should
             /\ found.direct = node.direct /\ found.indirect = node.indirect
             /\ found.prev = IF f.cache # NoPrev /\ ~updated THEN f.cache ELSE f.remote
             /\ found.binary = CASE updated -> "update"
                                 [] ~updated /\ f.cache # NoPrev -> "cache"
                                 [] OTHER -> IF f.remote # NoPrev THEN "download" ELSE "missing"
<1> DEFINE updated == world.update /\ f.cache # NoPrev /\ f.remote > f.cache
           p == IF f.cache # NoPrev /\ ~updated THEN f.cache ELSE f.remote
           b == CASE updated -> "update"
                  [] ~updated /\ f.cache # NoPrev -> "cache"
                  [] OTHER -> IF f.remote # NoPrev THEN "download" ELSE "missing"
<1>1. p \in Nat
  BY DEF FactType
<1>2. b \in {"missing", "cache", "update", "download"}
  OBVIOUS
<1>3. Found(f, node) = [node EXCEPT !.prev = p, !.binary = b]
  BY DEF Found
<1> HIDE DEF p, b
<1>4. IsNode([node EXCEPT !.prev = p, !.binary = b])
  BY <1>1, <1>2, ChangedNode DEF Binaries, Real
<1>5. /\ [node EXCEPT !.prev = p, !.binary = b].prev = p
      /\ [node EXCEPT !.prev = p, !.binary = b].binary = b
      /\ [node EXCEPT !.prev = p, !.binary = b].id = node.id
      /\ [node EXCEPT !.prev = p, !.binary = b].should = node.should
      /\ [node EXCEPT !.prev = p, !.binary = b].direct = node.direct
      /\ [node EXCEPT !.prev = p, !.binary = b].indirect = node.indirect
  BY DEF IsNode, NodeFields
<1> QED
  BY <1>2, <1>3, <1>4, <1>5 DEF p, b

LEMMA ToBuildFacts ==
  ASSUME NEW n, NEW node, IsNode(node)
  PROVE  LET built == ToBuild(n, node)
         IN  /\ IsNode(built) /\ built.id = node.id /\ built.prev = NoPrev /\ built.should
             /\ built.direct = node.direct /\ built.indirect = node.indirect
             /\ built.binary = IF Config(n) \in world.cantBuild THEN "invalid" ELSE "build"
<1> DEFINE b == IF Config(n) \in world.cantBuild THEN "invalid" ELSE "build"
<1>1. b \in {"invalid", "build"} /\ NoPrev \in Nat
  BY DEF NoPrev
<1>2. ToBuild(n, node) = [node EXCEPT !.should = TRUE, !.prev = NoPrev, !.binary = b]
  BY DEF ToBuild
<1> HIDE DEF b
<1> QED
  BY <1>1, <1>2 DEF IsNode, NodeFields, Binaries, Real, b

\* What a node inherits of the first one with its package.
Decision(n) == IF nodes[n].binary = "skip" THEN nodes[n].nonSkip ELSE nodes[n].binary

LEMMA InheritFacts ==
  ASSUME StructureInv, Inherit
  PROVE  LET first == evaluated[CallKey]
             node == [nodes[Self] EXCEPT !.binary = Decision(first), !.prev = nodes[first].prev,
                                         !.id = nodes[first].id]
         IN  /\ Processing /\ IsCached /\ first \in present /\ nodes[first].binary # "none"
             /\ IsNode(node) /\ Decision(first) \in Binaries \ {"none", "skip"}
             /\ node.binary = Decision(first) /\ node.prev = nodes[first].prev
             /\ node.id = nodes[first].id /\ node.should = nodes[Self].should
             /\ node.direct = nodes[Self].direct /\ node.indirect = nodes[Self].indirect
             /\ Settle(node) /\ UNCHANGED <<facts, evaluated>>
<1> DEFINE first == evaluated[CallKey]
           b == Decision(first)
           node == [nodes[Self] EXCEPT !.binary = b, !.prev = nodes[first].prev, !.id = nodes[first].id]
<1>1. /\ Processing /\ IsCached /\ nodes[first].binary # "none" /\ Settle(node)
      /\ UNCHANGED <<facts, evaluated>>
  BY DEF Inherit, Decision
<1>2. first \in present /\ call # NoCall
  BY <1>1 DEF StructureInv, Typed, IsCached, Processing, NoCall
<1>3. IsNode(nodes[first]) /\ first \in Node /\ IsNode(nodes[Self])
  BY <1>2, CallFacts DEF StructureInv, Typed
<1>4. b \in Binaries \ {"none", "skip"} /\ nodes[first].prev \in Nat
  BY <1>1, <1>3 DEF StructureInv, Known, IsNode, Decision
<1> HIDE DEF b, first
<1>5. IsNode(node)
  BY <1>3, <1>4, ChangedNode
<1>6. /\ node.binary = b /\ node.prev = nodes[first].prev
      /\ node.id = nodes[first].id /\ node.should = nodes[Self].should
      /\ node.direct = nodes[Self].direct /\ node.indirect = nodes[Self].indirect
  BY <1>3 DEF IsNode, NodeFields
<1> QED
  BY <1>1, <1>2, <1>4, <1>5, <1>6 DEF b, first

LEMMA FailTwiceStructure ==
  ASSUME StructureInv, FailTwice
  PROVE  StructureInv'
<1> USE DEF StructureInv
<1>1. /\ Processing /\ stage' = "failed" /\ call' = NoCall
      /\ UNCHANGED <<world, present, evaluated, frames, nodes, facts, todo, processed>>
  BY DEF FailTwice, analysis
<1>2. Unevaluated' = {} /\ Marked' = present
  BY <1>1 DEF Unevaluated, Marked, Analyzing
<1>3. Typed'
  BY <1>1, Static DEF Typed, IsCall, Stages
<1>4. Stack'
  BY <1>1, Static DEF Stack
<1>5. OpenedLater'
  BY <1>1, Static DEF OpenedLater, Opened
<1>6. ClosedUp'
  BY <1>1, <1>2, Static DEF ClosedUp
<1>7. Calling' /\ Todo'
  BY <1>1 DEF Calling, Todo
<1>8. Known'
  BY <1>1, <1>2, Static DEF Known
<1> QED
  BY <1>3, <1>4, <1>5, <1>6, <1>7, <1>8

LEMMA EndStructure ==
  ASSUME StructureInv, EndEvaluation
  PROVE  StructureInv'
<1> USE DEF StructureInv
<1>1. /\ call.step = "handle" /\ call' = NoCall /\ stage = "analyze"
      /\ UNCHANGED <<world, present, evaluated, frames, nodes, facts, todo, processed, stage>>
  BY DEF EndEvaluation, analysis
<1>2. Unevaluated' = Unevaluated /\ Marked' = Marked
  BY <1>1 DEF Unevaluated, Marked, Analyzing, Top
<1>3. Typed'
  BY <1>1, Static DEF Typed, IsCall
<1>4. Stack'
  BY <1>1, Static DEF Stack
<1>5. OpenedLater'
  BY <1>1, Static DEF OpenedLater, Opened
<1>6. ClosedUp'
  BY <1>1, <1>2, Static DEF ClosedUp
<1>7. Calling' /\ Todo'
  BY <1>1 DEF Calling, Todo
<1>8. Known'
  BY <1>1, <1>2, Static DEF Known
<1> QED
  BY <1>3, <1>4, <1>5, <1>6, <1>7, <1>8

LEMMA CallSteps ==
  ASSUME StructureInv,
         \/ Inherit \/ RefuseInvalid \/ ForceBuild \/ LookUp \/ TryCompatible \/ Conclude
  PROVE  /\ call # NoCall /\ call.step # "handle" /\ \E v : CallOn(v)
         /\ \A k \in DOMAIN facts' : facts'[k] \in FactType
         /\ \A k \in DOMAIN evaluated' : evaluated'[k] \in present
<1>0. ASSUME call.step \in {"process", "compatible"}
      PROVE  /\ call # NoCall /\ call.step # "handle" /\ IsNode(nodes[Self]) /\ Self \in present
             /\ call = [f \in CallFields |-> call[f]] /\ (nodes[Self].binary = "none" <=> Processing)
             /\ call.own \in BOOLEAN /\ call.node \in present
  <2>1. call # NoCall /\ call.step # "handle"
    BY <1>0 DEF NoCall
  <2>2. call.own \in BOOLEAN /\ call.node \in present
    BY <2>1 DEF StructureInv, Typed, IsCall
  <2> QED
    BY <2>1, <2>2, CallFacts DEF Processing
<1>t. /\ \A k \in DOMAIN facts : facts[k] \in FactType
      /\ \A k \in DOMAIN evaluated : evaluated[k] \in present
  BY DEF StructureInv, Typed, FactType
<1>1. CASE Inherit
  <2>1. \E v : CallOn(v)
    BY <1>1, InheritFacts, Settled
  <2>2. UNCHANGED <<facts, evaluated>> /\ Processing
    BY <1>1, InheritFacts
  <2> QED
    BY <1>0, <1>t, <2>1, <2>2 DEF Processing
<1>2. CASE RefuseInvalid
  <2> DEFINE node == [nodes[Self] EXCEPT !.binary = "invalid",
                                         !.should = @ \/ Forced(call.mode, Ref(Self), FALSE)]
  <2>1. Processing /\ evaluated' = With(evaluated, CallKey, Self) /\ Settle(node) /\ facts' = facts
    BY <1>2 DEF RefuseInvalid, BeFirst
  <2>2. IsNode(nodes[Self]) /\ Self \in present
    BY <1>0, <2>1 DEF Processing
  <2>3. IsNode(node) /\ node.binary = "invalid"
    BY <2>2 DEF IsNode, NodeFields, Binaries, Real
  <2> HIDE DEF node
  <2>4. \E v : CallOn(v)
    BY <2>1, <2>3, Settled
  <2>5. \A k \in DOMAIN evaluated' : evaluated'[k] \in present
    BY <1>t, <2>1, <2>2 DEF With
  <2> QED
    BY <1>0, <1>t, <2>1, <2>4, <2>5 DEF Processing
<1>3. CASE ForceBuild
  <2>1. PICK f \in Fact : facts' = With(facts, CallKey, f)
    BY <1>3 DEF ForceBuild
  <2>2. Processing /\ evaluated' = With(evaluated, CallKey, Self) /\ Settle(ToBuild(Self, nodes[Self]))
    BY <1>3 DEF ForceBuild, BeFirst
  <2>3. IsNode(nodes[Self]) /\ Self \in present
    BY <1>0, <2>2 DEF Processing
  <2>4. IsNode(ToBuild(Self, nodes[Self])) /\ ToBuild(Self, nodes[Self]).binary \notin {"none", "skip"}
    BY <2>3, ToBuildFacts
  <2>5. \E v : CallOn(v)
    BY <2>2, <2>4, Settled
  <2>6. \A k \in DOMAIN facts' : facts'[k] \in FactType
    BY <1>t, <2>1, FactTyped DEF With
  <2>7. \A k \in DOMAIN evaluated' : evaluated'[k] \in present
    BY <1>t, <2>2, <2>3 DEF With
  <2> QED
    BY <1>0, <2>2, <2>5, <2>6, <2>7 DEF Processing
<1>4. CASE LookUp
  <2>1. PICK f \in Fact :
          LET found == Found(f, nodes[Self])
          IN  /\ facts' = With(facts, CallKey, f)
              /\ Settle(IF "outdated" \in call.mode.options /\ found.binary # "missing" /\ f.stale
                        THEN ToBuild(Self, found) ELSE found)
    BY <1>4 DEF LookUp
  <2> DEFINE found == Found(f, nodes[Self])
             node == IF "outdated" \in call.mode.options /\ found.binary # "missing" /\ f.stale
                     THEN ToBuild(Self, found) ELSE found
  <2>2. /\ Processing /\ evaluated' = With(evaluated, CallKey, Self) /\ Settle(node)
        /\ facts' = With(facts, CallKey, f)
    BY <1>4, <2>1 DEF LookUp, BeFirst
  <2>3. IsNode(nodes[Self]) /\ Self \in present
    BY <1>0, <2>2 DEF Processing
  <2>4. f \in FactType
    BY FactTyped
  <2>5. IsNode(found) /\ found.binary \notin {"none", "skip"}
    BY <2>3, <2>4, FoundFacts
  <2>6. IsNode(node) /\ node.binary \notin {"none", "skip"}
    BY <2>5, ToBuildFacts
  <2> HIDE DEF found, node
  <2>7. \E v : CallOn(v)
    BY <2>2, <2>6, Settled
  <2>8. \A k \in DOMAIN facts' : facts'[k] \in FactType
    BY <1>t, <2>2, <2>4 DEF With
  <2>9. \A k \in DOMAIN evaluated' : evaluated'[k] \in present
    BY <1>t, <2>2, <2>3 DEF With
  <2> QED
    BY <1>0, <2>2, <2>7, <2>8, <2>9 DEF Processing
<1>5. CASE TryCompatible
  <2>0. /\ call.step = "compatible" /\ UNCHANGED <<world, present, evaluated, frames, facts, todo, processed, stage>>
    BY <1>5 DEF TryCompatible, analysis
  <2>1. /\ IsNode(nodes[Self]) /\ call = [f \in CallFields |-> call[f]]
        /\ call.own \in BOOLEAN /\ call.node \in present /\ Self \in present
        /\ nodes[Self].binary \in {"missing", "invalid"} /\ call # NoCall
    BY <1>0, <2>0 DEF StructureInv, Calling
  <2>2. CASE Head(call.rest) = nodes[Self].id
    <3>1. nodes' = nodes /\ call' = [call EXCEPT !.rest = Tail(@)]
      BY <1>5, <2>2 DEF TryCompatible
    <3>2. /\ call' = [f \in CallFields |-> call'[f]] /\ call'.step = "compatible" /\ Self' = Self
          /\ call'.own = call.own /\ call'.node = call.node
      BY <2>0, <2>1, <3>1 DEF CallFields, Self
    <3>3. IsCall(call)' /\ call' # NoCall
      BY <2>0, <2>1, <3>2 DEF IsCall, NoCall
    <3>4. nodes' = [nodes EXCEPT ![Self] = nodes[Self]]
      BY <3>1 DEF StructureInv, Typed
    <3>5. CallOn(nodes[Self])
      BY <2>0, <2>1, <3>2, <3>3, <3>4 DEF CallOn
    <3> QED
      BY <1>0, <1>t, <2>0, <3>5
  <2>3. CASE Head(call.rest) # nodes[Self].id
    <3>1. /\ nodes' = [nodes EXCEPT ![Self].binary = "none"]
          /\ call' = [call EXCEPT !.step = "process", !.own = FALSE, !.id = Head(call.rest),
                                  !.mode = NoBuildMode, !.rest = Tail(@)]
      BY <1>5, <2>3 DEF TryCompatible
    <3>2. /\ call' = [f \in CallFields |-> call'[f]] /\ call'.step = "process" /\ Self' = Self
          /\ call'.own = FALSE /\ call'.node = call.node
      BY <2>0, <2>1, <3>1 DEF CallFields, Self
    <3>n. call' # NoCall
      BY <3>2 DEF NoCall
    <3>a. call' # NoCall /\ call'.own \in BOOLEAN /\ call'.node \in present'
      BY <2>0, <2>1, <3>2, <3>n
    <3>b. call'.step \in {"process", "compatible", "handle"}
      BY <3>2
    <3>3. IsCall(call)' /\ call' # NoCall
      BY <3>2, <3>a, <3>b DEF IsCall
    <3> DEFINE v == [nodes[Self] EXCEPT !.binary = "none"]
    <3>4. nodes' = [nodes EXCEPT ![Self] = v]
      BY <3>1
    <3>5. IsNode(v) /\ v.binary = "none"
      BY <2>1 DEF IsNode, NodeFields, Binaries
    <3> HIDE DEF v
    <3>6. CallOn(v)
      BY <2>0, <2>1, <3>2, <3>3, <3>4, <3>5 DEF CallOn
    <3> QED
      BY <1>0, <1>t, <2>0, <3>6
  <2> QED
    BY <2>2, <2>3
<1>6. CASE Conclude
  <2> DEFINE node == nodes[Self]
             v == CASE node.binary = "missing" /\ node.id = Invalid -> [node EXCEPT !.binary = "invalid"]
                    [] node.binary = "missing" /\ node.id # Invalid /\ Allowed(Ref(Self)) -> ToBuild(Self, node)
                    [] OTHER -> node
  <2>0. /\ call.step = "compatible" /\ nodes' = [nodes EXCEPT ![Self] = v]
        /\ call' = [call EXCEPT !.step = "handle"]
        /\ UNCHANGED <<world, present, evaluated, frames, facts, todo, processed, stage>>
    BY <1>6 DEF Conclude, analysis
  <2>1. /\ IsNode(node) /\ call = [f \in CallFields |-> call[f]]
        /\ call.own \in BOOLEAN /\ call.node \in present
        /\ node.binary \in {"missing", "invalid"}
    BY <1>0, <2>0 DEF StructureInv, Calling
  <2>2. IsNode([node EXCEPT !.binary = "invalid"]) /\ [node EXCEPT !.binary = "invalid"].binary = "invalid"
    BY <2>1 DEF IsNode, NodeFields, Binaries, Real
  <2>3. IsNode(ToBuild(Self, node)) /\ ToBuild(Self, node).binary \in {"invalid", "build"}
    BY <2>1, ToBuildFacts
  <2>4. IsNode(v) /\ v.binary \notin {"none", "skip"}
    BY <2>1, <2>2, <2>3
  <2> HIDE DEF v, node
  <2>5. /\ call' = [f \in CallFields |-> call'[f]] /\ call'.step = "handle" /\ Self' = Self
        /\ call'.own = call.own /\ call'.node = call.node
    BY <2>0, <2>1 DEF CallFields, Self
  <2>6. IsCall(call)' /\ call' # NoCall
    BY <2>0, <2>1, <2>5 DEF IsCall, NoCall
  <2>7. CallOn(v)
    BY <2>0, <2>4, <2>5, <2>6 DEF CallOn
  <2> QED
    BY <1>0, <1>t, <2>0, <2>7
<1> QED
  BY <1>1, <1>2, <1>3, <1>4, <1>5, <1>6

LEMMA EvaluateNodeStructure ==
  ASSUME StructureInv, EvaluateNode
  PROVE  StructureInv'
<1>1. CASE FailTwice \/ EndEvaluation
  BY <1>1, FailTwiceStructure, EndStructure
<1>2. CASE ~(FailTwice \/ EndEvaluation)
  <2>1. /\ call # NoCall /\ call.step # "handle" /\ \E v : CallOn(v)
        /\ \A k \in DOMAIN facts' : facts'[k] \in FactType
        /\ \A k \in DOMAIN evaluated' : evaluated'[k] \in present
    BY <1>2, CallSteps DEF EvaluateNode
  <2> QED
    BY <2>1, CallStructure DEF FactType
<1> QED
  BY <1>1, <1>2

-----------------------------------------------------------------------------
(* The steps of BinaryInstaller.                                           *)

LEMMA InstallStructure ==
  ASSUME StructureInv, stage \in {"download", "install"}, call = NoCall \/ call.step = "handle",
         UNCHANGED <<world, present, evaluated, frames>>, stage' \in Stages \ {"analyze"},
         nodes' = [m \in Node |-> nodes'[m]],
         \A m \in Node :
           /\ IsNode(nodes'[m]) /\ nodes'[m].nonSkip = nodes[m].nonSkip
           /\ m \notin present => nodes'[m] = nodes[m]
           /\ \/ nodes'[m].binary = nodes[m].binary
              \/ /\ nodes'[m].binary = "none" /\ m # Root
                 /\ call' # NoCall /\ call'.step = "process" /\ m = Self',
         \A k \in DOMAIN facts' : facts'[k] \in FactType,
         \A k \in DOMAIN processed' : processed'[k] \in Nat,
         IsCall(call)', todo' \in Walks, Calling', Todo'
  PROVE  StructureInv'
<1> USE DEF StructureInv
<1>1. Unevaluated = {} /\ Unevaluated' = {} /\ Marked = present /\ Marked' = present
  BY DEF Unevaluated, Marked, Analyzing
<1>2. Node' = Node /\ Walks' = Walks /\ Frames' = Frames
  BY Static
<1>3. Typed'
  BY <1>2 DEF Typed, FactType
<1>4. Stack'
  BY Static DEF Stack
<1>5. OpenedLater'
  BY <1>2 DEF OpenedLater, Opened
<1>6. ClosedUp'
  BY <1>1, Static DEF ClosedUp
<1>7. Known'
  <2>1. Root \in Node
    BY WorldFacts DEF Typed
  <2>2. nodes'[Root].binary = "none"
    BY <2>1 DEF Known
  <2>3. \A m \in Node : m \notin present => nodes'[m] = NewNode
    BY DEF Known
  <2>4. \A m \in present \ {Root} : nodes'[m].binary = "none" =>
          call' # NoCall /\ call'.step = "process" /\ m = Self'
    BY <1>1 DEF Known, Typed
  <2>5. \A m \in Node : nodes'[m].binary = "skip" => nodes'[m].nonSkip # "none"
    BY DEF Known
  <2> QED
    BY <1>1, <1>2, <2>2, <2>3, <2>4, <2>5 DEF Known
<1> QED
  BY <1>3, <1>4, <1>5, <1>6, <1>7

LEMMA SameNodes ==
  ASSUME StructureInv, nodes' = nodes
  PROVE  /\ nodes' = [m \in Node |-> nodes'[m]]
         /\ \A m \in Node : IsNode(nodes'[m]) /\ nodes'[m] = nodes[m]
BY DEF StructureInv, Typed

LEMMA StopStructure ==
  ASSUME StructureInv, stage \in {"download", "install"}, call = NoCall \/ call.step = "handle",
         NEW why \in {"broken", "missing"}, Stop(why)
  PROVE  StructureInv'
<1>1. stage' = why /\ UNCHANGED <<world, present, evaluated, frames, nodes, facts, call, todo, processed>>
  BY DEF Stop, analysis
<1>2. /\ \A k \in DOMAIN facts' : facts'[k] \in FactType
      /\ \A k \in DOMAIN processed' : processed'[k] \in Nat
      /\ IsCall(call)' /\ todo' \in Walks /\ stage' \in Stages \ {"analyze"}
  BY <1>1 DEF StructureInv, Typed, FactType, IsCall, Stages
<1>3. Calling' /\ Todo'
  BY <1>1 DEF StructureInv, Calling, Todo, Self
<1> QED
  BY <1>1, <1>2, <1>3, SameNodes, InstallStructure

LEMMA PastTyped ==
  ASSUME NEW walk \in Walks, NEW n
  PROVE  Past(n, walk) \in Walks /\ Past(n, walk).left = walk.left \ {n}
BY DEF Past, Walks, Level

\* Nodes are handled in the order of the walk.
LEMMA TodoPast ==
  ASSUME StructureInv, stage = "install", NEW n \in todo.level
  PROVE  /\ n \in present \ {Root} /\ n \in Node /\ n \in todo.left /\ IsNode(nodes[n])
         /\ Ref(n) \in Nat /\ Past(n, todo) \in Walks /\ Past(n, todo).left = todo.left \ {n}
         /\ Ordered(Past(n, todo), present \ {Root}) /\ Into(n, Kinds) \cap todo.left = {}
<1>1. /\ Ordered(todo, present \ {Root}) /\ todo \in Walks /\ present \subseteq Node
      /\ \A m \in Node : IsNode(nodes[m]) /\ Ref(m) \in Nat
  BY WorldFacts DEF StructureInv, Typed, Todo
<1>2. present \ {Root} \in SUBSET Node
  BY <1>1
<1>3. /\ Past(n, todo) \in Walks /\ Past(n, todo).left = todo.left \ {n}
      /\ Ordered(Past(n, todo), present \ {Root}) /\ n \in present \ {Root} /\ n \in todo.left
      /\ Into(n, Kinds) \cap todo.left = {}
  BY <1>1, <1>2, PastOrdered
<1> QED
  BY <1>1, <1>3

LEMMA HandleFacts ==
  ASSUME StructureInv, NEW n, HandleNow(n)
  PROVE  stage = "install" /\ (call = NoCall \/ call.step = "handle") /\ n \in todo.level
BY DEF HandleNow, Installing, IsNext, StructureInv, Calling, Analyzing, NoCall

LEMMA HandledStructure ==
  ASSUME StructureInv, NEW n, HandleNow(n), NEW p \in Nat, Handled(n, p),
         \A k \in DOMAIN facts' : facts'[k] \in FactType
  PROVE  StructureInv'
<1> DEFINE v == [Transitive(n) EXCEPT !.prev = p]
<1>1. /\ nodes' = [nodes EXCEPT ![n] = v] /\ todo' = Past(n, todo) /\ call' = NoCall
      /\ processed' = IF p = NoPrev THEN processed ELSE With(processed, Key(n), p)
      /\ UNCHANGED <<world, present, evaluated, frames, stage>>
  BY DEF Handled, PropagateInfo, analysis
<1>2. stage = "install" /\ (call = NoCall \/ call.step = "handle") /\ n \in todo.level
  BY HandleFacts
<1>3. /\ n \in present \ {Root} /\ n \in Node /\ IsNode(nodes[n]) /\ Ref(n) \in Nat
      /\ Past(n, todo) \in Walks /\ Ordered(Past(n, todo), present \ {Root})
  BY <1>2, TodoPast
<1>4. IsNode(Transitive(n)) /\ Transitive(n).binary = nodes[n].binary /\ Transitive(n).nonSkip = nodes[n].nonSkip
  BY <1>3, NodeTypes
<1>5. IsNode(v) /\ v.binary = nodes[n].binary /\ v.nonSkip = nodes[n].nonSkip
  BY <1>4, ChangedNode DEF IsNode, NodeFields
<1> HIDE DEF v
<1>6. /\ nodes'[n] = v /\ \A m \in Node : m # n => nodes'[m] = nodes[m]
      /\ nodes' = [m \in Node' |-> nodes'[m]] /\ Node' = Node
  BY <1>1, <1>3, OneNode, Static DEF StructureInv, Typed
<1>7. /\ nodes' = [m \in Node |-> nodes'[m]]
      /\ \A m \in Node :
           /\ IsNode(nodes'[m]) /\ nodes'[m].nonSkip = nodes[m].nonSkip
           /\ m \notin present => nodes'[m] = nodes[m]
           /\ nodes'[m].binary = nodes[m].binary
  BY <1>3, <1>5, <1>6 DEF StructureInv, Typed
<1>8. \A k \in DOMAIN processed' : processed'[k] \in Nat
  BY <1>1 DEF With, StructureInv, Typed
<1>9. IsCall(call)' /\ todo' \in Walks /\ Calling' /\ stage' \in Stages \ {"analyze"}
  BY <1>1, <1>2, <1>3 DEF IsCall, Calling, Stages
<1>10. Todo'
  BY <1>1, <1>2, <1>3, Static DEF Todo
<1> QED
  BY <1>1, <1>2, <1>7, <1>8, <1>9, <1>10, InstallStructure

\* What a package in the cache is now.
LEMMA InCacheFacts ==
  ASSUME NEW k, NEW p, InCache(k, p), StructureInv
  PROVE  /\ DOMAIN facts' = DOMAIN facts
         /\ k \in DOMAIN facts => facts'[k].cache = p /\ facts'[k].remote = facts[k].remote
         /\ \A j \in DOMAIN facts : j # k => facts'[j] = facts[j]
         /\ p \in Nat => \A j \in DOMAIN facts' : facts'[j] \in FactType
<1>1. facts' = [facts EXCEPT ![k].cache = p, ![k].stale = FALSE]
  BY DEF InCache
<1>2. \A j \in DOMAIN facts : facts[j] \in FactType
  BY DEF StructureInv, Typed, FactType
<1>3. DOMAIN facts' = DOMAIN facts /\ \A j \in DOMAIN facts : j # k => facts'[j] = facts[j]
  BY <1>1
<1>4. ASSUME k \in DOMAIN facts
      PROVE  /\ facts'[k].cache = p /\ facts'[k].remote = facts[k].remote
             /\ p \in Nat => facts'[k] \in FactType
  <2>1. facts'[k] = [facts[k] EXCEPT !.cache = p, !.stale = FALSE]
    BY <1>1, <1>4
  <2>2. facts[k] \in FactType
    BY <1>2, <1>4
  <2> QED
    BY <2>1, <2>2 DEF FactType
<1> QED
  BY <1>2, <1>3, <1>4

LEMMA InstallStepStructure ==
  ASSUME StructureInv, NEW n \in present,
         \/ Download(n) \/ Pass(n) \/ Reevaluate(n) \/ RaiseMissing(n) \/ HandleAgain(n)
         \/ Build(n) \/ DownloadLate(n) \/ UseCached(n)
  PROVE  StructureInv'
<1>t. /\ n \in Node /\ IsNode(nodes[n]) /\ nodes[n].prev \in Nat /\ Ref(n) \in Nat /\ todo \in Walks
      /\ \A k \in DOMAIN facts : facts[k] \in FactType
      /\ \A k \in DOMAIN processed : processed[k] \in Nat
  BY WorldFacts DEF StructureInv, Typed, IsNode, FactType
<1>1. CASE Download(n)
  <2>1. stage = "download" /\ call = NoCall
    BY <1>1 DEF Download, StructureInv, Calling, Analyzing
  <2>2. CASE Stop("broken")
    BY <2>1, <2>2, StopStructure
  <2>3. CASE ~Stop("broken")
    <3>1. /\ todo' = Past(n, todo)
          /\ UNCHANGED <<world, present, evaluated, frames, nodes, call, stage>>
          /\ \/ facts' = facts /\ processed' = processed
             \/ InCache(Key(n), nodes[n].prev) /\ processed' = With(processed, Key(n), nodes[n].prev)
      BY <1>1, <2>3 DEF Download, analysis
    <3>2. todo' \in Walks /\ todo'.left \subseteq todo.left
      BY <1>t, <3>1, PastTyped
    <3>3. \A k \in DOMAIN facts' : facts'[k] \in FactType
      BY <1>t, <3>1, InCacheFacts
    <3>4. \A k \in DOMAIN processed' : processed'[k] \in Nat
      BY <1>t, <3>1 DEF With
    <3>5. IsCall(call)' /\ Calling' /\ Todo' /\ stage' \in Stages \ {"analyze"}
      BY <2>1, <3>1, <3>2 DEF IsCall, Calling, Todo, Stages, StructureInv
    <3> QED
      BY <2>1, <3>1, <3>2, <3>3, <3>4, <3>5, SameNodes, InstallStructure
  <2> QED
    BY <2>2, <2>3
<1>2. CASE Pass(n)
  <2> DEFINE v == IF nodes[n].binary = "skip" THEN Transitive(n)
                  ELSE [Transitive(n) EXCEPT !.prev = EditablePrev]
  <2>1. /\ stage = "install" /\ call = NoCall /\ n \in todo.level
        /\ nodes' = [nodes EXCEPT ![n] = v] /\ todo' = Past(n, todo)
        /\ UNCHANGED <<world, present, evaluated, frames, facts, call, processed, stage>>
    BY <1>2 DEF Pass, Installing, IsNext, analysis, PropagateInfo
  <2>2. n \in present \ {Root} /\ Past(n, todo) \in Walks /\ Ordered(Past(n, todo), present \ {Root})
    BY <2>1, TodoPast
  <2>3. IsNode(Transitive(n)) /\ Transitive(n).binary = nodes[n].binary /\ Transitive(n).nonSkip = nodes[n].nonSkip
    BY <1>t, NodeTypes
  <2>4. IsNode(v) /\ v.binary = nodes[n].binary /\ v.nonSkip = nodes[n].nonSkip
    BY <2>3, ChangedNode DEF IsNode, NodeFields, EditablePrev
  <2> HIDE DEF v
  <2>5. /\ nodes'[n] = v /\ \A m \in Node : m # n => nodes'[m] = nodes[m]
        /\ nodes' = [m \in Node' |-> nodes'[m]] /\ Node' = Node
    BY <1>t, <2>1, OneNode, Static DEF StructureInv, Typed
  <2>6. /\ nodes' = [m \in Node |-> nodes'[m]]
        /\ \A m \in Node :
             /\ IsNode(nodes'[m]) /\ nodes'[m].nonSkip = nodes[m].nonSkip
             /\ m \notin present => nodes'[m] = nodes[m]
             /\ nodes'[m].binary = nodes[m].binary
    BY <2>4, <2>5 DEF StructureInv, Typed
  <2>7. IsCall(call)' /\ todo' \in Walks /\ Calling' /\ stage' \in Stages \ {"analyze"}
    BY <2>1, <2>2 DEF IsCall, Calling, Stages
  <2>8. Todo'
    BY <2>1, <2>2, Static DEF Todo
  <2> QED
    BY <1>t, <2>1, <2>6, <2>7, <2>8, InstallStructure
<1>3. CASE Reevaluate(n)
  <2> DEFINE v == [Computed(n) EXCEPT !.binary = "none"]
  <2>1. stage = "install" /\ call = NoCall /\ n \in todo.level
    BY <1>3 DEF Reevaluate, Installing, IsNext
  <2>2. CASE Stop("broken")
    BY <2>1, <2>2, StopStructure
  <2>3. CASE ~Stop("broken")
    <3>1. /\ nodes' = [nodes EXCEPT ![n] = v] /\ call' = Evaluation(n, Computed(n).id)
          /\ UNCHANGED <<world, present, evaluated, frames, facts, todo, processed, stage>>
      BY <1>3, <2>3 DEF Reevaluate, analysis
    <3>2. n \in present \ {Root}
      BY <2>1, TodoPast
    <3>3. IsNode(Computed(n)) /\ Computed(n).nonSkip = nodes[n].nonSkip
      BY <1>t, NodeTypes
    <3>4. IsNode(v) /\ v.binary = "none" /\ v.nonSkip = nodes[n].nonSkip
      BY <3>3, ChangedNode DEF IsNode, NodeFields, Binaries
    <3> HIDE DEF v
    <3>5. /\ nodes'[n] = v /\ \A m \in Node : m # n => nodes'[m] = nodes[m]
          /\ nodes' = [m \in Node' |-> nodes'[m]] /\ Node' = Node
      BY <1>t, <3>1, OneNode, Static DEF StructureInv, Typed
    <3>6. /\ call' = [f \in CallFields |-> call'[f]] /\ call'.step = "process" /\ Self' = n
          /\ call'.own \in BOOLEAN /\ call'.node = n
      BY <3>1 DEF Evaluation, CallFields, Self
    <3>7. call' # NoCall
      BY <3>6 DEF NoCall
    <3>8. IsCall(call)'
      BY <3>1, <3>2, <3>6, <3>7 DEF IsCall
    <3>9. /\ nodes' = [m \in Node |-> nodes'[m]]
          /\ \A m \in Node :
               /\ IsNode(nodes'[m]) /\ nodes'[m].nonSkip = nodes[m].nonSkip
               /\ m \notin present => nodes'[m] = nodes[m]
               /\ \/ nodes'[m].binary = nodes[m].binary
                  \/ /\ nodes'[m].binary = "none" /\ m # Root
                     /\ call' # NoCall /\ call'.step = "process" /\ m = Self'
      BY <3>2, <3>4, <3>5, <3>6, <3>7 DEF StructureInv, Typed
    <3>10. todo' \in Walks /\ Calling' /\ stage' \in Stages \ {"analyze"}
      BY <1>t, <2>1, <3>1, <3>2, <3>4, <3>5, <3>6 DEF Calling, Stages
    <3>11. Todo'
      BY <2>1, <3>1, Static DEF Todo, StructureInv
    <3> QED
      BY <1>t, <2>1, <3>1, <3>8, <3>9, <3>10, <3>11, InstallStructure
  <2> QED
    BY <2>2, <2>3
<1>4. CASE RaiseMissing(n)
  BY <1>4, HandleFacts, StopStructure DEF RaiseMissing
<1>5. CASE HandleAgain(n)
  <2>1. HandleNow(n) /\ facts' = facts /\ Key(n) \in DOMAIN processed /\ Handled(n, processed[Key(n)])
    BY <1>5 DEF HandleAgain, IsProcessed
  <2> QED
    BY <1>t, <2>1, HandledStructure
<1>6. CASE Build(n)
  <2>1. PICK p \in {1, NewPrev} : InCache(Key(n), p) /\ Handled(n, p)
    BY <1>6 DEF Build
  <2>2. HandleNow(n) /\ p \in Nat
    BY <1>6 DEF Build, NewPrev
  <2> QED
    BY <2>1, <2>2, InCacheFacts, HandledStructure
<1>7. CASE DownloadLate(n)
  <2>1. HandleNow(n)
    BY <1>7 DEF DownloadLate
  <2>2. CASE Stop("broken")
    BY <2>1, <2>2, HandleFacts, StopStructure
  <2>3. CASE ~Stop("broken")
    <3>1. InCache(Key(n), nodes[n].prev) /\ Handled(n, nodes[n].prev)
      BY <1>7, <2>3 DEF DownloadLate
    <3> QED
      BY <1>t, <2>1, <3>1, InCacheFacts, HandledStructure
  <2> QED
    BY <2>2, <2>3
<1>8. CASE UseCached(n)
  <2>1. HandleNow(n)
    BY <1>8 DEF UseCached
  <2>2. CASE Stop("broken")
    BY <2>1, <2>2, HandleFacts, StopStructure
  <2>3. CASE ~Stop("broken")
    <3>1. facts' = facts /\ Handled(n, nodes[n].prev)
      BY <1>8, <2>3 DEF UseCached
    <3> QED
      BY <1>t, <2>1, <3>1, HandledStructure
  <2> QED
    BY <2>2, <2>3
<1> QED
  BY <1>1, <1>2, <1>3, <1>4, <1>5, <1>6, <1>7, <1>8

LEMMA StartBuildStructure ==
  ASSUME StructureInv, StartBuild
  PROVE  StructureInv'
<1>1. /\ stage = "download" /\ stage' = "install" /\ todo' = Walk(present \ {Root})
      /\ UNCHANGED <<world, present, evaluated, frames, nodes, facts, call, processed>>
  BY DEF StartBuild, analysis
<1>2. call = NoCall
  BY <1>1 DEF StructureInv, Calling, Analyzing
<1>3. present \ {Root} \in SUBSET Node
  BY DEF StructureInv, Typed
<1>4. Walk(present \ {Root}) \in Walks /\ Ordered(Walk(present \ {Root}), present \ {Root})
  BY <1>3, WalkOrdered
<1>5. Todo' /\ Calling' /\ IsCall(call)' /\ todo' \in Walks /\ stage' \in Stages \ {"analyze"}
  BY <1>1, <1>2, <1>4, Static DEF Todo, Calling, IsCall, Stages
<1>6. /\ \A k \in DOMAIN facts' : facts'[k] \in FactType
      /\ \A k \in DOMAIN processed' : processed'[k] \in Nat
  BY <1>1 DEF StructureInv, Typed, FactType
<1> QED
  BY <1>1, <1>2, <1>5, <1>6, SameNodes, InstallStructure

LEMMA FinishStructure ==
  ASSUME StructureInv, Finish
  PROVE  StructureInv'
<1>1. /\ stage = "install" /\ todo.left = {} /\ stage' = "done"
      /\ nodes' = [nodes EXCEPT ![Root] = Transitive(Root)]
      /\ UNCHANGED <<world, present, evaluated, frames, facts, call, todo, processed>>
  BY DEF Finish, analysis, PropagateInfo
<1>2. call = NoCall
  BY <1>1 DEF StructureInv, Calling, Analyzing, Todo, Ordered
<1>3. Root \in Node /\ Root \in present /\ IsNode(nodes[Root]) /\ Ref(Root) \in Nat
  BY WorldFacts DEF StructureInv, Typed
<1>4. /\ IsNode(Transitive(Root)) /\ Transitive(Root).binary = nodes[Root].binary
      /\ Transitive(Root).nonSkip = nodes[Root].nonSkip
  BY <1>3, NodeTypes
<1>5. /\ nodes'[Root] = Transitive(Root) /\ \A m \in Node : m # Root => nodes'[m] = nodes[m]
      /\ nodes' = [m \in Node' |-> nodes'[m]] /\ Node' = Node
  BY <1>1, <1>3, OneNode, Static DEF StructureInv, Typed
<1>6. /\ nodes' = [m \in Node |-> nodes'[m]]
      /\ \A m \in Node :
           /\ IsNode(nodes'[m]) /\ nodes'[m].nonSkip = nodes[m].nonSkip
           /\ m \notin present => nodes'[m] = nodes[m]
           /\ nodes'[m].binary = nodes[m].binary
  BY <1>3, <1>4, <1>5 DEF StructureInv, Typed
<1>7. Todo' /\ Calling' /\ IsCall(call)' /\ todo' \in Walks /\ stage' \in Stages \ {"analyze"}
  BY <1>1, <1>2, Static DEF Todo, Calling, IsCall, Stages, StructureInv, Typed
<1>8. /\ \A k \in DOMAIN facts' : facts'[k] \in FactType
      /\ \A k \in DOMAIN processed' : processed'[k] \in Nat
  BY <1>1 DEF StructureInv, Typed, FactType
<1> QED
  BY <1>1, <1>2, <1>6, <1>7, <1>8, InstallStructure

LEMMA SpecStructure == Spec => []StructureInv
<1>1. StructureInv /\ [Next]_vars => StructureInv'
  <2> SUFFICES ASSUME StructureInv, [Next]_vars PROVE StructureInv'
    OBVIOUS
  <2>1. CASE UNCHANGED vars
    <3>1. /\ world' = world /\ present' = present /\ nodes' = nodes /\ facts' = facts
          /\ evaluated' = evaluated /\ frames' = frames /\ call' = call /\ todo' = todo
          /\ processed' = processed /\ stage' = stage
      BY <2>1 DEF vars
    <3>2. Typed'
      BY <3>1, Static DEF StructureInv, Typed, IsCall
    <3>3. Stack' /\ OpenedLater'
      BY <3>1, Static DEF StructureInv, Stack, OpenedLater, Opened
    <3>4. Unevaluated' = Unevaluated /\ Marked' = Marked /\ (Analyzing' <=> Analyzing) /\ Top' = Top
      BY <3>1 DEF Unevaluated, Marked, Analyzing, Top
    <3>5. ClosedUp' /\ Todo'
      BY <3>1, <3>4, Static DEF StructureInv, ClosedUp, Todo
    <3>6. Calling'
      BY <3>1, <3>4 DEF StructureInv, Calling, Self
    <3>7. Known'
      BY <3>1, <3>4, Static DEF StructureInv, Known, Self
    <3> QED
      BY <3>2, <3>3, <3>5, <3>6, <3>7 DEF StructureInv
  <2>2. CASE Next
    BY <2>2, EvaluateStructure, MarkStructure, RecurseStructure, ClassifyStructure,
       EvaluateNodeStructure, InstallStepStructure, StartBuildStructure, FinishStructure DEF Next
  <2> QED
    BY <2>1, <2>2
<1> QED
  BY <1>1, StructureInit, PTL DEF Spec

\* Frames are parts of the graph, a call is for one of its nodes, and what is known
\* of each node is what the analyzer and the installer can say of it.
THEOREM TypeCorrect == Spec => []Typed
<1>1. StructureInv => Typed
  BY DEF StructureInv
<1> QED
  BY <1>1, SpecStructure, PTL

-----------------------------------------------------------------------------
(* Nothing that is needed is skipped.                                      *)

\* What a call of _recurse_build_requires that another one has called was for.
LEMMA RootsApart ==
  ASSUME StructureInv, Analyzing, NEW i \in DOMAIN frames, i # 1
  PROVE  frames[i].root \notin Top.set /\ frames[i].root \in present \ Top.set
<1>1. /\ frames # <<>> /\ Top = frames[Len(frames)] /\ Len(frames) \in DOMAIN frames
      /\ Top.phase = "evaluate"
  BY TopOf DEF Analyzing, StructureInv, Stack
<1>2. /\ frames[i].root \in present /\ frames[i].set = world.tools[frames[i].root]
      /\ frames[i].set # {} /\ frames[i].set \subseteq present
  BY DEF StructureInv, Stack
<1>3. frames[i].root \in Node
  BY <1>2 DEF StructureInv, Typed
<1>4. frames[i].root \notin Opened(frames[Len(frames)])
  BY <1>1, <1>2, <1>3 DEF StructureInv, OpenedLater
<1> QED
  BY <1>1, <1>2, <1>4 DEF Opened

\* What is followed from a node that is needed is not skipped.
NeededKept ==
  \A e \in world.edges :
    /\ {e[1], e[2]} \subseteq Marked /\ nodes[e[1]].binary # "skip"
    /\ e[3] = "private" => ~SkipsPrivate(e[1])
    => nodes[e[2]].binary # "skip"

\* Build requirements are those of nodes that may be built.
RootsKept ==
  stage = "analyze" => \A i \in DOMAIN frames \ {1} :
    nodes[frames[i].root].binary \in {"none", "build", "editable", "unknown"}

SkipInv == stage # "failed" => NeededKept /\ RootsKept

\* A step that skips nothing, and changes nothing that was decided.
Steady ==
  \A n \in Node : nodes'[n].binary # nodes[n].binary =>
    /\ nodes[n].binary \in {"none", "unknown", "missing", "invalid"} /\ nodes'[n].binary # "skip"
    /\ stage = "analyze" => Analyzing /\ n \in Top.set

LEMMA SteadyKeeps ==
  ASSUME StructureInv, SkipInv, Steady, world' = world, Marked' = Marked,
         stage # "failed",
         stage' = "analyze" => /\ stage = "analyze"
                               /\ \A i \in DOMAIN frames' \ {1} :
                                    \/ /\ i \in DOMAIN frames /\ frames'[i].root = frames[i].root
                                    \/ nodes'[frames'[i].root].binary \in {"none", "build", "editable", "unknown"}
  PROVE  SkipInv'
<1> SUFFICES ASSUME stage' # "failed" PROVE NeededKept' /\ RootsKept'
  BY DEF SkipInv
<1>m. Marked \subseteq Node /\ \A e \in world.edges : e[1] \in Node /\ e[2] \in Node
  BY WorldFacts DEF StructureInv, Typed, Marked
<1>1. NeededKept'
  <2> SUFFICES ASSUME NEW e \in world.edges, {e[1], e[2]} \subseteq Marked,
                      nodes'[e[1]].binary # "skip",
                      e[3] = "private" => ~SkipsPrivate(e[1])'
               PROVE  nodes'[e[2]].binary # "skip"
    BY DEF NeededKept
  <2>1. nodes[e[1]].binary # "skip" /\ (e[3] = "private" => ~SkipsPrivate(e[1]))
    <3>1. CASE nodes'[e[1]].binary = nodes[e[1]].binary
      BY <3>1 DEF SkipsPrivate
    <3>2. CASE nodes'[e[1]].binary # nodes[e[1]].binary
      BY <1>m, <3>2 DEF Steady, SkipsPrivate
    <3> QED
      BY <3>1, <3>2
  <2>2. nodes[e[2]].binary # "skip"
    BY <2>1 DEF SkipInv, NeededKept
  <2> QED
    BY <1>m, <2>2 DEF Steady
<1>2. RootsKept'
  <2> SUFFICES ASSUME stage' = "analyze", NEW i \in DOMAIN frames' \ {1}, i \in DOMAIN frames,
                      frames'[i].root = frames[i].root
               PROVE  nodes'[frames[i].root].binary \in {"none", "build", "editable", "unknown"}
    BY DEF RootsKept
  <2>1. frames[i].root \in Node
    BY DEF StructureInv, Typed, Stack
  <2>2. nodes[frames[i].root].binary \in {"none", "build", "editable", "unknown"}
    BY DEF SkipInv, RootsKept
  <2>3. nodes'[frames[i].root].binary = nodes[frames[i].root].binary
    BY <2>1, RootsApart DEF Steady
  <2> QED
    BY <2>2, <2>3
<1> QED
  BY <1>1, <1>2

LEMMA MarkSkip ==
  ASSUME StructureInv, SkipInv, MarkPrivateSkippable
  PROVE  SkipInv'
<1> DEFINE T == Top.set
           r == Top.root
<1>1. /\ In("evaluate") /\ T \subseteq present /\ world' = world /\ present' = present
      /\ stage' = stage /\ frames' = WithTop([Top EXCEPT !.phase = "extend", !.todo = Walk(Top.set)])
  BY Marking
<1>2. /\ Analyzing /\ frames # <<>> /\ Marked = present \ T /\ stage = "analyze"
      /\ Top.phase = "evaluate" /\ NeededKept /\ RootsKept
  BY <1>1, InFacts DEF SkipInv
<1>3. /\ world \in Worlds /\ present \subseteq Node /\ r \in present
      /\ Len(frames) \in DOMAIN frames /\ Top = frames[Len(frames)] /\ Top \in Frames
      /\ IF Len(frames) = 1 THEN r = Root /\ T = world.initial
         ELSE r \in present \ T /\ T = world.tools[r]
  BY <1>2, TopOf DEF StructureInv, Typed
<1>4. /\ \A e \in world.edges : e[1] \in Node /\ e[2] \in Node
      /\ \A n \in T : nodes[n].binary # "skip"
  BY <1>1, <1>2, <1>3, WorldFacts DEF StructureInv, Known
<1>5. \A n \in present : IF n \in T \ Public THEN nodes'[n].binary = "skip" ELSE nodes'[n] = nodes[n]
  BY <1>3, Marking
<1>6. \A m \in T : world.tools[m] \cap present = {}
  BY <1>1, <1>2, <1>3 DEF StructureInv, OpenedLater, Opened
<1>7. /\ r \in Public
      /\ \A e \in Followed : e[1] \in Public => e[2] \in Public
  BY <1>3, ReachedFacts DEF Public, Followed
<1>8. Marked' = present
  <2>1. Top'.phase = "extend"
    <3>1. Top' = [Top EXCEPT !.phase = "extend", !.todo = Walk(Top.set)]
      <4>1. T \in SUBSET Node
        BY <1>1, <1>3
      <4>2. [Top EXCEPT !.phase = "extend", !.todo = Walk(Top.set)] \in Frames
        BY <1>3, <4>1, WalkOrdered DEF Frames
      <4> QED
        BY <1>1, <1>2, <4>2, ReplacedTop DEF Top, WithTop, StructureInv, Typed
    <3> QED
      BY <1>3, <3>1 DEF Frames
  <2> QED
    BY <1>1, <2>1 DEF Marked, Analyzing
<1>9. NeededKept'
  <2> SUFFICES ASSUME NEW e \in world.edges, e[1] \in present, e[2] \in present,
                      nodes'[e[1]].binary # "skip", e[3] = "private" => ~SkipsPrivate(e[1])'
               PROVE  nodes'[e[2]].binary # "skip"
    BY <1>1, <1>8 DEF NeededKept
  <2>1. /\ nodes'[e[1]] = nodes[e[1]] /\ nodes[e[1]].binary # "skip"
        /\ e[3] = "private" => ~SkipsPrivate(e[1])
        /\ e[1] \in T => e[1] \in Public
    BY <1>5 DEF SkipsPrivate
  <2>2. e \in Followed
    BY <2>1 DEF Followed
  <2>3. e[3] # "build" => e[2] \in Requires(e[1])
    BY <1>3, IntoFacts, WorldFacts DEF Requires, Kinds
  <2>4. e[3] = "build" => e[2] \in world.tools[e[1]]
    BY <1>3, EdgesAssumption
  <2>5. CASE e[2] \in T /\ e[1] \in T
    BY <1>5, <1>7, <2>1, <2>2, <2>5, <1>4
  <2>6. CASE e[2] \in T /\ e[1] \notin T
    <3>1. e[3] = "build"
      BY <1>2, <2>3, <2>6 DEF StructureInv, ClosedUp
    <3>2. e[2] \in world.tools[e[1]]
      BY <2>4, <3>1
    <3>3. e[1] = r
      BY <1>3, <1>4, <2>6, <3>2, WorldFacts
    <3> QED
      BY <1>4, <1>5, <1>7, <2>2, <2>6, <3>3
  <2>7. CASE e[2] \notin T /\ e[1] \notin T
    BY <1>2, <1>5, <2>1, <2>7 DEF NeededKept
  <2>8. CASE e[2] \notin T /\ e[1] \in T
    <3>1. e[2] \in Requires(e[1])
      BY <1>6, <2>3, <2>4, <2>8
    <3>2. Len(frames) # 1
      BY <1>3, <2>8, <3>1, RequiresOfInitial
    <3>3. r \in Marked /\ r \in Node /\ T = world.tools[r]
      BY <1>2, <1>3, <3>2
    <3>4. e[2] \in Given(world, r)
      BY <1>3, <2>8, <3>1, <3>3, RequiresOfTools
    <3>5. nodes[r].binary # "skip" /\ ~SkipsPrivate(r)
      BY <1>2, <1>3, <3>2 DEF RootsKept, SkipsPrivate
    <3> DEFINE S == {n \in Marked : nodes[n].binary # "skip"}
    <3>6. S \in SUBSET Node
      BY <1>3 DEF Marked
    <3>7. Requires(r) \subseteq S
      <4> SUFFICES ASSUME NEW d \in Requires(r) PROVE d \in S
        OBVIOUS
      <4>1. d \in Marked
        BY <3>3 DEF StructureInv, ClosedUp
      <4>2. PICK f \in world.edges : f[1] = r /\ f[2] = d
        BY <1>3, IntoFacts DEF Requires
      <4> QED
        BY <1>2, <3>3, <3>5, <4>1, <4>2 DEF NeededKept
    <3>8. ASSUME NEW x \in S PROVE Into(x, {"public"}) \subseteq S
      <4> SUFFICES ASSUME NEW d \in Into(x, {"public"}) PROVE d \in S
        OBVIOUS
      <4>1. PICK f \in world.edges : f[1] = x /\ f[2] = d /\ f[3] = "public"
        BY <1>3, IntoFacts
      <4>2. d \in Requires(x)
        BY <1>3, <4>1, IntoFacts DEF Requires
      <4>3. d \in Marked
        BY <4>2 DEF StructureInv, ClosedUp
      <4> QED
        BY <1>2, <4>1, <4>3 DEF NeededKept
    <3>9. e[2] \in S
      BY <1>3, <3>3, <3>4, <3>6, <3>7, <3>8, GivenLeast
    <3> QED
      BY <1>5, <2>8, <3>9
  <2> QED
    BY <2>5, <2>6, <2>7, <2>8
<1>10. RootsKept'
  <2>1. DOMAIN frames' = DOMAIN frames /\ \A i \in DOMAIN frames : frames'[i].root = frames[i].root
    <3>1. T \in SUBSET Node
      BY <1>1, <1>3
    <3> DEFINE x == [Top EXCEPT !.phase = "extend", !.todo = Walk(Top.set)]
    <3>2. x \in Frames /\ x.root = Top.root
      BY <1>3, <3>1, WalkOrdered DEF Frames
    <3> HIDE DEF x
    <3>3. /\ DOMAIN frames' = DOMAIN frames /\ frames'[Len(frames)] = x
          /\ \A i \in DOMAIN frames : i # Len(frames) => frames'[i] = frames[i]
      BY <1>1, <1>2, <3>2, ReplacedTop DEF WithTop, StructureInv, Typed, x
    <3> QED
      BY <1>3, <3>2, <3>3
  <2>2. \A i \in DOMAIN frames \ {1} : frames[i].root \in present \ T
    BY <1>2, RootsApart
  <2> QED
    BY <1>2, <1>5, <2>1, <2>2 DEF RootsKept
<1> QED
  BY <1>9, <1>10 DEF SkipInv

LEMMA EvaluateSkip ==
  ASSUME StructureInv, SkipInv, NEW n \in present, Evaluate(n)
  PROVE  SkipInv'
<1> DEFINE x == [Top EXCEPT !.todo = Past(n, @)]
<1>1. In("evaluate") /\ n \in Top.todo.level
  BY DEF Evaluate, IsNext
<1>2. /\ stage = "analyze" /\ frames # <<>> /\ Analyzing /\ Unevaluated = Top.todo.left
      /\ Marked = present \ Top.set /\ Top.phase = "evaluate"
  BY <1>1, InFacts
<1>3. /\ Top \in Frames /\ Ordered(Top.todo, Top.set) /\ Top.set \in SUBSET Node /\ n \in Node
      /\ world \in Worlds /\ Len(frames) \in DOMAIN frames /\ Top = frames[Len(frames)]
      /\ Top.todo \in Walks
  BY <1>2, TopOf DEF StructureInv, Typed, Frames
<1>4. Past(n, Top.todo) \in Walks /\ n \in Top.set /\ n \in Top.todo.left
  BY <1>1, <1>3, PastOrdered
<1>5. x \in Frames /\ x.set = Top.set /\ x.root = Top.root /\ x.phase = "evaluate"
  BY <1>2, <1>3, <1>4 DEF Frames
<1> DEFINE label == CASE n = Root -> "none"
                      [] n # Root /\ Ref(n) \in world.editable -> "editable"
                      [] OTHER -> IF Computed(n).id = Unknown THEN "unknown" ELSE "none"
           v == [Computed(n) EXCEPT !.binary = label]
<1>6. /\ frames' = WithTop(x) /\ nodes' = [nodes EXCEPT ![n] = v]
      /\ UNCHANGED <<world, present, stage>>
  BY DEF Evaluate
<1>7. label \in {"none", "editable", "unknown"} /\ v.binary = label
  <2>1. IsNode(Computed(n))
    BY <1>3, NodeTypes, WorldFacts DEF StructureInv, Typed
  <2>2. label \in {"none", "editable", "unknown"}
    OBVIOUS
  <2> QED
    BY <2>1, <2>2 DEF IsNode, NodeFields
<1> HIDE DEF v, label
<1>8. nodes'[n] = v /\ \A m \in Node : m # n => nodes'[m] = nodes[m]
  BY <1>3, <1>6, OneNode DEF StructureInv, Typed
<1>9. nodes[n].binary = "none"
  BY <1>2, <1>3, <1>4, NewNodeFacts DEF StructureInv, Known
<1>10. Steady
  BY <1>2, <1>4, <1>7, <1>8, <1>9 DEF Steady
<1> HIDE DEF x
<1>11. /\ DOMAIN frames' = DOMAIN frames /\ Last(frames') = x /\ frames'[Len(frames)] = x
       /\ \A i \in DOMAIN frames : i # Len(frames) => frames'[i] = frames[i]
  BY <1>2, <1>5, <1>6, ReplacedTop DEF WithTop, StructureInv, Typed
<1>12. Marked' = Marked
  BY <1>2, <1>5, <1>6, <1>11 DEF Marked, Analyzing, Top
<1>13. \A i \in DOMAIN frames' \ {1} : i \in DOMAIN frames /\ frames'[i].root = frames[i].root
  BY <1>3, <1>5, <1>11
<1> QED
  BY <1>2, <1>6, <1>10, <1>12, <1>13, SteadyKeeps

LEMMA RecurseSkip ==
  ASSUME StructureInv, SkipInv, NEW n \in present, RecurseBuildRequires(n)
  PROVE  SkipInv'
<1> DEFINE x == [Top EXCEPT !.todo = Past(n, @)]
           tools == IF nodes[n].binary \in {"build", "editable", "unknown"} \/ n = Root
                    THEN world.tools[n] ELSE {}
           frame == Frame(tools, n)
           rest == WithTop(x)
<1>1. /\ In("extend") /\ n \in Top.todo.level /\ present' = present \cup tools
      /\ frames' = IF tools = {} THEN rest ELSE Append(rest, frame)
      /\ UNCHANGED <<world, nodes, stage>>
  BY DEF RecurseBuildRequires, IsNext
<1>2. /\ stage = "analyze" /\ frames # <<>> /\ Top.phase = "extend" /\ Marked = present
  BY <1>1, InFacts
<1>3. /\ Top \in Frames /\ Ordered(Top.todo, Top.set) /\ Top.set \in SUBSET Node /\ n \in Node
      /\ world \in Worlds /\ Len(frames) \in DOMAIN frames /\ Top = frames[Len(frames)]
      /\ Top.todo \in Walks /\ nodes[Root].binary = "none"
  BY <1>2, TopOf DEF StructureInv, Typed, Frames, Known
<1>4. Past(n, Top.todo) \in Walks /\ n \in Top.todo.left
  BY <1>1, <1>3, PastOrdered
<1>5. x \in Frames /\ x.root = Top.root /\ x.phase = "extend"
  BY <1>2, <1>3, <1>4 DEF Frames
<1>6. /\ rest \in Seq(Frames) /\ DOMAIN rest = DOMAIN frames /\ rest[Len(frames)] = x /\ Last(rest) = x
      /\ \A i \in DOMAIN frames : i # Len(frames) => rest[i] = frames[i]
  BY <1>2, <1>5, ReplacedTop DEF WithTop, StructureInv, Typed
<1>7. \A i \in DOMAIN frames : rest[i].root = frames[i].root
  BY <1>3, <1>5, <1>6
<1>8. Steady
  BY <1>1 DEF Steady
<1> HIDE DEF x, rest
<1>9. CASE tools = {}
  <2>1. frames' = rest /\ present' = present
    BY <1>1, <1>9
  <2>2. Marked' = Marked
    BY <1>2, <1>5, <1>6, <2>1 DEF Marked, Analyzing, Top
  <2> QED
    BY <1>1, <1>2, <1>6, <1>7, <1>8, <2>1, <2>2, SteadyKeeps
<1>10. CASE tools # {}
  <2>1. /\ tools = world.tools[n] /\ nodes[n].binary \in {"none", "build", "editable", "unknown"}
        /\ frames' = Append(rest, frame)
    BY <1>1, <1>3, <1>10
  <2>2. tools \in SUBSET Node /\ tools \cap present = {}
    BY <1>2, <1>3, <1>4, <2>1, WorldFacts DEF StructureInv, OpenedLater, Opened
  <2> HIDE DEF tools
  <2>3. frame \in Frames /\ frame.root = n /\ frame.set = tools /\ frame.phase = "evaluate"
    BY <1>3, <2>2, WalkOrdered DEF Frame, Frames
  <2> HIDE DEF frame
  <2>4. /\ Last(frames') = frame /\ Len(rest) \in Nat /\ DOMAIN frames' = 1..(Len(rest) + 1)
        /\ DOMAIN rest = 1..Len(rest)
        /\ frames'[Len(rest) + 1] = frame /\ \A i \in DOMAIN rest : frames'[i] = rest[i]
    BY <1>6, <2>1, <2>3, AddedTop
  <2>5. Marked' = Marked
    BY <1>1, <1>2, <2>2, <2>3, <2>4 DEF Marked, Analyzing, Top
  <2>6. \A i \in DOMAIN frames' : i \in DOMAIN rest \/ i = Len(rest) + 1
    BY <2>4
  <2>7. \A i \in DOMAIN frames' :
          \/ i \in DOMAIN frames /\ frames'[i].root = frames[i].root
          \/ nodes'[frames'[i].root].binary \in {"none", "build", "editable", "unknown"}
    BY <1>1, <1>6, <1>7, <2>1, <2>3, <2>4, <2>6
  <2> QED
    BY <1>1, <1>2, <1>8, <2>5, <2>7, SteadyKeeps
<1> QED
  BY <1>9, <1>10

LEMMA ClassifySkip ==
  ASSUME StructureInv, SkipInv, Classify
  PROVE  SkipInv'
<1>1. /\ In("extend") /\ frames' = Front(frames) /\ UNCHANGED <<world, present, nodes>>
      /\ stage' = "analyze" => Len(frames) > 1
  BY DEF Classify
<1>2. /\ stage = "analyze" /\ frames # <<>> /\ Marked = present
  BY <1>1, InFacts
<1>3. /\ Len(frames) \in Nat \ {0} /\ DOMAIN frames = 1..Len(frames)
      /\ Len(frames') = Len(frames) - 1
      /\ DOMAIN frames' = 1..(Len(frames) - 1)
      /\ \A i \in 1..(Len(frames) - 1) : frames'[i] = frames[i]
  BY <1>1, <1>2, TopFacts DEF StructureInv, Typed
<1>4. \A i \in DOMAIN frames' : i \in DOMAIN frames /\ frames'[i] = frames[i]
  BY <1>3
<1>5. Marked' = Marked
  <2>1. CASE stage' = "analyze"
    <3>1. Len(frames) - 1 \in DOMAIN frames /\ Len(frames) - 1 < Len(frames)
      BY <1>1, <1>3, <2>1
    <3>2. Top' = frames[Len(frames) - 1]
      BY <1>1, <1>3, <2>1 DEF Top, Last
    <3> QED
      BY <1>1, <1>2, <3>1, <3>2 DEF Marked, Analyzing, StructureInv, Stack
  <2>2. CASE stage' # "analyze"
    BY <1>1, <1>2, <2>2 DEF Marked, Analyzing
  <2> QED
    BY <2>1, <2>2
<1>6. Steady
  BY <1>1 DEF Steady
<1> QED
  BY <1>1, <1>2, <1>4, <1>5, <1>6, SteadyKeeps

LEMMA EvaluateNodeSkip ==
  ASSUME StructureInv, SkipInv, EvaluateNode
  PROVE  SkipInv'
<1>1. CASE FailTwice
  BY <1>1 DEF FailTwice, SkipInv
<1>2. CASE EndEvaluation
  <2>1. UNCHANGED <<world, present, frames, nodes, stage>>
    BY <1>2 DEF EndEvaluation, analysis
  <2> QED
    BY <2>1 DEF SkipInv, NeededKept, RootsKept, Marked, Analyzing, Top, SkipsPrivate
<1>3. CASE ~(FailTwice \/ EndEvaluation)
  <2>1. PICK v : CallOn(v)
    BY <1>3, CallSteps DEF EvaluateNode
  <2>2. call # NoCall /\ call.step \in {"process", "compatible"}
    BY <1>3, CallSteps, CallFacts DEF EvaluateNode
  <2>3. /\ nodes' = [nodes EXCEPT ![Self] = v] /\ v.binary # "skip"
        /\ UNCHANGED <<world, present, frames, stage>>
    BY <2>1 DEF CallOn
  <2>4. Self \in Node /\ nodes[Self].binary \in {"none", "missing", "invalid"} /\ stage \in {"analyze", "install"}
    BY <2>2, CallFacts DEF StructureInv, Calling
  <2>5. stage = "analyze" => Analyzing /\ Self \in Top.set
    BY <2>2, <2>4 DEF StructureInv, Calling
  <2>6. nodes'[Self] = v /\ \A m \in Node : m # Self => nodes'[m] = nodes[m]
    BY <2>3, <2>4, OneNode DEF StructureInv, Typed
  <2>7. Steady
    BY <2>3, <2>4, <2>5, <2>6 DEF Steady
  <2>8. Marked' = Marked
    BY <2>3 DEF Marked, Analyzing, Top
  <2> QED
    BY <2>3, <2>4, <2>7, <2>8, SteadyKeeps
<1> QED
  BY <1>1, <1>2, <1>3

\* What a step of BinaryInstaller changes of the nodes.
InstallNodes(n) ==
  \/ nodes' = nodes
  \/ /\ n \in todo.level
     /\ \/ nodes' = [nodes EXCEPT ![n] = Transitive(n)]
        \/ \E p \in Nat : nodes' = [nodes EXCEPT ![n] = [Transitive(n) EXCEPT !.prev = p]]
  \/ /\ n \in todo.level /\ nodes[n].binary = "unknown"
     /\ nodes' = [nodes EXCEPT ![n] = [Computed(n) EXCEPT !.binary = "none"]]

LEMMA InstallStepNodes ==
  ASSUME StructureInv, NEW n \in present,
         \/ Download(n) \/ Pass(n) \/ Reevaluate(n) \/ RaiseMissing(n) \/ HandleAgain(n)
         \/ Build(n) \/ DownloadLate(n) \/ UseCached(n)
  PROVE  /\ stage \in {"download", "install"} /\ stage' \in {"download", "install", "broken", "missing"}
         /\ UNCHANGED <<world, present, frames, evaluated>> /\ InstallNodes(n)
<1>t. nodes[n].prev \in Nat /\ \A k \in DOMAIN processed : processed[k] \in Nat
  BY DEF StructureInv, Typed, IsNode
<1>1. CASE Download(n)
  BY <1>1 DEF Download, Stop, analysis, InstallNodes
<1>2. CASE Pass(n)
  BY <1>2 DEF Pass, Installing, IsNext, analysis, PropagateInfo, InstallNodes, EditablePrev
<1>3. CASE Reevaluate(n)
  BY <1>3 DEF Reevaluate, Installing, IsNext, Stop, analysis, InstallNodes
<1>4. CASE RaiseMissing(n)
  BY <1>4, HandleFacts DEF RaiseMissing, Stop, analysis, InstallNodes
<1>5. ASSUME NEW p \in Nat, HandleNow(n), Handled(n, p)
      PROVE  /\ stage = "install" /\ stage' = "install"
             /\ UNCHANGED <<world, present, frames, evaluated>> /\ InstallNodes(n)
  BY <1>5, HandleFacts DEF Handled, PropagateInfo, analysis, InstallNodes
<1>6. CASE HandleAgain(n)
  BY <1>t, <1>5, <1>6 DEF HandleAgain, IsProcessed
<1>7. CASE Build(n)
  BY <1>5, <1>7 DEF Build, NewPrev
<1>8. CASE DownloadLate(n)
  BY <1>t, <1>5, <1>8, HandleFacts DEF DownloadLate, Stop, analysis, InstallNodes
<1>9. CASE UseCached(n)
  BY <1>t, <1>5, <1>9, HandleFacts DEF UseCached, Stop, analysis, InstallNodes
<1> QED
  BY <1>1, <1>2, <1>3, <1>4, <1>6, <1>7, <1>8, <1>9

LEMMA InstallStepSkip ==
  ASSUME StructureInv, SkipInv, NEW n \in present,
         \/ Download(n) \/ Pass(n) \/ Reevaluate(n) \/ RaiseMissing(n) \/ HandleAgain(n)
         \/ Build(n) \/ DownloadLate(n) \/ UseCached(n)
  PROVE  SkipInv'
<1>1. /\ stage \in {"download", "install"} /\ stage' \in {"download", "install", "broken", "missing"}
      /\ UNCHANGED <<world, present, frames, evaluated>> /\ InstallNodes(n)
  BY InstallStepNodes
<1>2. Marked' = Marked
  BY <1>1 DEF Marked, Analyzing
<1>3. n \in Node /\ IsNode(nodes[n]) /\ Ref(n) \in Nat
  BY WorldFacts DEF StructureInv, Typed
<1>4. /\ IsNode(Transitive(n)) /\ Transitive(n).binary = nodes[n].binary /\ IsNode(Computed(n))
  BY <1>3, NodeTypes
<1>5. Steady
  <2>1. CASE nodes' = nodes
    BY <2>1 DEF Steady
  <2>2. CASE nodes' = [nodes EXCEPT ![n] = Transitive(n)]
    BY <1>1, <1>3, <1>4, <2>2, OneNode DEF Steady, StructureInv, Typed
  <2>3. ASSUME NEW p \in Nat, nodes' = [nodes EXCEPT ![n] = [Transitive(n) EXCEPT !.prev = p]]
        PROVE  Steady
    <3>1. [Transitive(n) EXCEPT !.prev = p].binary = nodes[n].binary
      BY <1>4 DEF IsNode, NodeFields
    <3> QED
      BY <1>1, <1>3, <2>3, <3>1, OneNode DEF Steady, StructureInv, Typed
  <2>4. CASE /\ nodes[n].binary = "unknown"
             /\ nodes' = [nodes EXCEPT ![n] = [Computed(n) EXCEPT !.binary = "none"]]
    <3>1. [Computed(n) EXCEPT !.binary = "none"].binary = "none"
      BY <1>4 DEF IsNode, NodeFields
    <3> QED
      BY <1>1, <1>3, <2>4, <3>1, OneNode DEF Steady, StructureInv, Typed
  <2> QED
    BY <1>1, <2>1, <2>2, <2>3, <2>4 DEF InstallNodes
<1> QED
  BY <1>1, <1>2, <1>5, SteadyKeeps

LEMMA StartFinishSkip ==
  ASSUME StructureInv, SkipInv, StartBuild \/ Finish
  PROVE  SkipInv'
<1>1. stage \in {"download", "install"} /\ stage' \in {"install", "done"} /\ UNCHANGED <<world, present>>
  BY DEF StartBuild, Finish, analysis
<1>2. Marked' = Marked
  BY <1>1 DEF Marked, Analyzing
<1>3. Root \in Node /\ IsNode(nodes[Root]) /\ Ref(Root) \in Nat
  BY WorldFacts DEF StructureInv, Typed
<1>4. Transitive(Root).binary = nodes[Root].binary
  BY <1>3, NodeTypes
<1>5. nodes' = nodes \/ nodes' = [nodes EXCEPT ![Root] = Transitive(Root)]
  BY DEF StartBuild, Finish, PropagateInfo
<1>6. Steady
  BY <1>1, <1>3, <1>4, <1>5, OneNode DEF Steady, StructureInv, Typed
<1> QED
  BY <1>1, <1>2, <1>6, SteadyKeeps

LEMMA SpecSkip == Spec => []SkipInv
<1>1. Init => SkipInv
  <2> SUFFICES ASSUME Init PROVE SkipInv
    OBVIOUS
  <2>1. StructureInv
    BY StructureInit
  <2>2. DOMAIN frames = 1..1
    BY DEF Init
  <2>3. frames # <<>> /\ Top = frames[1] /\ frames[1].phase = "evaluate" /\ frames[1].set = world.initial
    BY DEF Init, Top, Last, Frame
  <2>4. Marked = {}
    BY <2>3 DEF Marked, Analyzing, Init
  <2> QED
    BY <2>2, <2>4 DEF SkipInv, NeededKept, RootsKept
<1>2. StructureInv /\ SkipInv /\ [Next]_vars => SkipInv'
  <2> SUFFICES ASSUME StructureInv, SkipInv, [Next]_vars PROVE SkipInv'
    OBVIOUS
  <2>1. CASE UNCHANGED vars
    <3>1. /\ world' = world /\ present' = present /\ nodes' = nodes
          /\ frames' = frames /\ stage' = stage
      BY <2>1 DEF vars
    <3> QED
      BY <3>1 DEF SkipInv, NeededKept, RootsKept, Marked, Analyzing, Top, SkipsPrivate
  <2>2. CASE Next
    BY <2>2, EvaluateSkip, MarkSkip, RecurseSkip, ClassifySkip, EvaluateNodeSkip,
       InstallStepSkip, StartFinishSkip DEF Next
  <2> QED
    BY <2>1, <2>2
<1> QED
  BY <1>1, <1>2, SpecStructure, PTL DEF Spec

\* What a build is given, and the consumer, was installed before, and nothing of
\* it was skipped, whatever a private dependency was skipped for
\* (mark_private_skippable, _recurse_build_requires, by_levels).
THEOREM BuildsHaveTheirRequirements == Spec => []NothingNeededSkipped
<1>1. StructureInv /\ SkipInv => NothingNeededSkipped
  <2> SUFFICES ASSUME StructureInv, SkipInv, NEW n \in present,
                      \/ n = Root /\ stage = "done"
                      \/ n # Root /\ Installed(n) /\ nodes[n].binary = "build"
               PROVE  \A d \in Needed(n) : Installed(d) /\ nodes[d].binary # "skip"
    BY DEF NothingNeededSkipped
  <2>1. stage \in {"install", "done"} /\ Marked = present /\ NeededKept
    BY DEF Installed, Marked, Analyzing, SkipInv
  <2>2. /\ Ordered(todo, present \ {Root}) /\ world \in Worlds /\ nodes[Root].binary = "none"
        /\ present \subseteq Node /\ Root \notin todo.left
    BY <2>1 DEF StructureInv, Todo, Typed, Known, Ordered
  <2>3. nodes[n].binary \in {"none", "build"} /\ n \notin todo.left
    BY <2>2 DEF Installed
  <2>4. Into(n, Kinds) \cap todo.left = {}
    <3>1. CASE n = Root
      BY <3>1 DEF StructureInv, Todo
    <3>2. CASE n # Root
      BY <2>2, <2>3, <3>2 DEF Ordered
    <3> QED
      BY <3>1, <3>2
  <2> DEFINE S == {d \in present \ {Root} : d \notin todo.left /\ nodes[d].binary # "skip"}
             edges == {e \in world.edges : e[3] = "public"}
  <2>5. Neighbors(n) \subseteq S
    <3> SUFFICES ASSUME NEW d \in Neighbors(n) PROVE d \in S
      OBVIOUS
    <3>1. d \in Into(n, Kinds) /\ d \in present
      BY DEF Neighbors
    <3>2. PICK e \in world.edges : e[1] = n /\ e[2] = d
      BY <2>2, <3>1, IntoFacts
    <3>3. d # Root
      BY <2>2, <3>1, IntoFacts
    <3> QED
      BY <2>1, <2>3, <2>4, <3>1, <3>2, <3>3 DEF NeededKept, SkipsPrivate
  <2>6. ASSUME NEW e \in edges, e[1] \in S PROVE e[2] \in S
    <3>1. e[2] \in Requires(e[1]) /\ e[2] \in Into(e[1], Kinds) /\ e[2] # Root
      BY <2>2, IntoFacts, WorldFacts DEF Requires, Kinds
    <3>2. e[2] \in present
      BY <3>1, <2>6 DEF StructureInv, ClosedUp
    <3>3. nodes[e[2]].binary # "skip"
      BY <2>1, <2>6, <3>2 DEF NeededKept
    <3>4. e[2] \notin todo.left
      BY <2>2, <2>6, <3>1 DEF Ordered
    <3> QED
      BY <3>1, <3>2, <3>3, <3>4
  <2>7. S \in SUBSET present
    OBVIOUS
  <2>8. Needed(n) \subseteq S
    <3> HIDE DEF S, edges
    <3>1. Reached(present, Neighbors(n), edges) \subseteq S
      BY <2>5, <2>6, <2>7, ReachedFacts
    <3> QED
      BY <3>1 DEF Needed, edges
  <2> QED
    BY <2>1, <2>8 DEF Installed
<1> QED
  BY <1>1, SpecStructure, SpecSkip, PTL

-----------------------------------------------------------------------------
(* What a node was told of what it requires.                               *)

Triple(c) == <<Ref(c), nodes[c].id, nodes[c].prev>>
Info(n) == nodes[n].direct \cup nodes[n].indirect

\* All that a node requires, directly or not.
Below(n) == Reached(Node, Requires(n), {e \in world.edges : e[3] # "build"})

LEMMA BelowFacts ==
  ASSUME world \in Worlds, NEW n
  PROVE  /\ Below(n) \subseteq Node \ {Root} /\ Requires(n) \subseteq Below(n)
         /\ \A c \in Below(n) : Requires(c) \subseteq Below(n)
         /\ \A S \in SUBSET Node :
              Requires(n) \subseteq S /\ (\A c \in S : Requires(c) \subseteq S) => Below(n) \subseteq S
<1> DEFINE edges == {e \in world.edges : e[3] # "build"}
           below == Reached(Node, Requires(n), edges)
<1>r. /\ Requires(n) \subseteq Node \ {Root}
      /\ \A c : \A d : d \in Requires(c) <=> \E e \in edges : e[1] = c /\ e[2] = d
  BY IntoFacts, WorldFacts DEF Requires, Kinds
<1>1. /\ below \subseteq Node /\ Requires(n) \cap Node \subseteq below
      /\ \A e \in edges : e[1] \in below /\ e[2] \in Node => e[2] \in below
      /\ \A S \in SUBSET Node :
           Requires(n) \subseteq S /\ (\A e \in edges : e[1] \in S => e[2] \in S) => below \subseteq S
  BY ReachedFacts
<1>e. \A e \in edges : e[1] \in Node /\ e[2] \in Node \ {Root}
  BY WorldFacts
<1> HIDE DEF edges, below
<1>2. \A c \in below : Requires(c) \subseteq below
  BY <1>r, <1>1, <1>e
<1>3. ASSUME NEW S \in SUBSET Node, Requires(n) \subseteq S, \A c \in S : Requires(c) \subseteq S
      PROVE  below \subseteq S
  BY <1>r, <1>1, <1>3
<1>4. below \subseteq Node \ {Root}
  BY <1>1, <1>r, <1>e
<1> QED
  BY <1>1, <1>2, <1>3, <1>4, <1>r DEF Below, edges, below

LEMMA BelowStep ==
  ASSUME world \in Worlds, NEW n
  PROVE  /\ \A d \in Requires(n) : Below(d) \subseteq Below(n)
         /\ \A c \in Below(n) : c \in Requires(n) \/ \E d \in Requires(n) : c \in Below(d)
<1>1. \A d \in Requires(n) : Below(d) \subseteq Below(n)
  BY BelowFacts
<1> DEFINE S == Requires(n) \cup UNION {Below(d) : d \in Requires(n)}
<1>2. S \in SUBSET Node
  BY BelowFacts
<1>3. \A c \in S : Requires(c) \subseteq S
  BY BelowFacts
<1>4. Below(n) \subseteq S
  BY <1>2, <1>3, BelowFacts
<1> QED
  BY <1>1, <1>4

LEMMA OwnFacts ==
  ASSUME NEW n, NEW known, NEW neighbors
  PROVE  LET own == Requirements(n, known, neighbors)
             below == UNION {known[d].direct \cup known[d].indirect : d \in Requires(n)}
         IN  /\ own.direct = {Triple(d) : d \in Requires(n)}
             /\ own.indirect = below \ own.direct
             /\ own.direct \cup own.indirect = own.direct \cup below
             /\ world.fixed => own.used = CASE Width(Ref(n)) = 0 -> {}
                                            [] Width(Ref(n)) = 1 -> own.direct
                                            [] OTHER -> own.direct \cup own.indirect
<1> DEFINE own == Requirements(n, known, neighbors)
           direct == {<<Ref(d), nodes[d].id, nodes[d].prev>> : d \in Requires(n)}
           below == UNION {known[d].direct \cup known[d].indirect : d \in Requires(n)}
           indirect == below \ direct
           visible == {p \in indirect : world.fixed \/ \E d \in neighbors : \E q \in known[d].info :
                                                         q[1] = p[1] /\ q[2] = p[2]}
           info == IF Width(Ref(n)) = 0 THEN {} ELSE direct \cup visible
           used == CASE Width(Ref(n)) = 0 -> {}
                     [] Width(Ref(n)) = 1 -> direct
                     [] OTHER -> direct \cup visible
<1>1. own = [direct |-> direct, indirect |-> indirect, info |-> info, used |-> used]
  BY DEF Requirements
<1>2. world.fixed => visible = indirect
  OBVIOUS
<1>3. direct = {Triple(d) : d \in Requires(n)}
  BY DEF Triple
<1>4. world.fixed => used = CASE Width(Ref(n)) = 0 -> {}
                              [] Width(Ref(n)) = 1 -> direct
                              [] OTHER -> direct \cup indirect
  BY <1>2
<1>5. direct \cup indirect = direct \cup below
  OBVIOUS
<1> HIDE DEF own, direct, indirect, info, used, visible
<1>6. own.direct = direct /\ own.indirect = indirect /\ own.used = used
  BY <1>1
<1>7. indirect = below \ direct
  BY DEF indirect
<1> QED
  BY <1>3, <1>4, <1>5, <1>6, <1>7 DEF own

Done(n) == stage \in {"install", "done"} /\ n \in present \ {Root} /\ n \notin todo.left

\* Once a node was installed it knows what there is of its requirements.
ExactInv ==
  \A n \in Node : Done(n) =>
    /\ nodes[n].direct = Own(n).direct /\ nodes[n].indirect = Own(n).indirect
    /\ Info(n) = {Triple(c) : c \in Below(n)}

\* Everything below what was installed was installed too, and below what comes next.
LEMMA DoneBelow ==
  ASSUME StructureInv, stage \in {"install", "done"}, NEW n, Done(n) \/ n \in todo.level
  PROVE  /\ \A d \in Requires(n) : Done(d)
         /\ \A c \in Below(n) : Done(c)
<1> DEFINE S == {c \in Node : Done(c)}
<1>1. Ordered(todo, present \ {Root}) /\ world \in Worlds /\ present \subseteq Node /\ Marked = present
  BY DEF StructureInv, Typed, Todo, Marked, Analyzing
<1>2. ASSUME NEW c, Done(c) \/ c \in todo.level PROVE Requires(c) \subseteq S
  <2>1. c \in present /\ Into(c, Kinds) \cap todo.left = {}
    BY <1>1, <1>2 DEF Done, Ordered
  <2>2. Requires(c) \subseteq Into(c, Kinds) /\ Requires(c) \subseteq Node \ {Root}
    BY <1>1, IntoFacts, WorldFacts DEF Requires, Kinds
  <2>3. Requires(c) \subseteq present
    BY <2>1 DEF StructureInv, ClosedUp
  <2> QED
    BY <2>1, <2>2, <2>3 DEF Done
<1>3. Requires(n) \subseteq S /\ \A c \in S : Requires(c) \subseteq S
  BY <1>2
<1>4. S \in SUBSET Node
  OBVIOUS
<1>5. Below(n) \subseteq S
  <2> HIDE DEF S
  <2> QED
    BY <1>1, <1>3, <1>4, BelowFacts
<1> QED
  BY <1>3, <1>5


\* The installer is done with a node, which has revision p.
Leaves(n, p) ==
  /\ stage = "install" /\ n \in todo.level /\ n \in todo.left /\ n \in present \ {Root} /\ n \in Node
  /\ nodes'[n].id = nodes[n].id /\ nodes'[n].binary = nodes[n].binary
  /\ nodes'[n].nonSkip = nodes[n].nonSkip /\ nodes'[n].should = nodes[n].should
  /\ nodes'[n].prev = p
  /\ nodes'[n].direct = Own(n).direct /\ nodes'[n].indirect = Own(n).indirect
  /\ \A m \in Node : m # n => nodes'[m] = nodes[m]
  /\ todo'.left = todo.left \ {n} /\ call' = NoCall
  /\ UNCHANGED <<world, present, evaluated, frames, stage>>

LEMMA TransitiveFacts ==
  ASSUME NEW n, IsNode(nodes[n]), NEW p
  PROVE  LET v == [Transitive(n) EXCEPT !.prev = p] IN
         /\ v.id = nodes[n].id /\ v.binary = nodes[n].binary /\ v.nonSkip = nodes[n].nonSkip
         /\ v.should = nodes[n].should /\ v.prev = p
         /\ v.direct = Own(n).direct /\ v.indirect = Own(n).indirect
         /\ Transitive(n).id = nodes[n].id /\ Transitive(n).binary = nodes[n].binary
         /\ Transitive(n).nonSkip = nodes[n].nonSkip /\ Transitive(n).should = nodes[n].should
         /\ Transitive(n).prev = nodes[n].prev
         /\ Transitive(n).direct = Own(n).direct /\ Transitive(n).indirect = Own(n).indirect
<1> DEFINE d == Own(n).direct  i == Own(n).indirect
<1>1. Transitive(n) = [nodes[n] EXCEPT !.direct = d, !.indirect = i]
  BY DEF Transitive
<1> HIDE DEF d, i
<1> QED
  BY <1>1 DEF IsNode, NodeFields, d, i

LEMMA HandledLeaves ==
  ASSUME StructureInv, NEW n, HandleNow(n), NEW p, Handled(n, p)
  PROVE  /\ Leaves(n, p)
         /\ processed' = IF p = NoPrev THEN processed ELSE With(processed, Key(n), p)
<1> DEFINE v == [Transitive(n) EXCEPT !.prev = p]
<1>1. /\ nodes' = [nodes EXCEPT ![n] = v] /\ todo' = Past(n, todo) /\ call' = NoCall
      /\ processed' = IF p = NoPrev THEN processed ELSE With(processed, Key(n), p)
      /\ UNCHANGED <<world, present, evaluated, frames, stage>>
  BY DEF Handled, PropagateInfo, analysis
<1>2. stage = "install" /\ n \in todo.level
  BY HandleFacts
<1>3. /\ n \in present \ {Root} /\ n \in Node /\ n \in todo.left /\ IsNode(nodes[n])
      /\ todo'.left = todo.left \ {n}
  BY <1>1, <1>2, TodoPast
<1>4. /\ nodes'[n] = v /\ \A m \in Node : m # n => nodes'[m] = nodes[m]
  BY <1>1, <1>3, OneNode DEF StructureInv, Typed
<1>5. /\ v.id = nodes[n].id /\ v.binary = nodes[n].binary /\ v.nonSkip = nodes[n].nonSkip
      /\ v.should = nodes[n].should /\ v.prev = p
      /\ v.direct = Own(n).direct /\ v.indirect = Own(n).indirect
  BY <1>3, TransitiveFacts
<1> HIDE DEF v
<1> QED
  BY <1>1, <1>2, <1>3, <1>4, <1>5 DEF Leaves

LEMMA PassLeaves ==
  ASSUME StructureInv, NEW n \in present, Pass(n)
  PROVE  /\ Leaves(n, IF nodes[n].binary = "skip" THEN nodes[n].prev ELSE EditablePrev)
         /\ nodes[n].binary \in {"skip", "editable"} /\ UNCHANGED <<facts, processed>>
<1> DEFINE p == IF nodes[n].binary = "skip" THEN nodes[n].prev ELSE EditablePrev
           v == IF nodes[n].binary = "skip" THEN Transitive(n)
                ELSE [Transitive(n) EXCEPT !.prev = EditablePrev]
<1>1. /\ nodes' = [nodes EXCEPT ![n] = v] /\ todo' = Past(n, todo) /\ call' = call /\ call = NoCall
      /\ UNCHANGED <<world, present, evaluated, frames, facts, processed, stage>>
      /\ nodes[n].binary \in {"skip", "editable"}
      /\ stage = "install" /\ n \in todo.level
  BY DEF Pass, PropagateInfo, analysis, Installing, IsNext
<1>3. /\ n \in present \ {Root} /\ n \in Node /\ n \in todo.left /\ IsNode(nodes[n])
      /\ todo'.left = todo.left \ {n}
  BY <1>1, TodoPast
<1>4. /\ nodes'[n] = v /\ \A m \in Node : m # n => nodes'[m] = nodes[m]
  BY <1>1, <1>3, OneNode DEF StructureInv, Typed
<1>5. /\ v.id = nodes[n].id /\ v.binary = nodes[n].binary /\ v.nonSkip = nodes[n].nonSkip
      /\ v.should = nodes[n].should /\ v.prev = p
      /\ v.direct = Own(n).direct /\ v.indirect = Own(n).indirect
  BY <1>3, TransitiveFacts
<1> HIDE DEF v
<1>6. Leaves(n, p)
  BY <1>1, <1>3, <1>4, <1>5 DEF Leaves
<1> QED
  BY <1>1, <1>6

\* How a package is handled, and when the installer gives up.
LEMMA HandleCases ==
  ASSUME StructureInv, NEW n \in present,
         \/ RaiseMissing(n) \/ HandleAgain(n) \/ Build(n) \/ DownloadLate(n) \/ UseCached(n)
  PROVE  /\ HandleNow(n) /\ stage = "install"
         /\ \/ Stop("missing") /\ nodes[n].binary = "missing"
            \/ /\ Stop("broken")
               /\ \/ nodes[n].binary \in {"download", "update"} /\ facts[Key(n)].remote # nodes[n].prev
                  \/ nodes[n].binary \in {"cache", "invalid"} /\ CacheOf(Key(n)) = NoPrev
            \/ \E p : /\ Leaves(n, p)
                      /\ processed' = IF p = NoPrev THEN processed ELSE With(processed, Key(n), p)
                      /\ \/ /\ Key(n) \in DOMAIN processed /\ p = processed[Key(n)] /\ facts' = facts
                            /\ nodes[n].binary # "missing"
                         \/ /\ Key(n) \notin DOMAIN processed /\ InCache(Key(n), p)
                            /\ nodes[n].binary = "build" /\ p \in {1, NewPrev}
                         \/ /\ Key(n) \notin DOMAIN processed /\ InCache(Key(n), p)
                            /\ nodes[n].binary \in {"download", "update"}
                            /\ facts[Key(n)].remote = p /\ p = nodes[n].prev
                         \/ /\ Key(n) \notin DOMAIN processed /\ facts' = facts
                            /\ nodes[n].binary \in {"cache", "invalid"}
                            /\ CacheOf(Key(n)) # NoPrev /\ p = nodes[n].prev
<1>0. HandleNow(n)
  BY DEF RaiseMissing, HandleAgain, Build, DownloadLate, UseCached
<1>s. stage = "install"
  BY <1>0, HandleFacts
<1> DEFINE left(p) == /\ Leaves(n, p)
                      /\ processed' = IF p = NoPrev THEN processed ELSE With(processed, Key(n), p)
<1>h. \A p : Handled(n, p) => left(p)
  BY <1>0, HandledLeaves
<1>1. CASE RaiseMissing(n)
  BY <1>0, <1>s, <1>1 DEF RaiseMissing
<1>2. CASE HandleAgain(n)
  BY <1>0, <1>s, <1>2, <1>h DEF HandleAgain, IsProcessed
<1>3. CASE Build(n)
  BY <1>0, <1>s, <1>3, <1>h DEF Build, IsProcessed
<1>4. CASE DownloadLate(n)
  BY <1>0, <1>s, <1>4, <1>h DEF DownloadLate, IsProcessed
<1>5. CASE UseCached(n)
  BY <1>0, <1>s, <1>5, <1>h DEF UseCached, IsProcessed
<1> QED
  BY <1>1, <1>2, <1>3, <1>4, <1>5

\* What a step of the installation changes of the nodes.
LEMMA InstallChange ==
  ASSUME StructureInv, stage = "install", Next
  PROVE  /\ world' = world /\ present' = present
         /\ \A m \in Node : m \notin todo.left /\ m # Root => nodes'[m] = nodes[m]
         /\ stage' \in {"install", "done"} =>
              \/ todo'.left = todo.left
              \/ \E n \in todo.left : \E p : Leaves(n, p)
<1>1. ASSUME NEW n \in present, Pass(n) PROVE \E p : Leaves(n, p)
  BY <1>1, PassLeaves
<1>2. ASSUME NEW n \in present, NEW p, Leaves(n, p)
      PROVE  /\ world' = world /\ present' = present /\ n \in todo.left
             /\ \A m \in Node : m \notin todo.left /\ m # Root => nodes'[m] = nodes[m]
  BY <1>2 DEF Leaves
<1>3. ASSUME NEW why, Stop(why)
      PROVE  world' = world /\ present' = present /\ nodes' = nodes /\ todo' = todo
  BY <1>3 DEF Stop, analysis
<1>4. ASSUME NEW n \in present, Reevaluate(n)
      PROVE  /\ world' = world /\ present' = present /\ todo' = todo
             /\ \A m \in Node : m \notin todo.left /\ m # Root => nodes'[m] = nodes[m]
  <2>1. n \in todo.level
    BY <1>4 DEF Reevaluate, Installing, IsNext
  <2>2. n \in todo.left /\ n \in Node
    BY <2>1, TodoPast
  <2>3. CASE Stop("broken")
    BY <1>3, <2>3
  <2>4. CASE ~Stop("broken")
    <3>1. /\ nodes' = [nodes EXCEPT ![n] = [Computed(n) EXCEPT !.binary = "none"]]
          /\ UNCHANGED <<world, present, todo>>
      BY <1>4, <2>4 DEF Reevaluate, analysis
    <3> QED
      BY <2>2, <3>1, OneNode DEF StructureInv, Typed
  <2> QED
    BY <2>3, <2>4
<1>5. ASSUME EvaluateNode
      PROVE  /\ world' = world /\ present' = present /\ todo' = todo
             /\ \A m \in Node : m \notin todo.left /\ m # Root => nodes'[m] = nodes[m]
  <2>1. CASE FailTwice \/ EndEvaluation
    BY <2>1 DEF FailTwice, EndEvaluation, analysis
  <2>2. CASE ~(FailTwice \/ EndEvaluation)
    <3>1. call # NoCall
      BY <1>5, <2>2, CallSteps DEF EvaluateNode
    <3>2. PICK v : CallOn(v)
      BY <1>5, <2>2, CallSteps DEF EvaluateNode
    <3>3. Self \in todo.level /\ Self \in Node
      BY <3>1, CallFacts DEF StructureInv, Calling, Analyzing
    <3>4. Self \in todo.left
      BY <3>3, TodoPast
    <3> QED
      BY <3>2, <3>3, <3>4, OneNode DEF CallOn, StructureInv, Typed
  <2> QED
    BY <2>1, <2>2
<1>6. ASSUME Finish
      PROVE  /\ world' = world /\ present' = present /\ todo' = todo
             /\ \A m \in Node : m \notin todo.left /\ m # Root => nodes'[m] = nodes[m]
  <2>1. nodes' = [nodes EXCEPT ![Root] = PropagateInfo(Root)] /\ UNCHANGED <<world, present, todo>>
    BY <1>6 DEF Finish, analysis
  <2>2. Root \in Node
    BY WorldFacts DEF StructureInv, Typed
  <2> QED
    BY <2>1, <2>2, OneNode DEF StructureInv, Typed
<1>7. ASSUME NEW n \in present,
             \/ RaiseMissing(n) \/ HandleAgain(n) \/ Build(n) \/ DownloadLate(n) \/ UseCached(n)
      PROVE  (\E why : Stop(why)) \/ (\E p : Leaves(n, p))
  BY <1>7, HandleCases
<1>8. \/ \E n \in present : Pass(n) \/ Reevaluate(n)
      \/ \E n \in present : \/ RaiseMissing(n) \/ HandleAgain(n) \/ Build(n)
                            \/ DownloadLate(n) \/ UseCached(n)
      \/ EvaluateNode \/ Finish
  BY DEF Next, Evaluate, RecurseBuildRequires, Download, MarkPrivateSkippable, Classify, StartBuild, In
<1>9. ASSUME NEW n \in present, NEW p, Leaves(n, p)
      PROVE  \E m \in todo.left : \E q : Leaves(m, q)
  BY <1>2, <1>9
<1>10. CASE \E n \in present : \E p : Leaves(n, p)
  BY <1>2, <1>9, <1>10
<1>11. CASE \E why : Stop(why)
  BY <1>3, <1>11
<1> QED
  BY <1>1, <1>4, <1>5, <1>6, <1>7, <1>8, <1>10, <1>11


LEMMA StaticBelow ==
  ASSUME world' = world
  PROVE  \A n : Below(n)' = Below(n)
BY DEF Below, Reached, Requires, Into, Node

OwnShape ==
  \A n : /\ Own(n).direct = {Triple(d) : d \in Requires(n)}
         /\ Own(n).indirect =
              (UNION {nodes[d].direct \cup nodes[d].indirect : d \in Requires(n)}) \ Own(n).direct

LEMMA OwnHasShape == OwnShape
<1> SUFFICES ASSUME NEW n
             PROVE  /\ Own(n).direct = {Triple(d) : d \in Requires(n)}
                    /\ Own(n).indirect =
                         (UNION {nodes[d].direct \cup nodes[d].indirect : d \in Requires(n)})
                           \ Own(n).direct
  BY DEF OwnShape
<1> DEFINE neighbors == Neighbors(n)
           own == Requirements(n, nodes, neighbors)
<1>1. /\ own.direct = {Triple(d) : d \in Requires(n)}
      /\ own.indirect = (UNION {nodes[d].direct \cup nodes[d].indirect : d \in Requires(n)}) \ own.direct
  <2> HIDE DEF neighbors
  <2> QED
    BY OwnFacts
<1>2. own = Own(n)
  BY DEF Own
<1> QED
  BY <1>1, <1>2
\* Nodes that did not change, with what they require.
LEMMA SameBelow ==
  ASSUME world' = world, world \in Worlds, NEW n \in Node,
         \A c \in Below(n) : nodes'[c] = nodes[c]
  PROVE  /\ \A c \in Below(n) : Triple(c)' = Triple(c)
         /\ {Triple(c) : c \in Below(n)}' = {Triple(c) : c \in Below(n)}
         /\ Own(n)'.direct = Own(n).direct /\ Own(n)'.indirect = Own(n).indirect
<1>1. Below(n)' = Below(n) /\ Requires(n)' = Requires(n) /\ Requires(n) \subseteq Below(n)
  BY StaticBelow, Static, BelowFacts
<1>2. \A c \in Below(n) : Triple(c)' = Triple(c)
  BY DEF Triple, Ref
<1>3. {Triple(c) : c \in Below(n)}' = {Triple(c) : c \in Below(n)}
  BY <1>1, <1>2
<1> DEFINE below == UNION {nodes[d].direct \cup nodes[d].indirect : d \in Requires(n)}
<1>4. Own(n).direct = {Triple(d) : d \in Requires(n)} /\ Own(n).indirect = below \ Own(n).direct
  BY OwnHasShape DEF OwnShape
<1>p. OwnShape'
  BY OwnHasShape, PTL
<1>5. Own(n)'.direct = {Triple(d) : d \in Requires(n)}' /\ Own(n)'.indirect = below' \ Own(n)'.direct
  BY <1>p DEF OwnShape
<1>6. {Triple(d) : d \in Requires(n)}' = {Triple(d) : d \in Requires(n)}
  BY <1>1, <1>2
<1>7. below' = below
  BY <1>1
<1> QED
  BY <1>2, <1>3, <1>4, <1>5, <1>6, <1>7

\* What a node knows of its requirements, and of what they know.
LEMMA OwnInfo ==
  ASSUME NEW n
  PROVE  Own(n).direct \cup Own(n).indirect =
           {Triple(d) : d \in Requires(n)} \cup UNION {Info(d) : d \in Requires(n)}
<1> DEFINE below == UNION {nodes[d].direct \cup nodes[d].indirect : d \in Requires(n)}
<1>1. Own(n).direct = {Triple(d) : d \in Requires(n)} /\ Own(n).indirect = below \ Own(n).direct
  BY OwnHasShape DEF OwnShape
<1>2. below = UNION {Info(d) : d \in Requires(n)}
  BY DEF Info
<1> HIDE DEF below
<1> QED
  BY <1>1, <1>2

LEMMA SpecExact == Spec => []ExactInv
<1>1. Init => ExactInv
  BY DEF Init, ExactInv, Done
<1>2. StructureInv /\ StructureInv' /\ ExactInv /\ [Next]_vars => ExactInv'
  <2> SUFFICES ASSUME StructureInv, StructureInv', ExactInv, [Next]_vars PROVE ExactInv'
    OBVIOUS
  <2>w. world \in Worlds
    BY DEF StructureInv, Typed
  <2>1. ASSUME world' = world, present' = present, stage' \in {"install", "done"},
               stage \in {"install", "done"},
               \A m \in Node : m \notin todo.left /\ m # Root => nodes'[m] = nodes[m],
               \/ todo'.left = todo.left
               \/ \E n \in todo.left : \E p : Leaves(n, p)
        PROVE  ExactInv'
    <3> SUFFICES ASSUME NEW n \in Node, Done(n)'
                 PROVE  /\ nodes'[n].direct = Own(n)'.direct /\ nodes'[n].indirect = Own(n)'.indirect
                        /\ Info(n)' = {Triple(c) : c \in Below(n)}'
      BY <2>1, Static DEF ExactInv
    <3>1. n \in present \ {Root} /\ n \notin todo'.left
      BY <2>1 DEF Done
    <3>2. ASSUME Done(n) \/ n \in todo.level
          PROVE  /\ {Triple(c) : c \in Below(n)}' = {Triple(c) : c \in Below(n)}
                 /\ Own(n)'.direct = Own(n).direct /\ Own(n)'.indirect = Own(n).indirect
      <4>1. \A c \in Below(n) : Done(c)
        BY <2>1, <3>2, DoneBelow
      <4>2. \A c \in Below(n) : nodes'[c] = nodes[c]
        BY <2>1, <2>w, <4>1, BelowFacts DEF Done
      <4> QED
        BY <2>1, <2>w, <4>2, SameBelow
    <3>3. CASE n \notin todo.left
      <4>1. Done(n) /\ nodes'[n] = nodes[n]
        BY <2>1, <3>1, <3>3 DEF Done
      <4>2. Info(n)' = Info(n)
        BY <4>1 DEF Info
      <4> QED
        BY <3>2, <4>1, <4>2 DEF ExactInv
    <3>4. CASE n \in todo.left
      <4>1. PICK p : Leaves(n, p)
        BY <2>1, <3>1, <3>4 DEF Leaves
      <4>2. n \in todo.level /\ nodes'[n].direct = Own(n).direct /\ nodes'[n].indirect = Own(n).indirect
        BY <4>1 DEF Leaves
      <4>3. Info(n)' = Own(n).direct \cup Own(n).indirect
        BY <4>2 DEF Info
      <4>4. \A d \in Requires(n) : d \in Node /\ Done(d)
        BY <2>1, <2>w, <4>2, DoneBelow, BelowFacts
      <4>5. Info(n)' = {Triple(d) : d \in Requires(n)} \cup UNION {Info(d) : d \in Requires(n)}
        BY <4>3, OwnInfo
      <4>6. \A d \in Requires(n) : Info(d) = {Triple(c) : c \in Below(d)}
        BY <4>4 DEF ExactInv
      <4>7. Info(n)' = {Triple(c) : c \in Below(n)}
        <5>1. ASSUME NEW x, x \in Info(n)' PROVE \E c \in Below(n) : x = Triple(c)
          <6>1. CASE \E d \in Requires(n) : x = Triple(d)
            BY <2>w, <6>1, BelowFacts
          <6>2. CASE \E d \in Requires(n) : x \in Info(d)
            BY <2>w, <4>6, <6>2, BelowStep
          <6> QED
            BY <4>5, <5>1, <6>1, <6>2
        <5>2. ASSUME NEW c \in Below(n) PROVE Triple(c) \in Info(n)'
          <6>1. CASE c \in Requires(n)
            BY <4>5, <6>1
          <6>2. CASE \E d \in Requires(n) : c \in Below(d)
            BY <4>5, <4>6, <6>2
          <6> QED
            BY <2>w, <6>1, <6>2, BelowStep
        <5> QED
          BY <5>1, <5>2
      <4> QED
        BY <3>2, <4>2, <4>7
    <3> QED
      BY <3>3, <3>4
  <2>2. CASE UNCHANGED vars
    <3>1. /\ world' = world /\ present' = present /\ nodes' = nodes /\ todo' = todo /\ stage' = stage
      BY <2>2 DEF vars
    <3>2. stage \notin {"install", "done"} => ExactInv'
      BY <3>1 DEF ExactInv, Done
    <3> QED
      BY <2>1, <3>1, <3>2
  <2>3. CASE Next /\ stage = "install"
    <3>1. stage' \notin {"install", "done"} => ExactInv'
      BY DEF ExactInv, Done
    <3> QED
      BY <2>1, <2>3, <3>1, InstallChange
  <2>4. CASE Next /\ stage # "install"
    <3>1. \/ stage' \notin {"install", "done"}
          \/ stage' = "install" /\ present' \ {Root} = todo'.left
      <4>1. CASE StartBuild
        BY <4>1 DEF StartBuild, Walk, analysis
      <4>2. CASE \/ MarkPrivateSkippable \/ Classify \/ Finish
                \/ \E n \in present : Evaluate(n) \/ RecurseBuildRequires(n) \/ Download(n)
        BY <2>4, <4>2 DEF MarkPrivateSkippable, Classify, Finish, Evaluate, RecurseBuildRequires,
           Download, In, Stop
      <4>3. CASE EvaluateNode
        <5>1. CASE FailTwice \/ EndEvaluation
          BY <5>1 DEF FailTwice, EndEvaluation
        <5>2. CASE ~(FailTwice \/ EndEvaluation)
          <6>1. call # NoCall /\ call.step # "handle" /\ \E v : CallOn(v)
            BY <4>3, <5>2, CallSteps DEF EvaluateNode
          <6> QED
            BY <2>4, <6>1, CallFacts DEF CallOn
        <5> QED
          BY <5>1, <5>2
      <4>4. CASE \E n \in present : \/ Pass(n) \/ Reevaluate(n) \/ RaiseMissing(n) \/ HandleAgain(n)
                                    \/ Build(n) \/ DownloadLate(n) \/ UseCached(n)
        BY <2>4, <4>4, HandleCases DEF Pass, Reevaluate, Installing
      <4> QED
        BY <2>4, <4>1, <4>2, <4>3, <4>4 DEF Next
    <3> QED
      BY <3>1 DEF ExactInv, Done
  <2> QED
    BY <2>2, <2>3, <2>4
<1> QED
  BY <1>1, <1>2, SpecStructure, PTL DEF Spec


-----------------------------------------------------------------------------
(* What was decided for a package, for graphs without compatible ones.     *)

NoneCompatible == \A n \in Node : world.compatible[Config(n)] = <<>>

Decided(n) == n \in Node /\ Decision(n) \in Real

Should == \A n \in Node : nodes[n].should => Decision(n) \in {"invalid", "build"}

CallInv ==
  call # NoCall =>
    /\ call.own /\ call.rest = <<>> /\ call.id = nodes[Self].id /\ call.id # Unknown
    /\ call.step = "process" => nodes[Self].prev = NoPrev
    /\ call.step = "handle" => nodes[Self].binary \in Real

\* A package is decided once, for all its nodes.
Shared ==
  /\ \A k \in DOMAIN evaluated : Decided(evaluated[k]) /\ Key(evaluated[k]) = k /\ k[2] # Unknown
  /\ \A n \in Node : Decided(n) =>
       /\ Key(n) \in DOMAIN evaluated /\ Decision(n) = Decision(evaluated[Key(n)])
       /\ nodes[n].id = Invalid => Decision(n) = "invalid"

\* What may be built is missing only until that is concluded, and no other node
\* has inherited it.
Pending(n) == call # NoCall /\ call.step = "compatible" /\ n = Self
MissingAlone ==
  \A n \in Node : Decision(n) = "missing" /\ Allowed(Ref(n)) =>
    Pending(n) /\ \A m \in Node : Decided(m) /\ Key(m) = Key(n) => m = n

\* The revision of a node is the one that was found, or made.
Revision(n) ==
  LET k == Key(n)
      p == nodes[n].prev
      d == Decision(n)
  IN  /\ d # "invalid" => k \in DOMAIN facts
      /\ d = "cache" => p = facts[k].cache
      /\ d \in {"download", "update"} => p = facts[k].remote
      /\ d \in {"cache", "download", "update"} =>
           p # NoPrev /\ (k \in DOMAIN processed => processed[k] = p)
      /\ d = "build" => p = NoPrev \/ (k \in DOMAIN processed /\ processed[k] = p)
      /\ d \in {"missing", "invalid"} => p = NoPrev /\ k \notin DOMAIN processed
Revisions == \A n \in Node : Decided(n) => Revision(n)

Processed ==
  \A k \in DOMAIN processed :
    /\ k \in DOMAIN evaluated /\ k \in DOMAIN facts
    /\ facts[k].cache = processed[k] /\ processed[k] # NoPrev

UnknownInv ==
  \A n \in Node : nodes[n].binary = "unknown" => nodes[n].prev = NoPrev /\ nodes[n].id = Unknown

Downloads == stage = "download" => \A n \in todo.left : nodes[n].binary \in {"download", "update"}

DoneInv ==
  \A n \in Node : Done(n) =>
    /\ nodes[n].binary # "unknown"
    /\ nodes[n].binary = "editable" => nodes[n].prev # NoPrev
    /\ nodes[n].binary \in Real \ {"invalid"} =>
         Key(n) \in DOMAIN processed /\ nodes[n].prev = processed[Key(n)]

BrokenInv == stage = "broken" => \E n \in present : Unsettled(n)

\* What is known of packages, and where the installation is.
PackagesInv == Should /\ Shared /\ MissingAlone /\ Revisions /\ Processed /\ UnknownInv
DecisionInv == PackagesInv /\ CallInv /\ Downloads /\ DoneInv /\ BrokenInv

LEMMA DecidedFacts ==
  ASSUME StructureInv, NEW n, Decided(n)
  PROVE  /\ n \in present \ {Root} /\ n \in Node /\ n \notin Unevaluated /\ IsNode(nodes[n]) /\ Ref(n) \in Nat
         /\ nodes[n].binary \in Real \/ (nodes[n].binary = "skip" /\ nodes[n].nonSkip \in Real)
<1>1. n \in Node /\ IsNode(nodes[n]) /\ Ref(n) \in Nat
  BY WorldFacts DEF Decided, StructureInv, Typed
<1>2. nodes[n].binary \in Real \/ (nodes[n].binary = "skip" /\ nodes[n].nonSkip \in Real)
  BY DEF Decided, Decision
<1>3. nodes[n].binary # "none"
  BY <1>2 DEF Real
<1>4. n # Root /\ nodes[n] # NewNode
  BY <1>3, NewNodeFacts DEF StructureInv, Known
<1> QED
  BY <1>1, <1>2, <1>4 DEF StructureInv, Known

\* Steps that change nothing of what was decided, ...
QuietNode(n) ==
  IF Decided(n)
  THEN /\ nodes'[n].id = nodes[n].id /\ nodes'[n].should = nodes[n].should
       /\ nodes'[n].prev = nodes[n].prev
       /\ Decision(n)' = Decision(n) /\ nodes'[n].binary # "unknown"
  ELSE /\ Decision(n)' \notin Real /\ ~nodes'[n].should
       /\ nodes'[n].binary = "unknown" => nodes'[n].prev = NoPrev /\ nodes'[n].id = Unknown
Quiet == UNCHANGED <<world, facts, evaluated, processed>> /\ \A n \in Node : QuietNode(n)

LEMMA SameIsQuiet ==
  ASSUME StructureInv, PackagesInv, NEW n \in Node,
         nodes'[n].id = nodes[n].id, nodes'[n].should = nodes[n].should,
         nodes'[n].nonSkip = nodes[n].nonSkip, nodes'[n].binary = nodes[n].binary,
         Decided(n) \/ nodes[n].binary = "unknown" => nodes'[n].prev = nodes[n].prev
  PROVE  QuietNode(n)
<1>1. Decision(n)' = Decision(n)
  BY DEF Decision
<1>2. CASE Decided(n)
  <2>1. nodes[n].binary # "unknown"
    BY <1>2 DEF Decided, Decision, Real
  <2> QED
    BY <1>1, <1>2, <2>1 DEF QuietNode
<1>3. CASE ~Decided(n)
  <2>1. Decision(n) \notin Real
    BY <1>3 DEF Decided
  <2>2. nodes[n].should \in BOOLEAN
    BY DEF StructureInv, Typed, IsNode
  <2>3. ~nodes[n].should
    BY <2>1, <2>2 DEF PackagesInv, Should, Real
  <2> QED
    BY <1>1, <1>3, <2>1, <2>3 DEF QuietNode, PackagesInv, UnknownInv
<1> QED
  BY <1>2, <1>3

LEMMA QuietKeeps ==
  ASSUME PackagesInv, Quiet,
         \/ call' = call \/ call = NoCall \/ call.step # "compatible"
         \/ ~(Decision(Self) = "missing" /\ Allowed(Ref(Self)))
  PROVE  PackagesInv'
<1> USE DEF Quiet
<1>1. Node' = Node /\ \A n : Ref(n)' = Ref(n) /\ Allowed(Ref(n))' = Allowed(Ref(n))
  BY Static DEF Allowed, Ref
<1>2. \A n \in Node : Decided(n)' <=> Decided(n)
  <2>1. ASSUME NEW n \in Node PROVE Decided(n)' <=> Decided(n)
    <3>1. CASE Decided(n)
      <4>1. Decision(n)' = Decision(n) /\ Decision(n) \in Real
        BY <3>1 DEF QuietNode, Decided
      <4> QED
        BY <1>1, <2>1, <3>1, <4>1 DEF Decided
    <3>2. CASE ~Decided(n)
      BY <3>2, <2>1 DEF QuietNode, Decided
    <3> QED
      BY <3>1, <3>2
  <2> QED
    BY <2>1
<1>d. \A n \in Node : Decided(n) =>
        /\ Key(n)' = Key(n) /\ Decision(n)' = Decision(n)
        /\ nodes'[n].id = nodes[n].id /\ nodes'[n].prev = nodes[n].prev
  BY <1>1 DEF Key, QuietNode
<1>3. Should' /\ UnknownInv'
  <2>1. ASSUME NEW n \in Node, nodes'[n].should PROVE Decision(n)' \in {"invalid", "build"}
    BY <2>1 DEF QuietNode, PackagesInv, Should
  <2>2. ASSUME NEW n \in Node, nodes'[n].binary = "unknown"
        PROVE  nodes'[n].prev = NoPrev /\ nodes'[n].id = Unknown
    BY <2>2 DEF QuietNode
  <2> QED
    BY <1>1, <2>1, <2>2 DEF Should, UnknownInv
<1>4. Shared'
  <2>1. \A k \in DOMAIN evaluated : evaluated[k] \in Node /\ Decided(evaluated[k]) /\ Key(evaluated[k]) = k
                                   /\ k[2] # Unknown
    BY DEF PackagesInv, Shared, Decided
  <2>2. ASSUME NEW k \in DOMAIN evaluated
        PROVE  Decided(evaluated[k])' /\ Key(evaluated[k])' = k
    <3>1. PICK e : e = evaluated[k]
      OBVIOUS
    <3>2. Decided(e)' /\ Key(e)' = k /\ evaluated'[k] = e
      BY <1>2, <1>d, <2>1, <3>1
    <3> QED
      BY <3>2 DEF Decided, Decision, Key, Ref, Node
  <2>3. ASSUME NEW n \in Node, Decided(n)'
        PROVE  /\ Key(n)' \in DOMAIN evaluated' /\ Decision(n)' = Decision(evaluated[Key(n)])'
               /\ nodes'[n].id = Invalid => Decision(n)' = "invalid"
    <3>1. Decided(n)
      BY <1>2, <2>3
    <3>2. PICK k : k = Key(n)
      OBVIOUS
    <3>3. PICK e : e = evaluated[k]
      OBVIOUS
    <3>4. /\ k \in DOMAIN evaluated /\ Decision(n) = Decision(e)
          /\ nodes[n].id = Invalid => Decision(n) = "invalid"
      BY <3>1, <3>2, <3>3 DEF PackagesInv, Shared
    <3>5. Key(n)' = k /\ Decision(n)' = Decision(n) /\ Decision(e)' = Decision(e) /\ evaluated'[k] = e
      BY <1>d, <2>1, <3>1, <3>2, <3>3, <3>4
    <3>6. Decision(evaluated[Key(n)])' = Decision(e)'
      BY <3>5 DEF Decision
    <3> QED
      BY <1>d, <3>1, <3>4, <3>5, <3>6
  <2> QED
    BY <1>1, <2>1, <2>2, <2>3 DEF Shared
<1>5. MissingAlone'
  <2>1. ASSUME NEW n \in Node, Decision(n)' = "missing", Allowed(Ref(n))
        PROVE  Pending(n)' /\ \A m \in Node : Decided(m)' /\ Key(m)' = Key(n)' => m = n
    <3>0. Decided(n) /\ Decision(n) = "missing"
      <4>1. Decision(n)' \in Real
        BY <2>1 DEF Real
      <4> QED
        BY <2>1, <4>1, <1>d DEF QuietNode
    <3>1. Pending(n) /\ \A m \in Node : Decided(m) /\ Key(m) = Key(n) => m = n
      BY <2>1, <3>0 DEF PackagesInv, MissingAlone
    <3>2. n = Self /\ call # NoCall /\ call.step = "compatible"
      BY <3>1 DEF Pending
    <3>3. call' = call
      BY <2>1, <3>0, <3>2
    <3>4. Pending(n)'
      BY <3>2, <3>3 DEF Pending, Self
    <3>5. ASSUME NEW m \in Node, Decided(m)', Key(m)' = Key(n)' PROVE m = n
      BY <1>2, <1>d, <3>0, <3>1, <3>5
    <3> QED
      BY <3>4, <3>5
  <2> QED
    BY <1>1, <2>1 DEF MissingAlone
<1>6. \A n \in Node : Decided(n) => (Revision(n)' <=> Revision(n))
  BY <1>d DEF Revision
<1>7. Revisions' /\ Processed'
  BY <1>1, <1>2, <1>6 DEF PackagesInv, Revisions, Processed
<1> QED
  BY <1>3, <1>4, <1>5, <1>7 DEF PackagesInv

\* ... and that handle a package.
Handles(n, p) ==
  LET k == Key(n)
  IN  /\ Decided(n) /\ Decision(n) \notin {"missing", "invalid"} /\ p # NoPrev
      /\ DOMAIN facts' = DOMAIN facts
      /\ facts'[k].cache = p /\ facts'[k].remote = facts[k].remote
      /\ \A j \in DOMAIN facts : j # k => facts'[j] = facts[j]
      /\ processed' = With(processed, k, p) /\ (k \in DOMAIN processed => processed[k] = p)
      /\ Decision(n) # "build" => nodes[n].prev = p
      /\ UNCHANGED <<world, evaluated>>
      /\ \A m \in Node :
           /\ nodes'[m].id = nodes[m].id /\ nodes'[m].should = nodes[m].should
           /\ nodes'[m].binary = nodes[m].binary /\ nodes'[m].nonSkip = nodes[m].nonSkip
           /\ nodes'[m].prev = nodes[m].prev \/ (m = n /\ nodes'[m].prev = p)

LEMMA HandlesKeeps ==
  ASSUME PackagesInv, NEW n, NEW p, Handles(n, p), call = NoCall \/ call.step # "compatible"
  PROVE  PackagesInv'
<1> USE DEF Handles
<1> DEFINE k == Key(n)
<1>1. Node' = Node /\ \A m : Ref(m)' = Ref(m) /\ Allowed(Ref(m))' = Allowed(Ref(m))
  BY Static DEF Allowed, Ref
<1>2. \A m \in Node : Key(m)' = Key(m) /\ Decision(m)' = Decision(m) /\ (Decided(m)' <=> Decided(m))
  BY <1>1 DEF Key, Decided, Decision
<1>3. Should' /\ UnknownInv'
  <2>1. nodes[n].binary # "unknown"
    BY DEF Decided, Decision, Real
  <2> QED
    BY <1>1, <1>2, <2>1 DEF PackagesInv, Should, UnknownInv
<1>4. Shared'
  <2>1. \A j \in DOMAIN evaluated : evaluated[j] \in Node
    BY DEF PackagesInv, Shared, Decided
  <2> QED
    BY <1>1, <1>2, <2>1 DEF PackagesInv, Shared
<1>5. MissingAlone'
  BY <1>1, <1>2 DEF PackagesInv, MissingAlone, Pending
<1>f. Decided(n) /\ n \in Node /\ Revision(n) /\ k \in DOMAIN facts /\ k \in DOMAIN evaluated
  BY DEF PackagesInv, Revisions, Revision, Decided, Shared
<1>p. /\ DOMAIN processed' = DOMAIN processed \cup {k} /\ processed'[k] = p
      /\ \A j \in DOMAIN processed : j # k => processed'[j] = processed[j]
  BY DEF With
<1>6. Processed'
  <2>1. ASSUME NEW j \in DOMAIN processed'
        PROVE  /\ j \in DOMAIN evaluated' /\ j \in DOMAIN facts'
               /\ facts'[j].cache = processed'[j] /\ processed'[j] # NoPrev
    <3>1. CASE j = k
      BY <1>f, <1>p, <3>1
    <3>2. CASE j # k
      BY <1>p, <2>1, <3>2 DEF PackagesInv, Processed
    <3> QED
      BY <3>1, <3>2
  <2> QED
    BY <2>1 DEF Processed
<1>7. ASSUME NEW m \in Node, Decided(m) PROVE Revision(m)'
  <2>1. Revision(m) /\ Key(m)' = Key(m) /\ Decision(m)' = Decision(m) /\ Decision(m) \in Real
    BY <1>2, <1>7 DEF PackagesInv, Revisions, Decided
  <2>2. CASE Key(m) # k
    <3>1. nodes'[m].prev = nodes[m].prev
      BY <2>2
    <3>2. Key(m) \in DOMAIN processed' <=> Key(m) \in DOMAIN processed
      BY <1>p, <2>2
    <3> QED
      BY <1>p, <2>1, <2>2, <3>1, <3>2 DEF Revision
  <2>3. CASE Key(m) = k
    <3>1. Decision(m) = Decision(n)
      BY <1>7, <1>f, <2>3 DEF PackagesInv, Shared
    <3>2. Decision(n) \in {"build", "cache", "update", "download"}
      BY <2>1, <3>1 DEF Real
    <3>3. CASE Decision(n) = "build"
      <4>1. nodes[m].prev = NoPrev \/ nodes[m].prev = p
        BY <2>1, <2>3, <3>1, <3>3 DEF Revision
      <4>2. nodes'[m].prev = NoPrev \/ nodes'[m].prev = p
        BY <4>1
      <4> QED
        BY <1>f, <1>p, <2>1, <2>3, <3>1, <3>3, <4>2 DEF Revision
    <3>4. CASE Decision(n) # "build"
      <4>1. nodes[m].prev = p
        BY <1>f, <2>1, <2>3, <3>1, <3>2, <3>4 DEF Revision
      <4>2. nodes'[m].prev = p
        BY <4>1
      <4> QED
        BY <1>f, <1>p, <2>1, <2>3, <3>1, <3>2, <3>4, <4>1, <4>2 DEF Revision
    <3> QED
      BY <3>3, <3>4
  <2> QED
    BY <2>2, <2>3
<1>8. Revisions'
  BY <1>1, <1>2, <1>7 DEF Revisions
<1> QED
  BY <1>3, <1>4, <1>5, <1>6, <1>8 DEF PackagesInv


\* The decision for the node of a call.
Decides(v) ==
  /\ call # NoCall /\ Processing /\ Self' = Self /\ call' # NoCall /\ nodes'[Self] = v
  /\ \A m \in Node : m # Self => nodes'[m] = nodes[m]
  /\ v.id = nodes[Self].id /\ v.binary \in Real
  /\ v.should => v.binary \in {"invalid", "build"}
  /\ v.id = Invalid => v.binary = "invalid"
  /\ v.binary = "missing" => call'.step = "compatible"
  /\ UNCHANGED <<world, processed>>
  /\ \/ /\ CallKey \in DOMAIN evaluated /\ UNCHANGED <<evaluated, facts>>
        /\ v.binary = Decision(evaluated[CallKey]) /\ v.prev = nodes[evaluated[CallKey]].prev
     \/ /\ CallKey \notin DOMAIN evaluated /\ evaluated' = With(evaluated, CallKey, Self)
        /\ facts' = facts \/ \E f \in Fact : facts' = With(facts, CallKey, f)
        /\ v.binary # "invalid" => CallKey \in DOMAIN facts'
        /\ v.binary = "cache" => v.prev = facts'[CallKey].cache /\ v.prev # NoPrev
        /\ v.binary \in {"download", "update"} => v.prev = facts'[CallKey].remote /\ v.prev # NoPrev
        /\ v.binary \in {"build", "missing", "invalid"} => v.prev = NoPrev

LEMMA DecidesKeeps ==
  ASSUME StructureInv, PackagesInv, CallInv, NEW v, Decides(v)
  PROVE  PackagesInv'
<1> USE DEF Decides
<1>s. /\ Self \in Node /\ Self # Root /\ nodes[Self].binary = "none" /\ Ref(Self) \in Nat
      /\ call.step = "process" /\ Key(Self) = CallKey /\ call.id # Unknown
  BY CallFacts DEF Processing, CallInv, Key, CallKey
<1>1. Node' = Node /\ \A m : Ref(m)' = Ref(m) /\ Allowed(Ref(m))' = Allowed(Ref(m))
  BY Static DEF Allowed, Ref
<1>2. \A m \in Node : Key(m)' = Key(m)
  BY <1>1 DEF Key
<1>3. \A m \in Node : m # Self => Decision(m)' = Decision(m) /\ (Decided(m)' <=> Decided(m))
  BY <1>1 DEF Decided, Decision
<1>4. ~Decided(Self) /\ Decided(Self)' /\ Decision(Self)' = v.binary /\ Decision(Self) = "none"
  BY <1>1, <1>s DEF Decided, Decision, Real
<1>5. Should' /\ UnknownInv'
  BY <1>1, <1>3, <1>4 DEF PackagesInv, Should, UnknownInv, Real
<1>f. /\ DOMAIN facts \subseteq DOMAIN facts' /\ \A j \in DOMAIN facts : facts'[j] = facts[j]
      /\ DOMAIN evaluated \subseteq DOMAIN evaluated' /\ \A j \in DOMAIN evaluated : evaluated'[j] = evaluated[j]
      /\ DOMAIN evaluated' = DOMAIN evaluated \cup {CallKey}
      /\ evaluated'[CallKey] = Self \/ evaluated' = evaluated
  BY DEF With, Fact
<1>6. \A j \in DOMAIN evaluated : /\ evaluated[j] \in Node /\ evaluated[j] # Self /\ Decided(evaluated[j])
                                  /\ Key(evaluated[j]) = j /\ j[2] # Unknown
  BY <1>4 DEF PackagesInv, Shared, Decided
<1>7. Shared'
  <2>e. ASSUME NEW j \in DOMAIN evaluated', NEW e, e = evaluated'[j]
        PROVE  /\ e \in Node /\ Decided(e)' /\ Key(e)' = j /\ j[2] # Unknown
               /\ e # Self => j \in DOMAIN evaluated /\ e = evaluated[j] /\ Decision(e)' = Decision(e)
               /\ e = Self => j = CallKey
    <3>1. CASE j \in DOMAIN evaluated
      <4>1. e = evaluated[j]
        BY <1>f, <2>e, <3>1
      <4>2. e \in Node /\ e # Self /\ Decided(e) /\ Key(e) = j /\ j[2] # Unknown
        BY <1>6, <3>1, <4>1
      <4> QED
        BY <1>2, <1>3, <3>1, <4>1, <4>2
    <3>2. CASE j \notin DOMAIN evaluated
      <4>1. j = CallKey /\ e = Self
        BY <1>f, <2>e, <3>2
      <4>2. j[2] # Unknown
        BY <1>s, <4>1 DEF CallKey
      <4> QED
        BY <1>2, <1>4, <1>s, <4>1, <4>2
    <3> QED
      BY <3>1, <3>2
  <2>1. ASSUME NEW j \in DOMAIN evaluated'
        PROVE  Decided(evaluated[j])' /\ Key(evaluated[j])' = j /\ j[2] # Unknown
    <3>1. PICK e : e = evaluated'[j]
      OBVIOUS
    <3>2. Decided(e)' /\ Key(e)' = j /\ j[2] # Unknown
      BY <2>e, <3>1
    <3> QED
      BY <3>1, <3>2 DEF Decided, Decision, Key, Ref, Node
  <2>3. ASSUME NEW m \in Node, Decided(m)'
        PROVE  /\ Key(m)' \in DOMAIN evaluated' /\ Decision(m)' = Decision(evaluated[Key(m)])'
               /\ nodes'[m].id = Invalid => Decision(m)' = "invalid"
    <3>1. PICK j : j = Key(m)
      OBVIOUS
    <3>2. Key(m)' = j
      BY <1>2, <3>1
    <3>3. PICK e : e = evaluated'[j]
      OBVIOUS
    <3>4. Decision(evaluated[Key(m)])' = Decision(e)'
      BY <3>2, <3>3 DEF Decision
    <3>5. CASE m # Self
      <4>1. Decided(m)
        BY <1>3, <2>3, <3>5
      <4>2. /\ j \in DOMAIN evaluated /\ Decision(m) = Decision(evaluated[j])
            /\ nodes[m].id = Invalid => Decision(m) = "invalid"
        BY <3>1, <4>1 DEF PackagesInv, Shared
      <4>3. e = evaluated[j] /\ j \in DOMAIN evaluated' /\ e # Self
        BY <1>6, <1>f, <3>3, <4>2
      <4>4. Decision(e)' = Decision(e)
        BY <2>e, <3>3, <4>3
      <4> QED
        BY <1>3, <3>2, <3>4, <3>5, <4>2, <4>3, <4>4
    <3>6. CASE m = Self
      <4>1. j = CallKey /\ Decision(m)' = v.binary /\ j \in DOMAIN evaluated'
        BY <1>s, <1>4, <1>f, <3>1, <3>6
      <4>2. Decision(e)' = v.binary
        <5>1. CASE e = Self
          BY <1>4, <5>1
        <5>2. CASE e # Self
          <6>1. j \in DOMAIN evaluated /\ e = evaluated[j] /\ Decision(e)' = Decision(e)
            BY <2>e, <3>3, <4>1, <5>2
          <6>2. v.binary = Decision(evaluated[CallKey])
            BY <4>1, <6>1
          <6> QED
            BY <4>1, <6>1, <6>2
        <5> QED
          BY <5>1, <5>2
      <4>3. nodes'[m].id = Invalid => Decision(m)' = "invalid"
        BY <3>6, <4>1
      <4> QED
        BY <3>2, <3>4, <4>1, <4>2, <4>3
    <3> QED
      BY <3>5, <3>6
  <2> QED
    BY <1>1, <2>1, <2>3 DEF Shared
<1>8. MissingAlone'
  <2>1. ASSUME NEW m \in Node, Decision(m)' = "missing", Allowed(Ref(m))
        PROVE  Pending(m)' /\ \A o \in Node : Decided(o)' /\ Key(o)' = Key(m)' => o = m
    <3>1. m = Self
      <4>1. Pending(m) => call.step = "compatible"
        BY DEF Pending
      <4> QED
        BY <1>s, <1>3, <2>1, <4>1 DEF PackagesInv, MissingAlone
    <3>2. v.binary = "missing"
      BY <1>4, <2>1, <3>1
    <3>3. Pending(m)'
      BY <3>1, <3>2 DEF Pending
    <3>4. CallKey \notin DOMAIN evaluated
      <4> SUFFICES ASSUME CallKey \in DOMAIN evaluated PROVE FALSE
        OBVIOUS
      <4> DEFINE e == evaluated[CallKey]
      <4>1. e \in Node /\ Key(e) = CallKey /\ Decision(e) = "missing"
        BY <1>6, <3>2
      <4>2. Ref(e) = Ref(Self)
        BY <4>1 DEF Key, CallKey
      <4>3. Pending(e)
        BY <2>1, <3>1, <4>1, <4>2 DEF PackagesInv, MissingAlone
      <4> QED
        BY <1>s, <4>3 DEF Pending
    <3>5. ASSUME NEW o \in Node, Decided(o)', Key(o)' = Key(m)', o # Self PROVE FALSE
      <4>1. Decided(o) /\ Key(o) = CallKey
        BY <1>2, <1>3, <1>s, <3>1, <3>5
      <4> QED
        BY <3>4, <4>1 DEF PackagesInv, Shared
    <3> QED
      BY <3>1, <3>3, <3>5
  <2> QED
    BY <1>1, <2>1 DEF MissingAlone
<1>9. Processed'
  BY <1>f DEF PackagesInv, Processed
<1>10. ASSUME NEW m \in Node, Decided(m)' PROVE Revision(m)'
  <2>1. CASE m # Self
    <3>1. Decided(m) /\ Revision(m) /\ Key(m)' = Key(m) /\ Decision(m)' = Decision(m) /\ nodes'[m] = nodes[m]
      BY <1>2, <1>3, <1>10, <2>1 DEF PackagesInv, Revisions
    <3>2. Decision(m) # "invalid" => Key(m) \in DOMAIN facts
      BY <3>1 DEF Revision
    <3>3. Decision(m) # "invalid" => Key(m) \in DOMAIN facts' /\ facts'[Key(m)] = facts[Key(m)]
      BY <1>f, <3>2
    <3> QED
      BY <3>1, <3>3 DEF Revision
  <2>2. CASE m = Self
    <3>1. Key(m)' = CallKey /\ Decision(m)' = v.binary /\ nodes'[m].prev = v.prev
      BY <1>2, <1>s, <1>4, <2>2
    <3>2. CASE CallKey \in DOMAIN evaluated
      <4> DEFINE e == evaluated[CallKey]
      <4>1. e \in Node /\ Decided(e) /\ Key(e) = CallKey /\ Decision(e) = v.binary /\ nodes[e].prev = v.prev
        BY <1>6, <3>2
      <4>2. Revision(e) /\ facts' = facts
        BY <3>2, <4>1 DEF PackagesInv, Revisions
      <4> HIDE DEF e
      <4> QED
        BY <3>1, <4>1, <4>2 DEF Revision
    <3>3. CASE CallKey \notin DOMAIN evaluated
      <4>1. CallKey \notin DOMAIN processed
        BY <3>3 DEF PackagesInv, Processed
      <4> QED
        BY <3>1, <3>3, <4>1 DEF Revision
    <3> QED
      BY <3>2, <3>3
  <2> QED
    BY <2>1, <2>2
<1>11. Revisions'
  BY <1>1, <1>10 DEF Revisions
<1> QED
  BY <1>5, <1>7, <1>8, <1>9, <1>11 DEF PackagesInv


LEMMA EvaluationFacts ==
  ASSUME NoneCompatible, NEW n \in Node, NEW id
  PROVE  LET c == Evaluation(n, id)
         IN  c.rest = <<>> /\ c.own /\ c.id = id /\ c.step = "process" /\ c.node = n /\ c # NoCall
<1> DEFINE rest == [i \in DOMAIN world.compatible[Config(n)] |-> IdWith(n, world.compatible[Config(n)][i])]
<1>1. rest = <<>>
  <2>1. world.compatible[Config(n)] = <<>>
    BY DEF NoneCompatible
  <2>2. rest = [i \in DOMAIN <<>> |-> IdWith(n, <<>>[i])]
    BY <2>1
  <2>3. [i \in DOMAIN <<>> |-> IdWith(n, <<>>[i])] = <<>>
    OBVIOUS
  <2> QED
    BY <2>2, <2>3
<1>2. Evaluation(n, id) = [step |-> "process", node |-> n, own |-> TRUE, id |-> id,
                           mode |-> world.buildMode, rest |-> rest]
  BY DEF Evaluation
<1> HIDE DEF rest
<1>3. /\ Evaluation(n, id).rest = rest /\ Evaluation(n, id).own = TRUE /\ Evaluation(n, id).id = id
      /\ Evaluation(n, id).step = "process" /\ Evaluation(n, id).node = n
  BY <1>2
<1>4. Evaluation(n, id) # NoCall
  BY <1>3 DEF NoCall
<1> QED
  BY <1>1, <1>3, <1>4

LEMMA EvaluateDecision ==
  ASSUME StructureInv, NoneCompatible, DecisionInv, NEW n \in present, Evaluate(n)
  PROVE  DecisionInv'
<1> DEFINE label == CASE n = Root -> "none"
                      [] n # Root /\ Ref(n) \in world.editable -> "editable"
                      [] OTHER -> IF Computed(n).id = Unknown THEN "unknown" ELSE "none"
           v == [Computed(n) EXCEPT !.binary = label]
<1>1. /\ In("evaluate") /\ n \in Top.todo.level /\ nodes' = [nodes EXCEPT ![n] = v]
      /\ call' = IF label = "none" /\ n # Root THEN Evaluation(n, Computed(n).id) ELSE NoCall
      /\ UNCHANGED <<world, present, facts, evaluated, todo, processed, stage>>
  BY DEF Evaluate, IsNext
<1>2. /\ stage = "analyze" /\ call = NoCall /\ frames # <<>> /\ Analyzing /\ Unevaluated = Top.todo.left
  BY <1>1, InFacts
<1>3. n \in Unevaluated /\ n \in Node /\ Ref(n) \in Nat
  BY <1>1, <1>2, TopOf, WorldFacts DEF StructureInv, Typed, Ordered
<1>4. nodes[n] = NewNode
  BY <1>3 DEF StructureInv, Known
<1>5. /\ IsNode(Computed(n)) /\ Computed(n).prev = NoPrev /\ Computed(n).should = FALSE
  <2>1. IsNode(nodes[n]) /\ nodes[n].prev = NoPrev /\ nodes[n].should = FALSE
    BY <1>4, NewNodeFacts DEF NewNode
  <2>2. IsNode(Computed(n)) /\ Computed(n).prev = NoPrev
    BY <1>3, <2>1, NodeTypes
  <2>3. Computed(n).should = nodes[n].should
    BY <2>1 DEF Computed, Transitive, IsNode, NodeFields
  <2> QED
    BY <2>1, <2>2, <2>3
<1>6. /\ v.binary = label /\ v.prev = NoPrev /\ v.should = FALSE /\ v.id = Computed(n).id
      /\ label \in {"none", "editable", "unknown"} /\ (label = "unknown" => v.id = Unknown)
      /\ (label = "none" /\ n # Root => v.id # Unknown)
  BY <1>5 DEF IsNode, NodeFields
<1> HIDE DEF v, label
<1>7. nodes'[n] = v /\ \A m \in Node : m # n => nodes'[m] = nodes[m]
  BY <1>1, <1>3, OneNode DEF StructureInv, Typed
<1>8. QuietNode(n)
  <2>1. ~Decided(n)
    BY <1>4, NewNodeFacts DEF Decided, Decision, Real
  <2>2. Decision(n)' = label /\ label \notin Real
    BY <1>6, <1>7 DEF Decision, Real
  <2> QED
    BY <1>6, <1>7, <2>1, <2>2 DEF QuietNode
<1>9. Quiet
  BY <1>1, <1>7, <1>8, SameIsQuiet DEF Quiet, DecisionInv
<1>10. PackagesInv'
  BY <1>2, <1>9, QuietKeeps DEF DecisionInv
<1>11. CallInv'
  <2> SUFFICES ASSUME call' # NoCall
               PROVE  /\ call'.own /\ call'.rest = <<>> /\ call'.id = nodes'[Self'].id /\ call'.id # Unknown
                      /\ call'.step = "process" /\ nodes'[Self'].prev = NoPrev
    BY DEF CallInv
  <2>1. call' = Evaluation(n, Computed(n).id) /\ label = "none" /\ n # Root
    BY <1>1
  <2>2. /\ call'.rest = <<>> /\ call'.own /\ call'.id = Computed(n).id /\ call'.step = "process"
        /\ call'.node = n
    BY <1>3, <2>1, EvaluationFacts
  <2>3. Self' = n
    BY <2>2 DEF Self
  <2> QED
    BY <1>6, <1>7, <2>1, <2>2, <2>3
<1>12. Downloads' /\ DoneInv' /\ BrokenInv'
  BY <1>1, <1>2 DEF Downloads, DoneInv, Done, BrokenInv
<1> QED
  BY <1>10, <1>11, <1>12 DEF DecisionInv

LEMMA MarkDecision ==
  ASSUME StructureInv, DecisionInv, MarkPrivateSkippable
  PROVE  DecisionInv'
<1>1. /\ In("evaluate") /\ Top.todo.left = {}
      /\ UNCHANGED <<world, present, facts, evaluated, call, todo, processed, stage>>
      /\ \A n \in Node :
           IF n \in Top.set \ Public
           THEN nodes'[n] = [nodes[n] EXCEPT !.nonSkip = nodes[n].binary, !.binary = "skip"]
           ELSE nodes'[n] = nodes[n]
  BY Marking
<1>2. stage = "analyze" /\ call = NoCall /\ Marked = present \ Top.set /\ Top.set \subseteq present
  BY <1>1, InFacts, Marking
<1>3. ASSUME NEW n \in Node PROVE QuietNode(n)
  <2>1. CASE n \notin Top.set \ Public
    BY <1>1, <2>1, SameIsQuiet DEF DecisionInv
  <2>2. CASE n \in Top.set \ Public
    <3>1. nodes[n].binary # "skip" /\ IsNode(nodes[n])
      BY <1>2, <2>2 DEF StructureInv, Known, Typed
    <3>2. /\ nodes'[n].id = nodes[n].id /\ nodes'[n].prev = nodes[n].prev
          /\ nodes'[n].should = nodes[n].should /\ nodes'[n].binary = "skip"
          /\ nodes'[n].nonSkip = nodes[n].binary
      BY <1>1, <2>2, <3>1 DEF IsNode, NodeFields
    <3>3. Decision(n)' = Decision(n)
      BY <3>1, <3>2 DEF Decision
    <3>4. ~Decided(n) => Decision(n) \notin Real /\ ~nodes[n].should
      BY <3>1 DEF Decided, DecisionInv, PackagesInv, Should, Real, IsNode
    <3> QED
      BY <3>2, <3>3, <3>4 DEF QuietNode
  <2> QED
    BY <2>1, <2>2
<1>4. PackagesInv'
  BY <1>1, <1>2, <1>3, QuietKeeps DEF Quiet, DecisionInv
<1>5. CallInv' /\ Downloads' /\ DoneInv' /\ BrokenInv'
  BY <1>1, <1>2 DEF CallInv, Downloads, DoneInv, Done, BrokenInv
<1> QED
  BY <1>4, <1>5 DEF DecisionInv

\* Steps that leave the nodes alone.
LEMMA SameNodesDecision ==
  ASSUME StructureInv, DecisionInv, UNCHANGED <<world, nodes, facts, evaluated, processed>>,
         call' = call \/ call' = NoCall, call' = call \/ call = NoCall \/ call.step # "compatible"
  PROVE  PackagesInv' /\ CallInv'
<1>1. \A n \in Node : QuietNode(n)
  BY SameIsQuiet DEF DecisionInv
<1>2. PackagesInv'
  BY <1>1, QuietKeeps DEF Quiet, DecisionInv
<1>3. CallInv'
  BY DEF DecisionInv, CallInv, Self
<1> QED
  BY <1>2, <1>3

LEMMA OtherDecision ==
  ASSUME StructureInv, StructureInv', DecisionInv,
         \/ \E n \in present : RecurseBuildRequires(n)
         \/ Classify \/ StartBuild \/ FailTwice \/ EndEvaluation
  PROVE  DecisionInv'
<1>1. /\ UNCHANGED <<world, nodes, facts, evaluated, processed>>
      /\ call' = call \/ (call' = NoCall /\ call.step \in {"process", "handle"})
  <2>1. CASE (\E n \in present : RecurseBuildRequires(n)) \/ Classify \/ StartBuild
    BY <2>1 DEF RecurseBuildRequires, Classify, StartBuild, analysis
  <2>2. CASE FailTwice \/ EndEvaluation
    BY <2>2 DEF FailTwice, EndEvaluation, Processing, analysis
  <2> QED
    BY <2>1, <2>2
<1>2. PackagesInv' /\ CallInv'
  BY <1>1, SameNodesDecision
<1>3. CASE \E n \in present : RecurseBuildRequires(n)
  <2>1. stage = "analyze" /\ stage' = "analyze"
    BY <1>3 DEF RecurseBuildRequires, In
  <2> QED
    BY <1>2, <2>1 DEF DecisionInv, Downloads, DoneInv, Done, BrokenInv
<1>4. CASE Classify
  <2>1. /\ stage = "analyze" /\ stage' \in {"analyze", "invalid", "missing", "download"}
        /\ stage' = "download" => todo' = AtOnce({n \in present : nodes[n].binary \in {"download", "update"}})
    BY <1>4 DEF Classify, In
  <2>2. stage' = "download" => \A n \in todo'.left : nodes[n].binary \in {"download", "update"}
    BY <2>1 DEF AtOnce
  <2> QED
    BY <1>1, <1>2, <2>1, <2>2 DEF DecisionInv, Downloads, DoneInv, Done, BrokenInv
<1>5. CASE StartBuild
  <2>1. stage' = "install" /\ todo'.left = present \ {Root} /\ present' = present
    BY <1>5 DEF StartBuild, Walk, analysis
  <2> QED
    BY <1>2, <2>1 DEF DecisionInv, Downloads, DoneInv, Done, BrokenInv
<1>6. CASE FailTwice
  <2>1. stage' = "failed"
    BY <1>6 DEF FailTwice
  <2> QED
    BY <1>2, <2>1 DEF DecisionInv, Downloads, DoneInv, Done, BrokenInv
<1>7. CASE EndEvaluation
  <2>1. stage' = "analyze"
    BY <1>7 DEF EndEvaluation
  <2> QED
    BY <1>2, <2>1 DEF DecisionInv, Downloads, DoneInv, Done, BrokenInv
<1> QED
  BY <1>3, <1>4, <1>5, <1>6, <1>7


\* A step of a call, for what was done before and what is left to do.
LEMMA SelfDecision ==
  ASSUME StructureInv, DecisionInv, call # NoCall, call.step # "handle",
         UNCHANGED <<world, present, processed, todo, stage>>,
         \A m \in Node : m # Self => nodes'[m] = nodes[m]
  PROVE  Downloads' /\ DoneInv' /\ BrokenInv'
<1>1. stage \in {"analyze", "install"}
  BY CallFacts
<1>2. stage = "install" => Self \in todo.left
  <2> SUFFICES ASSUME stage = "install" PROVE Self \in todo.left
    OBVIOUS
  <2>1. Self \in todo.level
    BY DEF StructureInv, Calling, Analyzing
  <2> QED
    BY <2>1, TodoPast
<1>3. DoneInv'
  <2> SUFFICES ASSUME NEW n \in Node, Done(n)'
               PROVE  /\ nodes'[n].binary # "unknown"
                      /\ nodes'[n].binary = "editable" => nodes'[n].prev # NoPrev
                      /\ nodes'[n].binary \in Real \ {"invalid"} =>
                           Key(n)' \in DOMAIN processed' /\ nodes'[n].prev = processed'[Key(n)']
    BY Static DEF DoneInv
  <2>1. Done(n) /\ n # Self
    BY <1>1, <1>2 DEF Done
  <2>2. nodes'[n] = nodes[n] /\ Key(n)' = Key(n)
    BY <2>1 DEF Key, Ref
  <2> QED
    BY <2>1, <2>2 DEF DecisionInv, DoneInv
<1> QED
  BY <1>1, <1>3 DEF Downloads, BrokenInv

LEMMA SettleDecision ==
  ASSUME StructureInv, DecisionInv, Processing, NEW node, Settle(node), IsNode(node),
         node.binary \in Real, node.id = nodes[Self].id,
         node.should => node.binary \in {"invalid", "build"},
         node.id = Invalid => node.binary = "invalid",
         \/ /\ CallKey \in DOMAIN evaluated /\ UNCHANGED <<evaluated, facts>>
            /\ node.binary = Decision(evaluated[CallKey]) /\ node.prev = nodes[evaluated[CallKey]].prev
         \/ /\ CallKey \notin DOMAIN evaluated /\ evaluated' = With(evaluated, CallKey, Self)
            /\ facts' = facts \/ \E f \in Fact : facts' = With(facts, CallKey, f)
            /\ node.binary # "invalid" => CallKey \in DOMAIN facts'
            /\ node.binary = "cache" => node.prev = facts'[CallKey].cache /\ node.prev # NoPrev
            /\ node.binary \in {"download", "update"} =>
                 node.prev = facts'[CallKey].remote /\ node.prev # NoPrev
            /\ node.binary \in {"build", "missing", "invalid"} => node.prev = NoPrev
  PROVE  DecisionInv'
<1>1. call # NoCall /\ call.step = "process"
  BY DEF Processing, NoCall
<1>2. /\ call = [f \in CallFields |-> call[f]] /\ Self \in Node /\ Self \in present
      /\ call.own /\ call.rest = <<>> /\ call.id = nodes[Self].id /\ call.id # Unknown
  BY <1>1, CallFacts DEF DecisionInv, CallInv
<1> DEFINE stop == node.binary \notin {"missing", "invalid"} \/ node.should
<1>3. /\ nodes' = [nodes EXCEPT ![Self] = node]
      /\ call' = [call EXCEPT !.step = IF ~stop THEN "compatible" ELSE "handle"]
      /\ UNCHANGED <<world, present, frames, todo, processed, stage>>
  BY <1>2 DEF Settle
<1>4. nodes'[Self] = node /\ \A m \in Node : m # Self => nodes'[m] = nodes[m]
  BY <1>2, <1>3, OneNode DEF StructureInv, Typed
<1>5. /\ call'.step = (IF ~stop THEN "compatible" ELSE "handle")
      /\ call'.own = call.own /\ call'.rest = call.rest /\ call'.id = call.id /\ call'.node = call.node
  BY <1>2, <1>3 DEF CallFields
<1>6. Self' = Self /\ call' # NoCall
  <2>1. call'.step # "none"
    BY <1>5
  <2> QED
    BY <1>5, <2>1 DEF Self, NoCall
<1>7. node.binary = "missing" => call'.step = "compatible"
  <2>1. node.should \in BOOLEAN
    BY DEF IsNode
  <2> QED
    BY <1>5, <2>1
<1>8. Decides(node)
  BY <1>1, <1>3, <1>4, <1>6, <1>7 DEF Decides
<1>9. PackagesInv'
  BY <1>8, DecidesKeeps DEF DecisionInv
<1>10. CallInv'
  BY <1>2, <1>4, <1>5, <1>6 DEF CallInv
<1>11. Downloads' /\ DoneInv' /\ BrokenInv'
  BY <1>1, <1>3, <1>4, SelfDecision
<1> QED
  BY <1>9, <1>10, <1>11 DEF DecisionInv

LEMMA ProcessDecision ==
  ASSUME StructureInv, DecisionInv, Inherit \/ RefuseInvalid \/ ForceBuild \/ LookUp
  PROVE  DecisionInv'
<1>0. Processing
  BY DEF Inherit, RefuseInvalid, ForceBuild, LookUp, BeFirst
<1>1. call # NoCall /\ call.step = "process"
  BY <1>0 DEF Processing, NoCall
<1>2. /\ Self \in Node /\ Self \in present /\ IsNode(nodes[Self]) /\ nodes[Self].binary = "none"
      /\ call.id = nodes[Self].id /\ nodes[Self].prev = NoPrev /\ call.id # Unknown
  BY <1>1, CallFacts DEF DecisionInv, CallInv
<1>3. nodes[Self].should = FALSE
  <2>1. Decision(Self) = "none"
    BY <1>2 DEF Decision
  <2> QED
    BY <1>2, <2>1 DEF IsNode, DecisionInv, PackagesInv, Should
<1>4. CASE Inherit
  <2> DEFINE first == evaluated[CallKey]
             node == [nodes[Self] EXCEPT !.binary = Decision(first), !.prev = nodes[first].prev,
                                         !.id = nodes[first].id]
  <2>1. /\ CallKey \in DOMAIN evaluated /\ IsNode(node)
        /\ node.binary = Decision(first) /\ node.prev = nodes[first].prev
        /\ node.id = nodes[first].id /\ node.should = nodes[Self].should
        /\ Settle(node) /\ UNCHANGED <<facts, evaluated>>
    BY <1>4, InheritFacts DEF IsCached
  <2>2. Decided(first) /\ Key(first) = CallKey
    BY <2>1 DEF DecisionInv, PackagesInv, Shared
  <2>3. nodes[first].id = call.id /\ Decision(first) \in Real
    BY <2>2 DEF Key, CallKey, Decided
  <2>4. nodes[first].id = Invalid => Decision(first) = "invalid"
    BY <2>2 DEF DecisionInv, PackagesInv, Shared, Decided
  <2> HIDE DEF node
  <2> QED
    BY <1>0, <1>2, <1>3, <2>1, <2>3, <2>4, SettleDecision
<1>5. CASE RefuseInvalid
  <2> DEFINE node == [nodes[Self] EXCEPT !.binary = "invalid",
                                         !.should = @ \/ Forced(call.mode, Ref(Self), FALSE)]
  <2>1. /\ CallKey \notin DOMAIN evaluated /\ evaluated' = With(evaluated, CallKey, Self)
        /\ Settle(node) /\ facts' = facts
    BY <1>5 DEF RefuseInvalid, BeFirst, IsCached
  <2>2. IsNode(node) /\ node.binary = "invalid" /\ node.prev = NoPrev /\ node.id = nodes[Self].id
    BY <1>2 DEF IsNode, NodeFields, Binaries, Real
  <2> HIDE DEF node
  <2> QED
    BY <1>0, <2>1, <2>2, SettleDecision DEF Real
<1>6. CASE ForceBuild
  <2> DEFINE node == ToBuild(Self, nodes[Self])
  <2>1. /\ CallKey \notin DOMAIN evaluated /\ evaluated' = With(evaluated, CallKey, Self)
        /\ Settle(node) /\ call.id # Invalid /\ \E f \in Fact : facts' = With(facts, CallKey, f)
    BY <1>6 DEF ForceBuild, BeFirst, IsCached
  <2>2. CallKey \in DOMAIN facts'
    BY <2>1 DEF With
  <2>3. /\ IsNode(node) /\ node.id = nodes[Self].id /\ node.prev = NoPrev
        /\ node.binary \in {"invalid", "build"}
    BY <1>2, ToBuildFacts
  <2> HIDE DEF node
  <2> QED
    BY <1>0, <1>2, <2>1, <2>2, <2>3, SettleDecision DEF Real
<1>7. CASE LookUp
  <2>1. PICK f \in Fact :
          LET found == Found(f, nodes[Self])
          IN  /\ facts' = With(facts, CallKey, f)
              /\ Settle(IF "outdated" \in call.mode.options /\ found.binary # "missing" /\ f.stale
                        THEN ToBuild(Self, found) ELSE found)
    BY <1>7 DEF LookUp
  <2> DEFINE found == Found(f, nodes[Self])
             outdated == "outdated" \in call.mode.options /\ found.binary # "missing" /\ f.stale
             node == IF outdated THEN ToBuild(Self, found) ELSE found
  <2>2. /\ CallKey \notin DOMAIN evaluated /\ evaluated' = With(evaluated, CallKey, Self)
        /\ Settle(node) /\ call.id # Invalid /\ facts' = With(facts, CallKey, f)
    BY <1>7, <2>1 DEF LookUp, BeFirst, IsCached
  <2>3. f \in FactType
    BY FactTyped
  <2>4. CallKey \in DOMAIN facts' /\ facts'[CallKey] = f
    BY <2>2 DEF With
  <2>5. /\ IsNode(found) /\ found.binary \in {"missing", "cache", "update", "download"}
        /\ found.id = nodes[Self].id /\ found.should = FALSE
        /\ found.binary = "cache" => found.prev = f.cache /\ found.prev # NoPrev
        /\ found.binary \in {"download", "update"} => found.prev = f.remote /\ found.prev # NoPrev
        /\ found.binary = "missing" => found.prev = NoPrev
    <3>1. LET updated == world.update /\ f.cache # NoPrev /\ f.remote > f.cache
          IN  /\ IsNode(found) /\ found.binary \in {"missing", "cache", "update", "download"}
              /\ found.id = nodes[Self].id /\ found.should = nodes[Self].should
              /\ found.prev = IF f.cache # NoPrev /\ ~updated THEN f.cache ELSE f.remote
              /\ found.binary = CASE updated -> "update"
                                  [] ~updated /\ f.cache # NoPrev -> "cache"
                                  [] OTHER -> IF f.remote # NoPrev THEN "download" ELSE "missing"
      BY <1>2, <2>3, FoundFacts
    <3>2. f.cache \in Nat /\ f.remote \in Nat
      BY <2>3 DEF FactType
    <3> HIDE DEF found
    <3> QED
      BY <1>3, <3>1, <3>2 DEF NoPrev
  <2>6. /\ IsNode(ToBuild(Self, found)) /\ ToBuild(Self, found).id = found.id
        /\ ToBuild(Self, found).prev = NoPrev /\ ToBuild(Self, found).binary \in {"invalid", "build"}
    BY <2>5, ToBuildFacts
  <2> HIDE DEF found, outdated
  <2>7. /\ IsNode(node) /\ node.id = nodes[Self].id /\ node.binary \in Real
        /\ node.should => node.binary \in {"invalid", "build"}
        /\ node.binary = "cache" => node.prev = f.cache /\ node.prev # NoPrev
        /\ node.binary \in {"download", "update"} => node.prev = f.remote /\ node.prev # NoPrev
        /\ node.binary \in {"build", "missing", "invalid"} => node.prev = NoPrev
    BY <2>5, <2>6 DEF Real
  <2> HIDE DEF node
  <2> QED
    BY <1>0, <1>2, <2>2, <2>4, <2>7, SettleDecision
<1> QED
  BY <1>4, <1>5, <1>6, <1>7


LEMMA ConcludeDecision ==
  ASSUME StructureInv, DecisionInv, Conclude
  PROVE  DecisionInv'
<1> DEFINE node == nodes[Self]
           v == CASE node.binary = "missing" /\ node.id = Invalid -> [node EXCEPT !.binary = "invalid"]
                  [] node.binary = "missing" /\ node.id # Invalid /\ Allowed(Ref(Self)) -> ToBuild(Self, node)
                  [] OTHER -> node
           k == Key(Self)
<1>1. /\ call.step = "compatible" /\ nodes' = [nodes EXCEPT ![Self] = v]
      /\ call' = [call EXCEPT !.step = "handle"]
      /\ UNCHANGED <<world, present, evaluated, frames, facts, todo, processed, stage>>
  BY DEF Conclude, analysis
<1>2. call # NoCall
  BY <1>1 DEF NoCall
<1>3. /\ call = [f \in CallFields |-> call[f]] /\ Self \in Node /\ IsNode(node)
      /\ node.binary \in {"missing", "invalid"}
      /\ call.own /\ call.rest = <<>> /\ call.id = nodes[Self].id /\ call.id # Unknown
  BY <1>1, <1>2, CallFacts DEF DecisionInv, CallInv, StructureInv, Calling
<1>4. Decision(Self) = node.binary /\ Decided(Self) /\ Revision(Self)
  <2>1. Decision(Self) = node.binary /\ Decided(Self)
    BY <1>3 DEF Decision, Decided, Real
  <2> QED
    BY <2>1 DEF DecisionInv, PackagesInv, Revisions, Decided
<1>5. node.binary = "missing" => node.id # Invalid
  BY <1>3, <1>4 DEF DecisionInv, PackagesInv, Shared
<1>6. /\ call'.step = "handle" /\ call'.own = call.own /\ call'.rest = call.rest /\ call'.id = call.id
      /\ call'.node = call.node
  BY <1>1, <1>3 DEF CallFields
<1>7. Self' = Self /\ call' # NoCall
  BY <1>6 DEF Self, NoCall
<1>s. PICK s : s = Self
  OBVIOUS
<1>8. nodes'[Self] = v /\ \A m \in Node : m # Self => nodes'[m] = nodes[m]
  BY <1>1, <1>3, OneNode DEF StructureInv, Typed
<1>9. Downloads' /\ DoneInv' /\ BrokenInv'
  <2> HIDE DEF v
  <2> QED
    BY <1>1, <1>2, <1>8, SelfDecision
<1>10. Node' = Node /\ \A m : Ref(m)' = Ref(m) /\ Allowed(Ref(m))' = Allowed(Ref(m))
  BY <1>1, Static DEF Allowed, Ref
<1>11. CASE ~(node.binary = "missing" /\ Allowed(Ref(Self)))
  <2>1. v = node
    BY <1>5, <1>11
  <2>2. \A n \in Node : nodes'[n] = nodes[n]
    BY <1>8, <2>1
  <2>3. Quiet
    BY <1>1, <2>2, SameIsQuiet DEF Quiet, DecisionInv
  <2>4. PackagesInv'
    BY <1>4, <1>11, <2>3, QuietKeeps DEF DecisionInv
  <2>5. CallInv'
    <3>1. nodes'[Self'] = node
      BY <1>3, <1>7, <2>2
    <3> QED
      BY <1>3, <1>6, <1>7, <3>1 DEF CallInv, Real
  <2> QED
    BY <1>9, <2>4, <2>5 DEF DecisionInv
<1>12. CASE node.binary = "missing" /\ Allowed(Ref(Self))
  <2>1. v = ToBuild(Self, node)
    BY <1>5, <1>12
  <2>2. /\ v.id = node.id /\ v.prev = NoPrev /\ v.binary \in {"invalid", "build"}
    <3> HIDE DEF v, node
    <3> QED
      BY <1>3, <2>1, ToBuildFacts
  <2> HIDE DEF v
  <2>3. \A m \in Node : Decided(m) /\ Key(m) = k => m = Self
    <3>1. Decision(Self) = "missing" /\ Allowed(Ref(Self))
      BY <1>4, <1>12
    <3> QED
      BY <1>3, <3>1 DEF DecisionInv, PackagesInv, MissingAlone
  <2>4. /\ k \in DOMAIN evaluated /\ evaluated[k] = Self
        /\ \A j \in DOMAIN evaluated : /\ evaluated[j] \in Node /\ Decided(evaluated[j])
                                       /\ Key(evaluated[j]) = j /\ j[2] # Unknown
    BY <1>3, <1>4, <2>3 DEF DecisionInv, PackagesInv, Shared, Decided
  <2>5. \A m \in Node : Key(m)' = Key(m)
    <3>1. \A m \in Node : nodes'[m].id = nodes[m].id
      BY <1>8, <2>2
    <3> QED
      BY <1>10, <3>1 DEF Key
  <2>6. \A m \in Node : m # Self => Decision(m)' = Decision(m) /\ (Decided(m)' <=> Decided(m))
    BY <1>8, <1>10 DEF Decided, Decision
  <2>7. Decision(s)' = v.binary /\ Decided(s)'
    <3>1. s \in Node' /\ nodes'[s].binary = v.binary /\ v.binary \in {"invalid", "build"}
      BY <1>3, <1>8, <1>10, <1>s, <2>2
    <3> QED
      BY <3>1 DEF Decided, Decision, Real
  <2>8. Should' /\ UnknownInv'
    <3>1. ASSUME NEW m \in Node, nodes'[m].should PROVE Decision(m)' \in {"invalid", "build"}
      <4>1. CASE m = Self
        BY <1>s, <2>2, <2>7, <4>1 DEF Decision
      <4>2. CASE m # Self
        BY <1>8, <2>6, <3>1, <4>2 DEF DecisionInv, PackagesInv, Should
      <4> QED
        BY <4>1, <4>2
    <3>2. ASSUME NEW m \in Node, nodes'[m].binary = "unknown"
          PROVE  nodes'[m].prev = NoPrev /\ nodes'[m].id = Unknown
      <4>1. m # Self
        BY <1>8, <2>2, <3>2
      <4> QED
        BY <1>8, <3>2, <4>1 DEF DecisionInv, PackagesInv, UnknownInv
    <3> QED
      BY <1>10, <3>1, <3>2 DEF Should, UnknownInv
  <2>9. Shared'
    <3>1. ASSUME NEW j \in DOMAIN evaluated
          PROVE  Decided(evaluated[j])' /\ Key(evaluated[j])' = j
      <4>1. PICK e : e = evaluated[j]
        OBVIOUS
      <4>2. Decided(e)' /\ Key(e)' = j /\ evaluated'[j] = e
        BY <1>1, <1>s, <2>4, <2>5, <2>6, <2>7, <4>1
      <4> QED
        BY <4>2 DEF Decided, Decision, Key, Ref, Node
    <3>2. ASSUME NEW m \in Node, Decided(m)'
          PROVE  /\ Key(m)' \in DOMAIN evaluated' /\ Decision(m)' = Decision(evaluated[Key(m)])'
                 /\ nodes'[m].id = Invalid => Decision(m)' = "invalid"
      <4>1. PICK j : j = Key(m)
        OBVIOUS
      <4>2. PICK e : e = evaluated[j]
        OBVIOUS
      <4>3. Key(m)' = j /\ evaluated'[j] = e
        BY <1>1, <2>5, <4>1, <4>2
      <4>4. Decision(evaluated[Key(m)])' = Decision(e)'
        BY <4>3 DEF Decision
      <4>5. CASE m = Self
        <5>1. e = Self /\ nodes'[m].id # Invalid
          BY <1>5, <1>8, <1>12, <2>2, <2>4, <4>1, <4>2, <4>5
        <5> QED
          BY <1>1, <2>4, <4>1, <4>3, <4>4, <4>5, <5>1
      <4>6. CASE m # Self
        <5>1. Decided(m)
          BY <2>6, <3>2, <4>6
        <5>2. j \in DOMAIN evaluated /\ Decision(m) = Decision(e) /\ (nodes[m].id = Invalid => Decision(m) = "invalid")
          BY <4>1, <4>2, <5>1 DEF DecisionInv, PackagesInv, Shared
        <5>3. e # Self
          BY <2>3, <2>4, <4>1, <4>2, <4>6, <5>1, <5>2
        <5>4. e \in Node
          BY <2>4, <4>2, <5>2
        <5> QED
          BY <1>1, <1>8, <2>6, <4>3, <4>4, <4>6, <5>2, <5>3, <5>4
      <4> QED
        BY <4>5, <4>6
    <3> QED
      BY <1>1, <1>10, <2>4, <3>1, <3>2 DEF Shared
  <2>10. MissingAlone'
    <3>1. ASSUME NEW m \in Node, Decision(m)' = "missing", Allowed(Ref(m)) PROVE FALSE
      <4>1. m # Self
        BY <1>s, <2>2, <2>7, <3>1
      <4>2. Pending(m)
        BY <2>6, <3>1, <4>1 DEF DecisionInv, PackagesInv, MissingAlone
      <4> QED
        BY <4>1, <4>2 DEF Pending
    <3> QED
      BY <1>10, <3>1 DEF MissingAlone
  <2>11. Processed'
    BY <1>1 DEF DecisionInv, PackagesInv, Processed
  <2>12. ASSUME NEW m \in Node, Decided(m)' PROVE Revision(m)'
    <3>1. CASE m # Self
      <4>1. Revision(m) /\ Key(m)' = Key(m) /\ Decision(m)' = Decision(m) /\ nodes'[m] = nodes[m]
        BY <1>8, <2>5, <2>6, <2>12, <3>1 DEF DecisionInv, PackagesInv, Revisions
      <4> QED
        BY <1>1, <4>1 DEF Revision
    <3>2. CASE m = Self
      <4>1. Key(m)' = k /\ Decision(m)' \in {"invalid", "build"} /\ nodes'[m].prev = NoPrev
        BY <1>8, <2>2, <1>s, <2>5, <2>7, <3>2
      <4>2. k \in DOMAIN facts /\ k \notin DOMAIN processed
        BY <1>4, <1>12 DEF Revision
      <4> QED
        BY <1>1, <4>1, <4>2 DEF Revision
    <3> QED
      BY <3>1, <3>2
  <2>13. PackagesInv'
    BY <1>10, <2>8, <2>9, <2>10, <2>11, <2>12 DEF PackagesInv, Revisions
  <2>14. CallInv'
    <3>1. nodes'[Self'] = v
      BY <1>7, <1>8
    <3>2. v.binary \in Real
      BY <2>2 DEF Real
    <3> QED
      BY <1>3, <1>6, <1>7, <2>2, <3>1, <3>2 DEF CallInv
  <2> QED
    BY <1>9, <2>13, <2>14 DEF DecisionInv
<1> QED
  BY <1>11, <1>12


\* What is handled was decided.
LEMMA HandledDecided ==
  ASSUME StructureInv, DecisionInv, NEW n, HandleNow(n)
  PROVE  /\ n \in present \ {Root} /\ n \in Node /\ nodes[n].binary \in Real
         /\ Decision(n) = nodes[n].binary /\ Decided(n) /\ Revision(n)
         /\ call = NoCall \/ call.step # "compatible"
<1>1. stage = "install" /\ (call = NoCall \/ call.step = "handle") /\ n \in todo.level
  BY HandleFacts
<1>2. n \in present \ {Root} /\ n \in Node /\ IsNode(nodes[n])
  BY <1>1, TodoPast
<1>3. nodes[n].binary \in Real
  <2>1. CASE call # NoCall
    <3>1. n = Self
      BY <2>1 DEF HandleNow, Installing
    <3> QED
      BY <1>1, <2>1, <3>1 DEF DecisionInv, CallInv
  <2>2. CASE call = NoCall
    <3>1. nodes[n].binary \notin {"editable", "skip", "unknown"}
      BY <2>2 DEF HandleNow, NoCall
    <3>2. n \notin Unevaluated
      BY <1>1 DEF Unevaluated, Analyzing
    <3>3. nodes[n].binary # "none"
      BY <1>1, <1>2, <2>2, <3>2 DEF StructureInv, Known
    <3> QED
      BY <1>2, <3>1, <3>3 DEF IsNode, Binaries
  <2> QED
    BY <2>1, <2>2
<1>4. Decision(n) = nodes[n].binary /\ Decided(n)
  BY <1>2, <1>3 DEF Decision, Decided, Real
<1>5. Revision(n)
  BY <1>2, <1>4 DEF DecisionInv, PackagesInv, Revisions
<1> QED
  BY <1>1, <1>2, <1>3, <1>4, <1>5

\* Nothing else is known of the packages after it.
LEMMA LeavesQuiet ==
  ASSUME StructureInv, DecisionInv, NEW n, NEW p, Leaves(n, p),
         nodes[n].binary \in {"skip", "editable", "invalid"},
         (nodes[n].binary = "editable" /\ p # NoPrev) \/ p = nodes[n].prev,
         nodes[n].binary = "editable" => p # NoPrev,
         UNCHANGED <<facts, processed>>, call = NoCall \/ call.step # "compatible"
  PROVE  DecisionInv'
<1> USE DEF Leaves
<1>1. ASSUME NEW m \in Node PROVE QuietNode(m)
  <2>1. CASE m # n
    BY <2>1, SameIsQuiet DEF DecisionInv
  <2>2. CASE m = n
    <3>1. Decided(n) => nodes'[n].prev = nodes[n].prev
      BY DEF Decided, Decision, Real
    <3> QED
      BY <2>2, <3>1, SameIsQuiet DEF DecisionInv
  <2> QED
    BY <2>1, <2>2
<1>2. PackagesInv'
  BY <1>1, QuietKeeps DEF Quiet, DecisionInv
<1>3. DoneInv'
  <2> SUFFICES ASSUME NEW m \in Node, Done(m)'
               PROVE  /\ nodes'[m].binary # "unknown"
                      /\ nodes'[m].binary = "editable" => nodes'[m].prev # NoPrev
                      /\ nodes'[m].binary \in Real \ {"invalid"} =>
                           Key(m)' \in DOMAIN processed' /\ nodes'[m].prev = processed'[Key(m)']
    BY Static DEF DoneInv
  <2>1. CASE m = n
    BY <2>1 DEF Real
  <2>2. CASE m # n
    <3>1. Done(m)
      BY <2>2 DEF Done
    <3>2. nodes'[m] = nodes[m] /\ Key(m)' = Key(m)
      BY <2>2 DEF Key, Ref
    <3> QED
      BY <3>1, <3>2 DEF DecisionInv, DoneInv
  <2> QED
    BY <2>1, <2>2
<1> QED
  BY <1>2, <1>3 DEF DecisionInv, CallInv, Downloads, BrokenInv

\* A package is in the cache after it, with the revision that its nodes have.
LEMMA LeavesHandles ==
  ASSUME StructureInv, DecisionInv, NEW n, NEW p, Leaves(n, p), Handles(n, p),
         call = NoCall \/ call.step # "compatible"
  PROVE  DecisionInv'
<1>1. PackagesInv'
  BY HandlesKeeps DEF DecisionInv
<1> USE DEF Leaves
<1>2. DoneInv'
  <2> SUFFICES ASSUME NEW m \in Node, Done(m)'
               PROVE  /\ nodes'[m].binary # "unknown"
                      /\ nodes'[m].binary = "editable" => nodes'[m].prev # NoPrev
                      /\ nodes'[m].binary \in Real \ {"invalid"} =>
                           Key(m)' \in DOMAIN processed' /\ nodes'[m].prev = processed'[Key(m)']
    BY Static DEF DoneInv
  <2>1. Key(m)' = Key(m)
    BY DEF Key, Ref
  <2>2. /\ DOMAIN processed' = DOMAIN processed \cup {Key(n)} /\ processed'[Key(n)] = p
        /\ \A k \in DOMAIN processed : processed'[k] = processed[k]
    BY DEF Handles, With
  <2>3. CASE m = n
    <3>1. p # NoPrev /\ Decided(n)
      BY DEF Handles
    <3>2. nodes[n].binary # "unknown"
      BY <3>1 DEF Decided, Decision, Real
    <3> QED
      BY <2>1, <2>2, <2>3, <3>1, <3>2
  <2>4. CASE m # n
    <3>1. Done(m)
      BY <2>4 DEF Done
    <3>2. nodes'[m] = nodes[m]
      BY <2>4
    <3> QED
      BY <2>1, <2>2, <3>1, <3>2 DEF DecisionInv, DoneInv
  <2> QED
    BY <2>3, <2>4
<1> QED
  BY <1>1, <1>2 DEF DecisionInv, CallInv, Downloads, BrokenInv

LEMMA StopDecision ==
  ASSUME StructureInv, DecisionInv, NEW why \in {"missing", "broken"}, Stop(why),
         call = NoCall \/ call.step # "compatible",
         why = "broken" => \E n \in present : Unsettled(n)
  PROVE  DecisionInv'
<1>1. /\ stage' = why
      /\ UNCHANGED <<world, present, evaluated, frames, nodes, facts, call, todo, processed>>
  BY DEF Stop, analysis
<1>2. PackagesInv' /\ CallInv'
  BY <1>1, SameNodesDecision
<1>3. BrokenInv'
  BY <1>1 DEF BrokenInv, Unsettled
<1>4. Downloads' /\ DoneInv'
  BY <1>1 DEF Downloads, DoneInv, Done
<1> QED
  BY <1>2, <1>3, <1>4 DEF DecisionInv

LEMMA HandleDecision ==
  ASSUME StructureInv, DecisionInv, NEW n \in present,
         \/ RaiseMissing(n) \/ HandleAgain(n) \/ Build(n) \/ DownloadLate(n) \/ UseCached(n)
  PROVE  DecisionInv'
<1> DEFINE k == Key(n)
           b == nodes[n].binary
           q == nodes[n].prev
<1>0. HandleNow(n)
  BY HandleCases
<1>1. /\ n \in present \ {Root} /\ n \in Node /\ b \in Real /\ Decision(n) = b /\ Decided(n)
      /\ call = NoCall \/ call.step # "compatible"
  BY <1>0, HandledDecided
<1>2. /\ b # "invalid" => k \in DOMAIN facts
      /\ b = "cache" => q = facts[k].cache /\ q # NoPrev
      /\ b \in {"download", "update"} => q = facts[k].remote /\ q # NoPrev
      /\ b \in {"cache", "download", "update"} /\ k \in DOMAIN processed => processed[k] = q
      /\ b \in {"missing", "invalid"} => q = NoPrev /\ k \notin DOMAIN processed
  <2>1. Revision(n)
    BY <1>0, HandledDecided
  <2> QED
    BY <1>1, <2>1 DEF Revision
<1>3. CASE Stop("missing")
  BY <1>1, <1>3, StopDecision
<1>4. CASE /\ Stop("broken")
           /\ \/ b \in {"download", "update"} /\ facts[k].remote # q
              \/ b \in {"cache", "invalid"} /\ CacheOf(k) = NoPrev
  <2>1. b = "invalid"
    BY <1>2, <1>4 DEF CacheOf
  <2>2. Unsettled(n)
    BY <2>1 DEF Unsettled
  <2> QED
    BY <1>1, <1>4, <2>2, StopDecision
<1>5. ASSUME NEW p, Leaves(n, p), processed' = IF p = NoPrev THEN processed ELSE With(processed, k, p),
             \/ k \in DOMAIN processed /\ p = processed[k] /\ facts' = facts /\ b # "missing"
             \/ k \notin DOMAIN processed /\ InCache(k, p) /\ b = "build" /\ p \in {1, NewPrev}
             \/ /\ k \notin DOMAIN processed /\ InCache(k, p) /\ b \in {"download", "update"}
                /\ facts[k].remote = p /\ p = q
             \/ /\ k \notin DOMAIN processed /\ facts' = facts /\ b \in {"cache", "invalid"}
                /\ CacheOf(k) # NoPrev /\ p = q
      PROVE  DecisionInv'
  <2>1. CASE b = "invalid"
    <3>1. p = q /\ p = NoPrev /\ facts' = facts /\ processed' = processed
      BY <1>2, <1>5, <2>1
    <3> QED
      BY <1>1, <1>5, <2>1, <3>1, LeavesQuiet
  <2>2. CASE b # "invalid"
    <3>1. b # "missing" /\ k \in DOMAIN facts
      BY <1>2, <1>5, <2>2
    <3>2. p # NoPrev /\ (b # "build" => q = p) /\ (k \in DOMAIN processed => processed[k] = p)
      BY <1>1, <1>2, <1>5, <2>2 DEF DecisionInv, PackagesInv, Processed, Real, NoPrev, NewPrev
    <3>3. /\ DOMAIN facts' = DOMAIN facts
          /\ facts'[k].cache = p /\ facts'[k].remote = facts[k].remote
          /\ \A j \in DOMAIN facts : j # k => facts'[j] = facts[j]
      <4>1. CASE InCache(k, p)
        BY <3>1, <4>1, InCacheFacts
      <4>2. CASE ~InCache(k, p)
        <5>1. facts' = facts
          BY <1>5, <4>2
        <5>2. facts[k].cache = p
          BY <1>2, <1>5, <2>2, <4>2 DEF DecisionInv, PackagesInv, Processed
        <5> QED
          BY <5>1, <5>2
      <4> QED
        BY <4>1, <4>2
    <3>4. /\ UNCHANGED <<world, evaluated>>
          /\ \A m \in Node :
               /\ nodes'[m].id = nodes[m].id /\ nodes'[m].should = nodes[m].should
               /\ nodes'[m].binary = nodes[m].binary /\ nodes'[m].nonSkip = nodes[m].nonSkip
               /\ nodes'[m].prev = nodes[m].prev \/ (m = n /\ nodes'[m].prev = p)
      BY <1>5 DEF Leaves
    <3>5. processed' = With(processed, k, p)
      BY <1>5, <3>2
    <3>6. Handles(n, p)
      BY <1>1, <2>2, <3>1, <3>2, <3>3, <3>4, <3>5 DEF Handles
    <3> QED
      BY <1>1, <1>5, <3>6, LeavesHandles
  <2> QED
    BY <2>1, <2>2
<1> HIDE DEF k, b, q
<1>6. \/ Stop("missing")
      \/ /\ Stop("broken")
         /\ \/ b \in {"download", "update"} /\ facts[k].remote # q
            \/ b \in {"cache", "invalid"} /\ CacheOf(k) = NoPrev
      \/ \E p : /\ Leaves(n, p)
                /\ processed' = IF p = NoPrev THEN processed ELSE With(processed, k, p)
                /\ \/ k \in DOMAIN processed /\ p = processed[k] /\ facts' = facts /\ b # "missing"
                   \/ k \notin DOMAIN processed /\ InCache(k, p) /\ b = "build" /\ p \in {1, NewPrev}
                   \/ /\ k \notin DOMAIN processed /\ InCache(k, p) /\ b \in {"download", "update"}
                      /\ facts[k].remote = p /\ p = q
                   \/ /\ k \notin DOMAIN processed /\ facts' = facts /\ b \in {"cache", "invalid"}
                      /\ CacheOf(k) # NoPrev /\ p = q
  BY HandleCases DEF k, b, q
<1> QED
  BY <1>3, <1>4, <1>5, <1>6


LEMMA PassDecision ==
  ASSUME StructureInv, DecisionInv, NEW n \in present, Pass(n)
  PROVE  DecisionInv'
<1> DEFINE p == IF nodes[n].binary = "skip" THEN nodes[n].prev ELSE EditablePrev
<1>1. /\ Leaves(n, p) /\ nodes[n].binary \in {"skip", "editable"} /\ UNCHANGED <<facts, processed>>
  BY PassLeaves
<1>2. call = NoCall
  BY DEF Pass, Installing
<1>3. /\ nodes[n].binary = "editable" => p # NoPrev
      /\ (nodes[n].binary = "editable" /\ p # NoPrev) \/ p = nodes[n].prev
  BY <1>1 DEF EditablePrev, NoPrev
<1> HIDE DEF p
<1> QED
  BY <1>1, <1>2, <1>3, LeavesQuiet

LEMMA DownloadDecision ==
  ASSUME StructureInv, DecisionInv, NEW n \in present, Download(n)
  PROVE  DecisionInv'
<1> DEFINE k == Key(n)
           q == nodes[n].prev
<1>1. /\ stage = "download" /\ n \in todo.left /\ call = NoCall /\ n \in Node
      /\ nodes[n].binary \in {"download", "update"}
  BY DEF Download, StructureInv, Typed, Calling, Analyzing, DecisionInv, Downloads
<1>2. Decided(n) /\ Decision(n) = nodes[n].binary /\ Revision(n)
  <2>1. Decided(n) /\ Decision(n) = nodes[n].binary
    BY <1>1 DEF Decided, Decision, Real
  <2> QED
    BY <1>1, <2>1 DEF DecisionInv, PackagesInv, Revisions
<1>3. k \in DOMAIN facts /\ q = facts[k].remote /\ q # NoPrev
  BY <1>1, <1>2 DEF Revision
<1>4. Past(n, todo).left = todo.left \ {n}
  BY PastTyped DEF StructureInv, Typed
<1>5. ASSUME UNCHANGED <<world, nodes, call, stage>>, todo' = Past(n, todo), PackagesInv'
      PROVE  DecisionInv'
  <2>1. CallInv'
    BY <1>1, <1>5 DEF CallInv
  <2>2. Downloads' /\ DoneInv' /\ BrokenInv'
    BY <1>1, <1>4, <1>5 DEF DecisionInv, Downloads, DoneInv, Done, BrokenInv
  <2> QED
    BY <1>5, <2>1, <2>2 DEF DecisionInv
<1>6. CASE k \in DOMAIN processed
  <2>1. /\ UNCHANGED <<world, nodes, facts, evaluated, call, processed, stage>>
        /\ todo' = Past(n, todo)
    BY <1>6 DEF Download, analysis
  <2>2. PackagesInv'
    BY <2>1, SameNodesDecision
  <2> QED
    BY <1>5, <2>1, <2>2
<1>7. CASE k \notin DOMAIN processed
  <2>1. /\ InCache(k, q) /\ processed' = With(processed, k, q) /\ todo' = Past(n, todo)
        /\ UNCHANGED <<world, evaluated, nodes, call, stage>>
    BY <1>3, <1>7 DEF Download, analysis
  <2>2. Handles(n, q)
    <3>1. /\ DOMAIN facts' = DOMAIN facts
          /\ facts'[k].cache = q /\ facts'[k].remote = facts[k].remote
          /\ \A j \in DOMAIN facts : j # k => facts'[j] = facts[j]
      BY <1>3, <2>1, InCacheFacts
    <3> QED
      BY <1>1, <1>2, <1>3, <1>7, <2>1, <3>1 DEF Handles
  <2>3. PackagesInv'
    BY <1>1, <2>2, HandlesKeeps DEF DecisionInv
  <2> QED
    BY <1>5, <2>1, <2>3
<1> QED
  BY <1>6, <1>7

LEMMA FinishDecision ==
  ASSUME StructureInv, DecisionInv, Finish
  PROVE  DecisionInv'
<1>1. /\ stage = "install" /\ todo.left = {} /\ stage' = "done"
      /\ nodes' = [nodes EXCEPT ![Root] = Transitive(Root)]
      /\ UNCHANGED <<world, present, evaluated, frames, facts, call, todo, processed>>
  BY DEF Finish, analysis, PropagateInfo
<1>2. call = NoCall
  BY <1>1 DEF StructureInv, Calling, Analyzing, Todo, Ordered
<1>3. Root \in Node /\ IsNode(nodes[Root])
  BY WorldFacts DEF StructureInv, Typed
<1>4. /\ nodes'[Root] = Transitive(Root) /\ \A m \in Node : m # Root => nodes'[m] = nodes[m]
  BY <1>1, <1>3, OneNode DEF StructureInv, Typed
<1>5. /\ nodes'[Root].id = nodes[Root].id /\ nodes'[Root].binary = nodes[Root].binary
      /\ nodes'[Root].nonSkip = nodes[Root].nonSkip /\ nodes'[Root].should = nodes[Root].should
      /\ nodes'[Root].prev = nodes[Root].prev
  BY <1>3, <1>4, TransitiveFacts
<1>6. ASSUME NEW n \in Node PROVE QuietNode(n)
  <2>1. nodes'[n].id = nodes[n].id /\ nodes'[n].binary = nodes[n].binary
        /\ nodes'[n].nonSkip = nodes[n].nonSkip /\ nodes'[n].should = nodes[n].should
        /\ nodes'[n].prev = nodes[n].prev
    BY <1>4, <1>5
  <2> QED
    BY <2>1, SameIsQuiet DEF DecisionInv
<1>7. PackagesInv'
  BY <1>1, <1>6, QuietKeeps DEF Quiet, DecisionInv
<1>8. DoneInv'
  <2> SUFFICES ASSUME NEW m \in Node, Done(m)'
               PROVE  /\ nodes'[m].binary # "unknown"
                      /\ nodes'[m].binary = "editable" => nodes'[m].prev # NoPrev
                      /\ nodes'[m].binary \in Real \ {"invalid"} =>
                           Key(m)' \in DOMAIN processed' /\ nodes'[m].prev = processed'[Key(m)']
    BY <1>1, Static DEF DoneInv
  <2>1. Done(m) /\ m # Root
    BY <1>1 DEF Done
  <2>2. nodes'[m] = nodes[m] /\ Key(m)' = Key(m)
    BY <1>1, <1>4, <2>1 DEF Key, Ref
  <2> QED
    BY <1>1, <2>1, <2>2 DEF DecisionInv, DoneInv
<1> QED
  BY <1>1, <1>2, <1>7, <1>8 DEF DecisionInv, CallInv, Downloads, BrokenInv

-----------------------------------------------------------------------------
(* Ids that are not known.                                                 *)

LEMMA WidthFacts ==
  ASSUME world \in Worlds, NEW n \in Node
  PROVE  Width(Ref(n)) \in 0..3
<1>1. world.idMode[world.ref[n]] \in {"clear", "semver", "package", "revision"}
  BY WorldsAssumption DEF Node
<1> QED
  BY <1>1 DEF Width, Ref

\* The first of some requirements, by reference.
LEMMA FirstExists ==
  ASSUME NEW S, S # {}, \A p \in S : p[1] \in Nat
  PROVE  \E p \in S : \A q \in S : p[1] <= q[1]
<1> DEFINE T == {p[1] : p \in S}
<1>1. T \subseteq Nat /\ T # {}
  OBVIOUS
<1>2. PICK i \in T : \A j \in T : ~(<<j, i>> \in OpToRel(<, Nat))
  BY <1>1, NatLessThanWellFounded, WFMin
<1>3. \A j \in T : i <= j
  <2> HIDE DEF T
  <2>1. \A j \in T : ~(j < i)
    BY <1>1, <1>2 DEF OpToRel
  <2> QED
    BY <1>1, <2>1
<1>4. PICK p \in S : i = p[1]
  OBVIOUS
<1>5. \A q \in S : p[1] <= q[1]
  BY <1>3, <1>4
<1> QED
  BY <1>5

\* An id that is not known has a reason.
LEMMA UnknownReason ==
  ASSUME NEW r, NEW conf, NEW used, \A p \in used : p[1] \in Nat
  PROVE  /\ PackageId(r, conf, used) \notin {Unknown, Invalid} =>
              /\ PackageId(r, conf, used) = <<r, conf, {SubSeq(p, 1, Width(r)) : p \in used}>>
              /\ Width(r) >= 2 => \A p \in used : p[2] \notin {Unknown, Invalid}
              /\ Width(r) = 3 => \A p \in used : p[3] # NoPrev
         /\ PackageId(r, conf, used) = Unknown =>
              \E p \in used : /\ Width(r) >= 2 \/ Width(r) = 3
                              /\ p[2] = Unknown \/ p[3] = NoPrev
<1> DEFINE unknown(p) == (Width(r) >= 2 /\ p[2] = Unknown) \/ (Width(r) = 3 /\ p[3] = NoPrev)
           bad == {p \in used : unknown(p) \/ (Width(r) >= 2 /\ p[2] = Invalid)}
           first == CHOOSE p \in bad : \A q \in bad : p[1] <= q[1]
           id == <<r, conf, {SubSeq(p, 1, Width(r)) : p \in used}>>
<1>1. PackageId(r, conf, used) = IF bad = {} THEN id ELSE IF unknown(first) THEN Unknown ELSE Invalid
  BY DEF PackageId
<1>2. Unknown # Invalid /\ id # Unknown /\ id # Invalid
  <2>1. Len(id) = 3 /\ Len(Unknown) = 1 /\ Len(Invalid) = 1
    BY DEF Unknown, Invalid
  <2> QED
    BY <2>1 DEF Unknown, Invalid
<1>3. bad # {} => first \in bad
  BY FirstExists
<1> HIDE DEF first, id
<1>4. bad = {} => /\ Width(r) >= 2 => \A p \in used : p[2] \notin {Unknown, Invalid}
                  /\ Width(r) = 3 => \A p \in used : p[3] # NoPrev
  OBVIOUS
<1>5. ASSUME PackageId(r, conf, used) = Unknown
      PROVE  \E p \in used : (Width(r) >= 2 \/ Width(r) = 3) /\ (p[2] = Unknown \/ p[3] = NoPrev)
  <2>1. first \in used /\ unknown(first)
    BY <1>1, <1>2, <1>3, <1>5
  <2> QED
    BY <2>1
<1> HIDE DEF bad, unknown
<1> QED
  BY <1>1, <1>2, <1>4, <1>5 DEF id


LEMMA OwnUse ==
  ASSUME NEW n
  PROVE  /\ Own(n).used \subseteq Own(n).direct \cup Own(n).indirect
         /\ world.fixed => Own(n).used = CASE Width(Ref(n)) = 0 -> {}
                                           [] Width(Ref(n)) = 1 -> Own(n).direct
                                           [] OTHER -> Own(n).direct \cup Own(n).indirect
<1> DEFINE neighbors == Neighbors(n)
           direct == {<<Ref(d), nodes[d].id, nodes[d].prev>> : d \in Requires(n)}
           indirect == (UNION {nodes[d].direct \cup nodes[d].indirect : d \in Requires(n)}) \ direct
           visible == {p \in indirect : world.fixed \/ \E d \in neighbors : \E q \in nodes[d].info :
                                                         q[1] = p[1] /\ q[2] = p[2]}
           info == IF Width(Ref(n)) = 0 THEN {} ELSE direct \cup visible
           used == CASE Width(Ref(n)) = 0 -> {}
                     [] Width(Ref(n)) = 1 -> direct
                     [] OTHER -> direct \cup visible
<1>1. Own(n) = [direct |-> direct, indirect |-> indirect, info |-> info, used |-> used]
  BY DEF Own, Requirements
<1>2. used \subseteq direct \cup visible /\ visible \subseteq indirect
  <2> HIDE DEF direct, indirect
  <2>1. visible \subseteq indirect
    OBVIOUS
  <2> HIDE DEF visible
  <2>2. used \subseteq direct \cup visible
    <3>1. CASE Width(Ref(n)) = 0
      BY <3>1
    <3>2. CASE Width(Ref(n)) = 1
      BY <3>2
    <3>3. CASE Width(Ref(n)) # 0 /\ Width(Ref(n)) # 1
      BY <3>3
    <3> QED
      BY <3>1, <3>2, <3>3
  <2> QED
    BY <2>1, <2>2
<1>3. world.fixed => visible = indirect
  OBVIOUS
<1>4. world.fixed => used = CASE Width(Ref(n)) = 0 -> {}
                              [] Width(Ref(n)) = 1 -> direct
                              [] OTHER -> direct \cup indirect
  BY <1>3
<1> HIDE DEF direct, indirect, visible, info, used
<1> QED
  BY <1>1, <1>2, <1>4

LEMMA ComputedFacts ==
  ASSUME NEW n, IsNode(nodes[n])
  PROVE  /\ Computed(n).id = IF Config(n) \in world.invalid THEN Invalid
                             ELSE PackageId(Ref(n), world.conf[n], Own(n).used)
         /\ Computed(n).direct = Own(n).direct /\ Computed(n).indirect = Own(n).indirect
         /\ Computed(n).binary = nodes[n].binary /\ Computed(n).nonSkip = nodes[n].nonSkip
         /\ Computed(n).prev = nodes[n].prev /\ Computed(n).should = nodes[n].should
<1> DEFINE i == IF Config(n) \in world.invalid THEN Invalid ELSE IdWith(n, world.conf[n])
           f == Own(n).info
           d == Own(n).direct
           e == Own(n).indirect
<1>1. Computed(n) = [Transitive(n) EXCEPT !.id = i, !.info = f]
  BY DEF Computed
<1>2. Transitive(n) = [nodes[n] EXCEPT !.direct = d, !.indirect = e]
  BY DEF Transitive
<1>3. i = IF Config(n) \in world.invalid THEN Invalid
          ELSE PackageId(Ref(n), world.conf[n], Own(n).used)
  BY DEF IdWith
<1> HIDE DEF i, f, d, e
<1>4. /\ Computed(n).id = i /\ Computed(n).direct = d /\ Computed(n).indirect = e
      /\ Computed(n).binary = nodes[n].binary /\ Computed(n).nonSkip = nodes[n].nonSkip
      /\ Computed(n).prev = nodes[n].prev /\ Computed(n).should = nodes[n].should
  BY <1>1, <1>2 DEF IsNode, NodeFields
<1> QED
  BY <1>3, <1>4 DEF d, e

\* What a package that comes next takes from its requirements, all of which were installed.
LEMMA NextUses ==
  ASSUME StructureInv, ExactInv, stage = "install", NEW n \in todo.level
  PROVE  /\ Own(n).direct \cup Own(n).indirect = {Triple(c) : c \in Below(n)}
         /\ \A c \in Below(n) : Done(c) /\ c \in Node /\ Triple(c)[1] \in Nat
<1>0. world \in Worlds
  BY DEF StructureInv, Typed
<1>1. /\ \A d \in Requires(n) : Done(d) /\ d \in Node
      /\ \A c \in Below(n) : Done(c) /\ c \in Node
  BY <1>0, DoneBelow, BelowFacts
<1>2. \A d \in Requires(n) : Info(d) = {Triple(c) : c \in Below(d)}
  BY <1>1 DEF ExactInv
<1>3. Own(n).direct \cup Own(n).indirect =
        {Triple(d) : d \in Requires(n)} \cup UNION {{Triple(c) : c \in Below(d)} : d \in Requires(n)}
  BY <1>2, OwnInfo
<1>4. Own(n).direct \cup Own(n).indirect = {Triple(c) : c \in Below(n)}
  <2>1. /\ \A d \in Requires(n) : d \in Below(n) /\ Below(d) \subseteq Below(n)
        /\ \A c \in Below(n) : c \in Requires(n) \/ \E d \in Requires(n) : c \in Below(d)
    BY <1>0, BelowFacts, BelowStep
  <2> QED
    BY <1>3, <2>1
<1>5. \A c \in Below(n) : Triple(c)[1] \in Nat
  BY <1>0, <1>1, WorldFacts DEF Triple
<1> QED
  BY <1>1, <1>4, <1>5

\* What is known once a node was installed, unless it is unsettled.
LEMMA SettledFacts ==
  ASSUME StructureInv, DecisionInv, NEW c, Done(c), call = NoCall \/ c # Self, ~Unsettled(c)
  PROVE  nodes[c].id # Unknown /\ nodes[c].prev # NoPrev
<1>1. c \in present \ {Root} /\ c \in Node /\ IsNode(nodes[c]) /\ c \notin Unevaluated /\ stage # "failed"
  BY DEF Done, StructureInv, Typed, Unevaluated, Analyzing
<1>2. nodes[c].binary \notin {"none", "unknown", "invalid"}
  <2>1. nodes[c].binary # "none"
    BY <1>1 DEF StructureInv, Known
  <2>2. nodes[c].binary # "unknown"
    BY <1>1 DEF DecisionInv, DoneInv
  <2> QED
    BY <2>1, <2>2 DEF Unsettled
<1>3. CASE nodes[c].binary = "skip"
  BY <1>3 DEF Unsettled
<1>4. CASE nodes[c].binary = "editable"
  BY <1>1, <1>4 DEF Unsettled, DecisionInv, DoneInv
<1>5. CASE nodes[c].binary \in Real
  <2>1. Decided(c)
    BY <1>1, <1>5 DEF Decided, Decision, Real
  <2>2. nodes[c].id # Unknown
    <3>1. Key(c) \in DOMAIN evaluated
      BY <1>1, <2>1 DEF DecisionInv, PackagesInv, Shared
    <3>2. Key(c)[2] # Unknown
      BY <3>1 DEF DecisionInv, PackagesInv, Shared
    <3> QED
      BY <3>2 DEF Key
  <2>3. Key(c) \in DOMAIN processed /\ nodes[c].prev = processed[Key(c)]
    BY <1>1, <1>2, <1>5 DEF DecisionInv, DoneInv
  <2> QED
    BY <2>2, <2>3 DEF DecisionInv, PackagesInv, Processed
<1> QED
  BY <1>1, <1>2, <1>3, <1>4, <1>5 DEF IsNode, Binaries

LEMMA ReevaluateDecision ==
  ASSUME StructureInv, NoneCompatible, ExactInv, DecisionInv, NEW n \in present, Reevaluate(n)
  PROVE  DecisionInv'
<1>1. /\ stage = "install" /\ call = NoCall /\ n \in todo.level /\ nodes[n].binary = "unknown"
      /\ IF Computed(n).id = Unknown THEN Stop("broken")
         ELSE /\ nodes' = [nodes EXCEPT ![n] = [Computed(n) EXCEPT !.binary = "none"]]
              /\ call' = Evaluation(n, Computed(n).id)
              /\ UNCHANGED <<world, present, evaluated, frames, facts, todo, processed, stage>>
  BY DEF Reevaluate, Installing, IsNext, analysis
<1>2. n \in present \ {Root} /\ n \in Node /\ n \in todo.left /\ IsNode(nodes[n]) /\ Ref(n) \in Nat
  BY <1>1, TodoPast
<1>3. nodes[n].prev = NoPrev /\ ~Decided(n) /\ nodes[n].should = FALSE
  <2>1. ~Decided(n) /\ Decision(n) = "unknown"
    BY <1>1 DEF Decided, Decision, Real
  <2> QED
    BY <1>1, <1>2, <2>1 DEF DecisionInv, PackagesInv, UnknownInv, Should, IsNode
<1>4. CASE Computed(n).id = Unknown
  <2>1. PackageId(Ref(n), world.conf[n], Own(n).used) = Unknown
    <3>1. Invalid # Unknown
      BY DEF Invalid, Unknown
    <3> QED
      BY <1>2, <1>4, <3>1, ComputedFacts
  <2>2. \A p \in Own(n).used : \E c \in Below(n) : p = Triple(c) /\ Done(c) /\ c \in Node /\ p[1] \in Nat
    <3> DEFINE told == Own(n).direct \cup Own(n).indirect
    <3>1. /\ told = {Triple(c) : c \in Below(n)}
          /\ \A c \in Below(n) : Done(c) /\ c \in Node /\ Triple(c)[1] \in Nat
      BY <1>1, NextUses
    <3>2. Own(n).used \subseteq told
      BY OwnUse
    <3> HIDE DEF told
    <3> QED
      BY <3>1, <3>2
  <2>3. PICK p \in Own(n).used : p[2] = Unknown \/ p[3] = NoPrev
    BY <2>1, <2>2, UnknownReason
  <2>4. PICK c \in Below(n) : p = Triple(c) /\ Done(c)
    BY <2>2
  <2>5. nodes[c].id = Unknown \/ nodes[c].prev = NoPrev
    BY <2>3, <2>4 DEF Triple
  <2>6. Unsettled(c) /\ c \in present
    BY <1>1, <2>4, <2>5, SettledFacts DEF Done
  <2> QED
    BY <1>1, <1>4, <2>6, StopDecision
<1>5. CASE Computed(n).id # Unknown
  <2> DEFINE v == [Computed(n) EXCEPT !.binary = "none"]
  <2>1. /\ nodes' = [nodes EXCEPT ![n] = v] /\ call' = Evaluation(n, Computed(n).id)
        /\ UNCHANGED <<world, present, evaluated, frames, facts, todo, processed, stage>>
    BY <1>1, <1>5
  <2>2. /\ v.binary = "none" /\ v.prev = NoPrev /\ v.should = FALSE /\ v.id = Computed(n).id
    <3>1. IsNode(Computed(n))
      BY <1>2, NodeTypes
    <3>2. Computed(n).prev = NoPrev /\ Computed(n).should = FALSE
      BY <1>2, <1>3, ComputedFacts
    <3> QED
      BY <3>1, <3>2 DEF IsNode, NodeFields
  <2> HIDE DEF v
  <2>3. nodes'[n] = v /\ \A m \in Node : m # n => nodes'[m] = nodes[m]
    BY <1>2, <2>1, OneNode DEF StructureInv, Typed
  <2>4. QuietNode(n)
    <3>1. Decision(n)' = "none" /\ "none" \notin Real
      BY <2>2, <2>3 DEF Decision, Real
    <3> QED
      BY <1>3, <2>2, <2>3, <3>1 DEF QuietNode
  <2>5. Quiet
    BY <2>1, <2>3, <2>4, SameIsQuiet DEF Quiet, DecisionInv
  <2>6. PackagesInv'
    BY <1>1, <2>5, QuietKeeps DEF DecisionInv
  <2>7. CallInv'
    <3>1. /\ call'.rest = <<>> /\ call'.own /\ call'.id = Computed(n).id /\ call'.step = "process"
          /\ call'.node = n
      BY <1>2, <2>1, EvaluationFacts
    <3>2. Self' = n
      BY <3>1 DEF Self
    <3> QED
      BY <1>5, <2>2, <2>3, <3>1, <3>2 DEF CallInv
  <2>8. DoneInv'
    <3> SUFFICES ASSUME NEW m \in Node, Done(m)'
                 PROVE  /\ nodes'[m].binary # "unknown"
                        /\ nodes'[m].binary = "editable" => nodes'[m].prev # NoPrev
                        /\ nodes'[m].binary \in Real \ {"invalid"} =>
                             Key(m)' \in DOMAIN processed' /\ nodes'[m].prev = processed'[Key(m)']
      BY <2>1, Static DEF DoneInv
    <3>1. Done(m) /\ m # n
      BY <1>2, <2>1 DEF Done
    <3>2. nodes'[m] = nodes[m] /\ Key(m)' = Key(m)
      BY <2>1, <2>3, <3>1 DEF Key, Ref
    <3> QED
      BY <2>1, <3>1, <3>2 DEF DecisionInv, DoneInv
  <2> QED
    BY <1>1, <2>1, <2>6, <2>7, <2>8 DEF DecisionInv, Downloads, BrokenInv
<1> QED
  BY <1>4, <1>5

LEMMA DecisionInit == Init => DecisionInv
<1> SUFFICES ASSUME Init PROVE DecisionInv
  OBVIOUS
<1>1. /\ stage = "analyze" /\ call = NoCall /\ DOMAIN evaluated = {} /\ DOMAIN processed = {}
      /\ \A n \in Node : nodes[n] = NewNode
  BY DEF Init, Node
<1>2. \A n \in Node : Decision(n) = "none" /\ ~Decided(n) /\ ~nodes[n].should
  BY <1>1 DEF Decision, Decided, Real, NewNode
<1>3. \A n \in Node : nodes[n].binary # "unknown"
  BY <1>1 DEF NewNode
<1>4. PackagesInv
  BY <1>1, <1>2, <1>3 DEF PackagesInv, Should, Shared, MissingAlone, Revisions, Processed, UnknownInv
<1> QED
  BY <1>1, <1>4 DEF DecisionInv, CallInv, Downloads, DoneInv, Done, BrokenInv

LEMMA SpecDecision == Spec => [](NoneCompatible => DecisionInv)
<1> DEFINE I == NoneCompatible => DecisionInv
<1>1. Init => I
  BY DecisionInit
<1>2. StructureInv /\ StructureInv' /\ ExactInv /\ I /\ [Next]_vars => I'
  <2> SUFFICES ASSUME StructureInv, StructureInv', ExactInv, NoneCompatible => DecisionInv,
                      [Next]_vars, NoneCompatible'
               PROVE  DecisionInv'
    OBVIOUS
  <2>w. world' = world
    BY DEF Next, vars, analysis, Evaluate, RecurseBuildRequires, Download, Pass, Reevaluate, RaiseMissing,
           HandleAgain, Build, DownloadLate, UseCached, Stop, Handled, MarkPrivateSkippable, Classify,
           StartBuild, Finish, EvaluateNode, Inherit, FailTwice, RefuseInvalid, ForceBuild, LookUp,
           TryCompatible, Conclude, EndEvaluation, Settle
  <2>1. NoneCompatible /\ DecisionInv
    BY <2>w, Static DEF NoneCompatible
  <2>2. CASE UNCHANGED vars
    <3>1. UNCHANGED <<world, present, nodes, facts, evaluated, frames, call, todo, processed, stage>>
      BY <2>2 DEF vars
    <3>2. PackagesInv' /\ CallInv'
      BY <2>1, <3>1, SameNodesDecision
    <3> QED
      BY <2>1, <3>1, <3>2 DEF DecisionInv, Downloads, DoneInv, Done, BrokenInv, Key, Ref, Node, Unsettled
  <2>3. ~TryCompatible
    <3> SUFFICES ASSUME TryCompatible PROVE FALSE
      OBVIOUS
    <3>1. call.step = "compatible" /\ call.rest # <<>>
      BY DEF TryCompatible
    <3> QED
      BY <2>1, <3>1 DEF DecisionInv, CallInv, NoCall
  <2>4. CASE EvaluateNode
    BY <2>1, <2>3, <2>4, ProcessDecision, ConcludeDecision, OtherDecision DEF EvaluateNode
  <2>5. CASE Next /\ ~EvaluateNode
    BY <2>1, <2>5, EvaluateDecision, MarkDecision, OtherDecision, HandleDecision, PassDecision,
       DownloadDecision, FinishDecision, ReevaluateDecision DEF Next
  <2> QED
    BY <2>2, <2>4, <2>5
<1> QED
  BY <1>1, <1>2, SpecStructure, SpecExact, PTL DEF Spec

\* For graphs without compatible packages: what was decided for a package is done.
THEOREM DecisionsAreDone == Spec => [](NoneCompatible => InstalledAsDecided)
<1>1. StructureInv /\ DecisionInv => InstalledAsDecided
  <2> SUFFICES ASSUME StructureInv, DecisionInv PROVE InstalledAsDecided
    OBVIOUS
  <2>1. stage = "broken" => \E n \in present : Unsettled(n)
    BY DEF DecisionInv, BrokenInv
  <2>2. ASSUME NEW n \in Packages, Installed(n), nodes[n].binary # "invalid"
        PROVE  nodes[n].prev # NoPrev /\ CacheOf(Key(n)) = nodes[n].prev
    <3>1. Done(n) /\ n \in present \ {Root} /\ n \in Node /\ IsNode(nodes[n])
          /\ nodes[n].binary \notin {"skip", "editable", "invalid"}
      BY <2>2 DEF Packages, Installed, Done, StructureInv, Typed
    <3>2. nodes[n].binary # "none"
      <4>1. call # NoCall => n # Self
        <5> SUFFICES ASSUME call # NoCall, n = Self PROVE FALSE
          OBVIOUS
        <5>1. stage = "install" /\ Self \in todo.level
          BY <3>1 DEF StructureInv, Calling, Analyzing, Done
        <5> QED
          BY <3>1, <5>1, TodoPast DEF Done
      <4>2. n \notin Unevaluated /\ stage # "failed"
        BY <3>1 DEF Done, Unevaluated, Analyzing
      <4> QED
        BY <3>1, <4>1, <4>2 DEF StructureInv, Known
    <3>3. nodes[n].binary \in Real \ {"invalid"}
      BY <3>1, <3>2 DEF IsNode, Binaries, DecisionInv, DoneInv
    <3>4. Key(n) \in DOMAIN processed /\ nodes[n].prev = processed[Key(n)]
      BY <3>1, <3>3 DEF DecisionInv, DoneInv
    <3> QED
      BY <3>4 DEF DecisionInv, PackagesInv, Processed, CacheOf
  <2> QED
    BY <2>1, <2>2 DEF InstalledAsDecided
<1> QED
  BY <1>1, SpecStructure, SpecDecision, PTL


-----------------------------------------------------------------------------
(* What a package takes from its requirements is what they will be.        *)

Seen == present \ Unevaluated

\* What was told of a node: its id and its revision, unless these were not known yet.
Of(p, c) ==
  p = <<Ref(c), p[2], p[3]>> /\ p[2] \in {Unknown, nodes[c].id} /\ p[3] \in {NoPrev, nodes[c].prev}
InformedBy(set, n) ==
  /\ \A p \in set : \E c \in Below(n) : Of(p, c)
  /\ \A c \in Below(n) : \E p \in set : Of(p, c)

Part(c, width) == SubSeq(Triple(c), 1, width)
Used(n) == IF Width(Ref(n)) = 0 THEN {} ELSE IF Width(Ref(n)) = 1 THEN Requires(n) ELSE Below(n)

\* An id that is known says what is known of the requirements.
IdIs(id, n) ==
  id \notin {Unknown, Invalid} =>
    /\ id = <<Ref(n), world.conf[n], {Part(c, Width(Ref(n))) : c \in Used(n)}>>
    /\ Width(Ref(n)) >= 2 => \A c \in Used(n) : nodes[c].id \notin {Unknown, Invalid}
    /\ Width(Ref(n)) = 3 => \A c \in Used(n) : nodes[c].prev # NoPrev

IdInv == \A n \in Seen : InformedBy(Info(n), n) /\ (world.fixed => IdIs(nodes[n].id, n))

Editables == \A n \in Node : nodes[n].binary = "editable" => nodes[n].prev \in {NoPrev, EditablePrev}

LEMMA SeenBelow ==
  ASSUME StructureInv
  PROVE  /\ \A n \in Seen : Requires(n) \subseteq Seen /\ Below(n) \subseteq Seen
         /\ \A n : Requires(n) \subseteq Seen => Below(n) \subseteq Seen
<1>0. world \in Worlds /\ present \subseteq Node
  BY DEF StructureInv, Typed
<1>1. ASSUME NEW n \in Seen PROVE Requires(n) \subseteq Seen
  <2>1. CASE Unevaluated = {}
    BY <2>1 DEF Seen, StructureInv, ClosedUp
  <2>2. CASE Unevaluated # {}
    <3>1. Analyzing /\ Unevaluated = Top.todo.left /\ Marked = present \ Top.set
      BY <2>2 DEF Unevaluated, Marked
    <3>2. frames # <<>>
      BY <3>1 DEF StructureInv, Stack, Analyzing
    <3>3. Ordered(Top.todo, Top.set)
      BY <3>2, TopOf DEF StructureInv
    <3>4. CASE n \in Marked
      BY <3>1, <3>3, <3>4 DEF Seen, StructureInv, ClosedUp, Ordered
    <3>5. CASE n \in Top.set \ Top.todo.left
      <4>1. Into(n, Kinds) \cap Top.todo.left = {}
        BY <3>3, <3>5 DEF Ordered
      <4>2. Requires(n) \subseteq Into(n, Kinds)
        BY <1>0, IntoRequires
      <4> QED
        BY <3>1, <4>1, <4>2 DEF Seen, StructureInv, ClosedUp
    <3> QED
      BY <1>1, <3>1, <3>4, <3>5 DEF Seen
  <2> QED
    BY <2>1, <2>2
<1>2. ASSUME NEW n, Requires(n) \subseteq Seen PROVE Below(n) \subseteq Seen
  BY <1>0, <1>1, <1>2, BelowFacts DEF Seen
<1> QED
  BY <1>1, <1>2

\* A step changes an id or a revision only when it was not known.
Learns(c) ==
  /\ nodes'[c].id = nodes[c].id \/ nodes[c].id = Unknown
  /\ nodes'[c].prev = nodes[c].prev \/ nodes[c].prev = NoPrev

LEMMA InformedKept ==
  ASSUME world' = world, NEW n, NEW set, InformedBy(set, n), \A c \in Below(n) : Learns(c)
  PROVE  InformedBy(set, n)'
<1>1. Below(n)' = Below(n)
  BY StaticBelow
<1>2. ASSUME NEW p, NEW c \in Below(n), Of(p, c) PROVE Of(p, c)'
  <2>1. Ref(c)' = Ref(c)
    BY DEF Ref
  <2> QED
    BY <1>2, <2>1 DEF Of, Learns
<1> QED
  BY <1>1, <1>2 DEF InformedBy

LEMMA Parts ==
  ASSUME NEW p, NEW q, NEW width \in 1..3, p = <<p[1], p[2], p[3]>>, q = <<q[1], q[2], q[3]>>,
         p[1] = q[1], width >= 2 => p[2] = q[2], width = 3 => p[3] = q[3]
  PROVE  SubSeq(p, 1, width) = SubSeq(q, 1, width)
<1> DEFINE S == {p[1], p[2], p[3], q[1], q[2], q[3]}
           s == SubSeq(p, 1, width)
           t == SubSeq(q, 1, width)
<1>1. \A i \in 1..width : p[i] \in S /\ q[i] \in S /\ p[i] = q[i]
  <2>1. \A i \in 1..width : i = 1 \/ (i = 2 /\ width >= 2) \/ (i = 3 /\ width = 3)
    OBVIOUS
  <2> QED
    BY <2>1
<1> HIDE DEF S
<1>2. /\ s \in Seq(S) /\ Len(s) = width /\ \A i \in 1..width : s[i] = p[i]
      /\ t \in Seq(S) /\ Len(t) = width /\ \A i \in 1..width : t[i] = q[i]
  <2>1. 1 \in Int /\ width \in Int /\ 1 <= width /\ width - 1 + 1 = width
        /\ \A i \in 1..width : 1 + i - 1 = i
    OBVIOUS
  <2>2. s \in Seq(S) /\ Len(s) = width /\ \A i \in 1..width : s[i] = p[1 + i - 1]
    BY <1>1, <2>1, SubSeqProperties
  <2>3. t \in Seq(S) /\ Len(t) = width /\ \A i \in 1..width : t[i] = q[1 + i - 1]
    BY <1>1, <2>1, SubSeqProperties
  <2> HIDE DEF s, t
  <2> QED
    BY <2>1, <2>2, <2>3
<1> HIDE DEF s, t
<1>3. s = t
  BY <1>1, <1>2, SeqEqual
<1> QED
  BY <1>3 DEF s, t

LEMMA IdKept ==
  ASSUME StructureInv, world' = world, NEW n \in Node, NEW id, IdIs(id, n),
         \A c \in Below(n) : Learns(c)
  PROVE  IdIs(id, n)'
<1> DEFINE width == Width(Ref(n))
<1>0. world \in Worlds /\ width \in 0..3 /\ Requires(n) \subseteq Below(n)
  BY WidthFacts, BelowFacts DEF StructureInv, Typed
<1>1. /\ Below(n)' = Below(n) /\ Requires(n)' = Requires(n) /\ Ref(n)' = Ref(n) /\ width' = width
      /\ \A c : Ref(c)' = Ref(c)
  BY StaticBelow, Static DEF Width, Ref
<1>2. Used(n)' = Used(n) /\ Used(n) \subseteq Below(n) /\ (width = 0 => Used(n) = {})
  BY <1>0, <1>1 DEF Used
<1> SUFFICES ASSUME id \notin {Unknown, Invalid} PROVE IdIs(id, n)'
  BY DEF IdIs
<1> HIDE DEF width
<1>3. /\ id = <<Ref(n), world.conf[n], {Part(c, width) : c \in Used(n)}>>
      /\ width >= 2 => \A c \in Used(n) : nodes[c].id \notin {Unknown, Invalid}
      /\ width = 3 => \A c \in Used(n) : nodes[c].prev # NoPrev
  BY DEF IdIs, width
<1>4. ASSUME NEW c \in Used(n)
      PROVE  /\ Part(c, width)' = Part(c, width)
             /\ width >= 2 => nodes'[c].id = nodes[c].id
             /\ width = 3 => nodes'[c].prev = nodes[c].prev
  <2>1. width \in 1..3
    BY <1>0, <1>2
  <2>2. /\ width >= 2 => nodes'[c].id = nodes[c].id
        /\ width = 3 => nodes'[c].prev = nodes[c].prev
    BY <1>0, <1>2, <1>3 DEF Learns
  <2>3. Triple(c)[1]' = Triple(c)[1] /\ Triple(c) = <<Ref(c), nodes[c].id, nodes[c].prev>>
        /\ Triple(c)' = <<Ref(c), nodes'[c].id, nodes'[c].prev>>
    BY <1>1 DEF Triple
  <2>4. SubSeq(<<Ref(c), nodes'[c].id, nodes'[c].prev>>, 1, width) =
        SubSeq(<<Ref(c), nodes[c].id, nodes[c].prev>>, 1, width)
    BY <2>1, <2>2, Parts
  <2>5. Part(c, width)' = SubSeq(<<Ref(c), nodes'[c].id, nodes'[c].prev>>, 1, width)
    BY <1>1, <2>3 DEF Part
  <2> QED
    BY <2>2, <2>3, <2>4, <2>5 DEF Part
<1>5. {Part(c, width) : c \in Used(n)}' = {Part(c, width) : c \in Used(n)}
  BY <1>1, <1>2, <1>4
<1> QED
  BY <1>1, <1>2, <1>3, <1>4, <1>5 DEF IdIs, width

\* What is told next.
LEMMA OwnInformed ==
  ASSUME StructureInv, IdInv, NEW n, Requires(n) \subseteq Seen
  PROVE  InformedBy(Own(n).direct \cup Own(n).indirect, n)
<1>0. world \in Worlds
  BY DEF StructureInv, Typed
<1> DEFINE told == Own(n).direct \cup Own(n).indirect
<1>1. told = {Triple(d) : d \in Requires(n)} \cup UNION {Info(d) : d \in Requires(n)}
  BY OwnInfo
<1> HIDE DEF told
<1>2. \A d : Of(Triple(d), d)
  BY DEF Of, Triple
<1>3. \A d \in Requires(n) : InformedBy(Info(d), d)
  BY DEF IdInv
<1>4. /\ \A d \in Requires(n) : d \in Below(n) /\ Below(d) \subseteq Below(n)
      /\ \A c \in Below(n) : c \in Requires(n) \/ \E d \in Requires(n) : c \in Below(d)
  BY <1>0, BelowFacts, BelowStep
<1>5. ASSUME NEW p \in told PROVE \E c \in Below(n) : Of(p, c)
  BY <1>1, <1>2, <1>3, <1>4 DEF InformedBy
<1>6. ASSUME NEW c \in Below(n) PROVE \E p \in told : Of(p, c)
  <2>1. CASE c \in Requires(n)
    BY <1>1, <1>2, <2>1
  <2>2. CASE \E d \in Requires(n) : c \in Below(d)
    BY <1>1, <1>3, <2>2 DEF InformedBy
  <2> QED
    BY <1>4, <2>1, <2>2
<1>7. InformedBy(told, n)
  BY <1>5, <1>6 DEF InformedBy
<1> QED
  BY <1>7 DEF told

LEMMA ComputedId ==
  ASSUME StructureInv, IdInv, world.fixed, NEW n \in Node, Requires(n) \subseteq Seen
  PROVE  IdIs(Computed(n).id, n)
<1> DEFINE width == Width(Ref(n))
           used == Own(n).used
           told == Own(n).direct \cup Own(n).indirect
           id == PackageId(Ref(n), world.conf[n], used)
<1>0. world \in Worlds /\ width \in 0..3 /\ Requires(n) \subseteq Below(n) /\ Below(n) \subseteq Node
      /\ IsNode(nodes[n])
  BY WidthFacts, BelowFacts DEF StructureInv, Typed
<1>1. InformedBy(told, n)
  BY OwnInformed
<1>2. /\ width = 0 => used = {}
      /\ width = 1 => used = {Triple(d) : d \in Requires(n)}
      /\ width >= 2 => used = told
      /\ used \subseteq told
  <2>1. Own(n).direct = {Triple(d) : d \in Requires(n)}
    BY OwnHasShape DEF OwnShape
  <2>2. /\ used \subseteq told
        /\ used = CASE width = 0 -> {} [] width = 1 -> Own(n).direct [] OTHER -> told
    BY OwnUse
  <2> HIDE DEF width, used, told
  <2> QED
    BY <1>0, <2>1, <2>2
<1>3. SUFFICES ASSUME Computed(n).id \notin {Unknown, Invalid} PROVE IdIs(Computed(n).id, n)
  BY DEF IdIs
<1>4. Computed(n).id = id
  BY <1>0, <1>3, ComputedFacts
<1> HIDE DEF used, told
<1>5. \A p \in used : p[1] \in Nat
  BY <1>0, <1>1, <1>2, WorldFacts DEF InformedBy, Of
<1>6. /\ id = <<Ref(n), world.conf[n], {SubSeq(p, 1, width) : p \in used}>>
      /\ width >= 2 => \A p \in used : p[2] \notin {Unknown, Invalid}
      /\ width = 3 => \A p \in used : p[3] # NoPrev
  BY <1>3, <1>4, <1>5, UnknownReason
<1>7. ASSUME width >= 2, NEW p \in used, NEW c, Of(p, c)
      PROVE  /\ SubSeq(p, 1, width) = Part(c, width) /\ nodes[c].id \notin {Unknown, Invalid}
             /\ width = 3 => nodes[c].prev # NoPrev
  <2>1. /\ p[2] = nodes[c].id /\ nodes[c].id \notin {Unknown, Invalid}
        /\ width = 3 => p[3] = nodes[c].prev /\ nodes[c].prev # NoPrev
    BY <1>6, <1>7 DEF Of
  <2>2. /\ p = <<p[1], p[2], p[3]>> /\ p[1] = Ref(c)
        /\ Triple(c)[1] = Ref(c) /\ Triple(c)[2] = nodes[c].id /\ Triple(c)[3] = nodes[c].prev
        /\ Triple(c) = <<Triple(c)[1], Triple(c)[2], Triple(c)[3]>>
    BY <1>7 DEF Of, Triple
  <2> HIDE DEF width
  <2>3. width \in 1..3
    BY <1>0, <1>7
  <2>4. SubSeq(p, 1, width) = SubSeq(Triple(c), 1, width)
    BY <2>1, <2>2, <2>3, Parts
  <2> QED
    BY <2>1, <2>4 DEF Part
<1>8. /\ {SubSeq(p, 1, width) : p \in used} = {Part(c, width) : c \in Used(n)}
      /\ width >= 2 => \A c \in Used(n) : nodes[c].id \notin {Unknown, Invalid}
      /\ width = 3 => \A c \in Used(n) : nodes[c].prev # NoPrev
  <2>1. CASE width = 0
    BY <1>2, <2>1 DEF Used
  <2>2. CASE width = 1
    BY <1>2, <2>2 DEF Used, Part
  <2>3. CASE width >= 2
    <3>1. Used(n) = Below(n) /\ used = told
      BY <1>2, <2>3 DEF Used
    <3>2. /\ \A p \in used : \E c \in Used(n) : Of(p, c)
          /\ \A c \in Used(n) : \E p \in used : Of(p, c)
      BY <1>1, <3>1 DEF InformedBy
    <3> HIDE DEF width
    <3>3. \A p \in used : \E c \in Used(n) : SubSeq(p, 1, width) = Part(c, width)
      BY <1>7, <2>3, <3>2
    <3>4. \A c \in Used(n) : \E p \in used : SubSeq(p, 1, width) = Part(c, width)
      BY <1>7, <2>3, <3>2
    <3>5. {SubSeq(p, 1, width) : p \in used} = {Part(c, width) : c \in Used(n)}
      BY <3>3, <3>4
    <3> QED
      BY <1>7, <2>3, <3>2, <3>5
  <2>4. width = 0 \/ width = 1 \/ width >= 2
    <3> HIDE DEF width
    <3> QED
      BY <1>0
  <2> HIDE DEF width
  <2> QED
    BY <2>1, <2>2, <2>3, <2>4
<1> QED
  BY <1>4, <1>6, <1>8 DEF IdIs


\* A node keeps what it was told, or is told what is known now, and with it its id.
Told(n) ==
  \/ /\ n \in Seen /\ nodes'[n].id = nodes[n].id
     /\ nodes'[n].direct = nodes[n].direct /\ nodes'[n].indirect = nodes[n].indirect
  \/ /\ nodes'[n].direct = Own(n).direct /\ nodes'[n].indirect = Own(n).indirect
     /\ Requires(n) \subseteq Seen
     /\ (n \in Seen /\ nodes'[n].id = nodes[n].id) \/ nodes'[n].id = Computed(n).id

Learning ==
  /\ world' = world /\ (\A c \in Seen : Learns(c)) /\ (\A n \in Seen' : Told(n))
  /\ \A n \in Node : nodes'[n].binary = "editable" => nodes'[n].prev \in {NoPrev, EditablePrev}

LEMMA LearningKeeps ==
  ASSUME StructureInv, StructureInv', IdInv, Learning
  PROVE  IdInv' /\ Editables'
<1> USE DEF Learning
<1>0. world \in Worlds /\ Node' = Node /\ Seen' \subseteq Node
  <2>1. Seen' \subseteq Node'
    BY DEF StructureInv, Typed, Seen
  <2> QED
    BY <2>1, Static DEF StructureInv, Typed
<1>1. Editables'
  BY <1>0 DEF Editables
<1>2. ASSUME NEW n \in Seen' PROVE InformedBy(Info(n), n)' /\ (world'.fixed => IdIs(nodes[n].id, n)')
  <2>0. n \in Node
    BY <1>0
  <2>1. CASE /\ n \in Seen /\ nodes'[n].id = nodes[n].id
             /\ nodes'[n].direct = nodes[n].direct /\ nodes'[n].indirect = nodes[n].indirect
    <3>1. \A c \in Below(n) : Learns(c)
      BY <2>1, SeenBelow
    <3>2. PICK set : set = Info(n)
      OBVIOUS
    <3>3. InformedBy(set, n)'
      BY <2>1, <3>1, <3>2, InformedKept DEF IdInv
    <3>4. Info(n)' = set
      BY <2>1, <3>2 DEF Info
    <3>5. InformedBy(Info(n), n)'
      BY <3>3, <3>4 DEF InformedBy
    <3>6. PICK id : id = nodes[n].id
      OBVIOUS
    <3>7. world.fixed => IdIs(id, n)'
      BY <2>0, <2>1, <3>1, <3>6, IdKept DEF IdInv
    <3>8. world.fixed => IdIs(nodes[n].id, n)'
      BY <2>1, <3>6, <3>7 DEF IdIs
    <3> QED
      BY <3>5, <3>8
  <2>2. CASE /\ nodes'[n].direct = Own(n).direct /\ nodes'[n].indirect = Own(n).indirect
             /\ Requires(n) \subseteq Seen
             /\ (n \in Seen /\ nodes'[n].id = nodes[n].id) \/ nodes'[n].id = Computed(n).id
    <3>1. \A c \in Below(n) : Learns(c)
      BY <2>2, SeenBelow
    <3>2. PICK set : set = Own(n).direct \cup Own(n).indirect
      OBVIOUS
    <3>3. InformedBy(set, n)
      BY <2>2, <3>2, OwnInformed
    <3>4. InformedBy(set, n)'
      BY <3>1, <3>3, InformedKept
    <3>5. Info(n)' = set
      BY <2>2, <3>2 DEF Info
    <3>6. InformedBy(Info(n), n)'
      BY <3>4, <3>5 DEF InformedBy
    <3>7. PICK id : id = nodes'[n].id
      OBVIOUS
    <3>8. world.fixed => IdIs(id, n)
      <4>1. CASE n \in Seen /\ nodes'[n].id = nodes[n].id
        BY <3>7, <4>1 DEF IdInv
      <4>2. CASE nodes'[n].id = Computed(n).id
        BY <2>0, <2>2, <3>7, <4>2, ComputedId
      <4> QED
        BY <2>2, <4>1, <4>2
    <3>9. world.fixed => IdIs(id, n)'
      BY <2>0, <3>1, <3>8, IdKept
    <3>10. world.fixed => IdIs(nodes[n].id, n)'
      BY <3>7, <3>9 DEF IdIs
    <3> QED
      BY <3>6, <3>10
  <2> QED
    BY <1>2, <2>1, <2>2 DEF Told
<1> QED
  BY <1>1, <1>2 DEF IdInv

LEMMA SeenSame ==
  ASSUME UNCHANGED <<present, frames>>, stage' = stage \/ (stage # "analyze" /\ stage' # "analyze")
  PROVE  Seen' = Seen
BY DEF Seen, Unevaluated, Analyzing, Top

LEMMA SameLearning ==
  ASSUME StructureInv, Editables, world' = world, Seen' \subseteq Seen,
         \A n \in Node : /\ nodes'[n].id = nodes[n].id /\ nodes'[n].prev = nodes[n].prev
                         /\ nodes'[n].direct = nodes[n].direct /\ nodes'[n].indirect = nodes[n].indirect
                         /\ nodes'[n].binary = "editable" => nodes[n].binary = "editable"
  PROVE  Learning
<1>1. Seen \subseteq Node
  BY DEF Seen, StructureInv, Typed
<1> QED
  BY <1>1 DEF Learning, Learns, Told, Editables

\* A step changes what is known of one node.
LEMMA OneLearns ==
  ASSUME StructureInv, Editables, world' = world, NEW n \in Node, Seen' \subseteq Seen \cup {n},
         \A m \in Node : m # n => nodes'[m] = nodes[m],
         n \in Seen => Learns(n), n \in Seen' => Told(n),
         nodes'[n].binary = "editable" => nodes'[n].prev \in {NoPrev, EditablePrev}
  PROVE  Learning
<1>1. Seen \subseteq Node
  BY DEF Seen, StructureInv, Typed
<1>2. ASSUME NEW m \in Node, m # n PROVE Learns(m) /\ (m \in Seen => Told(m))
  BY <1>2 DEF Learns, Told
<1>3. ASSUME NEW m \in Node, nodes'[m].binary = "editable" PROVE nodes'[m].prev \in {NoPrev, EditablePrev}
  BY <1>3 DEF Editables
<1>4. \A c \in Seen : Learns(c)
  BY <1>1, <1>2
<1>5. \A m \in Seen' : Told(m)
  BY <1>1, <1>2
<1> QED
  BY <1>3, <1>4, <1>5 DEF Learning

LEMMA EvaluateLearns ==
  ASSUME StructureInv, Editables, NEW n \in present, Evaluate(n)
  PROVE  Learning
<1> DEFINE label == CASE n = Root -> "none"
                      [] n # Root /\ Ref(n) \in world.editable -> "editable"
                      [] OTHER -> IF Computed(n).id = Unknown THEN "unknown" ELSE "none"
           v == [Computed(n) EXCEPT !.binary = label]
<1>1. /\ In("evaluate") /\ n \in Top.todo.level /\ nodes' = [nodes EXCEPT ![n] = v]
      /\ frames' = WithTop([Top EXCEPT !.todo = Past(n, Top.todo)])
      /\ UNCHANGED <<world, present, stage>>
  BY DEF Evaluate, IsNext
<1>2. /\ stage = "analyze" /\ frames # <<>> /\ Analyzing /\ Unevaluated = Top.todo.left
  BY <1>1, InFacts
<1>3. /\ n \in Node /\ n \in Top.todo.left /\ Top \in Frames /\ Ordered(Top.todo, Top.set)
      /\ Top.set \subseteq present
  BY <1>1, <1>2, TopOf DEF StructureInv, Typed, Ordered
<1>4. nodes[n] = NewNode /\ IsNode(nodes[n]) /\ world \in Worlds
  BY <1>2, <1>3, NewNodeFacts DEF StructureInv, Known, Typed
<1>5. /\ v.id = Computed(n).id /\ v.direct = Own(n).direct /\ v.indirect = Own(n).indirect
      /\ v.prev = NoPrev
  <2>1. /\ IsNode(Computed(n)) /\ Computed(n).prev = NoPrev
        /\ Computed(n).direct = Own(n).direct /\ Computed(n).indirect = Own(n).indirect
    <3>1. Ref(n) \in Nat
      BY <1>3, <1>4, WorldFacts
    <3> QED
      BY <1>4, <3>1, NodeTypes, ComputedFacts, NewNodeFacts
  <2> HIDE DEF label
  <2> QED
    BY <2>1 DEF IsNode, NodeFields
<1> HIDE DEF v, label
<1>6. nodes'[n] = v /\ \A m \in Node : m # n => nodes'[m] = nodes[m]
  BY <1>1, <1>3, OneNode DEF StructureInv, Typed
<1>7. Requires(n) \subseteq Seen
  <2>1. Into(n, Kinds) \cap Top.todo.left = {}
    BY <1>1, <1>3 DEF Ordered
  <2>2. Requires(n) \subseteq Into(n, Kinds)
    BY <1>4, IntoRequires
  <2> QED
    BY <1>2, <2>1, <2>2 DEF Seen, StructureInv, ClosedUp
<1>8. Seen' \subseteq Seen \cup {n}
  <2> DEFINE walk == Past(n, Top.todo)
             x == [Top EXCEPT !.todo = walk]
  <2>1. /\ walk \in Walks /\ walk.left = Top.todo.left \ {n} /\ Ordered(walk, Top.set)
    <3>1. Top.todo \in Walks /\ Top.set \in SUBSET Node
      BY <1>3 DEF Frames
    <3> QED
      BY <1>1, <1>3, <3>1, PastOrdered
  <2> HIDE DEF walk
  <2>2. x \in Frames /\ x.phase = Top.phase /\ x.todo = walk /\ x.set = Top.set /\ x.root = Top.root
    BY <1>3, <2>1 DEF Frames
  <2> HIDE DEF x
  <2>4. frames' = WithTop(x)
    BY <1>1 DEF x, walk
  <2>5. Top' = x
    BY <1>1, <1>2, <2>1, <2>2, <2>4, TopReplaced DEF StructureInv
  <2>6. Unevaluated' = Top.todo.left \ {n}
    BY <1>1, <1>2, <2>1, <2>2, <2>5 DEF Unevaluated, Analyzing
  <2> QED
    BY <1>1, <1>2, <2>6 DEF Seen
<1>9. n \notin Seen /\ Told(n)
  BY <1>2, <1>3, <1>5, <1>6, <1>7 DEF Seen, Told
<1> QED
  BY <1>1, <1>3, <1>5, <1>6, <1>8, <1>9, OneLearns


LEMMA MarkLearns ==
  ASSUME StructureInv, Editables, MarkPrivateSkippable
  PROVE  Learning
<1>1. /\ In("evaluate") /\ Top.todo.left = {}
      /\ UNCHANGED <<world, present, facts, evaluated, call, todo, processed, stage>>
      /\ \A n \in Node :
           IF n \in Top.set \ Public
           THEN nodes'[n] = [nodes[n] EXCEPT !.nonSkip = nodes[n].binary, !.binary = "skip"]
           ELSE nodes'[n] = nodes[n]
  BY Marking
<1>2. Unevaluated = {}
  BY <1>1, InFacts
<1>3. Seen' \subseteq Seen
  BY <1>1, <1>2 DEF Seen
<1>4. \A n \in Node : IsNode(nodes[n])
  BY DEF StructureInv, Typed
<1>5. ASSUME NEW n \in Node
      PROVE  /\ nodes'[n].id = nodes[n].id /\ nodes'[n].prev = nodes[n].prev
             /\ nodes'[n].direct = nodes[n].direct /\ nodes'[n].indirect = nodes[n].indirect
             /\ nodes'[n].binary = "editable" => nodes[n].binary = "editable"
  <2>1. CASE n \in Top.set \ Public
    BY <1>1, <1>4, <2>1 DEF IsNode, NodeFields
  <2>2. CASE n \notin Top.set \ Public
    BY <1>1, <2>2
  <2> QED
    BY <2>1, <2>2
<1> QED
  BY <1>1, <1>3, <1>5, SameLearning

LEMMA RecurseLearns ==
  ASSUME StructureInv, Editables,
         \/ \E n \in present : RecurseBuildRequires(n)
         \/ Classify
  PROVE  Learning
<1>1. In("extend") /\ world' = world /\ nodes' = nodes
  BY DEF RecurseBuildRequires, Classify
<1>2. Unevaluated = {} /\ Seen = present /\ frames # <<>>
  BY <1>1, InFacts DEF Seen
<1>3. Seen' \subseteq Seen
  <2>1. CASE Classify
    BY <1>2, <2>1 DEF Classify, Seen
  <2>2. CASE \E n \in present : RecurseBuildRequires(n)
    <3>1. PICK n \in present : RecurseBuildRequires(n)
      BY <2>2
    <3> DEFINE tools == IF nodes[n].binary \in {"build", "editable", "unknown"} \/ n = Root
                        THEN world.tools[n] ELSE {}
               x == [Top EXCEPT !.todo = Past(n, Top.todo)]
               y == Frame(tools, n)
    <3>2. /\ present' = present \cup tools /\ stage' = stage /\ stage = "analyze"
          /\ frames' = IF tools = {} THEN WithTop(x) ELSE Append(WithTop(x), y)
          /\ n \in Top.todo.level /\ Top \in Frames /\ Ordered(Top.todo, Top.set)
          /\ frames \in Seq(Frames)
      <4>1. Top \in Frames /\ Ordered(Top.todo, Top.set) /\ frames \in Seq(Frames)
        BY <1>2, TopOf DEF StructureInv, Typed
      <4> QED
        BY <3>1, <4>1 DEF RecurseBuildRequires, In, IsNext
    <3>3. tools \subseteq Node /\ n \in Node
      BY WorldFacts DEF StructureInv, Typed
    <3>4. x \in Frames
      <4>1. Top.todo \in Walks /\ Past(n, Top.todo) \in Walks
        BY <3>2, PastTyped DEF Frames
      <4> HIDE DEF tools
      <4> QED
        BY <3>2, <4>1 DEF Frames
    <3>5. y \in Frames /\ y.phase = "evaluate" /\ y.todo.left = tools
      <4> HIDE DEF tools
      <4>1. Walk(tools) \in Walks /\ Walk(tools).left = tools
        BY <3>3, WalkOrdered
      <4> QED
        BY <3>3, <4>1 DEF Frame, Frames
    <3>6. CASE tools = {}
      BY <1>2, <3>2, <3>6 DEF Seen
    <3>7. CASE tools # {}
      <4> HIDE DEF tools, x, y
      <4>1. WithTop(x) \in Seq(Frames)
        BY <1>2, <3>2, <3>4, ReplacedTop DEF WithTop
      <4> DEFINE rest == WithTop(x)
      <4> HIDE DEF rest
      <4>2. frames' = Append(rest, y) /\ rest \in Seq(Frames)
        BY <3>2, <3>7, <4>1 DEF rest
      <4>3. Last(frames') = y
        BY <3>5, <4>2, AddedTop
      <4>4. Top' = y
        BY <4>3 DEF Top
      <4>5. Unevaluated' = tools
        BY <3>2, <3>5, <4>4 DEF Unevaluated, Analyzing
      <4> QED
        BY <1>2, <3>2, <4>5 DEF Seen
    <3> QED
      BY <3>6, <3>7
  <2> QED
    BY <2>1, <2>2
<1> QED
  BY <1>1, <1>3, SameLearning

\* What is found out of a package does not change what its node was told.
LEMMA SettleLearns ==
  ASSUME StructureInv, DecisionInv, Editables, Processing, NEW node, Settle(node), IsNode(node),
         node.id = nodes[Self].id, node.binary \in Real,
         node.direct = nodes[Self].direct, node.indirect = nodes[Self].indirect
  PROVE  Learning
<1>1. call # NoCall /\ call.step = "process"
  BY DEF Processing, NoCall
<1>2. Self \in Node /\ nodes[Self].prev = NoPrev /\ call.own
  BY <1>1, CallFacts DEF DecisionInv, CallInv
<1>3. nodes' = [nodes EXCEPT ![Self] = node] /\ UNCHANGED <<world, present, frames, stage>>
  BY <1>2 DEF Settle
<1>4. nodes'[Self] = node /\ \A m \in Node : m # Self => nodes'[m] = nodes[m]
  BY <1>2, <1>3, OneNode DEF StructureInv, Typed
<1>5. Seen' = Seen
  BY <1>3, SeenSame
<1>6. Learns(Self) /\ (Self \in Seen => Told(Self)) /\ nodes'[Self].binary # "editable"
  BY <1>2, <1>4 DEF Learns, Told, Real
<1>7. PICK s \in Node : s = Self
  BY <1>2
<1>8. Learns(s) /\ (s \in Seen' => Told(s))
  BY <1>5, <1>6, <1>7 DEF Learns, Told
<1> QED
  BY <1>3, <1>4, <1>5, <1>6, <1>7, <1>8, OneLearns

LEMMA ProcessLearns ==
  ASSUME StructureInv, DecisionInv, Editables, Inherit \/ RefuseInvalid \/ ForceBuild \/ LookUp
  PROVE  Learning
<1>0. Processing
  BY DEF Inherit, RefuseInvalid, ForceBuild, LookUp, BeFirst
<1>1. call # NoCall /\ call.step = "process"
  BY <1>0 DEF Processing, NoCall
<1>2. Self \in Node /\ IsNode(nodes[Self]) /\ call.id = nodes[Self].id
  BY <1>1, CallFacts DEF DecisionInv, CallInv
<1>4. CASE Inherit
  <2> DEFINE first == evaluated[CallKey]
             node == [nodes[Self] EXCEPT !.binary = Decision(first), !.prev = nodes[first].prev,
                                         !.id = nodes[first].id]
  <2>1. /\ CallKey \in DOMAIN evaluated /\ IsNode(node)
        /\ node.binary = Decision(first) /\ node.id = nodes[first].id
        /\ node.direct = nodes[Self].direct /\ node.indirect = nodes[Self].indirect
        /\ Settle(node)
    BY <1>4, InheritFacts DEF IsCached
  <2>2. Decided(first) /\ Key(first) = CallKey
    BY <2>1 DEF DecisionInv, PackagesInv, Shared
  <2>3. nodes[first].id = call.id /\ Decision(first) \in Real
    BY <2>2 DEF Key, CallKey, Decided
  <2> HIDE DEF node
  <2> QED
    BY <1>0, <1>2, <2>1, <2>3, SettleLearns
<1>5. CASE RefuseInvalid
  <2> DEFINE node == [nodes[Self] EXCEPT !.binary = "invalid",
                                         !.should = @ \/ Forced(call.mode, Ref(Self), FALSE)]
  <2>1. Settle(node)
    BY <1>5 DEF RefuseInvalid
  <2>2. /\ IsNode(node) /\ node.binary \in Real /\ node.id = nodes[Self].id
        /\ node.direct = nodes[Self].direct /\ node.indirect = nodes[Self].indirect
    BY <1>2 DEF IsNode, NodeFields, Binaries, Real
  <2> HIDE DEF node
  <2> QED
    BY <1>0, <2>1, <2>2, SettleLearns
<1>6. CASE ForceBuild
  <2> DEFINE node == ToBuild(Self, nodes[Self])
  <2>1. Settle(node)
    BY <1>6 DEF ForceBuild
  <2>2. /\ IsNode(node) /\ node.id = nodes[Self].id /\ node.binary \in {"invalid", "build"}
        /\ node.direct = nodes[Self].direct /\ node.indirect = nodes[Self].indirect
    BY <1>2, ToBuildFacts
  <2> HIDE DEF node
  <2> QED
    BY <1>0, <2>1, <2>2, SettleLearns DEF Real
<1>7. CASE LookUp
  <2>1. PICK f \in Fact :
          LET found == Found(f, nodes[Self])
          IN  /\ facts' = With(facts, CallKey, f)
              /\ Settle(IF "outdated" \in call.mode.options /\ found.binary # "missing" /\ f.stale
                        THEN ToBuild(Self, found) ELSE found)
    BY <1>7 DEF LookUp
  <2> DEFINE found == Found(f, nodes[Self])
             outdated == "outdated" \in call.mode.options /\ found.binary # "missing" /\ f.stale
             node == IF outdated THEN ToBuild(Self, found) ELSE found
  <2>2. Settle(node)
    BY <2>1
  <2>3. f \in FactType
    BY FactTyped
  <2>5. /\ IsNode(found) /\ found.binary \in {"missing", "cache", "update", "download"}
        /\ found.id = nodes[Self].id
        /\ found.direct = nodes[Self].direct /\ found.indirect = nodes[Self].indirect
    BY <1>2, <2>3, FoundFacts
  <2>6. /\ IsNode(ToBuild(Self, found)) /\ ToBuild(Self, found).id = found.id
        /\ ToBuild(Self, found).binary \in {"invalid", "build"}
        /\ ToBuild(Self, found).direct = found.direct /\ ToBuild(Self, found).indirect = found.indirect
    BY <2>5, ToBuildFacts
  <2> HIDE DEF found, outdated
  <2>7. /\ IsNode(node) /\ node.id = nodes[Self].id /\ node.binary \in Real
        /\ node.direct = nodes[Self].direct /\ node.indirect = nodes[Self].indirect
    BY <2>5, <2>6 DEF Real
  <2> HIDE DEF node
  <2> QED
    BY <1>0, <2>2, <2>7, SettleLearns
<1> QED
  BY <1>4, <1>5, <1>6, <1>7

LEMMA ConcludeLearns ==
  ASSUME StructureInv, DecisionInv, Editables, Conclude
  PROVE  Learning
<1> DEFINE node == nodes[Self]
           v == CASE node.binary = "missing" /\ node.id = Invalid -> [node EXCEPT !.binary = "invalid"]
                  [] node.binary = "missing" /\ node.id # Invalid /\ Allowed(Ref(Self)) -> ToBuild(Self, node)
                  [] OTHER -> node
<1>1. /\ call.step = "compatible" /\ nodes' = [nodes EXCEPT ![Self] = v]
      /\ UNCHANGED <<world, present, frames, stage>>
  BY DEF Conclude, analysis
<1>2. call # NoCall
  BY <1>1 DEF NoCall
<1>3. Self \in Node /\ IsNode(node) /\ node.binary \in {"missing", "invalid"}
  BY <1>1, <1>2, CallFacts DEF StructureInv, Calling
<1>4. node.prev = NoPrev
  <2>1. Decision(Self) = node.binary /\ Decided(Self)
    BY <1>3 DEF Decision, Decided, Real
  <2>2. Revision(Self)
    BY <1>3, <2>1 DEF DecisionInv, PackagesInv, Revisions
  <2> QED
    BY <1>3, <2>1, <2>2 DEF Revision
<1>5. /\ v.id = node.id /\ v.prev = NoPrev /\ v.direct = node.direct /\ v.indirect = node.indirect
      /\ v.binary # "editable"
  <2>1. LET w == [node EXCEPT !.binary = "invalid"]
        IN  /\ w.id = node.id /\ w.prev = NoPrev /\ w.direct = node.direct
            /\ w.indirect = node.indirect /\ w.binary = "invalid"
    BY <1>3, <1>4 DEF IsNode, NodeFields
  <2>2. LET w == ToBuild(Self, node)
        IN  /\ w.id = node.id /\ w.prev = NoPrev /\ w.direct = node.direct
            /\ w.indirect = node.indirect /\ w.binary \in {"invalid", "build"}
    <3> HIDE DEF node
    <3> QED
      BY <1>3, ToBuildFacts
  <2> HIDE DEF node
  <2> QED
    BY <1>3, <1>4, <2>1, <2>2
<1> HIDE DEF v
<1>6. nodes'[Self] = v /\ \A m \in Node : m # Self => nodes'[m] = nodes[m]
  BY <1>1, <1>3, OneNode DEF StructureInv, Typed
<1>7. Seen' = Seen
  BY <1>1, SeenSame
<1>8. PICK s \in Node : s = Self
  BY <1>3
<1>9. Learns(s) /\ (s \in Seen' => Told(s))
  BY <1>4, <1>5, <1>6, <1>7, <1>8 DEF Learns, Told
<1> QED
  BY <1>1, <1>5, <1>6, <1>7, <1>8, <1>9, OneLearns


LEMMA LeavesLearns ==
  ASSUME StructureInv, Editables, NEW n, NEW p, Leaves(n, p),
         p = nodes[n].prev \/ nodes[n].prev = NoPrev,
         nodes[n].binary = "editable" => p \in {NoPrev, EditablePrev}
  PROVE  Learning
<1>1. /\ n \in Node /\ n \in present /\ stage = "install" /\ UNCHANGED <<world, present, frames, stage>>
      /\ nodes'[n].id = nodes[n].id /\ nodes'[n].binary = nodes[n].binary /\ nodes'[n].prev = p
      /\ nodes'[n].direct = Own(n).direct /\ nodes'[n].indirect = Own(n).indirect
      /\ \A m \in Node : m # n => nodes'[m] = nodes[m]
  BY DEF Leaves
<1>2. Seen' = Seen /\ Seen = present
  BY <1>1, SeenSame DEF Seen, Unevaluated, Analyzing
<1>3. Requires(n) \subseteq Seen
  BY <1>1, <1>2 DEF StructureInv, ClosedUp
<1>4. Learns(n) /\ Told(n)
  BY <1>1, <1>2, <1>3 DEF Learns, Told
<1> QED
  BY <1>1, <1>2, <1>4, OneLearns

LEMMA HandleLearns ==
  ASSUME StructureInv, DecisionInv, Editables, NEW n \in present,
         \/ RaiseMissing(n) \/ HandleAgain(n) \/ Build(n) \/ DownloadLate(n) \/ UseCached(n)
  PROVE  Learning
<1> DEFINE k == Key(n)
           b == nodes[n].binary
           q == nodes[n].prev
<1>0. HandleNow(n) /\ stage = "install"
  BY HandleCases
<1>1. /\ n \in Node /\ b \in Real /\ Decision(n) = b /\ Revision(n)
  BY <1>0, HandledDecided
<1>2. /\ b \in {"cache", "download", "update"} /\ k \in DOMAIN processed => processed[k] = q
      /\ b = "build" => q = NoPrev \/ (k \in DOMAIN processed /\ processed[k] = q)
      /\ b \in {"missing", "invalid"} => k \notin DOMAIN processed
  BY <1>1 DEF Revision
<1>3. ASSUME NEW why \in {"broken", "missing"}, Stop(why) PROVE Learning
  <2>1. UNCHANGED <<world, present, frames, nodes>> /\ stage' = why
    BY <1>3 DEF Stop, analysis
  <2>2. Seen' = Seen
    BY <1>0, <2>1, SeenSame
  <2> QED
    BY <2>1, <2>2, SameLearning
<1>4. ASSUME NEW p, Leaves(n, p),
             \/ k \in DOMAIN processed /\ p = processed[k] /\ b # "missing"
             \/ k \notin DOMAIN processed /\ b = "build"
             \/ p = q
      PROVE  Learning
  <2>1. p = q \/ q = NoPrev
    BY <1>1, <1>2, <1>4 DEF Real
  <2>2. b # "editable"
    BY <1>1 DEF Real
  <2> QED
    BY <1>4, <2>1, <2>2, LeavesLearns
<1> HIDE DEF k, b, q
<1>5. \/ Stop("missing") \/ Stop("broken")
      \/ \E p : /\ Leaves(n, p)
                /\ \/ k \in DOMAIN processed /\ p = processed[k] /\ b # "missing"
                   \/ k \notin DOMAIN processed /\ b = "build"
                   \/ p = q
  BY HandleCases DEF k, b, q
<1> QED
  BY <1>3, <1>4, <1>5

LEMMA PassLearns ==
  ASSUME StructureInv, Editables, NEW n \in present, Pass(n)
  PROVE  Learning
<1> DEFINE p == IF nodes[n].binary = "skip" THEN nodes[n].prev ELSE EditablePrev
<1>1. Leaves(n, p) /\ nodes[n].binary \in {"skip", "editable"} /\ n \in Node
  BY PassLeaves DEF StructureInv, Typed
<1>2. p = nodes[n].prev \/ nodes[n].prev = NoPrev
  BY <1>1 DEF Editables
<1>3. nodes[n].binary = "editable" => p \in {NoPrev, EditablePrev}
  OBVIOUS
<1> HIDE DEF p
<1> QED
  BY <1>1, <1>2, <1>3, LeavesLearns

LEMMA ReevaluateLearns ==
  ASSUME StructureInv, DecisionInv, Editables, NEW n \in present, Reevaluate(n)
  PROVE  Learning
<1>1. /\ stage = "install" /\ n \in todo.level /\ nodes[n].binary = "unknown"
      /\ IF Computed(n).id = Unknown THEN Stop("broken")
         ELSE /\ nodes' = [nodes EXCEPT ![n] = [Computed(n) EXCEPT !.binary = "none"]]
              /\ UNCHANGED <<world, present, frames, stage>>
  BY DEF Reevaluate, Installing, IsNext, analysis
<1>2. n \in Node /\ IsNode(nodes[n]) /\ Ref(n) \in Nat
  BY <1>1, TodoPast
<1>3. nodes[n].id = Unknown /\ nodes[n].prev = NoPrev
  BY <1>1, <1>2 DEF DecisionInv, PackagesInv, UnknownInv
<1>4. Seen = present
  BY <1>1 DEF Seen, Unevaluated, Analyzing
<1>5. CASE Computed(n).id = Unknown
  <2>1. UNCHANGED <<world, present, frames, nodes>> /\ stage' = "broken"
    BY <1>1, <1>5 DEF Stop, analysis
  <2>2. Seen' = Seen
    BY <1>1, <2>1, SeenSame
  <2> QED
    BY <2>1, <2>2, SameLearning
<1>6. CASE Computed(n).id # Unknown
  <2> DEFINE v == [Computed(n) EXCEPT !.binary = "none"]
  <2>1. nodes' = [nodes EXCEPT ![n] = v] /\ UNCHANGED <<world, present, frames, stage>>
    BY <1>1, <1>6
  <2>2. /\ v.binary = "none" /\ v.prev = NoPrev /\ v.id = Computed(n).id
        /\ v.direct = Own(n).direct /\ v.indirect = Own(n).indirect
    <3>1. IsNode(Computed(n))
      BY <1>2, NodeTypes
    <3>2. /\ Computed(n).prev = NoPrev
          /\ Computed(n).direct = Own(n).direct /\ Computed(n).indirect = Own(n).indirect
      BY <1>2, <1>3, ComputedFacts
    <3> QED
      BY <3>1, <3>2 DEF IsNode, NodeFields
  <2> HIDE DEF v
  <2>3. nodes'[n] = v /\ \A m \in Node : m # n => nodes'[m] = nodes[m]
    BY <1>2, <2>1, OneNode DEF StructureInv, Typed
  <2>4. Seen' = Seen
    BY <2>1, SeenSame
  <2>5. Requires(n) \subseteq Seen
    BY <1>4 DEF StructureInv, ClosedUp
  <2>6. Learns(n) /\ Told(n)
    BY <1>3, <2>2, <2>3, <2>5 DEF Learns, Told
  <2> QED
    BY <1>2, <2>1, <2>2, <2>3, <2>4, <2>6, OneLearns
<1> QED
  BY <1>5, <1>6

LEMMA FinishLearns ==
  ASSUME StructureInv, Editables, Finish
  PROVE  Learning
<1>1. /\ stage = "install" /\ stage' = "done" /\ nodes' = [nodes EXCEPT ![Root] = Transitive(Root)]
      /\ UNCHANGED <<world, present, frames>>
  BY DEF Finish, analysis, PropagateInfo
<1>2. Root \in Node /\ Root \in present /\ IsNode(nodes[Root])
  BY WorldFacts DEF StructureInv, Typed
<1>3. nodes'[Root] = Transitive(Root) /\ \A m \in Node : m # Root => nodes'[m] = nodes[m]
  BY <1>1, <1>2, OneNode DEF StructureInv, Typed
<1>4. /\ nodes'[Root].id = nodes[Root].id /\ nodes'[Root].prev = nodes[Root].prev
      /\ nodes'[Root].binary = nodes[Root].binary
      /\ nodes'[Root].direct = Own(Root).direct /\ nodes'[Root].indirect = Own(Root).indirect
  BY <1>2, <1>3, TransitiveFacts
<1>5. Seen' = Seen /\ Seen = present
  BY <1>1, SeenSame DEF Seen, Unevaluated, Analyzing
<1>6. Requires(Root) \subseteq Seen
  BY <1>2, <1>5 DEF StructureInv, ClosedUp
<1>7. Learns(Root) /\ Told(Root)
  BY <1>2, <1>4, <1>5, <1>6 DEF Learns, Told
<1> QED
  BY <1>1, <1>2, <1>3, <1>4, <1>5, <1>7, OneLearns DEF Editables

LEMMA OtherLearns ==
  ASSUME StructureInv, DecisionInv, Editables,
         \/ \E n \in present : Download(n)
         \/ StartBuild \/ FailTwice \/ EndEvaluation \/ UNCHANGED vars
  PROVE  Learning
<1>1. ~FailTwice
  <2> SUFFICES ASSUME FailTwice PROVE FALSE
    OBVIOUS
  <2>1. CallKey \in DOMAIN evaluated /\ nodes[evaluated[CallKey]].binary = "none"
    BY DEF FailTwice, IsCached
  <2> QED
    BY <2>1 DEF DecisionInv, PackagesInv, Shared, Decided, Decision, Real
<1>2. /\ UNCHANGED <<world, present, frames, nodes>>
      /\ stage' = stage \/ (stage # "analyze" /\ stage' # "analyze")
  <2>1. CASE \E n \in present : Download(n)
    BY <2>1 DEF Download, Stop, analysis
  <2>2. CASE StartBuild \/ EndEvaluation \/ UNCHANGED vars
    BY <2>2 DEF StartBuild, EndEvaluation, analysis, vars
  <2> QED
    BY <1>1, <2>1, <2>2
<1>3. Seen' = Seen
  BY <1>2, SeenSame
<1> QED
  BY <1>2, <1>3, SameLearning

LEMMA SpecIds == Spec => [](NoneCompatible => IdInv /\ Editables)
<1> DEFINE I == NoneCompatible => IdInv /\ Editables
           D == NoneCompatible => DecisionInv
<1>1. Init => I
  <2> SUFFICES ASSUME Init PROVE IdInv /\ Editables
    OBVIOUS
  <2>1. /\ stage = "analyze" /\ frames = <<Frame(world.initial, Root)>> /\ present = world.initial
        /\ \A n \in Node : nodes[n] = NewNode
    BY DEF Init, Node
  <2>2. Top = Frame(world.initial, Root)
    BY <2>1 DEF Top, Last
  <2>3. Unevaluated = world.initial
    BY <2>1, <2>2 DEF Unevaluated, Analyzing, Frame, Walk
  <2> QED
    BY <2>1, <2>3 DEF IdInv, Seen, Editables, NewNode
<1>2. StructureInv /\ StructureInv' /\ D /\ I /\ [Next]_vars => I'
  <2> SUFFICES ASSUME StructureInv, StructureInv', NoneCompatible => DecisionInv,
                      NoneCompatible => IdInv /\ Editables, [Next]_vars, NoneCompatible'
               PROVE  IdInv' /\ Editables'
    OBVIOUS
  <2>w. world' = world
    BY DEF Next, vars, analysis, Evaluate, RecurseBuildRequires, Download, Pass, Reevaluate, RaiseMissing,
           HandleAgain, Build, DownloadLate, UseCached, Stop, Handled, MarkPrivateSkippable, Classify,
           StartBuild, Finish, EvaluateNode, Inherit, FailTwice, RefuseInvalid, ForceBuild, LookUp,
           TryCompatible, Conclude, EndEvaluation, Settle
  <2>1. NoneCompatible /\ DecisionInv /\ IdInv /\ Editables
    BY <2>w, Static DEF NoneCompatible
  <2>3. ~TryCompatible
    <3> SUFFICES ASSUME TryCompatible PROVE FALSE
      OBVIOUS
    <3>1. call.step = "compatible" /\ call.rest # <<>>
      BY DEF TryCompatible
    <3> QED
      BY <2>1, <3>1 DEF DecisionInv, CallInv, NoCall
  <2>4. CASE EvaluateNode
    BY <2>1, <2>3, <2>4, LearningKeeps, ProcessLearns, ConcludeLearns, OtherLearns DEF EvaluateNode
  <2>5. CASE Next /\ ~EvaluateNode
    <3>1. Learning
      BY <2>1, <2>5, EvaluateLearns, MarkLearns, RecurseLearns, HandleLearns, PassLearns,
         FinishLearns, ReevaluateLearns, OtherLearns DEF Next
    <3> QED
      BY <2>1, <3>1, LearningKeeps
  <2>6. CASE UNCHANGED vars
    BY <2>1, <2>6, OtherLearns, LearningKeeps
  <2> QED
    BY <2>4, <2>5, <2>6
<1> QED
  BY <1>1, <1>2, SpecStructure, SpecDecision, PTL DEF Spec


-----------------------------------------------------------------------------
(* What the next command computes.                                         *)

LEMMA RequirementsSame ==
  ASSUME world.fixed, NEW n, NEW known, NEW other, NEW neighbors,
         \A d \in Requires(n) :
           known[d].direct \cup known[d].indirect = other[d].direct \cup other[d].indirect
  PROVE  Requirements(n, known, neighbors) = Requirements(n, other, neighbors)
<1> DEFINE direct == {<<Ref(d), nodes[d].id, nodes[d].prev>> : d \in Requires(n)}
           below(f) == UNION {f[d].direct \cup f[d].indirect : d \in Requires(n)}
           indirect(f) == below(f) \ direct
           visible(f) == {p \in indirect(f) : world.fixed \/ \E d \in neighbors : \E q \in f[d].info :
                                                q[1] = p[1] /\ q[2] = p[2]}
           record(all) == [direct |-> direct, indirect |-> all,
                           info |-> IF Width(Ref(n)) = 0 THEN {} ELSE direct \cup all,
                           used |-> CASE Width(Ref(n)) = 0 -> {}
                                      [] Width(Ref(n)) = 1 -> direct
                                      [] OTHER -> direct \cup all]
<1>1. below(known) = below(other)
  OBVIOUS
<1>2. \A f : visible(f) = indirect(f)
  OBVIOUS
<1>3. \A f : Requirements(n, f, neighbors) =
               [direct |-> direct, indirect |-> indirect(f),
                info |-> IF Width(Ref(n)) = 0 THEN {} ELSE direct \cup visible(f),
                used |-> CASE Width(Ref(n)) = 0 -> {}
                           [] Width(Ref(n)) = 1 -> direct
                           [] OTHER -> direct \cup visible(f)]
  BY DEF Requirements
<1>4. indirect(known) = indirect(other)
  BY <1>1
<1> HIDE DEF direct, below, indirect, visible
<1>5. \A f : Requirements(n, f, neighbors) = record(indirect(f))
  BY <1>2, <1>3
<1> HIDE DEF record
<1> QED
  BY <1>4, <1>5

LEMMA KnownId ==
  ASSUME NEW r, NEW conf, NEW used,
         Width(r) >= 2 => \A p \in used : p[2] \notin {Unknown, Invalid},
         Width(r) = 3 => \A p \in used : p[3] # NoPrev
  PROVE  PackageId(r, conf, used) = <<r, conf, {SubSeq(p, 1, Width(r)) : p \in used}>>
<1> DEFINE unknown(p) == (Width(r) >= 2 /\ p[2] = Unknown) \/ (Width(r) = 3 /\ p[3] = NoPrev)
           bad == {p \in used : unknown(p) \/ (Width(r) >= 2 /\ p[2] = Invalid)}
<1>1. bad = {}
  OBVIOUS
<1> QED
  BY <1>1 DEF PackageId

\* OwnFacts, of a value that is told to be what a package knows of its requirements.
Passed(n, known) == UNION {known[d].direct \cup known[d].indirect : d \in Requires(n)}
Counted(n, own) == CASE Width(Ref(n)) = 0 -> {}
                     [] Width(Ref(n)) = 1 -> own.direct
                     [] OTHER -> own.direct \cup own.indirect

LEMMA FactsOf ==
  ASSUME world.fixed, NEW n, NEW known, NEW neighbors, NEW own,
         own = Requirements(n, known, neighbors)
  PROVE  /\ own.direct = {Triple(d) : d \in Requires(n)}
         /\ own.direct \cup own.indirect = own.direct \cup Passed(n, known)
         /\ own.used = Counted(n, own)
<1> DEFINE R == Requirements(n, known, neighbors)
<1>1. R.direct = {Triple(d) : d \in Requires(n)}
  BY OwnFacts, Zenon
<1>2. R.direct \cup R.indirect = R.direct \cup Passed(n, known)
  BY OwnFacts, Zenon DEF Passed
<1>3. R.used = Counted(n, R)
  BY OwnFacts, Zenon DEF Counted
<1> HIDE DEF R
<1>4. own = R
  BY DEF R
<1> QED
  BY <1>1, <1>2, <1>3, <1>4

\* What the packages know once all are installed solves the equation of the next command.
LEMMA NextCommand ==
  ASSUME StructureInv, ExactInv, stage = "done", world.fixed, NEW n \in present \ {Root}
  PROVE  /\ AtNextCommand(n).direct = {Triple(d) : d \in Requires(n)}
         /\ AtNextCommand(n).direct \cup AtNextCommand(n).indirect = {Triple(c) : c \in Below(n)}
         /\ AtNextCommand(n).used =
              CASE Width(Ref(n)) = 0 -> {}
                [] Width(Ref(n)) = 1 -> AtNextCommand(n).direct
                [] OTHER -> AtNextCommand(n).direct \cup AtNextCommand(n).indirect
<1>0. world \in Worlds /\ present \subseteq Node
  BY DEF StructureInv, Typed
<1>1. \A m \in present \ {Root} : m \in Node /\ Done(m)
  BY <1>0 DEF StructureInv, Todo, Done
<1>2. \A m \in present : Requires(m) \subseteq present \ {Root}
  <2>1. \A m : Requires(m) \subseteq Node \ {Root}
    BY <1>0, IntoFacts DEF Requires
  <2> QED
    BY <2>1 DEF StructureInv, ClosedUp
<1>3. \A m \in present \ {Root} :
        /\ nodes[m].direct = Own(m).direct /\ nodes[m].indirect = Own(m).indirect
        /\ Info(m) = {Triple(c) : c \in Below(m)}
  BY <1>1 DEF ExactInv
<1> DEFINE later == CHOOSE f : f = [m \in present |-> Requirements(m, f, Requires(m))]
           g == [m \in present |-> Requirements(m, nodes, Requires(m))]
<1>4. AtNextCommand(n) = later[n]
  BY DEF AtNextCommand
<1>5. g = [m \in present |-> Requirements(m, g, Requires(m))]
  <2>1. ASSUME NEW d \in present \ {Root}
        PROVE  g[d].direct \cup g[d].indirect = nodes[d].direct \cup nodes[d].indirect
    <3>1. g[d] = Requirements(d, nodes, Requires(d))
      OBVIOUS
    <3> HIDE DEF g
    <3>2. g[d].direct = {Triple(c) : c \in Requires(d)}
          /\ g[d].direct \cup g[d].indirect =
               g[d].direct \cup Passed(d, nodes)
      BY <3>1, FactsOf
    <3>2a. Passed(d, nodes) = UNION {Info(c) : c \in Requires(d)}
      BY DEF Passed, Info
    <3>3. g[d].direct \cup g[d].indirect =
            {Triple(c) : c \in Requires(d)} \cup UNION {Info(c) : c \in Requires(d)}
      BY <3>2, <3>2a
    <3>4. Own(d).direct \cup Own(d).indirect =
            {Triple(c) : c \in Requires(d)} \cup UNION {Info(c) : c \in Requires(d)}
      BY OwnInfo
    <3> QED
      BY <1>3, <3>3, <3>4
  <2>2. ASSUME NEW m \in present
        PROVE  Requirements(m, g, Requires(m)) = Requirements(m, nodes, Requires(m))
    <3> HIDE DEF g
    <3> QED
      BY <1>2, <2>1, RequirementsSame
  <2> QED
    BY <2>2
<1>6. later = [m \in present |-> Requirements(m, later, Requires(m))]
  <2> HIDE DEF g
  <2> QED
    BY <1>5
<1> HIDE DEF later, g
<1>7. \A m \in present : later[m] = Requirements(m, later, Requires(m))
  BY <1>6
<1>8. ASSUME NEW m \in present
      PROVE  /\ later[m].direct = {Triple(d) : d \in Requires(m)}
             /\ later[m].direct \cup later[m].indirect =
                  later[m].direct \cup Passed(m, later)
             /\ later[m].used = Counted(m, later[m])
  <2>1. later[m] = Requirements(m, later, Requires(m))
    BY <1>7
  <2> QED
    BY <2>1, FactsOf
<1>9. \A m \in present \ {Root} : later[m].direct \cup later[m].indirect = Info(m)
  <2> DEFINE S == {m \in present \ {Root} : later[m].direct \cup later[m].indirect # Info(m)}
  <2>1. S \in SUBSET Node
    BY <1>0
  <2> SUFFICES ASSUME S # {} PROVE FALSE
    OBVIOUS
  <2>2. PICK m \in S : \A e \in world.edges : e[1] = m => e[2] \notin S
    <3> HIDE DEF S
    <3> QED
      BY <1>0, <2>1, Acyclic
  <2>3. m \in present \ {Root}
    BY <2>2
  <2>4. \A d \in Requires(m) : d \notin S
    <3> HIDE DEF S
    <3> QED
      BY <1>0, <2>2, IntoFacts DEF Requires
  <2>5. \A d \in Requires(m) : later[d].direct \cup later[d].indirect = Info(d)
    BY <1>2, <2>3, <2>4
  <2>5a. Passed(m, later) = UNION {Info(d) : d \in Requires(m)}
    <3> HIDE DEF S
    <3> QED
      BY <2>5 DEF Passed
  <2>6. later[m].direct \cup later[m].indirect =
          {Triple(d) : d \in Requires(m)} \cup UNION {Info(d) : d \in Requires(m)}
    <3>1. m \in present
      BY <2>3
    <3> HIDE DEF S
    <3>2. /\ later[m].direct = {Triple(d) : d \in Requires(m)}
          /\ later[m].direct \cup later[m].indirect =
               later[m].direct \cup Passed(m, later)
      BY <1>8, <3>1
    <3> QED
      BY <2>5a, <3>2
  <2>7. Info(m) = Own(m).direct \cup Own(m).indirect
    BY <1>3, <2>3 DEF Info
  <2>8. later[m].direct \cup later[m].indirect = Info(m)
    BY <2>6, <2>7, OwnInfo
  <2> QED
    BY <2>2, <2>8
<1>10. later[n].used = CASE Width(Ref(n)) = 0 -> {}
                        [] Width(Ref(n)) = 1 -> later[n].direct
                        [] OTHER -> later[n].direct \cup later[n].indirect
  BY <1>8 DEF Counted
<1> QED
  BY <1>3, <1>4, <1>8, <1>9, <1>10

\* For graphs without compatible packages, with transitive ids: a package is installed
\* under the id that the next command computes for it.
THEOREM IdsOfTheNextCommand == Spec => [](NoneCompatible => IdsAgree)
<1>1. StructureInv /\ ExactInv /\ DecisionInv /\ IdInv => IdsAgree
  <2> SUFFICES ASSUME StructureInv, ExactInv, DecisionInv, IdInv, world.fixed, stage = "done",
                      NEW n \in Packages, nodes[n].binary # "invalid"
               PROVE  nodes[n].id = PackageId(Ref(n), nodes[n].id[2], AtNextCommand(n).used)
    BY DEF IdsAgree, SameIds
  <2> DEFINE width == Width(Ref(n))
             used == AtNextCommand(n).used
  <2>1. /\ n \in present \ {Root} /\ n \in Node /\ n \notin Unevaluated /\ n \in Seen
        /\ Done(n) /\ nodes[n].binary \notin {"skip", "editable", "invalid"} /\ world \in Worlds
    BY DEF Packages, StructureInv, Typed, Unevaluated, Analyzing, Seen, Done, Todo
  <2>2. nodes[n].binary \in Real \ {"invalid"}
    <3>1. call = NoCall
      BY DEF StructureInv, Calling, Analyzing
    <3>2. nodes[n].binary # "none"
      BY <2>1, <3>1 DEF StructureInv, Known
    <3>3. nodes[n].binary # "unknown"
      BY <2>1 DEF DecisionInv, DoneInv
    <3> QED
      BY <2>1, <3>2, <3>3 DEF StructureInv, Typed, IsNode, Binaries
  <2>3. nodes[n].id \notin {Unknown, Invalid}
    <3>1. Decided(n) /\ Decision(n) # "invalid"
      BY <2>1, <2>2 DEF Decided, Decision, Real
    <3>2. Key(n) \in DOMAIN evaluated /\ (nodes[n].id = Invalid => Decision(n) = "invalid")
      BY <2>1, <3>1 DEF DecisionInv, PackagesInv, Shared
    <3>3. Key(n)[2] # Unknown
      BY <3>2 DEF DecisionInv, PackagesInv, Shared
    <3> QED
      BY <3>1, <3>2, <3>3 DEF Key
  <2>4. /\ nodes[n].id = <<Ref(n), world.conf[n], {Part(c, width) : c \in Used(n)}>>
        /\ width >= 2 => \A c \in Used(n) : nodes[c].id \notin {Unknown, Invalid}
        /\ width = 3 => \A c \in Used(n) : nodes[c].prev # NoPrev
    BY <2>1, <2>3 DEF IdInv, IdIs
  <2>5. used = {Triple(c) : c \in Used(n)}
    <3>1. /\ used = CASE width = 0 -> {}
                      [] width = 1 -> {Triple(c) : c \in Requires(n)}
                      [] OTHER -> {Triple(c) : c \in Below(n)}
          /\ Used(n) = IF width = 0 THEN {} ELSE IF width = 1 THEN Requires(n) ELSE Below(n)
      BY <2>1, NextCommand DEF Used
    <3> HIDE DEF width, used
    <3> QED
      BY <3>1
  <2>6. {SubSeq(p, 1, width) : p \in used} = {Part(c, width) : c \in Used(n)}
    <3> HIDE DEF width, used
    <3> QED
      BY <2>5 DEF Part
  <2>7. /\ width >= 2 => \A p \in used : p[2] \notin {Unknown, Invalid}
        /\ width = 3 => \A p \in used : p[3] # NoPrev
    <3>1. \A c : Triple(c)[2] = nodes[c].id /\ Triple(c)[3] = nodes[c].prev
      BY DEF Triple
    <3> HIDE DEF width, used
    <3> QED
      BY <2>4, <2>5, <3>1
  <2>8. nodes[n].id[2] = world.conf[n]
    BY <2>4
  <2> HIDE DEF used
  <2>9. PackageId(Ref(n), world.conf[n], used) =
          <<Ref(n), world.conf[n], {SubSeq(p, 1, width) : p \in used}>>
    BY <2>7, KnownId
  <2> QED
    BY <2>4, <2>6, <2>8, <2>9 DEF used
<1> QED
  BY <1>1, SpecStructure, SpecExact, SpecDecision, SpecIds, PTL

=============================================================================

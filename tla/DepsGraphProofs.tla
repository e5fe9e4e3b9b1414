--------------------------- MODULE DepsGraphProofs ---------------------------
(***************************************************************************)
(* What holds of every graph, whatever recipes, versions and options there *)
(* are: types in general, and, as long as requirements are neither private *)
(* nor for a build, all that a graph promises.                             *)
(***************************************************************************)
EXTENDS DepsGraph, SequenceTheorems, TLAPS

-----------------------------------------------------------------------------
(* Lists: sequences of anything.                                           *)

IsList(s) == s \in Seq({s[i] : i \in DOMAIN s})

\* What a list is, ...
LEMMA ListFacts ==
  ASSUME NEW s, IsList(s)
  PROVE  /\ Len(s) \in Nat /\ DOMAIN s = 1..Len(s)
         /\ s = [i \in 1..Len(s) |-> s[i]]
BY LenProperties DEF IsList

\* ... how one is made of its length, ...
LEMMA ListOf ==
  ASSUME NEW size \in Nat, NEW s, s = [i \in 1..size |-> s[i]]
  PROVE  IsList(s) /\ Len(s) = size
<1> DEFINE all == {s[i] : i \in DOMAIN s}
<1>1. DOMAIN s = 1..size /\ s \in [1..size -> all]
  OBVIOUS
<1>2. s \in Seq(all)
  BY <1>1, SeqDef
<1>3. Len(s) \in Nat /\ DOMAIN s = 1..Len(s)
  BY <1>2, LenProperties
<1> QED
  BY <1>1, <1>2, <1>3 DEF IsList

\* ... with one more, ...
LEMMA ListAppend ==
  ASSUME NEW s, IsList(s), NEW x
  PROVE  LET t == Append(s, x) IN
         /\ IsList(t) /\ Len(t) = Len(s) + 1 /\ DOMAIN t = DOMAIN s \cup {Len(s) + 1}
         /\ Len(s) + 1 \notin DOMAIN s /\ t[Len(s) + 1] = x /\ \A i \in DOMAIN s : t[i] = s[i]
<1> DEFINE all == {s[i] : i \in DOMAIN s} \cup {x}
           t == Append(s, x)
<1>1. Len(s) \in Nat /\ DOMAIN s = 1..Len(s) /\ s = [i \in 1..Len(s) |-> s[i]]
  BY ListFacts
<1>2. s \in Seq(all)
  BY <1>1, SeqDef
<1>3. /\ t \in Seq(all) /\ Len(t) = Len(s) + 1
      /\ \A i \in 1..Len(s) : t[i] = s[i]
      /\ t[Len(s) + 1] = x
  BY <1>2, AppendProperties
<1>4. t = [i \in 1..Len(t) |-> t[i]] /\ DOMAIN t = 1..Len(t)
  BY <1>3, LenProperties
<1> HIDE DEF t
<1>5. IsList(t)
  BY <1>1, <1>3, <1>4, ListOf
<1> QED
  BY <1>1, <1>3, <1>4, <1>5 DEF t

\* ... and with one less.
LEMMA ListFront ==
  ASSUME NEW s, IsList(s), s # <<>>
  PROVE  LET t == Front(s) IN
         /\ IsList(t) /\ Len(s) \in Nat \ {0} /\ Len(t) = Len(s) - 1 /\ DOMAIN t = 1..(Len(s) - 1)
         /\ Last(s) = s[Len(s)] /\ \A i \in DOMAIN t : t[i] = s[i]
<1> DEFINE all == {s[i] : i \in DOMAIN s}
           t == Front(s)
           size == Len(s)
<1>1. size \in Nat /\ DOMAIN s = 1..size /\ s \in Seq(all) /\ size # 0
  BY ListFacts, EmptySeq DEF IsList
<1>2. \A i \in 1..(size - 1) : s[i] \in all
  BY <1>1
<1>3. /\ t \in Seq(all)
      /\ Len(t) = IF 1 <= size - 1 THEN size - 1 - 1 + 1 ELSE 0
      /\ \A i \in 1..(size - 1 - 1 + 1) : t[i] = s[1 + i - 1]
  BY <1>1, <1>2, SubSeqProperties DEF Front
<1>4. t = [i \in 1..Len(t) |-> t[i]] /\ DOMAIN t = 1..Len(t)
  BY <1>3, LenProperties
<1>5. Last(s) = s[size]
  BY DEF Last
<1> HIDE DEF t, size
<1>6. Len(t) = size - 1
  BY <1>1, <1>3
<1>7. ASSUME NEW i \in 1..(size - 1) PROVE t[i] = s[i]
  <2>1. i \in 1..(size - 1 - 1 + 1) /\ 1 + i - 1 = i
    BY <1>1
  <2> QED
    BY <1>3, <2>1
<1>8. IsList(t)
  BY <1>1, <1>4, <1>6, ListOf
<1> QED
  BY <1>1, <1>4, <1>5, <1>6, <1>7, <1>8 DEF t, size

\* The frames of a stack whose last one is replaced, or has one on it.
LEMMA TopReplaced ==
  ASSUME NEW s, IsList(s), s # <<>>, NEW x
  PROVE  LET t == Append(Front(s), x) IN
         /\ IsList(t) /\ Len(t) = Len(s) /\ DOMAIN t = DOMAIN s /\ t # <<>> /\ Last(t) = x
         /\ t[Len(s)] = x /\ \A i \in DOMAIN s : i # Len(s) => t[i] = s[i]
<1> DEFINE f == Front(s)
           t == Append(f, x)
<1>1. /\ IsList(f) /\ Len(s) \in Nat \ {0} /\ Len(f) = Len(s) - 1 /\ DOMAIN f = 1..(Len(s) - 1)
      /\ \A i \in DOMAIN f : f[i] = s[i]
  BY ListFront
<1>d. DOMAIN s = 1..Len(s)
  BY ListFacts
<1> HIDE DEF f
<1>2. /\ IsList(t) /\ Len(t) = Len(f) + 1 /\ t[Len(f) + 1] = x
      /\ \A i \in DOMAIN f : t[i] = f[i]
  BY <1>1, ListAppend
<1>3. DOMAIN t = 1..Len(t)
  BY <1>2, ListFacts
<1> HIDE DEF t
<1>4. t # <<>> /\ Last(t) = t[Len(t)]
  BY <1>1, <1>2 DEF Last
<1> QED
  BY <1>1, <1>2, <1>3, <1>4, <1>d DEF t, f

LEMMA TopAdded ==
  ASSUME NEW s, IsList(s), NEW x
  PROVE  LET t == Append(s, x) IN
         /\ IsList(t) /\ Len(t) = Len(s) + 1 /\ t # <<>> /\ Last(t) = x /\ Len(s) \in Nat
         /\ DOMAIN t = 1..(Len(s) + 1) /\ DOMAIN s = 1..Len(s)
         /\ t[Len(s) + 1] = x /\ \A i \in DOMAIN s : t[i] = s[i]
<1> DEFINE t == Append(s, x)
<1>1. /\ IsList(t) /\ Len(t) = Len(s) + 1 /\ t[Len(s) + 1] = x
      /\ \A i \in DOMAIN s : t[i] = s[i]
      /\ Len(s) \in Nat /\ DOMAIN s = 1..Len(s)
  BY ListAppend, ListFacts
<1>2. DOMAIN t = 1..Len(t)
  BY <1>1, ListFacts
<1> HIDE DEF t
<1>3. t # <<>> /\ Last(t) = t[Len(t)]
  BY <1>1 DEF Last
<1> QED
  BY <1>1, <1>2, <1>3 DEF t

-----------------------------------------------------------------------------
(* Graphs, which are lists of nodes, and the dictionaries of their nodes.  *)

KeyIn(ns, n) == <<ns[n].name, ns[n].context>>

IsDict(ns, dict) ==
  /\ dict \in [Key -> DOMAIN ns \cup {None}]
  /\ \A k \in Key : dict[k] # None => KeyIn(ns, dict[k]) = k

IsNames(ns, dict) ==
  /\ dict \in [Name \cup {Root} -> DOMAIN ns \cup {None}]
  /\ \A k \in Name \cup {Root} : dict[k] # None => ns[dict[k]].name = k

NodeFields == {"name", "version", "context", "recipe", "requires", "configured", "option",
               "modified", "frozen", "deps", "depsModified", "edges", "inverse", "ancestors",
               "public_deps", "public_closure", "transitive"}

IsRequires(s) == IsList(s) /\ \A i \in DOMAIN s : s[i] \in Requirement

TypedNode(ns, x) ==
  /\ x = [f \in NodeFields |-> x[f]]
  /\ <<x.name, x.context>> \in Key /\ IsRequires(x.requires)
  /\ x.option \in Value /\ x.modified \in BOOLEAN /\ x.frozen \in BOOLEAN
  /\ x.deps \in [Name -> Value \cup {None}] /\ x.depsModified \subseteq Name
  /\ x.edges \subseteq [dst : DOMAIN ns, name : Name, kind : Kind]
  /\ x.inverse \subseteq DOMAIN ns /\ x.ancestors \subseteq Key
  /\ IsDict(ns, x.public_deps) /\ IsDict(ns, x.public_closure) /\ IsNames(ns, x.transitive)

IsNode(ns, n) == TypedNode(ns, ns[n]) /\ ns[n].version \in IF n = 1 THEN {None} ELSE Version

IsGraph(ns) == IsList(ns) /\ \A n \in DOMAIN ns : IsNode(ns, n)

\* Nothing but some fields of a node is other than it was.
Same(x, y, fields) ==
  x = [f \in NodeFields |-> x[f]] /\ \A f \in NodeFields \ fields : x[f] = y[f]

Has(ns, n) == Held(ns[n].public_closure)
Sees(ns, n) == Held(ns[n].public_deps)
Passes(ns, n) == Held(ns[n].transitive)

\* No two nodes have one key, or one name.
Unique(ns) ==
  \A n, m \in DOMAIN ns : n # m => ns[n].name # ns[m].name

\* No node has the number that stands for none.
LEMMA NoneIsNoNode ==
  ASSUME NEW ns, IsList(ns)
  PROVE  None \notin DOMAIN ns
BY ListFacts DEF None

\* A dictionary of the nodes there are is one of the nodes that there will be.
LEMMA DictKept ==
  ASSUME NEW ns, NEW nt, DOMAIN ns \subseteq DOMAIN nt, IsList(ns),
         \A n \in DOMAIN ns : nt[n].name = ns[n].name /\ nt[n].context = ns[n].context
  PROVE  /\ \A dict : IsDict(ns, dict) => IsDict(nt, dict)
         /\ \A dict : IsNames(ns, dict) => IsNames(nt, dict)
<1>1. ASSUME NEW dict, IsDict(ns, dict) PROVE IsDict(nt, dict)
  <2>1. ASSUME NEW k \in Key, dict[k] # None PROVE KeyIn(nt, dict[k]) = k
    BY <1>1, <2>1 DEF IsDict, KeyIn
  <2> QED
    BY <1>1, <2>1 DEF IsDict
<1>2. ASSUME NEW dict, IsNames(ns, dict) PROVE IsNames(nt, dict)
  BY <1>2 DEF IsNames
<1> QED
  BY <1>1, <1>2

\* What is held is what some key, or some name, stands for.
LEMMA HeldDict ==
  ASSUME NEW ns, IsGraph(ns), NEW dict, IsDict(ns, dict)
  PROVE  /\ Held(dict) \subseteq DOMAIN ns
         /\ \A n \in DOMAIN ns : n \in Held(dict) <=> dict[KeyIn(ns, n)] = n
         /\ \A k \in Key : dict[k] = None <=> \A n \in Held(dict) : KeyIn(ns, n) # k
<1>1. None \notin DOMAIN ns
  BY NoneIsNoNode DEF IsGraph
<1>2. \A n \in DOMAIN ns : KeyIn(ns, n) \in Key
  BY DEF IsGraph, IsNode, TypedNode, KeyIn
<1>3. DOMAIN dict = Key /\ \A k \in Key : dict[k] \in DOMAIN ns \cup {None}
  BY DEF IsDict
<1>4. \A k \in Key : dict[k] # None => dict[k] \in Held(dict) /\ KeyIn(ns, dict[k]) = k
  BY <1>3 DEF Held, IsDict
<1>5. \A n \in Held(dict) : n # None /\ \E k \in Key : dict[k] = n
  BY <1>3 DEF Held
<1>6. Held(dict) \subseteq DOMAIN ns
  BY <1>3, <1>5
<1>7. \A n \in Held(dict) : dict[KeyIn(ns, n)] = n
  BY <1>4, <1>5
<1> QED
  BY <1>1, <1>2, <1>4, <1>6, <1>7

LEMMA HeldNames ==
  ASSUME NEW ns, IsGraph(ns), NEW dict, IsNames(ns, dict)
  PROVE  /\ Held(dict) \subseteq DOMAIN ns
         /\ \A n \in DOMAIN ns : n \in Held(dict) <=> dict[ns[n].name] = n
         /\ \A k \in Name \cup {Root} : dict[k] = None <=> \A n \in Held(dict) : ns[n].name # k
<1>1. None \notin DOMAIN ns
  BY NoneIsNoNode DEF IsGraph
<1>2. \A n \in DOMAIN ns : ns[n].name \in Name \cup {Root}
  BY DEF IsGraph, IsNode, TypedNode, Key
<1>3. DOMAIN dict = Name \cup {Root} /\ \A k \in Name \cup {Root} : dict[k] \in DOMAIN ns \cup {None}
  BY DEF IsNames
<1>4. \A k \in Name \cup {Root} : dict[k] # None => dict[k] \in Held(dict) /\ ns[dict[k]].name = k
  BY <1>3 DEF Held, IsNames
<1>5. \A n \in Held(dict) : n # None /\ \E k \in Name \cup {Root} : dict[k] = n
  BY <1>3 DEF Held
<1>6. Held(dict) \subseteq DOMAIN ns
  BY <1>3, <1>5
<1>7. \A n \in Held(dict) : dict[ns[n].name] = n
  BY <1>4, <1>5
<1> QED
  BY <1>1, <1>2, <1>4, <1>6, <1>7

\* A graph stays one when other fields of its nodes change.
LEMMA GraphKept ==
  ASSUME NEW ns, IsGraph(ns), NEW nt, nt = [n \in DOMAIN ns |-> nt[n]],
         \A n \in DOMAIN ns : /\ TypedNode(ns, nt[n]) /\ nt[n].name = ns[n].name
                             /\ nt[n].context = ns[n].context /\ nt[n].version = ns[n].version
  PROVE  IsGraph(nt) /\ Len(nt) = Len(ns) /\ DOMAIN nt = DOMAIN ns
<1>1. Len(ns) \in Nat /\ DOMAIN ns = 1..Len(ns)
  BY ListFacts DEF IsGraph
<1>2. DOMAIN nt = DOMAIN ns /\ nt = [n \in 1..Len(ns) |-> nt[n]]
  BY <1>1
<1>3. IsList(nt) /\ Len(nt) = Len(ns)
  BY <1>1, <1>2, ListOf
<1>4. \A dict : /\ IsDict(ns, dict) => IsDict(nt, dict)
                /\ IsNames(ns, dict) => IsNames(nt, dict)
  BY <1>2, DictKept DEF IsGraph
<1>5. ASSUME NEW n \in DOMAIN ns PROVE IsNode(nt, n)
  <2>1. TypedNode(nt, nt[n])
    BY <1>2, <1>4 DEF TypedNode
  <2>2. nt[n].version \in IF n = 1 THEN {None} ELSE Version
    BY DEF IsGraph, IsNode
  <2> QED
    BY <2>1, <2>2 DEF IsNode
<1> QED
  BY <1>2, <1>3, <1>5 DEF IsGraph

-----------------------------------------------------------------------------
(* What connect_closure and the others do to a graph.                      *)

Put(ns, to, dict) ==
  [k \in Key |-> IF \E n \in to : KeyIn(ns, n) = k
                 THEN CHOOSE n \in to : KeyIn(ns, n) = k ELSE dict[k]]

\* A node that is put in a dictionary is there, in the place of another one.
LEMMA PutFacts ==
  ASSUME NEW ns, IsGraph(ns), NEW to \in SUBSET DOMAIN ns, NEW dict, IsDict(ns, dict)
  PROVE  /\ IsDict(ns, Put(ns, to, dict))
         /\ Unique(ns) => Held(Put(ns, to, dict)) = Held(dict) \cup to
<1> DEFINE put == Put(ns, to, dict)
<1>1. ASSUME NEW k \in Key
      PROVE  IF \E n \in to : KeyIn(ns, n) = k THEN put[k] \in to /\ KeyIn(ns, put[k]) = k
             ELSE put[k] = dict[k]
  BY DEF Put
<1>2. put \in [Key -> DOMAIN ns \cup {None}]
  <2>1. \A k \in Key : put[k] \in DOMAIN ns \cup {None}
    BY <1>1 DEF IsDict
  <2> QED
    BY <2>1 DEF Put
<1>3. IsDict(ns, put)
  BY <1>1, <1>2 DEF IsDict
<1>4. ASSUME Unique(ns) PROVE Held(put) = Held(dict) \cup to
  <2>1. \A n, m \in DOMAIN ns : KeyIn(ns, n) = KeyIn(ns, m) => n = m
    BY <1>4 DEF Unique, KeyIn
  <2>2. \A n \in DOMAIN ns : KeyIn(ns, n) \in Key
    BY DEF IsGraph, IsNode, TypedNode, KeyIn
  <2> HIDE DEF put
  <2>3. Held(put) \subseteq DOMAIN ns /\ Held(dict) \subseteq DOMAIN ns
    BY <1>3, HeldDict
  <2>4. \A n \in DOMAIN ns : (n \in Held(put)) <=> put[KeyIn(ns, n)] = n
    BY <1>3, HeldDict
  <2>5. \A n \in DOMAIN ns : (n \in Held(dict)) <=> dict[KeyIn(ns, n)] = n
    BY HeldDict
  <2>6. ASSUME NEW n \in DOMAIN ns PROVE (n \in Held(put)) <=> (n \in Held(dict) \/ n \in to)
    <3>1. CASE n \in to
      <4>1. put[KeyIn(ns, n)] \in to /\ KeyIn(ns, put[KeyIn(ns, n)]) = KeyIn(ns, n)
        BY <1>1, <2>2, <3>1
      <4> QED
        BY <2>1, <2>4, <3>1, <4>1
    <3>2. CASE n \notin to
      <4>1. CASE \E m \in to : KeyIn(ns, m) = KeyIn(ns, n)
        BY <2>1, <3>2, <4>1
      <4>2. CASE ~\E m \in to : KeyIn(ns, m) = KeyIn(ns, n)
        BY <1>1, <2>2, <2>4, <2>5, <3>2, <4>2
      <4> QED
        BY <4>1, <4>2
    <3> QED
      BY <3>1, <3>2
  <2> QED
    BY <2>3, <2>6
<1> QED
  BY <1>3, <1>4

\* connect_closure.
Connected(nt, ns, from, to) ==
  /\ IsGraph(nt) /\ Len(nt) = Len(ns) /\ DOMAIN nt = DOMAIN ns
  /\ \A n \in DOMAIN ns :
       /\ Same(nt[n], ns[n], {"public_closure", "public_deps", "inverse"})
       /\ nt[n].inverse = ns[n].inverse \cup IF n \in to THEN from ELSE {}
       /\ nt[n].public_closure =
            IF n \in from THEN Put(ns, to, ns[n].public_closure) ELSE ns[n].public_closure
       /\ nt[n].public_deps =
            IF n \in from THEN Put(ns, to, ns[n].public_deps) ELSE ns[n].public_deps

LEMMA ConnectFacts ==
  ASSUME NEW ns, IsGraph(ns), NEW from, from \subseteq DOMAIN ns, NEW to, to \subseteq DOMAIN ns
  PROVE  Connected(Connect(ns, from, to), ns, from, to)
<1> DEFINE nt == Connect(ns, from, to)
<1>2. nt = [n \in DOMAIN ns |->
              [ns[n] EXCEPT
                 !.public_closure = IF n \in from THEN Put(ns, to, ns[n].public_closure) ELSE @,
                 !.public_deps = IF n \in from THEN Put(ns, to, ns[n].public_deps) ELSE @,
                 !.inverse = IF n \in to THEN @ \cup from ELSE @]]
  BY DEF Connect, Put, KeyIn
<1>3. ASSUME NEW n \in DOMAIN ns
      PROVE  /\ Same(nt[n], ns[n], {"public_closure", "public_deps", "inverse"})
             /\ nt[n].inverse = ns[n].inverse \cup IF n \in to THEN from ELSE {}
             /\ nt[n].public_closure =
                  IF n \in from THEN Put(ns, to, ns[n].public_closure) ELSE ns[n].public_closure
             /\ nt[n].public_deps =
                  IF n \in from THEN Put(ns, to, ns[n].public_deps) ELSE ns[n].public_deps
  <2> DEFINE closure == IF n \in from THEN Put(ns, to, ns[n].public_closure) ELSE ns[n].public_closure
             deps == IF n \in from THEN Put(ns, to, ns[n].public_deps) ELSE ns[n].public_deps
             inverse == ns[n].inverse \cup IF n \in to THEN from ELSE {}
  <2>1. ns[n] = [f \in NodeFields |-> ns[n][f]]
    BY DEF IsGraph, IsNode, TypedNode
  <2>2. nt[n] = [ns[n] EXCEPT !.public_closure = closure, !.public_deps = deps,
                              !.inverse = inverse]
    BY <1>2
  <2> HIDE DEF closure, deps, inverse, nt
  <2>3. /\ Same(nt[n], ns[n], {"public_closure", "public_deps", "inverse"})
        /\ nt[n].public_closure = closure /\ nt[n].public_deps = deps /\ nt[n].inverse = inverse
    BY <2>1, <2>2 DEF Same, NodeFields
  <2> QED
    BY <2>3 DEF closure, deps, inverse
<1>4. nt = [n \in DOMAIN ns |-> nt[n]]
  BY <1>2
<1> HIDE DEF nt
<1>5. ASSUME NEW n \in DOMAIN ns
      PROVE  /\ TypedNode(ns, nt[n]) /\ nt[n].name = ns[n].name
             /\ nt[n].context = ns[n].context /\ nt[n].version = ns[n].version
  <2>1. TypedNode(ns, ns[n])
    BY DEF IsGraph, IsNode
  <2>2. IsDict(ns, nt[n].public_closure) /\ IsDict(ns, nt[n].public_deps)
    <3>1. /\ IsDict(ns, ns[n].public_closure) /\ IsDict(ns, ns[n].public_deps)
          /\ IsDict(ns, Put(ns, to, ns[n].public_closure))
          /\ IsDict(ns, Put(ns, to, ns[n].public_deps))
      BY <2>1, PutFacts DEF TypedNode
    <3> QED
      BY <1>3, <3>1
  <2>3. nt[n].inverse \subseteq DOMAIN ns
    BY <1>3, <2>1 DEF TypedNode
  <2>4. nt[n] = [f \in NodeFields |-> nt[n][f]]
    BY <1>3 DEF Same
  <2>5. \A f \in NodeFields \ {"public_closure", "public_deps", "inverse"} : nt[n][f] = ns[n][f]
    BY <1>3 DEF Same
  <2> QED
    BY <2>1, <2>2, <2>3, <2>4, <2>5 DEF TypedNode, NodeFields
<1>6. IsGraph(nt) /\ Len(nt) = Len(ns) /\ DOMAIN nt = DOMAIN ns
  BY <1>4, <1>5, GraphKept
<1> QED
  BY <1>3, <1>6 DEF nt, Connected

\* add_edge.
EdgeAdded(nt, ns, top, edge) ==
  /\ IsGraph(nt) /\ Len(nt) = Len(ns) /\ DOMAIN nt = DOMAIN ns
  /\ \A n \in DOMAIN ns :
       /\ Same(nt[n], ns[n], {"edges"})
       /\ nt[n].edges = IF n = top /\ ~\E e \in ns[n].edges : e.dst = edge.dst
                        THEN ns[n].edges \cup {edge} ELSE ns[n].edges

EdgeTo(dst) == [dst |-> dst, name |-> Require.name, kind |-> Require.kind]

LEMMA AddEdgeFacts ==
  ASSUME NEW ns, IsGraph(ns), NEW dst \in DOMAIN ns, Top.node \in DOMAIN ns, Require \in Requirement
  PROVE  EdgeAdded(AddEdge(ns, dst), ns, Top.node, EdgeTo(dst))
<1> DEFINE nt == AddEdge(ns, dst)
           made == EdgeTo(dst)
           top == Top.node
           edges == IF \E e \in ns[top].edges : e.dst = dst THEN ns[top].edges
                    ELSE ns[top].edges \cup {made}
<1>1. nt = [ns EXCEPT ![top].edges = edges]
  BY DEF AddEdge, EdgeTo
<1>2. top \in DOMAIN ns /\ made \in [dst : DOMAIN ns, name : Name, kind : Kind]
       /\ made.dst = dst
  BY DEF Requirement, EdgeTo
<1>m. \A n \in DOMAIN ns : TypedNode(ns, ns[n])
  BY DEF IsGraph, IsNode
<1>3. edges \subseteq [dst : DOMAIN ns, name : Name, kind : Kind]
  BY <1>2, <1>m DEF TypedNode
<1>4. nt = [n \in DOMAIN ns |-> IF n = top THEN [ns[n] EXCEPT !.edges = edges] ELSE ns[n]]
  <2> HIDE DEF nt, edges, top
  <2> QED
    BY <1>1, <1>2, <1>m DEF TypedNode, NodeFields, IsGraph
<1> HIDE DEF nt, top, made
<1>5. ASSUME NEW n \in DOMAIN ns
      PROVE  /\ Same(nt[n], ns[n], {"edges"})
             /\ nt[n].edges = IF n = top THEN edges ELSE ns[n].edges
  <2>1. ns[n] = [f \in NodeFields |-> ns[n][f]]
    BY <1>m DEF TypedNode
  <2> HIDE DEF edges
  <2> QED
    BY <1>4, <2>1 DEF Same, NodeFields
<1>6. ASSUME NEW n \in DOMAIN ns
      PROVE  /\ TypedNode(ns, nt[n]) /\ nt[n].name = ns[n].name
             /\ nt[n].context = ns[n].context /\ nt[n].version = ns[n].version
  <2> HIDE DEF edges
  <2> QED
    BY <1>3, <1>5, <1>m DEF TypedNode, NodeFields, Same
<1>7. IsGraph(nt) /\ Len(nt) = Len(ns) /\ DOMAIN nt = DOMAIN ns
  <2>1. nt = [n \in DOMAIN ns |-> nt[n]]
    BY <1>4
  <2> QED
    BY <1>6, <2>1, GraphKept
<1> QED
  BY <1>2, <1>5, <1>7 DEF nt, top, made, EdgeAdded

\* What takes over the names of another.
Merged(dict, other) ==
  [k \in DOMAIN dict |-> IF other[k] # None THEN other[k] ELSE dict[k]]

LEMMA MergedFacts ==
  ASSUME NEW ns, IsGraph(ns), NEW dict, IsNames(ns, dict), NEW other, IsNames(ns, other)
  PROVE  /\ IsNames(ns, Merged(dict, other))
         /\ Unique(ns) => Held(Merged(dict, other)) = Held(dict) \cup Held(other)
<1> DEFINE merged == Merged(dict, other)
<1>1. /\ merged = [k \in Name \cup {Root} |-> IF other[k] # None THEN other[k] ELSE dict[k]]
      /\ DOMAIN merged = Name \cup {Root}
  BY DEF Merged, IsNames
<1>2. IsNames(ns, merged)
  BY <1>1 DEF IsNames
<1>3. ASSUME Unique(ns) PROVE Held(merged) = Held(dict) \cup Held(other)
  <2>1. \A n, m \in DOMAIN ns : ns[n].name = ns[m].name => n = m
    BY <1>3 DEF Unique
  <2>2. \A n \in DOMAIN ns : ns[n].name \in Name \cup {Root} /\ n # None
    BY NoneIsNoNode DEF IsGraph, IsNode, TypedNode, Key
  <2> HIDE DEF merged
  <2>3. /\ Held(merged) \subseteq DOMAIN ns /\ Held(dict) \subseteq DOMAIN ns
        /\ Held(other) \subseteq DOMAIN ns
    BY <1>2, HeldNames
  <2>4. \A n \in DOMAIN ns : (n \in Held(merged)) <=> merged[ns[n].name] = n
    BY <1>2, HeldNames
  <2>5. \A n \in DOMAIN ns : (n \in Held(dict)) <=> dict[ns[n].name] = n
    BY HeldNames
  <2>6. \A n \in DOMAIN ns : (n \in Held(other)) <=> other[ns[n].name] = n
    BY HeldNames
  <2>7. ASSUME NEW n \in DOMAIN ns
        PROVE  (n \in Held(merged)) <=> (n \in Held(dict) \/ n \in Held(other))
    <3>1. /\ other[ns[n].name] \in DOMAIN ns \cup {None}
          /\ other[ns[n].name] # None => ns[other[ns[n].name]].name = ns[n].name
      BY <2>2 DEF IsNames
    <3>2. other[ns[n].name] \in {None, n}
      BY <2>1, <3>1
    <3>3. merged[ns[n].name] = IF other[ns[n].name] # None THEN other[ns[n].name] ELSE dict[ns[n].name]
      BY <1>1, <2>2
    <3> QED
      BY <2>2, <2>4, <2>5, <2>6, <3>2, <3>3
  <2> QED
    BY <2>3, <2>7
<1> QED
  BY <1>2, <1>3

\* transitive_closure.
TookOver(nt, ns, top, m) ==
  /\ IsGraph(nt) /\ Len(nt) = Len(ns) /\ DOMAIN nt = DOMAIN ns
  /\ \A n \in DOMAIN ns :
       /\ Same(nt[n], ns[n], {"transitive"})
       /\ nt[n].transitive = IF n = top THEN Merged(ns[top].transitive, ns[m].transitive)
                             ELSE ns[n].transitive

LEMMA TakeOverFacts ==
  ASSUME NEW ns, IsGraph(ns), NEW top \in DOMAIN ns, NEW m \in DOMAIN ns
  PROVE  TookOver(TakeOver(ns, top, m), ns, top, m)
<1> DEFINE nt == TakeOver(ns, top, m)
           merged == Merged(ns[top].transitive, ns[m].transitive)
<1>m. \A n \in DOMAIN ns : TypedNode(ns, ns[n])
  BY DEF IsGraph, IsNode
<1>1. nt = [ns EXCEPT ![top].transitive = merged]
  BY <1>m DEF TakeOver, Merged
<1>3. IsNames(ns, merged)
  BY <1>m, MergedFacts DEF TypedNode
<1> HIDE DEF nt, merged
<1>4. nt = [n \in DOMAIN ns |-> IF n = top THEN [ns[n] EXCEPT !.transitive = merged] ELSE ns[n]]
  BY <1>1, <1>m DEF TypedNode, NodeFields, IsGraph
<1>5. ASSUME NEW n \in DOMAIN ns
      PROVE  /\ Same(nt[n], ns[n], {"transitive"})
             /\ nt[n].transitive = IF n = top THEN merged ELSE ns[n].transitive
  <2>1. ns[n] = [f \in NodeFields |-> ns[n][f]]
    BY <1>m DEF TypedNode
  <2> QED
    BY <1>4, <2>1 DEF Same, NodeFields
<1>6. ASSUME NEW n \in DOMAIN ns
      PROVE  /\ TypedNode(ns, nt[n]) /\ nt[n].name = ns[n].name
             /\ nt[n].context = ns[n].context /\ nt[n].version = ns[n].version
  BY <1>3, <1>5, <1>m DEF TypedNode, NodeFields, Same
<1>7. IsGraph(nt) /\ Len(nt) = Len(ns) /\ DOMAIN nt = DOMAIN ns
  <2>1. nt = [n \in DOMAIN ns |-> nt[n]]
    BY <1>4
  <2> QED
    BY <1>6, <2>1, GraphKept
<1> QED
  BY <1>5, <1>7 DEF nt, merged, TookOver

AncestorsAdded(nt, ns, far, added) ==
  /\ IsGraph(nt) /\ Len(nt) = Len(ns) /\ DOMAIN nt = DOMAIN ns
  /\ \A n \in DOMAIN ns :
       /\ Same(nt[n], ns[n], {"ancestors"})
       /\ nt[n].ancestors = IF n \in far THEN ns[n].ancestors \cup added ELSE ns[n].ancestors

LEMMA AddAncestorsFacts ==
  ASSUME IsGraph(nodes), Top.node \in Node, Previous \in Node
  PROVE  AncestorsAdded(AddAncestors, nodes, Has(nodes, Previous),
                        Self.ancestors \cup {KeyOf(Top.node)})
<1> DEFINE nt == AddAncestors
           added == Self.ancestors \cup {KeyOf(Top.node)}
           far == Has(nodes, Previous)
<1>m. \A n \in Node : TypedNode(nodes, nodes[n])
  BY DEF IsGraph, IsNode, Node
<1>1. added \subseteq Key
  BY <1>m DEF TypedNode, Self, KeyOf
<1>4. nt = [n \in Node |-> [nodes[n] EXCEPT !.ancestors = IF n \in far THEN @ \cup added ELSE @]]
  <2>1. \A x : x \cup added = x \cup Self.ancestors \cup {KeyOf(Top.node)}
    OBVIOUS
  <2> QED
    BY <2>1 DEF AddAncestors, Has
<1> HIDE DEF nt, added, far
<1>5. ASSUME NEW n \in Node
      PROVE  /\ Same(nt[n], nodes[n], {"ancestors"})
             /\ nt[n].ancestors = IF n \in far THEN nodes[n].ancestors \cup added ELSE nodes[n].ancestors
  <2>1. nodes[n] = [f \in NodeFields |-> nodes[n][f]]
    BY <1>m DEF TypedNode
  <2> QED
    BY <1>4, <2>1 DEF Same, NodeFields
<1>6. ASSUME NEW n \in Node
      PROVE  /\ TypedNode(nodes, nt[n]) /\ nt[n].name = nodes[n].name
             /\ nt[n].context = nodes[n].context /\ nt[n].version = nodes[n].version
  <2>1. nt[n].ancestors \subseteq Key
    BY <1>1, <1>5, <1>m DEF TypedNode
  <2>2. Same(nt[n], nodes[n], {"ancestors"}) /\ TypedNode(nodes, nodes[n])
    BY <1>5, <1>m
  <2> QED
    BY <2>1, <2>2 DEF TypedNode, NodeFields, Same
<1>7. IsGraph(nt) /\ Len(nt) = Len(nodes) /\ DOMAIN nt = Node
  <2>1. nt = [n \in DOMAIN nodes |-> nt[n]]
    BY <1>4 DEF Node
  <2> QED
    BY <1>6, <2>1, GraphKept DEF Node
<1> QED
  BY <1>5, <1>7 DEF nt, added, far, AncestorsAdded, Node

-----------------------------------------------------------------------------
(* Types.                                                                  *)

FrameFields == {"node", "phase", "todo", "reqs", "options", "then"}

IsFrame(ns, f) ==
  /\ f = [x \in FrameFields |-> f[x]]
  /\ f.node \in DOMAIN ns /\ f.phase \in {"configure", "expand"} /\ IsRequires(f.todo)
  /\ DOMAIN f.reqs \subseteq Name /\ \A k \in DOMAIN f.reqs : f.reqs[k] \in Requirement
  /\ f.options \in [Name -> Value \cup {None}] /\ f.then \in DOMAIN ns \cup {None}

Outcomes == {"expanding", "loop", "conflict", "options", "range", "requirements", "missing"}

Typed ==
  /\ world \in DOMAIN Worlds /\ outcome \in Outcomes /\ extended \in 0..World.extends
  /\ IsGraph(nodes) /\ Len(nodes) \in 1..MaxNodes
  /\ \A n \in Node : nodes[n].recipe \in World.recipes[nodes[n].name]
  /\ \A k \in Name : \A v : <<k, v>> \in DOMAIN recipes => recipes[<<k, v>>] \in World.recipes[k]
  /\ IsList(stack) /\ \A i \in DOMAIN stack : IsFrame(nodes, stack[i])

\* What a world holds.
LEMMA WorldFacts ==
  ASSUME world \in DOMAIN Worlds
  PROVE  /\ World \in Range(Worlds) /\ Root \notin Name /\ None \notin Version
         /\ World.local \subseteq Version /\ World.remote \subseteq Version /\ World.extends \in Nat
<1>1. World \in Range(Worlds)
  BY DEF World, Range
<1> QED
  BY <1>1, WorldAssumption DEF None

\* What the recipes of a world require and give options to.
LEMMA RecipeFacts ==
  ASSUME world \in DOMAIN Worlds, NEW k \in Name \cup {Root}, NEW r \in World.recipes[k]
  PROVE  /\ r.method \in BOOLEAN /\ r.options \in [Name -> Value \cup {None}]
         /\ r.config_options \in Settings /\ r.configure \in Settings
         /\ IsRequires(r.requires)
         /\ \A i \in DOMAIN r.requires :
              /\ r.requires[i].version # None \/ r.requires[i].range # {}
              /\ \A j \in DOMAIN r.requires : r.requires[i].name = r.requires[j].name => i = j
<1>1. /\ r.method \in BOOLEAN /\ r.options \in [Name -> Value \cup {None}]
      /\ r.config_options \in Settings /\ r.configure \in Settings
      /\ r.requires \in Seq(Requirement)
      /\ \A i \in DOMAIN r.requires :
           /\ r.requires[i].version # None \/ r.requires[i].range # {}
           /\ \A j \in DOMAIN r.requires : r.requires[i].name = r.requires[j].name => i = j
  BY WorldFacts, RecipesAssumption
<1> DEFINE s == r.requires
<1>2. Len(s) \in Nat /\ DOMAIN s = 1..Len(s) /\ s = [i \in 1..Len(s) |-> s[i]]
  BY <1>1, LenProperties
<1>3. \A i \in DOMAIN s : s[i] \in Requirement
  BY <1>1, <1>2, ElementOfSeq
<1> HIDE DEF s
<1>4. IsRequires(s)
  BY <1>2, <1>3, ListOf DEF IsRequires
<1> QED
  BY <1>1, <1>4 DEF s

OnlyKey(key, n) == [k \in Key |-> IF k = key THEN n ELSE None]
OnlyName(name, n) == [k \in Name \cup {Root} |-> IF k = name THEN n ELSE None]

IsMade(made, n, name, version, context, recipe) ==
  /\ made = [f \in NodeFields |-> made[f]]
  /\ made.name = name /\ made.version = version /\ made.context = context
  /\ made.recipe = recipe /\ made.requires = recipe.requires
  /\ ~made.configured /\ ~made.modified /\ ~made.frozen
  /\ made.modified \in BOOLEAN /\ made.frozen \in BOOLEAN
  /\ made.option = Default /\ made.deps = recipe.options /\ made.depsModified = {}
  /\ made.edges = {} /\ made.inverse = {} /\ made.ancestors = {}
  /\ made.public_deps = OnlyKey(<<name, context>>, n)
  /\ made.public_closure = OnlyKey(<<name, context>>, n)
  /\ made.transitive = OnlyName(name, n)

\* What a new node holds.
LEMMA NewNodeFacts ==
  ASSUME NEW n, NEW name, NEW version, NEW context, NEW recipe
  PROVE  IsMade(NewNode(n, name, version, context, recipe), n, name, version, context, recipe)
<1> DEFINE made == NewNode(n, name, version, context, recipe)
<1> DEFINE dict == OnlyKey(<<name, context>>, n)
           names == OnlyName(name, n)
<1> HIDE DEF dict, names
<1>1. made = [name |-> name, version |-> version, context |-> context,
              recipe |-> recipe, requires |-> recipe.requires, configured |-> FALSE,
              option |-> Default, modified |-> FALSE, frozen |-> FALSE,
              deps |-> recipe.options, depsModified |-> {}, edges |-> {}, inverse |-> {},
              ancestors |-> {}, public_deps |-> dict, public_closure |-> dict, transitive |-> names]
  BY DEF NewNode, dict, names, OnlyKey, OnlyName
<1> HIDE DEF made
<1>2. made = [f \in NodeFields |-> made[f]]
  BY <1>1 DEF NodeFields
<1>3. /\ made.name = name /\ made.version = version /\ made.context = context
      /\ made.recipe = recipe /\ made.requires = recipe.requires
  BY <1>1
<1>4. /\ ~made.configured /\ ~made.modified /\ ~made.frozen
      /\ made.modified \in BOOLEAN /\ made.frozen \in BOOLEAN
  BY <1>1
<1>5. /\ made.option = Default /\ made.deps = recipe.options /\ made.depsModified = {}
      /\ made.edges = {} /\ made.inverse = {} /\ made.ancestors = {}
  BY <1>1
<1>6. made.public_deps = dict /\ made.public_closure = dict /\ made.transitive = names
  BY <1>1
<1> QED
  BY <1>2, <1>3, <1>4, <1>5, <1>6, Zenon DEF dict, names, made, IsMade

\* It is of its type.
LEMMA NewNodeTyped ==
  ASSUME NEW ns, NEW n \in DOMAIN ns, NEW name \in Name \cup {Root}, NEW version, NEW context \in Context,
         NEW recipe, IsRequires(recipe.requires), recipe.options \in [Name -> Value \cup {None}],
         ns[n].name = name, ns[n].context = context,
         NEW made, IsMade(made, n, name, version, context, recipe)
  PROVE  TypedNode(ns, made)
<1>1. <<name, context>> \in Key
  BY DEF Key
<1>2. IsDict(ns, OnlyKey(<<name, context>>, n))
  BY <1>1 DEF IsDict, KeyIn, OnlyKey
<1>3. IsNames(ns, OnlyName(name, n))
  BY DEF IsNames, OnlyName
<1>4. made = [f \in NodeFields |-> made[f]]
  BY DEF IsMade
<1>5. made.option \in Value /\ made.modified \in BOOLEAN /\ made.frozen \in BOOLEAN
  BY DEF Default, Value, IsMade
<1>7. /\ <<made.name, made.context>> \in Key /\ IsRequires(made.requires)
      /\ made.deps \in [Name -> Value \cup {None}] /\ made.depsModified \subseteq Name
  BY <1>1 DEF IsMade
<1>8. /\ made.edges \subseteq [dst : DOMAIN ns, name : Name, kind : Kind]
      /\ made.inverse \subseteq DOMAIN ns /\ made.ancestors \subseteq Key
  BY DEF IsMade
<1>9. /\ IsDict(ns, made.public_deps) /\ IsDict(ns, made.public_closure)
      /\ IsNames(ns, made.transitive)
  BY <1>2, <1>3 DEF IsMade
<1> QED
  BY <1>4, <1>5, <1>7, <1>8, <1>9 DEF TypedNode

LEMMA NoRequires == IsRequires(<<>>)
<1>1. IsList(<<>>)
  BY EmptySeq DEF IsList
<1> QED
  BY <1>1 DEF IsRequires

\* The first graph.
LEMMA TypedInit == Init => Typed
<1> SUFFICES ASSUME Init PROVE Typed
  OBVIOUS
<1> USE DEF Init
<1>1. world \in DOMAIN Worlds
  OBVIOUS
<1>2. PICK r \in World.recipes[Root] : nodes = <<NewNode(1, Root, None, "host", r)>>
  OBVIOUS
<1> DEFINE made == NewNode(1, Root, None, "host", r)
<1>3. IsRequires(r.requires) /\ r.options \in [Name -> Value \cup {None}]
  BY <1>1, <1>2, RecipeFacts
<1>4. nodes = <<made>> /\ Len(nodes) = 1 /\ DOMAIN nodes = 1..1 /\ nodes[1] = made
      /\ nodes = [i \in 1..1 |-> nodes[i]]
  BY <1>2
<1>i. IsMade(made, 1, Root, None, "host", r)
  BY NewNodeFacts
<1>n. made.name = Root /\ made.context = "host" /\ made.version = None /\ made.recipe = r
  BY <1>i DEF IsMade
<1> HIDE DEF made
<1>5. IsList(nodes)
  BY <1>4, ListOf
<1>6. TypedNode(nodes, made)
  <2>1. /\ 1 \in DOMAIN nodes /\ nodes[1].name = Root /\ nodes[1].context = "host"
        /\ "host" \in Context /\ Root \in Name \cup {Root}
    BY <1>4, <1>n DEF Context
  <2> QED
    BY <1>3, <1>i, <2>1, NewNodeTyped
<1>7. IsGraph(nodes)
  BY <1>4, <1>5, <1>6, <1>n DEF IsGraph, IsNode
<1> DEFINE frame == Frame(1, NoReqs, NoOptions, None)
<1>8. /\ stack = <<frame>> /\ Len(stack) = 1 /\ DOMAIN stack = 1..1 /\ stack[1] = frame
      /\ stack = [i \in 1..1 |-> stack[i]]
  OBVIOUS
<1>9. IsFrame(nodes, frame)
  <2>1. IsRequires(<<>>)
    BY NoRequires
  <2>2. NoOptions \in [Name -> Value \cup {None}] /\ DOMAIN NoReqs = {}
    BY DEF NoOptions, NoReqs
  <2>3. frame.reqs = NoReqs /\ frame.options = NoOptions /\ frame.todo = <<>>
        /\ frame = [x \in FrameFields |-> frame[x]] /\ frame.node = 1 /\ frame.then = None
        /\ frame.phase = "configure"
    BY DEF Frame, FrameFields
  <2> QED
    BY <1>4, <2>1, <2>2, <2>3 DEF IsFrame
<1> HIDE DEF frame
<1>10. IsList(stack) /\ \A i \in DOMAIN stack : IsFrame(nodes, stack[i])
  BY <1>8, <1>9, ListOf
<1>11. \A n \in Node : nodes[n].recipe \in World.recipes[nodes[n].name]
  BY <1>4, <1>2, <1>n DEF Node
<1>12. World.extends \in Nat /\ MaxNodes \in Nat \ {0}
  BY <1>1, WorldFacts, WorldAssumption
<1>13. /\ world \in DOMAIN Worlds /\ outcome \in Outcomes /\ extended \in 0..World.extends
       /\ Len(nodes) \in 1..MaxNodes
  BY <1>4, <1>12 DEF Outcomes
<1>14. \A k \in Name : \A v : <<k, v>> \notin DOMAIN recipes
  OBVIOUS
<1> QED
  BY <1>7, <1>10, <1>11, <1>13, <1>14 DEF Typed

\* The frame on top and its node.
LEMMA TopFacts ==
  ASSUME Typed, stack # <<>>
  PROVE  /\ Len(stack) \in Nat \ {0} /\ DOMAIN stack = 1..Len(stack) /\ Top = stack[Len(stack)]
         /\ IsFrame(nodes, Top) /\ Top.node \in Node /\ Self = nodes[Top.node]
         /\ TypedNode(nodes, Self)
<1>1. /\ Len(stack) \in Nat \ {0} /\ DOMAIN stack = 1..Len(stack) /\ Top = stack[Len(stack)]
  BY ListFront, ListFacts DEF Typed, Top
<1>2. IsFrame(nodes, Top)
  BY <1>1 DEF Typed
<1>3. Top.node \in Node /\ Self = nodes[Top.node]
  BY <1>2 DEF IsFrame, Node, Self
<1>4. TypedNode(nodes, nodes[Top.node])
  BY <1>3 DEF Typed, IsGraph, IsNode, Node
<1> QED
  BY <1>1, <1>2, <1>3, <1>4

\* What is left of a list without its first.
LEMMA ListTail ==
  ASSUME NEW s, IsRequires(s), s # <<>>
  PROVE  /\ Head(s) \in Requirement /\ IsRequires(Tail(s))
         /\ \A r : (\E i \in DOMAIN s : s[i] = r) <=>
                     (r = Head(s) \/ \E i \in DOMAIN Tail(s) : Tail(s)[i] = r)
<1> DEFINE all == {s[i] : i \in DOMAIN s}
           t == Tail(s)
<1>1. s \in Seq(all) /\ Len(s) \in Nat /\ DOMAIN s = 1..Len(s) /\ \A i \in DOMAIN s : s[i] \in Requirement
  BY ListFacts DEF IsRequires, IsList
<1>2. Head(s) = s[1] /\ Len(s) # 0
  BY <1>1, EmptySeq
<1>3. t \in Seq(all) /\ Len(t) = Len(s) - 1 /\ \A i \in 1..Len(t) : t[i] = s[i + 1]
  BY <1>1, HeadTailProperties
<1>4. DOMAIN t = 1..Len(t) /\ t = [i \in 1..Len(t) |-> t[i]]
  BY <1>3, LenProperties
<1> HIDE DEF t, all
<1>5. IsList(t)
  BY <1>1, <1>2, <1>3, <1>4, ListOf
<1>6. IsRequires(t)
  <2> SUFFICES ASSUME NEW i \in DOMAIN t PROVE t[i] \in Requirement
    BY <1>5 DEF IsRequires
  <2>1. i + 1 \in DOMAIN s
    BY <1>1, <1>2, <1>3, <1>4
  <2> QED
    BY <1>1, <1>3, <1>4, <2>1
<1>7. ASSUME NEW r PROVE (\E i \in DOMAIN s : s[i] = r) <=> (r = Head(s) \/ \E i \in DOMAIN t : t[i] = r)
  <2>1. ASSUME NEW i \in DOMAIN s, s[i] = r, i # 1 PROVE \E j \in DOMAIN t : t[j] = r
    <3>1. i - 1 \in DOMAIN t /\ t[i - 1] = s[i]
      <4>1. i - 1 \in 1..Len(t) /\ (i - 1) + 1 = i
        BY <1>1, <1>2, <1>3, <2>1
      <4> QED
        BY <1>3, <1>4, <4>1
    <3> QED
      BY <2>1, <3>1
  <2>2. ASSUME NEW j \in DOMAIN t PROVE \E i \in DOMAIN s : s[i] = t[j]
    <3>1. j + 1 \in DOMAIN s /\ t[j] = s[j + 1]
      BY <1>1, <1>2, <1>3, <1>4
    <3> QED
      BY <3>1
  <2>3. 1 \in DOMAIN s
    BY <1>1, <1>2
  <2> QED
    BY <1>2, <2>1, <2>2, <2>3
<1> QED
  BY <1>1, <1>2, <1>6, <1>7 DEF t

\* Frames stay of their type in a larger graph.
LEMMA FramesKept ==
  ASSUME NEW ns, NEW nt, DOMAIN ns \subseteq DOMAIN nt, NEW f, IsFrame(ns, f)
  PROVE  IsFrame(nt, f)
BY DEF IsFrame

\* The frame on top, when its next requirement is taken.
LEMMA AdvancedFacts ==
  ASSUME Typed, stack # <<>>, Top.todo # <<>>
  PROVE  LET top == [Top EXCEPT !.todo = Tail(@)] IN
         /\ IsList(Advanced) /\ Len(Advanced) = Len(stack) /\ DOMAIN Advanced = DOMAIN stack
         /\ Advanced # <<>> /\ Last(Advanced) = top /\ Advanced[Len(stack)] = top
         /\ \A i \in DOMAIN stack : i # Len(stack) => Advanced[i] = stack[i]
         /\ IsFrame(nodes, top) /\ top.node = Top.node /\ top.phase = Top.phase
         /\ top.reqs = Top.reqs /\ top.options = Top.options /\ top.then = Top.then
         /\ top.todo = Tail(Top.todo) /\ Require \in Requirement
         /\ \A i \in DOMAIN Advanced : IsFrame(nodes, Advanced[i])
<1> DEFINE top == [Top EXCEPT !.todo = Tail(@)]
<1>1. IsFrame(nodes, Top)
  BY TopFacts
<1>2. IsRequires(Tail(Top.todo)) /\ Head(Top.todo) \in Requirement
  BY <1>1, ListTail DEF IsFrame
<1>3. /\ top = [x \in FrameFields |-> top[x]] /\ top.node = Top.node /\ top.phase = Top.phase
      /\ top.reqs = Top.reqs /\ top.options = Top.options /\ top.then = Top.then
      /\ top.todo = Tail(Top.todo)
  <2>1. Top = [x \in FrameFields |-> Top[x]]
    BY <1>1 DEF IsFrame
  <2> QED
    BY <2>1 DEF FrameFields
<1>a. Advanced = Append(Front(stack), top)
  BY DEF Advanced, WithTop
<1> HIDE DEF top
<1>4. IsFrame(nodes, top)
  BY <1>1, <1>2, <1>3 DEF IsFrame
<1>5. /\ IsList(Advanced) /\ Len(Advanced) = Len(stack) /\ DOMAIN Advanced = DOMAIN stack
      /\ Advanced # <<>> /\ Last(Advanced) = top /\ Advanced[Len(stack)] = top
      /\ \A i \in DOMAIN stack : i # Len(stack) => Advanced[i] = stack[i]
  BY <1>a, TopReplaced DEF Typed
<1>6. \A i \in DOMAIN Advanced : IsFrame(nodes, Advanced[i])
  BY <1>4, <1>5 DEF Typed
<1> QED
  BY <1>2, <1>3, <1>4, <1>5, <1>6 DEF top, Require

\* Two changes of other fields.
LEMMA SameTwice ==
  ASSUME NEW x, NEW y, NEW z, NEW a, NEW b, Same(x, y, a), Same(y, z, b)
  PROVE  Same(x, z, a \cup b)
BY DEF Same

\* The graph with a new node.
AddKey(dict, key, n) == [k \in Key |-> IF k = key THEN n ELSE dict[k]]
IsPublic == Require.kind = "normal"
New == Len(nodes) + 1
Joining == {Top.node} \cup IF IsPublic THEN Self.inverse ELSE {}

Grown(nt, r) ==
  /\ IsGraph(nt) /\ Len(nt) = New /\ DOMAIN nt = Node \cup {New} /\ New \notin Node
  /\ Joining \subseteq Node
  /\ \A y \in Node :
       /\ Same(nt[y], nodes[y], {"public_closure", "public_deps", "edges", "transitive"})
       /\ nt[y].edges = IF y = Top.node THEN nodes[y].edges \cup {EdgeTo(New)} ELSE nodes[y].edges
       /\ nt[y].public_closure = IF y \in Joining THEN AddKey(nodes[y].public_closure, RequireKey, New)
                                 ELSE nodes[y].public_closure
       /\ nt[y].public_deps = IF y \in Joining THEN AddKey(nodes[y].public_deps, RequireKey, New)
                              ELSE nodes[y].public_deps
       /\ nt[y].transitive =
            IF y = Top.node /\ IsPublic THEN [nodes[y].transitive EXCEPT ![Require.name] = New]
            ELSE nodes[y].transitive
  /\ nt[New].name = Require.name /\ nt[New].version = Require.version
  /\ nt[New].context = RequireContext /\ nt[New].recipe = r
  /\ nt[New].requires = r.requires /\ nt[New].option = Default /\ ~nt[New].modified
  /\ nt[New].deps = r.options /\ nt[New].edges = {} /\ nt[New].inverse = Joining
  /\ nt[New].ancestors = Self.ancestors \cup {KeyOf(Top.node)}
  /\ nt[New].public_closure = OnlyKey(RequireKey, New)
  /\ nt[New].public_deps = IF IsPublic THEN nt[Top.node].public_deps ELSE nt[Top.node].public_closure
  /\ nt[New].transitive = OnlyName(Require.name, New)

\* _expand_require with a new node, ...
LEMMA ExpandNewFacts ==
  ASSUME Typed, stack # <<>>, Top.todo # <<>>, NEW r, ExpandNew(r), Require.version \in Version,
         IsRequires(r.requires), r.options \in [Name -> Value \cup {None}]
  PROVE  Grown(nodes', r)
<1> DEFINE n == Top.node
           m == New
           public == IsPublic
           joining == Joining
           new == NewNode(m, Require.name, Require.version, RequireContext, r)
           made == [new EXCEPT !.ancestors = Self.ancestors \cup {KeyOf(n)}]
           ns1 == Append(nodes, made)
           ns2 == Connect(ns1, joining, {m})
           ns3 == AddEdge(ns2, m)
           edge == EdgeTo(m)
<1>1. /\ n \in Node /\ TypedNode(nodes, Self) /\ Self = nodes[n] /\ IsFrame(nodes, Top)
  BY TopFacts
<1>2. Require \in Requirement /\ Require.name \in Name
  BY AdvancedFacts DEF Requirement
<1>3. IsGraph(nodes) /\ IsList(nodes) /\ Len(nodes) \in Nat /\ Node = 1..Len(nodes)
  BY ListFacts DEF Typed, IsGraph, Node
<1>4. joining \subseteq Node
  BY <1>1 DEF TypedNode, Node, Joining
<1>5. /\ IsList(ns1) /\ Len(ns1) = m /\ DOMAIN ns1 = Node \cup {m} /\ m \notin Node
      /\ ns1[m] = made /\ \A y \in Node : ns1[y] = nodes[y]
  BY <1>3, ListAppend DEF Node, New
<1>6. nodes' = [ns3 EXCEPT ![m].public_deps = IF public THEN ns3[n].public_deps ELSE ns3[n].public_closure,
                           ![n].transitive[Require.name] = IF public THEN m ELSE @]
  BY DEF ExpandNew, New, IsPublic, Joining
<1>7. IsMade(new, m, Require.name, Require.version, RequireContext, r)
  BY NewNodeFacts
<1>8. /\ Same(made, new, {"ancestors"}) /\ made.ancestors = Self.ancestors \cup {KeyOf(n)}
  BY <1>7 DEF IsMade, Same, NodeFields
<1>9. RequireContext \in Context /\ KeyOf(n) \in Key /\ Self.ancestors \subseteq Key
  BY <1>1 DEF RequireContext, Context, KeyOf, TypedNode, Key
<1> HIDE DEF new, made
<1>10. ns1[m].name = Require.name /\ ns1[m].context = RequireContext
  BY <1>5, <1>7, <1>8 DEF IsMade, Same, NodeFields
<1>11. TypedNode(ns1, new)
  <2>1. m \in DOMAIN ns1
    BY <1>5
  <2> HIDE DEF m, ns1
  <2> QED
    BY <1>2, <1>7, <1>9, <1>10, <2>1, NewNodeTyped
<1>12. TypedNode(ns1, made)
  BY <1>8, <1>9, <1>11 DEF TypedNode, Same, NodeFields
<1>13. IsGraph(ns1)
  <2>1. \A dict : /\ IsDict(nodes, dict) => IsDict(ns1, dict)
                  /\ IsNames(nodes, dict) => IsNames(ns1, dict)
    BY <1>3, <1>5, DictKept DEF Node
  <2>2. ASSUME NEW y \in Node PROVE IsNode(ns1, y)
    <3>1. TypedNode(nodes, nodes[y]) /\ nodes[y].version \in IF y = 1 THEN {None} ELSE Version
      BY <1>3 DEF IsGraph, IsNode, Node
    <3>2. TypedNode(ns1, nodes[y])
      <4> HIDE DEF ns1
      <4> QED
        BY <1>5, <2>1, <3>1 DEF TypedNode, Node
    <3> QED
      BY <1>5, <3>1, <3>2 DEF IsNode
  <2>3. IsNode(ns1, m)
    <3>1. made.version \in Version
      BY <1>7, <1>8 DEF IsMade, Same, NodeFields
    <3>2. m # 1
      BY <1>1, <1>3 DEF New
    <3> QED
      BY <1>5, <1>12, <3>1, <3>2 DEF IsNode
  <2> QED
    BY <1>5, <2>2, <2>3 DEF IsGraph
<1> HIDE DEF ns1, m
<1>14. /\ IsGraph(ns2) /\ Len(ns2) = m /\ DOMAIN ns2 = Node \cup {m}
       /\ \A y \in Node \cup {m} :
            /\ Same(ns2[y], ns1[y], {"public_closure", "public_deps", "inverse"})
            /\ ns2[y].inverse = ns1[y].inverse \cup IF y \in {m} THEN joining ELSE {}
            /\ ns2[y].public_closure =
                 IF y \in joining THEN Put(ns1, {m}, ns1[y].public_closure) ELSE ns1[y].public_closure
            /\ ns2[y].public_deps =
                 IF y \in joining THEN Put(ns1, {m}, ns1[y].public_deps) ELSE ns1[y].public_deps
  <2> DEFINE to == {m}
  <2>1. joining \subseteq DOMAIN ns1 /\ to \subseteq DOMAIN ns1
    BY <1>4, <1>5
  <2> HIDE DEF joining, to
  <2>2. Connected(ns2, ns1, joining, to)
    BY <1>13, <2>1, ConnectFacts DEF to
  <2> QED
    BY <1>5, <2>2 DEF to, Connected
<1>15. ASSUME NEW dict PROVE Put(ns1, {m}, dict) = AddKey(dict, RequireKey, m)
  <2>1. KeyIn(ns1, m) = RequireKey
    BY <1>10 DEF KeyIn, RequireKey
  <2> QED
    BY <2>1 DEF Put, AddKey
<1> HIDE DEF ns2, joining
<1>16. /\ IsGraph(ns3) /\ Len(ns3) = m /\ DOMAIN ns3 = Node \cup {m}
       /\ \A y \in Node \cup {m} :
            /\ Same(ns3[y], ns2[y], {"edges"})
            /\ ns3[y].edges = IF y = n /\ ~\E e \in ns2[y].edges : e.dst = m
                              THEN ns2[y].edges \cup {edge} ELSE ns2[y].edges
  <2>1. /\ m \in DOMAIN ns2 /\ Top.node \in DOMAIN ns2 /\ DOMAIN ns2 = Node \cup {m}
        /\ IsGraph(ns2) /\ Len(ns2) = m
    BY <1>1, <1>14
  <2>2. EdgeAdded(ns3, ns2, n, edge)
    BY <1>2, <2>1, AddEdgeFacts
  <2>3. edge.dst = m
    BY DEF EdgeTo
  <2> HIDE DEF ns3, edge, n
  <2> QED
    BY <2>1, <2>2, <2>3 DEF EdgeAdded
<1> HIDE DEF ns3, edge, n
<1> DEFINE sees == IF public THEN ns3[n].public_deps ELSE ns3[n].public_closure
           passes == IF public THEN [ns3[n].transitive EXCEPT ![Require.name] = m] ELSE ns3[n].transitive
<1>17. n # m /\ n \in Node /\ n \in DOMAIN ns3 /\ m \in DOMAIN ns3
  BY <1>1, <1>5, <1>16
<1>18. \A y \in DOMAIN ns3 : TypedNode(ns3, ns3[y])
  BY <1>16 DEF IsGraph, IsNode
<1>19. nodes' = [y \in DOMAIN ns3 |->
                   IF y = m THEN [ns3[m] EXCEPT !.public_deps = sees]
                   ELSE IF y = n THEN [ns3[n] EXCEPT !.transitive = passes] ELSE ns3[y]]
  <2>1. /\ ns3[m] = [f \in NodeFields |-> ns3[m][f]] /\ ns3[n] = [f \in NodeFields |-> ns3[n][f]]
    BY <1>17, <1>18 DEF TypedNode
  <2>2. IsNames(ns3, ns3[n].transitive)
    BY <1>17, <1>18 DEF TypedNode
  <2>3. ns3 = [y \in DOMAIN ns3 |-> ns3[y]]
    BY <1>16, ListFacts DEF IsGraph
  <2>4. Require.name \in DOMAIN ns3[n].transitive
    BY <1>2, <2>2 DEF IsNames
  <2>5. nodes' = [[ns3 EXCEPT ![m].public_deps = sees] EXCEPT ![n].transitive = passes]
    BY <1>6, <1>17, <2>1, <2>2, <2>3, <2>4 DEF NodeFields, IsNames
  <2> HIDE DEF sees, passes
  <2> QED
    BY <1>17, <2>1, <2>3, <2>5 DEF NodeFields
<1>20. ASSUME NEW y \in DOMAIN ns3
       PROVE  /\ Same(nodes'[y], ns3[y], {"public_deps", "transitive"})
              /\ nodes'[y].public_deps = IF y = m THEN sees ELSE ns3[y].public_deps
              /\ nodes'[y].transitive = IF y = n THEN passes ELSE ns3[y].transitive
  <2>1. ns3[y] = [f \in NodeFields |-> ns3[y][f]]
    BY <1>18 DEF TypedNode
  <2> HIDE DEF sees, passes
  <2> QED
    BY <1>17, <1>19, <2>1 DEF Same, NodeFields
<1>21. IsGraph(nodes') /\ Len(nodes') = Len(ns3) /\ DOMAIN nodes' = DOMAIN ns3
  <2>1. IsDict(ns3, sees)
    BY <1>17, <1>18 DEF TypedNode
  <2>2. IsNames(ns3, passes)
    <3>1. ns3[m].name = Require.name
      <4>1. Same(ns3[m], ns2[m], {"edges"}) /\ Same(ns2[m], ns1[m], {"public_closure", "public_deps", "inverse"})
        BY <1>14, <1>16
      <4> QED
        BY <1>10, <4>1 DEF Same, NodeFields
    <3>2. IsNames(ns3, ns3[n].transitive)
      BY <1>17, <1>18 DEF TypedNode
    <3>3. IsNames(ns3, [ns3[n].transitive EXCEPT ![Require.name] = m])
      BY <1>2, <1>17, <3>1, <3>2 DEF IsNames
    <3> QED
      BY <3>2, <3>3
  <2> HIDE DEF sees, passes
  <2>3. ASSUME NEW y \in DOMAIN ns3
        PROVE  /\ TypedNode(ns3, nodes'[y]) /\ nodes'[y].name = ns3[y].name
               /\ nodes'[y].context = ns3[y].context /\ nodes'[y].version = ns3[y].version
    <3>1. IsDict(ns3, nodes'[y].public_deps) /\ IsNames(ns3, nodes'[y].transitive)
      BY <1>18, <1>20, <2>1, <2>2 DEF TypedNode
    <3> QED
      BY <1>18, <1>20, <3>1 DEF TypedNode, Same, NodeFields
  <2>4. nodes' = [y \in DOMAIN ns3 |-> nodes'[y]]
    BY <1>19
  <2> QED
    BY <1>16, <2>3, <2>4, GraphKept
<1>22. ASSUME NEW y \in Node
       PROVE  /\ Same(nodes'[y], nodes[y], {"public_closure", "public_deps", "edges", "transitive"})
              /\ nodes'[y].edges = IF y = n THEN nodes[y].edges \cup {edge} ELSE nodes[y].edges
              /\ nodes'[y].public_closure =
                   IF y \in joining THEN AddKey(nodes[y].public_closure, RequireKey, m)
                   ELSE nodes[y].public_closure
              /\ nodes'[y].public_deps =
                   IF y \in joining THEN AddKey(nodes[y].public_deps, RequireKey, m)
                   ELSE nodes[y].public_deps
              /\ nodes'[y].transitive =
                   IF y = n /\ public THEN [nodes[y].transitive EXCEPT ![Require.name] = m]
                   ELSE nodes[y].transitive
  <2>1. y # m /\ y \in DOMAIN ns3 /\ ns1[y] = nodes[y]
    BY <1>5, <1>16
  <2>2. /\ Same(ns2[y], nodes[y], {"public_closure", "public_deps", "inverse"})
        /\ ns2[y].inverse = nodes[y].inverse
        /\ ns2[y].public_closure =
             IF y \in joining THEN AddKey(nodes[y].public_closure, RequireKey, m) ELSE nodes[y].public_closure
        /\ ns2[y].public_deps =
             IF y \in joining THEN AddKey(nodes[y].public_deps, RequireKey, m) ELSE nodes[y].public_deps
    <3>1. /\ Same(ns2[y], ns1[y], {"public_closure", "public_deps", "inverse"})
          /\ ns2[y].inverse = ns1[y].inverse \cup IF y \in {m} THEN joining ELSE {}
          /\ ns2[y].public_closure =
               IF y \in joining THEN Put(ns1, {m}, ns1[y].public_closure) ELSE ns1[y].public_closure
          /\ ns2[y].public_deps =
               IF y \in joining THEN Put(ns1, {m}, ns1[y].public_deps) ELSE ns1[y].public_deps
      BY <1>14
    <3>2. /\ Put(ns1, {m}, nodes[y].public_closure) = AddKey(nodes[y].public_closure, RequireKey, m)
          /\ Put(ns1, {m}, nodes[y].public_deps) = AddKey(nodes[y].public_deps, RequireKey, m)
      BY <1>15
    <3> QED
      BY <2>1, <3>1, <3>2
  <2>3. /\ Same(ns3[y], ns2[y], {"edges"})
        /\ ns3[y].edges = IF y = n /\ ~\E e \in ns2[y].edges : e.dst = m
                          THEN ns2[y].edges \cup {edge} ELSE ns2[y].edges
    BY <1>16
  <2>4. ~\E e \in nodes[y].edges : e.dst = m
    <3>1. nodes[y].edges \subseteq [dst : Node, name : Name, kind : Kind]
      BY <1>3 DEF IsGraph, IsNode, TypedNode, Node
    <3> QED
      BY <1>5, <3>1
  <2>5. ns2[y].edges = nodes[y].edges /\ ns2[y].transitive = nodes[y].transitive
    BY <2>2 DEF Same, NodeFields
  <2>6. /\ ns3[y].public_closure = ns2[y].public_closure /\ ns3[y].public_deps = ns2[y].public_deps
        /\ ns3[y].inverse = ns2[y].inverse /\ ns3[y].transitive = ns2[y].transitive
    BY <2>3 DEF Same, NodeFields
  <2>7. /\ Same(nodes'[y], ns3[y], {"public_deps", "transitive"})
        /\ nodes'[y].public_deps = ns3[y].public_deps
        /\ nodes'[y].transitive = IF y = n THEN passes ELSE ns3[y].transitive
    BY <1>20, <2>1
  <2>8. nodes'[y].public_closure = ns3[y].public_closure /\ nodes'[y].edges = ns3[y].edges
        /\ nodes'[y].inverse = ns3[y].inverse
    BY <2>7 DEF Same, NodeFields
  <2>9. Same(nodes'[y], nodes[y], {"public_closure", "public_deps", "edges", "transitive"})
    <3> HIDE DEF passes
    <3> QED
      BY <2>2, <2>3, <2>6, <2>7, <2>8 DEF Same, NodeFields
  <2> QED
    BY <2>2, <2>3, <2>4, <2>5, <2>6, <2>7, <2>8, <2>9
<1>23. /\ nodes'[m].name = Require.name /\ nodes'[m].version = Require.version
       /\ nodes'[m].context = RequireContext /\ nodes'[m].recipe = r
       /\ nodes'[m].requires = r.requires /\ nodes'[m].option = Default /\ ~nodes'[m].modified
       /\ nodes'[m].deps = r.options /\ nodes'[m].edges = {} /\ nodes'[m].inverse = joining
       /\ nodes'[m].ancestors = Self.ancestors \cup {KeyOf(Top.node)}
       /\ nodes'[m].public_closure = OnlyKey(RequireKey, m)
       /\ nodes'[m].public_deps = IF public THEN nodes'[n].public_deps ELSE nodes'[n].public_closure
       /\ nodes'[m].transitive = OnlyName(Require.name, m)
  <2>1. ns1[m] = made /\ m \notin joining /\ m \in DOMAIN ns3
    BY <1>4, <1>5, <1>16
  <2>2. /\ Same(ns2[m], made, {"public_closure", "public_deps", "inverse"})
        /\ ns2[m].inverse = made.inverse \cup joining
        /\ ns2[m].public_closure = made.public_closure
    BY <1>14, <2>1
  <2>3. Same(ns3[m], ns2[m], {"edges"}) /\ ns3[m].edges = ns2[m].edges
    BY <1>16, <1>17
  <2>4. /\ Same(nodes'[m], ns3[m], {"public_deps", "transitive"})
        /\ nodes'[m].public_deps = sees /\ nodes'[m].transitive = ns3[m].transitive
    BY <1>17, <1>20, <2>1
  <2>5. /\ made.name = Require.name /\ made.version = Require.version
        /\ made.context = RequireContext /\ made.recipe = r
        /\ made.requires = r.requires /\ made.option = Default /\ ~made.modified
        /\ made.deps = r.options /\ made.edges = {} /\ made.inverse = {}
        /\ made.ancestors = Self.ancestors \cup {KeyOf(Top.node)}
        /\ made.public_closure = OnlyKey(RequireKey, m)
        /\ made.transitive = OnlyName(Require.name, m)
    BY <1>7, <1>8 DEF IsMade, Same, NodeFields, RequireKey, n
  <2>6. /\ nodes'[n].public_deps = ns3[n].public_deps
        /\ nodes'[n].public_closure = ns3[n].public_closure
    BY <1>17, <1>20 DEF Same, NodeFields
  <2> HIDE DEF sees
  <2>7. /\ nodes'[m].name = made.name /\ nodes'[m].version = made.version
        /\ nodes'[m].context = made.context /\ nodes'[m].recipe = made.recipe
        /\ nodes'[m].requires = made.requires /\ nodes'[m].option = made.option
        /\ nodes'[m].modified = made.modified
        /\ nodes'[m].deps = made.deps /\ nodes'[m].edges = made.edges
        /\ nodes'[m].inverse = ns2[m].inverse /\ nodes'[m].ancestors = made.ancestors
        /\ nodes'[m].public_closure = made.public_closure
        /\ nodes'[m].transitive = made.transitive
    <3>1. \A f \in NodeFields \ {"public_closure", "public_deps", "inverse"} : ns2[m][f] = made[f]
      BY <2>2 DEF Same
    <3>2. \A f \in NodeFields \ {"edges"} : ns3[m][f] = ns2[m][f]
      BY <2>3 DEF Same
    <3>3. \A f \in NodeFields \ {"public_deps", "transitive"} : nodes'[m][f] = ns3[m][f]
      BY <2>4 DEF Same
    <3>4. \A f \in NodeFields \ {"public_closure", "public_deps", "inverse", "edges", "transitive"} :
            nodes'[m][f] = made[f]
      BY <3>1, <3>2, <3>3
    <3>5. /\ nodes'[m].name = made.name /\ nodes'[m].version = made.version
          /\ nodes'[m].context = made.context /\ nodes'[m].recipe = made.recipe
          /\ nodes'[m].requires = made.requires /\ nodes'[m].option = made.option
          /\ nodes'[m].deps = made.deps /\ nodes'[m].ancestors = made.ancestors
      BY <3>4 DEF NodeFields
    <3>6. nodes'[m].modified = made.modified
      BY <3>4 DEF NodeFields
    <3>7. /\ nodes'[m].edges = made.edges /\ nodes'[m].inverse = ns2[m].inverse
          /\ nodes'[m].public_closure = made.public_closure
          /\ nodes'[m].transitive = made.transitive
      BY <2>2, <2>3, <2>4, <3>1, <3>2, <3>3 DEF NodeFields
    <3> QED
      BY <3>5, <3>6, <3>7
  <2>8. sees = IF public THEN nodes'[n].public_deps ELSE nodes'[n].public_closure
    BY <2>6 DEF sees
  <2> QED
    BY <2>2, <2>4, <2>5, <2>7, <2>8
<1> QED
  <2>1. /\ IsGraph(nodes') /\ Len(nodes') = m /\ DOMAIN nodes' = Node \cup {m} /\ m \notin Node
        /\ joining \subseteq Node
    BY <1>4, <1>5, <1>16, <1>21
  <2> HIDE DEF sees, passes
  <2> QED
    BY <1>22, <1>23, <2>1 DEF Grown, m, n, edge, joining

\* A graph in which a node that was there is joined.
Links == {"public_closure", "public_deps", "inverse", "ancestors", "edges", "transitive"}

Linked(nt) ==
  /\ IsGraph(nt) /\ Len(nt) = Len(nodes) /\ DOMAIN nt = Node
  /\ \A y \in Node :
       /\ Same(nt[y], nodes[y], Links)
       /\ nt[y].edges = IF y = Top.node /\ ~\E e \in nodes[y].edges : e.dst = Previous
                        THEN nodes[y].edges \cup {EdgeTo(Previous)} ELSE nodes[y].edges
       /\ nt[y].ancestors = IF y \in Has(nodes, Previous)
                            THEN nodes[y].ancestors \cup Self.ancestors \cup {KeyOf(Top.node)}
                            ELSE nodes[y].ancestors
  /\ IsPublic => \A y \in Node :
       nt[y].inverse = nodes[y].inverse \cup (IF y = Previous THEN {Top.node} ELSE {})
                         \cup (IF y \in Passes(nodes, Previous) THEN Joining ELSE {})
  /\ IsPublic /\ Unique(nodes) => \A y \in Node :
       /\ Has(nt, y) = Has(nodes, y) \cup (IF y = Top.node THEN {Previous} ELSE {})
                         \cup (IF y \in Joining THEN Passes(nodes, Previous) ELSE {})
       /\ Sees(nt, y) = Sees(nodes, y) \cup (IF y = Top.node THEN {Previous} ELSE {})
                          \cup (IF y \in Joining THEN Passes(nodes, Previous) ELSE {})
       /\ Passes(nt, y) = Passes(nodes, y)
                            \cup (IF y = Top.node THEN Passes(nodes, Previous) ELSE {})

SetsJoined(nt, ns, from, to, y) ==
  /\ Has(nt, y) = Has(ns, y) \cup IF y \in from THEN to ELSE {}
  /\ Sees(nt, y) = Sees(ns, y) \cup IF y \in from THEN to ELSE {}

LEMMA ConnectedSets ==
  ASSUME NEW ns, IsGraph(ns), Unique(ns), NEW from, NEW to, to \subseteq DOMAIN ns,
         NEW nt, Connected(nt, ns, from, to), NEW y \in DOMAIN ns
  PROVE  SetsJoined(nt, ns, from, to, y)
<1>1. /\ nt[y].public_closure =
           IF y \in from THEN Put(ns, to, ns[y].public_closure) ELSE ns[y].public_closure
      /\ nt[y].public_deps =
           IF y \in from THEN Put(ns, to, ns[y].public_deps) ELSE ns[y].public_deps
  BY DEF Connected
<1>2. IsDict(ns, ns[y].public_closure) /\ IsDict(ns, ns[y].public_deps)
  BY DEF IsGraph, IsNode, TypedNode
<1>3. /\ Held(Put(ns, to, ns[y].public_closure)) = Held(ns[y].public_closure) \cup to
      /\ Held(Put(ns, to, ns[y].public_deps)) = Held(ns[y].public_deps) \cup to
  BY <1>2, PutFacts
<1> QED
  BY <1>1, <1>3 DEF Has, Sees, SetsJoined

\* ... and with one that was there (a diamond).
LEMMA DiamondFacts ==
  ASSUME Typed, stack # <<>>, Top.todo # <<>>, Previous \in Node, CloseDiamond
  PROVE  Linked(nodes')
<1> DEFINE n == Top.node
           p == Previous
           near == {n}
           to == {p}
           far == Held(nodes[p].transitive)
           added == Self.ancestors \cup {KeyOf(n)}
           ns1 == AddAncestors
           ns2 == Connect(ns1, near, to)
           ns3 == AddEdge(ns2, p)
           ns4 == TakeOver(ns3, n, p)
           ns5 == Connect(ns4, Joining, far)
<1>1. /\ n \in Node /\ p \in Node /\ TypedNode(nodes, Self) /\ Self = nodes[n] /\ Require \in Requirement
      /\ IsGraph(nodes) /\ Top.node \in Node
  BY TopFacts, AdvancedFacts DEF Typed
<1>2. nodes' = IF IsPublic THEN ns5 ELSE ns3
  <2>1. Joining = IF IsPublic THEN {n} \cup Self.inverse ELSE {n}
    BY DEF Joining
  <2> QED
    BY <2>1 DEF CloseDiamond, JoinClosures, IsPublic
<1>3. AncestorsAdded(ns1, nodes, Has(nodes, p), added)
  BY <1>1, AddAncestorsFacts
<1>4. Joining \subseteq Node /\ far \subseteq Node
  <2>1. IsNames(nodes, nodes[p].transitive)
    BY <1>1 DEF IsGraph, IsNode, TypedNode, Node
  <2>2. far \subseteq Node
    BY <1>1, <2>1, HeldNames DEF Node
  <2> QED
    BY <1>1, <2>2 DEF TypedNode, Node, Joining
<1> HIDE DEF ns1, near, to, far, added
<1>5. Connected(ns2, ns1, near, to)
  <2>1. IsGraph(ns1) /\ near \subseteq DOMAIN ns1 /\ to \subseteq DOMAIN ns1
    BY <1>1, <1>3 DEF AncestorsAdded, near, to, Node
  <2> QED
    BY <2>1, ConnectFacts
<1>6. EdgeAdded(ns3, ns2, n, EdgeTo(p))
  <2>1. IsGraph(ns2) /\ p \in DOMAIN ns2 /\ Top.node \in DOMAIN ns2
    <3>1. IsGraph(ns2) /\ DOMAIN ns2 = DOMAIN ns1
      BY <1>5 DEF Connected
    <3> QED
      BY <1>1, <1>3, <3>1 DEF AncestorsAdded, Node
  <2> HIDE DEF ns2, p
  <2> QED
    BY <1>1, <2>1, AddEdgeFacts
<1>7. TookOver(ns4, ns3, n, p)
  <2>1. IsGraph(ns3) /\ n \in DOMAIN ns3 /\ p \in DOMAIN ns3
    <3>1. IsGraph(ns3) /\ DOMAIN ns3 = DOMAIN ns1
      BY <1>5, <1>6 DEF Connected, EdgeAdded
    <3> QED
      BY <1>1, <1>3, <3>1 DEF AncestorsAdded, Node
  <2> HIDE DEF ns3, n, p
  <2> QED
    BY <2>1, TakeOverFacts
<1> HIDE DEF ns2, ns3, ns4
<1>8. DOMAIN ns1 = Node /\ DOMAIN ns2 = Node /\ DOMAIN ns3 = Node /\ DOMAIN ns4 = Node
  BY <1>3, <1>5, <1>6, <1>7 DEF AncestorsAdded, Connected, EdgeAdded, TookOver, Node
<1>g. IsGraph(ns1) /\ IsGraph(ns2) /\ IsGraph(ns3) /\ IsGraph(ns4)
  BY <1>3, <1>5, <1>6, <1>7 DEF AncestorsAdded, Connected, EdgeAdded, TookOver
<1>l. Len(ns1) = Len(nodes) /\ Len(ns2) = Len(nodes) /\ Len(ns3) = Len(nodes) /\ Len(ns4) = Len(nodes)
  BY <1>3, <1>5, <1>6, <1>7 DEF AncestorsAdded, Connected, EdgeAdded, TookOver
<1>9. Connected(ns5, ns4, Joining, far)
  BY <1>4, <1>8, <1>g, ConnectFacts
<1> HIDE DEF ns5
<1>10. DOMAIN ns5 = Node /\ IsGraph(ns5) /\ Len(ns5) = Len(nodes)
  BY <1>8, <1>9, <1>l DEF Connected
<1>11. ASSUME NEW y \in Node
       PROVE  /\ \A f \in NodeFields \ {"ancestors"} : ns1[y][f] = nodes[y][f]
              /\ \A f \in NodeFields \ {"public_closure", "public_deps", "inverse"} : ns2[y][f] = ns1[y][f]
              /\ \A f \in NodeFields \ {"edges"} : ns3[y][f] = ns2[y][f]
              /\ \A f \in NodeFields \ {"transitive"} : ns4[y][f] = ns3[y][f]
              /\ \A f \in NodeFields \ {"public_closure", "public_deps", "inverse"} : ns5[y][f] = ns4[y][f]
  <2>1. \A f \in NodeFields \ {"ancestors"} : ns1[y][f] = nodes[y][f]
    BY <1>3 DEF AncestorsAdded, Same, Node
  <2>2. \A f \in NodeFields \ {"public_closure", "public_deps", "inverse"} : ns2[y][f] = ns1[y][f]
    BY <1>5, <1>8 DEF Connected, Same
  <2>3. \A f \in NodeFields \ {"edges"} : ns3[y][f] = ns2[y][f]
    BY <1>6, <1>8 DEF EdgeAdded, Same
  <2>4. \A f \in NodeFields \ {"transitive"} : ns4[y][f] = ns3[y][f]
    BY <1>7, <1>8 DEF TookOver, Same
  <2>5. \A f \in NodeFields \ {"public_closure", "public_deps", "inverse"} : ns5[y][f] = ns4[y][f]
    BY <1>8, <1>9 DEF Connected, Same
  <2> QED
    BY <2>1, <2>2, <2>3, <2>4, <2>5
<1>12. ASSUME NEW y \in Node
       PROVE  /\ Same(nodes'[y], nodes[y], Links)
              /\ nodes'[y].edges = IF y = n /\ ~\E e \in nodes[y].edges : e.dst = p
                                   THEN nodes[y].edges \cup {EdgeTo(p)} ELSE nodes[y].edges
              /\ nodes'[y].ancestors = IF y \in Has(nodes, p) THEN nodes[y].ancestors \cup added
                                       ELSE nodes[y].ancestors
  <2>1. nodes'[y] = [f \in NodeFields |-> nodes'[y][f]]
    <3>1. ns3[y] = [f \in NodeFields |-> ns3[y][f]] /\ ns5[y] = [f \in NodeFields |-> ns5[y][f]]
      BY <1>8, <1>10, <1>g DEF IsGraph, IsNode, TypedNode
    <3>2. CASE IsPublic
      BY <1>2, <3>1, <3>2
    <3>3. CASE ~IsPublic
      BY <1>2, <3>1, <3>3
    <3> QED
      BY <3>2, <3>3
  <2>2. \A f \in NodeFields \ Links : nodes'[y][f] = nodes[y][f]
    <3>1. \A f \in NodeFields \ Links : ns3[y][f] = nodes[y][f] /\ ns5[y][f] = nodes[y][f]
      BY <1>11 DEF Links
    <3> QED
      BY <1>2, <3>1
  <2>3. ns3[y].edges = IF y = n /\ ~\E e \in ns2[y].edges : e.dst = p
                       THEN ns2[y].edges \cup {EdgeTo(p)} ELSE ns2[y].edges
    <3>1. EdgeTo(p).dst = p
      BY DEF EdgeTo
    <3> QED
      BY <1>6, <1>8, <3>1 DEF EdgeAdded
  <2>4. ns2[y].edges = nodes[y].edges /\ ns5[y].edges = ns3[y].edges
    BY <1>11 DEF NodeFields
  <2>5. ns1[y].ancestors = IF y \in Has(nodes, p) THEN nodes[y].ancestors \cup added
                           ELSE nodes[y].ancestors
    BY <1>3 DEF AncestorsAdded, Node
  <2>6. ns3[y].ancestors = ns1[y].ancestors /\ ns5[y].ancestors = ns1[y].ancestors
    BY <1>11 DEF NodeFields
  <2> HIDE DEF n, p
  <2> QED
    BY <1>2, <2>1, <2>2, <2>3, <2>4, <2>5, <2>6 DEF Same
<1>13. ASSUME IsPublic, NEW y \in Node
       PROVE  nodes'[y].inverse = nodes[y].inverse \cup (IF y = p THEN {n} ELSE {})
                                    \cup (IF y \in far THEN Joining ELSE {})
  <2>1. ns2[y].inverse = ns1[y].inverse \cup IF y \in to THEN near ELSE {}
    BY <1>5, <1>8 DEF Connected
  <2>2. ns5[y].inverse = ns4[y].inverse \cup IF y \in far THEN Joining ELSE {}
    BY <1>8, <1>9 DEF Connected
  <2>3. ns1[y].inverse = nodes[y].inverse /\ ns4[y].inverse = ns2[y].inverse
    BY <1>11 DEF NodeFields
  <2> HIDE DEF n, p
  <2> QED
    BY <1>2, <1>13, <2>1, <2>2, <2>3 DEF near, to
<1>14. ASSUME IsPublic, Unique(nodes), NEW y \in Node
       PROVE  /\ Has(nodes', y) = Has(nodes, y) \cup (IF y = n THEN {p} ELSE {})
                                    \cup (IF y \in Joining THEN far ELSE {})
              /\ Sees(nodes', y) = Sees(nodes, y) \cup (IF y = n THEN {p} ELSE {})
                                     \cup (IF y \in Joining THEN far ELSE {})
              /\ Passes(nodes', y) = Passes(nodes, y) \cup (IF y = n THEN far ELSE {})
  <2>1. Unique(ns1) /\ Unique(ns3) /\ Unique(ns4)
    <3>1. \A x \in Node : ns1[x].name = nodes[x].name /\ ns3[x].name = nodes[x].name
                          /\ ns4[x].name = nodes[x].name
      BY <1>11 DEF NodeFields
    <3> QED
      BY <1>8, <1>14, <3>1 DEF Unique, Node
  <2>2. SetsJoined(ns2, ns1, near, to, y)
    <3>1. to \subseteq DOMAIN ns1 /\ y \in DOMAIN ns1
      BY <1>1, <1>8 DEF to
    <3> QED
      BY <1>5, <1>g, <2>1, <3>1, ConnectedSets
  <2>3. SetsJoined(ns5, ns4, Joining, far, y)
    <3>1. far \subseteq DOMAIN ns4 /\ y \in DOMAIN ns4
      BY <1>4, <1>8
    <3> QED
      BY <1>9, <1>g, <2>1, <3>1, ConnectedSets
  <2>4. /\ Has(ns1, y) = Has(nodes, y) /\ Sees(ns1, y) = Sees(nodes, y)
        /\ Has(ns4, y) = Has(ns2, y) /\ Sees(ns4, y) = Sees(ns2, y)
        /\ Passes(ns5, y) = Passes(ns4, y)
    BY <1>11 DEF NodeFields, Has, Sees, Passes
  <2>5. ns3[n].transitive = nodes[n].transitive /\ ns3[p].transitive = nodes[p].transitive
        /\ ns3[y].transitive = nodes[y].transitive
    BY <1>1, <1>11 DEF NodeFields
  <2>6. ns4[y].transitive = IF y = n THEN Merged(ns3[n].transitive, ns3[p].transitive)
                            ELSE ns3[y].transitive
    BY <1>7, <1>8 DEF TookOver
  <2>7. Held(Merged(ns3[n].transitive, ns3[p].transitive))
          = Held(ns3[n].transitive) \cup Held(ns3[p].transitive)
    <3>1. IsNames(ns3, ns3[n].transitive) /\ IsNames(ns3, ns3[p].transitive)
      BY <1>1, <1>8, <1>g DEF IsGraph, IsNode, TypedNode
    <3> HIDE DEF n, p
    <3> QED
      BY <1>g, <2>1, <3>1, MergedFacts
  <2>8. Passes(nodes', y) = Passes(nodes, y) \cup (IF y = n THEN far ELSE {})
    <3> HIDE DEF n, p
    <3> QED
      BY <1>2, <1>14, <2>4, <2>5, <2>6, <2>7 DEF Passes, far
  <2> HIDE DEF n, p
  <2> QED
    BY <1>2, <1>14, <2>2, <2>3, <2>4, <2>8 DEF near, to, SetsJoined
<1>15. IsGraph(nodes') /\ Len(nodes') = Len(nodes) /\ DOMAIN nodes' = Node
  BY <1>2, <1>8, <1>10, <1>g, <1>l
<1> QED
  BY <1>12, <1>13, <1>14, <1>15 DEF Linked, n, p, far, added, Passes


-----------------------------------------------------------------------------
(* Every step keeps the types.                                             *)

LEMMA NewestFound ==
  ASSUME world \in DOMAIN Worlds, NEW range, range \subseteq Version, Found(range) # {}
  PROVE  /\ Max(Found(range)) \in Found(range) /\ Max(Found(range)) \in range
         /\ Max(Found(range)) \in Version
<1> DEFINE found == Found(range)
<1>1. found \subseteq World.local \cup World.remote /\ found \subseteq range
  BY DEF Found
<1>2. World \in Range(Worlds)
  BY WorldFacts
<1>3. found \in (SUBSET (World.local \cup World.remote)) \ {{}}
  BY <1>1
<1>4. \E newest \in found : \A v \in found : newest >= v
  BY <1>2, <1>3, WorldAssumption
<1>5. Max(found) \in found
  BY <1>4 DEF Max
<1> QED
  BY <1>1, <1>5

\* A requirement stays one when it is overridden or resolved.
LEMMA SomeVersions ==
  ASSUME Typed, stack # <<>>, NEW req \in Requirement
  PROVE  /\ Updated(req) \in Requirement
         /\ Updated(req).name = req.name /\ Updated(req).kind = req.kind
         /\ Updated(req).switch = req.switch
         /\ \A r \in Requirement :
              /\ Resolved(r) \in Requirement /\ Resolved(r).name = r.name
              /\ Resolved(r).kind = r.kind /\ Resolved(r).switch = r.switch
              /\ Resolved(r).range = r.range
<1>1. IsFrame(nodes, Top) /\ world \in DOMAIN Worlds
  BY TopFacts DEF Typed
<1>2. req.name \in DOMAIN Top.reqs => Top.reqs[req.name] \in Requirement
  BY <1>1 DEF IsFrame
<1>3. /\ Updated(req) \in Requirement
      /\ Updated(req).name = req.name /\ Updated(req).kind = req.kind
      /\ Updated(req).switch = req.switch
  <2> DEFINE other == Top.reqs[req.name]
  <2>1. CASE Updated(req) = req
    BY <2>1
  <2>2. CASE Updated(req) # req
    <3>1. /\ Updated(req) = [req EXCEPT !.version = other.version,
                                        !.range = IF other.range = {} THEN {} ELSE @]
          /\ other \in Requirement
      BY <1>2, <2>2 DEF Updated
    <3> HIDE DEF other
    <3> QED
      BY <3>1 DEF Requirement
  <2> QED
    BY <2>1, <2>2
<1>4. ASSUME NEW r \in Requirement
      PROVE  /\ Resolved(r) \in Requirement /\ Resolved(r).name = r.name
             /\ Resolved(r).kind = r.kind /\ Resolved(r).switch = r.switch
             /\ Resolved(r).range = r.range
  <2>1. CASE Resolved(r) = r
    BY <2>1
  <2>2. CASE Resolved(r) # r
    <3>1. Resolved(r) = [r EXCEPT !.version = Max(Found(r.range))] /\ Found(r.range) # {}
      BY <2>2 DEF Resolved
    <3>2. r.range \subseteq Version
      BY DEF Requirement
    <3>3. Max(Found(r.range)) \in Version
      BY <1>1, <3>1, <3>2, NewestFound
    <3> QED
      BY <3>1, <3>3 DEF Requirement
  <2> QED
    BY <2>1, <2>2
<1> QED
  BY <1>3, <1>4

\* What a node asks for, updated and resolved.
LEMMA AskedFacts ==
  ASSUME Typed, stack # <<>>
  PROVE  IsRequires(Asked)
<1>1. TypedNode(nodes, Self) /\ Self = nodes[Top.node] /\ Top.node \in Node
  BY TopFacts
<1>2. Self.name \in Name \cup {Root} /\ Self.recipe \in World.recipes[Self.name]
      /\ world \in DOMAIN Worlds
  BY <1>1 DEF Typed, TypedNode, Key
<1>3. IsRequires(Self.recipe.requires)
  BY <1>2, RecipeFacts
<1> QED
  BY <1>1, <1>3 DEF Asked, TypedNode

LEMMA RequiredFacts ==
  ASSUME Typed, stack # <<>>
  PROVE  /\ IsRequires(Required) /\ DOMAIN Required = DOMAIN Asked
         /\ \A i \in DOMAIN Asked :
              /\ Asked[i] \in Requirement
              /\ Required[i] = Resolved(Updated(Asked[i]))
              /\ Required[i].name = Asked[i].name /\ Required[i].kind = Asked[i].kind
              /\ Required[i].switch = Asked[i].switch
<1>1. IsRequires(Asked) /\ Len(Asked) \in Nat /\ DOMAIN Asked = 1..Len(Asked)
  BY AskedFacts, ListFacts DEF IsRequires
<1>2. \A i \in DOMAIN Asked : Asked[i] \in Requirement
  BY <1>1 DEF IsRequires
<1>3. /\ Required = [i \in 1..Len(Asked) |-> Required[i]] /\ DOMAIN Required = DOMAIN Asked
      /\ \A i \in DOMAIN Asked : Required[i] = Resolved(Updated(Asked[i]))
  BY <1>1 DEF Required
<1>4. ASSUME NEW i \in DOMAIN Asked
      PROVE  /\ Required[i] \in Requirement
             /\ Required[i].name = Asked[i].name /\ Required[i].kind = Asked[i].kind
             /\ Required[i].switch = Asked[i].switch
  <2>1. Updated(Asked[i]) \in Requirement
        /\ Updated(Asked[i]).name = Asked[i].name /\ Updated(Asked[i]).kind = Asked[i].kind
        /\ Updated(Asked[i]).switch = Asked[i].switch
    BY <1>2, SomeVersions
  <2>2. /\ Resolved(Updated(Asked[i])) \in Requirement
        /\ Resolved(Updated(Asked[i])).name = Updated(Asked[i]).name
        /\ Resolved(Updated(Asked[i])).kind = Updated(Asked[i]).kind
        /\ Resolved(Updated(Asked[i])).switch = Updated(Asked[i]).switch
    BY <1>2, <2>1, SomeVersions
  <2> QED
    BY <1>3, <2>1, <2>2
<1>5. IsRequires(Required)
  BY <1>1, <1>3, <1>4, ListOf DEF IsRequires
<1> QED
  BY <1>2, <1>3, <1>4, <1>5

\* Nothing but what a node requires and the options is other than it was.
Asks == {"configured", "requires", "option", "modified", "deps", "depsModified"}

\* A node is of its type if it is like one that is, and so is what may differ.
LEMMA TypedAgain ==
  ASSUME NEW ns, NEW x, TypedNode(ns, x), NEW y, Same(y, x, Asks), IsRequires(y.requires),
         y.option \in Value, y.modified \in BOOLEAN, y.deps \in [Name -> Value \cup {None}],
         y.depsModified \subseteq Name
  PROVE  TypedNode(ns, y)
<1>1. \A f \in NodeFields \ Asks : y[f] = x[f]
  BY DEF Same
<1>2. /\ y.name = x.name /\ y.context = x.context
      /\ y.edges = x.edges /\ y.inverse = x.inverse /\ y.ancestors = x.ancestors
      /\ y.public_deps = x.public_deps /\ y.public_closure = x.public_closure
      /\ y.transitive = x.transitive
  BY <1>1 DEF Asks, NodeFields
<1>3. y.frozen = x.frozen
  BY <1>1 DEF Asks, NodeFields
<1>4. y.frozen \in BOOLEAN
  BY <1>3 DEF TypedNode
<1>5. y = [f \in NodeFields |-> y[f]]
  BY DEF Same
<1> QED
  BY <1>2, <1>4, <1>5 DEF TypedNode

\* What a recipe does not set stays as it is.
LEMMA AssignedFacts ==
  ASSUME NEW ns, NEW x, TypedNode(ns, x), NEW settings \in Settings
  PROVE  LET y == Assigned(x, settings) IN
         /\ TypedNode(ns, y) /\ Same(y, x, {"option", "deps"})
         /\ x.name \notin Name \/ settings[x.option][x.name] = None => y.option = x.option
         /\ \A k \in Name : settings[x.option][k] = None => y.deps[k] = x.deps[k]
<1> DEFINE given == settings[x.option]
           option == IF x.name \in Name /\ given[x.name] # None THEN given[x.name] ELSE x.option
           deps == [k \in Name |-> IF k # x.name /\ given[k] # None THEN given[k] ELSE x.deps[k]]
           y == Assigned(x, settings)
<1>1. y = [x EXCEPT !.option = option, !.deps = deps]
  BY DEF Assigned
<1>2. given \in [Name -> Value \cup {None}]
  BY DEF Settings, TypedNode
<1>3. x.deps \in [Name -> Value \cup {None}] /\ x.option \in Value /\ IsRequires(x.requires)
      /\ x.depsModified \subseteq Name
  BY DEF TypedNode
<1>4. option \in Value /\ deps \in [Name -> Value \cup {None}]
  BY <1>2, <1>3
<1>5. x = [f \in NodeFields |-> x[f]]
  BY DEF TypedNode
<1>6. x.name \notin Name \/ given[x.name] = None => option = x.option
  OBVIOUS
<1>7. \A k \in Name : given[k] = None => deps[k] = x.deps[k]
  OBVIOUS
<1> HIDE DEF given, option, deps, y
<1>8. Same(y, x, {"option", "deps"}) /\ y.option = option /\ y.deps = deps
      /\ y.requires = x.requires /\ y.depsModified = x.depsModified
  BY <1>1, <1>5 DEF Same, NodeFields
<1>9. y.modified = x.modified
  BY <1>1, <1>5 DEF NodeFields
<1>10. y.modified \in BOOLEAN
  BY <1>9 DEF TypedNode
<1>11. Same(y, x, Asks)
  BY <1>8 DEF Same, Asks
<1>12. TypedNode(ns, y)
  BY <1>3, <1>4, <1>8, <1>10, <1>11, TypedAgain
<1> QED
  BY <1>6, <1>7, <1>8, <1>12 DEF y, given

\* What comes from downstream is taken.
LEMMA PropagatedFacts ==
  ASSUME Typed, stack # <<>>, NEW x, TypedNode(nodes, x)
  PROVE  LET y == Propagated(x)
             own == DownOption(x.name)
         IN  /\ TypedNode(nodes, y) /\ Same(y, x, {"option", "modified", "deps", "depsModified"})
             /\ y.option = IF own # None THEN own ELSE x.option
             /\ y.modified <=> (x.modified \/ own \notin {None, x.option})
             /\ \A k \in Name \ {x.name} : Top.options[k] \in {None, y.deps[k]}
<1> DEFINE own == DownOption(x.name)
           changed == {k \in Name \ {x.name} : Top.options[k] \notin {None, x.deps[k]}}
           option == IF own # None THEN own ELSE x.option
           modified == x.modified \/ own \notin {None, x.option}
           deps == [k \in Name |-> IF k \in changed THEN Top.options[k] ELSE x.deps[k]]
           depsModified == x.depsModified \cup changed
           y == Propagated(x)
<1>1. y = [x EXCEPT !.option = option, !.modified = modified, !.deps = deps, !.depsModified = depsModified]
  BY DEF Propagated
<1>2. Top.options \in [Name -> Value \cup {None}]
  BY TopFacts DEF IsFrame
<1>3. x.deps \in [Name -> Value \cup {None}] /\ x.option \in Value /\ IsRequires(x.requires)
      /\ x.depsModified \subseteq Name
  BY DEF TypedNode
<1>4. option \in Value /\ deps \in [Name -> Value \cup {None}] /\ depsModified \subseteq Name
  <2>1. own \in Value \cup {None}
    BY <1>2 DEF DownOption
  <2> QED
    BY <1>2, <1>3, <2>1
<1>5. modified \in BOOLEAN
  BY DEF TypedNode
<1>6. x = [f \in NodeFields |-> x[f]]
  BY DEF TypedNode
<1>7. \A k \in Name \ {x.name} : Top.options[k] \in {None, deps[k]}
  OBVIOUS
<1>8. modified <=> (x.modified \/ own \notin {None, x.option})
  OBVIOUS
<1>9. option = IF own # None THEN own ELSE x.option
  OBVIOUS
<1> HIDE DEF own, changed, option, modified, deps, depsModified, y
<1>10. Same(y, x, {"option", "modified", "deps", "depsModified"}) /\ y.option = option /\ y.deps = deps
       /\ y.requires = x.requires /\ y.depsModified = depsModified
  BY <1>1, <1>6 DEF Same, NodeFields
<1>11. y.modified = modified
  BY <1>1, <1>6 DEF NodeFields
<1>12. Same(y, x, Asks)
  BY <1>10 DEF Same, Asks
<1>13. TypedNode(nodes, y)
  BY <1>3, <1>4, <1>5, <1>10, <1>11, <1>12, TypedAgain
<1>14. y.modified <=> (x.modified \/ own \notin {None, x.option})
  BY <1>8, <1>11
<1> QED
  BY <1>7, <1>9, <1>10, <1>13, <1>14 DEF y, own

\* A recipe that sets the option of its own package.
SetsOwn(x) == x.name \in Name /\ Sets(x.recipe, x.name)

\* Nothing but what a node requires and the options is other than it was, and
\* what its recipe does not set is what comes from downstream.
Configures(nt) ==
  /\ IsGraph(nt) /\ Len(nt) = Len(nodes) /\ DOMAIN nt = Node
  /\ \A y \in Node : y # Top.node => nt[y] = nodes[y]
  /\ Same(nt[Top.node], Self, Asks) /\ nt[Top.node].requires = Required
  /\ ~SetsOwn(Self) =>
       /\ nt[Top.node].option = IF DownOption(Self.name) # None THEN DownOption(Self.name) ELSE Self.option
       /\ nt[Top.node].modified <=> (Self.modified \/ DownOption(Self.name) \notin {None, Self.option})
  /\ \A k \in Name \ {Self.name} :
       ~Sets(Self.recipe, k) => Top.options[k] \in {None, nt[Top.node].deps[k]}

\* The methods of a recipe.
LEMMA MethodFacts ==
  ASSUME Typed, stack # <<>>
  PROVE  /\ Self.recipe.config_options \in Settings /\ Self.recipe.configure \in Settings
         /\ \A k \in Name, own \in Value : ~Sets(Self.recipe, k) =>
              Self.recipe.config_options[own][k] = None /\ Self.recipe.configure[own][k] = None
<1>1. Top.node \in Node /\ Self = nodes[Top.node] /\ TypedNode(nodes, Self)
  BY TopFacts
<1>2. Self.name \in Name \cup {Root} /\ Self.recipe \in World.recipes[Self.name] /\ world \in DOMAIN Worlds
  BY <1>1 DEF Typed, TypedNode, Key
<1>3. Self.recipe.config_options \in Settings /\ Self.recipe.configure \in Settings
  BY <1>2, RecipeFacts
<1> QED
  BY <1>3 DEF Sets

\* What a node holds when config_options() was called.
LEMMA ReadyFacts ==
  ASSUME Typed, stack # <<>>
  PROVE  /\ TypedNode(nodes, Ready) /\ Same(Ready, Self, {"option", "deps"})
         /\ ~SetsOwn(Self) => Ready.option = Self.option
<1>1. TypedNode(nodes, Self)
  BY TopFacts
<1>2. /\ Self.recipe.config_options \in Settings
      /\ \A k \in Name, own \in Value : ~Sets(Self.recipe, k) => Self.recipe.config_options[own][k] = None
  BY MethodFacts
<1>3. Self.option \in Value
  BY <1>1 DEF TypedNode
<1>4. /\ TypedNode(nodes, Ready) /\ Same(Ready, Self, {"option", "deps"})
      /\ Self.name \notin Name \/ Self.recipe.config_options[Self.option][Self.name] = None
           => Ready.option = Self.option
  BY <1>1, <1>2, AssignedFacts DEF Ready
<1> QED
  BY <1>2, <1>3, <1>4 DEF SetsOwn

\* config_options(), propagate_upstream, configure() and requirements().
ConfiguredAs(x) ==
  /\ TypedNode(nodes, x) /\ Same(x, Self, Asks \ {"requires"})
  /\ ~SetsOwn(Self) =>
       /\ x.option = IF DownOption(Self.name) # None THEN DownOption(Self.name) ELSE Self.option
       /\ x.modified <=> (Self.modified \/ DownOption(Self.name) \notin {None, Self.option})
  /\ \A k \in Name \ {Self.name} : ~Sets(Self.recipe, k) => Top.options[k] \in {None, x.deps[k]}

LEMMA ConfiguredFacts ==
  ASSUME Typed, stack # <<>>
  PROVE  ConfiguredAs(Configured)
<1> DEFINE a == Ready
           b == Propagated(a)
           c == Assigned(b, Self.recipe.configure)
           x == [c EXCEPT !.configured = TRUE]
           own == DownOption(Self.name)
<1>1. x = Configured
  BY DEF Configured
<1>2. /\ TypedNode(nodes, a) /\ Same(a, Self, {"option", "deps"})
      /\ ~SetsOwn(Self) => a.option = Self.option
  BY ReadyFacts
<1>3. /\ Self.recipe.configure \in Settings
      /\ \A k \in Name, o \in Value : ~Sets(Self.recipe, k) => Self.recipe.configure[o][k] = None
  BY MethodFacts
<1> HIDE DEF a
<1>4. a.name = Self.name
  BY <1>2 DEF Same, NodeFields
<1>5. a.modified = Self.modified
  BY <1>2 DEF Same, NodeFields
<1>6. /\ TypedNode(nodes, b) /\ Same(b, a, {"option", "modified", "deps", "depsModified"})
      /\ b.option = IF own # None THEN own ELSE a.option
      /\ \A k \in Name \ {Self.name} : Top.options[k] \in {None, b.deps[k]}
  BY <1>2, <1>4, PropagatedFacts
<1>7. b.modified <=> (a.modified \/ own \notin {None, a.option})
  BY <1>2, <1>4, PropagatedFacts
<1> HIDE DEF b
<1>8. b.name = Self.name /\ b.option \in Value
  BY <1>4, <1>6 DEF Same, NodeFields, TypedNode
<1>9. /\ TypedNode(nodes, c) /\ Same(c, b, {"option", "deps"})
      /\ Self.name \notin Name \/ Self.recipe.configure[b.option][Self.name] = None => c.option = b.option
      /\ \A k \in Name : Self.recipe.configure[b.option][k] = None => c.deps[k] = b.deps[k]
  BY <1>3, <1>6, <1>8, AssignedFacts
<1> HIDE DEF c
<1>10. c.modified = b.modified
  BY <1>9 DEF Same, NodeFields
<1>11. c = [f \in NodeFields |-> c[f]]
  BY <1>9 DEF Same
<1>12. /\ x = [f \in NodeFields |-> x[f]] /\ x.option = c.option /\ x.deps = c.deps
       /\ x.requires = c.requires /\ x.depsModified = c.depsModified
       /\ \A f \in NodeFields \ {"configured"} : x[f] = c[f]
  BY <1>11 DEF NodeFields
<1>13. x.modified = c.modified
  BY <1>11 DEF NodeFields
<1> HIDE DEF x
<1>14. Same(x, c, Asks)
  BY <1>12 DEF Same, Asks
<1>15. TypedNode(nodes, x)
  <2>1. IsRequires(x.requires) /\ x.option \in Value /\ x.deps \in [Name -> Value \cup {None}]
        /\ x.depsModified \subseteq Name
    BY <1>9, <1>12 DEF TypedNode
  <2>2. x.modified \in BOOLEAN
    BY <1>9, <1>13 DEF TypedNode
  <2> QED
    BY <1>9, <1>14, <2>1, <2>2, TypedAgain
<1>16. Same(x, Self, Asks \ {"requires"})
  <2>1. \A f \in NodeFields \ Asks : x[f] = Self[f]
    BY <1>2, <1>6, <1>9, <1>12 DEF Same, Asks
  <2>2. x.requires = Self.requires
    BY <1>2, <1>6, <1>9, <1>12 DEF Same, NodeFields
  <2> QED
    BY <1>12, <2>1, <2>2 DEF Same, Asks
<1>17. ASSUME ~SetsOwn(Self)
       PROVE  /\ x.option = IF own # None THEN own ELSE Self.option
              /\ x.modified <=> (Self.modified \/ own \notin {None, Self.option})
  <2>1. Self.name \notin Name \/ Self.recipe.configure[b.option][Self.name] = None
    BY <1>3, <1>8, <1>17 DEF SetsOwn
  <2>2. x.option = IF own # None THEN own ELSE Self.option
    BY <1>2, <1>6, <1>9, <1>12, <1>17, <2>1
  <2>3. x.modified = b.modified
    BY <1>10, <1>13
  <2>4. a.option = Self.option
    BY <1>2, <1>17
  <2>5. x.modified <=> (Self.modified \/ own \notin {None, Self.option})
    BY <1>5, <1>7, <2>3, <2>4, Zenon
  <2> QED
    BY <2>2, <2>5
<1>18. ASSUME NEW k \in Name \ {Self.name}, ~Sets(Self.recipe, k)
       PROVE  Top.options[k] \in {None, x.deps[k]}
  BY <1>3, <1>6, <1>8, <1>9, <1>12, <1>18
<1> QED
  BY <1>1, <1>15, <1>16, <1>17, <1>18 DEF ConfiguredAs, own

\* _get_node_requirements.
LEMMA GetNodeRequirementsFacts ==
  ASSUME Typed, GetNodeRequirements
  PROVE  Configures(nodes')
<1> DEFINE n == Top.node
           own == DownOption(Self.name)
           x == Configured
           new == nodes'[n]
<1>0. stack # <<>>
  BY DEF GetNodeRequirements, Configuring, Running
<1>1. n \in Node /\ Self = nodes[n] /\ TypedNode(nodes, Self) /\ IsGraph(nodes)
  BY <1>0, TopFacts DEF Typed
<1>2. IsRequires(Required)
  BY <1>0, RequiredFacts
<1>3. nodes' = [nodes EXCEPT ![n] = [x EXCEPT !.requires = Required]]
  BY DEF GetNodeRequirements
<1>4. ConfiguredAs(x)
  BY <1>0, ConfiguredFacts
<1>5. x = [f \in NodeFields |-> x[f]]
  BY <1>4 DEF ConfiguredAs, TypedNode
<1> HIDE DEF x
<1>6. DOMAIN nodes' = Node /\ nodes' = [y \in Node |-> nodes'[y]]
      /\ \A y \in Node : y # n => nodes'[y] = nodes[y]
  <2>1. nodes = [y \in Node |-> nodes[y]]
    BY <1>1, ListFacts DEF IsGraph, Node
  <2> HIDE DEF n
  <2> QED
    BY <1>3, <2>1 DEF Node
<1>7. new = [x EXCEPT !.requires = Required]
  <2> HIDE DEF n
  <2> QED
    BY <1>1, <1>3 DEF Node
<1> HIDE DEF own, new
<1>8. /\ new = [f \in NodeFields |-> new[f]] /\ new.requires = Required
      /\ \A f \in NodeFields \ {"requires"} : new[f] = x[f]
  BY <1>5, <1>7 DEF NodeFields
<1>9. new.modified = x.modified
  BY <1>8 DEF NodeFields
<1>10. new.option = x.option /\ new.deps = x.deps /\ new.depsModified = x.depsModified
  BY <1>8 DEF NodeFields
<1>11. Same(new, Self, Asks)
  BY <1>4, <1>8 DEF ConfiguredAs, Same, Asks
<1>12. TypedNode(nodes, new)
  <2>1. TypedNode(nodes, x)
    BY <1>4 DEF ConfiguredAs
  <2>2. new.option \in Value /\ new.deps \in [Name -> Value \cup {None}] /\ new.depsModified \subseteq Name
    BY <1>10, <2>1 DEF TypedNode
  <2>3. new.modified \in BOOLEAN
    BY <1>9, <2>1 DEF TypedNode
  <2> QED
    BY <1>1, <1>2, <1>8, <1>11, <2>2, <2>3, TypedAgain
<1>13. new.name = Self.name /\ new.context = Self.context /\ new.version = Self.version
  BY <1>11 DEF Same, Asks, NodeFields
<1>14. IsGraph(nodes') /\ Len(nodes') = Len(nodes) /\ DOMAIN nodes' = DOMAIN nodes
  <2>1. ASSUME NEW y \in Node
        PROVE  /\ TypedNode(nodes, nodes'[y]) /\ nodes'[y].name = nodes[y].name
               /\ nodes'[y].context = nodes[y].context /\ nodes'[y].version = nodes[y].version
    <3>1. CASE y = n
      BY <1>1, <1>12, <1>13, <3>1 DEF new
    <3>2. CASE y # n
      BY <1>1, <1>6, <3>2 DEF IsGraph, IsNode, Node
    <3> QED
      BY <3>1, <3>2
  <2> QED
    BY <1>1, <1>6, <2>1, GraphKept DEF Node
<1>15. ASSUME ~SetsOwn(Self)
       PROVE  /\ new.option = IF own # None THEN own ELSE Self.option
              /\ new.modified <=> (Self.modified \/ own \notin {None, Self.option})
  <2>1. new.option = IF own # None THEN own ELSE Self.option
    BY <1>4, <1>10, <1>15 DEF ConfiguredAs, own
  <2>2. new.modified <=> (Self.modified \/ own \notin {None, Self.option})
    BY <1>4, <1>9, <1>15, Zenon DEF ConfiguredAs, own
  <2> QED
    BY <2>1, <2>2
<1>16. \A k \in Name \ {Self.name} : ~Sets(Self.recipe, k) => Top.options[k] \in {None, new.deps[k]}
  BY <1>4, <1>10 DEF ConfiguredAs
<1> QED
  BY <1>6, <1>8, <1>11, <1>14, <1>15, <1>16 DEF new, Configures, n, own, Node

\* What is passed on.
LEMMA PassedOnFacts ==
  ASSUME Typed, stack # <<>>, NEW reqs, DOMAIN reqs \subseteq Name,
         \A k \in DOMAIN reqs : reqs[k] \in Requirement, NEW required, IsRequires(required)
  PROVE  LET passed == PassedOn(reqs, required) IN
         /\ DOMAIN passed \subseteq Name /\ \A k \in DOMAIN passed : passed[k] \in Requirement
<1> DEFINE own == {i \in DOMAIN required : required[i].kind # "private"}
           names == (DOMAIN reqs \ {Self.name}) \cup {required[i].name : i \in own}
           passed == PassedOn(reqs, required)
<1>1. \A i \in DOMAIN required : required[i] \in Requirement /\ required[i].name \in Name
  BY DEF IsRequires, Requirement
<1>2. /\ DOMAIN passed = names
      /\ \A k \in names : passed[k] = IF \E i \in own : required[i].name = k
                                      THEN required[CHOOSE i \in own : required[i].name = k]
                                      ELSE reqs[k]
  BY DEF PassedOn
<1>3. names \subseteq Name
  BY <1>1
<1>4. ASSUME NEW k \in names PROVE passed[k] \in Requirement
  <2>1. CASE \E i \in own : required[i].name = k
    <3>1. (CHOOSE i \in own : required[i].name = k) \in own
      BY <2>1
    <3> QED
      BY <1>1, <1>2, <2>1, <3>1
  <2>2. CASE ~\E i \in own : required[i].name = k
    <3>1. k \in DOMAIN reqs
      BY <2>2
    <3> QED
      BY <1>2, <2>2, <3>1
  <2> QED
    BY <2>1, <2>2
<1> QED
  BY <1>2, <1>3, <1>4

\* The frame of a node that knows what it requires.
Asking(f) ==
  /\ f = [x \in FrameFields |-> f[x]] /\ f.node = Top.node /\ f.phase = "expand" /\ f.todo = Required
  /\ f.reqs = PassedOn(Top.reqs, Required) /\ f.options = nodes'[Top.node].deps /\ f.then = Top.then

LEMMA AskingFacts ==
  ASSUME Typed, GetNodeRequirements
  PROVE  \E f : Asking(f) /\ IsFrame(nodes, f) /\ stack' = Append(Front(stack), f)
<1>0. stack # <<>>
  BY DEF GetNodeRequirements, Configuring, Running
<1>1. IsFrame(nodes, Top) /\ Top.node \in Node
  BY <1>0, TopFacts
<1> DEFINE options == nodes'[Top.node].deps
           reqs == PassedOn(Top.reqs, Required)
           f == [Top EXCEPT !.phase = "expand", !.todo = Required, !.reqs = reqs, !.options = options]
<1>2. stack' = Append(Front(stack), f)
  BY DEF GetNodeRequirements, WithTop
<1>3. options \in [Name -> Value \cup {None}]
  BY <1>1, GetNodeRequirementsFacts DEF Configures, IsGraph, IsNode, TypedNode
<1>4. IsRequires(Required)
  BY <1>0, RequiredFacts
<1>5. DOMAIN reqs \subseteq Name /\ \A k \in DOMAIN reqs : reqs[k] \in Requirement
  BY <1>0, <1>1, <1>4, PassedOnFacts DEF IsFrame
<1> HIDE DEF options, reqs
<1>6. /\ f = [x \in FrameFields |-> f[x]] /\ f.node = Top.node /\ f.phase = "expand"
      /\ f.todo = Required /\ f.reqs = reqs /\ f.options = options /\ f.then = Top.then
  <2>1. Top = [x \in FrameFields |-> Top[x]]
    BY <1>1 DEF IsFrame
  <2> QED
    BY <2>1 DEF FrameFields
<1> HIDE DEF f
<1>7. IsFrame(nodes, f)
  BY <1>1, <1>3, <1>4, <1>5, <1>6 DEF IsFrame
<1> QED
  BY <1>2, <1>6, <1>7 DEF Asking, options, reqs

\* Frames of nodes that are there.
LEMMA FrameMade ==
  ASSUME NEW ns, NEW node \in DOMAIN ns, NEW reqs, DOMAIN reqs \subseteq Name,
         \A k \in DOMAIN reqs : reqs[k] \in Requirement,
         NEW options \in [Name -> Value \cup {None}], NEW then \in DOMAIN ns \cup {None}
  PROVE  IsFrame(ns, Frame(node, reqs, options, then))
<1> DEFINE f == Frame(node, reqs, options, then)
<1>1. /\ f = [x \in FrameFields |-> f[x]] /\ f.node = node /\ f.phase = "configure" /\ f.todo = <<>>
      /\ f.reqs = reqs /\ f.options = options /\ f.then = then
  BY DEF Frame, FrameFields
<1> HIDE DEF f
<1> QED
  BY <1>1, NoRequires DEF IsFrame, f

\* What was found for a requirement is a node.
LEMMA PreviousFacts ==
  ASSUME Typed, stack # <<>>, Top.todo # <<>>
  PROVE  /\ RequireKey \in Key /\ RequireContext \in Context
         /\ Previous \in Node \cup {None} /\ None \notin Node
         /\ Previous # None => KeyOf(Previous) = RequireKey
<1>1. TypedNode(nodes, Self) /\ Self = nodes[Top.node] /\ IsList(nodes)
  BY TopFacts DEF Typed, IsGraph
<1>2. Require.name \in Name
  BY AdvancedFacts DEF Requirement
<1>3. RequireContext \in Context
  BY <1>1 DEF RequireContext, Context, TypedNode, Key
<1>4. RequireKey \in Key
  BY <1>2, <1>3 DEF RequireKey, Key
<1>5. IsDict(nodes, Self.public_deps)
  BY <1>1 DEF TypedNode
<1> QED
  BY <1>1, <1>3, <1>4, <1>5, NoneIsNoNode DEF Previous, IsDict, KeyIn, KeyOf, Node

LEMMA PublicIsNode ==
  ASSUME NEW n \in Node, \A m \in Node : \A e \in nodes[m].edges : e.dst \in Node
  PROVE  Closure(n) \subseteq Node /\ \A m \in Node : Public(m) \subseteq Node
BY DEF Closure, Public, Reached, Direct

\* The options that a node has in the end.
LEMMA ActualFacts ==
  ASSUME Typed, NEW n \in Node, NEW others \in [Name -> Value \cup {None}]
  PROVE  Actual(n, others) \in [Name -> Value \cup {None}]
<1>1. \A m \in Node : TypedNode(nodes, nodes[m])
  BY DEF Typed, IsGraph, IsNode, Node
<1>2. \A m \in Node : \A e \in nodes[m].edges : e.dst \in Node
  BY <1>1 DEF TypedNode, Node
<1>3. Closure(n) \subseteq Node
  BY <1>2, PublicIsNode
<1> DEFINE found(k) == {d \in Closure(n) \ {n} : nodes[d].name = k}
           value(k) == IF found(k) = {} THEN others[k] ELSE nodes[CHOOSE d \in found(k) : TRUE].option
<1>4. ASSUME NEW k \in Name PROVE value(k) \in Value \cup {None}
  <2>1. CASE found(k) = {}
    BY <2>1
  <2>2. CASE found(k) # {}
    <3>1. (CHOOSE d \in found(k) : TRUE) \in found(k)
      BY <2>2
    <3>2. (CHOOSE d \in found(k) : TRUE) \in Node
      BY <1>3, <3>1
    <3> HIDE DEF found
    <3> QED
      BY <1>1, <2>2, <3>2 DEF TypedNode
  <2> QED
    BY <2>1, <2>2
<1>5. Actual(n, others) = [k \in Name |-> value(k)]
  BY DEF Actual
<1> HIDE DEF value
<1> QED
  BY <1>4, <1>5

\* Nothing but the options of dependencies is other than it was.
LEMMA EvaluatedFacts ==
  ASSUME Typed
  PROVE  /\ IsGraph(Evaluated) /\ Len(Evaluated) = Len(nodes) /\ DOMAIN Evaluated = Node
         /\ \A n \in Node : Same(Evaluated[n], nodes[n], {"deps", "depsModified", "frozen"})
<1> DEFINE nt == Evaluated
           deps(n) == Actual(n, NoOptions)
<1>1. \A n \in Node : TypedNode(nodes, nodes[n])
  BY DEF Typed, IsGraph, IsNode, Node
<1>2. nt = [n \in Node |-> IF nodes[n].frozen THEN nodes[n]
                           ELSE [nodes[n] EXCEPT !.deps = deps(n), !.depsModified = {}, !.frozen = TRUE]]
  BY DEF Evaluated
<1>3. \A n \in Node : deps(n) \in [Name -> Value \cup {None}]
  BY ActualFacts DEF NoOptions
<1> HIDE DEF nt, deps
<1>4. ASSUME NEW n \in Node
      PROVE  Same(nt[n], nodes[n], {"deps", "depsModified", "frozen"}) /\ TypedNode(nodes, nt[n])
  <2>1. nodes[n] = [f \in NodeFields |-> nodes[n][f]]
    BY <1>1 DEF TypedNode
  <2>2. CASE nodes[n].frozen
    <3>1. nt[n] = nodes[n]
      BY <1>2, <2>2
    <3> QED
      BY <1>1, <2>1, <3>1 DEF Same
  <2>3. CASE ~nodes[n].frozen
    <3>1. nt[n] = [nodes[n] EXCEPT !.deps = deps(n), !.depsModified = {}, !.frozen = TRUE]
      BY <1>2, <2>3
    <3>2. /\ Same(nt[n], nodes[n], {"deps", "depsModified", "frozen"}) /\ nt[n].deps = deps(n)
         /\ nt[n].depsModified = {}
      BY <2>1, <3>1 DEF Same, NodeFields
    <3>3. nt[n].frozen = TRUE
      BY <2>1, <3>1 DEF NodeFields
    <3>4. \A f \in NodeFields \ {"deps", "depsModified", "frozen"} : nt[n][f] = nodes[n][f]
      BY <3>2 DEF Same
    <3>5. /\ nt[n].name = nodes[n].name /\ nt[n].context = nodes[n].context
          /\ nt[n].requires = nodes[n].requires /\ nt[n].option = nodes[n].option
          /\ nt[n].edges = nodes[n].edges
          /\ nt[n].inverse = nodes[n].inverse /\ nt[n].ancestors = nodes[n].ancestors
          /\ nt[n].public_deps = nodes[n].public_deps /\ nt[n].public_closure = nodes[n].public_closure
          /\ nt[n].transitive = nodes[n].transitive
      BY <3>4 DEF NodeFields
    <3>6. nt[n].modified = nodes[n].modified
      BY <3>4 DEF NodeFields
    <3>7. nt[n].modified \in BOOLEAN /\ nt[n].frozen \in BOOLEAN
      BY <1>1, <3>3, <3>6 DEF TypedNode
    <3>8. nt[n] = [f \in NodeFields |-> nt[n][f]]
      BY <3>2 DEF Same
    <3>9. nt[n].deps \in [Name -> Value \cup {None}] /\ TypedNode(nodes, nodes[n])
      BY <1>1, <1>3, <3>2
    <3>10. TypedNode(nodes, nt[n])
      BY <3>2, <3>5, <3>7, <3>8, <3>9 DEF TypedNode
    <3> QED
      BY <3>2, <3>10
  <2> QED
    BY <2>2, <2>3
<1>5. IsGraph(nt) /\ Len(nt) = Len(nodes) /\ DOMAIN nt = DOMAIN nodes
  <2>1. nt = [n \in DOMAIN nodes |-> nt[n]]
    BY <1>2 DEF Node
  <2>2. \A n \in Node : nt[n].name = nodes[n].name /\ nt[n].context = nodes[n].context
                        /\ nt[n].version = nodes[n].version
    BY <1>4 DEF Same, NodeFields
  <2>3. IsGraph(nodes)
    BY DEF Typed
  <2> QED
    BY <1>4, <2>1, <2>2, <2>3, GraphKept DEF Node
<1> QED
  BY <1>4, <1>5 DEF nt, Node

\* Types are kept by what changes nodes but not their recipes, and frames.
LEMMA TypesKept ==
  ASSUME Typed, UNCHANGED <<world, recipes, outcome>>, extended' \in 0..World.extends,
         IsGraph(nodes'), Len(nodes') = Len(nodes), DOMAIN nodes' = Node,
         \A n \in Node : nodes'[n].name = nodes[n].name /\ nodes'[n].recipe = nodes[n].recipe,
         IsList(stack'), \A i \in DOMAIN stack' : IsFrame(nodes, stack'[i])
  PROVE  Typed'
<1>1. \A i \in DOMAIN stack' : IsFrame(nodes', stack'[i])
  BY FramesKept DEF Node
<1>2. World' = World /\ Node' = Node
  BY DEF World, Node
<1>3. \A n \in Node : nodes'[n].recipe \in World.recipes[nodes'[n].name]
  BY DEF Typed
<1>4. /\ world' \in DOMAIN Worlds /\ outcome' \in Outcomes /\ Len(nodes') \in 1..MaxNodes
      /\ \A k \in Name : \A v : <<k, v>> \in DOMAIN recipes' => recipes'[<<k, v>>] \in World.recipes[k]
  BY DEF Typed
<1> QED
  BY <1>1, <1>2, <1>3, <1>4 DEF Typed

LEMMA TypedFails ==
  ASSUME Typed, NEW why \in Outcomes, Fails(why)
  PROVE  Typed'
<1>1. World' = World /\ Node' = Node
  BY DEF World, Node, Fails
<1> QED
  BY <1>1 DEF Typed, Fails

LEMMA TypedGetNodeRequirements ==
  ASSUME Typed, GetNodeRequirements
  PROVE  Typed'
<1>0. stack # <<>> /\ UNCHANGED <<world, recipes, outcome, extended>>
  BY DEF GetNodeRequirements, Configuring, Running
<1>1. PICK f : Asking(f) /\ IsFrame(nodes, f) /\ stack' = Append(Front(stack), f)
  BY AskingFacts
<1>2. IsList(stack') /\ \A i \in DOMAIN stack' : IsFrame(nodes, stack'[i])
  BY <1>0, <1>1, TopReplaced DEF Typed
<1>3. Configures(nodes')
  BY GetNodeRequirementsFacts
<1>4. \A n \in Node : nodes'[n].name = nodes[n].name /\ nodes'[n].recipe = nodes[n].recipe
  BY <1>3 DEF Configures, Same, Asks, NodeFields, Self
<1>5. extended' \in 0..World.extends
  BY <1>0 DEF Typed
<1> QED
  BY <1>0, <1>2, <1>3, <1>4, <1>5, TypesKept DEF Configures

LEMMA TypedPassOverride ==
  ASSUME Typed, PassOverride
  PROVE  Typed'
<1>1. stack # <<>> /\ Top.todo # <<>> /\ UNCHANGED <<world, recipes, nodes, outcome, extended>>
      /\ stack' = Advanced
  BY DEF PassOverride, AtRequire, Running
<1>2. IsList(stack') /\ \A i \in DOMAIN stack' : IsFrame(nodes, stack'[i])
  BY <1>1, AdvancedFacts
<1>3. /\ extended' \in 0..World.extends /\ IsGraph(nodes') /\ Len(nodes') = Len(nodes)
      /\ DOMAIN nodes' = Node
      /\ \A n \in Node : nodes'[n].name = nodes[n].name /\ nodes'[n].recipe = nodes[n].recipe
  BY <1>1 DEF Typed, Node
<1> QED
  BY <1>1, <1>2, <1>3, TypesKept

\* The requirement that is expanded.
LEMMA ExpandingFacts ==
  ASSUME Typed, Expanding
  PROVE  /\ stack # <<>> /\ Top.todo # <<>> /\ outcome = "expanding" /\ Top.phase = "expand"
         /\ Require \in Requirement /\ Require.kind # "override"
         /\ IsNew \/ Previous \in Node
<1>1. stack # <<>> /\ Top.todo # <<>> /\ outcome = "expanding" /\ Top.phase = "expand"
      /\ Require.kind # "override"
  BY DEF Expanding, AtRequire, Running
<1>2. Require \in Requirement
  BY <1>1, AdvancedFacts
<1>3. IsNew \/ Previous \in Node
  BY <1>1, PreviousFacts DEF IsNew
<1> QED
  BY <1>1, <1>2, <1>3

\* _create_new_node, ...
LEMMA CreateNodeFacts ==
  ASSUME Typed, CreateNode
  PROVE  \E r \in World.recipes[Require.name] :
           /\ Grown(nodes', r) /\ IsRequires(r.requires)
           /\ r.options \in [Name -> Value \cup {None}]
           /\ stack' = Append(Advanced, Frame(New, Top.reqs, Top.options,
                                              IF IsPublic THEN Top.node ELSE None))
           /\ recipes' = [k \in DOMAIN recipes \cup {<<Require.name, Require.version>>} |->
                            IF k = <<Require.name, Require.version>> THEN r ELSE recipes[k]]
<1> DEFINE ref == <<Require.name, Require.version>>
<1>1. /\ Expanding /\ Available
      /\ \E r \in IF ref \in DOMAIN recipes THEN {recipes[ref]} ELSE World.recipes[Require.name] :
           /\ recipes' = [k \in DOMAIN recipes \cup {ref} |-> IF k = ref THEN r ELSE recipes[k]]
           /\ ExpandNew(r)
  BY DEF CreateNode
<1>2. stack # <<>> /\ Top.todo # <<>> /\ Require.name \in Name
  BY <1>1, ExpandingFacts DEF Requirement
<1>3. PICK r \in IF ref \in DOMAIN recipes THEN {recipes[ref]} ELSE World.recipes[Require.name] :
        /\ recipes' = [k \in DOMAIN recipes \cup {ref} |-> IF k = ref THEN r ELSE recipes[k]]
        /\ ExpandNew(r)
  BY <1>1
<1>4. r \in World.recipes[Require.name]
  BY <1>2, <1>3 DEF Typed
<1>5. IsRequires(r.requires) /\ r.options \in [Name -> Value \cup {None}]
  BY <1>2, <1>4, RecipeFacts DEF Typed
<1>6. Require.version \in Version
  BY <1>1, WorldFacts DEF Available, Typed
<1>7. Grown(nodes', r)
  BY <1>2, <1>3, <1>5, <1>6, ExpandNewFacts
<1>8. stack' = Append(Advanced, Frame(New, Top.reqs, Top.options,
                                      IF IsPublic THEN Top.node ELSE None))
  BY <1>3 DEF ExpandNew, New, IsPublic
<1> QED
  BY <1>3, <1>4, <1>5, <1>7, <1>8

LEMMA TypedCreateNode ==
  ASSUME Typed, CreateNode
  PROVE  Typed'
<1>1. PICK r \in World.recipes[Require.name] :
           /\ Grown(nodes', r) /\ IsRequires(r.requires)
           /\ r.options \in [Name -> Value \cup {None}]
           /\ stack' = Append(Advanced, Frame(New, Top.reqs, Top.options,
                                              IF IsPublic THEN Top.node ELSE None))
           /\ recipes' = [k \in DOMAIN recipes \cup {<<Require.name, Require.version>>} |->
                            IF k = <<Require.name, Require.version>> THEN r ELSE recipes[k]]
  BY CreateNodeFacts
<1>2. Expanding /\ UNCHANGED <<world, outcome, extended>> /\ Len(nodes) < MaxNodes
  BY DEF CreateNode
<1>3. stack # <<>> /\ Top.todo # <<>> /\ Require.name \in Name
  BY <1>2, ExpandingFacts DEF Requirement
<1>4. World' = World
  BY <1>2 DEF World
<1>5. IsGraph(nodes') /\ Len(nodes') = New /\ DOMAIN nodes' = Node \cup {New} /\ Node' = DOMAIN nodes'
  BY <1>1 DEF Grown, Node
<1>6. Len(nodes') \in 1..MaxNodes
  BY <1>2, <1>5, WorldAssumption DEF Typed, New
<1>7. \A n \in DOMAIN nodes' : nodes'[n].recipe \in World.recipes[nodes'[n].name]
  <2>1. \A n \in Node : nodes'[n].recipe = nodes[n].recipe /\ nodes'[n].name = nodes[n].name
    <3>1. \A n \in Node : Same(nodes'[n], nodes[n], {"public_closure", "public_deps", "edges", "transitive"})
      BY <1>1 DEF Grown
    <3> QED
      BY <3>1 DEF Same, NodeFields
  <2>2. nodes'[New].recipe \in World.recipes[nodes'[New].name]
    BY <1>1 DEF Grown
  <2> QED
    BY <1>5, <2>1, <2>2 DEF Typed
<1> DEFINE f == Frame(New, Top.reqs, Top.options, IF IsPublic THEN Top.node ELSE None)
<1>8. IsFrame(nodes', f)
  <2>1. IsFrame(nodes, Top)
    BY <1>3, TopFacts
  <2>2. /\ New \in DOMAIN nodes' /\ DOMAIN Top.reqs \subseteq Name
        /\ \A k \in DOMAIN Top.reqs : Top.reqs[k] \in Requirement
        /\ Top.options \in [Name -> Value \cup {None}]
        /\ (IF IsPublic THEN Top.node ELSE None) \in DOMAIN nodes' \cup {None}
    BY <1>5, <2>1 DEF IsFrame, Node
  <2> QED
    BY <2>2, FrameMade
<1> HIDE DEF f
<1>9. IsList(stack') /\ \A i \in DOMAIN stack' : IsFrame(nodes', stack'[i])
  <2>1. IsList(Advanced) /\ \A i \in DOMAIN Advanced : IsFrame(nodes, Advanced[i])
    BY <1>3, AdvancedFacts
  <2>2. stack' = Append(Advanced, f)
    BY <1>1 DEF f
  <2>3. \A i \in DOMAIN Advanced : IsFrame(nodes', Advanced[i])
    BY <1>5, <2>1, FramesKept DEF Node
  <2> QED
    BY <1>8, <2>1, <2>2, <2>3, ListAppend
<1>10. \A k \in Name : \A v : <<k, v>> \in DOMAIN recipes' => recipes'[<<k, v>>] \in World.recipes[k]
  BY <1>1, <1>3 DEF Typed
<1> QED
  BY <1>2, <1>4, <1>5, <1>6, <1>7, <1>9, <1>10 DEF Typed

LEMMA CloseDiamondFacts ==
  ASSUME Typed, CloseDiamond
  PROVE  /\ stack # <<>> /\ Top.todo # <<>> /\ Previous \in Node /\ Linked(nodes')
         /\ nodes[Previous].version = Require.version
         /\ stack' = IF MustRecurse THEN Append(Advanced, Frame(Previous, Top.reqs, Top.options, None))
                     ELSE Advanced
         /\ UNCHANGED <<world, recipes, outcome, extended>>
<1>1. Expanding /\ ~IsNew
  BY DEF CloseDiamond
<1>2. stack # <<>> /\ Top.todo # <<>> /\ Previous \in Node
  BY <1>1, ExpandingFacts
<1>3. Linked(nodes')
  BY <1>2, DiamondFacts
<1> QED
  BY <1>2, <1>3 DEF CloseDiamond

LEMMA TypedCloseDiamond ==
  ASSUME Typed, CloseDiamond
  PROVE  Typed'
<1>1. /\ stack # <<>> /\ Top.todo # <<>> /\ Previous \in Node /\ Linked(nodes')
      /\ stack' = IF MustRecurse THEN Append(Advanced, Frame(Previous, Top.reqs, Top.options, None))
                  ELSE Advanced
      /\ UNCHANGED <<world, recipes, outcome, extended>>
  BY CloseDiamondFacts
<1>2. IsFrame(nodes, Top)
  BY <1>1, TopFacts
<1> DEFINE f == Frame(Previous, Top.reqs, Top.options, None)
<1>3. IsFrame(nodes, f)
  <2>1. /\ Previous \in DOMAIN nodes /\ DOMAIN Top.reqs \subseteq Name
        /\ \A k \in DOMAIN Top.reqs : Top.reqs[k] \in Requirement
        /\ Top.options \in [Name -> Value \cup {None}] /\ None \in DOMAIN nodes \cup {None}
    BY <1>1, <1>2 DEF IsFrame, Node
  <2> QED
    BY <2>1, FrameMade
<1> HIDE DEF f
<1>4. IsList(Advanced) /\ \A i \in DOMAIN Advanced : IsFrame(nodes, Advanced[i])
  BY <1>1, AdvancedFacts
<1>5. IsList(stack') /\ \A i \in DOMAIN stack' : IsFrame(nodes, stack'[i])
  <2>1. CASE stack' = Advanced
    BY <1>4, <2>1
  <2>2. CASE stack' = Append(Advanced, f)
    BY <1>3, <1>4, <2>2, ListAppend
  <2> QED
    BY <1>1, <2>1, <2>2 DEF f
<1>6. \A n \in Node : nodes'[n].name = nodes[n].name /\ nodes'[n].recipe = nodes[n].recipe
  <2>1. \A n \in Node : Same(nodes'[n], nodes[n], Links)
    BY <1>1 DEF Linked
  <2> QED
    BY <2>1 DEF Same, Links, NodeFields
<1>7. extended' \in 0..World.extends
  BY <1>1 DEF Typed
<1>8. IsGraph(nodes') /\ Len(nodes') = Len(nodes) /\ DOMAIN nodes' = Node
  BY <1>1 DEF Linked
<1> QED
  BY <1>1, <1>5, <1>6, <1>7, <1>8, TypesKept

LEMMA ReturnFacts ==
  ASSUME Typed, Return
  PROVE  /\ stack # <<>> /\ Top.todo = <<>> /\ stack' = Front(stack) /\ Top.phase = "expand"
         /\ UNCHANGED <<world, recipes, outcome, extended>>
         /\ Top.then \in Node \cup {None} /\ None \notin Node
         /\ Top.then = None => nodes' = nodes
         /\ Top.then \in Node => TookOver(nodes', nodes, Top.then, Top.node)
<1>1. /\ stack # <<>> /\ Top.todo = <<>> /\ stack' = Front(stack) /\ Top.phase = "expand"
      /\ UNCHANGED <<world, recipes, outcome, extended>>
      /\ nodes' = IF Top.then = None THEN nodes ELSE TakeOver(nodes, Top.then, Top.node)
  BY DEF Return, Running
<1>2. /\ Top.then \in Node \cup {None} /\ Top.node \in Node /\ IsGraph(nodes)
      /\ None \notin Node
  BY <1>1, TopFacts, NoneIsNoNode DEF IsFrame, Node, Typed, IsGraph
<1>3. ASSUME Top.then \in Node PROVE TookOver(nodes', nodes, Top.then, Top.node)
  <2>1. TookOver(TakeOver(nodes, Top.then, Top.node), nodes, Top.then, Top.node)
    BY <1>2, <1>3, TakeOverFacts DEF Node
  <2> QED
    BY <1>1, <1>2, <1>3, <2>1
<1> QED
  BY <1>1, <1>2, <1>3

LEMMA TypedReturn ==
  ASSUME Typed, Return
  PROVE  Typed'
<1>1. /\ stack # <<>> /\ stack' = Front(stack) /\ UNCHANGED <<world, recipes, outcome, extended>>
      /\ Top.then \in Node \cup {None}
      /\ Top.then = None => nodes' = nodes
      /\ Top.then \in Node => TookOver(nodes', nodes, Top.then, Top.node)
  BY ReturnFacts
<1>2. IsList(stack') /\ \A i \in DOMAIN stack' : IsFrame(nodes, stack'[i])
  <2>1. IsList(stack') /\ \A i \in DOMAIN stack' : i \in DOMAIN stack /\ stack'[i] = stack[i]
    BY <1>1, ListFront, ListFacts DEF Typed
  <2> QED
    BY <2>1 DEF Typed
<1>3. /\ IsGraph(nodes') /\ Len(nodes') = Len(nodes) /\ DOMAIN nodes' = Node
      /\ \A n \in Node : nodes'[n].name = nodes[n].name /\ nodes'[n].recipe = nodes[n].recipe
  <2>1. CASE Top.then = None
    BY <1>1, <2>1 DEF Typed, Node
  <2>2. CASE Top.then \in Node
    BY <1>1, <2>2 DEF TookOver, Same, NodeFields, Node
  <2> QED
    BY <1>1, <2>1, <2>2
<1>4. extended' \in 0..World.extends
  BY <1>1 DEF Typed
<1> QED
  BY <1>1, <1>2, <1>3, <1>4, TypesKept

LEMMA TypedExtendBuildRequires ==
  ASSUME Typed, NEW n \in Node, NEW req \in BuildRequirement, ExtendBuildRequires(n, req)
  PROVE  Typed'
<1>1. /\ stack = <<>> /\ extended < World.extends /\ extended' = extended + 1 /\ nodes' = Evaluated
      /\ UNCHANGED <<world, recipes, outcome>>
  BY DEF ExtendBuildRequires
<1> DEFINE options == Actual(n, nodes[n].deps)
           frame == Frame(n, NoReqs, options, None)
           todo == <<req>>
           f == [frame EXCEPT !.phase = "expand", !.todo = todo]
<1>2. stack' = <<f>>
  BY DEF ExtendBuildRequires
<1>3. TypedNode(nodes, nodes[n])
  BY DEF Typed, IsGraph, IsNode, Node
<1>4. options \in [Name -> Value \cup {None}]
  BY <1>3, ActualFacts DEF TypedNode
<1>5. req \in Requirement
  <2>1. World.local \cup World.remote \subseteq Version
    BY WorldFacts DEF Typed
  <2> QED
    BY <2>1 DEF BuildRequirement, Requirement, Kind
<1>6. IsRequires(todo)
  <2>1. Len(todo) = 1 /\ DOMAIN todo = 1..1 /\ todo[1] = req /\ todo = [i \in 1..1 |-> todo[i]]
    OBVIOUS
  <2> HIDE DEF todo
  <2>2. IsList(todo)
    BY <2>1, ListOf
  <2>3. \A i \in DOMAIN todo : todo[i] = req
    BY <2>1
  <2> QED
    BY <1>5, <2>2, <2>3 DEF IsRequires
<1> HIDE DEF options, todo
<1>7. /\ f = [x \in FrameFields |-> f[x]] /\ f.node = n /\ f.phase = "expand"
      /\ f.todo = todo /\ f.reqs = NoReqs /\ f.options = options /\ f.then = None
  BY DEF Frame, FrameFields
<1> HIDE DEF f
<1>8. IsFrame(nodes, f)
  <2>1. DOMAIN NoReqs = {}
    BY DEF NoReqs
  <2> QED
    BY <1>4, <1>6, <1>7, <2>1 DEF IsFrame, Node
<1>9. IsList(stack') /\ \A i \in DOMAIN stack' : IsFrame(nodes, stack'[i])
  <2>1. Len(stack') = 1 /\ DOMAIN stack' = 1..1 /\ stack'[1] = f /\ stack' = [i \in 1..1 |-> stack'[i]]
    BY <1>2
  <2>2. IsList(stack')
    BY <2>1, ListOf
  <2>3. \A i \in DOMAIN stack' : stack'[i] = f
    BY <2>1
  <2> QED
    BY <1>8, <2>2, <2>3
<1>10. extended' \in 0..World.extends
  <2>1. World.extends \in Nat
    BY WorldFacts DEF Typed
  <2> QED
    BY <1>1, <2>1 DEF Typed
<1>11. /\ IsGraph(nodes') /\ Len(nodes') = Len(nodes) /\ DOMAIN nodes' = Node
       /\ \A m \in Node : nodes'[m].name = nodes[m].name /\ nodes'[m].recipe = nodes[m].recipe
  BY <1>1, EvaluatedFacts DEF Same, NodeFields
<1> QED
  BY <1>1, <1>9, <1>10, <1>11, TypesKept

\* Types are kept by every step.
LEMMA TypedNext == Typed /\ [Next]_vars => Typed'
<1> SUFFICES ASSUME Typed, [Next]_vars PROVE Typed'
  OBVIOUS
<1>1. CASE UNCHANGED vars
  <2>1. World' = World /\ Node' = Node
    BY <1>1 DEF vars, World, Node
  <2> QED
    BY <1>1, <2>1 DEF vars, Typed
<1>2. CASE \E n \in Node, req \in BuildRequirement : ExtendBuildRequires(n, req)
  BY <1>2, TypedExtendBuildRequires
<1>3. CASE \E why \in Outcomes : Fails(why)
  BY <1>3, TypedFails
<1>4. CASE GetNodeRequirements \/ PassOverride \/ CreateNode \/ CloseDiamond \/ Return
  BY <1>4, TypedGetNodeRequirements, TypedPassOverride, TypedCreateNode, TypedCloseDiamond, TypedReturn
<1> QED
  BY <1>1, <1>2, <1>3, <1>4 DEF Next, Step, Outcomes, RefuseOptions, RefuseRange, RefuseRequires, Loop, Missing, Conflict

\* Typed is an inductive invariant.
LEMMA IsTyped == Spec => []Typed
<1> QED
  BY TypedInit, TypedNext, PTL DEF Spec

\* Every reachable state of the resolution of a graph is of its type, for every
\* world: load_graph and extend_build_requires (graph_builder.py).
THEOREM TypeCorrect == Spec => []TypeOK
<1>1. ASSUME Typed PROVE TypeOK
  <2>1. ASSUME NEW n \in Node
        PROVE  /\ KeyOf(n) \in Key /\ nodes[n].version \in IF n = 1 THEN {None} ELSE Version
               /\ Range(nodes[n].requires) \subseteq Requirement
               /\ nodes[n].option \in Value /\ nodes[n].frozen \in BOOLEAN
               /\ nodes[n].deps \in [Name -> Value \cup {None}]
               /\ nodes[n].edges \subseteq [dst : Node, name : Name, kind : Kind]
               /\ {nodes[n].public_deps, nodes[n].public_closure} \subseteq [Key -> Node \cup {None}]
               /\ nodes[n].transitive \in [Name \cup {Root} -> Node \cup {None}]
               /\ nodes[n].inverse \subseteq Node /\ nodes[n].ancestors \subseteq Key
    <3>1. TypedNode(nodes, nodes[n]) /\ nodes[n].version \in IF n = 1 THEN {None} ELSE Version
      BY <1>1 DEF Typed, IsGraph, IsNode, Node
    <3>2. Range(nodes[n].requires) \subseteq Requirement
      BY <3>1 DEF TypedNode, IsRequires, Range
    <3>3. nodes[n].frozen \in BOOLEAN
      BY <3>1 DEF TypedNode
    <3>4. {nodes[n].public_deps, nodes[n].public_closure} \subseteq [Key -> Node \cup {None}]
          /\ nodes[n].transitive \in [Name \cup {Root} -> Node \cup {None}]
      BY <3>1 DEF TypedNode, IsDict, IsNames, Node
    <3>5. /\ KeyOf(n) \in Key /\ nodes[n].option \in Value
          /\ nodes[n].deps \in [Name -> Value \cup {None}]
          /\ nodes[n].edges \subseteq [dst : Node, name : Name, kind : Kind]
          /\ nodes[n].inverse \subseteq Node /\ nodes[n].ancestors \subseteq Key
      BY <3>1 DEF TypedNode, KeyOf, Node
    <3> QED
      BY <3>1, <3>2, <3>3, <3>4, <3>5
  <2> QED
    BY <1>1, <2>1 DEF TypeOK, Typed, Outcomes
<1> QED
  BY <1>1, IsTyped, PTL

-----------------------------------------------------------------------------
(* Graphs of which no requirement is private, or for a build.  Of a graph, *)
(* only sets of nodes and edges matter here, and of the calls, the nodes.  *)
(* A call is open if it is the first one for its node; those that expand a *)
(* node again are on top of them.                                          *)

Ordinary ==
  World.extends = 0 /\ \A k \in Name \cup {Root} : \A r \in World.recipes[k] :
    \A i \in DOMAIN r.requires : r.requires[i].kind # "private"

View(ns) ==
  [n \in DOMAIN ns |->
     [has |-> Has(ns, n), sees |-> Sees(ns, n), passes |-> Passes(ns, n), inverse |-> ns[n].inverse,
      ancestors |-> ns[n].ancestors, edges |-> ns[n].edges, name |-> ns[n].name,
      context |-> ns[n].context, recipe |-> ns[n].recipe]]

Calls(st) == [i \in DOMAIN st |-> [node |-> st[i].node, then |-> st[i].then]]

IsOpen(c, i) == i = 1 \/ c[i].then # None
OpenNodes(c) == {c[i].node : i \in {j \in DOMAIN c : IsOpen(c, j)}}
Below(c, i) == {c[j].node : j \in 1..(i - 1)}

\* Each call is for something that the ones below depend on.
CallsInOrder(g, c) ==
  /\ 1 \in DOMAIN c => c[1].node = 1 /\ c[1].then = None
  /\ \A i \in DOMAIN c :
       /\ c[i].node \in DOMAIN g
       /\ c[i].then # None => i # 1 /\ c[i].then = c[i - 1].node
       /\ ~IsOpen(c, i) => c[i].node \notin OpenNodes(c)
       /\ \A j \in 1..(i - 1) :
            (IsOpen(c, i) => IsOpen(c, j)) /\ c[i].node \in g[c[j].node].has \ {c[j].node}

NamesInOrder(g) ==
  /\ 1 \in DOMAIN g
  /\ \A n \in DOMAIN g : g[n].context = "host" /\ ((g[n].name = Root) <=> (n = 1))
  /\ \A n, m \in DOMAIN g : n # m => g[n].name # g[m].name

\* What a node has in its closure, sees and passes on, and who has it.
SetsInOrder(g, c) ==
  \A n \in DOMAIN g :
    /\ n \in g[n].passes /\ g[n].passes \subseteq g[n].has /\ g[n].has \subseteq g[n].sees
    /\ g[n].sees \subseteq DOMAIN g /\ g[n].inverse \subseteq DOMAIN g
    /\ \A x \in g[n].has : g[x].has \subseteq g[n].has /\ (n \in g[x].has => x = n)
    /\ \A x \in DOMAIN g : (x \in g[n].inverse) <=> (n \in g[x].has \ {x})
    /\ g[n].ancestors = {<<g[m].name, g[m].context>> : m \in g[n].inverse}
    /\ n \notin OpenNodes(c) => g[n].passes = g[n].has

\* A node that is being expanded sees every node, and will pass on what it has.
OpenInOrder(g, c) ==
  /\ g[1].inverse = {}
  /\ \A i \in DOMAIN c : IsOpen(c, i) =>
       /\ g[c[i].node].sees = DOMAIN g /\ g[c[i].node].inverse = Below(c, i)
       /\ g[c[i].node].has \subseteq g[c[i].node].passes
            \cup IF i + 1 \in DOMAIN c /\ IsOpen(c, i + 1) THEN g[c[i + 1].node].has ELSE {}
       /\ \A e \in g[c[i].node].edges :
            e.dst \in OpenNodes(c) => i + 1 \in DOMAIN c /\ e.dst = c[i + 1].node

RequiresName(s, k) == \E i \in DOMAIN s : s[i].name = k /\ s[i].kind = "normal"

IsClosed(g, set) == \A m \in set : \A e \in g[m].edges : e.dst \in set

\* Edges are what closures are made of, and nothing else is in a closure.
EdgesInOrder(g) ==
  \A n \in DOMAIN g :
    /\ \A e \in g[n].edges :
         /\ e.dst \in g[n].has \ {n} /\ e.name = g[e.dst].name /\ e.kind = "normal"
         /\ RequiresName(g[n].recipe.requires, e.name)
    /\ \A x \in g[n].has \ {n} : \E e \in g[n].edges : x \in g[e.dst].has
    /\ \A set \in SUBSET DOMAIN g : n \in set /\ IsClosed(g, set) => g[n].has \subseteq set

Structure(g, c) ==
  /\ CallsInOrder(g, c) /\ NamesInOrder(g) /\ SetsInOrder(g, c) /\ OpenInOrder(g, c)
  /\ EdgesInOrder(g)

\* The calls, of which only those up to some are open.
LEMMA CallFacts ==
  ASSUME NEW g, NEW c, NEW size \in Nat, DOMAIN c = 1..size, Structure(g, c)
  PROVE  /\ OpenNodes(c) \subseteq DOMAIN g
         /\ \A i \in DOMAIN c : IsOpen(c, i) =>
              c[i].node \in OpenNodes(c) /\ Below(c, i) \subseteq OpenNodes(c)
         /\ \A i, j \in DOMAIN c : i # j => c[i].node # c[j].node
<1>1. OpenNodes(c) \subseteq DOMAIN g
  BY DEF Structure, CallsInOrder, OpenNodes
<1>2. ASSUME NEW i \in DOMAIN c, IsOpen(c, i)
      PROVE  c[i].node \in OpenNodes(c) /\ Below(c, i) \subseteq OpenNodes(c)
  <2>1. \A j \in 1..(i - 1) : j \in DOMAIN c /\ IsOpen(c, j)
    BY <1>2 DEF Structure, CallsInOrder
  <2> QED
    BY <1>2, <2>1 DEF OpenNodes, Below
<1>3. ASSUME NEW i \in DOMAIN c, NEW j \in DOMAIN c, i # j PROVE c[i].node # c[j].node
  <2>1. CASE j < i
    <3>1. j \in 1..(i - 1)
      BY <2>1
    <3> QED
      BY <3>1 DEF Structure, CallsInOrder
  <2>2. CASE i < j
    <3>1. i \in 1..(j - 1)
      BY <2>2
    <3> QED
      BY <3>1 DEF Structure, CallsInOrder
  <2> QED
    BY <1>3, <2>1, <2>2
<1> QED
  BY <1>1, <1>2, <1>3

OpenAtTop(g, c, n) ==
  /\ \A i \in DOMAIN c : IsOpen(c, i)
  /\ n \in DOMAIN g /\ OpenNodes(c) = {n} \cup g[n].inverse
  /\ g[n].sees = DOMAIN g /\ g[n].has = g[n].passes
  /\ \A e \in g[n].edges : e.dst \notin OpenNodes(c)

\* The call on top, if it is open, is the last that is.
LEMMA OpenTop ==
  ASSUME NEW g, NEW c, NEW size \in Nat \ {0}, DOMAIN c = 1..size, Structure(g, c), IsOpen(c, size)
  PROVE  OpenAtTop(g, c, c[size].node)
<1> DEFINE n == c[size].node
<1>1. \A i \in DOMAIN c : IsOpen(c, i)
  <2>1. \A i \in DOMAIN c : i = size \/ i \in 1..(size - 1)
    OBVIOUS
  <2> QED
    BY <2>1 DEF Structure, CallsInOrder
<1>2. size \in DOMAIN c /\ size + 1 \notin DOMAIN c
  OBVIOUS
<1>3. n \in DOMAIN g /\ g[n].inverse = Below(c, size) /\ g[n].sees = DOMAIN g
      /\ g[n].has \subseteq g[n].passes
  BY <1>1, <1>2 DEF Structure, CallsInOrder, OpenInOrder
<1>4. g[n].passes \subseteq g[n].has
  BY <1>3 DEF Structure, SetsInOrder
<1>5. OpenNodes(c) = {n} \cup Below(c, size)
  <2>1. OpenNodes(c) = {c[i].node : i \in 1..size}
    BY <1>1 DEF OpenNodes
  <2>2. 1..size = (1..(size - 1)) \cup {size}
    OBVIOUS
  <2> QED
    BY <2>1, <2>2 DEF Below
<1>6. \A e \in g[n].edges : e.dst \notin OpenNodes(c)
  BY <1>1, <1>2 DEF Structure, OpenInOrder
<1> QED
  BY <1>1, <1>3, <1>4, <1>5, <1>6 DEF OpenAtTop

\* The graph with a new node, and the call that expands it.
Extends(h, g, n, m, edge) ==
  /\ DOMAIN h = DOMAIN g \cup {m} /\ m \notin DOMAIN g
  /\ \A y \in DOMAIN g :
       /\ h[y].has = g[y].has \cup IF y \in {n} \cup g[n].inverse THEN {m} ELSE {}
       /\ h[y].sees = g[y].sees \cup IF y \in {n} \cup g[n].inverse THEN {m} ELSE {}
       /\ h[y].passes = g[y].passes \cup IF y = n THEN {m} ELSE {}
       /\ h[y].edges = g[y].edges \cup IF y = n THEN {edge} ELSE {}
       /\ h[y].inverse = g[y].inverse /\ h[y].ancestors = g[y].ancestors
       /\ h[y].name = g[y].name /\ h[y].context = g[y].context /\ h[y].recipe = g[y].recipe
  /\ h[m].has = {m} /\ h[m].passes = {m} /\ h[m].sees = g[n].sees \cup {m} /\ h[m].edges = {}
  /\ h[m].inverse = {n} \cup g[n].inverse
  /\ h[m].ancestors = g[n].ancestors \cup {<<g[n].name, g[n].context>>}
  /\ h[m].context = "host" /\ h[m].name # Root /\ \A y \in DOMAIN g : g[y].name # h[m].name
  /\ edge.dst = m /\ edge.name = h[m].name /\ edge.kind = "normal"
  /\ RequiresName(g[n].recipe.requires, edge.name)

CallAdded(d, c, size, n, then) ==
  /\ DOMAIN d = 1..(size + 1) /\ \A i \in 1..size : d[i] = c[i]
  /\ d[size + 1].node = n /\ d[size + 1].then = then

OneMore(d, c, size, n, then) ==
  /\ DOMAIN d = DOMAIN c \cup {size + 1} /\ size + 1 \notin DOMAIN c
  /\ \A i \in DOMAIN c : d[i] = c[i] /\ (IsOpen(d, i) <=> IsOpen(c, i)) /\ Below(d, i) = Below(c, i)
  /\ Below(d, size + 1) = Below(c, size) \cup {c[size].node}
  /\ IsOpen(d, size + 1) <=> then # None
  /\ OpenNodes(d) = OpenNodes(c) \cup IF then = None THEN {} ELSE {n}

\* The calls that are open, with one more.
LEMMA OpenAdded ==
  ASSUME NEW c, NEW size \in Nat \ {0}, DOMAIN c = 1..size, NEW d, NEW n, NEW then,
         CallAdded(d, c, size, n, then)
  PROVE  OneMore(d, c, size, n, then)
<1>1. DOMAIN d = DOMAIN c \cup {size + 1} /\ size + 1 \notin DOMAIN c
  BY DEF CallAdded
<1>2. ASSUME NEW i \in DOMAIN c
      PROVE  d[i] = c[i] /\ (IsOpen(d, i) <=> IsOpen(c, i)) /\ Below(d, i) = Below(c, i)
  <2>1. \A j \in 1..(i - 1) : j \in 1..size
    OBVIOUS
  <2> QED
    BY <2>1 DEF CallAdded, Below, IsOpen
<1>3. IsOpen(d, size + 1) <=> then # None
  <2>1. size + 1 # 1
    OBVIOUS
  <2> QED
    BY <2>1 DEF CallAdded, IsOpen
<1>4. Below(d, size + 1) = Below(c, size) \cup {c[size].node}
  <2>1. 1..(size + 1 - 1) = (1..(size - 1)) \cup {size} /\ size \in DOMAIN c
    OBVIOUS
  <2>2. \A j \in 1..(size - 1) : j \in DOMAIN c
    OBVIOUS
  <2>3. \A j \in 1..(size + 1 - 1) : d[j] = c[j]
    BY <1>2, <2>1, <2>2
  <2> QED
    BY <2>1, <2>3 DEF Below
<1>5. OpenNodes(d) = OpenNodes(c) \cup IF then = None THEN {} ELSE {n}
  <2>1. {j \in DOMAIN d : IsOpen(d, j)}
          = {j \in DOMAIN c : IsOpen(c, j)} \cup IF then = None THEN {} ELSE {size + 1}
    BY <1>1, <1>2, <1>3
  <2>2. \A j \in {j \in DOMAIN c : IsOpen(c, j)} : d[j].node = c[j].node
    BY <1>2
  <2>3. d[size + 1].node = n
    BY DEF CallAdded
  <2>4. CASE then = None
    BY <2>1, <2>2, <2>4 DEF OpenNodes
  <2>5. CASE then # None
    BY <2>1, <2>2, <2>3, <2>5 DEF OpenNodes
  <2> QED
    BY <2>4, <2>5
<1> QED
  BY <1>1, <1>2, <1>3, <1>4, <1>5 DEF OneMore

\* A new node keeps the structure, ...
LEMMA StructureExtends ==
  ASSUME NEW g, NEW c, NEW size \in Nat \ {0}, DOMAIN c = 1..size, Structure(g, c), IsOpen(c, size),
         NEW h, NEW m, NEW edge, Extends(h, g, c[size].node, m, edge),
         NEW d, CallAdded(d, c, size, m, c[size].node), None \notin DOMAIN g
  PROVE  Structure(h, d)
<1> DEFINE n == c[size].node
<1>1. /\ \A i \in DOMAIN c : IsOpen(c, i)
      /\ n \in DOMAIN g /\ OpenNodes(c) = {n} \cup g[n].inverse
      /\ g[n].sees = DOMAIN g /\ g[n].has = g[n].passes
      /\ \A e \in g[n].edges : e.dst \notin OpenNodes(c)
  BY OpenTop DEF OpenAtTop
<1>2. /\ DOMAIN d = DOMAIN c \cup {size + 1} /\ size + 1 \notin DOMAIN c
      /\ \A i \in DOMAIN c : d[i] = c[i] /\ IsOpen(d, i) /\ Below(d, i) = Below(c, i)
      /\ Below(d, size + 1) = Below(c, size) \cup {n} /\ IsOpen(d, size + 1)
      /\ OpenNodes(d) = OpenNodes(c) \cup {m} /\ d[size + 1].node = m /\ d[size + 1].then = n
  <2>1. n # None
    BY <1>1
  <2>2. OneMore(d, c, size, m, n)
    BY OpenAdded
  <2>3. d[size + 1].node = m /\ d[size + 1].then = n
    BY DEF CallAdded
  <2> HIDE DEF n
  <2> QED
    BY <1>1, <2>1, <2>2, <2>3 DEF OneMore, n
<1>3. /\ OpenNodes(c) \subseteq DOMAIN g
      /\ \A i \in DOMAIN c : c[i].node \in OpenNodes(c) /\ Below(c, i) \subseteq OpenNodes(c)
      /\ \A i, j \in DOMAIN c : i # j => c[i].node # c[j].node
  BY <1>1, CallFacts
<1>4. size \in DOMAIN c /\ g[n].inverse = Below(c, size) /\ 1 \in DOMAIN c
  BY <1>1 DEF Structure, OpenInOrder
<1> DEFINE joining == {n} \cup g[n].inverse
<1>5. \A y \in DOMAIN g : (y \in joining) <=> (n \in g[y].has)
  <2>1. n \in g[n].has /\ \A x \in DOMAIN g : (x \in g[n].inverse) <=> (n \in g[x].has \ {x})
    BY <1>1 DEF Structure, SetsInOrder
  <2> QED
    BY <2>1
<1> HIDE DEF n
<1>6. DOMAIN h = DOMAIN g \cup {m} /\ m \notin DOMAIN g
  BY DEF Extends, n
<1>7. \A y \in DOMAIN g :
        /\ h[y].has = g[y].has \cup IF y \in joining THEN {m} ELSE {}
        /\ h[y].sees = g[y].sees \cup IF y \in joining THEN {m} ELSE {}
        /\ h[y].passes = g[y].passes \cup IF y = n THEN {m} ELSE {}
        /\ h[y].edges = g[y].edges \cup IF y = n THEN {edge} ELSE {}
        /\ h[y].inverse = g[y].inverse /\ h[y].ancestors = g[y].ancestors
        /\ h[y].name = g[y].name /\ h[y].context = g[y].context /\ h[y].recipe = g[y].recipe
  BY DEF Extends, n
<1>8. /\ h[m].has = {m} /\ h[m].passes = {m} /\ h[m].sees = g[n].sees \cup {m} /\ h[m].edges = {}
      /\ h[m].inverse = joining /\ h[m].ancestors = g[n].ancestors \cup {<<g[n].name, g[n].context>>}
      /\ h[m].context = "host" /\ h[m].name # Root /\ \A y \in DOMAIN g : g[y].name # h[m].name
      /\ edge.dst = m /\ edge.name = h[m].name /\ edge.kind = "normal"
      /\ RequiresName(g[n].recipe.requires, edge.name)
  BY DEF Extends, n
<1> HIDE DEF joining
<1>9. \A i \in DOMAIN c : c[i].node \in joining
  BY <1>1, <1>3 DEF joining
<1>10. CallsInOrder(h, d)
  <2>1. d[1].node = 1 /\ d[1].then = None
    BY <1>2, <1>4 DEF Structure, CallsInOrder
  <2>2. ASSUME NEW i \in DOMAIN c
        PROVE  /\ d[i].node \in DOMAIN h
               /\ d[i].then # None => i # 1 /\ d[i].then = d[i - 1].node
               /\ \A j \in 1..(i - 1) : d[i].node \in h[d[j].node].has \ {d[j].node}
    <3>1. \A j \in 1..(i - 1) : j \in DOMAIN c
      OBVIOUS
    <3>2. i # 1 => i - 1 \in DOMAIN c
      OBVIOUS
    <3>3. /\ c[i].node \in DOMAIN g /\ (c[i].then # None => i # 1 /\ c[i].then = c[i - 1].node)
          /\ \A j \in 1..(i - 1) : c[i].node \in g[c[j].node].has \ {c[j].node}
          /\ \A j \in DOMAIN c : c[j].node \in DOMAIN g
      BY DEF Structure, CallsInOrder
    <3>4. ASSUME NEW j \in 1..(i - 1) PROVE d[i].node \in h[d[j].node].has \ {d[j].node}
      <4>1. j \in DOMAIN c /\ c[j].node \in DOMAIN g /\ c[i].node \in g[c[j].node].has \ {c[j].node}
        BY <3>1, <3>3
      <4>2. g[c[j].node].has \subseteq h[c[j].node].has
        BY <1>7, <4>1
      <4> QED
        BY <1>2, <4>1, <4>2
    <3>5. d[i].node \in DOMAIN h
      BY <1>2, <1>6, <3>3
    <3>6. d[i].then # None => i # 1 /\ d[i].then = d[i - 1].node
      BY <1>2, <3>2, <3>3
    <3> QED
      BY <3>4, <3>5, <3>6
  <2>3. ASSUME NEW j \in DOMAIN c PROVE m \in h[d[j].node].has \ {d[j].node}
    <3>1. c[j].node \in DOMAIN g
      BY DEF Structure, CallsInOrder
    <3> QED
      BY <1>2, <1>6, <1>7, <1>9, <3>1
  <2>4. /\ d[size + 1].node \in DOMAIN h /\ size + 1 # 1 /\ d[size + 1].then = d[size + 1 - 1].node
        /\ \A j \in 1..(size + 1 - 1) : j \in DOMAIN c
    <3>1. size + 1 - 1 = size /\ size + 1 # 1
      OBVIOUS
    <3> QED
      BY <1>2, <1>4, <1>6, <3>1 DEF n
  <2> QED
    BY <1>2, <2>1, <2>2, <2>3, <2>4 DEF CallsInOrder
<1>11. NamesInOrder(h)
  <2>1. 1 \in DOMAIN g /\ m # 1
    BY <1>6 DEF Structure, NamesInOrder
  <2> QED
    BY <1>6, <1>7, <1>8, <2>1 DEF Structure, NamesInOrder
<1>12. SetsInOrder(h, d)
  <2>1. ASSUME NEW y \in DOMAIN g
        PROVE  /\ y \in g[y].passes /\ g[y].passes \subseteq g[y].has /\ g[y].has \subseteq g[y].sees
               /\ g[y].sees \subseteq DOMAIN g /\ g[y].inverse \subseteq DOMAIN g
               /\ \A x \in g[y].has : g[x].has \subseteq g[y].has /\ (y \in g[x].has => x = y)
               /\ \A x \in DOMAIN g : (x \in g[y].inverse) <=> (y \in g[x].has \ {x})
               /\ g[y].ancestors = {<<g[x].name, g[x].context>> : x \in g[y].inverse}
               /\ y \notin OpenNodes(c) => g[y].passes = g[y].has
    BY DEF Structure, SetsInOrder
  <2>2. ASSUME NEW y \in DOMAIN h
        PROVE  /\ y \in h[y].passes /\ h[y].passes \subseteq h[y].has /\ h[y].has \subseteq h[y].sees
               /\ h[y].sees \subseteq DOMAIN h /\ h[y].inverse \subseteq DOMAIN h
    <3>1. joining \subseteq DOMAIN g /\ n \in joining
      BY <1>1, <2>1 DEF joining
    <3> QED
      BY <1>6, <1>7, <1>8, <2>1, <3>1, <1>1
  <2>3. ASSUME NEW y \in DOMAIN h, NEW x \in h[y].has
        PROVE  h[x].has \subseteq h[y].has /\ (y \in h[x].has => x = y)
    <3>1. CASE y = m
      BY <1>8, <3>1, <2>3
    <3>2. CASE y \in DOMAIN g /\ x = m
      BY <1>6, <1>7, <1>8, <2>1, <2>3, <3>2
    <3>3. CASE y \in DOMAIN g /\ x # m
      <4>1. x \in g[y].has /\ x \in DOMAIN g
        BY <1>7, <2>1, <2>3, <3>3
      <4>2. x \in joining => y \in joining
        BY <1>5, <2>1, <3>3, <4>1
      <4> QED
        BY <1>6, <1>7, <2>1, <3>3, <4>1, <4>2
    <3> QED
      BY <1>6, <3>1, <3>2, <3>3
  <2>4. ASSUME NEW y \in DOMAIN h, NEW x \in DOMAIN h
        PROVE  (x \in h[y].inverse) <=> (y \in h[x].has \ {x})
    <3>1. CASE y = m /\ x = m
      <4>1. joining \subseteq DOMAIN g
        BY <1>1, <2>1 DEF joining
      <4> QED
        BY <1>6, <1>8, <3>1, <4>1
    <3>2. CASE y = m /\ x \in DOMAIN g
      BY <1>6, <1>7, <1>8, <2>1, <3>2
    <3>3. CASE y \in DOMAIN g /\ x = m
      BY <1>6, <1>7, <1>8, <2>1, <3>3
    <3>4. CASE y \in DOMAIN g /\ x \in DOMAIN g
      BY <1>6, <1>7, <2>1, <3>4
    <3> QED
      BY <1>6, <3>1, <3>2, <3>3, <3>4
  <2>5. ASSUME NEW y \in DOMAIN h
        PROVE  h[y].ancestors = {<<h[x].name, h[x].context>> : x \in h[y].inverse}
    <3>1. CASE y = m
      <4>1. g[n].ancestors = {<<g[x].name, g[x].context>> : x \in g[n].inverse}
        BY <1>1, <2>1
      <4>2. \A x \in joining : h[x].name = g[x].name /\ h[x].context = g[x].context
        BY <1>1, <1>7, <2>1 DEF joining
      <4>3. h[m].ancestors = {<<g[x].name, g[x].context>> : x \in joining}
        BY <1>8, <4>1 DEF joining
      <4>4. {<<g[x].name, g[x].context>> : x \in joining} = {<<h[x].name, h[x].context>> : x \in joining}
        BY <4>2
      <4> QED
        BY <1>8, <3>1, <4>3, <4>4
    <3>2. CASE y \in DOMAIN g
      <4>1. \A x \in g[y].inverse : h[x].name = g[x].name /\ h[x].context = g[x].context
        BY <1>7, <2>1, <3>2
      <4>2. {<<g[x].name, g[x].context>> : x \in g[y].inverse} = {<<h[x].name, h[x].context>> : x \in g[y].inverse}
        BY <4>1
      <4> QED
        BY <1>7, <2>1, <3>2, <4>2
    <3> QED
      BY <1>6, <3>1, <3>2
  <2>6. ASSUME NEW y \in DOMAIN h, y \notin OpenNodes(d) PROVE h[y].passes = h[y].has
    <3>1. y \in DOMAIN g /\ y \notin OpenNodes(c) /\ y # n
      BY <1>1, <1>2, <1>6, <2>6
    <3>2. y \notin joining
      BY <1>1, <3>1 DEF joining
    <3>3. h[y].passes = g[y].passes
      <4>1. h[y].passes = g[y].passes \cup IF y = n THEN {m} ELSE {}
        BY <1>7, <3>1
      <4> QED
        BY <3>1, <4>1
    <3>4. h[y].has = g[y].has
      <4>1. h[y].has = g[y].has \cup IF y \in joining THEN {m} ELSE {}
        BY <1>7, <3>1
      <4> QED
        BY <3>2, <4>1
    <3>5. g[y].passes = g[y].has
      BY <2>1, <3>1
    <3> QED
      BY <3>3, <3>4, <3>5
  <2> QED
    BY <2>2, <2>3, <2>4, <2>5, <2>6 DEF SetsInOrder
<1>13. OpenInOrder(h, d)
  <2>1. h[1].inverse = {}
    BY <1>7 DEF Structure, NamesInOrder, OpenInOrder
  <2>2. ASSUME NEW i \in DOMAIN c
        PROVE  /\ h[d[i].node].sees = DOMAIN h /\ h[d[i].node].inverse = Below(d, i)
               /\ h[d[i].node].has \subseteq h[d[i].node].passes \cup h[d[i + 1].node].has
               /\ \A e \in h[d[i].node].edges : e.dst \in OpenNodes(d) => e.dst = d[i + 1].node
    <3>1. /\ c[i].node \in DOMAIN g /\ g[c[i].node].sees = DOMAIN g
          /\ g[c[i].node].inverse = Below(c, i)
          /\ g[c[i].node].has \subseteq g[c[i].node].passes
               \cup IF i + 1 \in DOMAIN c THEN g[c[i + 1].node].has ELSE {}
          /\ \A e \in g[c[i].node].edges : e.dst \in OpenNodes(c) => i + 1 \in DOMAIN c /\ e.dst = c[i + 1].node
      BY <1>1 DEF Structure, CallsInOrder, OpenInOrder
    <3>2. h[d[i].node].sees = DOMAIN h /\ h[d[i].node].inverse = Below(d, i)
      BY <1>2, <1>6, <1>7, <1>9, <3>1
    <3>3. \A e \in g[c[i].node].edges : e.dst \in DOMAIN g
      BY <3>1 DEF Structure, EdgesInOrder, SetsInOrder
    <3>4. CASE i = size
      <4>1. i + 1 \notin DOMAIN c /\ d[i + 1].node = m
        BY <1>2, <3>4
      <4> QED
        BY <1>1, <1>2, <1>6, <1>7, <1>8, <3>1, <3>2, <3>3, <3>4, <4>1 DEF n
    <3>5. CASE i # size
      <4>1. i + 1 \in DOMAIN c /\ d[i + 1] = c[i + 1] /\ c[i].node # n /\ c[i + 1].node \in DOMAIN g
            /\ m \in h[c[i + 1].node].has
        <5>1. i + 1 \in DOMAIN c
          BY <3>5
        <5>2. c[i + 1].node \in DOMAIN g
          BY <5>1 DEF Structure, CallsInOrder
        <5> QED
          BY <1>2, <1>3, <1>4, <1>7, <1>9, <3>5, <5>1, <5>2 DEF n
      <4> QED
        BY <1>2, <1>6, <1>7, <3>1, <3>2, <3>3, <4>1
    <3> QED
      BY <3>4, <3>5
  <2>3. /\ h[d[size + 1].node].sees = DOMAIN h /\ h[d[size + 1].node].inverse = Below(d, size + 1)
        /\ h[d[size + 1].node].has \subseteq h[d[size + 1].node].passes
        /\ h[d[size + 1].node].edges = {}
    BY <1>1, <1>2, <1>4, <1>6, <1>8 DEF joining
  <2>4. \A i \in DOMAIN c : i + 1 \in DOMAIN d
    BY <1>2
  <2> QED
    BY <1>2, <2>1, <2>2, <2>3, <2>4 DEF OpenInOrder
<1>14. EdgesInOrder(h)
  <2>1. ASSUME NEW y \in DOMAIN g
        PROVE  /\ \A e \in g[y].edges :
                    /\ e.dst \in g[y].has \ {y} /\ e.name = g[e.dst].name /\ e.kind = "normal"
                    /\ RequiresName(g[y].recipe.requires, e.name)
               /\ \A x \in g[y].has \ {y} : \E e \in g[y].edges : x \in g[e.dst].has
               /\ \A set \in SUBSET DOMAIN g : y \in set /\ IsClosed(g, set) => g[y].has \subseteq set
               /\ g[y].has \subseteq DOMAIN g /\ y \in g[y].has
    BY DEF Structure, EdgesInOrder, SetsInOrder
  <2>2. ASSUME NEW y \in DOMAIN h, NEW e \in h[y].edges
        PROVE  /\ e.dst \in h[y].has \ {y} /\ e.name = h[e.dst].name /\ e.kind = "normal"
               /\ RequiresName(h[y].recipe.requires, e.name)
    <3>1. y \in DOMAIN g
      BY <1>6, <1>8, <2>2
    <3>2. CASE e \in g[y].edges
      BY <1>7, <2>1, <3>1, <3>2
    <3>3. CASE e \notin g[y].edges
      <4>1. y = n /\ e = edge
        BY <1>7, <2>2, <3>1, <3>3
      <4> QED
        BY <1>6, <1>7, <1>8, <3>1, <4>1 DEF joining
    <3> QED
      BY <3>2, <3>3
  <2>3. ASSUME NEW y \in DOMAIN h, NEW x \in h[y].has \ {y}
        PROVE  \E e \in h[y].edges : x \in h[e.dst].has
    <3>1. y \in DOMAIN g
      BY <1>6, <1>8, <2>3
    <3>2. CASE x # m
      <4>1. PICK e \in g[y].edges : x \in g[e.dst].has
        BY <1>7, <2>1, <2>3, <3>1, <3>2
      <4>2. e.dst \in DOMAIN g
        BY <2>1, <3>1, <4>1
      <4> QED
        BY <1>7, <3>1, <4>1, <4>2
    <3>3. CASE x = m /\ y = n
      <4>1. edge \in h[y].edges
        BY <1>7, <3>1, <3>3
      <4> QED
        BY <1>8, <3>3, <4>1
    <3>4. CASE x = m /\ y # n
      <4>1. n \in g[y].has \ {y}
        BY <1>5, <1>6, <1>7, <2>1, <2>3, <3>1, <3>4
      <4>2. PICK e \in g[y].edges : n \in g[e.dst].has
        BY <2>1, <3>1, <4>1
      <4>3. e.dst \in DOMAIN g
        BY <2>1, <3>1, <4>2
      <4>4. m \in h[e.dst].has
        BY <1>5, <1>7, <4>2, <4>3
      <4> QED
        BY <1>7, <3>1, <3>4, <4>2, <4>4
    <3> QED
      BY <3>2, <3>3, <3>4
  <2>4. ASSUME NEW y \in DOMAIN h, NEW set \in SUBSET DOMAIN h, y \in set, IsClosed(h, set)
        PROVE  h[y].has \subseteq set
    <3>1. CASE y = m
      BY <1>8, <2>4, <3>1
    <3>2. CASE y \in DOMAIN g
      <4> DEFINE old == set \cap DOMAIN g
      <4>1. IsClosed(g, old)
        <5> SUFFICES ASSUME NEW x \in old, NEW e \in g[x].edges PROVE e.dst \in old
          BY DEF IsClosed
        <5>1. e \in h[x].edges /\ e.dst \in DOMAIN g
          BY <1>7, <2>1
        <5> QED
          BY <2>4, <5>1 DEF IsClosed
      <4>2. g[y].has \subseteq old
        BY <2>1, <2>4, <3>2, <4>1
      <4>3. m \in h[y].has => m \in set
        <5> SUFFICES ASSUME m \in h[y].has PROVE m \in set
          OBVIOUS
        <5>1. n \in g[y].has
          BY <1>5, <1>6, <1>7, <2>1, <3>2
        <5>2. n \in set /\ n \in DOMAIN g /\ edge \in h[n].edges
          BY <1>1, <1>7, <4>2, <5>1
        <5> QED
          BY <1>8, <2>4, <5>2 DEF IsClosed
      <4> QED
        BY <1>7, <3>2, <4>2, <4>3
    <3> QED
      BY <1>6, <3>1, <3>2
  <2> QED
    BY <2>2, <2>3, <2>4 DEF EdgesInOrder
<1> QED
  BY <1>10, <1>11, <1>12, <1>13, <1>14 DEF Structure

\* The graph in which a node that was there is joined.
Joins(h, g, n, p, edge) ==
  LET joining == {n} \cup g[n].inverse IN
  /\ DOMAIN h = DOMAIN g
  /\ \A y \in DOMAIN g :
       h[y].has = g[y].has \cup (IF y = n THEN {p} ELSE {}) \cup (IF y \in joining THEN g[p].passes ELSE {})
  /\ \A y \in DOMAIN g :
       h[y].sees = g[y].sees \cup (IF y = n THEN {p} ELSE {}) \cup (IF y \in joining THEN g[p].passes ELSE {})
  /\ \A y \in DOMAIN g : h[y].passes = g[y].passes \cup (IF y = n THEN g[p].passes ELSE {})
  /\ \A y \in DOMAIN g :
       h[y].inverse = g[y].inverse \cup (IF y = p THEN {n} ELSE {}) \cup (IF y \in g[p].passes THEN joining ELSE {})
  /\ \A y \in DOMAIN g :
       h[y].ancestors = IF y \in g[p].has THEN g[y].ancestors \cup g[n].ancestors \cup {<<g[n].name, g[n].context>>}
                        ELSE g[y].ancestors
  /\ \A y \in DOMAIN g :
       h[y].edges = IF y = n /\ ~\E e \in g[y].edges : e.dst = p THEN g[y].edges \cup {edge} ELSE g[y].edges
  /\ \A y \in DOMAIN g : h[y].name = g[y].name /\ h[y].context = g[y].context /\ h[y].recipe = g[y].recipe
  /\ edge.dst = p /\ edge.name = g[p].name /\ edge.kind = "normal"
  /\ RequiresName(g[n].recipe.requires, edge.name)

\* ... as does one that is joined, ...
LEMMA StructureJoins ==
  ASSUME NEW g, NEW c, NEW size \in Nat \ {0}, DOMAIN c = 1..size, Structure(g, c), IsOpen(c, size),
         NEW p \in DOMAIN g, p \notin {c[size].node} \cup g[c[size].node].inverse,
         NEW h, NEW edge, Joins(h, g, c[size].node, p, edge)
  PROVE  Structure(h, c)
<1> DEFINE n == c[size].node
<1>1. /\ \A i \in DOMAIN c : IsOpen(c, i)
      /\ n \in DOMAIN g /\ OpenNodes(c) = {n} \cup g[n].inverse
      /\ g[n].sees = DOMAIN g /\ g[n].has = g[n].passes
      /\ \A e \in g[n].edges : e.dst \notin OpenNodes(c)
  BY OpenTop DEF OpenAtTop
<1>2. /\ \A i \in DOMAIN c : c[i].node \in OpenNodes(c) /\ Below(c, i) \subseteq OpenNodes(c)
      /\ \A i, j \in DOMAIN c : i # j => c[i].node # c[j].node
  BY <1>1, CallFacts
<1>3. size \in DOMAIN c /\ 1 \in DOMAIN c /\ size + 1 \notin DOMAIN c
  OBVIOUS
<1> DEFINE joining == {n} \cup g[n].inverse
<1>4. ASSUME NEW y \in DOMAIN g
      PROVE  /\ y \in g[y].passes /\ g[y].passes \subseteq g[y].has /\ g[y].has \subseteq g[y].sees
             /\ g[y].sees \subseteq DOMAIN g /\ g[y].inverse \subseteq DOMAIN g
             /\ \A x \in g[y].has : g[x].has \subseteq g[y].has /\ (y \in g[x].has => x = y)
             /\ \A x \in DOMAIN g : (x \in g[y].inverse) <=> (y \in g[x].has \ {x})
             /\ g[y].ancestors = {<<g[x].name, g[x].context>> : x \in g[y].inverse}
             /\ y \notin OpenNodes(c) => g[y].passes = g[y].has
  BY DEF Structure, SetsInOrder
<1>5. \A y \in DOMAIN g : (y \in joining) <=> (n \in g[y].has)
  BY <1>1, <1>4
<1>6. p \notin joining /\ p \notin OpenNodes(c) /\ g[p].passes = g[p].has /\ joining = OpenNodes(c)
      /\ joining \subseteq DOMAIN g /\ n \in joining /\ n \in DOMAIN g
  BY <1>1, <1>4
<1> DEFINE far == g[p].has
<1> HIDE DEF n
<1>7. /\ DOMAIN h = DOMAIN g
      /\ edge.dst = p /\ edge.name = g[p].name /\ edge.kind = "normal"
      /\ RequiresName(g[n].recipe.requires, edge.name)
  BY DEF Joins, n
<1>7n. \A y \in DOMAIN g : h[y].name = g[y].name /\ h[y].context = g[y].context /\ h[y].recipe = g[y].recipe
  BY DEF Joins, n
<1>7p. \A y \in DOMAIN g : IF y = n THEN h[y].passes = g[y].passes \cup far ELSE h[y].passes = g[y].passes
  <2>1. \A y \in DOMAIN g : h[y].passes = g[y].passes \cup (IF y = n THEN far ELSE {})
    BY <1>6 DEF Joins, n
  <2> HIDE DEF far
  <2> QED
    BY <2>1
<1>7a. \A y \in DOMAIN g :
         IF y \in far THEN h[y].ancestors = g[y].ancestors \cup g[n].ancestors \cup {<<g[n].name, g[n].context>>}
         ELSE h[y].ancestors = g[y].ancestors
  BY DEF Joins, n
<1>7e. \A y \in DOMAIN g : IF y = n /\ ~\E e \in g[y].edges : e.dst = p
                           THEN h[y].edges = g[y].edges \cup {edge} ELSE h[y].edges = g[y].edges
  BY DEF Joins, n
<1>8. p \in far /\ far \subseteq DOMAIN g /\ \A x \in far : g[x].has \subseteq far
  BY <1>4
<1>9. \A y \in DOMAIN g : IF y \in joining THEN h[y].has = g[y].has \cup far ELSE h[y].has = g[y].has
  <2>1. \A y \in DOMAIN g : h[y].has = g[y].has \cup (IF y = n THEN {p} ELSE {}) \cup (IF y \in joining THEN far ELSE {})
    BY <1>6 DEF Joins, n
  <2> HIDE DEF joining, far
  <2> SUFFICES ASSUME NEW y \in DOMAIN g
               PROVE  IF y \in joining THEN h[y].has = g[y].has \cup far ELSE h[y].has = g[y].has
    OBVIOUS
  <2>2. CASE y \in joining
    <3>1. h[y].has = g[y].has \cup (IF y = n THEN {p} ELSE {}) \cup far
      BY <2>1, <2>2
    <3> QED
      BY <1>8, <2>2, <3>1
  <2>3. CASE y \notin joining
    <3>1. y # n
      BY <1>6, <2>3
    <3> QED
      BY <2>1, <2>3, <3>1
  <2> QED
    BY <2>2, <2>3
<1>10. \A y \in DOMAIN g : IF y \in joining THEN h[y].sees = g[y].sees \cup far ELSE h[y].sees = g[y].sees
  <2>1. \A y \in DOMAIN g : h[y].sees = g[y].sees \cup (IF y = n THEN {p} ELSE {}) \cup (IF y \in joining THEN far ELSE {})
    BY <1>6 DEF Joins, n
  <2> HIDE DEF joining, far
  <2> SUFFICES ASSUME NEW y \in DOMAIN g
               PROVE  IF y \in joining THEN h[y].sees = g[y].sees \cup far ELSE h[y].sees = g[y].sees
    OBVIOUS
  <2>2. CASE y \in joining
    <3>1. h[y].sees = g[y].sees \cup (IF y = n THEN {p} ELSE {}) \cup far
      BY <2>1, <2>2
    <3> QED
      BY <1>8, <2>2, <3>1
  <2>3. CASE y \notin joining
    <3>1. y # n
      BY <1>6, <2>3
    <3> QED
      BY <2>1, <2>3, <3>1
  <2> QED
    BY <2>2, <2>3
<1>11. \A y \in DOMAIN g : IF y \in far THEN h[y].inverse = g[y].inverse \cup joining ELSE h[y].inverse = g[y].inverse
  <2>1. \A y \in DOMAIN g : h[y].inverse = g[y].inverse \cup (IF y = p THEN {n} ELSE {}) \cup (IF y \in far THEN joining ELSE {})
    BY <1>6 DEF Joins, n
  <2> HIDE DEF joining, far
  <2> SUFFICES ASSUME NEW y \in DOMAIN g
               PROVE  IF y \in far THEN h[y].inverse = g[y].inverse \cup joining ELSE h[y].inverse = g[y].inverse
    OBVIOUS
  <2>2. CASE y \in far
    BY <1>6, <2>1, <2>2
  <2>3. CASE y \notin far
    <3>1. y # p
      BY <1>8, <2>3
    <3> QED
      BY <2>1, <2>3, <3>1
  <2> QED
    BY <2>2, <2>3
<1> HIDE DEF joining
\* What is joined is not what depends on it.
<1>12. n \notin far /\ \A y \in joining : y \notin far
  <2>1. ASSUME NEW y \in joining, y \in far PROVE FALSE
    <3>1. y \in DOMAIN g /\ n \in g[y].has
      BY <1>5, <1>6, <2>1
    <3>2. n \in far
      BY <1>8, <2>1, <3>1
    <3>3. p \in g[n].inverse
      BY <1>4, <1>6, <3>2
    <3> QED
      BY <1>6, <3>3 DEF joining
  <2> QED
    BY <1>6, <2>1
<1> HIDE DEF far
<1>13. CallsInOrder(h, c)
  <2>1. \A i \in DOMAIN c : c[i].node \in DOMAIN g
    BY DEF Structure, CallsInOrder
  <2>2. ASSUME NEW i \in DOMAIN c, NEW j \in 1..(i - 1) PROVE c[i].node \in h[c[j].node].has \ {c[j].node}
    <3>1. j \in DOMAIN c /\ c[i].node \in g[c[j].node].has \ {c[j].node}
      BY DEF Structure, CallsInOrder
    <3> QED
      BY <1>9, <2>1, <3>1
  <2> QED
    BY <1>7, <2>1, <2>2 DEF Structure, CallsInOrder
<1>14. NamesInOrder(h)
  BY <1>7, <1>7n DEF Structure, NamesInOrder
<1>15. SetsInOrder(h, c)
  <2>1. ASSUME NEW y \in DOMAIN g
        PROVE  /\ y \in h[y].passes /\ h[y].passes \subseteq h[y].has /\ h[y].has \subseteq h[y].sees
               /\ h[y].sees \subseteq DOMAIN g /\ h[y].inverse \subseteq DOMAIN g
    <3>1. y \in h[y].passes /\ h[y].passes \subseteq h[y].has
      BY <1>4, <1>6, <1>7p, <1>9
    <3>2. h[y].has \subseteq h[y].sees
      BY <1>4, <1>9, <1>10
    <3>3. h[y].sees \subseteq DOMAIN g
      BY <1>4, <1>8, <1>10
    <3>4. h[y].inverse \subseteq DOMAIN g
      BY <1>4, <1>6, <1>11
    <3> QED
      BY <3>1, <3>2, <3>3, <3>4
  <2>2. ASSUME NEW y \in DOMAIN g, NEW x \in h[y].has
        PROVE  h[x].has \subseteq h[y].has /\ (y \in h[x].has => x = y)
    <3>0. x \in DOMAIN g
      BY <1>4, <1>8, <1>9, <2>2
    <3>1. CASE x \in g[y].has
      <4>1. x \in joining => y \in joining
        BY <1>4, <1>5, <3>0, <3>1
      <4>2. h[x].has \subseteq h[y].has
        BY <1>4, <1>9, <3>0, <3>1, <4>1
      <4>3. ASSUME y \in h[x].has PROVE x = y
        <5>1. CASE y \in g[x].has
          BY <1>4, <3>1, <5>1
        <5>2. CASE y \notin g[x].has
          <6>1. y \in far /\ x \in joining
            BY <1>9, <3>0, <4>3, <5>2
          <6> QED
            BY <1>12, <4>1, <6>1
        <5> QED
          BY <5>1, <5>2
      <4> QED
        BY <4>2, <4>3
    <3>2. CASE x \notin g[y].has
      <4>1. y \in joining /\ x \in far
        BY <1>9, <2>2, <3>2
      <4>2. h[x].has = g[x].has
        BY <1>9, <1>12, <3>0, <4>1
      <4>3. h[x].has \subseteq h[y].has
        BY <1>8, <1>9, <4>1, <4>2
      <4>4. y \notin h[x].has
        BY <1>8, <1>12, <4>1, <4>2
      <4> QED
        BY <4>3, <4>4
    <3> QED
      BY <3>1, <3>2
  <2>3. ASSUME NEW y \in DOMAIN g, NEW x \in DOMAIN g
        PROVE  (x \in h[y].inverse) <=> (y \in h[x].has \ {x})
    BY <1>4, <1>9, <1>11, <1>12
  <2>4. ASSUME NEW y \in DOMAIN g
        PROVE  h[y].ancestors = {<<h[x].name, h[x].context>> : x \in h[y].inverse}
    <3> DEFINE key(x) == <<g[x].name, g[x].context>>
    <3>1. g[y].ancestors = {key(x) : x \in g[y].inverse} /\ g[n].ancestors = {key(x) : x \in g[n].inverse}
      BY <1>4, <1>6
    <3>2. \A x \in h[y].inverse : <<h[x].name, h[x].context>> = key(x)
      BY <1>7n, <2>1
    <3>3. {<<h[x].name, h[x].context>> : x \in h[y].inverse} = {key(x) : x \in h[y].inverse}
      BY <3>2
    <3>4. CASE y \in far
      <4>1. h[y].ancestors = g[y].ancestors \cup g[n].ancestors \cup {key(n)}
        BY <1>7a, <3>4
      <4>2. h[y].inverse = g[y].inverse \cup {n} \cup g[n].inverse
        BY <1>11, <3>4 DEF joining
      <4> HIDE DEF key
      <4> QED
        BY <3>1, <3>3, <4>1, <4>2
    <3>5. CASE y \notin far
      <4>1. h[y].ancestors = g[y].ancestors /\ h[y].inverse = g[y].inverse
        BY <1>7a, <1>11, <3>5
      <4> HIDE DEF key
      <4> QED
        BY <3>1, <3>3, <4>1
    <3> QED
      BY <3>4, <3>5
  <2>5. ASSUME NEW y \in DOMAIN g, y \notin OpenNodes(c) PROVE h[y].passes = h[y].has
    <3>1. y \notin joining /\ y # n
      BY <1>6, <2>5
    <3>2. h[y].passes = g[y].passes /\ h[y].has = g[y].has
      BY <1>7p, <1>9, <3>1
    <3> QED
      BY <1>4, <2>5, <3>2
  <2> QED
    BY <1>7, <2>1, <2>2, <2>3, <2>4, <2>5 DEF SetsInOrder
<1>16. OpenInOrder(h, c)
  <2>1. h[1].inverse = {}
    <3>1. 1 \in DOMAIN g /\ g[1].inverse = {} /\ c[1].node = 1
      BY <1>3 DEF Structure, NamesInOrder, OpenInOrder, CallsInOrder
    <3>2. 1 \notin far
      BY <1>2, <1>3, <1>6, <1>12, <3>1
    <3> QED
      BY <1>11, <3>1, <3>2
  <2>2. ASSUME NEW i \in DOMAIN c
        PROVE  /\ h[c[i].node].sees = DOMAIN h /\ h[c[i].node].inverse = Below(c, i)
               /\ h[c[i].node].has \subseteq h[c[i].node].passes
                    \cup IF i + 1 \in DOMAIN c THEN h[c[i + 1].node].has ELSE {}
               /\ \A e \in h[c[i].node].edges :
                    e.dst \in OpenNodes(c) => i + 1 \in DOMAIN c /\ e.dst = c[i + 1].node
    <3> DEFINE y == c[i].node
    <3>1. /\ y \in DOMAIN g /\ g[y].sees = DOMAIN g
          /\ g[y].inverse = Below(c, i)
          /\ g[y].has \subseteq g[y].passes
               \cup IF i + 1 \in DOMAIN c THEN g[c[i + 1].node].has ELSE {}
          /\ \A e \in g[y].edges : e.dst \in OpenNodes(c) => i + 1 \in DOMAIN c /\ e.dst = c[i + 1].node
      BY <1>1 DEF Structure, CallsInOrder, OpenInOrder
    <3>2. y \in joining /\ y \notin far /\ (i = size => y = n)
      BY <1>2, <1>6, <1>12 DEF n
    <3>3. i # size => y # n /\ i + 1 \in DOMAIN c /\ c[i + 1].node \in joining /\ c[i + 1].node \in DOMAIN g
      BY <1>2, <1>3, <1>6 DEF n
    <3> HIDE DEF y
    <3>4. h[y].sees = DOMAIN h
      BY <1>7, <1>8, <1>10, <3>1
    <3>5. h[y].inverse = Below(c, i)
      BY <1>11, <3>1, <3>2
    <3>6. h[y].has \subseteq h[y].passes \cup IF i + 1 \in DOMAIN c THEN h[c[i + 1].node].has ELSE {}
      <4>1. CASE i = size
        <5>1. i + 1 \notin DOMAIN c /\ y = n
          BY <1>3, <3>2, <4>1
        <5>2. g[y].has \subseteq g[y].passes
          BY <3>1, <5>1
        <5> QED
          BY <1>7p, <1>9, <3>1, <3>2, <5>1, <5>2
      <4>2. CASE i # size
        <5>1. g[y].has \subseteq g[y].passes \cup g[c[i + 1].node].has
          BY <3>1, <3>3, <4>2
        <5>2. h[y].has = g[y].has \cup far /\ h[y].passes = g[y].passes
              /\ h[c[i + 1].node].has = g[c[i + 1].node].has \cup far
          BY <1>7p, <1>9, <3>1, <3>2, <3>3, <4>2
        <5> QED
          BY <3>3, <4>2, <5>1, <5>2
      <4> QED
        BY <4>1, <4>2
    <3>7. \A e \in h[y].edges : e.dst \in OpenNodes(c) => i + 1 \in DOMAIN c /\ e.dst = c[i + 1].node
      BY <1>6, <1>7, <1>7e, <3>1
    <3> QED
      BY <3>4, <3>5, <3>6, <3>7 DEF y
  <2> QED
    BY <1>1, <2>1, <2>2 DEF OpenInOrder
<1>17. EdgesInOrder(h)
  <2>1. ASSUME NEW y \in DOMAIN g
        PROVE  /\ \A e \in g[y].edges :
                    /\ e.dst \in g[y].has \ {y} /\ e.name = g[e.dst].name /\ e.kind = "normal"
                    /\ RequiresName(g[y].recipe.requires, e.name)
               /\ \A x \in g[y].has \ {y} : \E e \in g[y].edges : x \in g[e.dst].has
               /\ \A set \in SUBSET DOMAIN g : y \in set /\ IsClosed(g, set) => g[y].has \subseteq set
               /\ g[y].has \subseteq DOMAIN g /\ y \in g[y].has
    BY DEF Structure, EdgesInOrder, SetsInOrder
  <2>e. \A y \in DOMAIN g : g[y].edges \subseteq h[y].edges /\ \A e \in g[y].edges : e.dst \in DOMAIN g
    BY <1>7e, <2>1
  <2>p. \E e \in h[n].edges : e.dst = p
    BY <1>6, <1>7, <1>7e
  <2>2. ASSUME NEW y \in DOMAIN g, NEW e \in h[y].edges
        PROVE  /\ e.dst \in h[y].has \ {y} /\ e.name = h[e.dst].name /\ e.kind = "normal"
               /\ RequiresName(h[y].recipe.requires, e.name)
    <3>2. CASE e \in g[y].edges
      <4>1. e.dst \in g[y].has \ {y} /\ e.name = g[e.dst].name /\ e.kind = "normal" /\ e.dst \in DOMAIN g
            /\ RequiresName(g[y].recipe.requires, e.name)
        BY <2>1, <3>2
      <4>2. e.dst \in h[y].has
        BY <1>9, <4>1
      <4> QED
        BY <1>7n, <4>1, <4>2
    <3>3. CASE e \notin g[y].edges
      <4>1. y = n /\ e = edge
        BY <1>7e, <2>2, <3>3
      <4>2. p \in h[n].has \ {n}
        BY <1>6, <1>8, <1>9
      <4> QED
        BY <1>6, <1>7, <1>7n, <4>1, <4>2
    <3> QED
      BY <3>2, <3>3
  <2>3. ASSUME NEW y \in DOMAIN g, NEW x \in h[y].has \ {y}
        PROVE  \E e \in h[y].edges : x \in h[e.dst].has
    <3>2. CASE x \in g[y].has
      <4>1. PICK e \in g[y].edges : x \in g[e.dst].has
        BY <2>1, <2>3, <3>2
      <4> QED
        BY <1>9, <2>e, <4>1
    <3>n. x \notin g[y].has => y \in joining /\ x \in far
      BY <1>9, <2>3
    <3>3. CASE x \notin g[y].has /\ y = n
      <4>1. PICK e \in h[n].edges : e.dst = p
        BY <2>p
      <4>2. x \in h[p].has
        BY <1>9, <3>n, <3>3 DEF far
      <4> QED
        BY <3>3, <4>1, <4>2
    <3>4. CASE x \notin g[y].has /\ y # n
      <4>1. n \in g[y].has \ {y}
        BY <1>5, <3>n, <3>4
      <4>2. PICK e \in g[y].edges : n \in g[e.dst].has
        BY <2>1, <4>1
      <4>3. e.dst \in joining /\ e.dst \in DOMAIN g
        BY <1>5, <2>e, <4>2
      <4>4. x \in h[e.dst].has
        BY <1>9, <3>n, <3>4, <4>3
      <4> QED
        BY <2>e, <4>2, <4>4
    <3> QED
      BY <3>2, <3>3, <3>4
  <2>4. ASSUME NEW y \in DOMAIN g, NEW set \in SUBSET DOMAIN g, y \in set, IsClosed(h, set)
        PROVE  h[y].has \subseteq set
    <3>1. IsClosed(g, set)
      BY <2>4, <2>e DEF IsClosed
    <3>2. g[y].has \subseteq set
      BY <2>1, <2>4, <3>1
    <3>3. ASSUME y \in joining PROVE far \subseteq set
      <4>1. n \in set
        BY <1>5, <3>2, <3>3
      <4>2. p \in set
        BY <2>4, <2>p, <4>1 DEF IsClosed
      <4> QED
        BY <2>1, <3>1, <4>2 DEF far
    <3> QED
      BY <1>9, <3>2, <3>3
  <2> QED
    BY <1>7, <2>2, <2>3, <2>4 DEF EdgesInOrder
<1> QED
  BY <1>13, <1>14, <1>15, <1>16, <1>17 DEF Structure

\* A node that is expanded again depends on nothing that it did not before.
AllSame(h, g) ==
  /\ DOMAIN h = DOMAIN g
  /\ \A y \in DOMAIN g :
       /\ h[y].has = g[y].has /\ h[y].sees = g[y].sees /\ h[y].passes = g[y].passes
       /\ h[y].inverse = g[y].inverse /\ h[y].ancestors = g[y].ancestors /\ h[y].edges = g[y].edges
       /\ h[y].name = g[y].name /\ h[y].context = g[y].context /\ h[y].recipe = g[y].recipe

LEMMA JoinsAgain ==
  ASSUME NEW g, NEW c, Structure(g, c), NEW n \in DOMAIN g, n \notin OpenNodes(c),
         NEW p \in g[n].has \ {n}, p \notin OpenNodes(c), \E e \in g[n].edges : e.dst = p,
         NEW h, NEW edge, Joins(h, g, n, p, edge)
  PROVE  AllSame(h, g)
<1> DEFINE joining == {n} \cup g[n].inverse
           far == g[p].has
<1>1. ASSUME NEW y \in DOMAIN g
      PROVE  /\ y \in g[y].passes /\ g[y].passes \subseteq g[y].has /\ g[y].has \subseteq g[y].sees
             /\ g[y].sees \subseteq DOMAIN g /\ g[y].inverse \subseteq DOMAIN g
             /\ \A x \in g[y].has : g[x].has \subseteq g[y].has /\ (y \in g[x].has => x = y)
             /\ \A x \in DOMAIN g : (x \in g[y].inverse) <=> (y \in g[x].has \ {x})
             /\ g[y].ancestors = {<<g[x].name, g[x].context>> : x \in g[y].inverse}
             /\ y \notin OpenNodes(c) => g[y].passes = g[y].has
  BY DEF Structure, SetsInOrder
<1>2. p \in DOMAIN g /\ g[p].passes = far /\ g[n].passes = g[n].has
  BY <1>1
<1>3. joining \subseteq DOMAIN g /\ \A y \in joining : n \in g[y].has
  BY <1>1
<1>4. p \in far /\ far \subseteq g[n].has /\ far \subseteq DOMAIN g /\ n \notin far
  BY <1>1, <1>2
<1>5. \A y \in joining : far \subseteq g[y].has
  BY <1>1, <1>3, <1>4
<1>6. ASSUME NEW y \in far PROVE joining \subseteq g[y].inverse
  <2> SUFFICES ASSUME NEW x \in joining PROVE x \in g[y].inverse
    OBVIOUS
  <2>1. y \in g[x].has /\ x \in DOMAIN g /\ y \in DOMAIN g
    BY <1>3, <1>4, <1>5, <1>6
  <2>2. x # y
    <3>1. ASSUME x = y PROVE FALSE
      <4>1. n \in g[y].has
        BY <1>3, <3>1
      <4>2. g[y].has \subseteq far
        BY <1>1, <1>2, <1>6
      <4> QED
        BY <1>4, <4>1, <4>2
    <3> QED
      BY <3>1
  <2> HIDE DEF joining, far
  <2> QED
    BY <1>1, <2>1, <2>2
<1>7. g[n].ancestors \cup {<<g[n].name, g[n].context>>} = {<<g[x].name, g[x].context>> : x \in joining}
  <2> DEFINE key(x) == <<g[x].name, g[x].context>>
  <2>1. g[n].ancestors = {key(x) : x \in g[n].inverse}
    BY <1>1
  <2> HIDE DEF key
  <2>2. g[n].ancestors \cup {key(n)} = {key(x) : x \in joining}
    BY <2>1
  <2> QED
    BY <2>2 DEF key
<1>8. ASSUME NEW y \in far
      PROVE  g[y].ancestors \cup g[n].ancestors \cup {<<g[n].name, g[n].context>>} = g[y].ancestors
  <2> DEFINE key(x) == <<g[x].name, g[x].context>>
  <2>1. g[y].ancestors = {key(x) : x \in g[y].inverse} /\ joining \subseteq g[y].inverse
    BY <1>1, <1>4, <1>6, <1>8
  <2>2. g[n].ancestors \cup {key(n)} = {key(x) : x \in joining}
    BY <1>7
  <2> HIDE DEF key, joining
  <2>3. g[y].ancestors \cup (g[n].ancestors \cup {key(n)}) = g[y].ancestors
    BY <2>1, <2>2
  <2>4. g[y].ancestors \cup g[n].ancestors \cup {key(n)} = g[y].ancestors
    BY <2>3
  <2> QED
    BY <2>4 DEF key
<1>9. DOMAIN h = DOMAIN g
  BY DEF Joins
<1>10. \A y \in DOMAIN g : h[y].has = g[y].has
  <2>1. \A y \in DOMAIN g : h[y].has = g[y].has \cup (IF y = n THEN {p} ELSE {}) \cup (IF y \in joining THEN far ELSE {})
    BY <1>2 DEF Joins
  <2>2. n \in joining
    OBVIOUS
  <2> HIDE DEF joining, far
  <2> SUFFICES ASSUME NEW y \in DOMAIN g PROVE h[y].has = g[y].has
    OBVIOUS
  <2>3. CASE y \in joining
    <3>1. far \subseteq g[y].has /\ h[y].has = g[y].has \cup (IF y = n THEN {p} ELSE {}) \cup far
      BY <1>5, <2>1, <2>3
    <3> QED
      BY <1>4, <3>1
  <2>4. CASE y \notin joining
    <3>1. y # n
      BY <2>2, <2>4
    <3> QED
      BY <2>1, <2>4, <3>1
  <2> QED
    BY <2>3, <2>4
<1>11. \A y \in DOMAIN g : h[y].sees = g[y].sees
  <2>1. \A y \in DOMAIN g : h[y].sees = g[y].sees \cup (IF y = n THEN {p} ELSE {}) \cup (IF y \in joining THEN far ELSE {})
    BY <1>2 DEF Joins
  <2>2. n \in joining
    OBVIOUS
  <2>3. \A y \in joining : far \subseteq g[y].sees
    BY <1>1, <1>3, <1>5
  <2> HIDE DEF joining, far
  <2> SUFFICES ASSUME NEW y \in DOMAIN g PROVE h[y].sees = g[y].sees
    OBVIOUS
  <2>4. CASE y \in joining
    <3>1. far \subseteq g[y].sees /\ h[y].sees = g[y].sees \cup (IF y = n THEN {p} ELSE {}) \cup far
      BY <2>1, <2>3, <2>4
    <3> QED
      BY <1>4, <3>1
  <2>5. CASE y \notin joining
    <3>1. y # n
      BY <2>2, <2>5
    <3> QED
      BY <2>1, <2>5, <3>1
  <2> QED
    BY <2>4, <2>5
<1>12. \A y \in DOMAIN g : h[y].passes = g[y].passes
  <2>1. \A y \in DOMAIN g : h[y].passes = g[y].passes \cup (IF y = n THEN far ELSE {})
    BY <1>2 DEF Joins
  <2> HIDE DEF far
  <2> QED
    BY <1>2, <1>4, <2>1
<1>13. \A y \in DOMAIN g : h[y].inverse = g[y].inverse
  <2>1. \A y \in DOMAIN g : h[y].inverse = g[y].inverse \cup (IF y = p THEN {n} ELSE {}) \cup (IF y \in far THEN joining ELSE {})
    BY <1>2 DEF Joins
  <2>2. n \in joining
    OBVIOUS
  <2> HIDE DEF joining, far
  <2> SUFFICES ASSUME NEW y \in DOMAIN g PROVE h[y].inverse = g[y].inverse
    OBVIOUS
  <2>3. CASE y \in far
    <3>1. joining \subseteq g[y].inverse /\ h[y].inverse = g[y].inverse \cup (IF y = p THEN {n} ELSE {}) \cup joining
      BY <1>6, <2>1, <2>3
    <3> QED
      BY <2>2, <3>1
  <2>4. CASE y \notin far
    <3>1. y # p
      BY <1>4, <2>4
    <3> QED
      BY <2>1, <2>4, <3>1
  <2> QED
    BY <2>3, <2>4
<1>14. \A y \in DOMAIN g : h[y].ancestors = g[y].ancestors
  <2>1. \A y \in DOMAIN g :
         h[y].ancestors = IF y \in far THEN g[y].ancestors \cup g[n].ancestors \cup {<<g[n].name, g[n].context>>}
                          ELSE g[y].ancestors
    BY DEF Joins
  <2> HIDE DEF far
  <2> QED
    BY <1>8, <2>1
<1>15. \A y \in DOMAIN g : h[y].edges = g[y].edges /\ h[y].name = g[y].name
         /\ h[y].context = g[y].context /\ h[y].recipe = g[y].recipe
  <2>1. \A y \in DOMAIN g :
         h[y].edges = IF y = n /\ ~\E e \in g[y].edges : e.dst = p THEN g[y].edges \cup {edge} ELSE g[y].edges
    BY DEF Joins
  <2>2. \A y \in DOMAIN g : h[y].name = g[y].name /\ h[y].context = g[y].context /\ h[y].recipe = g[y].recipe
    BY DEF Joins
  <2> QED
    BY <2>1, <2>2
<1> QED
  BY <1>9, <1>10, <1>11, <1>12, <1>13, <1>14, <1>15 DEF AllSame

\* One more call, which expands a node again.
LEMMA StructureAgain ==
  ASSUME NEW g, NEW c, NEW size \in Nat \ {0}, DOMAIN c = 1..size, Structure(g, c),
         NEW p \in g[c[size].node].has \ {c[size].node}, p \notin OpenNodes(c),
         NEW d, CallAdded(d, c, size, p, None)
  PROVE  Structure(g, d)
<1> DEFINE n == c[size].node
<1>1. OneMore(d, c, size, p, None)
  BY OpenAdded
<1>2. /\ DOMAIN d = DOMAIN c \cup {size + 1} /\ size + 1 \notin DOMAIN c
      /\ \A i \in DOMAIN c : d[i] = c[i] /\ (IsOpen(d, i) <=> IsOpen(c, i)) /\ Below(d, i) = Below(c, i)
      /\ ~IsOpen(d, size + 1) /\ OpenNodes(d) = OpenNodes(c)
      /\ d[size + 1].node = p /\ d[size + 1].then = None /\ DOMAIN d = 1..(size + 1)
  BY <1>1 DEF OneMore, CallAdded
<1>3. n \in DOMAIN g /\ p \in DOMAIN g
  <2>1. size \in DOMAIN c
    OBVIOUS
  <2>2. n \in DOMAIN g
    BY <2>1 DEF Structure, CallsInOrder
  <2> QED
    BY <2>2 DEF Structure, SetsInOrder
<1>4. ASSUME NEW j \in DOMAIN c PROVE p \in g[c[j].node].has \ {c[j].node}
  <2>1. CASE j = size
    BY <2>1
  <2>2. CASE j # size
    <3>1. j \in 1..(size - 1) /\ size \in DOMAIN c
      BY <2>2
    <3>2. n \in g[c[j].node].has \ {c[j].node} /\ c[j].node \in DOMAIN g
      BY <3>1 DEF Structure, CallsInOrder
    <3>3. g[n].has \subseteq g[c[j].node].has /\ \A x \in g[n].has : n \in g[x].has => x = n
      BY <1>3, <3>2 DEF Structure, SetsInOrder
    <3> QED
      BY <3>2, <3>3
  <2> QED
    BY <2>1, <2>2
<1>5. CallsInOrder(g, d)
  <2>1. d[1].node = 1 /\ d[1].then = None
    <3>1. 1 \in DOMAIN c
      OBVIOUS
    <3> QED
      BY <1>2, <3>1 DEF Structure, CallsInOrder
  <2>2. ASSUME NEW i \in DOMAIN c
        PROVE  /\ d[i].node \in DOMAIN g
               /\ d[i].then # None => i # 1 /\ d[i].then = d[i - 1].node
               /\ ~IsOpen(d, i) => d[i].node \notin OpenNodes(d)
               /\ \A j \in 1..(i - 1) :
                   (IsOpen(d, i) => IsOpen(d, j)) /\ d[i].node \in g[d[j].node].has \ {d[j].node}
    <3>1. \A j \in 1..(i - 1) : j \in DOMAIN c
      OBVIOUS
    <3>2. i # 1 => i - 1 \in DOMAIN c
      OBVIOUS
    <3>3. /\ c[i].node \in DOMAIN g
          /\ c[i].then # None => i # 1 /\ c[i].then = c[i - 1].node
          /\ ~IsOpen(c, i) => c[i].node \notin OpenNodes(c)
          /\ \A j \in 1..(i - 1) :
               (IsOpen(c, i) => IsOpen(c, j)) /\ c[i].node \in g[c[j].node].has \ {c[j].node}
      BY DEF Structure, CallsInOrder
    <3> QED
      BY <1>2, <3>1, <3>2, <3>3
  <2>3. \A j \in 1..(size + 1 - 1) : j \in DOMAIN c
    OBVIOUS
  <2>4. \A j \in 1..(size + 1 - 1) : d[size + 1].node \in g[d[j].node].has \ {d[j].node}
    BY <1>2, <1>4, <2>3
  <2> QED
    BY <1>2, <1>3, <2>1, <2>2, <2>4 DEF CallsInOrder
<1>6. SetsInOrder(g, d)
  BY <1>2 DEF Structure, SetsInOrder
<1>7. OpenInOrder(g, d)
  <2>1. ASSUME NEW i \in DOMAIN c, IsOpen(c, i)
        PROVE  /\ g[d[i].node].sees = DOMAIN g /\ g[d[i].node].inverse = Below(d, i)
               /\ g[d[i].node].has \subseteq g[d[i].node].passes
                    \cup IF i + 1 \in DOMAIN d /\ IsOpen(d, i + 1) THEN g[d[i + 1].node].has ELSE {}
               /\ \A e \in g[d[i].node].edges :
                    e.dst \in OpenNodes(d) => i + 1 \in DOMAIN d /\ e.dst = d[i + 1].node
    <3>1. /\ g[c[i].node].sees = DOMAIN g /\ g[c[i].node].inverse = Below(c, i)
          /\ g[c[i].node].has \subseteq g[c[i].node].passes
               \cup IF i + 1 \in DOMAIN c /\ IsOpen(c, i + 1) THEN g[c[i + 1].node].has ELSE {}
          /\ \A e \in g[c[i].node].edges :
               e.dst \in OpenNodes(c) => i + 1 \in DOMAIN c /\ e.dst = c[i + 1].node
      BY <2>1 DEF Structure, OpenInOrder
    <3>2. CASE i + 1 \in DOMAIN c
      BY <1>2, <3>1, <3>2
    <3>3. CASE i + 1 \notin DOMAIN c
      <4>1. i + 1 = size + 1
        BY <3>3
      <4> QED
        BY <1>2, <3>1, <3>3, <4>1
    <3> QED
      BY <3>2, <3>3
  <2> QED
    BY <1>2, <2>1 DEF OpenInOrder, Structure
<1> QED
  BY <1>5, <1>6, <1>7 DEF Structure

\* The graph when a call ends: what its node passes on is taken over.
Returns(h, g, then, top) ==
  /\ DOMAIN h = DOMAIN g
  /\ \A y \in DOMAIN g : h[y].passes = IF y = then THEN g[y].passes \cup g[top].passes ELSE g[y].passes
  /\ \A y \in DOMAIN g :
       /\ h[y].has = g[y].has /\ h[y].sees = g[y].sees
       /\ h[y].inverse = g[y].inverse /\ h[y].ancestors = g[y].ancestors /\ h[y].edges = g[y].edges
       /\ h[y].name = g[y].name /\ h[y].context = g[y].context /\ h[y].recipe = g[y].recipe

CallRemoved(d, c, size) == DOMAIN d = 1..(size - 1) /\ \A i \in 1..(size - 1) : d[i] = c[i]

OneLess(d, c, size) ==
  /\ DOMAIN c = DOMAIN d \cup {size} /\ size \notin DOMAIN d
  /\ \A i \in DOMAIN d : d[i] = c[i] /\ (IsOpen(d, i) <=> IsOpen(c, i)) /\ Below(d, i) = Below(c, i)
  /\ OpenNodes(d) = OpenNodes(c) \ {c[size].node}

\* The calls that are open, with one less.
LEMMA OpenRemoved ==
  ASSUME NEW g, NEW c, NEW size \in Nat \ {0}, DOMAIN c = 1..size, Structure(g, c),
         NEW d, CallRemoved(d, c, size)
  PROVE  OneLess(d, c, size)
<1>1. DOMAIN c = DOMAIN d \cup {size} /\ size \notin DOMAIN d
  BY DEF CallRemoved
<1>2. ASSUME NEW i \in DOMAIN d
      PROVE  d[i] = c[i] /\ (IsOpen(d, i) <=> IsOpen(c, i)) /\ Below(d, i) = Below(c, i)
  <2>1. \A j \in 1..(i - 1) : j \in 1..(size - 1)
    BY DEF CallRemoved
  <2> QED
    BY <2>1 DEF CallRemoved, Below, IsOpen
<1>3. \A i, j \in DOMAIN c : i # j => c[i].node # c[j].node
  BY CallFacts
<1>4. OpenNodes(d) = OpenNodes(c) \ {c[size].node}
  <2>1. ASSUME NEW x PROVE (x \in OpenNodes(d)) <=> (x \in OpenNodes(c) /\ x # c[size].node)
    <3>1. ASSUME x \in OpenNodes(d) PROVE x \in OpenNodes(c) /\ x # c[size].node
      <4>1. PICK i \in DOMAIN d : IsOpen(d, i) /\ x = d[i].node
        BY <3>1 DEF OpenNodes
      <4>2. i \in DOMAIN c /\ IsOpen(c, i) /\ x = c[i].node /\ i # size /\ size \in DOMAIN c
        BY <1>1, <1>2, <4>1
      <4> QED
        BY <1>3, <4>2 DEF OpenNodes
    <3>2. ASSUME x \in OpenNodes(c), x # c[size].node PROVE x \in OpenNodes(d)
      <4>1. PICK i \in DOMAIN c : IsOpen(c, i) /\ x = c[i].node
        BY <3>2 DEF OpenNodes
      <4>2. i \in DOMAIN d
        BY <1>1, <3>2, <4>1
      <4> QED
        BY <1>2, <4>1, <4>2 DEF OpenNodes
    <3> QED
      BY <3>1, <3>2
  <2> QED
    BY <2>1
<1> QED
  BY <1>1, <1>2, <1>4 DEF OneLess

\* ... and the end of a call.
LEMMA StructureReturns ==
  ASSUME NEW g, NEW c, NEW size \in Nat \ {0}, DOMAIN c = 1..size, Structure(g, c),
         NEW h, Returns(h, g, c[size].then, c[size].node), NEW d, CallRemoved(d, c, size),
         None \notin DOMAIN g
  PROVE  Structure(h, d)
<1> DEFINE n == c[size].node
           then == c[size].then
<1>1. OneLess(d, c, size)
  BY OpenRemoved
<1>2. /\ DOMAIN c = DOMAIN d \cup {size} /\ size \notin DOMAIN d /\ DOMAIN d = 1..(size - 1)
      /\ \A i \in DOMAIN d : d[i] = c[i] /\ (IsOpen(d, i) <=> IsOpen(c, i)) /\ Below(d, i) = Below(c, i)
      /\ OpenNodes(d) = OpenNodes(c) \ {n}
  BY <1>1 DEF OneLess, CallRemoved
<1>3. /\ OpenNodes(c) \subseteq DOMAIN g
      /\ \A i \in DOMAIN c : IsOpen(c, i) => c[i].node \in OpenNodes(c)
      /\ \A i, j \in DOMAIN c : i # j => c[i].node # c[j].node
  BY CallFacts
<1>4. ASSUME NEW y \in DOMAIN g
      PROVE  /\ y \in g[y].passes /\ g[y].passes \subseteq g[y].has /\ g[y].has \subseteq g[y].sees
             /\ g[y].sees \subseteq DOMAIN g /\ g[y].inverse \subseteq DOMAIN g
             /\ \A x \in g[y].has : g[x].has \subseteq g[y].has /\ (y \in g[x].has => x = y)
             /\ \A x \in DOMAIN g : (x \in g[y].inverse) <=> (y \in g[x].has \ {x})
             /\ g[y].ancestors = {<<g[x].name, g[x].context>> : x \in g[y].inverse}
             /\ y \notin OpenNodes(c) => g[y].passes = g[y].has
  BY DEF Structure, SetsInOrder
<1>5. n \in DOMAIN g /\ size \in DOMAIN c
  BY DEF Structure, CallsInOrder
\* What takes over is the call below, if there is one.
<1>6. ASSUME then # None
      PROVE  /\ size - 1 \in DOMAIN d /\ then = c[size - 1].node /\ then \in DOMAIN g
             /\ n \in g[then].has \ {then} /\ then \in OpenNodes(c) /\ IsOpen(c, size)
  <2>1. size # 1 /\ then = c[size - 1].node
    BY <1>5, <1>6 DEF Structure, CallsInOrder
  <2>2. size - 1 \in DOMAIN d /\ size - 1 \in 1..(size - 1)
    BY <1>2, <2>1
  <2>3. IsOpen(c, size)
    BY <1>6 DEF IsOpen
  <2>4. IsOpen(c, size - 1) /\ n \in g[c[size - 1].node].has \ {c[size - 1].node}
    BY <1>5, <2>2, <2>3 DEF Structure, CallsInOrder
  <2>5. c[size - 1].node \in DOMAIN g /\ c[size - 1].node \in OpenNodes(c)
    BY <1>2, <1>3, <2>2, <2>4
  <2> QED
    BY <2>1, <2>2, <2>3, <2>4, <2>5
<1>7. IsOpen(c, size) => g[n].has = g[n].passes
  BY OpenTop DEF OpenAtTop
<1>8. \A y \in DOMAIN g : IF y = then THEN h[y].passes = g[y].passes \cup g[n].passes
                          ELSE h[y].passes = g[y].passes
  BY DEF Returns
<1>9. /\ DOMAIN h = DOMAIN g
      /\ \A y \in DOMAIN g :
           /\ h[y].has = g[y].has /\ h[y].sees = g[y].sees
           /\ h[y].inverse = g[y].inverse /\ h[y].ancestors = g[y].ancestors /\ h[y].edges = g[y].edges
           /\ h[y].name = g[y].name /\ h[y].context = g[y].context /\ h[y].recipe = g[y].recipe
  BY DEF Returns
<1> HIDE DEF n, then
<1>10. CallsInOrder(h, d)
  <2>1. 1 \in DOMAIN d => d[1].node = 1 /\ d[1].then = None
    BY <1>2 DEF Structure, CallsInOrder
  <2>2. ASSUME NEW i \in DOMAIN d
        PROVE  /\ d[i].node \in DOMAIN h
               /\ d[i].then # None => i # 1 /\ d[i].then = d[i - 1].node
               /\ ~IsOpen(d, i) => d[i].node \notin OpenNodes(d)
               /\ \A j \in 1..(i - 1) :
                   (IsOpen(d, i) => IsOpen(d, j)) /\ d[i].node \in h[d[j].node].has \ {d[j].node}
    <3>1. \A j \in 1..(i - 1) : j \in DOMAIN d /\ j \in DOMAIN c
      BY <1>2
    <3>2. i # 1 => i - 1 \in DOMAIN d
      BY <1>2
    <3>3. /\ c[i].node \in DOMAIN g
          /\ c[i].then # None => i # 1 /\ c[i].then = c[i - 1].node
          /\ ~IsOpen(c, i) => c[i].node \notin OpenNodes(c)
          /\ \A j \in 1..(i - 1) :
               (IsOpen(c, i) => IsOpen(c, j)) /\ c[i].node \in g[c[j].node].has \ {c[j].node}
          /\ \A j \in DOMAIN c : c[j].node \in DOMAIN g
      BY <1>2 DEF Structure, CallsInOrder
    <3>4. ASSUME NEW j \in 1..(i - 1)
          PROVE (IsOpen(d, i) => IsOpen(d, j)) /\ d[i].node \in h[d[j].node].has \ {d[j].node}
      <4>1. c[j].node \in DOMAIN g /\ d[j] = c[j] /\ d[i] = c[i] /\ (IsOpen(d, j) <=> IsOpen(c, j))
        BY <1>2, <3>1, <3>3
      <4> QED
        BY <1>2, <1>9, <3>3, <4>1
    <3> QED
      BY <1>2, <1>9, <3>2, <3>3, <3>4
  <2> QED
    BY <2>1, <2>2 DEF CallsInOrder
<1>11. NamesInOrder(h)
  BY <1>9 DEF Structure, NamesInOrder
<1>12. SetsInOrder(h, d)
  <2>1. ASSUME NEW y \in DOMAIN g PROVE y \in h[y].passes /\ h[y].passes \subseteq h[y].has
    <3>1. CASE y = then
      <4>1. then # None
        BY <3>1
      <4>2. g[n].has \subseteq g[y].has /\ g[n].passes \subseteq g[n].has
        BY <1>4, <1>5, <1>6, <3>1, <4>1
      <4> QED
        BY <1>4, <1>8, <1>9, <3>1, <4>2
    <3>2. CASE y # then
      BY <1>4, <1>8, <1>9, <3>2
    <3> QED
      BY <3>1, <3>2
  <2>2. ASSUME NEW y \in DOMAIN g, y \notin OpenNodes(d) PROVE h[y].passes = h[y].has
    <3>0. y # then
      <4>1. then # None => then \in OpenNodes(d)
        BY <1>2, <1>4, <1>6
      <4> QED
        BY <2>2, <4>1
    <3>1. CASE y \in OpenNodes(c)
      <4>1. y = n /\ IsOpen(c, size)
        <5>1. y = n
          BY <1>2, <2>2, <3>1
        <5>2. PICK i \in DOMAIN c : IsOpen(c, i) /\ y = c[i].node
          BY <3>1 DEF OpenNodes
        <5>3. i = size
          BY <1>3, <1>5, <5>1, <5>2 DEF n
        <5> QED
          BY <5>1, <5>2, <5>3
      <4> QED
        BY <1>7, <1>8, <1>9, <3>0, <4>1
    <3>2. CASE y \notin OpenNodes(c)
      BY <1>4, <1>8, <1>9, <3>0, <3>2
    <3> QED
      BY <3>1, <3>2
  <2>3. ASSUME NEW y \in DOMAIN g
        PROVE  /\ h[y].has \subseteq h[y].sees /\ h[y].sees \subseteq DOMAIN h /\ h[y].inverse \subseteq DOMAIN h
               /\ \A x \in h[y].has : h[x].has \subseteq h[y].has /\ (y \in h[x].has => x = y)
               /\ \A x \in DOMAIN h : (x \in h[y].inverse) <=> (y \in h[x].has \ {x})
    BY <1>4, <1>9
  <2>4. ASSUME NEW y \in DOMAIN g
        PROVE  h[y].ancestors = {<<h[x].name, h[x].context>> : x \in h[y].inverse}
    <3>1. \A x \in g[y].inverse : <<h[x].name, h[x].context>> = <<g[x].name, g[x].context>>
      BY <1>4, <1>9
    <3>2. {<<h[x].name, h[x].context>> : x \in g[y].inverse} = {<<g[x].name, g[x].context>> : x \in g[y].inverse}
      BY <3>1
    <3> QED
      BY <1>4, <1>9, <3>2
  <2> QED
    BY <1>9, <2>1, <2>2, <2>3, <2>4 DEF SetsInOrder
<1>13. OpenInOrder(h, d)
  <2>1. h[1].inverse = {}
    BY <1>9 DEF Structure, NamesInOrder, OpenInOrder
  <2>2. ASSUME NEW i \in DOMAIN d, IsOpen(d, i)
        PROVE  /\ h[d[i].node].sees = DOMAIN h /\ h[d[i].node].inverse = Below(d, i)
               /\ h[d[i].node].has \subseteq h[d[i].node].passes
                    \cup IF i + 1 \in DOMAIN d /\ IsOpen(d, i + 1) THEN h[d[i + 1].node].has ELSE {}
               /\ \A e \in h[d[i].node].edges :
                    e.dst \in OpenNodes(d) => i + 1 \in DOMAIN d /\ e.dst = d[i + 1].node
    <3> DEFINE y == c[i].node
    <3>1. /\ y \in DOMAIN g /\ g[y].sees = DOMAIN g /\ g[y].inverse = Below(c, i)
          /\ g[y].has \subseteq g[y].passes
               \cup IF i + 1 \in DOMAIN c /\ IsOpen(c, i + 1) THEN g[c[i + 1].node].has ELSE {}
          /\ \A e \in g[y].edges :
               e.dst \in OpenNodes(c) => i + 1 \in DOMAIN c /\ e.dst = c[i + 1].node
      BY <1>2, <2>2 DEF Structure, OpenInOrder, CallsInOrder
    <3>2. d[i].node = y /\ Below(d, i) = Below(c, i)
      BY <1>2
    <3>3. i + 1 \in DOMAIN c => i + 1 \in DOMAIN d \/ i + 1 = size
      BY <1>2
    <3>4. \A j \in DOMAIN d : d[j] = c[j] /\ c[j].node \in DOMAIN g
      BY <1>2, <1>9, <1>10 DEF CallsInOrder
    <3> HIDE DEF y
    <3>5. h[y].has \subseteq h[y].passes
                    \cup IF i + 1 \in DOMAIN d /\ IsOpen(d, i + 1) THEN h[d[i + 1].node].has ELSE {}
      <4>0. g[y].passes \subseteq h[y].passes
        BY <1>8, <3>1
      <4>1. CASE i + 1 \in DOMAIN d
        <5>1. i + 1 \in DOMAIN c /\ (IsOpen(d, i + 1) <=> IsOpen(c, i + 1)) /\ d[i + 1] = c[i + 1]
              /\ h[c[i + 1].node].has = g[c[i + 1].node].has
          BY <1>2, <1>9, <3>4, <4>1
        <5>2. CASE IsOpen(c, i + 1)
          <6>1. g[y].has \subseteq g[y].passes \cup g[c[i + 1].node].has
            BY <3>1, <5>1, <5>2
          <6> QED
            BY <1>9, <3>1, <4>0, <4>1, <5>1, <5>2, <6>1
        <5>3. CASE ~IsOpen(c, i + 1)
          <6>1. g[y].has \subseteq g[y].passes
            BY <3>1, <5>1, <5>3
          <6> QED
            BY <1>9, <3>1, <4>0, <6>1
        <5> QED
          BY <5>2, <5>3
      <4>2. CASE i + 1 = size /\ IsOpen(c, size)
        <5>1. then # None
          BY <2>2, <4>2 DEF IsOpen, then, CallRemoved
        <5>2. then = y
          <6>1. size - 1 = i
            BY <4>2, <1>2
          <6> QED
            BY <1>6, <5>1, <6>1 DEF y
        <5>3. g[y].has \subseteq g[y].passes \cup g[n].has
          BY <1>5, <3>1, <4>2 DEF n
        <5> QED
          BY <1>7, <1>8, <1>9, <3>1, <4>2, <5>2, <5>3
      <4>3. CASE ~(i + 1 \in DOMAIN d) /\ ~(i + 1 = size /\ IsOpen(c, size))
        <5>1. g[y].has \subseteq g[y].passes
          BY <3>1, <3>3, <4>3
        <5> QED
          BY <1>9, <3>1, <4>0, <5>1
      <4> QED
        BY <4>1, <4>2, <4>3
    <3>6. ASSUME NEW e \in h[y].edges, e.dst \in OpenNodes(d)
          PROVE  i + 1 \in DOMAIN d /\ e.dst = d[i + 1].node
      <4>1. e.dst \in OpenNodes(c) /\ e.dst # n /\ e \in g[y].edges
        BY <1>2, <1>9, <3>1, <3>6
      <4>2. i + 1 \in DOMAIN c /\ e.dst = c[i + 1].node
        BY <3>1, <4>1
      <4>3. i + 1 # size
        BY <4>1, <4>2 DEF n
      <4> QED
        BY <1>2, <3>3, <4>2, <4>3
    <3> QED
      BY <1>9, <3>1, <3>2, <3>5, <3>6
  <2> QED
    BY <2>1, <2>2 DEF OpenInOrder
<1>14. EdgesInOrder(h)
  <2>1. ASSUME NEW y \in DOMAIN g
        PROVE  /\ \A e \in g[y].edges :
                    /\ e.dst \in g[y].has \ {y} /\ e.name = g[e.dst].name /\ e.kind = "normal"
                    /\ RequiresName(g[y].recipe.requires, e.name)
               /\ \A x \in g[y].has \ {y} : \E e \in g[y].edges : x \in g[e.dst].has
               /\ \A set \in SUBSET DOMAIN g : y \in set /\ IsClosed(g, set) => g[y].has \subseteq set
               /\ g[y].has \subseteq DOMAIN g
    BY DEF Structure, EdgesInOrder, SetsInOrder
  <2>2. \A y \in DOMAIN g : \A e \in g[y].edges : e.dst \in DOMAIN g
    BY <2>1
  <2>3. \A set \in SUBSET DOMAIN g : IsClosed(h, set) <=> IsClosed(g, set)
    BY <1>9 DEF IsClosed
  <2> QED
    BY <1>9, <2>1, <2>2, <2>3 DEF EdgesInOrder
<1> QED
  BY <1>10, <1>11, <1>12, <1>13, <1>14 DEF Structure

-----------------------------------------------------------------------------
(* The graph of the builder, and its calls.                                *)

LEMMA ViewFacts ==
  ASSUME NEW ns
  PROVE  /\ DOMAIN View(ns) = DOMAIN ns
         /\ \A n \in DOMAIN ns :
              /\ View(ns)[n].has = Has(ns, n) /\ View(ns)[n].sees = Sees(ns, n)
              /\ View(ns)[n].passes = Passes(ns, n) /\ View(ns)[n].inverse = ns[n].inverse
              /\ View(ns)[n].ancestors = ns[n].ancestors /\ View(ns)[n].edges = ns[n].edges
              /\ View(ns)[n].name = ns[n].name /\ View(ns)[n].context = ns[n].context
              /\ View(ns)[n].recipe = ns[n].recipe
BY DEF View

LEMMA SameView ==
  ASSUME NEW ns, NEW nt, AllSame(View(nt), View(ns))
  PROVE  View(nt) = View(ns)
<1>1. DOMAIN nt = DOMAIN ns
  BY ViewFacts DEF AllSame
<1>2. ASSUME NEW n \in DOMAIN ns PROVE View(nt)[n] = View(ns)[n]
  <2>1. /\ Has(nt, n) = Has(ns, n) /\ Sees(nt, n) = Sees(ns, n) /\ Passes(nt, n) = Passes(ns, n)
        /\ nt[n].inverse = ns[n].inverse /\ nt[n].ancestors = ns[n].ancestors
        /\ nt[n].edges = ns[n].edges /\ nt[n].name = ns[n].name
        /\ nt[n].context = ns[n].context /\ nt[n].recipe = ns[n].recipe
    <3>1. n \in DOMAIN View(ns)
      BY ViewFacts
    <3> QED
      BY <1>1, <3>1, ViewFacts DEF AllSame
  <2> QED
    BY <1>1, <2>1 DEF View
<1> QED
  BY <1>1, <1>2 DEF View

LEMMA CallsFacts ==
  ASSUME NEW st
  PROVE  /\ DOMAIN Calls(st) = DOMAIN st
         /\ \A i \in DOMAIN st : Calls(st)[i].node = st[i].node /\ Calls(st)[i].then = st[i].then
BY DEF Calls

\* The same nodes are being expanded, for the same.
SameCalls(st, su) ==
  /\ DOMAIN st = DOMAIN su
  /\ \A i \in DOMAIN su : st[i].node = su[i].node /\ st[i].then = su[i].then

LEMMA CallsKept ==
  ASSUME NEW st, NEW su, SameCalls(st, su)
  PROVE  Calls(st) = Calls(su)
BY DEF SameCalls, Calls

\* Requirements and edges.
Alike(s, t) ==
  /\ DOMAIN s = DOMAIN t
  /\ \A i \in DOMAIN t : s[i].name = t[i].name /\ s[i].kind = t[i].kind /\ s[i].switch = t[i].switch

HasEdge(ns, n, k) == \E e \in ns[n].edges : e.name = k

\* Whatever a node requires, it has.
Done(ns, n) ==
  \A k \in Name : RequiresName(ns[n].recipe.requires, k) => HasEdge(ns, n, k)

Todo(s, t) ==
  \A i \in DOMAIN s : /\ s[i].kind \in {"normal", "override"} /\ ~s[i].switch
                      /\ s[i].kind = "normal" => RequiresName(t, s[i].name)

Expected(ns, f) ==
  /\ Todo(f.todo, ns[f.node].recipe.requires)
  /\ f.phase = "expand" => \A k \in Name : RequiresName(ns[f.node].recipe.requires, k) =>
                             RequiresName(f.todo, k) \/ HasEdge(ns, f.node, k)

Complete(ns, st) ==
  /\ \A n \in DOMAIN ns : Alike(ns[n].requires, ns[n].recipe.requires)
  /\ \A n \in DOMAIN ns \ OpenNodes(Calls(st)) : Done(ns, n)
  /\ \A i \in DOMAIN st : Expected(ns, st[i]) /\ (i # Len(st) => st[i].phase = "expand")

Ordered == Structure(View(nodes), Calls(stack)) /\ Complete(nodes, stack)

\* What there is to do stays the same if no edges are lost.
MoreEdges(nt, ns, n) ==
  nt[n].recipe = ns[n].recipe /\ \A e \in ns[n].edges : e \in nt[n].edges

LEMMA StillExpected ==
  ASSUME NEW ns, NEW nt, NEW n, MoreEdges(nt, ns, n)
  PROVE  /\ Done(ns, n) => Done(nt, n)
         /\ \A f : f.node = n /\ Expected(ns, f) => Expected(nt, f)
<1>1. \A k : HasEdge(ns, n, k) => HasEdge(nt, n, k)
  BY DEF MoreEdges, HasEdge
<1> QED
  BY <1>1 DEF MoreEdges, Done, Expected

\* The frame on top, when its next requirement is taken.
LEMMA LessToDo ==
  ASSUME NEW s, IsRequires(s), s # <<>>, NEW t, Todo(s, t)
  PROVE  /\ Todo(Tail(s), t) /\ Head(s).kind \in {"normal", "override"} /\ ~Head(s).switch
         /\ Head(s).kind = "normal" => RequiresName(t, Head(s).name)
         /\ \A k : RequiresName(s, k) =>
              RequiresName(Tail(s), k) \/ (Head(s).kind = "normal" /\ Head(s).name = k)
<1>1. \A r : (\E i \in DOMAIN s : s[i] = r) <=> (r = Head(s) \/ \E i \in DOMAIN Tail(s) : Tail(s)[i] = r)
  BY ListTail
<1>2. PICK j \in DOMAIN s : s[j] = Head(s)
  BY <1>1
<1>3. \A i \in DOMAIN Tail(s) : \E k \in DOMAIN s : s[k] = Tail(s)[i]
  BY <1>1
<1>4. Todo(Tail(s), t)
  BY <1>3 DEF Todo
<1>5. ASSUME NEW k, RequiresName(s, k)
      PROVE  RequiresName(Tail(s), k) \/ (Head(s).kind = "normal" /\ Head(s).name = k)
  <2>1. PICK i \in DOMAIN s : s[i].name = k /\ s[i].kind = "normal"
    BY <1>5 DEF RequiresName
  <2>2. s[i] = Head(s) \/ \E x \in DOMAIN Tail(s) : Tail(s)[x] = s[i]
    BY <1>1
  <2> QED
    BY <2>1, <2>2 DEF RequiresName
<1>6. Head(s).kind \in {"normal", "override"} /\ ~Head(s).switch
      /\ (Head(s).kind = "normal" => RequiresName(t, Head(s).name))
  BY <1>2 DEF Todo
<1> QED
  BY <1>4, <1>5, <1>6

\* With requirements that are neither private nor for a build.
LEMMA OrdinaryRecipes ==
  ASSUME Typed, Ordinary, NEW k \in Name \cup {Root}, NEW r \in World.recipes[k]
  PROVE  IsRequires(r.requires) /\ Todo(r.requires, r.requires)
<1>1. World \in Range(Worlds) /\ IsRequires(r.requires)
  BY WorldFacts, RecipeFacts DEF Typed
<1>2. ASSUME NEW i \in DOMAIN r.requires
      PROVE  /\ r.requires[i].kind \in {"normal", "override"} /\ ~r.requires[i].switch
             /\ r.requires[i].kind = "normal" => RequiresName(r.requires, r.requires[i].name)
  <2>1. r.requires[i].kind # "build" /\ ~r.requires[i].switch
    BY <1>1, RecipesAssumption
  <2>2. r.requires[i].kind # "private"
    BY DEF Ordinary
  <2>3. r.requires[i].kind \in Kind
    BY <1>1 DEF IsRequires, Requirement
  <2>4. r.requires[i].kind \in {"normal", "override"}
    BY <2>1, <2>2, <2>3 DEF Kind
  <2> QED
    BY <2>1, <2>4 DEF RequiresName
<1> QED
  BY <1>1, <1>2 DEF Todo

LEMMA AlikeTodo ==
  ASSUME NEW s, NEW t, Alike(s, t), Todo(t, t)
  PROVE  Todo(s, t) /\ \A k : RequiresName(t, k) => RequiresName(s, k)
BY DEF Alike, Todo, RequiresName

\* What an ordered graph has at the call on top.
TopInOrder ==
  /\ Len(stack) \in Nat \ {0} /\ DOMAIN Calls(stack) = 1..Len(stack) /\ Len(stack) \in DOMAIN stack
  /\ Top = stack[Len(stack)]
  /\ Calls(stack)[Len(stack)].node = Top.node /\ Calls(stack)[Len(stack)].then = Top.then
  /\ Top.node \in Node /\ DOMAIN View(nodes) = Node /\ None \notin Node /\ IsGraph(nodes)
  /\ Unique(nodes) /\ \A n \in Node : nodes[n].context = "host" /\ nodes[n].name \in Name \cup {Root}
  /\ OpenNodes(Calls(stack)) \subseteq Node

LEMMA TopIsInOrder ==
  ASSUME Typed, Ordered, stack # <<>>
  PROVE  TopInOrder
<1>1. /\ Len(stack) \in Nat \ {0} /\ DOMAIN stack = 1..Len(stack) /\ Top = stack[Len(stack)]
      /\ Top.node \in Node
  BY TopFacts
<1>2. /\ DOMAIN Calls(stack) = 1..Len(stack) /\ Len(stack) \in DOMAIN stack
      /\ Calls(stack)[Len(stack)].node = Top.node /\ Calls(stack)[Len(stack)].then = Top.then
  BY <1>1, CallsFacts
<1>3. IsGraph(nodes) /\ None \notin Node
  BY NoneIsNoNode DEF Typed, IsGraph, Node
<1>4. NamesInOrder(View(nodes)) /\ DOMAIN View(nodes) = Node
  BY ViewFacts DEF Ordered, Structure, Node
<1>5. \A n \in Node : View(nodes)[n].name = nodes[n].name /\ View(nodes)[n].context = nodes[n].context
  BY ViewFacts DEF Node
<1>6. Unique(nodes)
  BY <1>4, <1>5 DEF NamesInOrder, Unique, Node
<1>7. \A n \in Node : nodes[n].context = "host"
  BY <1>4, <1>5 DEF NamesInOrder
<1>8. \A n \in Node : nodes[n].name \in Name \cup {Root}
  BY <1>3 DEF IsGraph, IsNode, TypedNode, Key, Node
<1>9. OpenNodes(Calls(stack)) \subseteq Node
  BY <1>1, <1>2, <1>4, CallFacts DEF Ordered
<1> QED
  BY <1>1, <1>2, <1>3, <1>4, <1>6, <1>7, <1>8, <1>9 DEF TopInOrder

\* A requirement that is expanded is an ordinary one of the node on top.
OrdinaryRequire ==
  /\ Require.kind = "normal" /\ IsPublic /\ RequireContext = "host" /\ Require.name \in Name
  /\ RequireKey = <<Require.name, "host">> /\ RequireKey \in Key
  /\ RequiresName(Self.recipe.requires, Require.name)
  /\ Joining = {Top.node} \cup Self.inverse

LEMMA RequireIsOrdinary ==
  ASSUME Typed, Ordered, Expanding
  PROVE  OrdinaryRequire
<1>1. stack # <<>> /\ Top.todo # <<>> /\ Require \in Requirement /\ Require.kind # "override"
  BY ExpandingFacts
<1>2. TopInOrder
  BY <1>1, TopIsInOrder
<1>3. IsFrame(nodes, Top) /\ Self = nodes[Top.node]
  BY <1>1, TopFacts
<1>4. Expected(nodes, Top)
  BY <1>2 DEF Ordered, Complete, TopInOrder
<1>5. Todo(Top.todo, Self.recipe.requires)
  BY <1>3, <1>4 DEF Expected
<1>6. /\ Require.kind \in {"normal", "override"} /\ ~Require.switch
      /\ Require.kind = "normal" => RequiresName(Self.recipe.requires, Require.name)
  BY <1>1, <1>3, <1>5, LessToDo DEF IsFrame, Require
<1>7. RequireContext = "host"
  BY <1>2, <1>3, <1>6 DEF RequireContext, TopInOrder
<1>8. Require.name \in Name
  BY <1>1 DEF Requirement
<1>9. RequireKey \in Key
  BY <1>7, <1>8 DEF RequireKey, Key, Context
<1> QED
  BY <1>1, <1>6, <1>7, <1>8, <1>9 DEF OrdinaryRequire, RequireKey, IsPublic, Joining

\* A node made while a call is open: nothing had its name.
GrowsView(nt) == Extends(View(nt), View(nodes), Top.node, New, EdgeTo(New))

LEMMA HeldWithNew ==
  ASSUME NEW ns, NEW nt, IsGraph(ns), IsGraph(nt), NEW m, DOMAIN nt = DOMAIN ns \cup {m}, m \notin DOMAIN ns,
         \A n \in DOMAIN ns : KeyIn(nt, n) = KeyIn(ns, n) /\ KeyIn(ns, n) # KeyIn(nt, m),
         NEW dict, IsDict(ns, dict), IsDict(nt, AddKey(dict, KeyIn(nt, m), m))
  PROVE  Held(AddKey(dict, KeyIn(nt, m), m)) = Held(dict) \cup {m}
<1> DEFINE key == KeyIn(nt, m)
           more == AddKey(dict, key, m)
<1>1. /\ Held(dict) \subseteq DOMAIN ns
      /\ \A n \in DOMAIN ns : (n \in Held(dict)) <=> dict[KeyIn(ns, n)] = n
  BY HeldDict
<1>2. /\ Held(more) \subseteq DOMAIN nt
      /\ \A n \in DOMAIN nt : (n \in Held(more)) <=> more[KeyIn(nt, n)] = n
  BY HeldDict
<1>3. \A n \in DOMAIN nt : KeyIn(nt, n) \in Key
  BY DEF IsGraph, IsNode, TypedNode, KeyIn
<1>4. \A k \in Key : IF k = key THEN more[k] = m ELSE more[k] = dict[k]
  BY DEF AddKey
<1>5. m \in Held(more)
  BY <1>2, <1>3, <1>4
<1>6. \A n \in DOMAIN ns : (n \in Held(more)) <=> (n \in Held(dict))
  BY <1>1, <1>2, <1>3, <1>4
<1> HIDE DEF more
<1>7. Held(more) = Held(dict) \cup {m}
  BY <1>1, <1>2, <1>5, <1>6
<1> QED
  BY <1>7 DEF more

LEMMA NamesWithNew ==
  ASSUME NEW ns, NEW nt, IsGraph(ns), IsGraph(nt), NEW m, DOMAIN nt = DOMAIN ns \cup {m}, m \notin DOMAIN ns,
         \A n \in DOMAIN ns : nt[n].name = ns[n].name /\ ns[n].name # nt[m].name,
         NEW dict, IsNames(ns, dict), NEW more, IsNames(nt, more),
         \A k \in Name \cup {Root} : IF k = nt[m].name THEN more[k] = m ELSE more[k] = dict[k]
  PROVE  Held(more) = Held(dict) \cup {m}
<1>1. /\ Held(dict) \subseteq DOMAIN ns
      /\ \A n \in DOMAIN ns : (n \in Held(dict)) <=> dict[ns[n].name] = n
  BY HeldNames
<1>2. /\ Held(more) \subseteq DOMAIN nt
      /\ \A n \in DOMAIN nt : (n \in Held(more)) <=> more[nt[n].name] = n
  BY HeldNames
<1>3. \A n \in DOMAIN nt : nt[n].name \in Name \cup {Root}
  BY DEF IsGraph, IsNode, TypedNode, Key
<1>4. m \in Held(more)
  BY <1>2, <1>3
<1>5. \A n \in DOMAIN ns : n \in DOMAIN nt /\ more[nt[n].name] = dict[ns[n].name]
  BY <1>3
<1>6. \A n \in DOMAIN ns : (n \in Held(more)) <=> (n \in Held(dict))
  BY <1>1, <1>2, <1>5
<1> QED
  BY <1>1, <1>2, <1>4, <1>6

LEMMA HeldOnly ==
  ASSUME NEW n, n # None
  PROVE  /\ \A key \in Key : Held(OnlyKey(key, n)) = {n}
         /\ \A name \in Name \cup {Root} : Held(OnlyName(name, n)) = {n}
BY DEF Held, OnlyKey, OnlyName

LEMMA NewIsUnknown ==
  ASSUME Typed, TopInOrder, OrdinaryRequire, Sees(nodes, Top.node) = Node, Previous = None
  PROVE  \A y \in Node : nodes[y].name # Require.name
<1>1. IsDict(nodes, Self.public_deps) /\ Self = nodes[Top.node]
  BY DEF TopInOrder, IsGraph, IsNode, TypedNode, Self, Node
<1>2. \A k \in Key : Self.public_deps[k] = None <=> \A n \in Held(Self.public_deps) : KeyIn(nodes, n) # k
  BY <1>1, HeldDict DEF TopInOrder
<1>3. \A n \in Node : KeyIn(nodes, n) # RequireKey
  BY <1>1, <1>2 DEF Sees, Previous, OrdinaryRequire
<1> QED
  BY <1>3 DEF KeyIn, TopInOrder, OrdinaryRequire

\* The view of a graph with a new node, ...
LEMMA GrownView ==
  ASSUME Typed, TopInOrder, OrdinaryRequire, Sees(nodes, Top.node) = Node, Previous = None,
         NEW nt, NEW r, Grown(nt, r)
  PROVE  GrowsView(nt)
<1> DEFINE n == Top.node
           m == New
           joining == {n} \cup nodes[n].inverse
<1>1. \A y \in Node : nodes[y].name # Require.name
  BY NewIsUnknown
<1>2. /\ IsGraph(nt) /\ DOMAIN nt = Node \cup {m} /\ m \notin Node /\ m \in DOMAIN nt
      /\ nt[m].name = Require.name /\ nt[m].context = "host" /\ nt[m].edges = {} /\ nt[m].inverse = Joining
      /\ nt[m].ancestors = Self.ancestors \cup {KeyOf(Top.node)}
      /\ nt[m].public_closure = OnlyKey(RequireKey, m) /\ nt[m].transitive = OnlyName(Require.name, m)
      /\ nt[m].public_deps = nt[n].public_deps
  BY DEF Grown, OrdinaryRequire
<1>3. /\ Joining = joining /\ Self = nodes[n] /\ n \in Node /\ IsGraph(nodes) /\ n \in joining
      /\ \A y \in Node : nodes[y].context = "host"
      /\ Require.name \in Name /\ RequireKey = <<Require.name, "host">> /\ RequireKey \in Key /\ IsPublic
  BY DEF OrdinaryRequire, TopInOrder, Self
<1> HIDE DEF n, m, joining
<1>4. ASSUME NEW y \in Node
      PROVE  /\ Same(nt[y], nodes[y], {"public_closure", "public_deps", "edges", "transitive"})
             /\ nt[y].edges = IF y = n THEN nodes[y].edges \cup {EdgeTo(m)} ELSE nodes[y].edges
             /\ nt[y].public_closure = IF y \in joining THEN AddKey(nodes[y].public_closure, RequireKey, m)
                                       ELSE nodes[y].public_closure
             /\ nt[y].public_deps = IF y \in joining THEN AddKey(nodes[y].public_deps, RequireKey, m)
                                    ELSE nodes[y].public_deps
             /\ nt[y].transitive =
                  IF y = n THEN [nodes[y].transitive EXCEPT ![Require.name] = m] ELSE nodes[y].transitive
  BY <1>3 DEF Grown, n, m
<1>5. ASSUME NEW y \in Node
      PROVE  /\ nt[y].name = nodes[y].name /\ nt[y].context = nodes[y].context /\ nt[y].recipe = nodes[y].recipe
             /\ nt[y].inverse = nodes[y].inverse /\ nt[y].ancestors = nodes[y].ancestors
  <2>1. Same(nt[y], nodes[y], {"public_closure", "public_deps", "edges", "transitive"})
    BY <1>4
  <2> QED
    BY <2>1 DEF Same, NodeFields
<1>6. KeyIn(nt, m) = RequireKey
  BY <1>2, <1>3 DEF KeyIn
<1>7. \A y \in Node : KeyIn(nt, y) = KeyIn(nodes, y) /\ KeyIn(nodes, y) # KeyIn(nt, m)
  BY <1>1, <1>3, <1>5, <1>6 DEF KeyIn
<1>8. \A y \in Node : /\ IsDict(nodes, nodes[y].public_closure) /\ IsDict(nodes, nodes[y].public_deps)
                      /\ IsNames(nodes, nodes[y].transitive)
  BY <1>3 DEF IsGraph, IsNode, TypedNode, Node
<1>9. \A y \in Node : /\ IsDict(nt, nt[y].public_closure) /\ IsDict(nt, nt[y].public_deps)
                      /\ IsNames(nt, nt[y].transitive)
  BY <1>2 DEF IsGraph, IsNode, TypedNode
<1>10. m # None
  BY <1>2, NoneIsNoNode DEF IsGraph
<1>11. ASSUME NEW y \in Node
       PROVE  Has(nt, y) = Has(nodes, y) \cup IF y \in joining THEN {m} ELSE {}
  <2>1. CASE y \in joining
    <3>1. nt[y].public_closure = AddKey(nodes[y].public_closure, KeyIn(nt, m), m)
      BY <1>4, <1>6, <2>1
    <3>2. Held(AddKey(nodes[y].public_closure, KeyIn(nt, m), m)) = Held(nodes[y].public_closure) \cup {m}
      BY <1>2, <1>3, <1>7, <1>8, <1>9, <3>1, HeldWithNew DEF Node
    <3> QED
      BY <2>1, <3>1, <3>2 DEF Has
  <2>2. CASE y \notin joining
    BY <1>4, <2>2 DEF Has
  <2> QED
    BY <2>1, <2>2
<1>12. ASSUME NEW y \in Node
       PROVE  Sees(nt, y) = Sees(nodes, y) \cup IF y \in joining THEN {m} ELSE {}
  <2>1. CASE y \in joining
    <3>1. nt[y].public_deps = AddKey(nodes[y].public_deps, KeyIn(nt, m), m)
      BY <1>4, <1>6, <2>1
    <3>2. Held(AddKey(nodes[y].public_deps, KeyIn(nt, m), m)) = Held(nodes[y].public_deps) \cup {m}
      BY <1>2, <1>3, <1>7, <1>8, <1>9, <3>1, HeldWithNew DEF Node
    <3> QED
      BY <2>1, <3>1, <3>2 DEF Sees
  <2>2. CASE y \notin joining
    BY <1>4, <2>2 DEF Sees
  <2> QED
    BY <2>1, <2>2
<1>13. ASSUME NEW y \in Node
       PROVE  Passes(nt, y) = Passes(nodes, y) \cup IF y = n THEN {m} ELSE {}
  <2>1. CASE y = n
    <3>1. nt[y].transitive = [nodes[y].transitive EXCEPT ![Require.name] = m]
      BY <1>4, <2>1
    <3>2. \A k \in Name \cup {Root} : IF k = nt[m].name THEN nt[y].transitive[k] = m
                                      ELSE nt[y].transitive[k] = nodes[y].transitive[k]
      <4>1. DOMAIN nodes[y].transitive = Name \cup {Root}
        BY <1>8 DEF IsNames
      <4> QED
        BY <1>2, <3>1, <4>1
    <3>3. Held(nt[y].transitive) = Held(nodes[y].transitive) \cup {m}
      <4>1. /\ DOMAIN nt = DOMAIN nodes \cup {m} /\ m \notin DOMAIN nodes
            /\ \A x \in DOMAIN nodes : nt[x].name = nodes[x].name /\ nodes[x].name # nt[m].name
        BY <1>1, <1>2, <1>5 DEF Node
      <4>2. /\ IsGraph(nodes) /\ IsGraph(nt) /\ IsNames(nodes, nodes[y].transitive)
            /\ IsNames(nt, nt[y].transitive)
        BY <1>2, <1>3, <1>8, <1>9
      <4> QED
        BY <3>2, <4>1, <4>2, NamesWithNew
    <3> QED
      BY <2>1, <3>3 DEF Passes
  <2>2. CASE y # n
    BY <1>4, <2>2 DEF Passes
  <2> QED
    BY <2>1, <2>2
<1>14. Has(nt, m) = {m} /\ Passes(nt, m) = {m}
  BY <1>2, <1>3, <1>10, HeldOnly DEF Has, Passes
<1>15. Sees(nt, m) = Sees(nodes, n) \cup {m}
  <2>1. Sees(nt, m) = Sees(nt, n)
    BY <1>2 DEF Sees
  <2> QED
    BY <1>3, <1>12, <2>1
<1>16. /\ EdgeTo(m).dst = m /\ EdgeTo(m).name = Require.name /\ EdgeTo(m).kind = "normal"
       /\ RequiresName(nodes[n].recipe.requires, Require.name)
  BY <1>3 DEF EdgeTo, OrdinaryRequire
<1>17. Require.name # Root
  BY <1>3, WorldAssumption
<1> DEFINE h == View(nt)
           g == View(nodes)
<1>18. DOMAIN h = DOMAIN g \cup {m} /\ m \notin DOMAIN g /\ DOMAIN g = Node
  BY <1>2, ViewFacts DEF Node
<1>19. ASSUME NEW y \in Node
       PROVE  /\ g[y].has = Has(nodes, y) /\ g[y].sees = Sees(nodes, y) /\ g[y].passes = Passes(nodes, y)
              /\ g[y].inverse = nodes[y].inverse /\ g[y].ancestors = nodes[y].ancestors
              /\ g[y].edges = nodes[y].edges /\ g[y].name = nodes[y].name
              /\ g[y].context = nodes[y].context /\ g[y].recipe = nodes[y].recipe
  BY ViewFacts DEF Node
<1>20. ASSUME NEW y \in DOMAIN nt
       PROVE  /\ h[y].has = Has(nt, y) /\ h[y].sees = Sees(nt, y) /\ h[y].passes = Passes(nt, y)
              /\ h[y].inverse = nt[y].inverse /\ h[y].ancestors = nt[y].ancestors
              /\ h[y].edges = nt[y].edges /\ h[y].name = nt[y].name
              /\ h[y].context = nt[y].context /\ h[y].recipe = nt[y].recipe
  BY ViewFacts
<1> HIDE DEF h, g
<1>21. ASSUME NEW y \in DOMAIN g
       PROVE  /\ h[y].has = g[y].has \cup IF y \in {n} \cup g[n].inverse THEN {m} ELSE {}
              /\ h[y].sees = g[y].sees \cup IF y \in {n} \cup g[n].inverse THEN {m} ELSE {}
              /\ h[y].passes = g[y].passes \cup IF y = n THEN {m} ELSE {}
              /\ h[y].edges = g[y].edges \cup IF y = n THEN {EdgeTo(m)} ELSE {}
              /\ h[y].inverse = g[y].inverse /\ h[y].ancestors = g[y].ancestors
              /\ h[y].name = g[y].name /\ h[y].context = g[y].context /\ h[y].recipe = g[y].recipe
  <2>1. y \in Node /\ y \in DOMAIN nt /\ {n} \cup g[n].inverse = joining
    BY <1>2, <1>3, <1>18, <1>19, <1>21 DEF joining
  <2>2. h[y].edges = g[y].edges \cup IF y = n THEN {EdgeTo(m)} ELSE {}
    <3>1. IF y = n THEN h[y].edges = g[y].edges \cup {EdgeTo(m)} ELSE h[y].edges = g[y].edges
      BY <1>4, <1>19, <1>20, <2>1
    <3> QED
      BY <3>1
  <2> QED
    BY <1>5, <1>11, <1>12, <1>13, <1>19, <1>20, <2>1, <2>2
<1>22. /\ h[m].has = {m} /\ h[m].passes = {m} /\ h[m].sees = g[n].sees \cup {m} /\ h[m].edges = {}
       /\ h[m].inverse = {n} \cup g[n].inverse
       /\ h[m].ancestors = g[n].ancestors \cup {<<g[n].name, g[n].context>>}
       /\ h[m].context = "host" /\ h[m].name # Root /\ \A y \in DOMAIN g : g[y].name # h[m].name
  <2>1. KeyOf(Top.node) = <<g[n].name, g[n].context>>
    BY <1>3, <1>19 DEF KeyOf, n
  <2> QED
    BY <1>1, <1>2, <1>3, <1>14, <1>15, <1>17, <1>18, <1>19, <1>20, <2>1 DEF joining
<1>23. /\ EdgeTo(m).dst = m /\ EdgeTo(m).name = h[m].name /\ EdgeTo(m).kind = "normal"
       /\ RequiresName(g[n].recipe.requires, EdgeTo(m).name)
  BY <1>2, <1>3, <1>16, <1>19, <1>20
<1>24. Extends(h, g, n, m, EdgeTo(m))
  BY <1>18, <1>21, <1>22, <1>23 DEF Extends
<1> QED
  BY <1>24 DEF GrowsView, h, g, n, m

\* What a requirement finds among what its node sees.
PreviousSeen ==
  /\ Previous \in Sees(nodes, Top.node) /\ Previous \in Node
  /\ nodes[Previous].name = Require.name /\ KeyOf(Previous) = RequireKey

LEMMA PreviousIsSeen ==
  ASSUME Typed, TopInOrder, OrdinaryRequire
  PROVE  /\ Previous \in Node => PreviousSeen
         /\ Previous \in Node \cup {None}
         /\ \A p \in Sees(nodes, Top.node) : nodes[p].name = Require.name => Previous = p
<1>1. IsDict(nodes, Self.public_deps) /\ Self = nodes[Top.node]
  BY DEF TopInOrder, IsGraph, IsNode, TypedNode, Self, Node
<1>2. Previous = Self.public_deps[RequireKey] /\ RequireKey \in Key /\ None \notin Node
  BY DEF Previous, OrdinaryRequire, TopInOrder
<1>3. Previous \in Node \cup {None} /\ (Previous # None => KeyIn(nodes, Previous) = RequireKey)
  BY <1>1, <1>2 DEF IsDict, Node
<1>4. /\ Held(Self.public_deps) \subseteq Node
      /\ \A n \in Node : (n \in Held(Self.public_deps)) <=> Self.public_deps[KeyIn(nodes, n)] = n
  BY <1>1, HeldDict DEF TopInOrder, Node
<1>5. ASSUME Previous \in Node PROVE PreviousSeen
  <2>1. KeyIn(nodes, Previous) = RequireKey
    BY <1>2, <1>3, <1>5
  <2>2. Previous \in Held(Self.public_deps)
    BY <1>2, <1>4, <1>5, <2>1
  <2>3. nodes[Previous].name = Require.name
    BY <2>1 DEF KeyIn, RequireKey
  <2>4. KeyOf(Previous) = RequireKey
    BY <2>1 DEF KeyIn, KeyOf
  <2> QED
    BY <1>1, <1>5, <2>2, <2>3, <2>4 DEF PreviousSeen, Sees
<1>6. ASSUME NEW p \in Sees(nodes, Top.node), nodes[p].name = Require.name PROVE Previous = p
  <2>1. p \in Held(Self.public_deps) /\ p \in Node
    BY <1>1, <1>4 DEF Sees
  <2>2. KeyIn(nodes, p) = RequireKey
    BY <1>6, <2>1 DEF KeyIn, TopInOrder, OrdinaryRequire
  <2> QED
    BY <1>2, <1>4, <2>1, <2>2
<1> QED
  BY <1>3, <1>5, <1>6

JoinsView(nt) == Joins(View(nt), View(nodes), Top.node, Previous, EdgeTo(Previous))

\* ... or with a joined one.
LEMMA LinkedView ==
  ASSUME Typed, TopInOrder, OrdinaryRequire, PreviousSeen, NEW nt, Linked(nt)
  PROVE  JoinsView(nt)
<1> DEFINE n == Top.node
           p == Previous
           joining == {n} \cup nodes[n].inverse
<1>1. DOMAIN nt = Node /\ p \in Node /\ n \in Node
  BY DEF Linked, PreviousSeen, TopInOrder
<1>2. /\ Joining = joining /\ Self = nodes[n] /\ IsPublic /\ Unique(nodes)
      /\ KeyOf(n) = <<nodes[n].name, nodes[n].context>>
  BY DEF OrdinaryRequire, TopInOrder, Self, KeyOf
<1> HIDE DEF n, p, joining
<1>3. ASSUME NEW y \in Node
      PROVE  /\ Same(nt[y], nodes[y], Links)
             /\ nt[y].edges = IF y = n /\ ~\E e \in nodes[y].edges : e.dst = p
                              THEN nodes[y].edges \cup {EdgeTo(p)} ELSE nodes[y].edges
             /\ nt[y].ancestors = IF y \in Has(nodes, p)
                                  THEN nodes[y].ancestors \cup Self.ancestors \cup {KeyOf(n)}
                                  ELSE nodes[y].ancestors
  BY DEF Linked, n, p
<1>4. ASSUME NEW y \in Node
      PROVE  nt[y].inverse = nodes[y].inverse \cup (IF y = p THEN {n} ELSE {})
                              \cup (IF y \in Passes(nodes, p) THEN joining ELSE {})
  BY <1>2 DEF Linked, n, p
<1>5. ASSUME NEW y \in Node
      PROVE  /\ Has(nt, y) = Has(nodes, y) \cup (IF y = n THEN {p} ELSE {})
                               \cup (IF y \in joining THEN Passes(nodes, p) ELSE {})
             /\ Sees(nt, y) = Sees(nodes, y) \cup (IF y = n THEN {p} ELSE {})
                               \cup (IF y \in joining THEN Passes(nodes, p) ELSE {})
             /\ Passes(nt, y) = Passes(nodes, y) \cup (IF y = n THEN Passes(nodes, p) ELSE {})
  BY <1>2 DEF Linked, n, p
<1>6. ASSUME NEW y \in Node
      PROVE  nt[y].name = nodes[y].name /\ nt[y].context = nodes[y].context /\ nt[y].recipe = nodes[y].recipe
  <2>1. Same(nt[y], nodes[y], Links)
    BY <1>3
  <2> QED
    BY <2>1 DEF Same, NodeFields, Links
<1> DEFINE h == View(nt)
           g == View(nodes)
<1>7. DOMAIN h = Node /\ DOMAIN g = Node
  BY <1>1, ViewFacts DEF Node
<1>8. ASSUME NEW y \in Node
      PROVE  /\ g[y].has = Has(nodes, y) /\ g[y].sees = Sees(nodes, y) /\ g[y].passes = Passes(nodes, y)
             /\ g[y].inverse = nodes[y].inverse /\ g[y].ancestors = nodes[y].ancestors
             /\ g[y].edges = nodes[y].edges /\ g[y].name = nodes[y].name
             /\ g[y].context = nodes[y].context /\ g[y].recipe = nodes[y].recipe
  BY ViewFacts DEF Node
<1>9. ASSUME NEW y \in Node
      PROVE  /\ h[y].has = Has(nt, y) /\ h[y].sees = Sees(nt, y) /\ h[y].passes = Passes(nt, y)
             /\ h[y].inverse = nt[y].inverse /\ h[y].ancestors = nt[y].ancestors
             /\ h[y].edges = nt[y].edges /\ h[y].name = nt[y].name
             /\ h[y].context = nt[y].context /\ h[y].recipe = nt[y].recipe
  BY <1>1, ViewFacts
<1> HIDE DEF h, g
<1>10. joining = {n} \cup g[n].inverse
  BY <1>1, <1>8 DEF joining
<1>11. \A y \in Node :
         h[y].has = g[y].has \cup (IF y = n THEN {p} ELSE {}) \cup (IF y \in joining THEN g[p].passes ELSE {})
  BY <1>1, <1>5, <1>8, <1>9
<1>12. \A y \in Node :
         h[y].sees = g[y].sees \cup (IF y = n THEN {p} ELSE {}) \cup (IF y \in joining THEN g[p].passes ELSE {})
  BY <1>1, <1>5, <1>8, <1>9
<1>13. \A y \in Node : h[y].passes = g[y].passes \cup (IF y = n THEN g[p].passes ELSE {})
  BY <1>1, <1>5, <1>8, <1>9
<1>14. \A y \in Node :
         h[y].inverse = g[y].inverse \cup (IF y = p THEN {n} ELSE {}) \cup (IF y \in g[p].passes THEN joining ELSE {})
  BY <1>1, <1>4, <1>8, <1>9
<1>15. \A y \in Node :
         h[y].ancestors = IF y \in g[p].has THEN g[y].ancestors \cup g[n].ancestors \cup {<<g[n].name, g[n].context>>}
                          ELSE g[y].ancestors
  <2> SUFFICES ASSUME NEW y \in Node
               PROVE  h[y].ancestors =
                        IF y \in g[p].has THEN g[y].ancestors \cup g[n].ancestors \cup {<<g[n].name, g[n].context>>}
                        ELSE g[y].ancestors
    OBVIOUS
  <2>1. g[p].has = Has(nodes, p) /\ g[y].ancestors = nodes[y].ancestors /\ g[n].ancestors = Self.ancestors
        /\ <<g[n].name, g[n].context>> = KeyOf(n) /\ h[y].ancestors = nt[y].ancestors
    BY <1>1, <1>2, <1>8, <1>9
  <2> QED
    BY <1>3, <2>1
<1>16. \A y \in Node :
         h[y].edges = IF y = n /\ ~\E e \in g[y].edges : e.dst = p THEN g[y].edges \cup {EdgeTo(p)} ELSE g[y].edges
  <2> SUFFICES ASSUME NEW y \in Node
               PROVE  h[y].edges = IF y = n /\ ~\E e \in g[y].edges : e.dst = p
                                   THEN g[y].edges \cup {EdgeTo(p)} ELSE g[y].edges
    OBVIOUS
  <2>1. g[y].edges = nodes[y].edges /\ h[y].edges = nt[y].edges
    BY <1>8, <1>9
  <2> QED
    BY <1>3, <2>1
<1>17. \A y \in Node : h[y].name = g[y].name /\ h[y].context = g[y].context /\ h[y].recipe = g[y].recipe
  BY <1>6, <1>8, <1>9
<1>18. /\ EdgeTo(p).dst = p /\ EdgeTo(p).name = g[p].name /\ EdgeTo(p).kind = "normal"
       /\ RequiresName(g[n].recipe.requires, EdgeTo(p).name)
  BY <1>1, <1>2, <1>8 DEF EdgeTo, OrdinaryRequire, PreviousSeen, p
<1>19. Joins(h, g, n, p, EdgeTo(p))
  BY <1>7, <1>10, <1>11, <1>12, <1>13, <1>14, <1>15, <1>16, <1>17, <1>18 DEF Joins
<1> QED
  BY <1>19 DEF JoinsView, h, g, n, p

\* The calls when one goes on, ...
LEMMA CallAdvanced ==
  ASSUME Typed, stack # <<>>, Top.todo # <<>>
  PROVE  SameCalls(Advanced, stack)
<1>1. /\ DOMAIN Advanced = DOMAIN stack
      /\ Advanced[Len(stack)].node = Top.node /\ Advanced[Len(stack)].then = Top.then
      /\ \A i \in DOMAIN stack : i # Len(stack) => Advanced[i] = stack[i]
  BY AdvancedFacts
<1>2. Top = stack[Len(stack)]
  BY TopFacts
<1> QED
  BY <1>1, <1>2 DEF SameCalls

\* ... or another one starts.
LEMMA CallPushed ==
  ASSUME Typed, stack # <<>>, Top.todo # <<>>, NEW f
  PROVE  CallAdded(Calls(Append(Advanced, f)), Calls(stack), Len(stack), f.node, f.then)
<1>1. IsList(Advanced) /\ Len(Advanced) = Len(stack) /\ DOMAIN Advanced = DOMAIN stack
  BY AdvancedFacts
<1>2. DOMAIN stack = 1..Len(stack)
  BY TopFacts
<1> DEFINE st == Append(Advanced, f)
<1>3. /\ DOMAIN st = 1..(Len(stack) + 1) /\ st[Len(stack) + 1] = f
      /\ \A i \in DOMAIN stack : st[i] = Advanced[i]
      /\ Len(stack) \in Nat
  BY <1>1, TopAdded
<1> HIDE DEF st
<1>4. \A i \in DOMAIN stack : Advanced[i].node = stack[i].node /\ Advanced[i].then = stack[i].then
  BY CallAdvanced DEF SameCalls
<1>5. \A i \in 1..Len(stack) : Calls(st)[i] = Calls(stack)[i]
  <2>1. \A i \in 1..Len(stack) : i \in DOMAIN st
    BY <1>3
  <2> QED
    BY <1>2, <1>3, <1>4, <2>1 DEF Calls
<1>6. Len(stack) + 1 \in DOMAIN st
  BY <1>3
<1>7. /\ DOMAIN Calls(st) = 1..(Len(stack) + 1)
      /\ Calls(st)[Len(stack) + 1].node = f.node /\ Calls(st)[Len(stack) + 1].then = f.then
  BY <1>3, <1>6, CallsFacts
<1> QED
  BY <1>5, <1>7 DEF CallAdded, st

\* A node that is expanded for the first time sees all others, ...
LEMMA OpenTopSees ==
  ASSUME Ordered, TopInOrder, IsOpen(Calls(stack), Len(stack))
  PROVE  /\ Sees(nodes, Top.node) = Node
         /\ OpenNodes(Calls(stack)) = {Top.node} \cup nodes[Top.node].inverse
         /\ nodes[Top.node].ancestors = {KeyOf(m) : m \in nodes[Top.node].inverse}
<1> DEFINE g == View(nodes)
           n == Top.node
<1>1. Structure(g, Calls(stack)) /\ DOMAIN g = Node /\ n \in Node
  BY DEF Ordered, TopInOrder
<1>2. OpenNodes(Calls(stack)) = {n} \cup g[n].inverse /\ g[n].sees = DOMAIN g
  <2> DEFINE c == Calls(stack)
             size == Len(stack)
  <2>1. /\ size \in Nat \ {0} /\ DOMAIN c = 1..size /\ Structure(g, c) /\ IsOpen(c, size)
        /\ c[size].node = n
    BY <1>1 DEF TopInOrder
  <2> HIDE DEF g, c, size, n
  <2>2. OpenAtTop(g, c, c[size].node)
    BY <2>1, OpenTop
  <2> QED
    BY <2>1, <2>2 DEF c, OpenAtTop
<1>3. /\ g[n].sees = Sees(nodes, n) /\ g[n].inverse = nodes[n].inverse
      /\ g[n].ancestors = nodes[n].ancestors
      /\ \A m \in Node : g[m].name = nodes[m].name /\ g[m].context = nodes[m].context
  BY <1>1, ViewFacts DEF Node
<1>4. g[n].ancestors = {<<g[m].name, g[m].context>> : m \in g[n].inverse} /\ g[n].inverse \subseteq Node
  BY <1>1 DEF Structure, SetsInOrder
<1>5. {<<g[m].name, g[m].context>> : m \in g[n].inverse} = {KeyOf(m) : m \in nodes[n].inverse}
  BY <1>3, <1>4 DEF KeyOf
<1> QED
  BY <1>1, <1>2, <1>3, <1>4, <1>5

\* ... and one that is expanded again has whatever it requires.
HadBefore ==
  /\ PreviousSeen /\ Top.node \notin OpenNodes(Calls(stack))
  /\ Previous \in Has(nodes, Top.node) \ {Top.node} /\ Previous \notin OpenNodes(Calls(stack))
  /\ \E e \in nodes[Top.node].edges : e.dst = Previous

LEMMA ClosedTopHas ==
  ASSUME Typed, Ordered, TopInOrder, OrdinaryRequire, ~IsOpen(Calls(stack), Len(stack))
  PROVE  HadBefore
<1> DEFINE g == View(nodes)
           n == Top.node
           c == Calls(stack)
<1>1. Structure(g, c) /\ DOMAIN g = Node /\ n \in Node
  BY DEF Ordered, TopInOrder
<1>2. \A y \in Node : /\ g[y].has = Has(nodes, y) /\ g[y].sees = Sees(nodes, y)
                      /\ g[y].edges = nodes[y].edges /\ g[y].name = nodes[y].name
  BY ViewFacts DEF Node
<1>3. Len(stack) \in DOMAIN c /\ c[Len(stack)].node = n /\ DOMAIN c = 1..Len(stack) /\ Len(stack) \in Nat \ {0}
  BY DEF TopInOrder
<1> HIDE DEF g, c
<1>4. n \notin OpenNodes(c)
  BY <1>1, <1>3 DEF Structure, CallsInOrder, c
<1>5. Done(nodes, n)
  BY <1>1, <1>4 DEF Ordered, Complete, Node, c
<1>6. PICK e \in nodes[n].edges : e.name = Require.name
  BY <1>5 DEF Done, HasEdge, OrdinaryRequire, Self, n
<1>7. e.dst \in g[n].has \ {n} /\ e.name = g[e.dst].name
  BY <1>1, <1>2, <1>6 DEF Structure, EdgesInOrder
<1>8. g[n].has \subseteq g[n].sees /\ g[n].sees \subseteq DOMAIN g
      /\ \A x \in g[n].has : n \in g[x].has => x = n
  BY <1>1 DEF Structure, SetsInOrder
<1>9. e.dst \in Node /\ e.dst \in Sees(nodes, n) /\ nodes[e.dst].name = Require.name
  BY <1>1, <1>2, <1>6, <1>7, <1>8
<1>10. Previous = e.dst
  BY <1>9, PreviousIsSeen
<1>11. PreviousSeen
  BY <1>9, <1>10, PreviousIsSeen
<1>12. e.dst \notin OpenNodes(c)
  <2> SUFFICES ASSUME NEW i \in DOMAIN c, IsOpen(c, i), e.dst = c[i].node PROVE FALSE
    BY DEF OpenNodes
  <2>1. i # Len(stack)
    BY DEF c
  <2>2. i \in 1..(Len(stack) - 1)
    BY <1>3, <2>1
  <2>3. n \in g[e.dst].has
    BY <1>1, <1>3, <2>2 DEF Structure, CallsInOrder
  <2> QED
    BY <1>7, <1>8, <2>3
<1> QED
  BY <1>1, <1>2, <1>4, <1>6, <1>7, <1>10, <1>11, <1>12 DEF HadBefore, c

\* Every action keeps the structure.
LEMMA CreateNodeStructure ==
  ASSUME Typed, Ordered, CreateNode
  PROVE  /\ Structure(View(nodes'), Calls(stack'))
         /\ IsOpen(Calls(stack), Len(stack)) /\ stack # <<>> /\ TopInOrder /\ OrdinaryRequire
<1>1. Expanding /\ IsNew
  BY DEF CreateNode
<1>2. stack # <<>> /\ Top.todo # <<>>
  BY <1>1, ExpandingFacts
<1>3. TopInOrder /\ OrdinaryRequire
  BY <1>1, <1>2, TopIsInOrder, RequireIsOrdinary
<1>4. Previous = None
  BY <1>1, <1>3 DEF IsNew, OrdinaryRequire
<1>5. IsOpen(Calls(stack), Len(stack))
  <2>1. None \notin Node
    BY <1>3 DEF TopInOrder
  <2> QED
    BY <1>3, <1>4, <2>1, ClosedTopHas DEF HadBefore, PreviousSeen
<1>6. Sees(nodes, Top.node) = Node
  BY <1>3, <1>5, OpenTopSees
<1>7. PICK r : /\ Grown(nodes', r)
               /\ stack' = Append(Advanced, Frame(New, Top.reqs, Top.options,
                                                  IF IsPublic THEN Top.node ELSE None))
  BY CreateNodeFacts
<1>8. GrowsView(nodes')
  BY <1>3, <1>4, <1>6, <1>7, GrownView
<1> DEFINE f == Frame(New, Top.reqs, Top.options, Top.node)
<1>9. stack' = Append(Advanced, f)
  BY <1>3, <1>7 DEF OrdinaryRequire
<1>10. f.node = New /\ f.then = Top.node
  BY DEF Frame
<1> HIDE DEF f
<1>11. CallAdded(Calls(stack'), Calls(stack), Len(stack), New, Top.node)
  BY <1>2, <1>9, <1>10, CallPushed
<1> DEFINE g == View(nodes)
           h == View(nodes')
           c == Calls(stack)
           d == Calls(stack')
           size == Len(stack)
<1>12. /\ size \in Nat \ {0} /\ DOMAIN c = 1..size /\ Structure(g, c) /\ IsOpen(c, size)
       /\ c[size].node = Top.node /\ None \notin DOMAIN g
       /\ Extends(h, g, c[size].node, New, EdgeTo(New)) /\ CallAdded(d, c, size, New, c[size].node)
  BY <1>3, <1>5, <1>8, <1>11 DEF TopInOrder, Ordered, GrowsView
<1> HIDE DEF g, h, c, d, size
<1>13. Structure(h, d)
  BY <1>12, StructureExtends
<1> QED
  BY <1>2, <1>3, <1>5, <1>13 DEF h, d

\* A node that is joined is not what depends on it: that would be a loop.
DiamondClosed ==
  /\ Structure(View(nodes'), Calls(stack)) /\ PreviousSeen /\ TopInOrder /\ OrdinaryRequire
  /\ Previous \in Has(nodes', Top.node) \ {Top.node} /\ Previous \notin OpenNodes(Calls(stack))
  /\ JoinsView(nodes')
  /\ ~IsOpen(Calls(stack), Len(stack)) => View(nodes') = View(nodes)

LEMMA DiamondIsClosed ==
  ASSUME Typed, Ordered, CloseDiamond
  PROVE  DiamondClosed
<1> DEFINE g == View(nodes)
           h == View(nodes')
           c == Calls(stack)
           size == Len(stack)
           n == Top.node
           p == Previous
           edge == EdgeTo(Previous)
<1>1. Expanding /\ ~IsLoop /\ stack # <<>> /\ Previous \in Node /\ Linked(nodes')
  BY CloseDiamondFacts DEF CloseDiamond
<1>2. TopInOrder /\ OrdinaryRequire
  BY <1>1, TopIsInOrder, RequireIsOrdinary
<1>3. PreviousSeen
  BY <1>1, <1>2, PreviousIsSeen
<1>4. JoinsView(nodes')
  BY <1>1, <1>2, <1>3, LinkedView
<1>5. /\ size \in Nat \ {0} /\ DOMAIN c = 1..size /\ Structure(g, c)
      /\ c[size].node = n /\ None \notin DOMAIN g /\ DOMAIN g = Node /\ n \in Node /\ p \in Node
      /\ Joins(h, g, n, p, edge) /\ DOMAIN nodes' = Node
  BY <1>1, <1>2, <1>4 DEF TopInOrder, Ordered, JoinsView, Linked
<1>6. \A y \in Node : g[y].has = Has(nodes, y) /\ g[y].inverse = nodes[y].inverse /\ g[y].edges = nodes[y].edges
  BY ViewFacts DEF Node
<1>7. h[n].has = Has(nodes', n)
  BY <1>5, ViewFacts
<1>8. CASE IsOpen(c, size)
  <2>1. /\ OpenNodes(c) = {n} \cup nodes[n].inverse
        /\ nodes[n].ancestors = {KeyOf(m) : m \in nodes[n].inverse}
    BY <1>2, <1>8, OpenTopSees
  <2>2. p \notin {n} \cup nodes[n].inverse
    <3>1. KeyOf(p) \notin nodes[n].ancestors \cup {KeyOf(n)}
      BY <1>1, <1>3 DEF IsLoop, PreviousSeen, Self
    <3> QED
      BY <2>1, <3>1
  <2> HIDE DEF g, h, c, size, n, p, edge
  <2>3. p \notin {c[size].node} \cup g[c[size].node].inverse /\ p \in DOMAIN g
        /\ Joins(h, g, c[size].node, p, edge)
    BY <1>5, <1>6, <2>2
  <2>4. Structure(h, c)
    BY <1>5, <1>8, <2>3, StructureJoins
  <2>5. p \in h[n].has \ {n} /\ p \notin OpenNodes(c)
    <3>1. \A y \in DOMAIN g :
            h[y].has = g[y].has \cup (IF y = n THEN {p} ELSE {}) \cup (IF y \in {n} \cup g[n].inverse THEN g[p].passes ELSE {})
      BY <1>5 DEF Joins
    <3>2. p \in h[n].has
      BY <1>5, <3>1
    <3> QED
      BY <2>1, <2>2, <3>2
  <2> QED
    BY <1>2, <1>3, <1>4, <1>7, <1>8, <2>4, <2>5 DEF DiamondClosed, g, h, c, size, n, p
<1>9. CASE ~IsOpen(c, size)
  <2>1. HadBefore
    BY <1>2, <1>9, ClosedTopHas
  <2>2. /\ n \notin OpenNodes(c) /\ p \in g[n].has \ {n} /\ p \notin OpenNodes(c)
        /\ \E e \in g[n].edges : e.dst = p
    BY <1>5, <1>6, <2>1 DEF HadBefore
  <2>3. AllSame(h, g)
    <3> HIDE DEF g, h, c, size, n, p, edge
    <3> QED
      BY <1>5, <2>2, JoinsAgain
  <2>4. h = g
    BY <2>3, SameView
  <2>5. Structure(h, c) /\ p \in Has(nodes', n) \ {n}
    BY <1>5, <1>7, <2>2, <2>4
  <2> QED
    BY <1>2, <1>3, <1>4, <2>2, <2>4, <2>5 DEF DiamondClosed
<1> QED
  BY <1>8, <1>9

LEMMA CloseDiamondStructure ==
  ASSUME Typed, Ordered, CloseDiamond
  PROVE  Structure(View(nodes'), Calls(stack'))
<1>1. DiamondClosed
  BY DiamondIsClosed
<1>2. /\ stack # <<>> /\ Top.todo # <<>> /\ Linked(nodes')
      /\ stack' = IF MustRecurse THEN Append(Advanced, Frame(Previous, Top.reqs, Top.options, None))
                  ELSE Advanced
  BY CloseDiamondFacts
<1>3. CASE ~MustRecurse
  BY <1>1, <1>2, <1>3, CallAdvanced, CallsKept DEF DiamondClosed
<1>4. CASE MustRecurse
  <2> DEFINE f == Frame(Previous, Top.reqs, Top.options, None)
             g == View(nodes')
             c == Calls(stack)
             d == Calls(stack')
             size == Len(stack)
             p == Previous
  <2>1. stack' = Append(Advanced, f) /\ f.node = Previous /\ f.then = None
    BY <1>2, <1>4 DEF Frame
  <2> HIDE DEF f
  <2>2. CallAdded(d, c, size, p, None)
    BY <1>2, <2>1, CallPushed
  <2>3. g[Top.node].has = Has(nodes', Top.node)
    <3>1. Top.node \in DOMAIN nodes'
      BY <1>1, <1>2 DEF DiamondClosed, TopInOrder, Linked
    <3> QED
      BY <3>1, ViewFacts
  <2>4. /\ size \in Nat \ {0} /\ DOMAIN c = 1..size /\ Structure(g, c) /\ c[size].node = Top.node
        /\ p \in g[Top.node].has \ {Top.node} /\ p \notin OpenNodes(c)
    BY <1>1, <2>3 DEF DiamondClosed, TopInOrder
  <2> HIDE DEF g, c, d, size, p
  <2>5. p \in g[c[size].node].has \ {c[size].node}
    BY <2>4
  <2>6. Structure(g, d)
    BY <2>2, <2>4, <2>5, StructureAgain
  <2> QED
    BY <2>6 DEF g, d
<1> QED
  BY <1>3, <1>4

LEMMA ReturnStructure ==
  ASSUME Typed, Ordered, Return
  PROVE  /\ Structure(View(nodes'), Calls(stack'))
         /\ OneLess(Calls(stack'), Calls(stack), Len(stack)) /\ stack # <<>> /\ TopInOrder
         /\ DOMAIN nodes' = Node /\ \A y \in Node : Same(nodes'[y], nodes[y], {"transitive"})
<1> DEFINE g == View(nodes)
           h == View(nodes')
           c == Calls(stack)
           d == Calls(stack')
           size == Len(stack)
<1>1. /\ stack # <<>> /\ stack' = Front(stack) /\ Top.then \in Node \cup {None}
      /\ Top.then = None => nodes' = nodes
      /\ Top.then \in Node => TookOver(nodes', nodes, Top.then, Top.node)
  BY ReturnFacts
<1>2. TopInOrder
  BY <1>1, TopIsInOrder
<1>3. /\ size \in Nat \ {0} /\ DOMAIN c = 1..size /\ Structure(g, c) /\ None \notin DOMAIN g
      /\ c[size].node = Top.node /\ c[size].then = Top.then /\ DOMAIN g = Node
      /\ Top.node \in Node /\ None \notin Node
  BY <1>2 DEF TopInOrder, Ordered
<1>4. CallRemoved(d, c, size)
  <2>1. IsList(stack) /\ DOMAIN stack = 1..size
    BY <1>1, TopFacts DEF Typed
  <2>2. DOMAIN stack' = 1..(size - 1) /\ \A i \in DOMAIN stack' : stack'[i] = stack[i]
    BY <1>1, <2>1, ListFront
  <2>3. \A i \in 1..(size - 1) : i \in DOMAIN stack /\ i \in DOMAIN stack'
    BY <1>3, <2>1, <2>2
  <2> QED
    BY <2>2, <2>3 DEF CallRemoved, Calls
<1>5. DOMAIN nodes' = Node /\ \A y \in Node : Same(nodes'[y], nodes[y], {"transitive"})
  <2>1. CASE Top.then = None
    <3>1. \A y \in Node : nodes[y] = [f \in NodeFields |-> nodes[y][f]]
      BY <1>2 DEF TopInOrder, IsGraph, IsNode, TypedNode, Node
    <3> QED
      BY <1>1, <2>1, <3>1 DEF Same, Node
  <2>2. CASE Top.then \in Node
    BY <1>1, <2>2 DEF TookOver, Node
  <2> QED
    BY <1>1, <2>1, <2>2
<1>6. \A y \in Node : /\ nodes'[y].public_closure = nodes[y].public_closure
                      /\ nodes'[y].public_deps = nodes[y].public_deps
                      /\ nodes'[y].inverse = nodes[y].inverse /\ nodes'[y].ancestors = nodes[y].ancestors
                      /\ nodes'[y].edges = nodes[y].edges /\ nodes'[y].name = nodes[y].name
                      /\ nodes'[y].context = nodes[y].context /\ nodes'[y].recipe = nodes[y].recipe
  BY <1>5 DEF Same, NodeFields
<1>7. ASSUME NEW y \in Node
      PROVE  Passes(nodes', y) = IF y = Top.then THEN Passes(nodes, y) \cup Passes(nodes, Top.node)
                                 ELSE Passes(nodes, y)
  <2>1. CASE y # Top.then
    <3>1. nodes'[y].transitive = nodes[y].transitive
      <4>1. CASE Top.then = None
        BY <1>1, <4>1
      <4>2. CASE Top.then \in Node
        BY <1>1, <2>1, <4>2 DEF TookOver, Node
      <4> QED
        BY <1>1, <4>1, <4>2
    <3> QED
      BY <2>1, <3>1 DEF Passes
  <2>2. CASE y = Top.then
    <3>1. nodes'[y].transitive = Merged(nodes[y].transitive, nodes[Top.node].transitive)
      BY <1>1, <2>2 DEF TookOver, Node
    <3>2. IsNames(nodes, nodes[y].transitive) /\ IsNames(nodes, nodes[Top.node].transitive)
          /\ IsGraph(nodes) /\ Unique(nodes)
      BY <1>2, <1>3 DEF TopInOrder, IsGraph, IsNode, TypedNode, Node
    <3>3. Held(Merged(nodes[y].transitive, nodes[Top.node].transitive))
            = Held(nodes[y].transitive) \cup Held(nodes[Top.node].transitive)
      BY <3>2, MergedFacts
    <3> QED
      BY <2>2, <3>1, <3>3 DEF Passes
  <2> QED
    BY <2>1, <2>2
<1>8. \A y \in Node :
        /\ g[y].has = Has(nodes, y) /\ g[y].sees = Sees(nodes, y) /\ g[y].passes = Passes(nodes, y)
        /\ g[y].inverse = nodes[y].inverse /\ g[y].ancestors = nodes[y].ancestors
        /\ g[y].edges = nodes[y].edges /\ g[y].name = nodes[y].name
        /\ g[y].context = nodes[y].context /\ g[y].recipe = nodes[y].recipe
  BY ViewFacts DEF Node
<1>9. \A y \in Node :
        /\ h[y].has = Has(nodes', y) /\ h[y].sees = Sees(nodes', y) /\ h[y].passes = Passes(nodes', y)
        /\ h[y].inverse = nodes'[y].inverse /\ h[y].ancestors = nodes'[y].ancestors
        /\ h[y].edges = nodes'[y].edges /\ h[y].name = nodes'[y].name
        /\ h[y].context = nodes'[y].context /\ h[y].recipe = nodes'[y].recipe
  BY <1>5, ViewFacts
<1>10. DOMAIN h = DOMAIN g
  BY <1>3, <1>5, ViewFacts
<1>11. \A y \in Node : Has(nodes', y) = Has(nodes, y) /\ Sees(nodes', y) = Sees(nodes, y)
  BY <1>6 DEF Has, Sees
<1> HIDE DEF g, h, c, d, size
<1>12. \A y \in Node : h[y].passes = IF y = Top.then THEN g[y].passes \cup g[Top.node].passes ELSE g[y].passes
  <2> SUFFICES ASSUME NEW y \in Node
               PROVE  h[y].passes = IF y = Top.then THEN g[y].passes \cup g[Top.node].passes ELSE g[y].passes
    OBVIOUS
  <2>1. h[y].passes = Passes(nodes', y) /\ g[y].passes = Passes(nodes, y)
        /\ g[Top.node].passes = Passes(nodes, Top.node)
    BY <1>3, <1>8, <1>9
  <2> QED
    BY <1>7, <2>1
<1>13. Returns(h, g, c[size].then, c[size].node)
  <2>1. \A y \in Node :
          /\ h[y].has = g[y].has /\ h[y].sees = g[y].sees
          /\ h[y].inverse = g[y].inverse /\ h[y].ancestors = g[y].ancestors /\ h[y].edges = g[y].edges
          /\ h[y].name = g[y].name /\ h[y].context = g[y].context /\ h[y].recipe = g[y].recipe
    BY <1>6, <1>8, <1>9, <1>11
  <2>2. Returns(h, g, Top.then, Top.node)
    BY <1>3, <1>10, <1>12, <2>1 DEF Returns
  <2> QED
    BY <1>3, <2>2
<1>14. Structure(h, d)
  BY <1>3, <1>4, <1>13, StructureReturns
<1>15. OneLess(d, c, size)
  BY <1>3, <1>4, OpenRemoved
<1> QED
  BY <1>1, <1>2, <1>5, <1>14, <1>15 DEF g, h, c, d, size

LEMMA CallReplaced ==
  ASSUME Typed, stack # <<>>, NEW f, f.node = Top.node, f.then = Top.then
  PROVE  SameCalls(Append(Front(stack), f), stack)
<1>1. IsList(stack) /\ Top = stack[Len(stack)]
  BY TopFacts DEF Typed
<1> DEFINE st == Append(Front(stack), f)
<1>2. /\ DOMAIN st = DOMAIN stack /\ st[Len(stack)] = f
      /\ \A i \in DOMAIN stack : i # Len(stack) => st[i] = stack[i]
  BY <1>1, TopReplaced
<1> HIDE DEF st
<1>3. SameCalls(st, stack)
  BY <1>1, <1>2 DEF SameCalls
<1> QED
  BY <1>3 DEF st

LEMMA GetNodeRequirementsStructure ==
  ASSUME Typed, Ordered, GetNodeRequirements
  PROVE  Structure(View(nodes'), Calls(stack')) /\ Calls(stack') = Calls(stack)
<1>1. Configures(nodes')
  BY GetNodeRequirementsFacts
<1>2. PICK f : Asking(f) /\ stack' = Append(Front(stack), f)
  BY AskingFacts
<1>3. stack # <<>>
  BY DEF GetNodeRequirements, Configuring, Running
<1>4. f.node = Top.node /\ f.then = Top.then
  BY <1>2 DEF Asking
<1>5. Calls(stack') = Calls(stack)
  BY <1>2, <1>3, <1>4, CallReplaced, CallsKept
<1>6. DOMAIN nodes' = Node /\ \A y \in Node : y # Top.node => nodes'[y] = nodes[y]
  BY <1>1 DEF Configures
<1>7. Same(nodes'[Top.node], nodes[Top.node], Asks)
  BY <1>1 DEF Configures, Self
<1>8. /\ nodes'[Top.node].public_closure = nodes[Top.node].public_closure
      /\ nodes'[Top.node].public_deps = nodes[Top.node].public_deps
      /\ nodes'[Top.node].transitive = nodes[Top.node].transitive
      /\ nodes'[Top.node].inverse = nodes[Top.node].inverse
      /\ nodes'[Top.node].ancestors = nodes[Top.node].ancestors
      /\ nodes'[Top.node].edges = nodes[Top.node].edges /\ nodes'[Top.node].name = nodes[Top.node].name
      /\ nodes'[Top.node].context = nodes[Top.node].context
      /\ nodes'[Top.node].recipe = nodes[Top.node].recipe
  BY <1>7 DEF Same, NodeFields, Asks
<1>9. \A y \in Node :
        /\ nodes'[y].public_closure = nodes[y].public_closure
        /\ nodes'[y].public_deps = nodes[y].public_deps
        /\ nodes'[y].transitive = nodes[y].transitive
        /\ nodes'[y].inverse = nodes[y].inverse
        /\ nodes'[y].ancestors = nodes[y].ancestors
        /\ nodes'[y].edges = nodes[y].edges /\ nodes'[y].name = nodes[y].name
        /\ nodes'[y].context = nodes[y].context
        /\ nodes'[y].recipe = nodes[y].recipe
  BY <1>6, <1>8
<1>10. View(nodes') = View(nodes)
  BY <1>6, <1>9 DEF View, Has, Sees, Passes, Node
<1> QED
  BY <1>5, <1>10 DEF Ordered

\* The first graph has it.
LEMMA InitStructure ==
  ASSUME Init
  PROVE  Structure(View(nodes), Calls(stack))
<1> DEFINE f == Frame(1, NoReqs, NoOptions, None)
<1>1. PICK r : nodes = <<NewNode(1, Root, None, "host", r)>>
  BY DEF Init
<1>2. stack = <<f>> /\ f.node = 1 /\ f.then = None
  BY DEF Init, Frame
<1> DEFINE made == NewNode(1, Root, None, "host", r)
<1>3. IsMade(made, 1, Root, None, "host", r)
  BY NewNodeFacts
<1> HIDE DEF made, f
<1>4. DOMAIN nodes = {1} /\ nodes[1] = made
  BY <1>1 DEF made
<1>5. DOMAIN stack = {1} /\ stack[1] = f
  BY <1>2
<1>6. <<Root, "host">> \in Key /\ Root \in Name \cup {Root} /\ 1 # None
  BY DEF Key, Context, None
<1>7. Has(nodes, 1) = {1} /\ Sees(nodes, 1) = {1} /\ Passes(nodes, 1) = {1}
  BY <1>3, <1>4, <1>6, HeldOnly DEF Has, Sees, Passes, IsMade
<1> DEFINE g == View(nodes)
           c == Calls(stack)
<1>8. /\ DOMAIN g = {1} /\ g[1].has = {1} /\ g[1].sees = {1} /\ g[1].passes = {1}
      /\ g[1].inverse = {} /\ g[1].ancestors = {} /\ g[1].edges = {} /\ g[1].name = Root
      /\ g[1].context = "host"
  <2>1. /\ DOMAIN g = {1} /\ g[1].has = Has(nodes, 1) /\ g[1].sees = Sees(nodes, 1)
        /\ g[1].passes = Passes(nodes, 1) /\ g[1].inverse = made.inverse
        /\ g[1].ancestors = made.ancestors /\ g[1].edges = made.edges /\ g[1].name = made.name
        /\ g[1].context = made.context
    BY <1>4, ViewFacts
  <2> HIDE DEF g
  <2> QED
    BY <1>3, <1>7, <2>1 DEF IsMade
<1>9. DOMAIN c = {1} /\ c[1].node = 1 /\ c[1].then = None
  BY <1>2, <1>5, CallsFacts
<1> HIDE DEF g, c
<1>10. OpenNodes(c) = {1} /\ IsOpen(c, 1) /\ Below(c, 1) = {} /\ 1..(1 - 1) = {}
  BY <1>9 DEF OpenNodes, IsOpen, Below
<1>11. CallsInOrder(g, c)
  BY <1>8, <1>9, <1>10 DEF CallsInOrder
<1>12. NamesInOrder(g)
  BY <1>8 DEF NamesInOrder
<1>13. SetsInOrder(g, c)
  BY <1>8, <1>10 DEF SetsInOrder
<1>14. OpenInOrder(g, c)
  BY <1>8, <1>9, <1>10 DEF OpenInOrder
<1>15. EdgesInOrder(g)
  BY <1>8 DEF EdgesInOrder
<1> QED
  BY <1>11, <1>12, <1>13, <1>14, <1>15 DEF Structure, g, c

\* Whatever a node requires is done, or still to do.
LEMMA CompleteKept ==
  ASSUME Ordered, NEW nt, NEW st,
         \A n \in DOMAIN nt : Alike(nt[n].requires, nt[n].recipe.requires),
         \A n \in Node : MoreEdges(nt, nodes, n),
         \A n \in DOMAIN nt \ OpenNodes(Calls(st)) :
           n \in Node \ OpenNodes(Calls(stack)) \/ Done(nt, n),
         \A i \in DOMAIN st :
           \/ i \in DOMAIN stack /\ i # Len(stack) /\ st[i] = stack[i] /\ stack[i].node \in Node
           \/ Expected(nt, st[i]) /\ (i # Len(st) => st[i].phase = "expand")
  PROVE  Complete(nt, st)
<1>1. ASSUME NEW n \in DOMAIN nt \ OpenNodes(Calls(st)) PROVE Done(nt, n)
  <2>1. CASE n \in Node \ OpenNodes(Calls(stack))
    <3>1. Done(nodes, n)
      BY <2>1 DEF Ordered, Complete, Node
    <3> QED
      BY <2>1, <3>1, StillExpected
  <2> QED
    BY <2>1
<1>2. ASSUME NEW i \in DOMAIN st PROVE Expected(nt, st[i]) /\ (i # Len(st) => st[i].phase = "expand")
  <2>1. CASE i \in DOMAIN stack /\ i # Len(stack) /\ st[i] = stack[i] /\ stack[i].node \in Node
    <3>1. Expected(nodes, stack[i]) /\ stack[i].phase = "expand"
      BY <2>1 DEF Ordered, Complete
    <3>2. Expected(nt, stack[i])
      BY <2>1, <3>1, StillExpected
    <3> QED
      BY <2>1, <3>1, <3>2
  <2> QED
    BY <2>1
<1> QED
  BY <1>1, <1>2 DEF Complete

LEMMA AdvancedExpected ==
  ASSUME Typed, Ordered, stack # <<>>, Top.todo # <<>>, TopInOrder, NEW nt, MoreEdges(nt, nodes, Top.node),
         Require.kind = "normal" => HasEdge(nt, Top.node, Require.name)
  PROVE  Expected(nt, Advanced[Len(stack)])
<1> DEFINE top == Advanced[Len(stack)]
           s == Top.todo
           t == nodes[Top.node].recipe.requires
<1>1. top.node = Top.node /\ top.phase = Top.phase /\ top.todo = Tail(s)
  BY AdvancedFacts
<1>2. IsRequires(s) /\ s # <<>>
  BY TopFacts DEF IsFrame
<1>3. Expected(nodes, Top)
  BY DEF Ordered, Complete, TopInOrder
<1>4. Todo(s, t)
  BY <1>3 DEF Expected
<1>5. nt[Top.node].recipe.requires = t
  BY DEF MoreEdges
<1>6. \A k : HasEdge(nodes, Top.node, k) => HasEdge(nt, Top.node, k)
  BY DEF MoreEdges, HasEdge
<1> HIDE DEF top, s, t
<1>7. /\ Todo(Tail(s), t)
      /\ \A k : RequiresName(s, k) =>
           RequiresName(Tail(s), k) \/ (Head(s).kind = "normal" /\ Head(s).name = k)
  BY <1>2, <1>4, LessToDo
<1>8. ASSUME Top.phase = "expand", NEW k \in Name, RequiresName(t, k)
      PROVE  RequiresName(Tail(s), k) \/ HasEdge(nt, Top.node, k)
  <2>1. RequiresName(s, k) \/ HasEdge(nodes, Top.node, k)
    BY <1>3, <1>8 DEF Expected, s, t
  <2>2. Head(s) = Require
    BY DEF Require, s
  <2> QED
    BY <1>6, <1>7, <2>1, <2>2
<1> QED
  BY <1>1, <1>5, <1>7, <1>8 DEF Expected, top

LEMMA FramesOfNodes ==
  ASSUME Typed
  PROVE  \A i \in DOMAIN stack : stack[i].node \in Node
BY DEF Typed, IsFrame, Node

\* What a node asks for is like what its recipe requires.
LEMMA RequiredAlike ==
  ASSUME Typed, Ordered, stack # <<>>
  PROVE  Alike(Required, Self.recipe.requires)
<1> DEFINE t == Self.recipe.requires
<1>1. Alike(t, t)
  BY DEF Alike
<1>2. Alike(Self.requires, t)
  BY TopFacts DEF Ordered, Complete, Node
<1>3. Alike(Asked, t)
  BY <1>1, <1>2 DEF Asked
<1>4. DOMAIN Required = DOMAIN Asked
      /\ \A i \in DOMAIN Asked : Required[i].name = Asked[i].name /\ Required[i].kind = Asked[i].kind
                                /\ Required[i].switch = Asked[i].switch
  BY RequiredFacts
<1> HIDE DEF t
<1>5. Alike(Required, t)
  BY <1>3, <1>4 DEF Alike
<1> QED
  BY <1>5 DEF t

\* Every action keeps the graph complete.
LEMMA GetNodeRequirementsComplete ==
  ASSUME Typed, Ordinary, Ordered, GetNodeRequirements
  PROVE  Complete(nodes', stack')
<1>1. Configures(nodes')
  BY GetNodeRequirementsFacts
<1>2. PICK f : Asking(f) /\ stack' = Append(Front(stack), f)
  BY AskingFacts
<1>3. stack # <<>>
  BY DEF GetNodeRequirements, Configuring, Running
<1>4. Calls(stack') = Calls(stack) /\ TopInOrder
  BY <1>3, TopIsInOrder, GetNodeRequirementsStructure
<1>5. IsList(stack) /\ Top = stack[Len(stack)] /\ Top.node \in Node /\ Self = nodes[Top.node]
  BY <1>3, TopFacts DEF Typed
<1>6. /\ DOMAIN stack' = DOMAIN stack /\ Len(stack') = Len(stack) /\ stack'[Len(stack)] = f
      /\ \A i \in DOMAIN stack : i # Len(stack) => stack'[i] = stack[i]
  BY <1>2, <1>3, <1>5, TopReplaced
<1>7. /\ DOMAIN nodes' = Node /\ \A y \in Node : y # Top.node => nodes'[y] = nodes[y]
      /\ Same(nodes'[Top.node], Self, Asks) /\ nodes'[Top.node].requires = Required
  BY <1>1 DEF Configures
<1>8. nodes'[Top.node].recipe = Self.recipe /\ nodes'[Top.node].edges = Self.edges
  BY <1>7 DEF Same, NodeFields, Asks
<1>9. \A n \in Node : MoreEdges(nodes', nodes, n)
  BY <1>5, <1>7, <1>8 DEF MoreEdges
<1> DEFINE t == Self.recipe.requires
<1>10. \A n \in Node : Alike(nodes[n].requires, nodes[n].recipe.requires)
  BY DEF Ordered, Complete, Node
<1>11. Alike(Required, t)
  BY <1>3, RequiredAlike
<1>12. Todo(t, t)
  <2>1. Self.recipe \in World.recipes[Self.name] /\ Self.name \in Name \cup {Root}
    BY <1>4, <1>5 DEF Typed, TopInOrder
  <2> QED
    BY <2>1, OrdinaryRecipes
<1>13. Todo(Required, t) /\ \A k : RequiresName(t, k) => RequiresName(Required, k)
  BY <1>11, <1>12, AlikeTodo
<1>14. Expected(nodes', f)
  <2>1. f.node = Top.node /\ f.phase = "expand" /\ f.todo = Required
    BY <1>2 DEF Asking
  <2> QED
    BY <1>8, <1>13, <2>1 DEF Expected
<1>15. \A n \in Node : Alike(nodes'[n].requires, nodes'[n].recipe.requires)
  BY <1>7, <1>8, <1>10, <1>11
<1>16. \A i \in DOMAIN stack' :
         \/ i \in DOMAIN stack /\ i # Len(stack) /\ stack'[i] = stack[i] /\ stack[i].node \in Node
         \/ Expected(nodes', stack'[i]) /\ (i # Len(stack') => stack'[i].phase = "expand")
  BY <1>6, <1>14, FramesOfNodes
<1> QED
  BY <1>4, <1>7, <1>9, <1>15, <1>16, CompleteKept

LEMMA PassOverrideKeeps ==
  ASSUME Typed, Ordinary, Ordered, PassOverride
  PROVE  Ordered'
<1>1. stack # <<>> /\ Top.todo # <<>> /\ nodes' = nodes /\ stack' = Advanced /\ Require.kind # "normal"
      /\ Top.phase = "expand"
  BY DEF PassOverride, AtRequire, Running
<1>2. TopInOrder
  BY <1>1, TopIsInOrder
<1>3. Calls(stack') = Calls(stack)
  BY <1>1, CallAdvanced, CallsKept
<1>4. /\ Len(Advanced) = Len(stack) /\ DOMAIN Advanced = DOMAIN stack
      /\ \A i \in DOMAIN stack : i # Len(stack) => Advanced[i] = stack[i]
  BY <1>1, AdvancedFacts
<1>5. \A n \in Node : MoreEdges(nodes, nodes, n)
  BY DEF MoreEdges
<1>6. Expected(nodes, Advanced[Len(stack)])
  BY <1>1, <1>2, <1>5, AdvancedExpected DEF TopInOrder
<1>7. Complete(nodes, stack')
  <2>1. \A n \in DOMAIN nodes : Alike(nodes[n].requires, nodes[n].recipe.requires)
    BY DEF Ordered, Complete
  <2>2. \A i \in DOMAIN stack' :
          \/ i \in DOMAIN stack /\ i # Len(stack) /\ stack'[i] = stack[i] /\ stack[i].node \in Node
          \/ Expected(nodes, stack'[i]) /\ (i # Len(stack') => stack'[i].phase = "expand")
    BY <1>1, <1>4, <1>6, FramesOfNodes
  <2> QED
    BY <1>3, <1>5, <2>1, <2>2, CompleteKept DEF Node
<1> QED
  BY <1>1, <1>3, <1>7 DEF Ordered

\* The calls when one is added.
LEMMA Pushed ==
  ASSUME Typed, stack # <<>>, Top.todo # <<>>, NEW f
  PROVE  LET st == Append(Advanced, f) IN
         /\ Len(st) = Len(stack) + 1 /\ st[Len(st)] = f /\ Len(stack) \in Nat \ {0}
         /\ Len(st) # Len(stack)
         /\ \A i \in DOMAIN st : i \in DOMAIN stack \/ i = Len(st)
         /\ \A i \in DOMAIN stack : st[i] = Advanced[i] /\ (i # Len(stack) => st[i] = stack[i])
<1>1. /\ IsList(Advanced) /\ Len(Advanced) = Len(stack) /\ DOMAIN Advanced = DOMAIN stack
      /\ \A i \in DOMAIN stack : i # Len(stack) => Advanced[i] = stack[i]
  BY AdvancedFacts
<1>2. DOMAIN stack = 1..Len(stack) /\ Len(stack) \in Nat \ {0}
  BY TopFacts
<1> DEFINE st == Append(Advanced, f)
<1>3. /\ DOMAIN st = 1..(Len(stack) + 1) /\ st[Len(stack) + 1] = f /\ Len(st) = Len(stack) + 1
      /\ \A i \in DOMAIN stack : st[i] = Advanced[i]
  BY <1>1, TopAdded
<1> HIDE DEF st
<1>4. \A i \in DOMAIN st : i \in DOMAIN stack \/ i = Len(st)
  BY <1>2, <1>3
<1>5. /\ Len(st) = Len(stack) + 1 /\ st[Len(st)] = f /\ Len(stack) \in Nat \ {0}
      /\ Len(st) # Len(stack)
      /\ \A i \in DOMAIN stack : st[i] = Advanced[i] /\ (i # Len(stack) => st[i] = stack[i])
  <2>1. Len(st) = Len(stack) + 1 /\ st[Len(st)] = f
    BY <1>3
  <2>2. Len(stack) + 1 # Len(stack)
    <3> DEFINE size == Len(stack)
    <3>1. size \in Nat
      BY <1>2
    <3> HIDE DEF size
    <3>2. size + 1 # size
      BY <3>1
    <3> QED
      BY <3>2 DEF size
  <2>3. \A i \in DOMAIN stack : st[i] = Advanced[i]
    BY <1>3
  <2>4. \A i \in DOMAIN stack : i # Len(stack) => st[i] = stack[i]
    BY <1>1, <2>3
  <2> QED
    BY <1>2, <2>1, <2>2, <2>3, <2>4
<1> QED
  BY <1>4, <1>5 DEF st

\* A frame that has nothing to do yet.
LEMMA FrameExpected ==
  ASSUME NEW ns, NEW node, NEW reqs, NEW options, NEW then
  PROVE  Expected(ns, Frame(node, reqs, options, then))
BY DEF Expected, Frame, Todo

LEMMA CreateNodeComplete ==
  ASSUME Typed, Ordered, CreateNode
  PROVE  Complete(nodes', stack')
<1>1. IsOpen(Calls(stack), Len(stack)) /\ stack # <<>> /\ TopInOrder /\ OrdinaryRequire
  BY CreateNodeStructure
<1>2. Top.todo # <<>> /\ Top.phase = "expand"
  BY ExpandingFacts DEF CreateNode
<1>3. PICK r : /\ Grown(nodes', r)
               /\ stack' = Append(Advanced, Frame(New, Top.reqs, Top.options,
                                                  IF IsPublic THEN Top.node ELSE None))
  BY CreateNodeFacts
<1> DEFINE f == Frame(New, Top.reqs, Top.options, Top.node)
<1>4. stack' = Append(Advanced, f)
  BY <1>1, <1>3 DEF OrdinaryRequire
<1>5. f.node = New /\ f.then = Top.node /\ Expected(nodes', f)
  BY FrameExpected DEF Frame
<1> HIDE DEF f
<1>6. /\ DOMAIN nodes' = Node \cup {New} /\ New \notin Node
      /\ nodes'[New].recipe = r /\ nodes'[New].requires = r.requires
      /\ \A y \in Node : Same(nodes'[y], nodes[y], {"public_closure", "public_deps", "edges", "transitive"})
      /\ \A y \in Node : nodes'[y].edges = IF y = Top.node THEN nodes[y].edges \cup {EdgeTo(New)}
                                           ELSE nodes[y].edges
  BY <1>3 DEF Grown
<1>7. \A y \in Node : nodes'[y].recipe = nodes[y].recipe /\ nodes'[y].requires = nodes[y].requires
  BY <1>6 DEF Same, NodeFields
<1>8. \A n \in Node : MoreEdges(nodes', nodes, n)
  BY <1>6, <1>7 DEF MoreEdges
<1>9. \A n \in DOMAIN nodes' : Alike(nodes'[n].requires, nodes'[n].recipe.requires)
  <2>1. \A n \in Node : Alike(nodes[n].requires, nodes[n].recipe.requires)
    BY DEF Ordered, Complete, Node
  <2>2. Alike(r.requires, r.requires)
    BY DEF Alike
  <2> QED
    BY <1>6, <1>7, <2>1, <2>2
<1>10. HasEdge(nodes', Top.node, Require.name)
  <2>1. EdgeTo(New) \in nodes'[Top.node].edges /\ EdgeTo(New).name = Require.name
    BY <1>1, <1>6 DEF TopInOrder, EdgeTo
  <2> QED
    BY <2>1 DEF HasEdge
<1>11. Expected(nodes', Advanced[Len(stack)]) /\ Advanced[Len(stack)].phase = "expand"
  <2>1. MoreEdges(nodes', nodes, Top.node)
    BY <1>1, <1>8 DEF TopInOrder
  <2> QED
    BY <1>1, <1>2, <1>10, <2>1, AdvancedExpected, AdvancedFacts
<1>12. \A n \in DOMAIN nodes' \ OpenNodes(Calls(stack')) : n \in Node \ OpenNodes(Calls(stack)) \/ Done(nodes', n)
  <2>1. CallAdded(Calls(stack'), Calls(stack), Len(stack), New, Top.node)
    BY <1>1, <1>2, <1>4, <1>5, CallPushed
  <2>2. Len(stack) \in Nat \ {0} /\ DOMAIN Calls(stack) = 1..Len(stack) /\ Top.node # None
    BY <1>1 DEF TopInOrder
  <2>3. OneMore(Calls(stack'), Calls(stack), Len(stack), New, Top.node)
    BY <2>1, <2>2, OpenAdded
  <2>4. OpenNodes(Calls(stack')) = OpenNodes(Calls(stack)) \cup {New}
    BY <2>2, <2>3 DEF OneMore
  <2> QED
    BY <1>6, <2>4
<1>13. \A i \in DOMAIN stack' :
         \/ i \in DOMAIN stack /\ i # Len(stack) /\ stack'[i] = stack[i] /\ stack[i].node \in Node
         \/ Expected(nodes', stack'[i]) /\ (i # Len(stack') => stack'[i].phase = "expand")
  <2>1. /\ stack'[Len(stack')] = f
        /\ \A i \in DOMAIN stack' : i \in DOMAIN stack \/ i = Len(stack')
        /\ \A i \in DOMAIN stack : stack'[i] = Advanced[i] /\ (i # Len(stack) => stack'[i] = stack[i])
    BY <1>1, <1>2, <1>4, Pushed
  <2> QED
    BY <1>5, <1>11, <2>1, FramesOfNodes
<1> QED
  BY <1>8, <1>9, <1>12, <1>13, CompleteKept

LEMMA CloseDiamondComplete ==
  ASSUME Typed, Ordered, CloseDiamond
  PROVE  Complete(nodes', stack')
<1>1. DiamondClosed
  BY DiamondIsClosed
<1>2. TopInOrder /\ OrdinaryRequire /\ PreviousSeen
  BY <1>1 DEF DiamondClosed
<1>3. /\ stack # <<>> /\ Top.todo # <<>> /\ Linked(nodes')
      /\ stack' = IF MustRecurse THEN Append(Advanced, Frame(Previous, Top.reqs, Top.options, None))
                  ELSE Advanced
  BY CloseDiamondFacts
<1>4. Top.phase = "expand"
  BY ExpandingFacts DEF CloseDiamond
<1>5. /\ DOMAIN nodes' = Node
      /\ \A y \in Node : Same(nodes'[y], nodes[y], Links)
      /\ \A y \in Node :
           nodes'[y].edges = IF y = Top.node /\ ~\E e \in nodes[y].edges : e.dst = Previous
                             THEN nodes[y].edges \cup {EdgeTo(Previous)} ELSE nodes[y].edges
  BY <1>3 DEF Linked
<1>6. \A y \in Node : nodes'[y].recipe = nodes[y].recipe /\ nodes'[y].requires = nodes[y].requires
  BY <1>5 DEF Same, NodeFields, Links
<1>7. \A n \in Node : MoreEdges(nodes', nodes, n)
  BY <1>5, <1>6 DEF MoreEdges
<1>8. \A n \in DOMAIN nodes' : Alike(nodes'[n].requires, nodes'[n].recipe.requires)
  <2>1. \A n \in Node : Alike(nodes[n].requires, nodes[n].recipe.requires)
    BY DEF Ordered, Complete, Node
  <2> QED
    BY <1>5, <1>6, <2>1
<1>9. HasEdge(nodes', Top.node, Require.name)
  <2>0. Top.node \in Node
    BY <1>2 DEF TopInOrder
  <2>1. CASE \E e \in nodes[Top.node].edges : e.dst = Previous
    <3>1. PICK e \in nodes[Top.node].edges : e.dst = Previous
      BY <2>1
    <3>2. e.name = View(nodes)[e.dst].name
      <4>1. View(nodes)[Top.node].edges = nodes[Top.node].edges /\ Top.node \in DOMAIN View(nodes)
        BY <2>0, ViewFacts DEF Node
      <4> QED
        BY <4>1 DEF Ordered, Structure, EdgesInOrder
    <3>3. View(nodes)[e.dst].name = nodes[e.dst].name
      BY <1>2, <3>1, ViewFacts DEF Node, PreviousSeen
    <3>4. e.name = Require.name
      BY <1>2, <3>1, <3>2, <3>3 DEF PreviousSeen
    <3>5. e \in nodes'[Top.node].edges
      BY <1>7, <2>0 DEF MoreEdges
    <3> QED
      BY <3>4, <3>5 DEF HasEdge
  <2>2. CASE ~\E e \in nodes[Top.node].edges : e.dst = Previous
    <3>1. EdgeTo(Previous) \in nodes'[Top.node].edges
      BY <1>5, <2>0, <2>2
    <3>2. EdgeTo(Previous).name = Require.name
      BY DEF EdgeTo
    <3> QED
      BY <3>1, <3>2 DEF HasEdge
  <2> QED
    BY <2>1, <2>2
<1>10. Expected(nodes', Advanced[Len(stack)]) /\ Advanced[Len(stack)].phase = "expand"
  <2>1. MoreEdges(nodes', nodes, Top.node)
    BY <1>2, <1>7 DEF TopInOrder
  <2> QED
    BY <1>2, <1>3, <1>4, <1>9, <2>1, AdvancedExpected, AdvancedFacts
<1> DEFINE f == Frame(Previous, Top.reqs, Top.options, None)
<1>11. OpenNodes(Calls(stack')) = OpenNodes(Calls(stack))
  <2>1. CASE MustRecurse
    <3>1. stack' = Append(Advanced, f) /\ f.node = Previous /\ f.then = None
      BY <1>3, <2>1 DEF Frame
    <3> HIDE DEF f
    <3>2. CallAdded(Calls(stack'), Calls(stack), Len(stack), Previous, None)
      BY <1>3, <3>1, CallPushed
    <3>3. Len(stack) \in Nat \ {0} /\ DOMAIN Calls(stack) = 1..Len(stack)
      BY <1>2 DEF TopInOrder
    <3>4. OneMore(Calls(stack'), Calls(stack), Len(stack), Previous, None)
      BY <3>2, <3>3, OpenAdded
    <3> QED
      BY <3>4 DEF OneMore
  <2>2. CASE ~MustRecurse
    BY <1>3, <2>2, CallAdvanced, CallsKept
  <2> QED
    BY <2>1, <2>2
<1>12. \A i \in DOMAIN stack' :
         \/ i \in DOMAIN stack /\ i # Len(stack) /\ stack'[i] = stack[i] /\ stack[i].node \in Node
         \/ Expected(nodes', stack'[i]) /\ (i # Len(stack') => stack'[i].phase = "expand")
  <2>1. CASE MustRecurse
    <3>1. stack' = Append(Advanced, f) /\ Expected(nodes', f)
      BY <1>3, <2>1, FrameExpected
    <3> HIDE DEF f
    <3>2. /\ stack'[Len(stack')] = f
          /\ \A i \in DOMAIN stack' : i \in DOMAIN stack \/ i = Len(stack')
          /\ \A i \in DOMAIN stack : stack'[i] = Advanced[i] /\ (i # Len(stack) => stack'[i] = stack[i])
      BY <1>3, <3>1, Pushed
    <3> QED
      BY <1>10, <3>1, <3>2, FramesOfNodes
  <2>2. CASE ~MustRecurse
    <3>1. stack' = Advanced
      BY <1>3, <2>2
    <3>2. /\ DOMAIN stack' = DOMAIN stack /\ stack'[Len(stack)] = Advanced[Len(stack)]
          /\ \A i \in DOMAIN stack : i # Len(stack) => stack'[i] = stack[i]
      BY <1>3, <3>1, AdvancedFacts
    <3> QED
      BY <1>10, <3>2, FramesOfNodes
  <2> QED
    BY <2>1, <2>2
<1> QED
  BY <1>5, <1>7, <1>8, <1>11, <1>12, CompleteKept

LEMMA ReturnComplete ==
  ASSUME Typed, Ordered, Return
  PROVE  Complete(nodes', stack')
<1>1. /\ OneLess(Calls(stack'), Calls(stack), Len(stack)) /\ stack # <<>> /\ TopInOrder
      /\ DOMAIN nodes' = Node /\ \A y \in Node : Same(nodes'[y], nodes[y], {"transitive"})
  BY ReturnStructure
<1>2. stack' = Front(stack) /\ Top.phase = "expand" /\ Top.todo = <<>>
  BY ReturnFacts
<1>3. \A y \in Node : /\ nodes'[y].recipe = nodes[y].recipe /\ nodes'[y].requires = nodes[y].requires
                      /\ nodes'[y].edges = nodes[y].edges
  BY <1>1 DEF Same, NodeFields
<1>4. \A n \in Node : MoreEdges(nodes', nodes, n)
  BY <1>3 DEF MoreEdges
<1>5. \A n \in DOMAIN nodes' : Alike(nodes'[n].requires, nodes'[n].recipe.requires)
  <2>1. \A n \in Node : Alike(nodes[n].requires, nodes[n].recipe.requires)
    BY DEF Ordered, Complete, Node
  <2> QED
    BY <1>1, <1>3, <2>1
<1>6. Done(nodes', Top.node)
  <2>1. Expected(nodes, Top) /\ Top.node \in Node
    BY <1>1 DEF Ordered, Complete, TopInOrder
  <2>2. \A k : ~RequiresName(Top.todo, k)
    BY <1>2 DEF RequiresName
  <2>3. Done(nodes, Top.node)
    BY <1>2, <2>1, <2>2 DEF Expected, Done
  <2> QED
    BY <1>4, <2>1, <2>3, StillExpected
<1>7. \A n \in DOMAIN nodes' \ OpenNodes(Calls(stack')) : n \in Node \ OpenNodes(Calls(stack)) \/ Done(nodes', n)
  <2>1. OpenNodes(Calls(stack')) = OpenNodes(Calls(stack)) \ {Top.node}
    BY <1>1 DEF OneLess, TopInOrder
  <2> QED
    BY <1>1, <1>6, <2>1
<1>8. \A i \in DOMAIN stack' :
         i \in DOMAIN stack /\ i # Len(stack) /\ stack'[i] = stack[i] /\ stack[i].node \in Node
  <2>1. IsList(stack) /\ DOMAIN stack = 1..Len(stack) /\ Len(stack) \in Nat \ {0}
    BY <1>1, TopFacts DEF Typed
  <2>2. DOMAIN stack' = 1..(Len(stack) - 1) /\ \A i \in DOMAIN stack' : stack'[i] = stack[i]
    BY <1>1, <1>2, <2>1, ListFront
  <2> QED
    BY <2>1, <2>2, FramesOfNodes
<1> QED
  BY <1>4, <1>5, <1>7, <1>8, CompleteKept

LEMMA InitComplete ==
  ASSUME Init
  PROVE  Complete(nodes, stack)
<1> DEFINE f == Frame(1, NoReqs, NoOptions, None)
<1>1. PICK r : nodes = <<NewNode(1, Root, None, "host", r)>>
  BY DEF Init
<1>2. stack = <<f>> /\ f.node = 1 /\ Expected(nodes, f)
  BY FrameExpected DEF Init, Frame
<1> DEFINE made == NewNode(1, Root, None, "host", r)
<1>m. IsMade(made, 1, Root, None, "host", r)
  BY NewNodeFacts
<1> HIDE DEF made, f
<1>3. made.requires = r.requires /\ made.recipe = r
  BY <1>m DEF IsMade
<1>4. DOMAIN nodes = {1} /\ nodes[1] = made
  BY <1>1 DEF made
<1>5. DOMAIN stack = {1} /\ stack[1] = f /\ Len(stack) = 1
  BY <1>2
<1>6. OpenNodes(Calls(stack)) = {1}
  BY <1>2, <1>5, CallsFacts DEF OpenNodes, IsOpen
<1>7. Alike(r.requires, r.requires)
  BY DEF Alike
<1> QED
  BY <1>2, <1>3, <1>4, <1>5, <1>6, <1>7 DEF Complete

\* What there is never changes.
LEMMA WorldKept ==
  ASSUME [Next]_vars
  PROVE  world' = world /\ (Ordinary' <=> Ordinary)
<1>1. world' = world
  BY DEF Next, Step, GetNodeRequirements, RefuseOptions, RefuseRange, RefuseRequires, PassOverride,
         Loop, Missing, CreateNode, Conflict, CloseDiamond, Return, ExtendBuildRequires, Fails, vars
<1> QED
  BY <1>1 DEF Ordinary, World

LEMMA OrderedInit == Init => Ordered
BY InitStructure, InitComplete DEF Ordered

LEMMA OrderedFails ==
  ASSUME Ordered, NEW why, Fails(why)
  PROVE  Ordered'
BY DEF Fails, Ordered

\* Ordered is kept by every step.
LEMMA OrderedNext ==
  ASSUME Typed, Ordinary, Ordered, [Next]_vars
  PROVE  Ordered'
<1>1. CASE GetNodeRequirements
  BY <1>1, GetNodeRequirementsStructure, GetNodeRequirementsComplete DEF Ordered
<1>2. CASE RefuseOptions \/ RefuseRange \/ RefuseRequires \/ Loop \/ Missing \/ Conflict
  BY <1>2, OrderedFails DEF RefuseOptions, RefuseRange, RefuseRequires, Loop, Missing, Conflict
<1>3. CASE PassOverride
  BY <1>3, PassOverrideKeeps
<1>4. CASE CreateNode
  BY <1>4, CreateNodeStructure, CreateNodeComplete DEF Ordered
<1>5. CASE CloseDiamond
  BY <1>5, CloseDiamondStructure, CloseDiamondComplete DEF Ordered
<1>6. CASE Return
  BY <1>6, ReturnStructure, ReturnComplete DEF Ordered
<1>7. CASE \E n \in Node, req \in BuildRequirement : ExtendBuildRequires(n, req)
  <2>1. extended \in 0..0 /\ extended < 0
    BY <1>7 DEF Typed, Ordinary, ExtendBuildRequires
  <2> QED
    BY <2>1
<1>8. CASE UNCHANGED vars
  BY <1>8 DEF vars, Ordered
<1> QED
  BY <1>1, <1>2, <1>3, <1>4, <1>5, <1>6, <1>7, <1>8 DEF Next, Step

\* Without private requirements and build requirements, every reachable graph is
\* ordered: between the calls of _expand_node its closures are complete but for
\* what the open calls will still pass on (graph_builder.py).
THEOREM StaysOrdered == Spec => [](Ordinary => Ordered)
<1>1. Init => (Ordinary => Ordered)
  BY OrderedInit
<1>2. Typed /\ (Ordinary => Ordered) /\ [Next]_vars => (Ordinary => Ordered)'
  BY OrderedNext, WorldKept
<1>3. Spec => []Typed
  BY IsTyped
<1> QED
  BY <1>1, <1>2, <1>3, PTL DEF Spec

-----------------------------------------------------------------------------
(* What an ordered graph promises.                                         *)

IsGraphOf ==
  \A n \in Node :
    /\ n \in Has(nodes, n) /\ Has(nodes, n) \subseteq Node
    /\ \A x \in Has(nodes, n) : Has(nodes, x) \subseteq Has(nodes, n) /\ (n \in Has(nodes, x) => x = n)
    /\ \A x \in Node : (x \in nodes[n].inverse) <=> (n \in Has(nodes, x) \ {x})
    /\ nodes[n].inverse \subseteq Node
    /\ nodes[n].ancestors = {KeyOf(m) : m \in nodes[n].inverse}
    /\ \A e \in nodes[n].edges :
         e.dst \in Has(nodes, n) \ {n} /\ e.dst \in Node /\ e.kind = "normal" /\ e.name = nodes[e.dst].name
    /\ \A x \in Has(nodes, n) \ {n} : \E e \in nodes[n].edges : x \in Has(nodes, e.dst)
    /\ \A set \in SUBSET Node :
         n \in set /\ (\A m \in set : \A e \in nodes[m].edges : e.dst \in set) => Has(nodes, n) \subseteq set

\* The nodes of a settled graph.
LEMMA OrderedGraph ==
  ASSUME Ordered
  PROVE  /\ IsGraphOf
         /\ \A n \in Node \ OpenNodes(Calls(stack)) : Passes(nodes, n) = Has(nodes, n)
<1> DEFINE g == View(nodes)
           c == Calls(stack)
<1>1. DOMAIN g = Node /\ Structure(g, c)
  BY ViewFacts DEF Ordered, Node
<1>2. ASSUME NEW n \in Node
      PROVE  /\ g[n].has = Has(nodes, n) /\ g[n].sees = Sees(nodes, n) /\ g[n].passes = Passes(nodes, n)
             /\ g[n].inverse = nodes[n].inverse /\ g[n].ancestors = nodes[n].ancestors
             /\ g[n].edges = nodes[n].edges /\ g[n].name = nodes[n].name
             /\ g[n].context = nodes[n].context /\ g[n].recipe = nodes[n].recipe
  BY ViewFacts DEF Node
<1> HIDE DEF g, c
<1>3. ASSUME NEW n \in Node
      PROVE  /\ n \in g[n].passes /\ g[n].passes \subseteq g[n].has /\ g[n].has \subseteq g[n].sees
             /\ g[n].sees \subseteq Node /\ g[n].inverse \subseteq Node
             /\ \A x \in g[n].has : g[x].has \subseteq g[n].has /\ (n \in g[x].has => x = n)
             /\ \A x \in Node : (x \in g[n].inverse) <=> (n \in g[x].has \ {x})
             /\ g[n].ancestors = {<<g[m].name, g[m].context>> : m \in g[n].inverse}
             /\ n \notin OpenNodes(c) => g[n].passes = g[n].has
  BY <1>1 DEF Structure, SetsInOrder
<1>4. ASSUME NEW n \in Node
      PROVE  /\ \A e \in g[n].edges :
                  e.dst \in g[n].has \ {n} /\ e.name = g[e.dst].name /\ e.kind = "normal"
             /\ \A x \in g[n].has \ {n} : \E e \in g[n].edges : x \in g[e.dst].has
             /\ \A set \in SUBSET Node : n \in set /\ IsClosed(g, set) => g[n].has \subseteq set
  BY <1>1 DEF Structure, EdgesInOrder
<1>5. ASSUME NEW n \in Node
      PROVE  /\ n \in Has(nodes, n) /\ Has(nodes, n) \subseteq Node
             /\ \A x \in Has(nodes, n) : Has(nodes, x) \subseteq Has(nodes, n) /\ (n \in Has(nodes, x) => x = n)
             /\ \A x \in Node : (x \in nodes[n].inverse) <=> (n \in Has(nodes, x) \ {x})
             /\ nodes[n].inverse \subseteq Node
             /\ n \notin OpenNodes(c) => Passes(nodes, n) = Has(nodes, n)
  BY <1>2, <1>3
<1>6. ASSUME NEW n \in Node
      PROVE  nodes[n].ancestors = {KeyOf(m) : m \in nodes[n].inverse}
  <2>1. g[n].ancestors = {<<g[m].name, g[m].context>> : m \in g[n].inverse}
    BY <1>3
  <2>2. {<<g[m].name, g[m].context>> : m \in g[n].inverse} = {KeyOf(m) : m \in nodes[n].inverse}
    BY <1>2, <1>3 DEF KeyOf
  <2> QED
    BY <1>2, <2>1, <2>2
<1>7. ASSUME NEW n \in Node, NEW e \in nodes[n].edges
      PROVE  e.dst \in Has(nodes, n) \ {n} /\ e.dst \in Node /\ e.kind = "normal" /\ e.name = nodes[e.dst].name
  <2>1. e.dst \in g[n].has \ {n} /\ e.name = g[e.dst].name /\ e.kind = "normal"
    BY <1>2, <1>4, <1>7
  <2> QED
    BY <1>2, <1>5, <2>1
<1>8. ASSUME NEW n \in Node, NEW x \in Has(nodes, n) \ {n}
      PROVE  \E e \in nodes[n].edges : x \in Has(nodes, e.dst)
  <2>1. PICK e \in g[n].edges : x \in g[e.dst].has
    BY <1>2, <1>4, <1>8
  <2> QED
    BY <1>2, <1>7, <2>1
<1>9. ASSUME NEW n \in Node, NEW set \in SUBSET Node, n \in set,
             \A m \in set : \A e \in nodes[m].edges : e.dst \in set
      PROVE  Has(nodes, n) \subseteq set
  <2>1. IsClosed(g, set)
    BY <1>2, <1>9 DEF IsClosed
  <2> QED
    BY <1>2, <1>4, <1>9, <2>1
<1> QED
  BY <1>5, <1>6, <1>7, <1>8, <1>9 DEF IsGraphOf, c

\* What a node passes on in the end is all that it has.
LEMMA PublicIsHas ==
  ASSUME IsGraphOf
  PROVE  \A n \in Node : Public(n) = Has(nodes, n) /\ Closure(n) = Has(nodes, n)
<1>1. ASSUME NEW n \in Node PROVE Public(n) = Has(nodes, n)
  <2> DEFINE isClosed(set) == \A m \in set : \A e \in nodes[m].edges : e.kind \in {"normal"} => e.dst \in set
  <2>1. Public(n) = {x \in Node : \A set \in SUBSET Node : {n} \subseteq set /\ isClosed(set) => x \in set}
    BY DEF Public, Reached
  <2>2. Has(nodes, n) \in SUBSET Node /\ {n} \subseteq Has(nodes, n) /\ isClosed(Has(nodes, n))
    BY DEF IsGraphOf
  <2>3. Public(n) \subseteq Has(nodes, n)
    <3> HIDE DEF isClosed
    <3> QED
      BY <2>1, <2>2
  <2>4. ASSUME NEW x \in Has(nodes, n), NEW set \in SUBSET Node, {n} \subseteq set, isClosed(set)
        PROVE  x \in set
    <3>1. \A m \in set : \A e \in nodes[m].edges : e.dst \in set
      BY <2>4 DEF IsGraphOf
    <3> QED
      BY <2>4, <3>1 DEF IsGraphOf
  <2>5. Has(nodes, n) \subseteq Public(n)
    <3> HIDE DEF isClosed
    <3> QED
      BY <2>1, <2>2, <2>4
  <2> QED
    BY <2>3, <2>5
<1>2. ASSUME NEW n \in Node PROVE Closure(n) = Has(nodes, n)
  <2>1. \A e \in nodes[n].edges : Public(e.dst) = Has(nodes, e.dst)
    BY <1>1 DEF IsGraphOf
  <2>2. \A e \in nodes[n].edges : Has(nodes, e.dst) \subseteq Has(nodes, n)
    BY DEF IsGraphOf
  <2>3. ASSUME NEW x \in Closure(n) PROVE x \in Has(nodes, n)
    <3>1. CASE x = n
      BY <3>1 DEF IsGraphOf
    <3>2. CASE x # n
      <4>1. PICK e \in nodes[n].edges : x \in Public(e.dst)
        BY <2>3, <3>2 DEF Closure, Direct
      <4> QED
        BY <2>1, <2>2, <4>1
    <3> QED
      BY <3>1, <3>2
  <2>4. ASSUME NEW x \in Has(nodes, n) PROVE x \in Closure(n)
    <3>1. CASE x = n
      BY <3>1 DEF Closure
    <3>2. CASE x # n
      <4>1. PICK e \in nodes[n].edges : x \in Has(nodes, e.dst)
        BY <3>2 DEF IsGraphOf
      <4>2. x \in Public(e.dst) /\ e.dst \in Direct(n)
        BY <2>1, <4>1 DEF Direct
      <4> QED
        BY <4>2 DEF Closure
    <3> QED
      BY <3>1, <3>2
  <2> QED
    BY <2>3, <2>4
<1> QED
  BY <1>1, <1>2

\* The closure of every node is what it depends on, whatever recipes there are
\* and in whatever order they are read, as long as no requirement is private
\* and build requirements are left out: connect_closure and transitive_closure
\* (graph_builder.py).
THEOREM ClosuresAreInOrder == Spec => [](Ordinary => ClosuresAgree)
<1>1. ASSUME Ordered PROVE ClosuresAgree
  <2> SUFFICES ASSUME Settled PROVE \A n \in Node :
        /\ Held(nodes[n].public_closure) = Closure(n)
        /\ Held(nodes[n].transitive) = Public(n)
        /\ \A m \in Node \ {n} : n \in nodes[m].inverse <=> m \in Closure(n)
    BY DEF ClosuresAgree
  <2>1. IsGraphOf /\ \A n \in Node \ OpenNodes(Calls(stack)) : Passes(nodes, n) = Has(nodes, n)
    BY <1>1, OrderedGraph
  <2>2. OpenNodes(Calls(stack)) = {}
    BY CallsFacts DEF Settled, OpenNodes
  <2>3. \A n \in Node : Passes(nodes, n) = Has(nodes, n) /\ Public(n) = Has(nodes, n) /\ Closure(n) = Has(nodes, n)
    BY <2>1, <2>2, PublicIsHas
  <2>4. \A n \in Node : \A m \in Node \ {n} : (n \in nodes[m].inverse) <=> (m \in Has(nodes, n))
    BY <2>1 DEF IsGraphOf
  <2> QED
    BY <2>3, <2>4 DEF Has, Passes
<1> QED
  BY <1>1, StaysOrdered, PTL

\* Under the same conditions, nothing depends on itself, and everything on the
\* way to a node is among its ancestors, by which loops are found.
THEOREM NothingLoops == Spec => [](Ordinary => Acyclic)
<1>1. ASSUME Ordered PROVE Acyclic
  <2>1. IsGraphOf
    BY <1>1, OrderedGraph
  <2>2. ASSUME NEW n \in Node, n \in Reached(Direct(n), Kind) PROVE FALSE
    <3> DEFINE set == UNION {Has(nodes, d) : d \in Direct(n)}
               isClosed(s) == \A m \in s : \A e \in nodes[m].edges : e.kind \in Kind => e.dst \in s
    <3>1. set \in SUBSET Node /\ Direct(n) \subseteq set
      BY <2>1 DEF IsGraphOf, Direct
    <3>2. isClosed(set)
      <4> SUFFICES ASSUME NEW m \in set, NEW e \in nodes[m].edges PROVE e.dst \in set
        OBVIOUS
      <4>1. PICK d \in Direct(n) : m \in Has(nodes, d)
        OBVIOUS
      <4>2. d \in Node
        BY <2>1 DEF IsGraphOf, Direct
      <4>3. m \in Node /\ e.dst \in Has(nodes, m) /\ Has(nodes, m) \subseteq Has(nodes, d)
        BY <2>1, <4>1, <4>2 DEF IsGraphOf
      <4> QED
        BY <4>1, <4>3
    <3>3. n \in set
      <4>1. Reached(Direct(n), Kind)
              = {x \in Node : \A s \in SUBSET Node : Direct(n) \subseteq s /\ isClosed(s) => x \in s}
        BY DEF Reached
      <4> HIDE DEF set, isClosed
      <4> QED
        BY <2>2, <3>1, <3>2, <4>1
    <3>4. PICK e \in nodes[n].edges : n \in Has(nodes, e.dst)
      BY <3>3 DEF Direct
    <3> QED
      BY <2>1, <3>4 DEF IsGraphOf
  <2>3. ASSUME NEW n \in Node, NEW d \in Closure(n) \ {n} PROVE KeyOf(n) \in nodes[d].ancestors
    <3>1. d \in Has(nodes, n) /\ d \in Node
      BY <2>1, PublicIsHas DEF IsGraphOf
    <3>2. n \in nodes[d].inverse /\ nodes[d].ancestors = {KeyOf(m) : m \in nodes[d].inverse}
      BY <2>1, <2>3, <3>1 DEF IsGraphOf
    <3> QED
      BY <3>2
  <2> QED
    BY <2>2, <2>3 DEF Acyclic
<1> QED
  BY <1>1, StaysOrdered, PTL
-----------------------------------------------------------------------------
(* Versions and options.  What a node has in its closure agrees with what  *)
(* it requires, and with the options that it gives, when its call is over. *)
(* Until then, everything that it has, apart from what the next call is    *)
(* for, agrees with what its call passes on.                               *)

RangeKept(r) == r.range # {} => r.version \in r.range

\* What a node asks for, of the node y, and the options it gives, unless y sets
\* its own option, ...
VersionFits(reqs, y) == y.name \in DOMAIN reqs => reqs[y.name].version = y.version
OptionFits(options, y) ==
  y.name \in Name /\ ~SetsOwn(y) => options[y.name] \in {None, Default, y.option}

\* ... or a node that is between this one and its dependency p does.
Overruled(ns, p, y) == \E z \in Has(ns, p) : y \in Has(ns, z) /\ Sets(ns[z].recipe, ns[y].name)
Fits(ns, p, f, y) ==
  VersionFits(f.reqs, ns[y]) /\ (Overruled(ns, p, y) \/ OptionFits(f.options, ns[y]))

EdgeHolds(x, e, y) ==
  \E k \in DOMAIN x.requires :
    x.requires[k].name = e.name /\ x.requires[k].version = y.version /\ RangeKept(x.requires[k])

Prevails(ns, p, x, y) ==
  /\ Overruled(ns, p, y) \/ OptionFits(x.deps, ns[y])
  /\ \A k \in DOMAIN x.requires :
       x.requires[k].name = ns[y].name => x.requires[k].version = ns[y].version

\* A node that is not being expanded, ...
NodeHolds(ns, n) ==
  \A e \in ns[n].edges :
    /\ EdgeHolds(ns[n], e, ns[e.dst])
    /\ \A y \in Has(ns, e.dst) : Prevails(ns, e.dst, ns[n], y)

\* ... a call, with the node that the next call is for, ...
ToExpand(f) == {f.todo[k].name : k \in DOMAIN f.todo}

Expands(ns, f, next) ==
  /\ f.options = ns[f.node].deps
  /\ \A k \in DOMAIN ns[f.node].requires :
       /\ ns[f.node].requires[k].name \in DOMAIN f.reqs
       /\ f.reqs[ns[f.node].requires[k].name] = ns[f.node].requires[k]
       /\ RangeKept(ns[f.node].requires[k])
  /\ \A k \in DOMAIN f.todo : \E j \in DOMAIN ns[f.node].requires : ns[f.node].requires[j] = f.todo[k]
  /\ \A e \in ns[f.node].edges : e.name \notin ToExpand(f) =>
       /\ EdgeHolds(ns[f.node], e, ns[e.dst])
       /\ e.dst # next => \A y \in Has(ns, e.dst) : Fits(ns, e.dst, f, y)

FrameHolds(ns, f, next) ==
  /\ \A k \in DOMAIN f.reqs : f.reqs[k].version # None
  /\ f.phase = "expand" => Expands(ns, f, next)

\* ... and two calls, of which the second one was made by the first.
PassesDown(f, g, y) ==
  /\ OptionFits(f.options, y)
  /\ \A k \in Name \ {y.name} :
       /\ Sets(y.recipe, k) \/ f.options[k] \in {None, g.options[k]}
       /\ k \in DOMAIN f.reqs => k \in DOMAIN g.reqs /\ g.reqs[k].version = f.reqs[k].version

OnTopOf(ns, f, g) ==
  /\ VersionFits(f.reqs, ns[g.node])
  /\ g.phase = "configure" => g.reqs = f.reqs /\ g.options = f.options
  /\ g.phase = "expand" => PassesDown(f, g, ns[g.node])

\* An option that was neither changed nor set has its default; every requirement
\* asks for some version.
IsAsking(x) ==
  /\ SetsOwn(x) \/ x.modified \/ x.option = Default
  /\ \A k \in DOMAIN x.requires : x.requires[k].version # None \/ x.requires[k].range # {}

NextNode(st, i) == IF i = Len(st) THEN None ELSE st[i + 1].node
FrameNodes(st) == {st[i].node : i \in DOMAIN st}

Agreed(ns, st) ==
  /\ \A n \in DOMAIN ns : IsAsking(ns[n])
  /\ \A n \in DOMAIN ns \ FrameNodes(st) : NodeHolds(ns, n)
  /\ \A i \in DOMAIN st : /\ FrameHolds(ns, st[i], NextNode(st, i))
                          /\ i # Len(st) => OnTopOf(ns, st[i], st[i + 1])

\* What a step may do to a graph: only the node on top, top, comes to require
\* or depend on anything else, and only closures of open nodes grow.
Onward(nt, ns, open, top) ==
  /\ DOMAIN ns \subseteq DOMAIN nt
  /\ \A y \in DOMAIN ns : nt[y].name = ns[y].name /\ nt[y].version = ns[y].version
                             /\ nt[y].recipe = ns[y].recipe
  /\ \A y \in DOMAIN ns : SetsOwn(ns[y]) \/ nt[y].option = ns[y].option \/ ns[y].option = Default
  /\ \A y \in DOMAIN ns : y # top =>
       nt[y].requires = ns[y].requires /\ nt[y].deps = ns[y].deps /\ nt[y].edges = ns[y].edges
  /\ \A y \in DOMAIN ns : y \notin open => Has(nt, y) = Has(ns, y)

\* What fits, or agrees with what is required, goes on doing so.
StillFits(nt, ns, y) ==
  /\ \A reqs : VersionFits(reqs, ns[y]) => VersionFits(reqs, nt[y])
  /\ \A options : OptionFits(options, ns[y]) => OptionFits(options, nt[y])

LEMMA FitsStays ==
  ASSUME NEW nt, NEW ns, NEW open, NEW top, Onward(nt, ns, open, top), NEW y \in DOMAIN ns
  PROVE  StillFits(nt, ns, y)
<1>1. nt[y].name = ns[y].name /\ nt[y].version = ns[y].version /\ nt[y].recipe = ns[y].recipe
      /\ (SetsOwn(ns[y]) \/ nt[y].option = ns[y].option \/ ns[y].option = Default)
  BY DEF Onward
<1>2. ASSUME NEW reqs, VersionFits(reqs, ns[y]) PROVE VersionFits(reqs, nt[y])
  BY <1>1, <1>2 DEF VersionFits
<1>3. ASSUME NEW options, OptionFits(options, ns[y]) PROVE OptionFits(options, nt[y])
  BY <1>1, <1>3 DEF OptionFits, SetsOwn
<1> QED
  BY <1>2, <1>3 DEF StillFits

\* The nodes that an edge leads to.
Leads(ns, e, open) ==
  /\ e.dst \in DOMAIN ns /\ e.dst \notin open
  /\ Has(ns, e.dst) \subseteq DOMAIN ns /\ Has(ns, e.dst) \cap open = {}

LEMMA OverruledStays ==
  ASSUME NEW nt, NEW ns, NEW open, NEW top, Onward(nt, ns, open, top),
         NEW e, Leads(ns, e, open), NEW y \in Has(ns, e.dst), Overruled(ns, e.dst, y)
  PROVE  Overruled(nt, e.dst, y)
<1>1. PICK z \in Has(ns, e.dst) : y \in Has(ns, z) /\ Sets(ns[z].recipe, ns[y].name)
  BY DEF Overruled
<1>2. z \in DOMAIN ns /\ z \notin open /\ y \in DOMAIN ns /\ e.dst \in DOMAIN ns /\ e.dst \notin open
  BY <1>1 DEF Leads
<1>3. /\ Has(nt, z) = Has(ns, z) /\ Has(nt, e.dst) = Has(ns, e.dst)
      /\ nt[z].recipe = ns[z].recipe /\ nt[y].name = ns[y].name
  BY <1>2 DEF Onward
<1> QED
  BY <1>1, <1>3 DEF Overruled

LEMMA BelowStays ==
  ASSUME NEW nt, NEW ns, NEW open, NEW top, Onward(nt, ns, open, top),
         NEW e, Leads(ns, e, open), NEW y \in Has(ns, e.dst), NEW f, Fits(ns, e.dst, f, y)
  PROVE  Fits(nt, e.dst, f, y)
<1>1. y \in DOMAIN ns
  BY DEF Leads
<1>2. StillFits(nt, ns, y)
  BY <1>1, FitsStays
<1>3. VersionFits(f.reqs, nt[y])
  BY <1>2 DEF Fits, StillFits
<1>4. CASE Overruled(ns, e.dst, y)
  BY <1>3, <1>4, OverruledStays DEF Fits
<1>5. CASE OptionFits(f.options, ns[y])
  BY <1>2, <1>3, <1>5 DEF Fits, StillFits
<1> QED
  BY <1>4, <1>5 DEF Fits

LEMMA NodeStays ==
  ASSUME NEW nt, NEW ns, NEW open, NEW top, Onward(nt, ns, open, top),
         NEW n \in DOMAIN ns, n # top, NodeHolds(ns, n), \A e \in ns[n].edges : Leads(ns, e, open)
  PROVE  NodeHolds(nt, n)
<1>1. nt[n].requires = ns[n].requires /\ nt[n].deps = ns[n].deps /\ nt[n].edges = ns[n].edges
  BY DEF Onward
<1>2. ASSUME NEW e \in ns[n].edges
      PROVE  EdgeHolds(nt[n], e, nt[e.dst]) /\ \A y \in Has(nt, e.dst) : Prevails(nt, e.dst, nt[n], y)
  <2>1. /\ EdgeHolds(ns[n], e, ns[e.dst])
        /\ \A y \in Has(ns, e.dst) : Prevails(ns, e.dst, ns[n], y)
    BY DEF NodeHolds
  <2>2. e.dst \in DOMAIN ns /\ e.dst \notin open /\ Has(ns, e.dst) \subseteq DOMAIN ns
    BY DEF Leads
  <2>3. nt[e.dst].version = ns[e.dst].version /\ Has(nt, e.dst) = Has(ns, e.dst)
    BY <2>2 DEF Onward
  <2>4. EdgeHolds(nt[n], e, nt[e.dst])
    BY <1>1, <2>1, <2>3 DEF EdgeHolds
  <2>5. ASSUME NEW y \in Has(ns, e.dst) PROVE Prevails(nt, e.dst, nt[n], y)
    <3>1. y \in DOMAIN ns
      BY <2>2
    <3>2. Overruled(nt, e.dst, y) \/ OptionFits(ns[n].deps, nt[y])
      <4>1. CASE Overruled(ns, e.dst, y)
        BY <1>2, <4>1, OverruledStays
      <4>2. CASE OptionFits(ns[n].deps, ns[y])
        BY <3>1, <4>2, FitsStays DEF StillFits
      <4> QED
        BY <2>1, <4>1, <4>2 DEF Prevails
    <3>3. nt[y].name = ns[y].name /\ nt[y].version = ns[y].version
      BY <3>1 DEF Onward
    <3> QED
      BY <1>1, <2>1, <3>2, <3>3 DEF Prevails
  <2> QED
    BY <2>3, <2>4, <2>5
<1> QED
  BY <1>1, <1>2 DEF NodeHolds

LEMMA FrameStays ==
  ASSUME NEW nt, NEW ns, NEW open, NEW top, Onward(nt, ns, open, top), NEW f, NEW next,
         f.node \in DOMAIN ns, f.node # top, FrameHolds(ns, f, next),
         \A e \in ns[f.node].edges : e.dst \in DOMAIN ns /\ (e.dst # next => Leads(ns, e, open))
  PROVE  FrameHolds(nt, f, next)
<1> SUFFICES ASSUME f.phase = "expand", Expands(ns, f, next) PROVE Expands(nt, f, next)
  BY DEF FrameHolds
<1> DEFINE n == f.node
<1>1. nt[n].requires = ns[n].requires /\ nt[n].deps = ns[n].deps /\ nt[n].edges = ns[n].edges
  BY DEF Onward
<1>2. ASSUME NEW e \in ns[n].edges, e.name \notin ToExpand(f)
      PROVE  /\ EdgeHolds(nt[n], e, nt[e.dst])
             /\ e.dst # next => \A y \in Has(nt, e.dst) : Fits(nt, e.dst, f, y)
  <2>1. /\ EdgeHolds(ns[n], e, ns[e.dst])
        /\ e.dst # next => \A y \in Has(ns, e.dst) : Fits(ns, e.dst, f, y)
    BY <1>2 DEF Expands
  <2>2. nt[e.dst].version = ns[e.dst].version
    BY DEF Onward
  <2>3. EdgeHolds(nt[n], e, nt[e.dst])
    BY <1>1, <2>1, <2>2 DEF EdgeHolds
  <2>4. ASSUME e.dst # next, NEW y \in Has(nt, e.dst) PROVE Fits(nt, e.dst, f, y)
    <3>1. Leads(ns, e, open) /\ e.dst \in DOMAIN ns /\ e.dst \notin open
      BY <2>4 DEF Leads
    <3>2. y \in Has(ns, e.dst)
      BY <2>4, <3>1 DEF Onward
    <3> QED
      BY <2>1, <2>4, <3>1, <3>2, BelowStays
  <2> QED
    BY <2>3, <2>4
<1> QED
  BY <1>1, <1>2 DEF Expands

LEMMA OnTopStays ==
  ASSUME NEW nt, NEW ns, NEW open, NEW top, Onward(nt, ns, open, top), NEW f, NEW g, NEW h,
         g.node \in DOMAIN ns, OnTopOf(ns, f, g),
         h.node = g.node, h.phase = g.phase, h.reqs = g.reqs, h.options = g.options
  PROVE  OnTopOf(nt, f, h)
<1>1. StillFits(nt, ns, g.node) /\ nt[g.node].name = ns[g.node].name
      /\ nt[g.node].recipe = ns[g.node].recipe
  BY FitsStays DEF Onward
<1>2. VersionFits(f.reqs, nt[g.node])
  BY <1>1 DEF OnTopOf, StillFits
<1>3. ASSUME PassesDown(f, g, ns[g.node]) PROVE PassesDown(f, h, nt[g.node])
  BY <1>1, <1>3 DEF PassesDown, StillFits
<1> QED
  BY <1>2, <1>3 DEF OnTopOf

\* What is below a closed node is closed, and so is what an open one has, but
\* for what the next call is for.
LEMMA ClosedBelow ==
  ASSUME Typed, Ordered
  PROVE  \A n \in Node \ OpenNodes(Calls(stack)) : Has(nodes, n) \cap OpenNodes(Calls(stack)) = {}
<1> DEFINE g == View(nodes)
           c == Calls(stack)
<1>1. DOMAIN g = Node /\ Structure(g, c)
  BY ViewFacts DEF Ordered, Node
<1>2. \A n \in Node : g[n].has = Has(nodes, n)
  BY ViewFacts DEF Node
<1>3. \E size \in Nat : DOMAIN c = 1..size
  BY CallsFacts, ListFacts DEF Typed
<1> HIDE DEF g, c
<1>4. OpenNodes(c) \subseteq Node /\ \A i \in DOMAIN c : IsOpen(c, i) => Below(c, i) \subseteq OpenNodes(c)
  BY <1>1, <1>3, CallFacts
<1>5. ASSUME NEW n \in Node \ OpenNodes(c), NEW x \in Has(nodes, n) \cap OpenNodes(c) PROVE FALSE
  <2>1. PICK i \in DOMAIN c : IsOpen(c, i) /\ c[i].node = x
    BY <1>5 DEF OpenNodes
  <2>2. g[x].inverse = Below(c, i)
    BY <1>1, <2>1 DEF Structure, OpenInOrder
  <2>3. x # n /\ x \in g[n].has /\ x \in Node
    BY <1>2, <1>4, <1>5
  <2>4. n \in g[x].inverse
    BY <1>1, <2>3 DEF Structure, SetsInOrder
  <2> QED
    BY <1>4, <1>5, <2>1, <2>2, <2>4
<1> QED
  BY <1>5 DEF c

LEMMA EdgesLead ==
  ASSUME Typed, Ordered
  PROVE  /\ \A n \in Node : \A e \in nodes[n].edges :
              e.dst \in Node /\ e.dst \in Has(nodes, n) \ {n} /\ Has(nodes, e.dst) \subseteq Has(nodes, n)
         /\ \A n \in Node \ OpenNodes(Calls(stack)) : \A e \in nodes[n].edges :
              Leads(nodes, e, OpenNodes(Calls(stack)))
         /\ \A i \in DOMAIN stack : \A e \in nodes[stack[i].node].edges :
              e.dst # NextNode(stack, i) => Leads(nodes, e, OpenNodes(Calls(stack)))
<1> DEFINE c == Calls(stack)
           open == OpenNodes(c)
<1>1. IsGraphOf
  BY OrderedGraph
<1>2. \A n \in Node : \A e \in nodes[n].edges :
        e.dst \in Node /\ e.dst \in Has(nodes, n) \ {n} /\ Has(nodes, e.dst) \subseteq Has(nodes, n)
  BY <1>1 DEF IsGraphOf
<1>3. \A n \in Node : Has(nodes, n) \subseteq Node
  BY <1>1 DEF IsGraphOf
<1>4. ASSUME NEW n \in Node \ open, NEW e \in nodes[n].edges PROVE Leads(nodes, e, open)
  <2>1. e.dst \notin open /\ Has(nodes, e.dst) \cap open = {}
    BY <1>2, <1>4, ClosedBelow
  <2> QED
    BY <1>2, <1>3, <2>1 DEF Leads, Node
<1>5. ASSUME NEW i \in DOMAIN stack, NEW e \in nodes[stack[i].node].edges, e.dst # NextNode(stack, i)
      PROVE  Leads(nodes, e, open)
  <2> DEFINE n == stack[i].node
  <2>1. n \in Node
    BY FramesOfNodes
  <2>2. e.dst \notin open
    <3>1. CASE n \notin open
      BY <1>4, <2>1, <3>1 DEF Leads
    <3>2. CASE n \in open /\ IsOpen(c, i)
      <4>1. c[i].node = n /\ i \in DOMAIN c
        BY CallsFacts
      <4>2. View(nodes)[n].edges = nodes[n].edges
        BY <2>1, ViewFacts DEF Node
      <4>3. e.dst \in open => i + 1 \in DOMAIN c /\ e.dst = c[i + 1].node
        BY <3>2, <4>1, <4>2 DEF Ordered, Structure, OpenInOrder
      <4>4. i + 1 \in DOMAIN c => i # Len(stack) /\ c[i + 1].node = stack[i + 1].node
        BY CallsFacts, ListFacts DEF Typed
      <4> QED
        BY <1>5, <4>3, <4>4 DEF NextNode
    <3>3. CASE n \in open /\ ~IsOpen(c, i)
      <4>1. c[i].node = n /\ i \in DOMAIN c
        BY CallsFacts
      <4> QED
        BY <3>3, <4>1 DEF Ordered, Structure, CallsInOrder
    <3> QED
      BY <3>1, <3>2, <3>3
  <2> QED
    BY <1>2, <1>3, <2>1, <2>2, ClosedBelow DEF Leads, Node
<1> QED
  BY <1>2, <1>4, <1>5

\* What the calls below the one on top, and the nodes that are not being
\* expanded, agree on after a step.
OnwardHere(nt) == Onward(nt, nodes, OpenNodes(Calls(stack)), Top.node)

RestAgrees(nt) ==
  /\ \A n \in Node \ FrameNodes(stack) : NodeHolds(nt, n)
  /\ \A n \in Node : n # Top.node => IsAsking(nt[n])
  /\ \A i \in DOMAIN stack : i # Len(stack) =>
       /\ FrameHolds(nt, stack[i], stack[i + 1].node)
       /\ \A h : (/\ h.node = stack[i + 1].node /\ h.phase = stack[i + 1].phase
                  /\ h.reqs = stack[i + 1].reqs /\ h.options = stack[i + 1].options)
                 => OnTopOf(nt, stack[i], h)

LEMMA RestStays ==
  ASSUME Typed, Ordered, Agreed(nodes, stack), stack # <<>>, NEW nt, OnwardHere(nt),
         \A n \in Node : n # Top.node => nt[n].modified = nodes[n].modified /\ nt[n].option = nodes[n].option
  PROVE  RestAgrees(nt)
<1> DEFINE open == OpenNodes(Calls(stack))
           size == Len(stack)
<1>1. TopInOrder /\ DOMAIN stack = 1..size /\ size \in Nat \ {0} /\ Top = stack[size]
  BY TopIsInOrder, TopFacts
<1>2. Onward(nt, nodes, open, Top.node) /\ size \in DOMAIN stack
  BY <1>1 DEF OnwardHere
<1>3. /\ \A n \in Node : \A e \in nodes[n].edges :
              e.dst \in Node /\ e.dst \in Has(nodes, n) \ {n} /\ Has(nodes, e.dst) \subseteq Has(nodes, n)
      /\ \A n \in Node \ open : \A e \in nodes[n].edges : Leads(nodes, e, open)
      /\ \A i \in DOMAIN stack : \A e \in nodes[stack[i].node].edges :
              e.dst # NextNode(stack, i) => Leads(nodes, e, open)
  BY EdgesLead
<1>4. /\ \A i \in DOMAIN stack : stack[i].node \in Node
      /\ \A i, j \in DOMAIN stack : i # j => stack[i].node # stack[j].node
  <2>1. \A i, j \in DOMAIN Calls(stack) : i # j => Calls(stack)[i].node # Calls(stack)[j].node
    BY <1>1, CallFacts DEF TopInOrder, Ordered
  <2> QED
    BY <2>1, FramesOfNodes, CallsFacts
<1>5. open \subseteq FrameNodes(stack)
  <2>1. \A i \in DOMAIN Calls(stack) : i \in DOMAIN stack /\ Calls(stack)[i].node = stack[i].node
    BY CallsFacts
  <2> QED
    BY <2>1 DEF OpenNodes, FrameNodes
<1> HIDE DEF open
<1>6. ASSUME NEW n \in Node \ FrameNodes(stack) PROVE NodeHolds(nt, n)
  <2>1. NodeHolds(nodes, n) /\ n \in DOMAIN nodes
    BY <1>6 DEF Agreed, Node
  <2>2. n # Top.node
    BY <1>1, <1>2, <1>6 DEF FrameNodes
  <2>3. \A e \in nodes[n].edges : Leads(nodes, e, open)
    BY <1>3, <1>5, <1>6
  <2> QED
    BY <1>2, <2>1, <2>2, <2>3, NodeStays
<1>7. ASSUME NEW n \in Node, n # Top.node PROVE IsAsking(nt[n])
  <2>1. IsAsking(nodes[n])
    BY DEF Agreed, Node
  <2>2. nt[n].requires = nodes[n].requires /\ nt[n].name = nodes[n].name /\ nt[n].recipe = nodes[n].recipe
    BY <1>2, <1>7 DEF Onward, Node
  <2> QED
    BY <1>7, <2>1, <2>2 DEF IsAsking, SetsOwn
<1>8. ASSUME NEW i \in DOMAIN stack, i # Len(stack)
      PROVE  /\ FrameHolds(nt, stack[i], stack[i + 1].node)
             /\ \A h : (/\ h.node = stack[i + 1].node /\ h.phase = stack[i + 1].phase
                        /\ h.reqs = stack[i + 1].reqs /\ h.options = stack[i + 1].options)
                       => OnTopOf(nt, stack[i], h)
  <2>1. NextNode(stack, i) = stack[i + 1].node /\ i + 1 \in DOMAIN stack
    BY <1>1, <1>8 DEF NextNode
  <2>2. FrameHolds(nodes, stack[i], stack[i + 1].node) /\ OnTopOf(nodes, stack[i], stack[i + 1])
    BY <1>8, <2>1 DEF Agreed
  <2>3. stack[i].node \in DOMAIN nodes /\ stack[i].node # Top.node /\ stack[i + 1].node \in DOMAIN nodes
    BY <1>1, <1>2, <1>4, <1>8, <2>1 DEF Node
  <2>4. \A e \in nodes[stack[i].node].edges :
          e.dst \in DOMAIN nodes /\ (e.dst # stack[i + 1].node => Leads(nodes, e, open))
    BY <1>3, <2>1, <2>3 DEF Node
  <2>5. FrameHolds(nt, stack[i], stack[i + 1].node)
    BY <1>2, <2>2, <2>3, <2>4, FrameStays
  <2>6. ASSUME NEW h, h.node = stack[i + 1].node, h.phase = stack[i + 1].phase,
               h.reqs = stack[i + 1].reqs, h.options = stack[i + 1].options
        PROVE  OnTopOf(nt, stack[i], h)
    BY <1>2, <2>2, <2>3, <2>6, OnTopStays
  <2> QED
    BY <2>5, <2>6
<1> QED
  BY <1>6, <1>7, <1>8 DEF RestAgrees

\* The call on top goes on, ...
LEMMA AgreedTop ==
  ASSUME Typed, stack # <<>>, NEW nt, DOMAIN nt = Node, RestAgrees(nt), IsAsking(nt[Top.node]),
         NEW f, f.node = Top.node, FrameHolds(nt, f, None),
         \A i \in DOMAIN stack : i + 1 = Len(stack) => OnTopOf(nt, stack[i], f)
  PROVE  Agreed(nt, Append(Front(stack), f))
<1> DEFINE size == Len(stack)
           st == Append(Front(stack), f)
<1>1. DOMAIN stack = 1..size /\ size \in Nat \ {0} /\ Top = stack[size] /\ IsList(stack) /\ size \in DOMAIN stack
  BY TopFacts DEF Typed
<1>2. /\ DOMAIN st = DOMAIN stack /\ Len(st) = size /\ st[size] = f
      /\ \A i \in DOMAIN stack : i # size => st[i] = stack[i]
  BY <1>1, TopReplaced
<1> HIDE DEF st, size
<1>3. FrameNodes(st) = FrameNodes(stack)
  <2>1. \A i \in DOMAIN stack : st[i].node = stack[i].node
    BY <1>1, <1>2
  <2> QED
    BY <1>2, <2>1 DEF FrameNodes
<1>4. \A n \in DOMAIN nt : IsAsking(nt[n])
  BY DEF RestAgrees
<1>5. \A n \in DOMAIN nt \ FrameNodes(st) : NodeHolds(nt, n)
  BY <1>3 DEF RestAgrees
<1>6. ASSUME NEW i \in DOMAIN st
      PROVE  FrameHolds(nt, st[i], NextNode(st, i)) /\ (i # Len(st) => OnTopOf(nt, st[i], st[i + 1]))
  <2>1. CASE i = size
    BY <1>2, <2>1 DEF NextNode
  <2>2. CASE i # size
    <3>1. i + 1 \in DOMAIN stack /\ st[i] = stack[i] /\ i \in DOMAIN stack
      BY <1>1, <1>2, <2>2
    <3>2. st[i + 1].node = stack[i + 1].node
      BY <1>1, <1>2, <3>1
    <3>3. NextNode(st, i) = stack[i + 1].node
      BY <1>2, <2>2, <3>2 DEF NextNode
    <3>4. FrameHolds(nt, stack[i], stack[i + 1].node)
      BY <2>2, <3>1 DEF RestAgrees, size
    <3>5. OnTopOf(nt, stack[i], st[i + 1])
      <4>1. CASE i + 1 = size
        BY <1>2, <3>1, <4>1 DEF size
      <4>2. CASE i + 1 # size
        <5>1. st[i + 1] = stack[i + 1]
          BY <1>2, <3>1, <4>2
        <5> QED
          BY <2>2, <3>1, <5>1 DEF RestAgrees, size
      <4> QED
        BY <4>1, <4>2
    <3> QED
      BY <3>1, <3>3, <3>4, <3>5
  <2> QED
    BY <2>1, <2>2
<1> QED
  BY <1>4, <1>5, <1>6 DEF Agreed, st

\* ... makes another one, ...
LEMMA AgreedPushed ==
  ASSUME Typed, stack # <<>>, Top.todo # <<>>, NEW nt, DOMAIN nt \subseteq Node \cup {New}, RestAgrees(nt),
         \A n \in DOMAIN nt : n = Top.node \/ n \notin Node => IsAsking(nt[n]),
         NEW f, FrameHolds(nt, [Top EXCEPT !.todo = Tail(@)], f.node), FrameHolds(nt, f, None),
         OnTopOf(nt, [Top EXCEPT !.todo = Tail(@)], f), New \in DOMAIN nt => f.node = New, New \notin Node
  PROVE  Agreed(nt, Append(Advanced, f))
<1> DEFINE size == Len(stack)
           top == [Top EXCEPT !.todo = Tail(@)]
           st == Append(Advanced, f)
<1>1. DOMAIN stack = 1..size /\ size \in Nat \ {0} /\ Top = stack[size] /\ size \in DOMAIN stack
  BY TopFacts DEF Typed
<1>2. /\ Len(Advanced) = size /\ DOMAIN Advanced = DOMAIN stack /\ Advanced[size] = top
      /\ \A i \in DOMAIN stack : i # size => Advanced[i] = stack[i]
      /\ top.node = Top.node /\ top.phase = Top.phase /\ top.reqs = Top.reqs /\ top.options = Top.options
      /\ IsList(Advanced)
  BY AdvancedFacts
<1>3. /\ Len(st) = size + 1 /\ DOMAIN st = 1..(size + 1) /\ st[size + 1] = f
      /\ \A i \in DOMAIN stack : st[i] = Advanced[i]
  BY <1>2, TopAdded
<1>t. FrameHolds(nt, top, f.node) /\ OnTopOf(nt, top, f)
  OBVIOUS
<1> HIDE DEF st, size, top
<1>4. \A i \in DOMAIN stack : st[i].node = stack[i].node /\ i \in DOMAIN st
  BY <1>1, <1>2, <1>3
<1>5. FrameNodes(stack) \subseteq FrameNodes(st) /\ f.node \in FrameNodes(st)
  BY <1>1, <1>3, <1>4 DEF FrameNodes
<1>6. \A n \in DOMAIN nt : IsAsking(nt[n])
  BY DEF RestAgrees
<1>7. \A n \in DOMAIN nt \ FrameNodes(st) : NodeHolds(nt, n)
  BY <1>5 DEF RestAgrees
<1>8. ASSUME NEW i \in DOMAIN st
      PROVE  FrameHolds(nt, st[i], NextNode(st, i)) /\ (i # Len(st) => OnTopOf(nt, st[i], st[i + 1]))
  <2>1. CASE i = size + 1
    BY <1>3, <2>1 DEF NextNode
  <2>2. CASE i = size
    <3>1. i # Len(st) /\ st[i + 1] = f /\ st[i] = top
      BY <1>1, <1>2, <1>3, <2>2
    <3> QED
      BY <1>t, <3>1 DEF NextNode
  <2>3. CASE i # size /\ i # size + 1
    <3>1. i \in DOMAIN stack /\ i + 1 \in DOMAIN stack /\ i # Len(st)
      BY <1>1, <1>3, <2>3
    <3>2. st[i] = stack[i] /\ st[i + 1].node = stack[i + 1].node
      BY <1>2, <1>3, <1>4, <2>3, <3>1
    <3>3. /\ st[i + 1].phase = stack[i + 1].phase /\ st[i + 1].reqs = stack[i + 1].reqs
          /\ st[i + 1].options = stack[i + 1].options
      BY <1>1, <1>2, <1>3, <3>1
    <3>4. FrameHolds(nt, stack[i], stack[i + 1].node) /\ OnTopOf(nt, stack[i], st[i + 1])
      BY <2>3, <3>1, <3>2, <3>3 DEF RestAgrees, size
    <3> QED
      BY <3>1, <3>2, <3>4 DEF NextNode
  <2> QED
    BY <2>1, <2>2, <2>3
<1> QED
  BY <1>6, <1>7, <1>8 DEF Agreed, st

\* ... or ends.
LEMMA AgreedReturned ==
  ASSUME Typed, stack # <<>>, NEW nt, DOMAIN nt = Node, RestAgrees(nt), IsAsking(nt[Top.node]),
         NodeHolds(nt, Top.node),
         \A i \in DOMAIN stack : i + 1 = Len(stack) => FrameHolds(nt, stack[i], None)
  PROVE  Agreed(nt, Front(stack))
<1> DEFINE size == Len(stack)
           st == Front(stack)
<1>1. DOMAIN stack = 1..size /\ size \in Nat \ {0} /\ Top = stack[size] /\ IsList(stack) /\ size \in DOMAIN stack
  BY TopFacts DEF Typed
<1>2. Len(st) = size - 1 /\ DOMAIN st = 1..(size - 1) /\ \A i \in DOMAIN st : st[i] = stack[i]
  BY <1>1, ListFront
<1> HIDE DEF st, size
<1>3. \A i \in DOMAIN st : i \in DOMAIN stack /\ i # size /\ i + 1 \in DOMAIN stack
  BY <1>1, <1>2
<1>4. FrameNodes(stack) \subseteq FrameNodes(st) \cup {Top.node}
  <2>1. \A i \in DOMAIN stack : i = size \/ i \in DOMAIN st
    BY <1>1, <1>2
  <2> QED
    BY <1>1, <1>2, <2>1 DEF FrameNodes
<1>5. \A n \in DOMAIN nt : IsAsking(nt[n])
  BY DEF RestAgrees
<1>6. \A n \in DOMAIN nt \ FrameNodes(st) : NodeHolds(nt, n)
  BY <1>4 DEF RestAgrees
<1>7. ASSUME NEW i \in DOMAIN st
      PROVE  FrameHolds(nt, st[i], NextNode(st, i)) /\ (i # Len(st) => OnTopOf(nt, st[i], st[i + 1]))
  <2>1. st[i] = stack[i] /\ i \in DOMAIN stack /\ i # Len(stack)
    BY <1>2, <1>3 DEF size
  <2>2. CASE i = Len(st)
    <3>1. i + 1 = Len(stack)
      BY <1>1, <1>2, <2>2 DEF size
    <3> QED
      BY <2>1, <2>2, <3>1 DEF NextNode
  <2>3. CASE i # Len(st)
    <3>1. i + 1 \in DOMAIN st
      BY <1>1, <1>2, <2>3
    <3>2. st[i + 1] = stack[i + 1]
      BY <1>2, <3>1
    <3>3. FrameHolds(nt, stack[i], stack[i + 1].node) /\ OnTopOf(nt, stack[i], stack[i + 1])
      BY <2>1 DEF RestAgrees
    <3> QED
      BY <2>1, <2>3, <3>2, <3>3 DEF NextNode
  <2> QED
    BY <2>2, <2>3
<1> QED
  BY <1>5, <1>6, <1>7 DEF Agreed, st

\* What a call is left with, when it takes its next requirement.
IsTaken(r) ==
  (\E i \in DOMAIN Top.todo : Top.todo[i] = r) <=>
    (r = Require \/ \E i \in DOMAIN Tail(Top.todo) : Tail(Top.todo)[i] = r)

LEMMA RequireTaken ==
  ASSUME Typed, stack # <<>>, Top.todo # <<>>
  PROVE  \A r : IsTaken(r)
<1> DEFINE s == Top.todo
<1>1. IsRequires(s) /\ s # <<>>
  BY TopFacts DEF IsFrame
<1> HIDE DEF s
<1>2. \A r : (\E i \in DOMAIN s : s[i] = r) <=>
                 (r = Head(s) \/ \E i \in DOMAIN Tail(s) : Tail(s)[i] = r)
  BY <1>1, ListTail
<1> QED
  BY <1>2 DEF s, Require, IsTaken

\* The requirement that is expanded is passed on.
RequireAgrees ==
  /\ \E j \in DOMAIN Self.requires : Self.requires[j] = Require
  /\ Require.name \in DOMAIN Top.reqs /\ Top.reqs[Require.name] = Require /\ RangeKept(Require)
  /\ Expands(nodes, Top, None) /\ FrameHolds(nodes, Top, None)

LEMMA TopAgrees ==
  ASSUME Typed, Agreed(nodes, stack), stack # <<>>
  PROVE  /\ FrameHolds(nodes, Top, None) /\ IsAsking(Self)
         /\ Top.phase = "expand" => Expands(nodes, Top, None)
         /\ Top.phase = "expand" /\ Top.todo # <<>> => RequireAgrees
<1>1. Len(stack) \in DOMAIN stack /\ Top = stack[Len(stack)] /\ IsFrame(nodes, Top)
      /\ Self = nodes[Top.node] /\ Top.node \in DOMAIN nodes
  BY TopFacts DEF Node
<1>2. NextNode(stack, Len(stack)) = None
  BY DEF NextNode
<1>3. FrameHolds(nodes, Top, None) /\ IsAsking(Self)
  BY <1>1, <1>2 DEF Agreed
<1>4. Top.phase = "expand" => Expands(nodes, Top, None)
  BY <1>3 DEF FrameHolds
<1>5. ASSUME Top.phase = "expand", Top.todo # <<>> PROVE RequireAgrees
  <2>1. \E k \in DOMAIN Top.todo : Top.todo[k] = Require
    BY <1>5, RequireTaken DEF IsTaken
  <2>2. PICK j \in DOMAIN Self.requires : Self.requires[j] = Require
    BY <1>1, <1>4, <1>5, <2>1 DEF Expands
  <2>3. Require.name \in DOMAIN Top.reqs /\ Top.reqs[Require.name] = Require /\ RangeKept(Require)
    BY <1>1, <1>4, <1>5, <2>2 DEF Expands
  <2> QED
    BY <1>3, <1>4, <1>5, <2>2, <2>3 DEF RequireAgrees
<1> QED
  BY <1>3, <1>4, <1>5

\* The call on top, when it has taken its next requirement.
LEMMA AdvancedHolds ==
  ASSUME Typed, Ordered, Agreed(nodes, stack), stack # <<>>, Top.todo # <<>>, Top.phase = "expand",
         NEW nt, OnwardHere(nt), nt[Top.node].requires = Self.requires, nt[Top.node].deps = Self.deps,
         NEW next,
         \A e \in nt[Top.node].edges : e.name # Require.name => e \in Self.edges,
         \A e \in nt[Top.node].edges : e.name = Require.name =>
           /\ nt[e.dst].version = Require.version
           /\ e.dst # next => \A y \in Has(nt, e.dst) : Fits(nt, e.dst, Top, y)
  PROVE  FrameHolds(nt, [Top EXCEPT !.todo = Tail(@)], next)
<1> DEFINE top == [Top EXCEPT !.todo = Tail(@)]
           n == Top.node
           open == OpenNodes(Calls(stack))
<1>1. /\ top.node = n /\ top.phase = Top.phase /\ top.reqs = Top.reqs /\ top.options = Top.options
      /\ top.todo = Tail(Top.todo)
  BY AdvancedFacts
<1> HIDE DEF top
<1>2. RequireAgrees /\ Expands(nodes, Top, None) /\ FrameHolds(nodes, Top, None)
  BY TopAgrees
<1>3. IsFrame(nodes, Top) /\ Self = nodes[n] /\ n \in Node /\ Top = stack[Len(stack)] /\ Len(stack) \in DOMAIN stack
  BY TopFacts
<1>4. \A r : (\E i \in DOMAIN Top.todo : Top.todo[i] = r) <=>
               (r = Require \/ \E i \in DOMAIN Tail(Top.todo) : Tail(Top.todo)[i] = r)
  BY RequireTaken DEF IsTaken
<1>5. Onward(nt, nodes, open, n)
  BY DEF OnwardHere
<1>6. ToExpand(Top) = ToExpand(top) \cup {Require.name}
  <2>1. \A k \in DOMAIN Top.todo : Top.todo[k].name \in ToExpand(top) \cup {Require.name}
    <3> SUFFICES ASSUME NEW k \in DOMAIN Top.todo, Top.todo[k] # Require PROVE Top.todo[k].name \in ToExpand(top)
      OBVIOUS
    <3>1. \E i \in DOMAIN Tail(Top.todo) : Tail(Top.todo)[i] = Top.todo[k]
      BY <1>4
    <3> QED
      BY <1>1, <3>1 DEF ToExpand
  <2>2. \A k \in DOMAIN top.todo : top.todo[k].name \in ToExpand(Top)
    <3> SUFFICES ASSUME NEW k \in DOMAIN top.todo PROVE top.todo[k].name \in ToExpand(Top)
      OBVIOUS
    <3>1. \E i \in DOMAIN Top.todo : Top.todo[i] = top.todo[k]
      BY <1>1, <1>4
    <3> QED
      BY <3>1 DEF ToExpand
  <2>3. Require.name \in ToExpand(Top)
    <3>1. \E i \in DOMAIN Top.todo : Top.todo[i] = Require
      BY <1>4
    <3> QED
      BY <3>1 DEF ToExpand
  <2> QED
    BY <2>1, <2>2, <2>3 DEF ToExpand
<1>7. ASSUME NEW e \in nt[n].edges, e.name \notin ToExpand(top)
      PROVE  /\ EdgeHolds(nt[n], e, nt[e.dst])
             /\ e.dst # next => \A y \in Has(nt, e.dst) : Fits(nt, e.dst, top, y)
  <2>1. CASE e.name = Require.name
    <3>1. EdgeHolds(nt[n], e, nt[e.dst])
      BY <1>2, <1>7, <2>1 DEF EdgeHolds, RequireAgrees
    <3> QED
      BY <1>1, <1>7, <2>1, <3>1 DEF Fits
  <2>2. CASE e.name # Require.name
    <3>1. e \in nodes[n].edges /\ e.name \notin ToExpand(Top)
      BY <1>3, <1>6, <1>7, <2>2
    <3>2. EdgeHolds(nodes[n], e, nodes[e.dst]) /\ (e.dst # None => \A y \in Has(nodes, e.dst) : Fits(nodes, e.dst, Top, y))
      BY <1>2, <3>1 DEF Expands
    <3>3. e.dst \in Node /\ e.dst # None
      <4>1. e.dst \in Node
        BY <1>3, <3>1, EdgesLead
      <4> QED
        BY <4>1, NoneIsNoNode DEF Typed, IsGraph, Node
    <3>4. Leads(nodes, e, open)
      <4>1. NextNode(stack, Len(stack)) = None
        BY DEF NextNode
      <4> QED
        BY <1>3, <3>1, <3>3, <4>1, EdgesLead
    <3>5. nt[e.dst].version = nodes[e.dst].version /\ Has(nt, e.dst) = Has(nodes, e.dst)
          /\ Has(nodes, e.dst) \subseteq DOMAIN nodes
      BY <1>5, <3>4 DEF Onward, Leads
    <3>6. EdgeHolds(nt[n], e, nt[e.dst])
      BY <1>3, <3>2, <3>5 DEF EdgeHolds
    <3>7. ASSUME NEW y \in Has(nodes, e.dst) PROVE Fits(nt, e.dst, top, y)
      <4>1. Fits(nodes, e.dst, Top, y)
        BY <3>2, <3>3
      <4>2. Fits(nt, e.dst, Top, y)
        BY <1>5, <3>4, <4>1, BelowStays
      <4> QED
        BY <1>1, <4>2 DEF Fits
    <3> QED
      BY <3>5, <3>6, <3>7
  <2> QED
    BY <2>1, <2>2
<1>8. Expands(nt, top, next)
  <2>1. top.options = nt[n].deps
    BY <1>1, <1>2, <1>3 DEF Expands
  <2>2. \A k \in DOMAIN nt[n].requires :
       /\ nt[n].requires[k].name \in DOMAIN top.reqs
       /\ top.reqs[nt[n].requires[k].name] = nt[n].requires[k]
       /\ RangeKept(nt[n].requires[k])
    BY <1>1, <1>2, <1>3 DEF Expands
  <2>3. \A k \in DOMAIN top.todo : \E j \in DOMAIN nt[n].requires : nt[n].requires[j] = top.todo[k]
    <3> SUFFICES ASSUME NEW k \in DOMAIN top.todo PROVE \E j \in DOMAIN Self.requires : Self.requires[j] = top.todo[k]
      OBVIOUS
    <3>1. \E i \in DOMAIN Top.todo : Top.todo[i] = top.todo[k]
      BY <1>1, <1>4
    <3> QED
      BY <1>2, <1>3, <3>1 DEF Expands
  <2> QED
    BY <1>1, <1>7, <2>1, <2>2, <2>3 DEF Expands
<1>9. \A k \in DOMAIN top.reqs : top.reqs[k].version # None
  BY <1>1, <1>2 DEF FrameHolds
<1>10. FrameHolds(nt, top, next)
  BY <1>8, <1>9 DEF FrameHolds
<1> QED
  BY <1>10 DEF top

\* No edge is for an override.
LEMMA NoEdgeOverridden ==
  ASSUME Typed, Ordered, Agreed(nodes, stack), AtRequire(TRUE)
  PROVE  \A e \in Self.edges : e.name # Require.name
<1>1. stack # <<>> /\ Top.todo # <<>> /\ Top.phase = "expand" /\ Require.kind = "override"
  BY DEF AtRequire, Running
<1>2. RequireAgrees
  BY <1>1, TopAgrees
<1>3. PICK j \in DOMAIN Self.requires : Self.requires[j] = Require
  BY <1>2 DEF RequireAgrees
<1>4. Top.node \in Node /\ Self = nodes[Top.node] /\ TypedNode(nodes, Self)
  BY <1>1, TopFacts
<1> DEFINE s == Self.recipe.requires
<1>5. Alike(Self.requires, s)
  BY <1>4 DEF Ordered, Complete, Node
<1>6. j \in DOMAIN s /\ s[j].name = Require.name /\ s[j].kind = "override"
  BY <1>1, <1>3, <1>5 DEF Alike
<1>7. \A i \in DOMAIN s : s[i].name = s[j].name => i = j
  <2>1. Self.name \in Name \cup {Root} /\ Self.recipe \in World.recipes[Self.name] /\ world \in DOMAIN Worlds
    BY <1>4 DEF Typed, TypedNode, Key
  <2> QED
    BY <1>6, <2>1, RecipeFacts
<1>8. ASSUME NEW e \in Self.edges PROVE RequiresName(s, e.name)
  <2>1. /\ View(nodes)[Top.node].edges = Self.edges /\ View(nodes)[Top.node].recipe = Self.recipe
        /\ Top.node \in DOMAIN View(nodes)
    BY <1>4, ViewFacts DEF Node
  <2> QED
    BY <1>8, <2>1 DEF Ordered, Structure, EdgesInOrder
<1>9. ASSUME NEW e \in Self.edges, e.name = Require.name PROVE FALSE
  <2>1. PICK i \in DOMAIN s : s[i].name = e.name /\ s[i].kind = "normal"
    BY <1>8, <1>9 DEF RequiresName
  <2> QED
    BY <1>6, <1>7, <1>9, <2>1
<1> QED
  BY <1>9

\* Nothing changes.
LEMMA OnwardSame == OnwardHere(nodes)
BY DEF OnwardHere, Onward

LEMMA PassOverrideAgrees ==
  ASSUME Typed, Ordered, Agreed(nodes, stack), PassOverride
  PROVE  Agreed(nodes', stack')
<1>1. stack # <<>> /\ Top.todo # <<>> /\ Top.phase = "expand" /\ nodes' = nodes /\ stack' = Advanced
  BY DEF PassOverride, AtRequire, Running
<1>2. OnwardHere(nodes) /\ RestAgrees(nodes)
  BY <1>1, OnwardSame, RestStays
<1> DEFINE top == [Top EXCEPT !.todo = Tail(@)]
<1>3. FrameHolds(nodes, top, None)
  <2>1. \A e \in nodes[Top.node].edges : e.name # Require.name /\ e \in Self.edges
    BY NoEdgeOverridden DEF PassOverride, Self
  <2>2. nodes[Top.node].requires = Self.requires /\ nodes[Top.node].deps = Self.deps
    BY DEF Self
  <2> QED
    BY <1>1, <1>2, <2>1, <2>2, AdvancedHolds
<1>4. /\ top.node = Top.node /\ top.phase = Top.phase /\ top.reqs = Top.reqs /\ top.options = Top.options
      /\ Advanced = Append(Front(stack), top)
  BY <1>1, AdvancedFacts DEF Advanced, WithTop
<1> HIDE DEF top
<1>5. \A i \in DOMAIN stack : i + 1 = Len(stack) => OnTopOf(nodes, stack[i], top)
  <2>1. Top = stack[Len(stack)] /\ \A i \in DOMAIN stack : i + 1 = Len(stack) => i # Len(stack)
    BY <1>1, TopFacts
  <2> QED
    BY <1>2, <1>4, <2>1 DEF RestAgrees
<1>6. IsAsking(nodes[Top.node]) /\ DOMAIN nodes = Node
  BY <1>1, TopAgrees DEF Self, Node
<1>7. Agreed(nodes, Append(Front(stack), top))
  BY <1>1, <1>2, <1>3, <1>4, <1>5, <1>6, AgreedTop
<1> QED
  BY <1>1, <1>4, <1>7

LEMMA ReturnAgrees ==
  ASSUME Typed, Ordered, Agreed(nodes, stack), Return
  PROVE  Agreed(nodes', stack')
<1>1. stack # <<>> /\ stack' = Front(stack) /\ Top.phase = "expand" /\ Top.todo = <<>>
      /\ TopInOrder /\ DOMAIN nodes' = Node /\ \A y \in Node : Same(nodes'[y], nodes[y], {"transitive"})
  BY ReturnFacts, ReturnStructure
<1> DEFINE nt == nodes'
           n == Top.node
<1>2. \A y \in Node : /\ nt[y].name = nodes[y].name /\ nt[y].version = nodes[y].version
                      /\ nt[y].option = nodes[y].option /\ nt[y].requires = nodes[y].requires
                      /\ nt[y].deps = nodes[y].deps /\ nt[y].edges = nodes[y].edges
                      /\ nt[y].modified = nodes[y].modified /\ nt[y].recipe = nodes[y].recipe
                      /\ nt[y].public_closure = nodes[y].public_closure
  BY <1>1 DEF Same, NodeFields
<1> HIDE DEF nt
<1>d. DOMAIN nt = Node
  BY <1>1 DEF nt
<1>3. \A y \in Node : Has(nt, y) = Has(nodes, y)
  BY <1>2 DEF Has
<1>4. OnwardHere(nt)
  BY <1>2, <1>3, <1>d DEF OnwardHere, Onward, Node
<1>5. RestAgrees(nt)
  BY <1>1, <1>2, <1>4, RestStays
<1>6. n \in Node /\ Self = nodes[n] /\ Top = stack[Len(stack)] /\ DOMAIN stack = 1..Len(stack)
      /\ Len(stack) \in DOMAIN stack
  BY <1>1, TopFacts
<1>7. IsAsking(nt[n])
  <2>1. IsAsking(Self)
    BY <1>1, TopAgrees
  <2> QED
    BY <1>2, <1>6, <2>1 DEF IsAsking, SetsOwn
<1>8. IsGraphOf /\ \A y, z \in Node : y # z => nodes[y].name # nodes[z].name
  BY <1>1, OrderedGraph DEF TopInOrder, Unique, Node
<1>9. \A e \in nodes[n].edges :
        /\ EdgeHolds(Self, e, nodes[e.dst]) /\ e.dst \in Node /\ Has(nodes, e.dst) \subseteq Node
        /\ \A y \in Has(nodes, e.dst) : Fits(nodes, e.dst, Top, y)
  <2>1. Expands(nodes, Top, None)
    BY <1>1, TopAgrees
  <2>2. ToExpand(Top) = {}
    BY <1>1 DEF ToExpand
  <2>3. \A e \in nodes[n].edges : e.dst \in Node /\ e.dst # None /\ Has(nodes, e.dst) \subseteq Node
    <3>1. None \notin Node
      BY <1>1 DEF TopInOrder
    <3> QED
      BY <1>6, <1>8, <3>1 DEF IsGraphOf
  <2> QED
    BY <1>6, <2>1, <2>2, <2>3 DEF Expands
<1>o. \A p, y \in Node : Overruled(nodes, p, y) => Overruled(nt, p, y)
  <2> SUFFICES ASSUME NEW p \in Node, NEW y \in Node, Overruled(nodes, p, y) PROVE Overruled(nt, p, y)
    OBVIOUS
  <2>1. PICK z \in Has(nodes, p) : y \in Has(nodes, z) /\ Sets(nodes[z].recipe, nodes[y].name)
    BY DEF Overruled
  <2>2. z \in Node
    BY <1>8 DEF IsGraphOf
  <2> QED
    BY <1>2, <1>3, <2>1, <2>2 DEF Overruled
<1>10. NodeHolds(nt, n)
  <2>1. ASSUME NEW e \in nodes[n].edges, NEW y \in Has(nodes, e.dst)
        PROVE  Prevails(nodes, e.dst, nodes[n], y)
    <3>1. Fits(nodes, e.dst, Top, y)
      BY <1>9
    <3>2. Expands(nodes, Top, None)
      BY <1>1, TopAgrees
    <3>3. Overruled(nodes, e.dst, y) \/ OptionFits(nodes[n].deps, nodes[y])
      BY <3>1, <3>2 DEF Fits, Expands
    <3>4. ASSUME NEW k \in DOMAIN nodes[n].requires, nodes[n].requires[k].name = nodes[y].name
          PROVE  nodes[n].requires[k].version = nodes[y].version
      <4>1. nodes[y].name \in DOMAIN Top.reqs /\ Top.reqs[nodes[y].name] = nodes[n].requires[k]
        BY <3>2, <3>4 DEF Expands
      <4> QED
        BY <3>1, <4>1 DEF Fits, VersionFits
    <3> QED
      BY <3>3, <3>4 DEF Prevails
  <2>2. NodeHolds(nodes, n)
    BY <1>6, <1>9, <2>1 DEF NodeHolds
  <2>3. ASSUME NEW e \in nodes[n].edges
        PROVE  EdgeHolds(nt[n], e, nt[e.dst]) /\ \A y \in Has(nt, e.dst) : Prevails(nt, e.dst, nt[n], y)
    <3>1. EdgeHolds(nodes[n], e, nodes[e.dst])
          /\ \A y \in Has(nodes, e.dst) : Prevails(nodes, e.dst, nodes[n], y)
      BY <2>2 DEF NodeHolds
    <3>2. EdgeHolds(nt[n], e, nt[e.dst])
      BY <1>2, <1>6, <1>9, <3>1 DEF EdgeHolds
    <3>3. \A y \in Has(nodes, e.dst) : Prevails(nt, e.dst, nt[n], y)
      BY <1>2, <1>6, <1>9, <1>o, <3>1 DEF Prevails, OptionFits, SetsOwn
    <3> QED
      BY <1>3, <1>9, <3>2, <3>3
  <2> QED
    BY <1>2, <1>6, <2>3 DEF NodeHolds
<1>11. ASSUME NEW i \in DOMAIN stack, i + 1 = Len(stack) PROVE FrameHolds(nt, stack[i], None)
  <2> DEFINE f == stack[i]
  <2>1. i # Len(stack) /\ stack[i + 1] = Top
    BY <1>6, <1>11
  <2>2. FrameHolds(nt, f, n) /\ OnTopOf(nt, f, Top)
    BY <1>5, <2>1 DEF RestAgrees
  <2>3. f.node \in Node
    BY FramesOfNodes
  <2> HIDE DEF f
  <2>4. ASSUME NEW y \in Has(nodes, n) PROVE Fits(nt, n, f, y)
    <3>1. PassesDown(f, Top, nt[n]) /\ VersionFits(f.reqs, nt[n])
      BY <1>1, <2>2 DEF OnTopOf
    <3>2. CASE y = n
      BY <3>1, <3>2 DEF PassesDown, Fits
    <3>3. CASE y # n
      <4>1. PICK e \in nodes[n].edges : y \in Has(nodes, e.dst)
        BY <1>6, <1>8, <3>3 DEF IsGraphOf
      <4>2. Fits(nodes, e.dst, Top, y) /\ y \in Node
        BY <1>9, <4>1
      <4>3. nt[y].name # nt[n].name /\ VersionFits(Top.reqs, nt[y])
        BY <1>2, <1>6, <1>8, <3>3, <4>2 DEF Fits, VersionFits
      <4>4. Overruled(nt, n, y) \/ OptionFits(f.options, nt[y])
        <5>1. CASE Overruled(nodes, e.dst, y)
          <6>1. Has(nodes, e.dst) \subseteq Has(nodes, n)
            BY <1>6, <1>8, <4>1 DEF IsGraphOf
          <6>2. Overruled(nodes, n, y)
            BY <5>1, <6>1 DEF Overruled
          <6> QED
            BY <1>6, <1>o, <4>2, <6>2
        <5>2. CASE nt[y].name \in Name /\ Sets(nt[n].recipe, nt[y].name)
          <6>1. n \in Has(nt, n) /\ y \in Has(nt, n)
            BY <1>3, <1>6, <1>8, <2>4 DEF IsGraphOf
          <6> QED
            BY <5>2, <6>1 DEF Overruled
        <5>3. CASE OptionFits(Top.options, nodes[y]) /\ ~(nt[y].name \in Name /\ Sets(nt[n].recipe, nt[y].name))
          <6>1. OptionFits(Top.options, nt[y])
            BY <1>2, <4>2, <5>3 DEF OptionFits, SetsOwn
          <6> QED
            BY <3>1, <4>3, <5>3, <6>1 DEF PassesDown, OptionFits
        <5> QED
          BY <4>2, <5>1, <5>2, <5>3 DEF Fits
      <4>5. VersionFits(f.reqs, nt[y])
        <5>1. IsFrame(nodes, f)
          BY DEF Typed, f
        <5> QED
          BY <3>1, <4>3, <5>1 DEF PassesDown, VersionFits, IsFrame
      <4> QED
        BY <4>4, <4>5 DEF Fits
    <3> QED
      BY <3>2, <3>3
  <2>5. ASSUME Expands(nt, f, n) PROVE Expands(nt, f, None)
    <3>1. ASSUME NEW e \in nt[f.node].edges, e.name \notin ToExpand(f)
          PROVE  EdgeHolds(nt[f.node], e, nt[e.dst]) /\ \A y \in Has(nt, e.dst) : Fits(nt, e.dst, f, y)
      <4>1. EdgeHolds(nt[f.node], e, nt[e.dst]) /\ (e.dst # n => \A y \in Has(nt, e.dst) : Fits(nt, e.dst, f, y))
        BY <2>5, <3>1 DEF Expands
      <4>2. Has(nt, n) = Has(nodes, n)
        BY <1>3, <1>6
      <4> QED
        BY <2>4, <4>1, <4>2
    <3> QED
      BY <2>5, <3>1 DEF Expands
  <2>6. FrameHolds(nt, f, None)
    BY <2>2, <2>5 DEF FrameHolds
  <2> QED
    BY <2>6 DEF f
<1>12. Agreed(nt, Front(stack))
  BY <1>1, <1>5, <1>7, <1>10, <1>11, <1>d, AgreedReturned
<1> QED
  BY <1>1, <1>12 DEF nt

\* Every requirement has a version, which is in its range, and is what comes
\* from downstream if anything does.
RequiredHolds(i) ==
  /\ Required[i].version # None /\ RangeKept(Required[i])
  /\ Required[i].kind # "private" /\ Required[i].name \in DOMAIN Top.reqs =>
       Required[i].version = Top.reqs[Required[i].name].version

LEMMA RequiredAgrees ==
  ASSUME Typed, Agreed(nodes, stack), stack # <<>>, NEW i \in DOMAIN Required, ~RangeRefused(Required[i])
  PROVE  RequiredHolds(i)
<1> DEFINE asked == Asked[i]
           updated == Updated(asked)
           r == Required[i]
           other == Top.reqs[asked.name]
<1>1. FrameHolds(nodes, Top, None) /\ IsAsking(Self)
  BY TopAgrees
<1>2. IsFrame(nodes, Top) /\ Self = nodes[Top.node] /\ Top.node \in Node /\ TypedNode(nodes, Self)
      /\ world \in DOMAIN Worlds
  BY TopFacts DEF Typed
<1>3. /\ i \in DOMAIN Asked /\ asked \in Requirement /\ r = Resolved(updated)
      /\ r.name = asked.name /\ r.kind = asked.kind /\ IsRequires(Required)
  BY RequiredFacts
<1>4. asked.version # None \/ asked.range # {}
  <2>1. CASE Self.recipe.method
    <3>1. Self.name \in Name \cup {Root} /\ Self.recipe \in World.recipes[Self.name]
      BY <1>2 DEF Typed, TypedNode, Key
    <3>2. \A j \in DOMAIN Self.recipe.requires :
            Self.recipe.requires[j].version # None \/ Self.recipe.requires[j].range # {}
      BY <1>2, <3>1, RecipeFacts
    <3>3. Asked = Self.recipe.requires
      BY <2>1 DEF Asked
    <3> QED
      BY <1>3, <3>2, <3>3
  <2>2. CASE ~Self.recipe.method
    BY <1>1, <1>3, <2>2 DEF Asked, IsAsking
  <2> QED
    BY <2>1, <2>2
<1>5. /\ updated \in Requirement /\ updated.name = asked.name /\ updated.kind = asked.kind
      /\ r.range = updated.range
  BY <1>2, <1>3, SomeVersions
<1>6. None \notin Version /\ r \in Requirement /\ r.range \subseteq Version
  <2>1. r \in Requirement
    BY <1>3 DEF IsRequires
  <2> QED
    BY <1>2, <2>1, WorldFacts DEF Requirement
<1>7. RangeKept(r)
  BY DEF RangeRefused, RangeKept
<1>8. \A k \in DOMAIN Top.reqs : Top.reqs[k].version # None
  BY <1>1 DEF FrameHolds
<1>9. asked.kind # "private" /\ asked.name \in DOMAIN Top.reqs => updated.version = other.version
  <2> SUFFICES ASSUME asked.kind # "private", asked.name \in DOMAIN Top.reqs, other.version # asked.version
               PROVE  updated.version = other.version
    BY DEF Updated
  <2>1. updated = [asked EXCEPT !.version = other.version,
                                !.range = IF other.range = {} THEN {} ELSE @]
    BY DEF Updated
  <2> HIDE DEF other, updated
  <2> QED
    BY <1>3, <2>1 DEF Requirement
<1>10. updated.version # None => r = updated
  BY <1>3 DEF Resolved
<1>11. r.version # None
  <2>1. CASE r.range # {}
    BY <1>6, <1>7, <2>1 DEF RangeKept
  <2>2. CASE r.range = {}
    <3>1. CASE asked.kind # "private" /\ asked.name \in DOMAIN Top.reqs
      BY <1>8, <1>9, <1>10, <3>1
    <3>2. CASE ~(asked.kind # "private" /\ asked.name \in DOMAIN Top.reqs)
      <4>1. updated = asked
        BY <3>2 DEF Updated
      <4>2. updated.version # None
        BY <1>4, <1>5, <2>2, <4>1
      <4> QED
        BY <1>10, <4>2
    <3> QED
      BY <3>1, <3>2
  <2> QED
    BY <2>1, <2>2
<1>12. asked.kind # "private" /\ asked.name \in DOMAIN Top.reqs => r.version = other.version
  BY <1>8, <1>9, <1>10
<1> QED
  BY <1>3, <1>7, <1>11, <1>12 DEF RequiredHolds

\* What is passed on is what is required here, and what else came from downstream.
PassesOn(passed, reqs, required) ==
  /\ \A i \in DOMAIN required : required[i].name \in DOMAIN passed /\ passed[required[i].name] = required[i]
  /\ \A k \in DOMAIN passed :
       \/ \E i \in DOMAIN required : required[i].name = k /\ passed[k] = required[i]
       \/ k \in DOMAIN reqs /\ passed[k] = reqs[k]
  /\ DOMAIN reqs \ {Self.name} \subseteq DOMAIN passed

LEMMA PassedOnAgrees ==
  ASSUME NEW reqs, NEW required, \A i \in DOMAIN required : required[i].kind # "private",
         \A i, j \in DOMAIN required : required[i].name = required[j].name => i = j
  PROVE  PassesOn(PassedOn(reqs, required), reqs, required)
<1> DEFINE own == {i \in DOMAIN required : required[i].kind # "private"}
           names == (DOMAIN reqs \ {Self.name}) \cup {required[i].name : i \in own}
           passed == PassedOn(reqs, required)
           at(k) == CHOOSE i \in own : required[i].name = k
<1>1. own = DOMAIN required
  OBVIOUS
<1>2. /\ DOMAIN passed = names
      /\ \A k \in names : passed[k] = IF \E i \in own : required[i].name = k THEN required[at(k)] ELSE reqs[k]
  BY DEF PassedOn
<1>3. \A k : (\E i \in own : required[i].name = k) => at(k) \in own /\ required[at(k)].name = k
  OBVIOUS
<1> HIDE DEF at, passed
<1>4. \A i \in DOMAIN required : at(required[i].name) = i
  BY <1>1, <1>3
<1>5. ASSUME NEW i \in DOMAIN required
      PROVE  required[i].name \in DOMAIN passed /\ passed[required[i].name] = required[i]
  BY <1>1, <1>2, <1>4
<1>6. ASSUME NEW k \in DOMAIN passed
      PROVE  \/ \E i \in DOMAIN required : required[i].name = k /\ passed[k] = required[i]
             \/ k \in DOMAIN reqs /\ passed[k] = reqs[k]
  <2>1. CASE \E i \in own : required[i].name = k
    BY <1>5, <2>1
  <2>2. CASE ~\E i \in own : required[i].name = k
    BY <1>2, <2>2
  <2> QED
    BY <2>1, <2>2
<1> QED
  BY <1>2, <1>5, <1>6 DEF PassesOn, passed

\* Requirements are like those of the recipe, and none is private.
RequiredOrdinary ==
  /\ \A i \in DOMAIN Required : Required[i].kind # "private"
  /\ \A i, j \in DOMAIN Required : Required[i].name = Required[j].name => i = j
  /\ \A e \in Self.edges : \E i \in DOMAIN Required : Required[i].name = e.name

LEMMA RequiredIsOrdinary ==
  ASSUME Typed, Ordinary, Ordered, stack # <<>>
  PROVE  RequiredOrdinary
<1> DEFINE t == Self.recipe.requires
<1>1. /\ Top.node \in Node /\ Self = nodes[Top.node] /\ Self.name \in Name \cup {Root}
      /\ Self.recipe \in World.recipes[Self.name] /\ world \in DOMAIN Worlds
  BY TopFacts DEF Typed, TypedNode, Key
<1>2. Alike(Required, t)
  BY RequiredAlike
<1>3. \A i \in DOMAIN t : t[i].kind # "private"
  BY <1>1 DEF Ordinary
<1>4. \A i, j \in DOMAIN t : t[i].name = t[j].name => i = j
  BY <1>1, RecipeFacts
<1>5. \A e \in Self.edges : RequiresName(t, e.name)
  <2>1. /\ View(nodes)[Top.node].edges = Self.edges /\ View(nodes)[Top.node].recipe = Self.recipe
        /\ Top.node \in DOMAIN View(nodes)
    BY <1>1, ViewFacts DEF Node
  <2> QED
    BY <2>1 DEF Ordered, Structure, EdgesInOrder
<1> HIDE DEF t
<1>6. \A e \in Self.edges : \E i \in DOMAIN Required : Required[i].name = e.name
  BY <1>2, <1>5 DEF RequiresName, Alike
<1> QED
  BY <1>2, <1>3, <1>4, <1>6 DEF RequiredOrdinary, Alike

LEMMA GetNodeRequirementsAgrees ==
  ASSUME Typed, Ordinary, Ordered, Agreed(nodes, stack), GetNodeRequirements
  PROVE  Agreed(nodes', stack')
<1> DEFINE nt == nodes'
           n == Top.node
           own == DownOption(Self.name)
<1>1. stack # <<>> /\ Top.phase = "configure" /\ ~OptionRefused
      /\ \A i \in DOMAIN Required : ~RangeRefused(Required[i])
  BY DEF GetNodeRequirements, Configuring, Running
<1>2. Configures(nt)
  BY GetNodeRequirementsFacts
<1>3. PICK f : Asking(f) /\ stack' = Append(Front(stack), f)
  BY AskingFacts
<1>4. /\ f.node = n /\ f.phase = "expand" /\ f.todo = Required
      /\ f.reqs = PassedOn(Top.reqs, Required) /\ f.options = nt[n].deps
  BY <1>3 DEF Asking
<1>5. /\ Top.node \in Node /\ Self = nodes[n] /\ Top = stack[Len(stack)] /\ Len(stack) \in DOMAIN stack
      /\ Self.name \in Name \cup {Root} /\ DOMAIN stack = 1..Len(stack) /\ Len(stack) \in Nat
  BY <1>1, TopFacts DEF TypedNode, Key
<1>6. /\ DOMAIN nt = Node /\ \A y \in Node : y # n => nt[y] = nodes[y]
      /\ Same(nt[n], Self, Asks) /\ nt[n].requires = Required
      /\ ~SetsOwn(Self) => nt[n].option = IF own # None THEN own ELSE Self.option
      /\ \A k \in Name \ {Self.name} : ~Sets(Self.recipe, k) => Top.options[k] \in {None, nt[n].deps[k]}
  BY <1>2 DEF Configures
<1>m. ~SetsOwn(Self) => (nt[n].modified <=> (Self.modified \/ own \notin {None, Self.option}))
  BY <1>2, Zenon DEF Configures
<1> HIDE DEF nt, own
<1>7. /\ nt[n].name = Self.name /\ nt[n].version = Self.version /\ nt[n].edges = Self.edges
      /\ nt[n].public_closure = Self.public_closure /\ nt[n].recipe = Self.recipe
  BY <1>6 DEF Same, NodeFields, Asks
<1>8. FrameHolds(nodes, Top, None) /\ IsAsking(Self)
  BY <1>1, TopAgrees
<1>9. ~SetsOwn(Self) /\ own \notin {None, Self.option} => Self.option = Default
  <2> SUFFICES ASSUME ~SetsOwn(Self), own \notin {None, Self.option} PROVE Self.option = Default
    OBVIOUS
  <2>1. Ready.option = Self.option /\ Same(Ready, Self, {"option", "deps"})
    BY <1>1, ReadyFacts
  <2>2. Ready.name = Self.name
    BY <2>1 DEF Same, NodeFields
  <2>3. Ready.modified = Self.modified
    BY <2>1 DEF Same, NodeFields
  <2>4. ~Ready.modified
    BY <1>1, <2>1, <2>2 DEF OptionRefused, own
  <2>5. ~Self.modified
    BY <2>3, <2>4
  <2> QED
    BY <1>8, <2>5 DEF IsAsking
<1>10. OnwardHere(nt)
  <2>1. \A y \in Node : nt[y].name = nodes[y].name /\ nt[y].version = nodes[y].version
                        /\ nt[y].public_closure = nodes[y].public_closure
                        /\ nt[y].recipe = nodes[y].recipe
    BY <1>5, <1>6, <1>7
  <2>2. \A y \in Node : SetsOwn(nodes[y]) \/ nt[y].option = nodes[y].option \/ nodes[y].option = Default
    BY <1>5, <1>6, <1>9
  <2>3. \A y \in Node : Has(nt, y) = Has(nodes, y)
    BY <2>1 DEF Has
  <2>4. \A y \in Node : y # n => nt[y].requires = nodes[y].requires /\ nt[y].deps = nodes[y].deps
                                 /\ nt[y].edges = nodes[y].edges
    BY <1>6
  <2> QED
    BY <1>6, <2>1, <2>2, <2>3, <2>4 DEF OnwardHere, Onward, Node
<1>11. RestAgrees(nt)
  BY <1>1, <1>6, <1>10, RestStays
<1>12. \A i \in DOMAIN Required : RequiredHolds(i)
  BY <1>1, RequiredAgrees
<1>13. IsAsking(nt[n])
  <2>1. SetsOwn(nt[n]) \/ nt[n].modified \/ nt[n].option = Default
    <3> SUFFICES ASSUME ~SetsOwn(Self), ~nt[n].modified PROVE nt[n].option = Default
      BY <1>7 DEF SetsOwn
    <3>1. own \in {None, Self.option} /\ ~Self.modified
      BY <1>m
    <3>2. Self.option = Default
      BY <1>8, <3>1 DEF IsAsking
    <3> QED
      BY <1>6, <3>1, <3>2
  <2> QED
    BY <1>6, <1>12, <2>1 DEF IsAsking, RequiredHolds
<1>14. RequiredOrdinary
  BY <1>1, RequiredIsOrdinary
<1>15. PassesOn(f.reqs, Top.reqs, Required)
  BY <1>4, <1>14, PassedOnAgrees DEF RequiredOrdinary
<1>16. FrameHolds(nt, f, None)
  <2>1. \A k \in DOMAIN f.reqs : f.reqs[k].version # None
    BY <1>8, <1>12, <1>15 DEF FrameHolds, RequiredHolds, PassesOn
  <2>2. \A k \in DOMAIN nt[n].requires :
          /\ nt[n].requires[k].name \in DOMAIN f.reqs /\ f.reqs[nt[n].requires[k].name] = nt[n].requires[k]
          /\ RangeKept(nt[n].requires[k])
    BY <1>6, <1>12, <1>15 DEF PassesOn, RequiredHolds
  <2>3. \A k \in DOMAIN f.todo : \E j \in DOMAIN nt[n].requires : nt[n].requires[j] = f.todo[k]
    BY <1>4, <1>6
  <2>4. \A e \in nt[n].edges : e.name \in ToExpand(f)
    BY <1>4, <1>7, <1>14 DEF RequiredOrdinary, ToExpand
  <2>5. Expands(nt, f, None)
    BY <1>4, <2>2, <2>3, <2>4 DEF Expands
  <2> QED
    BY <2>1, <2>5 DEF FrameHolds
<1>17. ASSUME NEW i \in DOMAIN stack, i + 1 = Len(stack) PROVE OnTopOf(nt, stack[i], f)
  <2> DEFINE b == stack[i]
  <2>1. OnTopOf(nodes, b, Top)
    <3>1. i # Len(stack) /\ stack[i + 1] = Top
      BY <1>5, <1>17
    <3> QED
      BY <3>1 DEF Agreed
  <2>2. VersionFits(b.reqs, nodes[n]) /\ Top.reqs = b.reqs /\ Top.options = b.options
    BY <1>1, <2>1 DEF OnTopOf
  <2> HIDE DEF b
  <2>3. VersionFits(b.reqs, nt[n])
    BY <1>5, <1>7, <2>2 DEF VersionFits
  <2>4. OptionFits(b.options, nt[n])
    <3> SUFFICES ASSUME nt[n].name \in Name, ~SetsOwn(nt[n])
                 PROVE  Top.options[nt[n].name] \in {None, nt[n].option}
      BY <2>2 DEF OptionFits
    <3>1. own = Top.options[nt[n].name] /\ ~SetsOwn(Self)
      BY <1>7 DEF own, DownOption, SetsOwn
    <3> QED
      BY <1>6, <3>1
  <2>5. ASSUME NEW k \in Name \ {nt[n].name}
        PROVE  /\ Sets(nt[n].recipe, k) \/ b.options[k] \in {None, f.options[k]}
               /\ k \in DOMAIN b.reqs => k \in DOMAIN f.reqs /\ f.reqs[k].version = b.reqs[k].version
    <3>1. Sets(nt[n].recipe, k) \/ Top.options[k] \in {None, nt[n].deps[k]}
      BY <1>6, <1>7
    <3>2. ASSUME k \in DOMAIN Top.reqs PROVE k \in DOMAIN f.reqs /\ f.reqs[k].version = Top.reqs[k].version
      <4>1. k \in DOMAIN f.reqs
        BY <1>7, <1>15, <3>2 DEF PassesOn
      <4>2. CASE \E j \in DOMAIN Required : Required[j].name = k /\ f.reqs[k] = Required[j]
        BY <1>12, <1>14, <3>2, <4>1, <4>2 DEF RequiredHolds, RequiredOrdinary
      <4> QED
        BY <1>15, <4>1, <4>2 DEF PassesOn
    <3> QED
      BY <1>4, <2>2, <3>1, <3>2
  <2>6. OnTopOf(nt, b, f)
    BY <1>4, <2>3, <2>4, <2>5 DEF OnTopOf, PassesDown
  <2> QED
    BY <2>6 DEF b
<1>18. Agreed(nt, Append(Front(stack), f))
  BY <1>1, <1>4, <1>6, <1>11, <1>13, <1>16, <1>17, AgreedTop
<1> QED
  BY <1>3, <1>18 DEF nt

\* A frame that was just made.
LEMMA FrameFacts ==
  ASSUME NEW node, NEW reqs, NEW options, NEW then
  PROVE  LET f == Frame(node, reqs, options, then) IN
         /\ f.node = node /\ f.phase = "configure" /\ f.reqs = reqs /\ f.options = options
         /\ f.then = then
BY DEF Frame

\* It agrees with the call that makes it if its node has the version that the
\* requirement asks for.
LEMMA FrameAgrees ==
  ASSUME Typed, Agreed(nodes, stack), stack # <<>>, Top.todo # <<>>, Top.phase = "expand", NEW nt,
         NEW node, NEW then, nt[node].name = Require.name, nt[node].version = Require.version
  PROVE  LET f == Frame(node, Top.reqs, Top.options, then) IN
         FrameHolds(nt, f, None) /\ OnTopOf(nt, [Top EXCEPT !.todo = Tail(@)], f)
<1> DEFINE f == Frame(node, Top.reqs, Top.options, then)
           top == [Top EXCEPT !.todo = Tail(@)]
<1>1. f.node = node /\ f.phase = "configure" /\ f.reqs = Top.reqs /\ f.options = Top.options
  BY FrameFacts
<1>2. top.reqs = Top.reqs /\ top.options = Top.options
  BY AdvancedFacts
<1> HIDE DEF f, top
<1>3. FrameHolds(nodes, Top, None) /\ RequireAgrees
  BY TopAgrees
<1>4. FrameHolds(nt, f, None)
  BY <1>1, <1>3 DEF FrameHolds
<1>5. VersionFits(top.reqs, nt[node])
  BY <1>2, <1>3 DEF VersionFits, RequireAgrees
<1>6. OnTopOf(nt, top, f)
  BY <1>1, <1>2, <1>5 DEF OnTopOf
<1> QED
  BY <1>4, <1>6 DEF f, top

LEMMA CreateNodeAgrees ==
  ASSUME Typed, Ordered, Agreed(nodes, stack), CreateNode
  PROVE  Agreed(nodes', stack')
<1> DEFINE nt == nodes'
           n == Top.node
           g == View(nodes)
           h == View(nt)
           top == [Top EXCEPT !.todo = Tail(@)]
<1>1. IsOpen(Calls(stack), Len(stack)) /\ stack # <<>> /\ TopInOrder /\ OrdinaryRequire
  BY CreateNodeStructure
<1>2. Top.todo # <<>> /\ Top.phase = "expand" /\ IsNew
  BY ExpandingFacts DEF CreateNode
<1>3. PICK r \in World.recipes[Require.name] :
        /\ Grown(nt, r)
        /\ stack' = Append(Advanced, Frame(New, Top.reqs, Top.options,
                                           IF IsPublic THEN Top.node ELSE None))
  BY CreateNodeFacts
<1> DEFINE f == Frame(New, Top.reqs, Top.options, Top.node)
<1>4. stack' = Append(Advanced, f)
  BY <1>1, <1>3 DEF OrdinaryRequire
<1>5. Previous = None
  BY <1>1, <1>2 DEF IsNew, OrdinaryRequire
<1>6. Sees(nodes, n) = Node /\ OpenNodes(Calls(stack)) = {n} \cup nodes[n].inverse
  BY <1>1, OpenTopSees
<1>7. \A y \in Node : nodes[y].name # Require.name
  BY <1>1, <1>5, <1>6, NewIsUnknown
<1>8. Extends(h, g, n, New, EdgeTo(New))
  <2>1. GrowsView(nt)
    BY <1>1, <1>3, <1>5, <1>6, GrownView
  <2> QED
    BY <2>1 DEF GrowsView
<1>9. /\ DOMAIN nt = Node \cup {New} /\ New \notin Node /\ n \in Node /\ Self = nodes[n]
      /\ \A y \in Node : Same(nt[y], nodes[y], {"public_closure", "public_deps", "edges", "transitive"})
      /\ \A y \in Node : nt[y].edges = IF y = n THEN nodes[y].edges \cup {EdgeTo(New)} ELSE nodes[y].edges
      /\ nt[New].name = Require.name /\ nt[New].version = Require.version
      /\ nt[New].requires = r.requires /\ nt[New].option = Default
  BY <1>1, <1>3 DEF Grown, TopInOrder, Self
<1>10. \A y \in Node : /\ nt[y].name = nodes[y].name /\ nt[y].version = nodes[y].version
                       /\ nt[y].option = nodes[y].option /\ nt[y].modified = nodes[y].modified
                       /\ nt[y].requires = nodes[y].requires /\ nt[y].deps = nodes[y].deps
                       /\ nt[y].recipe = nodes[y].recipe
  BY <1>9 DEF Same, NodeFields
<1>11. \A y \in Node : y \notin OpenNodes(Calls(stack)) => Has(nt, y) = Has(nodes, y)
  <2>0. \A y \in DOMAIN nt : h[y].has = Has(nt, y)
    BY ViewFacts
  <2>1. \A y \in Node : h[y].has = Has(nt, y) /\ g[y].has = Has(nodes, y) /\ g[y].inverse = nodes[y].inverse
    <3>1. \A y \in Node : g[y].has = Has(nodes, y) /\ g[y].inverse = nodes[y].inverse
      BY ViewFacts DEF Node
    <3>2. Node \subseteq DOMAIN nt
      BY <1>9
    <3> HIDE DEF g, h, nt
    <3> QED
      BY <2>0, <3>1, <3>2
  <2>2. \A y \in Node : h[y].has = g[y].has \cup IF y \in {n} \cup g[n].inverse THEN {New} ELSE {}
    <3>1. DOMAIN g = Node
      BY <1>1 DEF TopInOrder
    <3> QED
      BY <1>8, <3>1 DEF Extends
  <2> HIDE DEF g, h, nt
  <2>3. ASSUME NEW y \in Node, y \notin OpenNodes(Calls(stack)) PROVE Has(nt, y) = Has(nodes, y)
    <3>1. y \notin {n} \cup g[n].inverse
      BY <1>6, <1>9, <2>1, <2>3
    <3>2. h[y].has = g[y].has
      BY <2>2, <3>1
    <3> QED
      BY <2>1, <3>2
  <2> QED
    BY <2>3
<1> HIDE DEF nt, g, h, f
<1>12. OnwardHere(nt)
  BY <1>9, <1>10, <1>11 DEF OnwardHere, Onward, Node
<1>13. RestAgrees(nt)
  BY <1>1, <1>10, <1>12, RestStays
<1>14. IsAsking(Self) /\ RequireAgrees
  BY <1>1, <1>2, TopAgrees
<1>15. IsAsking(nt[n])
  BY <1>9, <1>10, <1>14 DEF IsAsking, SetsOwn
<1>16. IsAsking(nt[New])
  <2>1. \A i \in DOMAIN r.requires : r.requires[i].version # None \/ r.requires[i].range # {}
    <3>1. Require.name \in Name \cup {Root} /\ world \in DOMAIN Worlds
      BY <1>1 DEF OrdinaryRequire, Typed
    <3> QED
      BY <3>1, RecipeFacts
  <2> QED
    BY <1>9, <2>1 DEF IsAsking
<1>17. FrameHolds(nt, top, New)
  <2>1. \A e \in nt[n].edges : e \in Self.edges \/ e = EdgeTo(New)
    BY <1>9
  <2>2. \A e \in Self.edges : e.name # Require.name
    <3>1. IsGraphOf
      BY OrderedGraph
    <3> QED
      BY <1>7, <1>9, <3>1 DEF IsGraphOf
  <2>3. EdgeTo(New).dst = New /\ EdgeTo(New).name = Require.name
    BY DEF EdgeTo
  <2>4. \A e \in nt[n].edges : e.name # Require.name => e \in Self.edges
    BY <2>1, <2>3
  <2>5. \A e \in nt[n].edges : e.name = Require.name =>
          /\ nt[e.dst].version = Require.version
          /\ e.dst # New => \A y \in Has(nt, e.dst) : Fits(nt, e.dst, Top, y)
    BY <1>9, <2>1, <2>2, <2>3
  <2>6. nt[n].requires = Self.requires /\ nt[n].deps = Self.deps
    BY <1>9, <1>10
  <2> QED
    BY <1>1, <1>2, <1>12, <2>4, <2>5, <2>6, AdvancedHolds
<1>18. FrameHolds(nt, f, None) /\ OnTopOf(nt, top, f) /\ f.node = New
  BY <1>1, <1>2, <1>9, FrameAgrees, FrameFacts DEF f
<1> HIDE DEF top
<1>19. Agreed(nt, Append(Advanced, f))
  <2>1. FrameHolds(nt, top, f.node)
    BY <1>17, <1>18
  <2>2. \A y \in DOMAIN nt : y = n \/ y \notin Node => IsAsking(nt[y])
    BY <1>9, <1>15, <1>16
  <2> QED
    BY <1>1, <1>2, <1>9, <1>13, <1>18, <2>1, <2>2, AgreedPushed DEF top
<1> QED
  BY <1>4, <1>19 DEF nt

\* What is not expanded again fits what is passed on.
LEMMA PreviousFits ==
  ASSUME Typed, TopInOrder, PreviousSeen, ~MustRecurse
  PROVE  \A y \in Has(nodes, Previous) :
           VersionFits(Top.reqs, nodes[y]) /\ OptionFits(Top.options, nodes[y])
<1> DEFINE dict == nodes[Previous].public_closure
<1>1. IsGraph(nodes) /\ IsDict(nodes, dict) /\ Previous \in Node /\ None \notin Node
      /\ \A y \in Node : nodes[y].context = "host"
  BY DEF TopInOrder, PreviousSeen, IsGraph, IsNode, TypedNode, Node
<1>2. /\ Held(dict) \subseteq Node
      /\ \A y \in Node : (y \in Held(dict)) <=> dict[KeyIn(nodes, y)] = y
  BY <1>1, HeldDict DEF Node
<1>3. ASSUME NEW y \in Has(nodes, Previous)
      PROVE  VersionFits(Top.reqs, nodes[y]) /\ OptionFits(Top.options, nodes[y])
  <2> DEFINE k == nodes[y].name
  <2>1. y \in Node /\ dict[KeyIn(nodes, y)] = y
    BY <1>2, <1>3 DEF Has
  <2>2. InClosure(k) = y /\ y # None
    BY <1>1, <2>1 DEF InClosure, KeyIn
  <2>3. VersionFits(Top.reqs, nodes[y])
    BY <2>2 DEF MustRecurse, OtherVersion, VersionFits
  <2>4. OptionFits(Top.options, nodes[y])
    BY <2>2 DEF MustRecurse, OtherOption, OptionFits
  <2> QED
    BY <2>3, <2>4
<1> QED
  BY <1>3

LEMMA CloseDiamondAgrees ==
  ASSUME Typed, Ordered, Agreed(nodes, stack), CloseDiamond
  PROVE  Agreed(nodes', stack')
<1> DEFINE nt == nodes'
           n == Top.node
           p == Previous
           g == View(nodes)
           h == View(nt)
           top == [Top EXCEPT !.todo = Tail(@)]
<1>1. DiamondClosed
  BY DiamondIsClosed
<1>2. /\ stack # <<>> /\ Top.todo # <<>> /\ p \in Node /\ Linked(nt)
      /\ nodes[p].version = Require.version
      /\ stack' = IF MustRecurse THEN Append(Advanced, Frame(p, Top.reqs, Top.options, None))
                  ELSE Advanced
  BY CloseDiamondFacts
<1>3. Top.phase = "expand"
  BY ExpandingFacts DEF CloseDiamond
<1>4. /\ TopInOrder /\ OrdinaryRequire /\ PreviousSeen /\ p \notin OpenNodes(Calls(stack))
      /\ n \in Node /\ Self = nodes[n] /\ nodes[p].name = Require.name /\ Unique(nodes)
  BY <1>1 DEF DiamondClosed, TopInOrder, PreviousSeen, Self
<1>5. /\ DOMAIN nt = Node /\ \A y \in Node : Same(nt[y], nodes[y], Links)
      /\ \A y \in Node : nt[y].edges = IF y = n /\ ~\E e \in nodes[y].edges : e.dst = p
                                       THEN nodes[y].edges \cup {EdgeTo(p)} ELSE nodes[y].edges
  BY <1>2 DEF Linked
<1>6. \A y \in Node : /\ nt[y].name = nodes[y].name /\ nt[y].version = nodes[y].version
                      /\ nt[y].option = nodes[y].option /\ nt[y].modified = nodes[y].modified
                      /\ nt[y].requires = nodes[y].requires /\ nt[y].deps = nodes[y].deps
                      /\ nt[y].recipe = nodes[y].recipe
  BY <1>5 DEF Same, NodeFields, Links
<1>7. \A y \in Node : y \notin OpenNodes(Calls(stack)) => Has(nt, y) = Has(nodes, y)
  <2>0. \A y \in DOMAIN nt : h[y].has = Has(nt, y)
    BY ViewFacts
  <2>1. \A y \in Node : g[y].has = Has(nodes, y) /\ g[y].inverse = nodes[y].inverse
    BY ViewFacts DEF Node
  <2>2. Joins(h, g, n, p, EdgeTo(p)) /\ DOMAIN g = Node /\ (~IsOpen(Calls(stack), Len(stack)) => h = g)
    BY <1>1 DEF DiamondClosed, JoinsView, TopInOrder
  <2>3. IsOpen(Calls(stack), Len(stack)) => OpenNodes(Calls(stack)) = {n} \cup nodes[n].inverse
    BY <1>4, OpenTopSees
  <2>4. Node \subseteq DOMAIN nt
    BY <1>5
  <2> HIDE DEF g, h, nt
  <2>5. ASSUME NEW y \in Node, y \notin OpenNodes(Calls(stack)) PROVE Has(nt, y) = Has(nodes, y)
    <3>1. CASE IsOpen(Calls(stack), Len(stack))
      <4>1. y \notin {n} \cup g[n].inverse
        BY <1>4, <2>1, <2>3, <2>5, <3>1
      <4>2. h[y].has = g[y].has \cup (IF y = n THEN {p} ELSE {})
                         \cup (IF y \in {n} \cup g[n].inverse THEN g[p].passes ELSE {})
        BY <2>2 DEF Joins
      <4>3. h[y].has = g[y].has
        BY <4>1, <4>2
      <4> QED
        BY <2>0, <2>1, <2>4, <4>3
    <3>2. CASE ~IsOpen(Calls(stack), Len(stack))
      BY <2>0, <2>1, <2>2, <2>4, <3>2
    <3> QED
      BY <3>1, <3>2
  <2> QED
    BY <2>5
<1> HIDE DEF nt, g, h
<1>8. OnwardHere(nt)
  <2>1. \A y \in Node : y # n => nt[y].edges = nodes[y].edges
    BY <1>5
  <2> QED
    BY <1>5, <1>6, <1>7, <2>1 DEF OnwardHere, Onward, Node
<1>9. RestAgrees(nt)
  BY <1>2, <1>6, <1>8, RestStays
<1>10. IsAsking(nt[n])
  <2>1. IsAsking(Self)
    BY <1>2, TopAgrees
  <2> QED
    BY <1>4, <1>6, <2>1 DEF IsAsking, SetsOwn
<1>11. ASSUME NEW next, next = p \/ ~MustRecurse PROVE FrameHolds(nt, top, next)
  <2>1. \A e \in nt[n].edges : e \in Self.edges \/ e = EdgeTo(p)
    BY <1>4, <1>5
  <2>2. EdgeTo(p).dst = p /\ EdgeTo(p).name = Require.name
    BY DEF EdgeTo
  <2>3. \A e \in Self.edges : e.name = Require.name => e.dst = p
    <3>1. \A e \in Self.edges : e.dst \in Node /\ e.name = nodes[e.dst].name
      BY <1>4, OrderedGraph DEF IsGraphOf
    <3> QED
      BY <1>2, <1>4, <3>1 DEF Unique, Node
  <2>4. \A e \in nt[n].edges : e.name # Require.name => e \in Self.edges
    BY <2>1, <2>2
  <2>5. ~MustRecurse => \A y \in Has(nt, p) : Fits(nt, p, Top, y)
    <3> SUFFICES ASSUME ~MustRecurse, NEW y \in Has(nodes, p) PROVE Fits(nt, p, Top, y)
      BY <1>2, <1>4, <1>7
    <3>1. VersionFits(Top.reqs, nodes[y]) /\ OptionFits(Top.options, nodes[y])
      BY <1>4, PreviousFits
    <3>2. y \in Node
      BY <1>2, OrderedGraph DEF IsGraphOf
    <3> QED
      BY <1>6, <3>1, <3>2 DEF Fits, VersionFits, OptionFits, SetsOwn
  <2>6. \A e \in nt[n].edges : e.name = Require.name =>
          /\ nt[e.dst].version = Require.version
          /\ e.dst # next => \A y \in Has(nt, e.dst) : Fits(nt, e.dst, Top, y)
    <3>1. \A e \in nt[n].edges : e.name = Require.name => e.dst = p
      BY <2>1, <2>2, <2>3
    <3>2. nt[p].version = Require.version
      BY <1>2, <1>6
    <3> QED
      BY <1>11, <2>5, <3>1, <3>2
  <2>7. nt[n].requires = Self.requires /\ nt[n].deps = Self.deps
    BY <1>4, <1>6
  <2> QED
    BY <1>2, <1>3, <1>8, <2>4, <2>6, <2>7, AdvancedHolds
<1>12. CASE MustRecurse
  <2> DEFINE f == Frame(p, Top.reqs, Top.options, None)
  <2>1. stack' = Append(Advanced, f) /\ f.node = p
    BY <1>2, <1>12, FrameFacts
  <2>2. nt[p].name = Require.name /\ nt[p].version = Require.version
    BY <1>2, <1>4, <1>6
  <2>3. FrameHolds(nt, f, None) /\ OnTopOf(nt, top, f)
    BY <1>2, <1>3, <2>2, FrameAgrees
  <2> HIDE DEF f
  <2>4. FrameHolds(nt, top, f.node)
    BY <1>11, <2>1
  <2>5. New \notin Node
    BY ListFacts DEF Typed, IsGraph, New, Node
  <2>6. \A y \in DOMAIN nt : y = n \/ y \notin Node => IsAsking(nt[y])
    BY <1>5, <1>10
  <2>7. Agreed(nt, Append(Advanced, f))
    BY <1>2, <1>5, <1>9, <2>3, <2>4, <2>5, <2>6, AgreedPushed
  <2> QED
    BY <2>1, <2>7 DEF nt
<1>13. CASE ~MustRecurse
  <2>1. /\ top.node = Top.node /\ top.phase = Top.phase /\ top.reqs = Top.reqs /\ top.options = Top.options
        /\ Advanced = Append(Front(stack), top)
    BY <1>2, AdvancedFacts DEF Advanced, WithTop
  <2>2. FrameHolds(nt, top, None)
    BY <1>11, <1>13
  <2> HIDE DEF top
  <2>3. \A i \in DOMAIN stack : i + 1 = Len(stack) => OnTopOf(nt, stack[i], top)
    <3>1. Top = stack[Len(stack)] /\ \A i \in DOMAIN stack : i + 1 = Len(stack) => i # Len(stack)
      BY <1>2, TopFacts
    <3> QED
      BY <1>9, <2>1, <3>1 DEF RestAgrees
  <2>4. Agreed(nt, Append(Front(stack), top))
    BY <1>2, <1>5, <1>9, <1>10, <2>1, <2>2, <2>3, AgreedTop
  <2> QED
    BY <1>2, <1>13, <2>1, <2>4 DEF nt
<1> QED
  BY <1>12, <1>13

VersionsAgree == Agreed(nodes, stack)

LEMMA AgreedInit == Init => VersionsAgree
<1> SUFFICES ASSUME Init PROVE Agreed(nodes, stack)
  BY DEF VersionsAgree
<1> DEFINE f == Frame(1, NoReqs, NoOptions, None)
<1>1. PICK r \in World.recipes[Root] : nodes = <<NewNode(1, Root, None, "host", r)>>
  BY DEF Init
<1> DEFINE made == NewNode(1, Root, None, "host", r)
<1>m. IsMade(made, 1, Root, None, "host", r)
  BY NewNodeFacts
<1>2. stack = <<f>> /\ f.node = 1 /\ f.phase = "configure" /\ f.reqs = NoReqs
  BY FrameFacts DEF Init
<1> HIDE DEF made, f
<1>3. DOMAIN nodes = {1} /\ nodes[1] = made
  BY <1>1 DEF made
<1>4. DOMAIN stack = {1} /\ stack[1] = f /\ Len(stack) = 1
  BY <1>2
<1>5. IsAsking(made)
  <2>1. made.option = Default /\ made.requires = r.requires
    BY <1>m DEF IsMade
  <2>2. \A i \in DOMAIN r.requires : r.requires[i].version # None \/ r.requires[i].range # {}
    <3>1. world \in DOMAIN Worlds
      BY DEF Init
    <3> QED
      BY <3>1, RecipeFacts
  <2> QED
    BY <2>1, <2>2 DEF IsAsking
<1>6. FrameNodes(stack) = {1}
  BY <1>2, <1>4 DEF FrameNodes
<1>7. FrameHolds(nodes, f, NextNode(stack, 1))
  BY <1>2 DEF FrameHolds, NoReqs
<1> QED
  BY <1>3, <1>4, <1>5, <1>6, <1>7 DEF Agreed

\* Agreed is kept by every step.
LEMMA AgreedNext ==
  ASSUME Typed, Ordinary, Ordered, VersionsAgree, [Next]_vars
  PROVE  VersionsAgree'
<1>0. Agreed(nodes, stack)
  BY DEF VersionsAgree
<1>1. CASE GetNodeRequirements
  BY <1>0, <1>1, GetNodeRequirementsAgrees DEF VersionsAgree
<1>2. CASE \E why : Fails(why)
  BY <1>2 DEF VersionsAgree, Fails
<1>3. CASE PassOverride
  BY <1>0, <1>3, PassOverrideAgrees DEF VersionsAgree
<1>4. CASE CreateNode
  BY <1>0, <1>4, CreateNodeAgrees DEF VersionsAgree
<1>5. CASE CloseDiamond
  BY <1>0, <1>5, CloseDiamondAgrees DEF VersionsAgree
<1>6. CASE Return
  BY <1>0, <1>6, ReturnAgrees DEF VersionsAgree
<1>7. CASE \E n \in Node, req \in BuildRequirement : ExtendBuildRequires(n, req)
  <2>1. extended \in 0..0 /\ extended < 0
    BY <1>7 DEF Typed, Ordinary, ExtendBuildRequires
  <2> QED
    BY <2>1
<1>8. CASE UNCHANGED vars
  BY <1>8 DEF vars, VersionsAgree
<1> QED
  BY <1>1, <1>2, <1>3, <1>4, <1>5, <1>6, <1>7, <1>8
     DEF Next, Step, RefuseOptions, RefuseRange, RefuseRequires, Loop, Missing, Conflict

\* Without private requirements and build requirements, what every node has in
\* its closure has the version that the node requires, and, where no recipe from
\* there on sets them itself, the options that it gives, or will when the calls
\* of _expand_node that are under way are over (graph_builder.py).
THEOREM StaysAgreed == Spec => [](Ordinary => VersionsAgree)
<1>1. Init => (Ordinary => VersionsAgree)
  BY AgreedInit
<1>2. Typed /\ (Ordinary => Ordered) /\ (Ordinary => VersionsAgree) /\ [Next]_vars => (Ordinary => VersionsAgree)'
  BY AgreedNext, WorldKept
<1>3. Spec => []Typed
  BY IsTyped
<1>4. Spec => [](Ordinary => Ordered)
  BY StaysOrdered
<1> QED
  BY <1>1, <1>2, <1>3, <1>4, PTL DEF Spec

\* What holds of the nodes of a settled graph.
LEMMA SettledHolds ==
  ASSUME Typed, Ordered, VersionsAgree, Settled
  PROVE  IsGraphOf /\ \A n \in Node : NodeHolds(nodes, n) /\ Public(n) = Has(nodes, n)
<1>1. IsGraphOf
  BY OrderedGraph
<1>2. FrameNodes(stack) = {}
  BY DEF Settled, FrameNodes
<1>3. \A n \in Node : NodeHolds(nodes, n)
  BY <1>2 DEF VersionsAgree, Agreed, Node
<1> QED
  BY <1>1, <1>3, PublicIsHas

\* What is below an edge is no consumer.
LEMMA NamesBelow ==
  ASSUME Typed, Ordered, NEW n \in Node, NEW e \in nodes[n].edges, NEW d \in Has(nodes, e.dst)
  PROVE  d \in Node /\ d \in Has(nodes, n) \ {n} /\ nodes[d].name \in Name
<1>1. IsGraphOf
  BY OrderedGraph
<1>2. e.dst \in Node /\ e.dst \in Has(nodes, n) \ {n}
  BY <1>1 DEF IsGraphOf
<1>3. d \in Node /\ d \in Has(nodes, n) \ {n}
  BY <1>1, <1>2 DEF IsGraphOf
<1>4. n \in nodes[d].inverse
  BY <1>1, <1>3 DEF IsGraphOf
<1> DEFINE g == View(nodes)
<1>5. NamesInOrder(g) /\ OpenInOrder(g, Calls(stack)) /\ DOMAIN g = Node
  BY ViewFacts DEF Ordered, Structure, Node
<1>6. \A y \in Node : g[y].name = nodes[y].name /\ g[y].inverse = nodes[y].inverse
  BY ViewFacts DEF Node
<1> HIDE DEF g
<1>7. d # 1
  BY <1>3, <1>4, <1>5, <1>6 DEF OpenInOrder
<1>8. nodes[d].name # Root
  BY <1>3, <1>5, <1>6, <1>7 DEF NamesInOrder
<1>9. nodes[d].name \in Name \cup {Root}
  BY <1>3 DEF Typed, IsGraph, IsNode, TypedNode, Key, Node
<1> QED
  BY <1>3, <1>8, <1>9

\* A node depends on the version that it requires, in the range that it was
\* given as, whatever it was overridden with and however often it was expanded:
\* Requirements.update (requires.py) and RangeResolver.resolve.
THEOREM RequiredVersions == Spec => [](Ordinary => EdgesAgree)
<1>1. ASSUME Typed, Ordered, VersionsAgree PROVE EdgesAgree
  <2> SUFFICES ASSUME Settled, NEW n \in Node, NEW e \in nodes[n].edges
               PROVE  \E r \in Range(nodes[n].requires) :
                        /\ r.name = e.name /\ r.version = nodes[e.dst].version
                        /\ r.range # {} => r.version \in r.range
    BY DEF EdgesAgree
  <2>1. EdgeHolds(nodes[n], e, nodes[e.dst])
    BY <1>1, SettledHolds DEF NodeHolds
  <2>2. PICK k \in DOMAIN nodes[n].requires :
          /\ nodes[n].requires[k].name = e.name /\ nodes[n].requires[k].version = nodes[e.dst].version
          /\ RangeKept(nodes[n].requires[k])
    BY <2>1 DEF EdgeHolds
  <2>3. nodes[n].requires[k] \in Range(nodes[n].requires)
    BY DEF Range
  <2> QED
    BY <2>2, <2>3 DEF RangeKept
<1> QED
  BY <1>1, IsTyped, StaysOrdered, StaysAgreed, PTL

\* What a node requires or overrides holds for all that it depends on, although
\* the requirements of those were made without knowing of it (_recurse).
THEOREM RequirementsPrevail == Spec => [](Ordinary => DownstreamWins)
<1>1. ASSUME Typed, Ordered, VersionsAgree PROVE DownstreamWins
  <2> SUFFICES ASSUME Settled, NEW n \in Node, NEW r \in Range(nodes[n].requires),
                      NEW d \in Public(n) \ {n}, nodes[d].name = r.name
               PROVE  nodes[d].version = r.version
    BY DEF DownstreamWins
  <2>1. IsGraphOf /\ NodeHolds(nodes, n) /\ d \in Has(nodes, n) \ {n}
    BY <1>1, SettledHolds
  <2>2. PICK e \in nodes[n].edges : d \in Has(nodes, e.dst)
    BY <2>1 DEF IsGraphOf
  <2>3. Prevails(nodes, e.dst, nodes[n], d)
    BY <2>1, <2>2 DEF NodeHolds
  <2>4. PICK k \in DOMAIN nodes[n].requires : nodes[n].requires[k] = r
    BY DEF Range
  <2> QED
    BY <2>3, <2>4 DEF Prevails
<1> QED
  BY <1>1, IsTyped, StaysOrdered, StaysAgreed, PTL

\* A value other than the default that a node gives to an option of what it
\* depends on is the value of that option (propagate_upstream, options.py), if
\* no method of the recipe of that dependency, or of one on the way to it, sets
\* this option (config_options(), configure() or requirements(), configure.py
\* and graph_builder.py).
THEOREM OptionsPrevail == Spec => [](Ordinary => OptionsAgree)
<1>1. ASSUME Typed, Ordered, VersionsAgree PROVE OptionsAgree
  <2> SUFFICES ASSUME Settled, NEW n \in Node, NEW e \in nodes[n].edges, NEW d \in Public(e.dst),
                      ~\E x \in Public(e.dst) : Sets(nodes[x].recipe, nodes[d].name) /\ d \in Public(x)
               PROVE  nodes[n].deps[nodes[d].name] \in {None, Default, nodes[d].option}
    BY DEF OptionsAgree
  <2>1. IsGraphOf /\ NodeHolds(nodes, n) /\ \A y \in Node : Public(y) = Has(nodes, y)
    BY <1>1, SettledHolds
  <2>2. e.dst \in Node /\ d \in Has(nodes, e.dst) /\ Has(nodes, e.dst) \subseteq Node
    BY <2>1 DEF IsGraphOf
  <2>3. ~Overruled(nodes, e.dst, d)
    <3> SUFFICES ASSUME NEW z \in Has(nodes, e.dst), d \in Has(nodes, z),
                        Sets(nodes[z].recipe, nodes[d].name)
                 PROVE  FALSE
      BY DEF Overruled
    <3> QED
      BY <2>1, <2>2
  <2>4. ~SetsOwn(nodes[d])
    <3>1. d \in Has(nodes, d)
      BY <2>1, <2>2 DEF IsGraphOf
    <3> QED
      BY <2>1, <2>2, <2>3, <3>1 DEF Overruled, SetsOwn
  <2>5. OptionFits(nodes[n].deps, nodes[d])
    BY <2>1, <2>2, <2>3 DEF NodeHolds, Prevails
  <2>6. nodes[d].name \in Name
    BY <1>1, <2>2, NamesBelow
  <2> QED
    BY <2>4, <2>5, <2>6 DEF OptionFits
<1> QED
  BY <1>1, IsTyped, StaysOrdered, StaysAgreed, PTL
=============================================================================

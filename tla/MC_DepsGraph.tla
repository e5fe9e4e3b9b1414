---------------------------- MODULE MC_DepsGraph ----------------------------
(* Three packages, of which c has two versions: a may depend on b and c, b   *)
(* on c, and to close a loop on a.                                           *)
EXTENDS DepsGraph

Unset == NoOptions
Req(k, v, kind) ==
  [name |-> k, version |-> v, range |-> {}, kind |-> kind, switch |-> FALSE]
AnyOf(k, range) ==
  [name |-> k, version |-> None, range |-> range, kind |-> "normal", switch |-> FALSE]

\* Sequences of at most one requirement of each set.
Lists(sets) ==
  UNION {{s \in [1..Cardinality(t) -> UNION t] :
            \A x \in t : \E i \in 1..Cardinality(t) : s[i] \in x} : t \in SUBSET sets}

\* What methods set: nothing, the option of k to v, or to the value of their own.
Nothing == [own \in Value |-> Unset]
SetTo(k, v) == [own \in Value |-> [Unset EXCEPT ![k] = v]]
Copies(k) == [own \in Value |-> [Unset EXCEPT ![k] = own]]

Setting(lists, options, first, last) ==
  {[requires |-> l, method |-> FALSE, options |-> o, config_options |-> f, configure |-> c] :
     l \in lists, o \in options, f \in first, c \in last}
Recipes(lists, methods, options) ==
  {[requires |-> l, method |-> m, options |-> o, config_options |-> Nothing, configure |-> Nothing] :
     l \in lists, m \in methods, o \in options}

A == {Req("a", 1, "normal")}
B == {Req("b", 1, "normal")}
C == {Req("c", 1, "normal"), Req("c", 2, "normal"), Req("c", 2, "private")}
     \cup {AnyOf("c", {1, 2})}
RootC == {Req("c", 2, "override"), Req("c", 1, "normal"), Req("c", 3, "normal")}

\* Versions, ranges, overrides and private requirements.
Versions ==
  [recipes |-> [k \in Name \cup {Root} |->
     CASE k = Root -> Recipes(Lists({A, B, RootC}), {FALSE}, {Unset})
       [] k = "a" -> Recipes(Lists({B \cup {Req("b", 1, "private")}, C \cup {Req("c", 2, "override")}}), {TRUE}, {Unset})
       [] k = "b" -> Recipes(Lists({C \cup {AnyOf("c", {3})}}) \cup Lists({A \cup {Req("a", 1, "private")}, {Req("c", 2, "override")}}), {FALSE}, {Unset})
       [] k = "c" -> Recipes({<<>>}, {FALSE}, {Unset})],
   local |-> {1}, remote |-> {1, 2}, update |-> TRUE, extends |-> 0]

\* Options, and nothing else.
OptionsOf(k) == {[j \in Name |-> IF j = k THEN v ELSE None] : v \in Value \cup {None}}
Options ==
  [recipes |-> [k \in Name \cup {Root} |->
     CASE k = Root -> Recipes(Lists({A, B, {Req("c", 1, "normal")}}), {FALSE}, OptionsOf("c"))
       [] k = "a" -> Recipes(Lists({B, {Req("c", 1, "normal")}}), {FALSE}, OptionsOf("c"))
       [] k = "b" -> Recipes(Lists({{Req("c", 1, "normal")}}), {FALSE}, OptionsOf("c"))
       [] k = "c" -> Recipes({<<>>}, {FALSE}, {Unset})],
   local |-> {1}, remote |-> {}, update |-> FALSE, extends |-> 0]

\* Build requirements, in both contexts.
Builds ==
  [recipes |-> [k \in Name \cup {Root} |->
     CASE k = Root -> Recipes(Lists({A, {Req("c", 1, "normal")}}), {FALSE}, {Unset})
       [] k = "a" -> Recipes(Lists({B}), {FALSE}, {Unset})
       [] k = "b" -> Recipes(Lists({{Req("c", 1, "normal")}}), {FALSE}, {Unset})
       [] k = "c" -> Recipes({<<>>}, {FALSE}, {Unset})],
   local |-> {1}, remote |-> {}, update |-> FALSE, extends |-> 2]

\* Recipes whose methods set options, their own and those of what they depend on.
Give(k, v) == [Unset EXCEPT ![k] = v]
Methods ==
  [recipes |-> [k \in Name \cup {Root} |->
     CASE k = Root -> Setting(Lists({A, {Req("c", 1, "normal")}}),
                              {Unset, Give("c", 2), Give("a", 2)}, {Nothing}, {Nothing})
       [] k = "a" -> Setting(Lists({B, {Req("c", 1, "normal")}}),
                             {Unset}, {Nothing}, {Nothing, Copies("c"), SetTo("b", 2)})
       [] k = "b" -> Setting(Lists({{Req("c", 1, "normal")}}),
                             {Unset, Give("c", 2)}, {Nothing}, {Nothing, Copies("c")})
       [] k = "c" -> Setting({<<>>}, {Unset}, {Nothing}, {Nothing, SetTo("c", 2)})
                     \cup Setting({<<>>}, {Unset}, {SetTo("c", 2)}, {Nothing})],
   local |-> {1}, remote |-> {}, update |-> FALSE, extends |-> 0]

AllWorlds == [versions |-> Versions, options |-> Options,
              methods |-> Methods, builds |-> Builds]
=============================================================================

-------------------------- MODULE MC_GraphBinaries --------------------------
(* Small graphs: a chain, private requirements, build requirements, and what *)
(* cannot be built.                                                          *)
EXTENDS GraphBinaries

\* What a world is unless it says something else.
Usual ==
  [fixed |-> TRUE, update |-> FALSE, invalid |-> {}, cantBuild |-> {}, editable |-> {},
   policy |-> [r \in 1..9 |-> "none"],
   compatible |-> [c \in (1..9) \X {"host", "tool", "old"} |-> <<>>]]

Nothing == [cache |-> 0, remote |-> 0, stale |-> FALSE]
Cached == [cache |-> 1, remote |-> 0, stale |-> FALSE]
Remote == [cache |-> 0, remote |-> 2, stale |-> FALSE]
Newer == [cache |-> 1, remote |-> 2, stale |-> FALSE]
Stale(f) == [f EXCEPT !.stale = TRUE]

Asked(options, patterns, excluded) ==
  [options |-> options, patterns |-> patterns, excluded |-> excluded]
Missing == Asked({"missing"}, {}, {})
MissingAnd(r) == Asked({"missing"}, {r}, {})

Modes(n) == {[r \in 1..9 |-> IF r \in 1..n THEN m[r] ELSE "semver"] :
               m \in [1..n -> {"clear", "semver", "package", "revision"}]}
SameMode(m) == [r \in 1..9 |-> m]

Graph(ref, conf, edges, tools) ==
  [ref |-> ref, conf |-> conf, edges |-> edges, tools |-> tools,
   initial |-> DOMAIN ref \ UNION Range(tools)]
Everywhere(m, v) == [n \in 1..m |-> v]
Hosts(m) == Everywhere(m, "host")

\* A consumer of 3, which requires 2, which requires 1.
Chain == Graph(<<9, 3, 2, 1>>, Hosts(4),
               {<<1, 2, "public">>, <<2, 3, "public">>, <<3, 4, "public">>}, Everywhere(4, {}))
Chains ==
  {Chain @@ [idMode |-> m, buildMode |-> b, facts |-> {Nothing, Cached, Remote}] @@ Usual :
     m \in Modes(3), b \in {MissingAnd(1), Asked({"cascade"}, {1}, {}), Missing}}

\* A consumer of 3, where 3 privately requires 2.  3 requires 1 too, or 2 does
\* and the consumer.  Or 2 privately requires 1.
Private == Graph(<<9, 3, 2, 1>>, Hosts(4),
                 {<<1, 2, "public">>, <<2, 3, "private">>, <<2, 4, "public">>}, Everywhere(4, {}))
Twice == Graph(<<9, 3, 2, 1, 1>>, Hosts(5),
               {<<1, 2, "public">>, <<2, 3, "private">>, <<3, 4, "public">>, <<1, 5, "public">>},
               Everywhere(5, {}))
Behind == Graph(<<9, 3, 2, 1>>, Hosts(4),
                {<<1, 2, "public">>, <<2, 3, "public">>, <<3, 4, "private">>}, Everywhere(4, {}))
Privates ==
  {g @@ [idMode |-> m, buildMode |-> b, facts |-> {Nothing, Cached, Remote}] @@ Usual :
     g \in {Private, Behind, Twice}, m \in {m \in Modes(3) : m[1] = "semver"},
     b \in {MissingAnd(1), MissingAnd(2)}}

\* A consumer of 3, which requires 1, and 2 for its build; 2 requires 1 too, in
\* the configuration of the build.
Tools == Graph(<<9, 3, 1, 2, 1>>, <<"host", "host", "host", "tool", "tool">>,
               {<<1, 2, "public">>, <<2, 3, "public">>, <<2, 4, "build">>, <<4, 5, "public">>},
               <<{}, {4, 5}, {}, {}, {}>>)
\* A build requirement that has one too, and requires what its package does.
Nested == Graph(<<9, 4, 1, 3, 2>>, Hosts(5),
                {<<1, 2, "public">>, <<2, 3, "public">>, <<2, 4, "build">>, <<4, 3, "public">>,
                 <<4, 5, "build">>}, <<{}, {4}, {}, {5}, {}>>)
SomeTools ==
  {[g EXCEPT !.conf = c] @@ [idMode |-> SameMode(m), buildMode |-> b, update |-> u,
     facts |-> {Nothing, Newer, Stale(Cached), Stale(Remote)}] @@ Usual : g \in {Tools, Nested},
     c \in {Tools.conf, Hosts(5)}, u \in BOOLEAN,
     m \in {"semver", "package", "revision"}, b \in {MissingAnd(1), Asked({"outdated"}, {}, {})}}

\* What cannot be, or cannot be built, is compatible with others, or is edited.
Refusals ==
  {x @@ Chain @@ [idMode |-> SameMode(m), buildMode |-> b, facts |-> {Nothing, Cached}] @@ Usual :
     m \in {"semver", "package", "revision"}, b \in {MissingAnd(1), Asked({}, {2}, {}), Asked({}, {}, {3})},
     x \in [editable : {{}, {1}}, cantBuild : {{}, {<<3, "host">>}}, invalid : {{}, {<<2, "host">>}},
            compatible : {Usual.compatible,
                          [c \in DOMAIN Usual.compatible |->
                             IF c[1] > 1 /\ c[2] = "host" THEN <<"host", "old", "tool">> ELSE <<>>]},
            policy : {Usual.policy, [Usual.policy EXCEPT ![3] = "always"],
                      [Usual.policy EXCEPT ![3] = "missing", ![1] = "never"]}]}

\* A chain of one more, with the default of full_transitive_package_id.
Longer == Graph(<<9, 4, 3, 2, 1>>, Hosts(5),
                {<<1, 2, "public">>, <<2, 3, "public">>, <<3, 4, "public">>, <<4, 5, "public">>},
                Everywhere(5, {}))
ByDefault ==
  {g @@ [fixed |-> FALSE, idMode |-> m, buildMode |-> MissingAnd(1), facts |-> {Nothing, Cached}] @@ Usual :
     g \in {Longer}, m \in {m \in Modes(4) : m[1] = "semver" /\ m[2] = "revision"}}

\* One reference in two configurations, of which one is compatible with the other
\* and that with a third.
Pair == Graph(<<9, 1, 1>>, <<"host", "host", "tool">>, {<<1, 2, "public">>, <<1, 3, "build">>},
              <<{3}, {}, {}>>)
Compatibles ==
  {g @@ [idMode |-> SameMode("semver"), buildMode |-> Asked({}, {}, {}), facts |-> {Nothing, Cached},
    compatible |-> [c \in DOMAIN Usual.compatible |->
                      CASE c = <<1, "host">> -> <<"old">>
                        [] c = <<1, "tool">> -> <<"host">>
                        [] OTHER -> <<>>]] @@ Usual : g \in {Pair}}

AllWorlds == Chains \cup Privates \cup SomeTools \cup Refusals
=============================================================================

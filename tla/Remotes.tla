------------------------------- MODULE Remotes -------------------------------
(***************************************************************************)
(* The registry of remotes: remotes.json, and the remote that the metadata *)
(* of each recipe and of each package in the cache names, as the commands  *)
(* "conan remote ..." change them (remote_registry.py, conan_api.py).      *)
(*                                                                         *)
(* A command loads remotes.json, changes what it has loaded, and saves it  *)
(* before or after it has rewritten the metadata of one reference after    *)
(* the other.  Nothing keeps two commands apart.  Whether the certificate  *)
(* of a remote is verified is not kept; where it matters either may be.    *)
(***************************************************************************)
EXTENDS Naturals, FiniteSets, SequencesExt

CONSTANTS
  Name, Url,    \* of remotes
  None,         \* no remote
  Ref,          \* the recipes in the cache
  PackagesOf,   \* the packages in the cache, of each of them
  Registered,   \* remotes.json, to begin with
  Admin,        \* the processes that run "conan remote"
  MaxCommands,  \* bounds the commands, ...
  MaxKills      \* ... and those that are killed

ASSUME NoneAssumption == IsFiniteSet(Name) /\ None \notin Name \cup Url \cup Admin
ASSUME CommandsAssumption == MaxCommands \in Nat /\ MaxKills \in Nat

Remote == [name : Name, url : Url]
Registry == UNION {[1..n -> Remote] : n \in 0..Cardinality(Name)}

ASSUME RegisteredAssumption == Registered \in Registry

Pref == UNION {{r} \X PackagesOf[r] : r \in Ref}

VARIABLES
  registry,  \* remotes.json
  recipes,   \* the remote that the metadata of each recipe names, ...
  packages,  \* ... and of each package
  command,   \* what each process does
  commands, kills,
  lapses     \* what happened that may leave a name without a remote

remoteVars == <<registry, recipes, packages, command, commands, kills, lapses>>

Lapse == {"killed", "overlap", "same url"}

Names(remotes) == {remotes[i].name : i \in DOMAIN remotes}
Urls(remotes) == {remotes[i].url : i \in DOMAIN remotes}
RemoteOf(remotes, n) == remotes[CHOOSE i \in DOMAIN remotes : remotes[i].name = n]

\* A command that rewrites the metadata: the remotes it has loaded, those it
\* saves in the end if it does, what it makes of a name, and the references
\* that are left.
Rewriting(loaded, file, saves, map) ==
  [kind |-> "rewrite", loaded |-> loaded, file |-> file, saves |-> saves,
   map |-> map, todo |-> Ref]
Naming(pref, n) == [kind |-> "name", pref |-> pref, name |-> n]
Idle == [kind |-> "idle"]

Same == [n \in Name \cup {None} |-> n]
MapTo(ns, m) == [n \in Name \cup {None} |-> IF n \in ns THEN m ELSE n]

RemotesTypeOK ==
  /\ registry \in Registry /\ Cardinality(Names(registry)) = Len(registry)
  /\ recipes \in [Ref -> Name \cup {None}] /\ packages \in [Pref -> Name \cup {None}]
  /\ \A a \in Admin :
       \/ command[a] = Idle
       \/ /\ command[a].kind = "rewrite" /\ command[a].file \in Registry
          /\ command[a].todo \subseteq Ref
       \/ /\ command[a].kind = "name" /\ command[a].name \in Name \cup {None}
  /\ commands \in 0..MaxCommands /\ kills \in 0..MaxKills /\ lapses \subseteq Lapse

RemotesInit ==
  /\ registry = Registered
  /\ recipes \in [Ref -> Names(registry) \cup {None}]
  /\ packages = [p \in Pref |-> recipes[p[1]]]
  /\ command = [a \in Admin |-> Idle]
  /\ commands = 0 /\ kills = 0 /\ lapses = {}

-----------------------------------------------------------------------------
(* Remotes: what a command makes of the remotes it has loaded.             *)

\* The remotes that have none of these names and URLs, in their order.
Without(remotes, names, urls) ==
  LET kept == {i \in DOMAIN remotes : remotes[i].name \notin names /\ remotes[i].url \notin urls}
      Nth(k) == CHOOSE i \in kept : Cardinality({j \in kept : j <= i}) = k
  IN  [k \in 1..Cardinality(kept) |-> remotes[Nth(k)]]

\* _add_update, at an index (which beyond the end is the end) or in its place.
AddUpdate(remotes, remote, at) ==
  LET others == Without(remotes, {remote.name}, {})
  IN  IF at # None THEN InsertAt(others, Min({at, Len(others)}) + 1, remote)
      ELSE IF remote.name \in Names(remotes)
      THEN [i \in DOMAIN remotes |-> IF remotes[i].name = remote.name THEN remote ELSE remotes[i]]
      ELSE Append(remotes, remote)

\* _upsert: no other remote keeps the URL, ...
Upsert(remotes, remote, at) ==
  LET others == Without(remotes, {remote.name}, {remote.url})
  IN  AddUpdate(others, remote, at)

\* ... and the last of those that had it was renamed.
SameUrl(remotes, remote) ==
  {i \in DOMAIN remotes : remotes[i].url = remote.url /\ remotes[i].name # remote.name}

RenamedBy(remotes, remote) ==
  LET old == SameUrl(remotes, remote)
  IN  IF old = {} THEN None ELSE remotes[Max(old)].name

Renamed(remotes, n, m) ==
  [i \in DOMAIN remotes |-> IF remotes[i].name = n THEN [remotes[i] EXCEPT !.name = m] ELSE remotes[i]]

-----------------------------------------------------------------------------
(* RemoteRegistry: the commands.                                           *)

Begin(a, c) ==
  /\ command[a] = Idle /\ commands < MaxCommands
  /\ command' = [command EXCEPT ![a] = c] /\ commands' = commands + 1

Save(remotes) ==
  /\ registry' = remotes
  /\ UNCHANGED <<recipes, packages, kills>>

Loaded == UNCHANGED <<registry, recipes, packages, kills, lapses>>

\* conan remote add: the name must be new, and the URL too unless its place is
\* given, or it is to be verified otherwise (otherwise).
Add(a, remote, at, otherwise) ==
  /\ remote.name \notin Names(registry)
  /\ remote.url \notin Urls(registry) \/ otherwise \/ at # None
  /\ Begin(a, Idle)
  /\ Save(AddUpdate(registry, remote, at))
  /\ UNCHANGED lapses

Update(a, remote, at, otherwise) ==
  /\ remote.name \in Names(registry)
  /\ remote.url \notin Urls(registry) \/ otherwise \/ at # None
  /\ Begin(a, Idle)
  /\ Save(AddUpdate(registry, remote, at))
  /\ UNCHANGED lapses

\* conan remote add --force: saved at once.  Had two remotes the URL, then only
\* what names the second one follows.
ForceAdd(a, remote, at) ==
  LET old == RenamedBy(registry, remote)
  IN  /\ Begin(a, IF old = None THEN Idle
                  ELSE Rewriting(registry, <<>>, FALSE, MapTo({old}, remote.name)))
      /\ Save(Upsert(registry, remote, at))
      /\ lapses' = IF Cardinality(SameUrl(registry, remote)) > 1
                   THEN lapses \cup {"same url"} ELSE lapses

RemoveRemote(a, n) ==
  /\ n \in Names(registry)
  /\ Begin(a, Rewriting(registry, Without(registry, {n}, {}), TRUE, MapTo({n}, None)))
  /\ Loaded

Rename(a, n, m) ==
  /\ n \in Names(registry) /\ m \notin Names(registry)
  /\ Begin(a, Rewriting(registry, Renamed(registry, n, m), TRUE, MapTo({n}, m)))
  /\ Loaded

\* conan remote clean.
Clear(a) ==
  /\ Begin(a, Rewriting(registry, <<>>, TRUE, MapTo(Name, None)))
  /\ Loaded

\* conan config install, with a file of remotes.
Define(a, remotes) ==
  /\ Begin(a, Rewriting(registry, remotes, TRUE, MapTo(Name \ Names(remotes), None)))
  /\ Loaded

\* The names in the metadata of a reference.
Named(r) == {recipes[r]} \cup {packages[p] : p \in {q \in Pref : q[1] = r}}

\* Names are written for a reference of which one is gone, or one that another
\* command is about to remove and will not see, as it is done with the reference.
Overlapped(a, r, written, known) ==
  IF \E n \in written \ {None} :
       \/ n \notin known
       \/ \E b \in Admin \ {a} :
            /\ command[b].kind = "rewrite" /\ r \notin command[b].todo
            /\ command[b].map[n] # n
  THEN lapses \cup {"overlap"} ELSE lapses

\* Mutant: of a reference, only the recipe is rewritten.
RewriteRef_Recipe(a, r) ==
  /\ command[a].kind = "rewrite" /\ r \in command[a].todo
  /\ recipes' = [recipes EXCEPT ![r] = command[a].map[@]]
  /\ command' = [command EXCEPT ![a].todo = @ \ {r}]
  /\ UNCHANGED <<registry, packages, commands, kills, lapses>>

\* The metadata of the references, one after the other, each under its lock.
RewriteRef(a, r) ==
  /\ command[a].kind = "rewrite" /\ r \in command[a].todo
  /\ recipes' = [recipes EXCEPT ![r] = command[a].map[@]]
  /\ packages' = [p \in Pref |-> IF p[1] = r THEN command[a].map[packages[p]] ELSE packages[p]]
  /\ command' = [command EXCEPT ![a].todo = @ \ {r}]
  /\ lapses' = Overlapped(a, r, {command[a].map[n] : n \in Named(r)} \ Named(r),
                          Names(IF command[a].saves THEN command[a].file ELSE registry))
  /\ UNCHANGED <<registry, commands, kills>>

\* What was changed since it was loaded is lost.
Finish(a) ==
  /\ command[a].kind = "rewrite" /\ command[a].todo = {}
  /\ registry' = IF command[a].saves THEN command[a].file ELSE registry
  /\ lapses' = IF command[a].saves /\ registry # command[a].loaded
               THEN lapses \cup {"overlap"} ELSE lapses
  /\ command' = [command EXCEPT ![a] = Idle]
  /\ UNCHANGED <<recipes, packages, commands, kills>>

\* conan remote add_ref, update_ref and remove_ref, and those for packages:
\* the name is looked up, then it is written.
NameRef(a, p, n) ==
  /\ n \in Names(registry) \cup {None}
  /\ Begin(a, Naming(p, n)) /\ Loaded

WriteName(a) ==
  LET p == command[a].pref
      n == command[a].name
  IN  /\ command[a].kind = "name"
      /\ \/ p \in Ref /\ recipes' = [recipes EXCEPT ![p] = n] /\ UNCHANGED packages
            /\ lapses' = Overlapped(a, p, {n}, Names(registry))
         \/ p \in Pref /\ packages' = [packages EXCEPT ![p] = n] /\ UNCHANGED recipes
            /\ lapses' = Overlapped(a, p[1], {n}, Names(registry))
      /\ command' = [command EXCEPT ![a] = Idle]
      /\ UNCHANGED <<registry, commands, kills>>

Kill(a) ==
  /\ command[a] # Idle /\ kills < MaxKills
  /\ command' = [command EXCEPT ![a] = Idle]
  /\ kills' = kills + 1 /\ lapses' = lapses \cup {"killed"}
  /\ UNCHANGED <<registry, recipes, packages, commands>>

Place == {None, 0}
Change(a) ==
  \/ \E remote \in Remote, at \in Place :
       \/ ForceAdd(a, remote, at)
       \/ \E otherwise \in BOOLEAN : Add(a, remote, at, otherwise) \/ Update(a, remote, at, otherwise)
  \/ \E n, m \in Name : Rename(a, n, m)
  \/ \E n \in Name : RemoveRemote(a, n)
  \/ Clear(a)
  \/ \E remote \in Remote : Define(a, <<remote>>)
  \/ \E p \in Ref \cup Pref, n \in Name \cup {None} : NameRef(a, p, n)
  \/ \E r \in Ref : RewriteRef(a, r)
  \/ Finish(a) \/ WriteName(a) \/ Kill(a)

-----------------------------------------------------------------------------
\* What the metadata names is a remote, when no command is running: an install
\* or an upload that is to use it looks it up, and fails if it is not there.
RemotesKnown ==
  lapses = {} /\ (\A a \in Admin : command[a] = Idle) =>
    Range(recipes) \cup Range(packages) \subseteq Names(registry) \cup {None}
=============================================================================

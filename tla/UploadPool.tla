----------------------------- MODULE UploadPool -----------------------------
(***************************************************************************)
(* "conan upload" of recipes and packages (CmdUpload, _UploadCollecter),   *)
(* while "conan remote" changes the remotes.                               *)
(*                                                                         *)
(* The command finds the remote of each recipe, and uploads the recipes of *)
(* one remote after those of another in a pool of threads (that of Python, *)
(* multiprocessing.pool, is external).  When a recipe is uploaded its      *)
(* packages are queued, for which nobody waits before the pool is joined.  *)
(* One thread of the pool handles the results, and calls back when the     *)
(* packages of a recipe are done; an exception of the call ends it.        *)
(*                                                                         *)
(* What the server does with a recipe or a package is in Upload.           *)
(***************************************************************************)
EXTENDS Remotes

CONSTANTS
  Worker,      \* the threads of the pool
  MaxFailures  \* bounds the uploads and the hooks that fail

ASSUME FailuresAssumption == MaxFailures \in Nat

\* A recipe is neither a package nor the name of a job.
ASSUME ItemsAssumption ==
  /\ IsFiniteSet(Ref) /\ \A r \in Ref : IsFiniteSet(PackagesOf[r])
  /\ Ref \cap Pref = {} /\ None \notin Ref \cup Pref /\ "recipes" \notin Ref

VARIABLES
  upload,    \* the command: its remotes and the recipes of each of them
  tasks,     \* the queue of the pool
  running,   \* what each thread does
  results,   \* the queue of results
  jobs,      \* the calls of map: how many results are missing, which failed
  handler,   \* whether the thread is there that handles the results
  errors,    \* _exceptions_list
  uploaded,  \* what was uploaded, and where to
  hooks,     \* the recipes for which post_upload was executed
  failures

poolVars == <<tasks, running, results, jobs, handler, errors, uploaded, hooks, failures>>
vars == <<remoteVars, upload, poolVars>>

Item == Ref \cup Pref
Recipes == "recipes"
Job == Ref \cup {Recipes}
JobOf(item) == IF item \in Ref THEN Recipes ELSE item[1]
PackagesIn(r) == {p \in Pref : p[1] = r}

Task(item, remote) == [item |-> item, remote |-> remote, seen |-> None]
NoTask == [item |-> None]
NoJob == [open |-> FALSE, left |-> 0, failed |-> {}]
NewJob(n) == [open |-> TRUE, left |-> n, failed |-> {}]
NoUpload == [phase |-> "none", loaded |-> <<>>, chosen |-> None, threads |-> {}, todo |-> {},
             groups |-> {}, remote |-> None]

UploadTypeOK ==
  /\ RemotesTypeOK
  /\ upload.phase \in {"none", "collect", "map", "join", "done", "failed"}
  /\ upload.loaded \in Registry /\ upload.threads \subseteq Worker /\ upload.todo \subseteq Ref
  /\ upload.groups \subseteq Name \X Ref
  /\ \A t \in Range(tasks) : t.item \in Item /\ t.remote \in Remote
  /\ \A w \in Worker : running[w].item \in Item \cup {None}
  /\ \A result \in Range(results) : result.item \in Item /\ result.failed \in BOOLEAN
  /\ \A j \in Job : jobs[j].left \in 0..Cardinality(Item) /\ jobs[j].failed \subseteq Pref
  /\ handler \in BOOLEAN /\ errors \subseteq Item /\ uploaded \subseteq Item \X Url
  /\ hooks \subseteq Ref /\ failures \in 0..MaxFailures

Init ==
  /\ RemotesInit
  /\ upload = NoUpload
  /\ tasks = <<>> /\ running = [w \in Worker |-> NoTask] /\ results = <<>>
  /\ jobs = [j \in Job |-> NoJob]
  /\ handler = TRUE /\ errors = {} /\ uploaded = {} /\ hooks = {} /\ failures = 0

-----------------------------------------------------------------------------
(* The command.                                                            *)

\* The remotes are loaded once; one of them may be given.  Without --parallel
\* there is one thread.
StartUpload(chosen, threads) ==
  /\ upload.phase = "none" /\ commands < MaxCommands
  /\ commands' = commands + 1
  /\ chosen \in Names(registry) \cup {None}
  /\ upload' = [NoUpload EXCEPT !.phase = "collect", !.loaded = registry,
                                !.chosen = chosen, !.threads = threads, !.todo = Ref]
  /\ UNCHANGED <<registry, recipes, packages, command, kills, lapses, poolVars>>

\* The remote of a recipe, for want of which the first one.
RemoteFor(r) ==
  CASE upload.chosen # None -> upload.chosen
    [] upload.chosen = None /\ recipes[r] # None -> recipes[r]
    [] OTHER -> IF upload.loaded = <<>> THEN None ELSE Head(upload.loaded).name

Collect(r) ==
  LET n == RemoteFor(r)
  IN  /\ upload.phase = "collect" /\ r \in upload.todo
      /\ upload' = IF n \notin Names(upload.loaded) THEN [upload EXCEPT !.phase = "failed"]
                   ELSE [upload EXCEPT !.todo = @ \ {r}, !.groups = @ \cup {<<n, r>>}]
      /\ UNCHANGED <<remoteVars, poolVars>>

Group(n) == {r \in Ref : <<n, r>> \in upload.groups}

\* map waits for the recipes of a remote, but not for their packages.
MapGroup(n) ==
  /\ upload.phase \in {"collect", "map"} /\ upload.todo = {} /\ ~jobs[Recipes].open
  /\ Group(n) # {}
  /\ upload' = [upload EXCEPT !.phase = "map", !.remote = n,
                              !.groups = {g \in @ : g[1] # n}]
  /\ tasks' = tasks \o SetToSeq({Task(r, RemoteOf(upload.loaded, n)) : r \in Group(n)})
  /\ jobs' = [jobs EXCEPT ![Recipes] = NewJob(Cardinality(Group(n)))]
  /\ UNCHANGED <<remoteVars, running, results, handler, errors, uploaded, hooks, failures>>

ClosePool ==
  /\ upload.phase = "map" /\ ~jobs[Recipes].open /\ upload.groups = {}
  /\ upload' = [upload EXCEPT !.phase = "join"]
  /\ UNCHANGED <<remoteVars, poolVars>>

\* Mutant: the command does not wait for the packages.
JoinPool_Recipes ==
  /\ upload.phase = "join"
  /\ upload' = [upload EXCEPT !.phase = IF errors = {} THEN "done" ELSE "failed"]
  /\ UNCHANGED <<remoteVars, poolVars>>

JoinPool ==
  /\ upload.phase = "join" /\ \A j \in Job : ~jobs[j].open
  /\ upload' = [upload EXCEPT !.phase = IF errors = {} THEN "done" ELSE "failed"]
  /\ UNCHANGED <<remoteVars, poolVars>>

-----------------------------------------------------------------------------
(* The threads of the pool.                                                *)

CanTake(w) == running[w] = NoTask /\ tasks # <<>> /\ w \in upload.threads

\* Mutant: packages go to the remote whose recipes are mapped last.
Take_Late(w) ==
  LET t == Head(tasks)
  IN  /\ CanTake(w)
      /\ tasks' = Tail(tasks)
      /\ running' = [running EXCEPT ![w] =
           [t EXCEPT !.remote = RemoteOf(upload.loaded, upload.remote)]]
      /\ UNCHANGED <<remoteVars, upload, results, jobs, handler, errors, uploaded, hooks, failures>>

\* prepare_recipe reads the remote that the recipe has.
Take(w) ==
  LET t == Head(tasks)
  IN  /\ CanTake(w)
      /\ tasks' = Tail(tasks)
      /\ running' = [running EXCEPT ![w] = IF t.item \in Ref THEN [t EXCEPT !.seen = recipes[t.item]]
                                           ELSE t]
      /\ UNCHANGED <<remoteVars, upload, results, jobs, handler, errors, uploaded, hooks, failures>>

Ended(w, failed) ==
  /\ running' = [running EXCEPT ![w] = NoTask]
  /\ results' = Append(results, [item |-> running[w].item, failed |-> failed])

Sent(t) == uploaded' = uploaded \cup {<<t.item, t.remote.url>>}

PackageTasks(t) == {Task(p, t.remote) : p \in PackagesIn(t.item)}

\* Mutant: a thread that has uploaded a recipe waits for its packages.
UploadRecipe_Waits(w) ==
  LET t == running[w]
      r == t.item
  IN  /\ r \in Ref /\ ~jobs[r].open
      /\ IF PackagesIn(r) = {} \/ \A p \in PackagesIn(r) : <<p, t.remote.url>> \in uploaded
         THEN Ended(w, FALSE) /\ UNCHANGED <<tasks, jobs>>
         ELSE /\ tasks' = tasks \o SetToSeq(PackageTasks(t))
              /\ jobs' = [jobs EXCEPT ![r] = NewJob(Cardinality(PackagesIn(r)))]
              /\ UNCHANGED <<running, results>>
      /\ Sent(t)
      /\ UNCHANGED <<remoteVars, upload, handler, errors, hooks, failures>>

\* A recipe that had no remote gets this one.  Then its packages are queued.
UploadRecipe(w) ==
  LET t == running[w]
      r == t.item
  IN  /\ r \in Ref
      /\ Ended(w, FALSE) /\ Sent(t)
      /\ IF t.seen = None
         THEN recipes' = [recipes EXCEPT ![r] = t.remote.name]
              /\ lapses' = Overlapped(None, r, {t.remote.name}, Names(registry))
         ELSE UNCHANGED <<recipes, lapses>>
      /\ IF PackagesIn(r) # {}
         THEN tasks' = tasks \o SetToSeq(PackageTasks(t))
              /\ jobs' = [jobs EXCEPT ![r] = NewJob(Cardinality(PackagesIn(r)))]
              /\ UNCHANGED hooks
         ELSE hooks' = hooks \cup {r} /\ UNCHANGED <<tasks, jobs>>
      /\ UNCHANGED <<registry, packages, command, commands, kills, upload, handler, errors, failures>>

UploadPackage(w) ==
  LET t == running[w]
      p == t.item
  IN  /\ p \in Pref
      /\ Ended(w, FALSE) /\ Sent(t)
      /\ IF packages[p] = None
         THEN packages' = [packages EXCEPT ![p] = t.remote.name]
              /\ lapses' = Overlapped(None, p[1], {t.remote.name}, Names(registry))
         ELSE UNCHANGED <<packages, lapses>>
      /\ UNCHANGED <<registry, recipes, command, commands, kills, upload, tasks, jobs, handler,
                     errors, hooks, failures>>

\* A hook, a check or a request fails: a thread adds what happened to a recipe
\* to the exceptions, for a package it returns it.
Fail(w) ==
  /\ running[w] # NoTask /\ failures < MaxFailures
  /\ failures' = failures + 1
  /\ Ended(w, TRUE)
  /\ errors' = IF running[w].item \in Ref THEN errors \cup {running[w].item} ELSE errors
  /\ UNCHANGED <<remoteVars, upload, tasks, jobs, handler, uploaded, hooks>>

-----------------------------------------------------------------------------
(* The thread that handles the results.                                    *)

Result == Head(results)
ResultJob == JobOf(Result.item)
Counted ==
  [jobs[ResultJob] EXCEPT !.left = @ - 1,
     !.failed = IF Result.failed /\ Result.item \in Pref THEN @ \cup {Result.item} ELSE @]

\* Mutant: what happened to the packages is forgotten.
Called_Silent(r, failed) ==
  /\ errors' = errors
  /\ IF failed = {} THEN hooks' = hooks \cup {r} ELSE UNCHANGED hooks

\* upload_package_callback.
Called(r, failed) ==
  /\ errors' = errors \cup failed
  /\ IF failed = {} THEN hooks' = hooks \cup {r} ELSE UNCHANGED hooks

HandleResult ==
  /\ handler /\ results # <<>>
  /\ results' = Tail(results)
  /\ jobs' = [jobs EXCEPT ![ResultJob] = IF Counted.left = 0 THEN NoJob ELSE Counted]
  /\ IF Counted.left = 0 /\ ResultJob \in Ref THEN Called(ResultJob, Counted.failed)
     ELSE UNCHANGED <<errors, hooks>>
  /\ UNCHANGED <<remoteVars, upload, tasks, running, handler, uploaded, failures>>

\* The hook fails in the callback, which nothing catches: the job stays open.
FailCallback ==
  /\ handler /\ results # <<>> /\ failures < MaxFailures
  /\ ResultJob \in Ref /\ Counted.left = 0 /\ Counted.failed = {}
  /\ handler' = FALSE /\ failures' = failures + 1
  /\ results' = Tail(results)
  /\ jobs' = [jobs EXCEPT ![ResultJob] = Counted]
  /\ UNCHANGED <<remoteVars, upload, tasks, running, errors, uploaded, hooks>>

-----------------------------------------------------------------------------
UploadThread(w) == Take(w) \/ UploadRecipe(w) \/ UploadPackage(w) \/ Fail(w)

UploadCommand ==
  \/ \E r \in Ref : Collect(r)
  \/ \E n \in Name : MapGroup(n)
  \/ ClosePool \/ JoinPool

RemoteCommand == (\E a \in Admin : Change(a)) /\ UNCHANGED <<upload, poolVars>>

Next ==
  \/ RemoteCommand
  \/ \E n \in Name \cup {None} : StartUpload(n, Worker) \/ StartUpload(n, {CHOOSE w \in Worker : TRUE})
  \/ UploadCommand
  \/ \E w \in Worker : UploadThread(w)
  \/ HandleResult \/ FailCallback

\* The command and the threads go on, and a request is answered or fails.
Fairness ==
  /\ WF_vars(UploadCommand) /\ WF_vars(HandleResult)
  /\ \A w \in Worker : WF_vars(UploadThread(w))

Spec == Init /\ [][Next]_vars /\ Fairness

-----------------------------------------------------------------------------
\* An upload that ends well has uploaded every recipe with all its packages, and
\* executed post_upload for it, and nothing has failed, however its threads and
\* results interleave.
OkMeansUploaded ==
  upload.phase = "done" =>
    /\ {x[1] : x \in uploaded} = Item
    /\ hooks = Ref /\ failures = 0

\* A package is uploaded after its recipe, and to the same server.
PackagesFollow ==
  \A x \in uploaded : x[1] \in Pref => <<x[1][1], x[2]>> \in uploaded

\* The upload ends, unless post_upload fails in the callback.
UploadEnds == upload.phase = "collect" ~> upload.phase \in {"done", "failed"} \/ ~handler
=============================================================================

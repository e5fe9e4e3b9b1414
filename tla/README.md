# TLA+ models of conan

Specifications of the parts of conan (client and `conan_server`) in which
several processes, threads, requests or failures meet, and of how a dependency graph
is resolved, analyzed and installed: the locks of the local cache, recipe and package folders
and their metadata, the download cache, the remotes, the upload of recipes and
packages, and the storage of the server.  They are checked with TLC on small instances, and
their main safety properties are proved with TLAPS for every value of the
constants.

    tlc -workers 2 -config MC_CountLock_safety.cfg MC_CountLock     # one run
    tlapm CountLockProofs.tla                                       # proofs

`PROJECT.json` lists the components, the runs, the lines of the source each
definition stands for, the hazards and the theorems.  Paths below are relative
to `src/conans` unless they start with `src/`.

## 1. The system

### Parts, state and operations

| Part | State it keeps | Operations | Talks to |
|---|---|---|---|
| Cache locks, `util/locks.py` | `<folder>.count`, `<folder>.count.lock` | enter and leave a read or write section, `Lock.clean` | every command that reads or writes a recipe or a package |
| Recipe and package folders, `paths/package_layouts/package_cache_layout.py`, `util/files.py` | export, source, build and package folders, `<folder>.dirty`, `metadata.json`, package lock | `package_remove`, `set_dirty_context_manager`, `update_metadata`, `package_lock` | installer, remote manager, remover, export |
| Graph of a build, `client/graph/*` | nodes, requirements, options | load graph, evaluate binaries, build mode, lockfile | cache, remote manager |
| Installer, `client/installer.py` | none of its own | download, build or reuse each package of the graph in build order, then use it | cache, remote manager, source, generators |
| Remote manager, `client/remote_manager.py`, `client/rest/*`, `client/downloaders/*` | download cache | get recipe, sources, package; retries, resumed downloads; authentication | server |
| Upload, `client/cmd/uploader.py`, `client/rest/rest_client_v2.py`, `client/rest/file_uploader.py` | none of its own | collect, prepare, compare with the remote, send files | server |
| Server, `server/service/*`, `server/store/*`, `server/revision_list.py` | a folder for every revision, `revisions.txt` per recipe and per package | upload a file, list, download, remove, latest revision, search | disk |
| Registry of remotes, `client/cache/remote_registry.py` | `remotes.json`, the remote of recipes and packages in `metadata.json` | add, rename, remove, reorder remotes | cache |
| Values, `model/*` | options, settings, versions, references, package ids | parse, propagate, compare | graph |
| Command line, generators, build helpers, tools | none | text and system calls | installer |

Recipes and packages are only shared through the file system: two conan
commands that run at the same time never talk to each other.  What they agree
on is in lock files, in the dirty mark beside a folder, and in `metadata.json`.
The server is one process per worker, and its workers share nothing but the
disk and a lock file beside each index.

### What is hard

* **Concurrency on the disk.**  The lock of a recipe is a count in a file, read
  and written under a lock of the operating system on another file; both are
  removed by code that does not own the lock.  A package is looked at under the
  package lock, decided on without it and acted on under it again.  The server
  locks single reads and writes of an index, not the update of it, and replaces
  a file by unlinking it first.
* **Threads in processes.**  `core:parallel_download` and `conan upload
  --parallel` run threads that share the `metadata.json` of a recipe, under a
  record lock that POSIX gives to the process.
* **Crashes.**  Ctrl-C and kills leave the count, the dirty mark, half a folder
  or a truncated file behind, and the next command must cope with it.
* **Partial failure and retries.**  Files of an upload fail one by one; an
  upload is run again; answers are lost; a removal ends in the middle.
* **Facts known late.**  A package id may depend on the revision of a package
  that is built after the graph was analyzed; its node is decided on while the
  graph is installed, when others were decided on long before.
* **Stale decisions.**  Upload policies, installs and the reader of a package
  decide on a snapshot and act on it later.
* **Boundaries.**  The number of readers at 0 and -1, the index 0 of a list.

### What makes each part correct

* *Locks*: a write section excludes everyone else; the count says who is inside;
  polling processes get in.
* *Package folder*: without a dirty mark a package is whole and its metadata is
  its own; a mark is never found twice or missed; what is used is whole and is
  what was decided on.
* *metadata.json*: no update of another thread or process is lost, none waits
  for ever.
* *Upload*: success means that everything is on the server; a manifest on the
  server means the files before it; policies hold.
* *Server*: what was acknowledged is stored, listed and has its files until it is
  removed; the latest revision exists; packages have their recipe; nothing stays
  of what is gone.
* *Recipe folder*: sources and build folders without a dirty mark are of the
  recipe they are used for, and a package is of the revision it claims.
* *Uploads of many*: success means that everything was sent, packages follow
  their recipe to its server, and the command ends.
* *Remotes*: what the metadata names is a remote.
* *Graph*: what nodes keep about the graph agrees with its edges; downstream
  wins; options are those asked for; no loops; the resolution ends.
* *Binaries*: what is installed has the id and the revision that the next command
  will look for; what was decided for a package is what happens; nothing that a
  build needs was skipped.
* *Downloads*: what the download cache hands out is the file asked for,
  complete, whatever was killed before, and every download ends.

## 2. Modules

| Module | What it is |
|---|---|
| `ReadersWriters` | the abstract readers-writer lock |
| `CountLock` | `ReadLock`, `WriteLock`, `Lock.clean` over two files; implements `ReadersWriters` |
| `CountLockProofs` | its proofs |
| `PackageFolder` | one package in the cache under install, export-pkg, remove and export |
| `PackageFolderProofs` | its proofs, and those about `MetadataFile` |
| `RecipeFolder` | the recipe in the cache, its sources and builds, by several commands; takes the recipe lock from `ReadersWriters` |
| `RecipeFolderProofs` | its proofs |
| `DownloadCache` | one cached file, downloaded by threads of several processes |
| `DownloadCacheProofs` | its proofs |
| `MetadataFile` | `update_metadata` under a record lock and a lock in memory |
| `Upload` | several clients upload one revision, one installs it |
| `UploadProofs` | its proofs, and those about `UploadPool` and `Remotes` |
| `Remotes` | `remotes.json` and the remotes in the metadata, under `conan remote` |
| `UploadPool` | `conan upload` of recipes and packages in a thread pool; EXTENDS `Remotes` |
| `DepsGraph` | `DepsGraphBuilder`: the resolution of a dependency graph |
| `DepsGraphProofs` | its proofs |
| `GraphBinaries` | `GraphBinariesAnalyzer`, build modes and `BinaryInstaller` on a resolved graph |
| `GraphBinariesProofs` | its proofs |
| `RevisionList` | the list in `revisions.txt`, as operators |
| `ServerStore` | one recipe on the server: revisions, indexes, requests per step |
| `ServerStoreProofs` | its proofs, with lemmas about the operators of `RevisionList` |
| `MC_*` | instances for TLC: the model values and the choices of a cfg; `MC_PackageFolder` and `MC_UploadPool` also narrow the next-state relation |

Every module has its mutants beside the definitions they change (`Name_How`,
each under a comment `Mutant: ...`): a plausible bug that must make a property
fail.

### CountLock

| Model | Code |
|---|---|
| `count` | content of `<folder>.count`; `NoNumber`: absent, or truncated by `save` |
| `fileNo`, `fd` | inode behind `<folder>.count.lock`, and the one a process has open |
| `pc`, `op` | where a process is in `ReadLock`/`WriteLock.__enter__`/`__exit__`, `Lock.clean` or the removal of the recipe |
| `role` | the lock granted by `__enter__` and not given back |
| `disturbed` | history: the lock files were removed under a process that uses them |

`EnterRead`, `EnterWrite`, `ExitRead`, `ExitWrite` start an operation; `Open`,
`Acquire` and `Load` are `fasteners.InterProcessLock` and `_readers`;
`GrantRead`, `GrantWrite`, `ReleaseRead`, `ReleaseWrite`, `Busy` are the bodies
of the with block.  A lock is of an inode and not of a name, so a process that
opened the file before it was unlinked gets a lock nobody else looks at.
`FailWrite`, `Update` and `Clean` start the three ways in which conan removes
the files: a write section that raises (locks.py:106), `remove_recipe` inside a
write section (remover.py:34, called by proxy.py), and `conan remove` or
`conan remove --locks` with no lock at all.  `Crash` and `CrashSaving` kill a
process between steps, or inside `save`.

### PackageFolder

| Model | Code |
|---|---|
| `folder` | the package folder: `None`, `Partial`, or the content that is in it |
| `dirty` | whether `<folder>.dirty` exists |
| `meta` | the entry of the package in `metadata.json` |
| `recipe` | the recipe revision in the cache |
| `lockFile`, `fd`, `locked` | inode of the package lock, the one a process has open, whether it has the lock |
| `pc`, `kind`, `rrev`, `prev`, `known` | where a process is, what it does, and what it has decided on |

An install goes `waiting`, `clean`, `decide` (no lock), `waiting`, `act`, and
then the steps of `Download` or `Build`.  A download ends in `fetched`, where
the lock is released, and is used like a package of the cache in its turn
(installer.py:381-419, then 542-586).  The order of metadata, files and marks
is in the tables `Download`, `Build` and `Exporting`, as it differs:
get_package writes the metadata before the files, a build after them and before
the mark is cleared, and export-pkg after the mark was cleared.  Outcomes of
the build mode and of `--update` are a choice (`Outcomes`).

### MetadataFile

| Model | Code |
|---|---|
| `content` | `metadata.json`: how many updates of each thread are in it, or `Empty` |
| `owner` | the process that has the record lock of `metadata.json.lock` |
| `mutex` | the thread that has `_metadata_locks[...]` in each process |
| `seen` | what `load_metadata` has returned to a thread |
| `processOf` | the process of each thread, chosen at the start |

`fasteners` locks with `fcntl.lockf`: a second thread of the same process is
granted the lock too, and the first thread to release it or to close the file
releases it for the process.

### Upload

| Model | Code |
|---|---|
| `stored`, `cut` | the files of the revision on the server, each with the content it comes from, and those that are not filled |
| `handling` | the handlers of the server that are saving a file: received, old file unlinked (`clear`), new file open, or open and unlinked by another (`gone`) |
| `pc`, `manifest`, `next`, `missed` | where each client is, the remote manifest it has seen, the file it sends next, `failed` of `_upload_files` |
| `asked` | the handler whose answer a client waits for |
| `rpc`, `wanted`, `got` | the client that installs the package, and the files it has |
| `lost` | history: the files that were given up, cut by a killed handler or removed, and not saved since |
| `wiped` | history: whose work met a loss of files on the server |

Files are sent in the order of their names, which the comment at
rest_client_v2.py:196 relies on: the compressed file first, `conanmanifest.txt`
last.  `Package` says whether the revision is of a package (compared only when
its remote snapshot is complete) or of a recipe (compared by its manifest, and
its date first).

A request is `Receive`, and then the steps of `_upload_to_path`
(service_v2.py:107-116): `Unlink`, `Create`, `CloseFile`.  Everybody else can run
between any two of them, so a file that is uploaded again is missing for a while,
and cut for another.  `FileUpload.save` of bottle is external: it refuses a file
that exists (`FileExists`, an error for the client, which tries again), and
otherwise creates and fills it; that it looks for the file and creates it is one
step here.  A handler goes on when its client has stopped waiting
(`AnswerLost`), and then the client sends the file again while the first request
is still saving it: two handlers of one file.  Who writes to a file that another
one unlinked writes to nothing, and answers all the same.  A download takes what
is there: of a cut `conan_package.tgz` the client notices when it unpacks it, of
the other files it does not, and no property here says that what an install got
was not cut.

### ServerStore and RevisionList### ServerStore and RevisionList

| Model | Code |
|---|---|
| `stored`, `whole` | the revisions that have a folder at each place, and those that have their files |
| `index`, `lock` | `revisions.txt` and `revisions.txt.lock` of each place |
| `pc`, `place`, `id`, `removing`, `todo`, `list` | the request a worker is in the middle of |
| `acked` | history: the revisions whose upload was answered, and whose removal was not asked for since |
| `lost` | history: the revisions whose files a worker was replacing when it was killed, and not saved since |

A place is the recipe, whose index lists recipe revisions, or a recipe
revision, whose index lists the package revisions.  `LoadIndex` and `WriteIndex`
are the two separate locked sections of `_update_last_revision` and
`_remove_*_from_index`.  The time of an entry is left out: it grows along the
list.

A PUT goes `put` (the old file is unlinked), `save` (folders are made), `fill`
(the file is saved), `load`, `store`, and a worker can be killed at each.  A
removal of any kind begins at one of the `rm` steps, where `Delete` removes one
folder, index or lock file after the other, in any order (`shutil.rmtree` goes
by the order of a directory), and a kill leaves the rest, or a folder with some
of its files (`Crash`).  `EndDelete` goes on when nothing is left; beside another
worker rmtree may also end before.  The files of a revision are one thing here:
what happens between two requests that save the same file is in `Upload`, and
`SaveFile` has only its outcome.  Empty folders are left out.

### RecipeFolder

| Model | Code |
|---|---|
| `export`, `exports`, `revision` | the export and export_source folders, and the recipe revision of `metadata.json` |
| `source`, `sourceDirty` | the source folder and its mark |
| `build`, `built`, `buildDirty` | each build folder: what it was copied from, whether it was built, its mark |
| `packaged`, `claims` | what each package was made from, and what its metadata says |
| `role`, `holder` | the recipe lock, and the lock of each package |
| `gap` | history: a step went through one of the gaps below |

An install is `GetRecipe` (with `Fetch`, `ClearSource`, `Record`) under the
write lock, `Load` without one, and `_PackageBuilder`: the build folder is
looked at before any lock of the recipe, sources are prepared under the write
lock, the build reads under the read lock.  `Export` leaves the lock before it
records the revision and removes what is stale.  The lock is the abstract
`ReadersWriters`, which `CountLock` implements; that `remove_recipe` deletes the
lock files inside its own section is its early release (`RemoveRecipe`).  A
folder that is neither one revision nor absent is `Torn`.

The properties hold until a step goes through a *gap*, a place where the code
holds no lock or sets no mark, each defined by name in the module:
`Overlap` and `HalfWay`.  What happens after it is unrestricted and not claimed.

### DownloadCache

| Model | Code |
|---|---|
| `cached`, `dirty` | the file in the download cache, chunk by chunk, and its mark |
| `owner`, `mutex` | the lock of the file, of a process, and the one in memory, of a thread |
| `opened`, `start`, `size`, `version`, `tries` | one transfer: `range_start`, `downloaded_size`, the version the answer is of, the retries |
| `handed` | the copy a thread was given |
| `published`, `corrupted` | the version at the URL, and whether something else damaged the cache |

### DepsGraph

| Model | Code |
|---|---|
| `stack` | the calls of `_expand_node` and `_expand_require`, as frames |
| `nodes` | `Node`: requires, options, edges, ancestors, `public_deps`, `public_closure`, `transitive_closure`, `inverse_closure` |
| `recipes` | what was read of each reference; a recipe is chosen when it is first read |
| `world` | which recipes, versions and build requirements there are |
| `outcome` | which of the errors ended the resolution |

`todo` of a frame has every requirement of its node, and `PassOverride` is the
`continue` of `_expand_node` for one with `override=True`.  `Reached`, from which
the properties say what depends on what, is a least set, not a recursion.

A node is configured in the order of `_config_node` and `run_configure_method`:
`Ready` is `config_options()`, `Propagated` is `propagate_upstream` of what comes
from downstream, and `Configured` is `configure()` and `requirements()` after it.
What those methods assign to the options of the package itself and of what it
depends on is part of the recipe (`config_options` and `configure`, a function of
the own option, as in `self.options["b"].shared = self.options.shared`).  They
run each time the node is expanded, and their assignments are not remembered as
changes (`PackageOptions.__setattr__`, against `_modified`), so they win over
downstream.  The recipe of options_in_requirements_test.py:40-42 is one of them.
`OptionsAgree` therefore exempts an option that a method of its own recipe sets,
or that of a recipe on the way to it.  Requirements that depend on an option are
left out.

The two assumptions on the worlds say what the code makes sure of: `Requirements` has
one requirement of each name, each with a version or a range, and those of a
recipe are for its own context (`context_switch=False`).

### GraphBinaries

| Model | Code |
|---|---|
| `world` | the graph, the package id mode and `build_policy` of each recipe, the build mode of the command, what is invalid, editable or compatible |
| `nodes` | `Node`: `package_id`, `binary`, `binary_non_skip`, `prev`, `should_build`, `id_direct_prefs`, `id_indirect_prefs`, and `conanfile.info.requires.refs()` |
| `facts` | what the cache and the server have of each package, chosen when it is first looked at |
| `evaluated`, `call` | `_evaluated`, and `_evaluate_node` in the middle of trying ids |
| `frames`, `present` | the calls of `_recurse_build_requires`, and the nodes that are in the graph so far |
| `todo`, `processed`, `stage` | `BinaryInstaller._build`: the nodes left, `processed_package_references`, its phase |

An id is a value that says what it is computed from, so that two ids are equal
just when the hashes are: the reference, the configuration, and of each
requirement as much as the mode takes (`Width`).  The modes that differ only in
how much of a version they keep are one mode here.  The edges come from the
world: `DepsGraph` says which graphs there are.  A node is evaluated or installed
in the order of its level, and nodes of one reference in any order, as `sort`
leaves them in that of a set; downloads go in any order, as they are given to
threads.  `broken` is the state after a failed assertion, or after a download of
a revision that the server does not have; `failed` is that after
`assert node.binary is not None` (graph_binaries.py:225).

A walk (`Walk`, `Past`) has the nodes that are left and those of its present
level.  The worlds are graphs as `DepsGraph` makes them, and the three
assumptions say which: no loops and nothing that requires the consumer; nodes of
their own for what is required for a build, which have in common with the rest
of the graph at most what the node that asked for them is given too.

### Remotes and UploadPool

| Model | Code |
|---|---|
| `registry` | `remotes.json` |
| `recipes`, `packages` | the remote in the metadata of each recipe and package |
| `command` | a `conan remote` in the middle of rewriting the metadata |
| `lapses` | history: commands overlapped, one was killed, or `--force` found two remotes with the URL |
| `upload` | `CmdUpload.upload`: its remotes, the recipes of each, its phase |
| `tasks`, `running`, `results`, `handler` | the queues, threads and result handler of `multiprocessing.pool.ThreadPool` (external) |
| `jobs` | the calls of `map` (the recipes of a remote) and `map_async` (the packages of a recipe) |
| `errors`, `hooks`, `uploaded` | `_exceptions_list`, the recipes whose `post_upload` ran, and what was sent where |

`UploadRecipe` queues the packages of the recipe and returns without waiting;
`HandleResult` runs `upload_package_callback` in the thread of the pool when
the last of them is done.  The server side of each transfer is `Upload`.

## 3. What the runs show

| Run | Instance | Result |
|---|---|---|
| `lock_safety` | 3 processes, 2 removals of the lock files, kills anywhere | exclusion and the count hold until the files are removed under a process that uses them |
| `lock_liveness` | 3 processes, files kept, no kill, fair | implements `ReadersWriters`; someone always enters; one alone enters |
| `uploads` | 2 clients, 2 handlers, 3 files, one package or different recipes under revision 0, 2 runs, 2 faults (a lost answer, a file given up, a killed handler, a removal of any files), 1 reader | success leaves every file there or being replaced (recipes: but for what was lost); beside a manifest no file is missing or cut but one that is being replaced or was lost; an install that ends well has all files, unless one was unlinked between its check and its listing |
| `packages` | 2 processes with 4 installs and 2 kills or failures, or 1 process with 5 commands of every kind and 3 kills, anywhere but in a removal | clean is whole, metadata agrees, marks are balanced; what is used before anything failed is whole; one process uses what it decided on |
| `downloads` | 2 threads of one process or of two, 3 downloads, 1 retry each, 1 kill, 1 upset, fair | what is handed out, and what is cached without a mark, is one whole version; every download ends |
| `recipe_builds` | 2 processes, 2 packages that may share a build folder, 3 commands, 2 kills or failures | until a gap: clean sources and builds are of their recipe, packages are what they claim |
| `store_sequential` | 1 worker, 2x2 revisions, every request, 1 kill between any two steps, of a replacement or a removal too | acknowledged is stored, listed and, but while or after a killed replacement, has its files; acknowledged packages have recipes; nothing is left |
| `store_ghost` | 1 worker, uploads and removals of revisions | **violation**: the latest revision is one that is gone |
| `metadata_updates` | 3 threads in 3, 1 or 2 processes, 3 updates, 1 kill, fair | no update is lost unless threads and processes mix; every update ends |
| `graphs` | every graph of 3 packages and a consumer in 4 worlds: versions, options, recipes whose methods set options, build requirements; fair | closures agree with edges, downstream wins, options agree unless a recipe on the way sets them, no loops, the resolution ends |
| `binaries` | chains and private requirements of 3 packages in every mix of 4 package id modes, build requirements with `--update` and `outdated`, refused, editable and compatible packages; 3 or 4 states of cache and server for each package | what is installed has the id of the next command and the revision of the cache; what was decided happens; nothing needed is skipped |
| `remote_uploads` | 2 recipes, 2 packages, 2 threads, 2 commands that change remotes, 1 kill, 1 failure, fair | success means that everything was sent and every hook ran; packages follow recipes; the upload ends; the metadata names remotes unless commands overlapped |

Type invariants are proved where there is a theorem (section 6); the cfg of
`MC_UploadPool_admins` checks that of `UploadPool` and `Remotes`.

### Disagreements

* `store_ghost`: `add_revision` tests `if index:`, which is false for the index
  0.  A revision that is first in the list is listed twice when it is uploaded
  again, and removing it takes one of the entries.

### Further instances

These are not in the list of runs, and can be run by hand; but for the ones
that say so, TLC finds a violation.

* `MC_CountLock_removal.cfg`: whoever polls or is inside keeps the inode of a
  lock file that is removed (locks.py:106, remover.py:34, cache.py:270); the next
  process makes new files, reads 0 and enters a write section beside it.
* `MC_Upload_again.cfg`: `_upload_files` goes on after a file that failed, so
  the manifest is sent with the compressed file missing, against the comment at
  rest_client_v2.py:196-197.  The next `conan upload` of a recipe compares the
  manifests, finds them equal and reports that the recipe is up to date, while
  rest_client_v2.py:216 tells the user to upload again for the missing files.
  This is what `lost` exempts in `ManifestMeansComplete` and `RecipesComplete`:
  the property of the cfg, `SuccessMeansAll`, does without it.
* `MC_Upload_race.cfg`: two recipes under revision 0 with `--no-overwrite`
  replace each other's files, as the policy is decided on a snapshot.
* `MC_ServerStore_lost.cfg`: two workers upload two revisions, read the same
  index, and the entry of the first to write is lost.
* `MC_ServerStore_migrated.cfg`: `if not rev_list` (server_store.py:294) is
  never true, since a `RevisionList` has neither a length nor a truth value of
  its own; the repair of a migration without indexes is dead code.
* `MC_PackageFolder_removing.cfg`: `package_remove` deletes file by file with
  no dirty mark, which is only set afterwards; a kill leaves half a package
  that looks clean.
* `MC_PackageFolder_exported.cfg`: a kill between the clean mark and the
  metadata of export-pkg leaves a package under the revision of the one it
  replaced.
* `MC_RecipeFolder_ends.cfg` (holds): with two commands and a kill or failure
  every command on a recipe ends, unless it waits for the lock of a dead process,
  and marks of build folders are balanced.
* `MC_DownloadCache_mixed.cfg`: with two threads in a process and one in
  another, the lock of the file is released by the first thread to end, and a
  file is handed out while another process writes it.
* `MC_DepsGraph_clash.cfg`: a private requirement that is expanded before a
  normal one of the same name, which comes in through a diamond, leaves two
  versions in a closure (graph_builder.py:250 and 313-314), against the comment
  at graph.py:81 ("can't conflict").
  `ClosuresAgree` and the others have `OneOfEach` as their condition for this.
  In larger graphs than those of `graphs` such a node breaks `DownstreamWins`,
  `OptionsAgree` and `Acyclic` too: what a diamond adds (ancestors, and what was
  joined) goes through `public_closure` (graph_builder.py:300-316), which has
  one of the two nodes and nothing of what is behind a second private requirement.
* `MC_GraphBinaries_install.cfg` with `Worlds <- ByDefault` and `SameIds`: without `full_transitive_package_id`, which is
  off by default, indirect requirements count in an id if a neighbor had the same
  ids when its own id was computed (graph_binaries.py:370-375).  A package that
  was not known then does not count in this command, and does in the next one,
  which computes another id.
* `MC_GraphBinaries_compatibles.cfg`: a node that tries the id of a compatible
  configuration, which another node of the same recipe had and gave up for one
  compatible with that, takes the decision and the revision of the latter and
  then the id of the former (graph_binaries.py:152-170 and 220-229): the package
  "must exist" (installer.py:578) and does not.
* `MC_GraphBinaries_cascade.cfg`: with `--build=cascade`, what requires a package
  whose id is not known yet is not built, though that package is built in the end
  (graph_binaries.py:42-48); command.py:2369 says that it is.
* A recipe with two compatible configurations of one id, neither of which is
  found, ends in stage `failed`: the second finds its own node among those
  evaluated (graph_binaries.py:152-170), whose binary was just set to None.
  Without compatible packages this cannot be: `FailTwice` is not enabled under
  `DecisionInv`.
* The mode `revision` with a private requirement that is skipped, and so never
  gets a revision, leaves the id of what requires it unknown, and
  `assert node.package_id != PACKAGE_ID_UNKNOWN` of `reevaluate_node` fails;
  `InstalledAsDecided` exempts it (`Unsettled`).
* `MC_UploadPool_admins.cfg` (holds): two processes that change remotes, with
  the type invariant.
* `MC_UploadPool_known.cfg`: `conan remote add --force` with the URL of two
  remotes removes both and migrates the metadata of the last only
  (remote_registry.py:232-254).
* `MC_UploadPool_hooks.cfg`: a `post_upload` hook that raises in
  `upload_package_callback` (uploader.py:541-548) ends the thread of the pool
  that handles results, and `join` never returns.

Properties are stated with a condition where without it they do not hold:

* `UsedIsWhole` of `PackageFolder` speaks of what is used before a command was
  killed or failed.  After that, an install that found a package in the cache
  can use it although another install has removed it meanwhile and failed to
  download it again: `_handle_node_cache` does not look at the dirty mark.
* `UpdatesKept` of `MetadataFile` and the properties of `DownloadCache` hold
  when all threads are in one process or each has its own.  With two threads in
  a process and one in another, the first of the two to end releases the record
  lock for both, and the other process goes on at the same time as the second.
* `IdsAgree` holds with `full_transitive_package_id`.  `InstalledAsDecided` exempts
  a graph in which a package turns out to be invalid after the analysis, when it
  is not refused any more (`_build` looks for `MISSING` only, installer.py:457).
* The properties of `Upload` speak of one file at a time.  A file that a handler
  is replacing is missing or cut meanwhile (`BeingSaved`), for whoever lists,
  checks or downloads, and beside a manifest as well; and a reader whose check of
  the snapshot was right may list without it (`wiped`) and end well all the same:
  `_get_package` checks the first of its two lists only.  A
  file that was given up, or cut by a killed handler, stays so (`lost`) until it
  is sent again, which for a recipe with an equal manifest is never.
  A package is compared when its three files are there, be they cut or not.
* `AckedServed` of `ServerStore` exempts the files, not the folder and the entry
  in the index, of a revision that is being sent again, and after a kill at that.
  `PackagesHaveRecipe` speaks of acknowledged packages: a kill inside the removal
  of a recipe can leave the packages and not the recipe.
* The properties of `RecipeFolder` hold until a gap, `RemotesKnown` until a
  lapse, `ClosuresAgree` for nodes whose closure has one of each name, and
  `UploadEnds` unless a hook raised in the callback.

## 4. Bounds, and why they are enough

All bounds are CONSTANTS in the guard of the action they bound.

* **Processes, clients, threads.**  Two processes are needed for every
  interference found and three for the ones that need a reader, a writer and a
  remover (`CountLock`), or two threads of a process beside another process
  (`MetadataFile`).  The theorems remove these bounds.
* **`MaxUnlinks = 2`** (`lock_safety`): the lock files can be removed, made
  again and removed again; what a third inode adds is the same as the second.
  Processes go on for ever in this model, only removals are bounded.
* **`Files = 3`**: the compressed file, one in the middle, the manifest, which
  are the roles the code tells apart.
* **`MaxRuns = 2`, `MaxFaults = 2`, two handlers** (`uploads`): an upload of each
  client, or an upload and the one that repairs it; a request that was given up
  and the one that was sent again, which may save one file at the same time; a
  lost answer, a failure, a kill or a removal, and another one.
* **`MaxEntries = 2`** (`store_sequential`) and `3` (`store_ghost`): a list with
  a first, a last and, in the second, a doubled entry.  A request that would
  make the list longer is not sent.
* **`MaxCommands`** (of each process: two of two processes, or five of one),
  **`MaxStops = 2` or `3`** (`packages`): a package is installed, replaced by
  another revision, left half done, and found by the next command, which is
  stopped in turn.
* **`MaxCommands = 3`, `MaxStops = 2`** (`recipe_builds`): one command leaves a
  folder, the next is stopped or runs beside a third.
* **`MaxUpdates = 3`, `MaxKills = 1`** (`metadata_updates`): every thread can
  update once, or one of them three times.
* **`Chunks = 2`, `Retry = 1`, `MaxDownloads = 3`, `MaxKills = 1`, `MaxUpsets =
  1`** (`downloads`): a file with a first half that is resumed after, and one
  download that fails, one that finds what it left and one beside it.
* **Three names, versions 1 to 3, `MaxNodes = 12`** (`graphs`): enough for a
  diamond, a diamond with an override, a private copy and a loop closed late; no
  graph of these worlds has more than `MaxNodes` nodes, and about 112,000 states
  are all there are.  At most two build requirements are added.  In the world
  `methods` every recipe has one method that may set its own option or that of a
  dependency, always or to the value of its own: without either half of its
  exemption `OptionsAgree` fails there.
* **Three packages and a consumer, or two with two for a build** (`binaries`): a
  package that is built, one whose id depends on its revision, and one that
  depends on that; the same with one of them private, a package that is needed
  twice, and a build requirement in the configuration of its consumer or another.
  Nothing is bounded but the worlds: every behaviour ends.
* **`MaxCommands = 2`, `MaxKills = 1`, `MaxFailures = 1`** (`remote_uploads`):
  the upload and one change of the remotes beside it, with one thing that fails.
  One recipe has two packages and no remote, the other has no package: the two
  ways of `UploadRecipe`.

`StopsAt` of `PackageFolder` says where a command may be killed or fail.
`packages` leaves the removal out (that is what `MC_PackageFolder_removing`
shows), and for the process that is alone also the steps between the files of an
export-pkg and its metadata (see `MC_PackageFolder_exported`).  Two processes
only install: export-pkg, export and remove take no package lock, and interfere
with everything.

Symmetry is used for the processes in `lock_safety`, for the model values of
`recipe_builds` that are interchangeable, for the handlers of `uploads` and for
the revisions of `store_sequential`, none of which has a liveness property.
`store_sequential` also has a view: what an idle worker remembers of its last
request, the last answer, and that files were lost of a revision that is not
acknowledged, are read by no action and no property of that run.

Deadlock is not checked where the bounds end a behaviour, or where a process
that was killed keeps the others out of the lock for ever, which conan answers
with `conan remove --locks`.  In `lock_liveness` it is checked, and so it is in
the runs of `ServerStore`.

## 5. Fairness

* `CountLock!LiveSpec`: weak fairness of the steps of a process inside the lock
  operations and of leaving a section, since a process that is not killed runs
  on.  Strong fairness of `Acquire`: a refused process releases the file lock
  and sleeps (locks.py: `time.sleep`), so that the lock of the file is free
  again and again while others poll it.  Nothing makes a process begin.
  Readers may starve a writer, and so the properties are "someone enters" and
  "one that is alone enters", which is what the code provides.
* `MetadataFile!LiveSpec`: weak fairness of every thread in `update_metadata`;
  strong fairness of being granted a lock.  `fasteners` polls with a delay, and
  the lock of the file is released after each update; `threading.Lock` wakes a
  thread that waits.
* `DownloadCache!LiveSpec`: the same for the threads of a download and its two
  locks.  Retries are bounded by the code.
* `DepsGraph!Spec`: weak fairness of the builder, which is sequential.
* `UploadPool!Spec`: weak fairness of the command, of each thread and of the
  handler of results, none of which waits for anything but the others; a request
  is answered or fails.  Nothing makes a user change remotes.

## 6. What is proved

All by TLAPS, for every value of the constants that satisfies the assumptions
of the module, without bounds on processes, runs, failures or kills.

| Theorem | Says |
|---|---|
| `CountLockProofs!TypeCorrect` | type correctness |
| `CountLockProofs!WritersExclude`, `CountIsExact` | exclusion, and the exact count, until the files are removed under a process that uses them |
| `CountLockProofs!Implements` | with the files kept, and kills between any two steps, the lock implements `ReadersWriters` |
| `PackageFolderProofs!MetadataTypeCorrect`, `NothingLost` | a truncated file is never taken for metadata; no update is lost unless threads and processes mix |
| `PackageFolderProofs!TypeCorrect` | type correctness, under every command |
| `PackageFolderProofs!InstallsKeepWhole`, `InstallsKeepMetadata`, `InstallsBalanceMarks` | installs alone, stopped anywhere but in a removal, keep clean packages whole, their metadata right and their marks balanced |
| `PackageFolderProofs!InstallsUseWhole` | before one of them was stopped, what is used is whole |
| `PackageFolderProofs!AloneUsesAsDecided`, `AloneKeepsPackages` | under every command, a process that is alone uses what it decided on, and keeps packages whole, their metadata right and their marks balanced |
| `RecipeFolderProofs!TypeCorrect` | type correctness |
| `RecipeFolderProofs!SourcesOfTheRecipe`, `MetadataOfTheRecipe` | until a gap, clean sources, exported sources and the revision in the metadata are those of the recipe |
| `RecipeFolderProofs!PackagesAsClaimed`, `BuildFoldersAreWhole`, `BuildsBalanceMarks` | until a gap, packages are of the recipe they claim, clean build folders are whole, and marks are balanced |
| `UploadProofs!TypeCorrect`, `PackageUploads` | the upload of a package that reports success leaves each of its files on the server, or being replaced there, unless the server lost one meanwhile |
| `UploadProofs!InstallsAreWhole` | who could install a package got all its files, whoever uploads it and whatever fails meanwhile, unless one was unlinked between the check and the listing |
| `UploadProofs!ManifestLast`, `RecipeUploads` | beside a manifest, and after a recipe upload that reports success, every file is whole, being replaced, or lost: given up, cut by a kill or removed, and not sent since |
| `DownloadCacheProofs!TypeCorrect` | type correctness |
| `DownloadCacheProofs!WholeIsHanded`, `CleanFilesAreWhole`, `MarksAreBalanced` | with the threads in one process, or each in its own: what is handed out, and what is cached without a mark, is one whole version; marks are balanced |
| `UploadProofs!SuccessIsComplete` | an upload that reports no error has sent everything, and every hook was executed |
| `UploadProofs!PackagesAfterRecipes` | a package is sent after its recipe and to the same server |
| `UploadProofs!RemotesAreKnown` | when no command runs, what the metadata names is a remote, unless commands overlapped or were killed, or two remotes had one URL |
| `DepsGraphProofs!TypeCorrect` | type correctness, for every kind of requirement |
| `DepsGraphProofs!StaysOrdered` | without private and build requirements, the inductive invariant of the closures |
| `DepsGraphProofs!ClosuresAreInOrder` | under this condition closures, what is passed on and who has a node in its closure agree with the edges |
| `DepsGraphProofs!NothingLoops` | under this condition nothing depends on itself, and ancestors are complete |
| `DepsGraphProofs!StaysAgreed` | under this condition, the inductive invariant of versions and options |
| `DepsGraphProofs!RequiredVersions` | under this condition a node depends on the versions that it requires, in their ranges |
| `DepsGraphProofs!RequirementsPrevail` | under this condition what a node requires or overrides holds for all below it |
| `DepsGraphProofs!OptionsPrevail` | under this condition an option has the value that a node above gives it, unless that is the default, or a recipe from there on, its own included, sets it |
| `GraphBinariesProofs!TypeCorrect` | type correctness |
| `GraphBinariesProofs!BuildsHaveTheirRequirements` | what a build or the consumer needs is installed before and was not skipped |
| `GraphBinariesProofs!DecisionsAreDone` | without compatible packages, what was decided for each package is done, whatever turned out to be in the cache or on the server, and no assertion fails unless a package is unsettled |
| `GraphBinariesProofs!IdsOfTheNextCommand` | without compatible packages and with `full_transitive_package_id`, a package is installed under the id that the next command computes |
| `ServerStoreProofs!TypeCorrect` | type correctness, under any number of workers |
| `ServerStoreProofs!OneWorkerServes`, `OneWorkerKeepsRecipes` | with one worker, killed anywhere, acknowledged revisions are stored, listed and, but while or after a killed replacement, have their files; acknowledged packages have their recipe |
| `ServerStoreProofs!OneWorkerTidies` | with one worker that is not killed, and nothing left by the migration, no file stays of a recipe whose last revision was removed |

Assumptions: the set of processes of `CountLock` is finite, as the count is a
cardinality; recipes and packages of `UploadPool` are finite, as their numbers
are counted, and differ from each other; the names of remotes are finite, as
`remotes.json` is a list in which each is once; model values differ from the
data they stand beside; tables map the sets they should.  TLC evaluates all of them on the instances.

**CountLock.**  The exclusion is not inductive: it depends on what processes
have read and on which inode they have open.  `IInv` adds, as long as nothing
was disturbed: whoever polls or has the file lock has the present file open;
hence one process at a time has it; what that process has read is still in the
file; the role of a process follows from where it is; and the count is that of
the roles.  The count of readers is a cardinality, and so each step needs a
lemma on a set with one element more or less.  `Implements` maps `role` to the
abstract state: the grants are steps of `Read` and `Write`, by the same
invariant, the releases are steps of `Release`, everything else stutters.

**MetadataFile.**  `MetadataInv` adds to the property: a thread between the grant of
the lock in memory and its release is the owner of it; when each thread is a
process of its own, a thread between the grant and the release of the file is
in the process that owns it; and what a thread has loaded is what was saved.
At most one thread is then between load and save (`UpdatesAlone`).

**PackageFolder.**  `Typed` says which step belongs to which command.
`Exclusive` says that, when all commands are installs, the package lock is
owned by exactly the process that is at one of the steps inside it.  `Kept`
says what is true of the package when nobody is writing it (`Whole`) and at
each step of who is (`Of`); it is what the three properties have in common.
The condition on the removal is needed, see `MC_PackageFolder_removing.cfg`.
With one process the lock says nothing, and `AloneOf` takes its place: at each
step of whatever command runs, the package is dirty or its metadata agrees
(`Sound`), what is being made is what will be recorded (`Produced`), and the
decision still fits the folder (`Decided`).  `StopsAlone` excludes, beside the
removal, the step of an export-pkg between the mark and the metadata (see
`MC_PackageFolder_exported.cfg`).  Both theorems speak of states in which the
other processes have run nothing yet (`Fresh`), for any number of them.

**RecipeFolder.**  `Inv` is `Typed`, and `Good` as long as no step went through
a gap.  `Good` has the state of the folders when nobody changes them
(`Consistent`, `Unused`, `Whole` of each build folder, `Claimed` of each
package) and what each process knows at each of its steps (`Facts`: about the
recipe it `Changes`, the sources it `Uses` and the package it `Builds`).  The
difficult part is that `_PackageBuilder` releases the recipe lock between the
look at the build folder, the preparation of the sources, and the build: that
nobody changed the recipe in between follows from `~Overlap`, so each step of
one process must keep the facts of all the others (`KeepsFacts`), which is
where the two locks and the own build folders are used.  `SettledIsNotHalfWay`
connects the invariant with the condition of the properties.

**Upload.**  `Placed` relates the two sides of a request: a client that waits for
an answer is at the file that the handler saves (`Position`), who writes to a
file has created it, and a cut file is being written or was lost (`Opened`).
Then a few lemmas say what one step does to a file: one that is there or being
saved stays so, or is lost (`StoredOrSaved`, `SettledStays`).  A handler whose
file is unlinked under it has an heir: the handler that unlinked it is saving the
same file (`UnlinkSaves`).

`ManifestLast` and `RecipeUploads` need `Ordered`: whatever is on the server, or
on its way in a handler, every file before it is `Settled` (whole, being saved,
or lost).  That covers requests whose client has stopped waiting and has sent the
next files already.  The step that counts is a file that is given up: it is
`lost` unless it is whole, and so the files after it are in order, but not
complete (see `MC_Upload_again.cfg`).

`PackageUploads` needs `Accounted`, about a client that met no loss: each file it
has passed is present, or it knows that it missed it, and then it does not report
success; a package that is compared was found complete.  `InstallsAreWhole` needs
`Listed`: from its check to its listing the reader may rely on the snapshot,
unless a file was unlinked between (`wiped`); and what is on its list it must get
or fail.

**DownloadCache.**  `OwnsMutex` and `OwnsFile` say that a thread between the
two locks and their release owns them, the second only when threads and
processes do not mix; so one thread is inside.  `Kept` says what is in the file
at each of its steps: a prefix of one version up to `downloaded_size`, under a
mark.  That the number of bytes on the disk is defined at all (`SizeExists`)
takes the least number of a set, by well-founded induction.

**UploadPool.**  `Places`: an item is in the queue, with a thread or among the
results, and in one of them only.  `Counts`: what a job still waits for is the
number of its items there, a cardinality.  `Order`: the packages of a recipe are
not in the pool while the recipe waits.  `Phases`: the command is done when all
jobs are closed, and a dead handler leaves one open.  `Well`: while nothing has
failed, or what failed is not forgotten (`Trouble`), a recipe that does not wait
was sent and its packages are on the way.  `Follows` carries the remote of a
recipe to the tasks of its packages.  At the end nothing is pending, nothing is
in trouble, and so everything was sent.

**Remotes.**  `NamesInv` holds until a lapse.  A name in the metadata is not one
that a command renames or drops and has passed already (`Unmoved`), and it is
`Expected`: in the registry, or in the file a command is about to save, or among
the references that a command has yet to change.  The lemmas about the registry
(`WithoutNames`, `AddedNames`, `RanksDiffer`) say that adding, removing and
moving remotes keeps each name once.  The invariant was not inductive for an
earlier version of the model, in which two commands overlapped only when one
touched the name of the recipe that the other rewrote: the names of its packages
count as well, and so do commands that save the registry last.  TLC found the
behaviour, of two processes and three commands.

**DepsGraph.**  `Typed` is inductive for every world: what a dictionary of a node
holds for a key is a node of that key.

The closures are proved for every world that is `Ordinary`: any recipes, ranges,
overrides, options, diamonds and recursion, but no private and no build
requirement.  With a private one `ClosuresAgree` fails in the middle of the
resolution, and the settled graph agrees only for the nodes with one of each name
(`MC_DepsGraph_clash.cfg`), which is not inductive.  The argument has three parts.

`Structure` speaks of sets alone (`View` of the nodes, `Calls` of the stack).  A
call of `_expand_node` is open when it is the first for its node; the open calls
are a path from the consumer, and the calls that expand a node again are above
them.  A node with an open call sees all nodes there are, it is in the closure of
just the nodes of the calls below (`OpenInOrder`), and what it has in its closure
but does not pass on yet is what the next open call has.  Every other node passes
on its whole closure.  A closure is the least set that has the node and follows
the edges (`EdgesInOrder`).  So a new node must be connected with the open calls
only, which are the inverse closure of the node that requires it, and a diamond
must join all that the other node has, with all that have this one.

`Complete` says that a node without an open call has an edge for everything that
its recipe requires, and that one with a call has what is no longer in `todo`.
A node that is expanded again therefore finds each of its requirements, makes no
node and no loop, and changes no set (`JoinsAgain`): that is why expanding again
is harmless to the closures.

`Agreed` is about versions and options, and uses the closures.  A node without a
call has the versions that it requires, and gives no other version or option to
anything below (`NodeHolds`).  A call that expands a node holds the requirements
of the node as overridden from above, and what it would pass on `Fits` all that
the node has already, but for what the next call is making (`Expands`).  A call
on top was given at least what the call below passes on (`PassesDown`), so when
it returns its node, which fits what it was given, fits the call below as well.
The step that counts is a diamond.  The node that is there was made for another
call, and all that it has must fit this one.  Either nothing in its
`public_closure` has another version (`OtherVersion`) or another option
(`OtherOption`) than those passed on, and this dictionary is the whole closure,
by the first two parts; or it is expanded again, with what is passed on.

What the methods of recipes assign comes on top.  A node fits the options it is
given unless its own recipe sets that option (`SetsOwn` in `OptionFits`); a call
passes a given option on unless the recipe of its node sets it (`PassesDown`); so
a dependency y below an edge to p is exempt when some node in the closure of p
that has y sets the option (`Overruled`).  This must not be lost when a
closure grows, which `OverruledStays` shows.  A node whose
method sets an option to the value of its own may give another value when it is
expanded again: nothing is claimed then of what it has for a requirement that is
still in `todo` (`ToExpand`), and each of these is a diamond that looks at the
new value.

**GraphBinaries.**  For every graph that the assumptions on `Worlds` allow, every
build mode, and every content of the cache and the server.  `StructureInv` says
where the analysis is: the stack of calls is in the order of the nodes they were
made for, what is open in an inner call is not yet known to an outer one, the
nodes that a node requires are in the graph with it, and walks go from the leaves
up (`Ordered`).  `Reached`, `Level` and what is below a node are defined as least
sets and not by recursion, which is what makes them provable about.

`BuildsHaveTheirRequirements` needs `SkipInv`: a node that is not skipped, and is
not one of those that may leave their private requirements out, has no
requirement that is skipped (`NeededKept`).  The step that counts is
`MarkPrivateSkippable` of an inner call, which sees a part of the graph and must
not skip what another part needs: `RootsApart` says that the parts have in common
only what is public for both.

`ExactInv` says of a node that was installed: what it was told of its requirements
is the id and the revision that each of them has now, directly or not.  That
follows as no requirement changes once it is done, which is the order of the walk.

`DecisionInv` is about the nodes that share a package: what was decided for the
first is the decision of them all (`Shared`), and the revision of each is the one
in the cache, on the server, or made by the build, as the decision says
(`Revisions`), and after the package was processed for one of them the one that
was (`Processed`).  A package that may be built is missing only until that is
concluded, and nobody inherits it before (`MissingAlone`).  It is false with compatible
packages, see `MC_GraphBinaries_compatibles.cfg`, and so `NoneCompatible` is a
condition of the theorem.  `BrokenInv` and `DoneInv` are the two halves of
`InstalledAsDecided`.

`IdInv` relates the id of a node to those below it.  What it was told of one of
them is its id and its revision, or that they were not known yet (`InformedBy`),
and an id that is known is the one computed from what the nodes it counts have
now (`IdIs`).  A step changes an id or a revision only when it was not known
(`Learns`, by `DecisionInv`: a node of a package that was processed already has
the revision of the first), and what it tells a node is all that is known
(`Told`).  `AtNextCommand` is defined by an equation,
and `NextCommand` shows that what the nodes were told solves it, by `ExactInv`,
and that nothing else does, as the graph has no loops.

**ServerStore.**  `Serves` says of each acknowledged revision that it is `Listed`
(its folder, its entry) and `Filed` (its files, or they are being replaced, or
were when the worker was killed), that nothing acknowledged is being deleted,
which is what makes a kill anywhere in a removal harmless, and what the worker
knows in the middle of a request: the list it is about to write holds whatever is
acknowledged, and a revision it is about to list has its folder and its files.
`Owned`: a package that is being uploaded has its recipe.  It needs the lemmas on
`AddRevision` and `RemoveRevision` as functions of the set of entries.  It is
false with two workers, see `MC_ServerStore_lost.cfg`.

`OneWorkerTidies` adds `Emptying`: the recipe has revisions just when it has an
index, and an index just when it has a lock file (`Settled`, `Locked`), but at
the steps of the worker that is updating or deleting them (`Updating`); and what
there is under a revision has its revision, or is being deleted with it
(`Placed`, `Removing`).  A worker that is killed leaves files behind, and a
revision without an index, as of the migration, leaves the lock file when it is
removed: both are excluded.

### Only model-checked

* Liveness under fairness (`SomeoneEnters`, `EntersWhenAlone`, `UpdateEnds`,
  `DownloadEnds`, `UploadEnds`, `ResolutionEnds`): out of the prover's reach, as is ENABLED.
* The properties of `DepsGraph` for graphs with private and build requirements,
  of those that `graphs` has.
* `IdsAgree` and `InstalledAsDecided` of `GraphBinaries` for the graphs with
  compatible packages that `binaries` has, of which each reference has one node.
  They do not hold for all such graphs.
* Safety under the conditions that the other theorems exclude is not claimed by
  any run either: several processes with other commands than installs
  (`PackageFolder`), several workers (`ServerStore`), a gap (`RecipeFolder`).

## 7. What is not modelled

* Of the graph: aliases, lockfiles, user and channel, revisions, settings,
  patterns of options, options that config_options() removes, requirements that
  depend on an option, python_requires.
* Of the server: a kill inside the write of one file of a revision is a file that
  is cut (`Upload`) or files that are missing (`ServerStore`); what bottle and
  WSGI do to a request is not modelled.
* Of the binaries: lockfiles, several remotes, what two processes do to one
  package (that is in `PackageFolder`), patterns, python_requires, and compatible packages
  of recipes whose `package_id()` narrows requirements.
* Of the remotes: `verify_ssl` other than as a choice, disabled remotes, the
  reset and the migration of the file.
* Of uploads: collection by pattern, compression, `SKIP_UPLOAD`.  Of the recipe
  folder: scm, `--keep-source`, `--keep-build`, editable packages.
* Settings and the order of versions (numbers here): values computed in one
  process.
* Search, the reads of the server, generators, build helpers, tools, profile
  and configuration parsing, command line, reports: they read, print or call
  the system, and keep no state that others see.  They are most of the source:
  generators and tools write text and run compilers, of which nothing is left
  for a model when the text is abstracted.
* Authentication and lockfiles: stateful, and in the plan.
* The order in which an operating system makes writes durable: a kill ends a
  process, never the machine.

## 8. Plan

Order of the work, most important behaviour first.  Items 1 to 10 are done.

1. `ReadersWriters`, `CountLock`: locks of the cache; abstract specification,
   refinement, liveness; proofs.
2. `Upload`: uploads and failures; proof for packages.
3. `RevisionList`, `ServerStore`: the server; proof for one worker.
4. `PackageFolder`: packages in the cache; proofs for installs.
5. `MetadataFile`: metadata under threads and processes; proofs.
6. `DownloadCache`: dirty mark, locks, kills, retries, resumed downloads; proofs.
7. `RecipeFolder`: recipes, sources and builds under the recipe lock, which it
   takes from `ReadersWriters`.
8. `DepsGraph`: the builder of the graph; proofs for its closures, versions and
   options.
9. `Remotes`, `UploadPool`: remotes, and an upload of many beside their changes;
   proofs for the upload.
10. `GraphBinaries`: the decision of each node from its package id, the cache,
    the server and the build mode, and the installation of the graph; proofs.
11. `GraphLock`: the life of a node of a lockfile (relaxed, locked, modified)
    over `lock create`, `install` and `build-order`.
12. `Authentication`: the retry of a call after asking for credentials, tokens
    that expire, and the database of credentials shared by processes.

Proofs to come: an invariant for two workers under which `AckedServed` holds (3);
the refinement of an abstract map with atomic updates by `MetadataFile` (5); of
the graph what needs no closure: that a node's `inverse` is the converse of the
closures, and that a package is decided once (8, 10).

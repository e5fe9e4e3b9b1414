------------------------------- MODULE Upload -------------------------------
(***************************************************************************)
(* Uploading the files of one revision, of a recipe or of a package, from  *)
(* several clients to one server (client/cmd/uploader.py,                  *)
(* client/rest/rest_client_v2.py and file_uploader.py, and the server's    *)
(* upload_*_file), and installing a package from it meanwhile              *)
(* (client/remote_manager.py).                                             *)
(*                                                                         *)
(* A client looks at what the server has, decides, and then sends its      *)
(* files one request at a time in the order of their names; every one of   *)
(* these requests can interleave with those of the others.  The order puts *)
(* the compressed file first and conanmanifest.txt last: the files are     *)
(* numbered 1..Files in it.                                                *)
(*                                                                         *)
(* A file is known by the local revision it comes from, a number that also *)
(* stands for its date (the time in conanmanifest.txt).  With revisions    *)
(* enabled every client that uploads a revision has the same content;      *)
(* without, all of them share revision "0" and may differ.                 *)
(*                                                                         *)
(* A handler of the server that has received a file unlinks what is in its *)
(* place, creates it anew and fills it, each in a step of its own; it goes *)
(* on although its client waits no longer.  Policy SKIP sends nothing and  *)
(* is left out.                                                            *)
(***************************************************************************)
EXTENDS Integers, FiniteSets

CONSTANTS
  Client,            \* the clients that upload
  Handler,           \* the requests to save a file the server can have open at once
  Files,             \* how many files a revision has
  Setups,            \* what may be uploaded, by whom, under which policy
  Absent,            \* what the server has in place of a file it has not
  Garbled,           \* what a client reads of a manifest that is cut
  Reader,            \* the client that installs the package
  MaxRuns,           \* bound: how often the clients run conan upload
  MaxFaults          \* bound: how many answers are lost, files given up, removals, handlers killed

Policies == {"none", "force", "no-overwrite"}
FileNames == 1..Files
Manifest == Files

ASSUME FilesAssumption == Files \in Nat \ {0}
ASSUME SetupsAssumption ==
  Setups \subseteq [package : BOOLEAN, local : [Client -> Nat], policy : [Client -> Policies]]
ASSUME AbsentAssumption == Absent \notin Nat /\ Garbled \notin Nat \cup {Absent}
ASSUME ReaderAssumption == Reader \notin Client
ASSUME BoundsAssumption ==
  MaxRuns \in Nat /\ MaxFaults \in Nat

\* A request that is handled; a handler that handles none.
Requests == [client : Client, file : FileNames, step : {"received", "clear", "open", "gone"}]
Free == [step |-> "free"]

ASSUME HandlerAssumption == Free \notin Handler

VARIABLES
  stored,         \* the content of each file on the server
  cut,            \* the files that are being written, or were when a handler was killed
  handling,       \* what each handler does
  lost,           \* given up, killed or removed, and not saved since
  pc,             \* where each upload is
  manifest,       \* the remote manifest each client has seen
  next,           \* the file each client sends next
  missed,         \* the files each client could not send: "failed" in the code
  asked,          \* the handler whose answer each client waits for
  runs,           \* how often the clients have run
  faults,         \* how many answers were lost, files given up, removals, handlers killed
  wiped,          \* whose work met a loss of files on the server
  rpc,            \* where the reader is
  wanted,         \* the files the reader still has to download
  got,            \* what the reader has downloaded
  setup           \* one of Setups, from the start

server == <<stored, cut, handling, lost>>
client == <<pc, manifest, next, missed, asked, runs>>
reader == <<rpc, wanted, got>>
revisionVars == <<server, client, faults, wiped, reader, setup>>

Package == setup.package  \* TRUE: a package revision; FALSE: a recipe revision
Local == setup.local      \* what each client has to upload
Policy == setup.policy    \* the upload policy of each client

Content == Nat \cup {Absent}
Resting == {"idle", "done", "failed", "refused"}

TypeOK ==
  /\ stored \in [FileNames -> Content]
  /\ cut \in SUBSET FileNames /\ lost \in SUBSET FileNames
  /\ handling \in [Handler -> Requests \cup {Free}]
  /\ pc \in [Client -> Resting \cup {"manifest", "snapshot", "compare", "sending"}]
  /\ manifest \in [Client -> Content \cup {Garbled}]
  /\ next \in [Client -> 1..Files + 1]
  /\ missed \in [Client -> SUBSET FileNames]
  /\ asked \in [Client -> Handler \cup {Free}]
  /\ runs \in 0..MaxRuns
  /\ faults \in 0..MaxFaults
  /\ wiped \in SUBSET (Client \cup {Reader})
  /\ rpc \in {"idle", "checked", "downloading", "done", "failed"}
  /\ wanted \in SUBSET FileNames
  /\ got \in SUBSET FileNames
  /\ setup \in Setups

Nothing == [f \in FileNames |-> Absent]

RevisionInit ==
  /\ stored = Nothing /\ cut = {} /\ lost = {}
  /\ handling = [h \in Handler |-> Free]
  /\ pc = [c \in Client |-> "idle"]
  /\ manifest = [c \in Client |-> Absent]
  /\ next = [c \in Client |-> 1]
  /\ missed = [c \in Client |-> {}]
  /\ asked = [c \in Client |-> Free]
  /\ runs = 0
  /\ faults = 0 /\ wiped = {}
  /\ rpc = "idle" /\ wanted = {} /\ got = {}
  /\ setup \in Setups

Snapshot == {f \in FileNames : stored[f] # Absent}

\* is_package_snapshot_complete: conaninfo, conanmanifest and conan_package.
\* With every file of a recipe required, also what a complete recipe would be.
Complete == Snapshot = FileNames

-----------------------------------------------------------------------------
(* Deciding what to upload: _PackagePreparator.                            *)

Go(c, to) == pc' = [pc EXCEPT ![c] = to]

\* conan upload, for the first time or again.
Start(c) ==
  /\ pc[c] \in Resting /\ runs < MaxRuns
  /\ Go(c, IF Package \/ Policy[c] = "force" THEN "snapshot" ELSE "manifest")
  /\ manifest' = [manifest EXCEPT ![c] = Absent]
  /\ next' = [next EXCEPT ![c] = 1]
  /\ missed' = [missed EXCEPT ![c] = {}]
  /\ runs' = runs + 1
  /\ wiped' = wiped \ {c}
  /\ UNCHANGED <<server, asked, faults, reader>>

\* _check_recipe_date: a remote recipe newer than the local one is left alone.
\* A cut manifest may not parse, or its date be cut too.
CheckRecipeDate(c) ==
  LET remote == stored[Manifest]
      newer == remote # Absent /\ remote > Local[c]
  IN  /\ pc[c] = "manifest"
      /\ manifest' = [manifest EXCEPT ![c] = IF Manifest \in cut THEN Garbled ELSE remote]
      /\ \/ Go(c, IF newer THEN "refused" ELSE "snapshot")
         \/ Manifest \in cut /\ \E to \in {"failed", "snapshot"} : Go(c, to)
      /\ UNCHANGED <<server, next, missed, asked, runs, faults, wiped, reader>>

\* Equal manifests: nothing to upload.  Different ones: the policy decides.
CompareTo(c, remote) ==
  IF remote = Local[c] THEN "done"
  ELSE IF Policy[c] = "no-overwrite" THEN "refused" ELSE "sending"

\* Mutant: a package that has some files is compared by its manifest.
SnapshotTo_AnyPackage(c) ==
  IF Snapshot = {} \/ Policy[c] = "force" THEN "sending"
  ELSE IF Package THEN "compare"
  ELSE IF manifest[c] = Absent THEN "compare" ELSE CompareTo(c, manifest[c])

\* Mutant: a recipe that has some files is taken for uploaded.
SnapshotTo_AnyRecipe(c) ==
  IF Snapshot = {} \/ Policy[c] = "force" THEN "sending"
  ELSE IF Package THEN IF Complete THEN "compare" ELSE "sending" ELSE "done"

\* _recipe_files_to_upload, _package_files_to_upload: the remote files.
SnapshotTo(c) ==
  IF Snapshot = {} \/ Policy[c] = "force" THEN "sending"
  ELSE IF Package THEN IF Complete THEN "compare" ELSE "sending"
  ELSE IF manifest[c] = Absent THEN "compare" ELSE CompareTo(c, manifest[c])

GetSnapshot(c) ==
  /\ pc[c] = "snapshot"
  /\ Go(c, SnapshotTo(c))
  /\ UNCHANGED <<server, manifest, next, missed, asked, runs, faults, wiped, reader>>

\* Fetch the remote manifest (a recipe: for the second time) and compare.  It
\* can be gone: a recipe is then uploaded, for a package that is an error.
Compare(c) ==
  LET remote == IF Manifest \in cut THEN Garbled ELSE stored[Manifest]
  IN  /\ pc[c] = "compare"
      /\ manifest' = [manifest EXCEPT ![c] = remote]
      /\ \/ Go(c, IF remote # Absent THEN CompareTo(c, remote)
                  ELSE IF Package THEN "failed" ELSE "sending")
         \/ remote = Garbled /\ Go(c, "failed")
      /\ UNCHANGED <<server, next, missed, asked, runs, faults, wiped, reader>>

-----------------------------------------------------------------------------
(* Sending the files: _upload_files, FileUploader.upload with its retries. *)

\* A file fails after all its retries: note it and go on with the next one.
\* After the last one the upload has succeeded if no file failed.
FileSent(c, failed) ==
  LET unsent == IF failed THEN missed[c] \cup {next[c]} ELSE missed[c]
  IN  /\ missed' = [missed EXCEPT ![c] = unsent]
      /\ next' = [next EXCEPT ![c] = @ + 1]
      /\ Go(c, IF next[c] < Files THEN "sending"
               ELSE IF unsent = {} THEN "done" ELSE "failed")

Handles(h) == handling[h] # Free
BeingSaved(f) == \E h \in Handler : Handles(h) /\ handling[h].file = f /\ handling[h].step # "gone"
Saved(f) == stored[f] # Absent /\ f \notin cut

\* The server has received file f of client c.
Receive(c, h, f) ==
  /\ pc[c] = "sending" /\ asked[c] = Free /\ ~Handles(h)
  /\ asked' = [asked EXCEPT ![c] = h]
  /\ handling' = [handling EXCEPT ![h] = [client |-> c, file |-> f, step |-> "received"]]
  /\ UNCHANGED <<stored, cut, lost, pc, manifest, next, missed, runs, faults, wiped, reader>>

\* Mutant: the files are sent in the reverse order, as they are downloaded.
Request_Reversed(c, h) == Receive(c, h, Files + 1 - next[c])

Request(c, h) == Receive(c, h, next[c])

\* A timeout, a broken connection: the client may send the file again.
AnswerLost(c) ==
  /\ asked[c] # Free /\ faults < MaxFaults
  /\ faults' = faults + 1
  /\ asked' = [asked EXCEPT ![c] = Free]
  /\ UNCHANGED <<server, pc, manifest, next, missed, runs, wiped, reader>>

\* Every attempt has failed.
GiveUp(c) ==
  /\ pc[c] = "sending" /\ asked[c] = Free /\ faults < MaxFaults
  /\ faults' = faults + 1
  /\ lost' = IF Saved(next[c]) THEN lost ELSE lost \cup {next[c]}
  /\ FileSent(c, TRUE)
  /\ UNCHANGED <<stored, cut, handling, manifest, asked, runs, wiped, reader>>

\* An authentication or permission error ends the upload, so does killing it.
Abort(c) ==
  /\ pc[c] \notin Resting
  /\ Go(c, "failed")
  /\ asked' = [asked EXCEPT ![c] = Free]
  /\ UNCHANGED <<server, manifest, next, missed, runs, faults, wiped, reader>>

-----------------------------------------------------------------------------
(* Saving a file: _upload_to_path, and removing files.                     *)

AtWork == {c \in Client : pc[c] # "idle"}
Between == IF rpc = "checked" THEN {Reader} ELSE {}

\* Who writes to a file that is unlinked writes to nothing.
Detached(h, files) ==
  IF Handles(h) /\ handling[h].file \in files /\ handling[h].step = "open"
  THEN [handling[h] EXCEPT !.step = "gone"] ELSE handling[h]

\* The client hears of the end of its request.
Heard(h) == [asked EXCEPT ![handling[h].client] = IF @ = h THEN Free ELSE @]

\* The old file goes first.
Unlink(h) ==
  LET f == handling[h].file
  IN  /\ handling[h].step = "received"
      /\ stored' = [stored EXCEPT ![f] = Absent]
      /\ cut' = cut \ {f}
      /\ handling' = [i \in Handler |->
           IF i = h THEN [handling[h] EXCEPT !.step = "clear"] ELSE Detached(i, {f})]
      /\ wiped' = IF stored[f] # Absent THEN wiped \cup Between ELSE wiped
      /\ UNCHANGED <<lost, client, faults, reader>>

\* FileUpload.save creates the new file, ...
Create(h) ==
  LET f == handling[h].file
      c == handling[h].client
  IN  /\ handling[h].step = "clear" /\ stored[f] = Absent
      /\ stored' = [stored EXCEPT ![f] = Local[c]]
      /\ cut' = cut \cup {f}
      /\ handling' = [handling EXCEPT ![h].step = "open"]
      /\ UNCHANGED <<lost, client, faults, wiped, reader>>

\* ... but never over one that another request has created meanwhile, ...
FileExists(h) ==
  /\ handling[h].step = "clear" /\ stored[handling[h].file] # Absent
  /\ handling' = [handling EXCEPT ![h] = Free]
  /\ asked' = Heard(h)
  /\ UNCHANGED <<stored, cut, lost, pc, manifest, next, missed, runs, faults, wiped, reader>>

\* ... and fills it.
CloseFile(h) ==
  LET f == handling[h].file
      c == handling[h].client
  IN  /\ handling[h].step \in {"open", "gone"}
      /\ cut' = IF handling[h].step = "open" THEN cut \ {f} ELSE cut
      /\ lost' = IF handling[h].step = "open" THEN lost \ {f} ELSE lost
      /\ handling' = [handling EXCEPT ![h] = Free]
      /\ asked' = Heard(h)
      /\ IF asked[c] = h THEN FileSent(c, FALSE) ELSE UNCHANGED <<pc, next, missed>>
      /\ UNCHANGED <<stored, manifest, runs, faults, wiped, reader>>

\* The handler fails, or is killed, wherever it is.
KillHandler(h) ==
  LET f == handling[h].file
      c == handling[h].client
      gone == handling[h].step = "gone"
  IN  /\ Handles(h) /\ faults < MaxFaults
      /\ faults' = faults + 1
      /\ handling' = [handling EXCEPT ![h] = Free]
      /\ asked' = Heard(h)
      /\ lost' = IF gone \/ Saved(f) THEN lost ELSE lost \cup {f}
      /\ wiped' = IF gone \/ stored[f] # Absent THEN wiped
                  ELSE wiped \cup (AtWork \ (IF asked[c] = h THEN {c} ELSE {}))
      /\ UNCHANGED <<stored, cut, pc, manifest, next, missed, runs, reader>>

\* conan remove -r deletes the files of the folder in any order, while others
\* work; killed meanwhile, the server keeps the rest.
RemoveFiles(files) ==
  /\ faults < MaxFaults
  /\ faults' = faults + 1
  /\ stored' = [f \in FileNames |-> IF f \in files THEN Absent ELSE stored[f]]
  /\ cut' = cut \ files
  /\ lost' = lost \cup files
  /\ handling' = [h \in Handler |-> Detached(h, files)]
  /\ wiped' = wiped \cup AtWork \cup Between
  /\ UNCHANGED <<client, reader>>

-----------------------------------------------------------------------------
(* Installing: RemoteManager._get_package.                                 *)

\* Mutant: any file will do.
CheckComplete_Any ==
  /\ Package /\ rpc = "idle"
  /\ rpc' = IF Snapshot # {} THEN "checked" ELSE "failed"
  /\ UNCHANGED <<server, client, faults, wiped, wanted, got>>

\* The snapshot must be complete, ...
CheckComplete ==
  /\ Package /\ rpc = "idle"
  /\ rpc' = IF Complete THEN "checked" ELSE "failed"
  /\ UNCHANGED <<server, client, faults, wiped, wanted, got>>

\* ... then get_package asks for the list of files once more, ...
ListFiles ==
  /\ rpc = "checked"
  /\ rpc' = IF Snapshot = {} THEN "failed" ELSE "downloading"
  /\ wanted' = Snapshot
  /\ UNCHANGED <<server, client, faults, wiped, got>>

\* ... and downloads them from the last name to the first.
Download ==
  \E f \in wanted :
    /\ rpc = "downloading" /\ \A g \in wanted : g <= f
    /\ wanted' = wanted \ {f}
    /\ got' = IF stored[f] = Absent THEN got ELSE got \cup {f}
    /\ rpc' = IF stored[f] = Absent THEN "failed"
              ELSE IF wanted = {f} THEN "done" ELSE "downloading"
    /\ UNCHANGED <<server, client, faults, wiped>>

-----------------------------------------------------------------------------
Step ==
  \/ \E c \in Client :
       \/ Start(c) \/ CheckRecipeDate(c) \/ GetSnapshot(c) \/ Compare(c)
       \/ AnswerLost(c) \/ GiveUp(c) \/ Abort(c) \/ \E h \in Handler : Request(c, h)
  \/ \E h \in Handler : Unlink(h) \/ Create(h) \/ FileExists(h) \/ CloseFile(h) \/ KillHandler(h)
  \/ \E files \in SUBSET Snapshot \ {{}} : RemoveFiles(files)
  \/ CheckComplete \/ ListFiles \/ Download

RevisionNext == Step /\ UNCHANGED setup

RevisionSpec == RevisionInit /\ [][RevisionNext]_revisionVars

-----------------------------------------------------------------------------
(* Properties.                                                             *)

\* A file is there whole, or a request that replaces it is under way, or every
\* request for it failed, its handler was killed or it was removed since.
Settled(f) == Saved(f) \/ BeingSaved(f) \/ f \in lost

\* A package upload that ends well, sending the files or finding them there,
\* leaves the server with all of them, each but while a request replaces it,
\* unless the server lost some meanwhile: whatever fails ("Execute upload again
\* to retry upload the failed files"), the next upload looks at the files.
PackagesComplete ==
  \A c \in Client \ wiped : Package /\ pc[c] = "done" =>
    \A f \in FileNames : stored[f] # Absent \/ BeingSaved(f)

\* So does the upload of a recipe, but for the files that were lost before or
\* since: the next upload looks at the manifest alone (see the README).
RecipesComplete ==
  \A c \in Client : ~Package /\ pc[c] = "done" => \A f \in FileNames : Settled(f)

\* conan_package.tgz and conan_export.tgz go first "to avoid uploading
\* conaninfo.txt or conanamanifest.txt with missing files due to a network
\* failure" (_upload_files): beside a manifest on the server no file is missing
\* or cut, but one that a request is replacing, even where clients race, answers
\* get lost and requests are sent again; or one that was itself given up, cut by
\* a killed server or removed, and not sent since.
ManifestMeansComplete ==
  stored[Manifest] # Absent => \A f \in FileNames : Settled(f)

\* The same of whatever success, with no file lost: MC_Upload_again shows that a
\* client does not get it from running again.
SuccessMeansAll ==
  \A c \in Client \ wiped : pc[c] = "done" => \A f \in FileNames : stored[f] # Absent \/ BeingSaved(f)

\* "This must happen always, but just in case": a package that was installed has
\* all its files, unless one of them was replaced or removed just between the
\* check of the snapshot and the listing of what to download.
InstallMeansComplete ==
  rpc = "done" /\ Reader \notin wiped => got = FileNames

\* --no-overwrite: "Uploads package only if recipe is the same as the remote
\* one".  No upload under that policy replaces a file by a different one.
NoOverwrite ==
  [][\A h \in Handler : Unlink(h) =>
       LET f == handling[h].file
           c == handling[h].client
       IN  stored[f] \in {Absent, Local[c]} \/ Policy[c] # "no-overwrite"]_revisionVars
=============================================================================

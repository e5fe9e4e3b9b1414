---------------------------- MODULE DownloadCache ----------------------------
(***************************************************************************)
(* One file of the download cache, asked for by the threads of several     *)
(* conan processes (client/downloaders/cached_file_downloader.py), and the *)
(* download that fills it (file_downloader.py).                            *)
(*                                                                         *)
(* The work is done under two locks, as in MetadataFile: that of a file,   *)
(* which belongs to the process, and inside of it one in memory.  A dirty  *)
(* mark beside the file tells a download that did not end.                 *)
(*                                                                         *)
(* A file is what each of its chunks was taken from: a version of the      *)
(* file on the server, or Hole where nothing was written.  "opened" is     *)
(* whether the name still is that of the file a thread writes to.          *)
(*                                                                         *)
(* A user's download has the checksum of version 1, and its URL may serve  *)
(* another version later.  The URLs of the server have no checksum and     *)
(* are immutable.  A download into memory fills no file and is left out.   *)
(***************************************************************************)
EXTENDS Integers

CONSTANTS
  Thread, Process, Placements, Nobody,  \* as in MetadataFile
  Chunks,        \* the length of the file
  None,          \* no file
  Retry,         \* how often a download is tried again
  Gzip,          \* whether answers may be compressed, of unknown length
  MaxDownloads,  \* bound: how many downloads are started
  MaxKills,      \* bound: how often a process is killed
  MaxUpsets      \* bound: how often the server, or the disk, changes the file

Version == 1..2
Hole == 0
Place == 1..Chunks
File == [Place -> Version \cup {Hole}]

ASSUME PlacementsAssumption == Placements \subseteq [Thread -> Process]
ASSUME NobodyAssumption == Nobody \notin Process /\ Nobody \notin Thread
ASSUME ChunksAssumption == Chunks \in Nat \ {0}
ASSUME NoneAssumption == None \notin File
ASSUME GzipAssumption == Gzip \in BOOLEAN
ASSUME BoundsAssumption ==
  Retry \in Nat /\ MaxDownloads \in Nat /\ MaxKills \in Nat /\ MaxUpsets \in Nat

VARIABLES
  cached,    \* the file in the cache
  dirty,     \* whether its dirty mark exists
  owner,     \* the process that owns the lock of the file
  mutex,     \* the thread that owns the lock in memory of each process
  published, \* the version the URL serves
  pc,        \* where each thread is
  opened,    \* whether the file it writes to still has its name
  start,     \* where the answer it reads starts: range_start
  size,      \* how much of the file it has: downloaded_size
  version,   \* the version the answer is taken from
  tries,     \* how often it has tried again
  handed,    \* what it handed out
  downloads, kills, upsets, corrupted,
  processOf, \* the process each thread runs in, from the start
  checked    \* whether a checksum is given, from the start

locks == <<owner, mutex>>
transfer == <<opened, start, size, version, tries>>
bounds == <<downloads, kills, upsets, corrupted>>
settled == <<processOf, checked>>
vars == <<cached, dirty, locks, published, pc, transfer, handed, bounds, settled>>

Inside == {"check", "clean", "look", "mark", "request", "body", "resume", "verify",
           "error", "undirty", "copy", "unlock"}

TypeOK ==
  /\ cached \in File \cup {None}
  /\ dirty \in BOOLEAN
  /\ owner \in Process \cup {Nobody}
  /\ mutex \in [Process -> Thread \cup {Nobody}]
  /\ published \in Version
  /\ pc \in [Thread -> {"idle", "file", "thread", "release"} \cup Inside]
  /\ opened \in [Thread -> BOOLEAN]
  /\ start \in [Thread -> 0..Chunks]
  /\ size \in [Thread -> 0..Chunks]
  /\ version \in [Thread -> Version]
  /\ tries \in [Thread -> 0..Retry]
  /\ handed \in [Thread -> File \cup {None}]
  /\ downloads \in 0..MaxDownloads
  /\ kills \in 0..MaxKills
  /\ upsets \in 0..MaxUpsets
  /\ corrupted \in BOOLEAN
  /\ processOf \in Placements
  /\ checked \in BOOLEAN

Init ==
  /\ cached = None /\ dirty = FALSE
  /\ owner = Nobody
  /\ mutex = [p \in Process |-> Nobody]
  /\ published = 1
  /\ pc = [t \in Thread |-> "idle"]
  /\ opened = [t \in Thread |-> FALSE]
  /\ start = [t \in Thread |-> 0]
  /\ size = [t \in Thread |-> 0]
  /\ version = [t \in Thread |-> 1]
  /\ tries = [t \in Thread |-> 0]
  /\ handed = [t \in Thread |-> None]
  /\ downloads = 0 /\ kills = 0 /\ upsets = 0 /\ corrupted = FALSE
  /\ processOf \in Placements
  /\ checked \in BOOLEAN

Go(t, to) == pc' = [pc EXCEPT ![t] = to]
Goes(t, from, to) == pc[t] = from /\ Go(t, to)

Blank == [i \in Place |-> Hole]
Whole(file) == \E v \in Version : file = [i \in Place |-> v]

\* What check_checksum accepts: version 1, or anything without a checksum.
Passes(file) == checked => file = [i \in Place |-> 1]

\* The size of a file, holes before its last chunk included.
SizeOf(file) ==
  CHOOSE n \in 0..Chunks : /\ n > 0 => file[n] # Hole
                           /\ \A i \in n + 1..Chunks : file[i] = Hole

\* The name is gone, for whoever writes to the file as well.
Remove == cached' = None /\ opened' = [t \in Thread |-> FALSE]

-----------------------------------------------------------------------------
(* The locks: CachedFileDownloader._lock.                                  *)

Start(t) ==
  /\ downloads < MaxDownloads
  /\ Goes(t, "idle", "file")
  /\ downloads' = downloads + 1
  /\ tries' = [tries EXCEPT ![t] = 0]
  /\ handed' = [handed EXCEPT ![t] = None]
  /\ UNCHANGED <<cached, dirty, locks, published, opened, start, size, version, kills,
                 upsets, corrupted, settled>>

\* Mutant: no lock between processes.
LockFile_Always(t) ==
  /\ Goes(t, "file", "thread")
  /\ owner' = processOf[t]
  /\ UNCHANGED <<cached, dirty, mutex, published, transfer, handed, bounds, settled>>

LockFile(t) ==
  /\ Goes(t, "file", "thread")
  /\ owner \in {Nobody, processOf[t]}
  /\ owner' = processOf[t]
  /\ UNCHANGED <<cached, dirty, mutex, published, transfer, handed, bounds, settled>>

LockThread(t) ==
  /\ Goes(t, "thread", "check")
  /\ mutex[processOf[t]] = Nobody
  /\ mutex' = [mutex EXCEPT ![processOf[t]] = t]
  /\ UNCHANGED <<cached, dirty, owner, published, transfer, handed, bounds, settled>>

UnlockThread(t) ==
  /\ Goes(t, "unlock", "release")
  /\ mutex' = [mutex EXCEPT ![processOf[t]] = Nobody]
  /\ UNCHANGED <<cached, dirty, owner, published, transfer, handed, bounds, settled>>

ReleaseFile(t) ==
  /\ Goes(t, "release", "idle")
  /\ owner' = IF owner = processOf[t] THEN Nobody ELSE owner
  /\ UNCHANGED <<cached, dirty, mutex, published, transfer, handed, bounds, settled>>

-----------------------------------------------------------------------------
(* The cache: CachedFileDownloader.download.                               *)

\* Mutant: the mark of an earlier download is overlooked.
CheckDirty_Never(t) ==
  /\ Goes(t, "check", "look")
  /\ UNCHANGED <<cached, dirty, locks, published, transfer, handed, bounds, settled>>

\* A download did not end: the file goes, ...
CheckDirty(t) ==
  /\ Goes(t, "check", IF dirty THEN "clean" ELSE "look")
  /\ IF dirty THEN Remove ELSE UNCHANGED <<cached, opened>>
  /\ UNCHANGED <<dirty, locks, published, start, size, version, tries, handed, bounds, settled>>

\* ... and its mark.  clean_dirty fails where there is none.
CleanDirty(t) ==
  /\ pc[t] \in {"clean", "undirty"}
  /\ dirty' = FALSE
  /\ Go(t, IF ~dirty THEN "unlock" ELSE IF pc[t] = "clean" THEN "look" ELSE "copy")
  /\ UNCHANGED <<cached, locks, published, transfer, handed, bounds, settled>>

\* A file that fails its checksum is downloaded again.
Look(t) ==
  /\ Goes(t, "look", IF cached # None /\ Passes(cached) THEN "copy" ELSE "mark")
  /\ IF cached # None /\ ~Passes(cached) THEN Remove ELSE UNCHANGED <<cached, opened>>
  /\ UNCHANGED <<dirty, locks, published, start, size, version, tries, handed, bounds, settled>>

\* Mutant: no mark is set.
Mark_None(t) ==
  /\ Goes(t, "mark", "request")
  /\ UNCHANGED <<cached, dirty, locks, published, transfer, handed, bounds, settled>>

\* set_dirty, which fails where there is a mark, and the first check of
\* FileDownloader.download: "the file to download already exists".
Mark(t) ==
  /\ Goes(t, "mark", IF dirty \/ cached # None THEN "unlock" ELSE "request")
  /\ dirty' = TRUE
  /\ UNCHANGED <<cached, locks, published, transfer, handed, bounds, settled>>

\* The file is copied to where it is wanted.
Copy(t) ==
  /\ Goes(t, "copy", "unlock")
  /\ handed' = [handed EXCEPT ![t] = cached]
  /\ UNCHANGED <<cached, dirty, locks, published, transfer, bounds, settled>>

-----------------------------------------------------------------------------
(* The download: FileDownloader.download and _download_file.               *)

\* _call_with_retry: the next try starts again from nothing.
TryAgain(t) ==
  /\ Go(t, IF tries[t] < Retry THEN "request" ELSE "error")
  /\ tries' = [tries EXCEPT ![t] = IF @ < Retry THEN @ + 1 ELSE @]
  /\ UNCHANGED <<cached, opened, start, size, version>>

\* The body of an answer follows, from chunk "from" + 1 on.
Reads(t, from) ==
  /\ Go(t, "body")
  /\ opened' = [opened EXCEPT ![t] = TRUE]
  /\ start' = [start EXCEPT ![t] = from]
  /\ size' = [size EXCEPT ![t] = from]
  /\ version' = [version EXCEPT ![t] = published]
  /\ UNCHANGED tries

\* The file is opened with "wb", which truncates it.
Request(t) ==
  /\ pc[t] = "request"
  /\ \/ Reads(t, 0) /\ cached' = Blank
     \/ TryAgain(t)                                  \* any other error
     \/ Go(t, "error") /\ UNCHANGED <<cached, transfer>>  \* 404, 403 or 401
  /\ UNCHANGED <<dirty, locks, published, handed, bounds, settled>>

\* One more chunk.
Write(t) ==
  /\ pc[t] = "body" /\ size[t] < Chunks
  /\ size' = [size EXCEPT ![t] = @ + 1]
  /\ cached' = IF opened[t] /\ cached # None
               THEN [cached EXCEPT ![size[t] + 1] = version[t]] ELSE cached
  /\ UNCHANGED <<dirty, locks, published, pc, opened, start, version, tries, handed, bounds,
                 settled>>

\* Mutant: whatever came is the whole file.
EndOfBody_Short(t) ==
  /\ Goes(t, "body", "verify")
  /\ UNCHANGED <<cached, dirty, locks, published, transfer, handed, bounds, settled>>

\* Mutant: an answer that had nothing is resumed as well.
EndOfBody_NoProgress(t) ==
  /\ pc[t] = "body"
  /\ IF size[t] = Chunks THEN Go(t, "verify") /\ UNCHANGED <<cached, transfer>>
     ELSE TryAgain(t) \/ (Go(t, "resume") /\ UNCHANGED <<cached, transfer>>)
  /\ UNCHANGED <<dirty, locks, published, handed, bounds, settled>>

\* The answer ends.  A short one is resumed if it had anything at all, and if
\* the server accepts ranges; one that was compressed is not noticed.
EndOfBody(t) ==
  /\ pc[t] = "body"
  /\ IF size[t] = Chunks THEN Go(t, "verify") /\ UNCHANGED <<cached, transfer>>
     ELSE \/ TryAgain(t)
          \/ size[t] > start[t] /\ Go(t, "resume") /\ UNCHANGED <<cached, transfer>>
          \/ Gzip /\ Go(t, "verify") /\ UNCHANGED <<cached, transfer>>
  /\ UNCHANGED <<dirty, locks, published, handed, bounds, settled>>

\* Mutant: what is there is forgotten, the rest is asked for all the same.
Resume_Afresh(t) ==
  /\ pc[t] = "resume"
  /\ \/ cached # None /\ Reads(t, SizeOf(cached)) /\ cached' = Blank
     \/ TryAgain(t)
  /\ UNCHANGED <<dirty, locks, published, handed, bounds, settled>>

\* The rest is asked for and, when its range is the right one, appended.  Every
\* error of the second request counts as one of the connection.
Resume(t) ==
  /\ pc[t] = "resume"
  /\ \/ /\ cached # None
        /\ Reads(t, SizeOf(cached))
        /\ cached' = IF SizeOf(cached) = 0 THEN Blank ELSE cached
     \/ cached = None /\ Reads(t, 0) /\ cached' = Blank
     \/ TryAgain(t)
  /\ UNCHANGED <<dirty, locks, published, handed, bounds, settled>>

Verify(t) ==
  /\ Goes(t, "verify", IF Passes(cached) THEN "undirty" ELSE "error")
  /\ UNCHANGED <<cached, dirty, locks, published, transfer, handed, bounds, settled>>

\* The download has failed: no file, but the mark stays.
Fail(t) ==
  /\ Goes(t, "error", "unlock")
  /\ Remove
  /\ UNCHANGED <<dirty, locks, published, start, size, version, tries, handed, bounds, settled>>

-----------------------------------------------------------------------------
(* The rest of the world.                                                  *)

Kill(p) ==
  LET mine == {t \in Thread : processOf[t] = p}
  IN  /\ kills < MaxKills /\ \E t \in mine : pc[t] # "idle"
      /\ kills' = kills + 1
      /\ pc' = [t \in Thread |-> IF t \in mine THEN "idle" ELSE pc[t]]
      /\ owner' = IF owner = p THEN Nobody ELSE owner
      /\ mutex' = [mutex EXCEPT ![p] = Nobody]
      /\ UNCHANGED <<cached, dirty, published, transfer, handed, downloads, upsets, corrupted,
                     settled>>

Upset == upsets < MaxUpsets /\ upsets' = upsets + 1

\* Another version is published under the URL.
Publish(v) ==
  /\ checked /\ Upset
  /\ published' = v
  /\ UNCHANGED <<cached, dirty, locks, pc, transfer, handed, downloads, kills, corrupted,
                 settled>>

\* The file in the cache loses a chunk, while nobody uses it.
Corrupt(i) ==
  /\ Upset /\ cached # None
  /\ \A t \in Thread : pc[t] \notin Inside
  /\ cached' = [cached EXCEPT ![i] = Hole]
  /\ corrupted' = TRUE
  /\ UNCHANGED <<dirty, locks, published, pc, transfer, handed, downloads, kills, settled>>

-----------------------------------------------------------------------------
Transfers(t) ==
  \/ Request(t) \/ Write(t) \/ EndOfBody(t) \/ Resume(t) \/ Verify(t) \/ Fail(t)

Step(t) ==
  \/ LockFile(t) \/ LockThread(t) \/ UnlockThread(t) \/ ReleaseFile(t)
  \/ CheckDirty(t) \/ CleanDirty(t) \/ Look(t) \/ Mark(t) \/ Copy(t)
  \/ Transfers(t)

Next ==
  \/ \E t \in Thread : Start(t) \/ Step(t)
  \/ \E p \in Process : Kill(p)
  \/ \E v \in Version : Publish(v)
  \/ \E i \in Place : Corrupt(i)

Spec == Init /\ [][Next]_vars

\* As in MetadataFile: a thread runs on, and locks that are free again and
\* again are obtained.
LiveSpec ==
  /\ Spec
  /\ \A t \in Thread :
       /\ WF_vars(Step(t))
       /\ SF_vars(LockFile(t)) /\ SF_vars(LockThread(t))

-----------------------------------------------------------------------------
(* Properties.                                                             *)

\* As in MetadataFile: threads and processes are not mixed.
Apart == \A t, u \in Thread : processOf[t] = processOf[u] => t = u
Together == \A t, u \in Thread : processOf[t] = processOf[u]

\* Nothing that a file without checksum cannot show has happened to it.
Trusted == checked \/ (~corrupted /\ ~Gzip)

\* "Once the process has access, make sure multithread is locked too": what is
\* handed out is the whole file, whoever else downloads it.
AlwaysWhole ==
  Trusted => \A t \in Thread : handed[t] # None => Whole(handed[t]) /\ Passes(handed[t])

\* Never is the part handed out that a download which was killed, cut or resumed
\* has left, nor two versions put together, nor another version than the one
\* the checksum is of.
HandedWhole == Apart \/ Together => AlwaysWhole

\* While nobody is inside, a file without a dirty mark is whole: what the mark
\* is for ("if is_dirty(cached_path)").
CleanIsWhole ==
  /\ Apart \/ Together
  /\ ~corrupted /\ (checked \/ ~Gzip)
  /\ \A t \in Thread : pc[t] \notin Inside
  => (cached # None /\ ~dirty => Whole(cached))

\* set_dirty never finds a mark, clean_dirty never misses one: no download
\* leaves a file that cannot be downloaded again.
MarksBalanced ==
  Apart \/ Together =>
    \A t \in Thread : /\ pc[t] = "mark" => ~dirty /\ cached = None
                      /\ pc[t] \in {"clean", "undirty"} => dirty

\* Every download ends: resumed answers make progress, tries are counted, and
\* locks are released.
DownloadEnds == \A t \in Thread : pc[t] # "idle" ~> pc[t] = "idle"
=============================================================================

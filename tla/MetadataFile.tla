---------------------------- MODULE MetadataFile ----------------------------
(***************************************************************************)
(* metadata.json of a recipe in the local cache, updated by the threads of *)
(* several conan processes (PackageCacheLayout.update_metadata).           *)
(*                                                                         *)
(* Every update loads the whole file and saves it again.  It is under two  *)
(* locks: one of the file metadata.json.lock, against other processes, and *)
(* inside of it one in memory, against the other threads of the process.   *)
(* The lock of the file is a POSIX record lock (fasteners uses             *)
(* fcntl.lockf): it belongs to the process, so that a second thread of it  *)
(* is granted the lock as well, and the first one to release it, or to     *)
(* close the file, releases it for the whole process.                      *)
(*                                                                         *)
(* Each thread has an entry of its own, as the threads of a parallel       *)
(* download or upload have a package each: what is in the file for a       *)
(* thread is how many of its updates are there.                            *)
(***************************************************************************)
EXTENDS Integers

CONSTANTS
  Thread,      \* the threads that update the metadata
  Process,     \* the conan processes they run in
  Placements,  \* which process the threads may run in
  Nobody,      \* the owner of a lock that is free
  Empty,       \* a file that was truncated and not written
  MaxUpdates,  \* bound: how many updates are started
  MaxKills     \* bound: how often a process is killed

ASSUME PlacementsAssumption == Placements \subseteq [Thread -> Process]
ASSUME NobodyAssumption == Nobody \notin Process /\ Nobody \notin Thread
ASSUME EmptyAssumption == Empty \notin [Thread -> Nat]
ASSUME UpdatesAssumption == MaxUpdates \in Nat /\ MaxKills \in Nat

VARIABLES
  content,  \* metadata.json
  owner,    \* the process that owns the lock of metadata.json.lock
  mutex,    \* the thread that owns the lock in memory of each process
  step,     \* where each thread is in update_metadata
  seen,     \* the metadata each thread has loaded
  saved,    \* how many updates of each thread were saved
  started,  \* how many updates were started
  kills,
  processOf \* the process each thread runs in, from the start

metadataVars == <<content, owner, mutex, step, seen, saved, started, kills, processOf>>

Metadata == [Thread -> Nat]
NoMetadata == [t \in Thread |-> 0]

MetadataTypeOK ==
  /\ content \in Metadata \cup {Empty}
  /\ owner \in Process \cup {Nobody}
  /\ mutex \in [Process -> Thread \cup {Nobody}]
  /\ step \in [Thread -> {"idle", "file", "thread", "load", "body", "save", "unlock", "release"}]
  /\ seen \in [Thread -> Metadata]
  /\ saved \in [Thread -> Nat]
  /\ started \in 0..MaxUpdates
  /\ kills \in 0..MaxKills
  /\ processOf \in Placements

MetadataInit ==
  /\ content = NoMetadata
  /\ owner = Nobody
  /\ mutex = [p \in Process |-> Nobody]
  /\ step = [t \in Thread |-> "idle"]
  /\ seen = [t \in Thread |-> NoMetadata]
  /\ saved = [t \in Thread |-> 0]
  /\ started = 0
  /\ kills = 0
  /\ processOf \in Placements

Advance(t, from, to) == step[t] = from /\ step' = [step EXCEPT ![t] = to]

-----------------------------------------------------------------------------
\* with update_metadata(): open the lock file, and poll for its lock, ...
Start(t) ==
  /\ started < MaxUpdates
  /\ Advance(t, "idle", "file")
  /\ started' = started + 1
  /\ UNCHANGED <<content, owner, mutex, seen, saved, kills, processOf>>

\* Mutant: no lock between processes.
LockFile_Always(t) ==
  /\ Advance(t, "file", "thread")
  /\ owner' = processOf[t]
  /\ UNCHANGED <<content, mutex, seen, saved, started, kills, processOf>>

\* ... which is granted when no other process owns it.
LockFile(t) ==
  /\ Advance(t, "file", "thread")
  /\ owner \in {Nobody, processOf[t]}
  /\ owner' = processOf[t]
  /\ UNCHANGED <<content, mutex, seen, saved, started, kills, processOf>>

\* Mutant: no lock between threads.
LockThread_Always(t) ==
  /\ Advance(t, "thread", "load")
  /\ mutex' = [mutex EXCEPT ![processOf[t]] = t]
  /\ UNCHANGED <<content, owner, seen, saved, started, kills, processOf>>

LockThread(t) ==
  /\ Advance(t, "thread", "load")
  /\ mutex[processOf[t]] = Nobody
  /\ mutex' = [mutex EXCEPT ![processOf[t]] = t]
  /\ UNCHANGED <<content, owner, seen, saved, started, kills, processOf>>

\* Mutant: a truncated file is taken for the metadata.
Load_Any(t) ==
  /\ Advance(t, "load", "body")
  /\ seen' = [seen EXCEPT ![t] = content]
  /\ UNCHANGED <<content, owner, mutex, saved, started, kills, processOf>>

Load(t) ==
  /\ Advance(t, "load", "body")
  /\ content # Empty
  /\ seen' = [seen EXCEPT ![t] = content]
  /\ UNCHANGED <<content, owner, mutex, saved, started, kills, processOf>>

\* Mutant: an error leaves the lock in memory as it is.
UpdateFails_KeepsMutex(t) ==
  /\ \/ Advance(t, "load", "release") /\ content = Empty
     \/ Advance(t, "body", "release")
  /\ UNCHANGED <<content, owner, mutex, seen, saved, started, kills, processOf>>

\* A truncated file is not JSON, or the body of the with raises: the locks are
\* released and nothing is saved.
UpdateFails(t) ==
  /\ \/ Advance(t, "load", "unlock") /\ content = Empty
     \/ Advance(t, "body", "unlock")
  /\ UNCHANGED <<content, owner, mutex, seen, saved, started, kills, processOf>>

\* save() opens the file, which truncates it, ...
Truncate(t) ==
  /\ Advance(t, "body", "save")
  /\ content' = Empty
  /\ UNCHANGED <<owner, mutex, seen, saved, started, kills, processOf>>

\* ... and writes all of the metadata.
Write(t) ==
  /\ Advance(t, "save", "unlock")
  /\ content' = [seen[t] EXCEPT ![t] = @ + 1]
  /\ saved' = [saved EXCEPT ![t] = @ + 1]
  /\ UNCHANGED <<owner, mutex, seen, started, kills, processOf>>

UnlockThread(t) ==
  /\ Advance(t, "unlock", "release")
  /\ mutex' = [mutex EXCEPT ![processOf[t]] = Nobody]
  /\ UNCHANGED <<content, owner, seen, saved, started, kills, processOf>>

\* The lock is released, and the file closed, for all threads of the process.
ReleaseFile(t) ==
  /\ Advance(t, "release", "idle")
  /\ owner' = IF owner = processOf[t] THEN Nobody ELSE owner
  /\ UNCHANGED <<content, mutex, seen, saved, started, kills, processOf>>

\* A process is killed, and another one takes its place.
Kill(p) ==
  LET mine == {t \in Thread : processOf[t] = p}
  IN  /\ kills < MaxKills /\ \E t \in mine : step[t] # "idle"
      /\ kills' = kills + 1
      /\ step' = [t \in Thread |-> IF t \in mine THEN "idle" ELSE step[t]]
      /\ owner' = IF owner = p THEN Nobody ELSE owner
      /\ mutex' = [mutex EXCEPT ![p] = Nobody]
      /\ UNCHANGED <<content, seen, saved, started, processOf>>

-----------------------------------------------------------------------------
Update(t) ==
  \/ LockFile(t) \/ LockThread(t) \/ Load(t) \/ UpdateFails(t) \/ Truncate(t) \/ Write(t)
  \/ UnlockThread(t) \/ ReleaseFile(t)

MetadataNext ==
  \/ \E t \in Thread : Start(t) \/ Update(t)
  \/ \E p \in Process : Kill(p)

MetadataSpec == MetadataInit /\ [][MetadataNext]_metadataVars

\* A thread runs on until its update has ended.  Between its polls the lock of
\* the file is free again and again while others update; a lock in memory is
\* handed to one of those that wait.
LiveSpec ==
  /\ MetadataSpec
  /\ \A t \in Thread :
       /\ WF_metadataVars(Update(t))
       /\ SF_metadataVars(LockFile(t)) /\ SF_metadataVars(LockThread(t))

-----------------------------------------------------------------------------
(* Properties.                                                             *)

\* Each thread is a process of its own, or all of them belong to the same one.
Apart == \A t, u \in Thread : processOf[t] = processOf[u] => t = u
Together == \A t, u \in Thread : processOf[t] = processOf[u]

\* No update of another thread, or of another process, is lost, which the two
\* locks are for, and only a kill leaves an empty file.  When both threads and
\* processes update that is not so: see the README.
UpdatesKept ==
  Apart \/ Together =>
    IF content = Empty THEN kills > 0 \/ \E t \in Thread : step[t] = "save"
    ELSE content = saved

\* No update waits for ever: the two locks, nested, are never waited for in a
\* circle, and every failure releases both.
UpdateEnds == \A t \in Thread : step[t] # "idle" ~> step[t] = "idle"
=============================================================================

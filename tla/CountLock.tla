------------------------------ MODULE CountLock ------------------------------
(***************************************************************************)
(* The readers-writer lock that guards a recipe folder of the local cache  *)
(* (conans/util/locks.py: ReadLock, WriteLock and Lock.clean), shared by   *)
(* concurrent conan processes through two files beside the folder:         *)
(*                                                                         *)
(*   <folder>.count       how many readers, or -1 for a writer             *)
(*   <folder>.count.lock  the file fasteners.InterProcessLock locks while  *)
(*                        the count is read and rewritten                  *)
(*                                                                         *)
(* The operating system locks an INODE, not a name: a process that opened  *)
(* the lock file before it was unlinked polls, and obtains, a lock nobody  *)
(* else looks at any more.  "fileNo" is the inode the name refers to (or   *)
(* will, once the next process creates the file) and "fd" the inode each   *)
(* process has open.                                                       *)
(*                                                                         *)
(* Besides the protocol, the module has every step of the client that      *)
(* removes the two files: a write section left through an exception,       *)
(* DiskRemover.remove_recipe inside a write section (install --update),    *)
(* and Lock.clean (conan remove, conan remove --locks); and the deaths of  *)
(* a process, inside save() too.                                           *)
(***************************************************************************)
EXTENDS Integers, FiniteSets

CONSTANTS
  Proc,       \* the conan processes that share a cache
  NoNumber,   \* the count file is absent, or was truncated and not written
  MaxUnlinks  \* bound: how often the lock file is unlinked

ASSUME ProcAssumption == IsFiniteSet(Proc)
ASSUME NoNumberAssumption == NoNumber \notin Int
ASSUME MaxUnlinksAssumption == MaxUnlinks \in Nat

VARIABLES
  count,     \* content of the count file
  fileNo,    \* the inode behind the name of the lock file
  pc,        \* where each process is
  op,        \* the lock operation a process is in the middle of
  fd,        \* the inode of the lock file a process has open
  seen,      \* what a process last read from the count file
  role,      \* the lock each process was granted and has not given back
  disturbed  \* history: the files were removed under a process using them

vars == <<count, fileNo, pc, op, fd, seen, role, disturbed>>

Exits == {"read_exit", "write_exit", "write_fail"}
Ops == Exits \cup {"read_enter", "write_enter", "update", "clean"}

\* "dead" is a process that was killed: the operating system dropped its locks.
Places == {"idle", "opening", "waiting", "locked", "loaded", "reading",
           "writing", "unlink_count", "unlink_lock", "dead"}

\* A process in one of these places owns the OS lock of the inode fd[p].
HoldsFile(p) == pc[p] \in {"locked", "loaded"}

Active(p) == pc[p] \notin {"idle", "dead"}
Readers == {p \in Proc : role[p] = "reader"}
Writers == {p \in Proc : role[p] = "writer"}
Removers == {p \in Proc : \/ pc[p] \in {"unlink_count", "unlink_lock"}
                          \/ op[p] = "write_fail" /\ Active(p)}

-----------------------------------------------------------------------------
TypeOK ==
  /\ count \in Int \cup {NoNumber}
  /\ fileNo \in Nat
  /\ pc \in [Proc -> Places]
  /\ op \in [Proc -> Ops]
  /\ fd \in [Proc -> Nat]
  /\ seen \in [Proc -> Int]
  /\ role \in [Proc -> {"none", "reader", "writer"}]
  /\ disturbed \in BOOLEAN

Init ==
  /\ count = NoNumber
  /\ fileNo = 0
  /\ pc = [p \in Proc |-> "idle"]
  /\ op = [p \in Proc |-> "read_enter"]
  /\ fd = [p \in Proc |-> 0]
  /\ seen = [p \in Proc |-> 0]
  /\ role = [p \in Proc |-> "none"]
  /\ disturbed = FALSE

\* Lock._readers: without a number in the file nobody holds the lock.
CountRead == IF count = NoNumber THEN 0 ELSE count

-----------------------------------------------------------------------------
(* The protocol: ReadLock and WriteLock, __enter__ and __exit__.           *)

\* A process at one place starts the operation o at another.
Begin(p, from, o, to) ==
  /\ pc[p] = from
  /\ pc' = [pc EXCEPT ![p] = to]
  /\ op' = [op EXCEPT ![p] = o]
  /\ UNCHANGED <<count, fileNo, fd, seen, role, disturbed>>

EnterRead(p)  == Begin(p, "idle", "read_enter", "opening")
EnterWrite(p) == Begin(p, "idle", "write_enter", "opening")
ExitRead(p)   == Begin(p, "reading", "read_exit", "opening")
ExitWrite(p)  == Begin(p, "writing", "write_exit", "opening")

\* InterProcessLock opens (and creates) the lock file before it polls for it.
Open(p) ==
  /\ pc[p] = "opening"
  /\ pc' = [pc EXCEPT ![p] = "waiting"]
  /\ fd' = [fd EXCEPT ![p] = fileNo]
  /\ UNCHANGED <<count, fileNo, op, seen, role, disturbed>>

\* The poll succeeds when no process owns the lock of the inode it has open.
Acquire(p) ==
  /\ pc[p] = "waiting"
  /\ \A q \in Proc : HoldsFile(q) => fd[q] # fd[p]
  /\ pc' = [pc EXCEPT ![p] = "locked"]
  /\ UNCHANGED <<count, fileNo, op, fd, seen, role, disturbed>>

\* self._readers(); WriteLock.__exit__ does not look at what it read.
Load(p) ==
  /\ pc[p] = "locked"
  /\ pc' = [pc EXCEPT ![p] = "loaded"]
  /\ seen' = [seen EXCEPT ![p] = CountRead]
  /\ UNCHANGED <<count, fileNo, op, fd, role, disturbed>>

\* The with block ends: the lock is released, the file closed.
Close(p) ==
  /\ fd' = [fd EXCEPT ![p] = 0]
  /\ seen' = [seen EXCEPT ![p] = 0]

\* Write the new count and release the file lock.
Store(p, value, to, granted) ==
  /\ count' = value
  /\ pc' = [pc EXCEPT ![p] = to]
  /\ role' = [role EXCEPT ![p] = granted]
  /\ Close(p)
  /\ UNCHANGED <<fileNo, op, disturbed>>

\* Mutant: a reader enters beside a writer.
GrantRead_OverWriter(p) ==
  /\ pc[p] = "loaded" /\ op[p] = "read_enter"
  /\ Store(p, seen[p] + 1, "reading", "reader")

GrantRead(p) ==
  /\ pc[p] = "loaded" /\ op[p] = "read_enter" /\ seen[p] >= 0
  /\ Store(p, seen[p] + 1, "reading", "reader")

\* Mutant: a writer enters whenever no writer is inside.
GrantWrite_OverReaders(p) ==
  /\ pc[p] = "loaded" /\ op[p] = "write_enter" /\ seen[p] >= 0
  /\ Store(p, -1, "writing", "writer")

GrantWrite(p) ==
  /\ pc[p] = "loaded" /\ op[p] = "write_enter" /\ seen[p] = 0
  /\ Store(p, -1, "writing", "writer")

\* Mutant: a reader that leaves resets the count.
ReleaseRead_ToZero(p) ==
  /\ pc[p] = "loaded" /\ op[p] = "read_exit"
  /\ Store(p, 0, "idle", "none")

\* Mutant: a reader that leaves forgets to count itself out.
ReleaseRead_NoDecrement(p) ==
  /\ pc[p] = "loaded" /\ op[p] = "read_exit"
  /\ Store(p, seen[p], "idle", "none")

ReleaseRead(p) ==
  /\ pc[p] = "loaded" /\ op[p] = "read_exit"
  /\ Store(p, seen[p] - 1, "idle", "none")

\* Mutant: a writer that leaves does not write the count.
ReleaseWrite_NoReset(p) ==
  /\ pc[p] = "loaded" /\ op[p] = "write_exit"
  /\ Store(p, count, "idle", "none")

ReleaseWrite(p) ==
  /\ pc[p] = "loaded" /\ op[p] = "write_exit"
  /\ Store(p, 0, "idle", "none")

\* The lock is taken: release the file lock, sleep, start over.
Refused(p) == \/ op[p] = "read_enter" /\ seen[p] < 0
              \/ op[p] = "write_enter" /\ seen[p] # 0

Busy(p) ==
  /\ pc[p] = "loaded" /\ Refused(p)
  /\ pc' = [pc EXCEPT ![p] = "opening"]
  /\ Close(p)
  /\ UNCHANGED <<count, fileNo, op, role, disturbed>>

\* The process is killed.  What it wrote to the count file stays there.
Crash(p) ==
  /\ Active(p)
  /\ pc' = [pc EXCEPT ![p] = "dead"]
  /\ Close(p)
  /\ UNCHANGED <<count, fileNo, op, role, disturbed>>

-----------------------------------------------------------------------------
(* The steps that remove the lock files, or what is in them.               *)

MayUnlink == fileNo + Cardinality(Removers) < MaxUnlinks

\* The body of a write section raised: exc_type is not None in __exit__, which
\* gives the lock back and goes on to remove the two files.
FailWrite(p) == MayUnlink /\ Begin(p, "writing", "write_fail", "opening")

ReleaseFailedWrite(p) ==
  /\ pc[p] = "loaded" /\ op[p] = "write_fail"
  /\ Store(p, 0, "unlink_count", "none")

\* DiskRemover.remove_recipe, called by ConanProxy while it holds the lock.
Update(p) == MayUnlink /\ Begin(p, "writing", "update", "unlink_count")

\* Lock.clean: conan remove and conan remove --locks take no lock first.
Clean(p) == MayUnlink /\ Begin(p, "idle", "clean", "unlink_count")

\* The count is lost.  With no process there to rely on it, that only forgets
\* what dead processes left behind; otherwise the lock is disturbed.
LoseCount(p) ==
  LET used == op[p] = "update" \/ \E q \in Proc \ {p} : Active(q)
  IN  /\ count' = NoNumber
      /\ disturbed' = (disturbed \/ used)
      /\ role' = IF used THEN role ELSE [q \in Proc |-> "none"]
      /\ UNCHANGED <<fileNo, op>>

\* os.remove(count).  In WriteLock.__exit__ a missing file ends the clean-up.
UnlinkCount(p) ==
  /\ pc[p] = "unlink_count"
  /\ pc' = [pc EXCEPT ![p] = IF op[p] = "write_fail" /\ count = NoNumber
                             THEN "idle" ELSE "unlink_lock"]
  /\ LoseCount(p)
  /\ UNCHANGED <<fd, seen>>

\* os.remove(count.lock): the next process to open the name creates a new file.
UnlinkLock(p) ==
  /\ pc[p] = "unlink_lock"
  /\ fileNo' = fileNo + 1
  /\ pc' = [pc EXCEPT ![p] = IF op[p] = "update" THEN "writing" ELSE "idle"]
  /\ disturbed' = (disturbed \/ \E q \in Proc \ {p} : Active(q))
  /\ UNCHANGED <<count, op, fd, seen, role>>

\* Killed inside save(), which truncates the file before it writes the number.
CrashSaving(p) ==
  /\ pc[p] = "loaded" /\ ~Refused(p)
  /\ pc' = [pc EXCEPT ![p] = "dead"]
  /\ LoseCount(p)
  /\ Close(p)

-----------------------------------------------------------------------------
\* The steps of a process that uses the lock as it was meant, and is not killed.
Protocol(p) ==
  \/ ExitRead(p) \/ ExitWrite(p) \/ Open(p) \/ Acquire(p) \/ Load(p)
  \/ GrantRead(p) \/ GrantWrite(p) \/ ReleaseRead(p) \/ ReleaseWrite(p)
  \/ Busy(p)

Removal(p) ==
  \/ FailWrite(p) \/ ReleaseFailedWrite(p) \/ Update(p) \/ Clean(p)
  \/ UnlinkCount(p) \/ UnlinkLock(p) \/ CrashSaving(p)

Next == \E p \in Proc :
  EnterRead(p) \/ EnterWrite(p) \/ Protocol(p) \/ Crash(p) \/ Removal(p)

Spec == Init /\ [][Next]_vars

\* Nobody removes the files, processes may be killed between two steps.
KeptNext == \E p \in Proc :
  EnterRead(p) \/ EnterWrite(p) \/ Protocol(p) \/ Crash(p)

KeptSpec == Init /\ [][KeptNext]_vars

\* Nobody is killed either.  A process runs on until it has left the lock.  It
\* sleeps between two polls without the file lock, so the lock is free again
\* and again while a process polls: its poll is strongly fair.
LiveNext == \E p \in Proc : EnterRead(p) \/ EnterWrite(p) \/ Protocol(p)

LiveSpec ==
  /\ Init /\ [][LiveNext]_vars
  /\ \A p \in Proc : WF_vars(Protocol(p)) /\ SF_vars(Acquire(p))

-----------------------------------------------------------------------------
(* Properties.                                                             *)

\* A write section excludes everyone else, for as long as nobody removed the
\* lock files under a process using them: what ReadLock and WriteLock are for.
LockGuarantee ==
  ~disturbed => \A p \in Writers : \A q \in Proc \ {p} : role[q] = "none"

\* The count file says exactly who is inside, dead processes included: the
\* number that every __enter__ decides on.
CountAgrees ==
  ~disturbed => CountRead = IF Writers # {} THEN -1 ELSE Cardinality(Readers)

\* The same exclusion, whoever removes the files: what "is locked by another
\* concurrent conan process, wait..." (_info_locked) promises to a user.
WriterExclusive ==
  \A p \in Writers : \A q \in Proc \ {p} : role[q] = "none"

\* As long as nobody removes its files, the lock is a readers-writer lock.
RW == INSTANCE ReadersWriters WITH Proc <- Proc, role <- role
ImplementsReadersWriters == RW!Spec

Entering(p) == op[p] \in {"read_enter", "write_enter"} /\ Active(p) /\ role[p] = "none"

\* Polling is no deadlock: while some process waits at __enter__, one enters
\* sooner or later (not necessarily that one: readers can starve a writer).
SomeoneEnters == (\E p \in Proc : Entering(p)) ~> (\E p \in Proc : role[p] # "none")

\* A process that waits at __enter__ while the others stay away gets in: no
\* history of entries and exits leaves a count that locks everyone out.
EntersWhenAlone ==
  \A p \in Proc :
    <>[](\A q \in Proc \ {p} : pc[q] = "idle") => (Entering(p) ~> role[p] # "none")

=============================================================================

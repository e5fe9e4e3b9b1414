-------------------------- MODULE CountLockProofs --------------------------
(***************************************************************************)
(* Proofs about the readers-writer lock of the cache, for any finite set   *)
(* of processes and any number of removals of its files.                   *)
(***************************************************************************)
EXTENDS CountLock, FiniteSetTheorems, TLAPS

-----------------------------------------------------------------------------
(* The inductive invariant: while the files were never removed under a     *)
(* process using them, ...                                                 *)

InSection(p) == pc[p] \in {"opening", "waiting", "locked", "loaded"}

\* ... whoever polls or owns the lock file has the present one open,
FilesCurrent ==
  \A p \in Proc : pc[p] \in {"waiting", "locked", "loaded"} => fd[p] = fileNo

\* ... so one process at a time owns it,
OneHolder == \A p, q \in Proc : HoldsFile(p) /\ HoldsFile(q) => p = q

\* ... and what that process read is still in the count file;
SeenCurrent == \A p \in Proc : pc[p] = "loaded" => seen[p] = CountRead

\* the role of a live process follows from where it is;
RoleFits ==
  \A p \in Proc :
    /\ pc[p] = "idle" => role[p] = "none"
    /\ pc[p] = "reading" => role[p] = "reader"
    /\ pc[p] = "writing" => role[p] = "writer"
    /\ InSection(p) /\ op[p] \in {"read_enter", "write_enter"} => role[p] = "none"
    /\ InSection(p) /\ op[p] = "read_exit" => role[p] = "reader"
    /\ InSection(p) /\ op[p] \in {"write_exit", "write_fail"} => role[p] = "writer"
    /\ pc[p] \in {"unlink_count", "unlink_lock"} /\ op[p] # "update" => role[p] = "none"
    /\ pc[p] = "unlink_lock" => op[p] # "update"

\* and the roles agree with the count and with each other.
WriterAlone == \A p \in Writers : \A q \in Proc \ {p} : role[q] = "none"

CountFits == CountRead = IF Writers # {} THEN -1 ELSE Cardinality(Readers)

Undisturbed == FilesCurrent /\ OneHolder /\ SeenCurrent /\ RoleFits /\ WriterAlone /\ CountFits

IInv == TypeOK /\ (~disturbed => Undisturbed)

-----------------------------------------------------------------------------
(* Type correctness.                                                       *)

LEMMA InitType == Init => TypeOK
<1>1. Init => disturbed \in BOOLEAN
  BY Zenon DEF Init
<1>2. QED
  BY <1>1 DEF Init, TypeOK, Places, Ops, Exits

LEMMA NextType ==
  ASSUME TypeOK, [Next]_vars PROVE TypeOK'
<1>1. CASE UNCHANGED vars
  BY <1>1 DEF TypeOK, vars
<1>2. ASSUME NEW p \in Proc,
             EnterRead(p) \/ EnterWrite(p) \/ ExitRead(p) \/ ExitWrite(p)
               \/ FailWrite(p) \/ Update(p) \/ Clean(p)
      PROVE  TypeOK'
  BY <1>2 DEF TypeOK, EnterRead, EnterWrite, ExitRead, ExitWrite, FailWrite,
              Update, Clean, Begin, Places, Ops, Exits
<1>3. ASSUME NEW p \in Proc,
             Open(p) \/ Acquire(p) \/ Busy(p) \/ Crash(p)
      PROVE  TypeOK'
  BY <1>3 DEF TypeOK, Open, Acquire, Busy, Crash, Close, Places
<1>4. ASSUME NEW p \in Proc, Load(p)
      PROVE  TypeOK'
  BY <1>4 DEF TypeOK, Load, CountRead, Places
<1>5. ASSUME NEW p \in Proc,
             GrantRead(p) \/ GrantWrite(p) \/ ReleaseRead(p) \/ ReleaseWrite(p)
               \/ ReleaseFailedWrite(p)
      PROVE  TypeOK'
  BY <1>5 DEF TypeOK, GrantRead, GrantWrite, ReleaseRead, ReleaseWrite,
              ReleaseFailedWrite, Store, Close, Places
<1>6. ASSUME NEW p \in Proc, UnlinkCount(p) \/ UnlinkLock(p) \/ CrashSaving(p)
      PROVE  TypeOK'
  <2>1. disturbed' \in BOOLEAN
    BY <1>6, Zenon DEF UnlinkCount, UnlinkLock, CrashSaving, LoseCount
  <2>2. QED
    BY <1>6, <2>1 DEF TypeOK, UnlinkCount, UnlinkLock, CrashSaving, LoseCount, Close, Places
<1>7. QED
  BY <1>1, <1>2, <1>3, <1>4, <1>5, <1>6 DEF Next, Protocol, Removal

\* Every reachable state is of its type.
THEOREM TypeCorrect == Spec => []TypeOK
BY InitType, NextType, PTL DEF Spec

-----------------------------------------------------------------------------
(* The invariant is inductive.                                             *)

LEMMA ReadersFinite ==
  /\ IsFiniteSet(Readers) /\ Cardinality(Readers) \in Nat
  /\ IsFiniteSet(Writers)
<1>1. Readers \subseteq Proc /\ Writers \subseteq Proc
  BY DEF Readers, Writers
<1>2. QED
  BY <1>1, ProcAssumption, FS_Subset, FS_CardinalityType

LEMMA InitUndisturbed == Init => Undisturbed
<1> SUFFICES ASSUME Init PROVE Undisturbed
  OBVIOUS
<1>1. Readers = {} /\ Writers = {}
  BY DEF Init, Readers, Writers
<1>2. CountFits /\ WriterAlone
  BY <1>1, FS_EmptySet DEF CountFits, WriterAlone, CountRead, Init
<1>3. FilesCurrent /\ OneHolder /\ SeenCurrent /\ RoleFits
  BY DEF Init, FilesCurrent, OneHolder, SeenCurrent, RoleFits, HoldsFile, InSection
<1>4. QED
  BY <1>2, <1>3 DEF Undisturbed

\* Steps that grant nothing and leave both files and all roles alone.
LEMMA QuietStep ==
  ASSUME TypeOK, Undisturbed, NEW p \in Proc,
         \/ EnterRead(p) \/ EnterWrite(p) \/ ExitRead(p) \/ ExitWrite(p)
         \/ FailWrite(p) \/ Update(p) \/ Clean(p)
         \/ Open(p) \/ Acquire(p) \/ Load(p) \/ Busy(p) \/ Crash(p)
  PROVE  Undisturbed'
<1>1. role' = role /\ count' = count /\ fileNo' = fileNo
  BY DEF EnterRead, EnterWrite, ExitRead, ExitWrite, FailWrite, Update, Clean,
         Begin, Open, Acquire, Load, Busy, Crash
<1>2. CountFits' /\ WriterAlone'
  BY <1>1 DEF Undisturbed, CountFits, WriterAlone, CountRead, Readers, Writers
<1>3. CASE \/ EnterRead(p) \/ EnterWrite(p) \/ ExitRead(p) \/ ExitWrite(p)
           \/ FailWrite(p) \/ Update(p) \/ Clean(p)
  <2>1. FilesCurrent' /\ OneHolder' /\ SeenCurrent'
    BY <1>3 DEF EnterRead, EnterWrite, ExitRead, ExitWrite, FailWrite, Update, Clean,
       Begin, TypeOK, Undisturbed, FilesCurrent, OneHolder, SeenCurrent, HoldsFile, CountRead
  <2>2. RoleFits'
    BY <1>3 DEF EnterRead, EnterWrite, ExitRead, ExitWrite, FailWrite, Update, Clean,
       Begin, TypeOK, Undisturbed, RoleFits, InSection
  <2>3. QED
    BY <1>2, <2>1, <2>2 DEF Undisturbed
<1>4. CASE Open(p) \/ Acquire(p) \/ Load(p) \/ Busy(p) \/ Crash(p)
  <2>1. FilesCurrent'
    BY <1>4 DEF Open, Acquire, Load, Busy, Crash, Close, TypeOK, Undisturbed, FilesCurrent
  <2>2. OneHolder'
    BY <1>4 DEF Open, Acquire, Load, Busy, Crash, Close, TypeOK, Undisturbed, FilesCurrent,
       OneHolder, HoldsFile
  <2>3. SeenCurrent'
    BY <1>4 DEF Open, Acquire, Load, Busy, Crash, Close, TypeOK, Undisturbed, SeenCurrent, CountRead
  <2>4. RoleFits'
    BY <1>4 DEF Open, Acquire, Load, Busy, Crash, Close, TypeOK, Undisturbed, RoleFits, InSection
  <2>5. QED
    BY <1>2, <2>1, <2>2, <2>3, <2>4 DEF Undisturbed
<1>5. QED
  BY <1>3, <1>4

\* Steps of the one owner of the file lock that rewrite the count.
LEMMA StoreStep ==
  ASSUME TypeOK, Undisturbed, NEW p \in Proc,
         \/ GrantRead(p) \/ GrantWrite(p) \/ ReleaseRead(p) \/ ReleaseWrite(p)
         \/ ReleaseFailedWrite(p)
  PROVE  Undisturbed'
<1>1. /\ pc[p] = "loaded" /\ seen[p] = CountRead
      /\ \A q \in Proc \ {p} : pc[q] \notin {"locked", "loaded"}
  BY DEF GrantRead, GrantWrite, ReleaseRead, ReleaseWrite, ReleaseFailedWrite,
         Undisturbed, SeenCurrent, OneHolder, HoldsFile
<1>2. FilesCurrent' /\ OneHolder' /\ SeenCurrent'
  BY <1>1 DEF GrantRead, GrantWrite, ReleaseRead, ReleaseWrite, ReleaseFailedWrite, Store, Close,
     TypeOK, Undisturbed, FilesCurrent, OneHolder, SeenCurrent, HoldsFile
<1>3. RoleFits'
  BY <1>1 DEF GrantRead, GrantWrite, ReleaseRead, ReleaseWrite, ReleaseFailedWrite, Store, Close,
     TypeOK, Undisturbed, RoleFits, InSection
<1>4. CASE GrantRead(p)
  <2>1. /\ role[p] = "none" /\ role' = [role EXCEPT ![p] = "reader"]
        /\ count' = seen[p] + 1 /\ seen[p] >= 0
    BY <1>4 DEF GrantRead, Store, Undisturbed, RoleFits, InSection
  <2>2. Writers = {} /\ seen[p] = Cardinality(Readers)
    BY <1>1, <2>1 DEF Undisturbed, CountFits
  <2>3. Readers' = Readers \cup {p} /\ p \notin Readers /\ Writers' = {}
    BY <2>1, <2>2 DEF Readers, Writers, TypeOK
  <2>4. Cardinality(Readers') = Cardinality(Readers) + 1
    BY <2>3, ReadersFinite, FS_AddElement
  <2>5. CountFits' /\ WriterAlone'
    BY <2>1, <2>2, <2>3, <2>4, ReadersFinite, NoNumberAssumption
       DEF CountFits, WriterAlone, CountRead
  <2>6. QED
    BY <1>2, <1>3, <2>5 DEF Undisturbed
<1>5. CASE GrantWrite(p)
  <2>1. /\ role[p] = "none" /\ role' = [role EXCEPT ![p] = "writer"]
        /\ count' = -1 /\ seen[p] = 0
    BY <1>5 DEF GrantWrite, Store, Undisturbed, RoleFits, InSection
  <2>2. Writers = {} /\ Cardinality(Readers) = 0
    BY <1>1, <2>1 DEF Undisturbed, CountFits
  <2>3. Readers = {}
    BY <2>2, ReadersFinite, FS_EmptySet
  <2>4. Writers' = {p} /\ Readers' = {}
    BY <2>1, <2>2, <2>3 DEF Readers, Writers, TypeOK
  <2>5. WriterAlone'
    BY <2>1, <2>2, <2>3, <2>4 DEF WriterAlone, Readers, Writers, TypeOK
  <2>6. CountFits'
    BY <2>1, <2>4, NoNumberAssumption DEF CountFits, CountRead
  <2>7. QED
    BY <1>2, <1>3, <2>5, <2>6 DEF Undisturbed
<1>6. CASE ReleaseRead(p)
  <2>1. /\ role[p] = "reader" /\ role' = [role EXCEPT ![p] = "none"]
        /\ count' = seen[p] - 1
    BY <1>6 DEF ReleaseRead, Store, Undisturbed, RoleFits, InSection
  <2>2. Writers = {} /\ p \in Readers
    BY <2>1 DEF Undisturbed, WriterAlone, Writers, Readers
  <2>3. Readers' = Readers \ {p} /\ Writers' = {}
    BY <2>1, <2>2 DEF Readers, Writers, TypeOK
  <2>4. Cardinality(Readers') = Cardinality(Readers) - 1
    BY <2>2, <2>3, ReadersFinite, FS_RemoveElement
  <2>5. seen[p] = Cardinality(Readers)
    BY <1>1, <2>2 DEF Undisturbed, CountFits
  <2>6. CountFits' /\ WriterAlone'
    BY <2>1, <2>3, <2>4, <2>5, ReadersFinite, NoNumberAssumption
       DEF CountFits, WriterAlone, CountRead
  <2>7. QED
    BY <1>2, <1>3, <2>6 DEF Undisturbed
<1>7. CASE ReleaseWrite(p) \/ ReleaseFailedWrite(p)
  <2>1. role[p] = "writer" /\ role' = [role EXCEPT ![p] = "none"] /\ count' = 0
    BY <1>7 DEF ReleaseWrite, ReleaseFailedWrite, Store, Undisturbed, RoleFits, InSection
  <2>2. \A q \in Proc \ {p} : role[q] = "none"
    BY <2>1 DEF Undisturbed, WriterAlone, Writers
  <2>3. Readers' = {} /\ Writers' = {}
    BY <2>1, <2>2 DEF Readers, Writers, TypeOK
  <2>4. CountFits' /\ WriterAlone'
    BY <2>1, <2>3, FS_EmptySet, NoNumberAssumption DEF CountFits, WriterAlone, CountRead
  <2>5. QED
    BY <1>2, <1>3, <2>4 DEF Undisturbed
<1>8. QED
  BY <1>4, <1>5, <1>6, <1>7

\* Removals that find nobody else there.
LEMMA ForgetStep ==
  ASSUME TypeOK, Undisturbed, ~disturbed', NEW p \in Proc,
         UnlinkCount(p) \/ UnlinkLock(p) \/ CrashSaving(p)
  PROVE  Undisturbed'
<1>1. \A q \in Proc \ {p} : pc[q] \in {"idle", "dead"} /\ pc'[q] = pc[q]
  BY DEF UnlinkCount, UnlinkLock, CrashSaving, LoseCount, Active, TypeOK
<1>2. pc'[p] \in {"idle", "unlink_lock", "writing", "dead"}
  BY DEF UnlinkCount, UnlinkLock, CrashSaving, TypeOK
<1>3. FilesCurrent' /\ OneHolder' /\ SeenCurrent'
  BY <1>1, <1>2 DEF FilesCurrent, OneHolder, SeenCurrent, HoldsFile
<1>4. CASE UnlinkLock(p)
  <2>1. role' = role /\ count' = count /\ op' = op /\ op[p] # "update" /\ pc'[p] = "idle"
    BY <1>4 DEF UnlinkLock, Undisturbed, RoleFits, TypeOK
  <2>2. CountFits' /\ WriterAlone'
    BY <2>1 DEF Undisturbed, CountFits, WriterAlone, CountRead, Readers, Writers
  <2>3. role[p] = "none"
    BY <1>4, <2>1 DEF UnlinkLock, Undisturbed, RoleFits
  <2>4. RoleFits'
    BY <1>1, <2>1, <2>3 DEF Undisturbed, RoleFits, InSection
  <2>5. QED
    BY <1>3, <2>2, <2>4 DEF Undisturbed
<1>5. CASE UnlinkCount(p) \/ CrashSaving(p)
  <2>1. /\ role' = [q \in Proc |-> "none"] /\ count' = NoNumber
        /\ op' = op /\ op[p] # "update"
    BY <1>5 DEF UnlinkCount, CrashSaving, LoseCount
  <2>2. Readers' = {} /\ Writers' = {}
    BY <2>1 DEF Readers, Writers
  <2>3. CountFits' /\ WriterAlone'
    BY <2>1, <2>2, FS_EmptySet DEF CountFits, WriterAlone, CountRead
  <2>4. pc'[p] # "writing"
    BY <1>5 DEF UnlinkCount, CrashSaving, TypeOK
  <2>5. RoleFits'
    BY <1>1, <1>2, <2>1, <2>4 DEF RoleFits, InSection
  <2>6. QED
    BY <1>3, <2>3, <2>5 DEF Undisturbed
<1>6. QED
  BY <1>4, <1>5

LEMMA StaysDisturbed ==
  ASSUME [Next]_vars, ~disturbed' PROVE ~disturbed
BY Zenon DEF Next, Protocol, Removal, vars, EnterRead, EnterWrite, ExitRead, ExitWrite,
   FailWrite, Update, Clean, Begin, Open, Acquire, Load, Busy, Crash, GrantRead,
   GrantWrite, ReleaseRead, ReleaseWrite, ReleaseFailedWrite, Store, UnlinkCount,
   UnlinkLock, CrashSaving, LoseCount

LEMMA Inductive == IInv /\ [Next]_vars => IInv'
<1> SUFFICES ASSUME IInv, [Next]_vars PROVE IInv'
  OBVIOUS
<1>1. TypeOK /\ TypeOK'
  BY NextType DEF IInv
<1>2. ASSUME ~disturbed' PROVE Undisturbed'
  <2>1. Undisturbed
    BY <1>2, StaysDisturbed DEF IInv
  <2>2. CASE UNCHANGED vars
    BY <2>1, <2>2 DEF vars, Undisturbed, FilesCurrent, OneHolder, SeenCurrent, RoleFits,
       WriterAlone, CountFits, HoldsFile, InSection, CountRead, Readers, Writers
  <2>3. CASE Next
    BY <1>1, <1>2, <2>1, <2>3, QuietStep, StoreStep, ForgetStep DEF Next, Protocol, Removal
  <2>4. QED
    BY <2>2, <2>3
<1>3. QED
  BY <1>1, <1>2 DEF IInv

THEOREM InvariantHolds == Spec => []IInv
<1>1. Init => IInv
  BY InitType, InitUndisturbed DEF IInv
<1>2. QED
  BY <1>1, Inductive, PTL DEF Spec

\* While nobody removes the lock files under a process that uses them, a write
\* section excludes everyone else (ReadLock, WriteLock), whoever is killed.
THEOREM WritersExclude == Spec => []LockGuarantee
<1>1. IInv => LockGuarantee
  BY DEF IInv, Undisturbed, WriterAlone, LockGuarantee
<1>2. QED
  BY <1>1, InvariantHolds, PTL

\* Under the same condition the count file says exactly who is inside.
THEOREM CountIsExact == Spec => []CountAgrees
<1>1. IInv => CountAgrees
  BY DEF IInv, Undisturbed, CountFits, CountAgrees
<1>2. QED
  BY <1>1, InvariantHolds, PTL

-----------------------------------------------------------------------------
(* With its files kept, the lock implements ReadersWriters.                *)

LEMMA KeptStep == [KeptNext]_vars => [Next]_vars /\ disturbed' = disturbed
<1>1. KeptNext => Next
  BY DEF KeptNext, Next
<1>2. [KeptNext]_vars => disturbed' = disturbed
  BY Zenon DEF KeptNext, Protocol, vars, EnterRead, EnterWrite, ExitRead, ExitWrite, Begin,
     Open, Acquire, Load, Busy, Crash, GrantRead, GrantWrite, ReleaseRead, ReleaseWrite, Store
<1>3. QED
  BY <1>1, <1>2

LEMMA RefinedStep ==
  ASSUME TypeOK, Undisturbed, [KeptNext]_vars
  PROVE  [RW!Next]_role
<1>1. CASE UNCHANGED vars
  BY <1>1 DEF vars
<1>2. ASSUME NEW p \in Proc,
             EnterRead(p) \/ EnterWrite(p) \/ ExitRead(p) \/ ExitWrite(p) \/ Open(p)
               \/ Acquire(p) \/ Load(p) \/ Busy(p) \/ Crash(p)
      PROVE  role' = role
  BY <1>2 DEF EnterRead, EnterWrite, ExitRead, ExitWrite, Begin, Open, Acquire, Load, Busy, Crash
<1>3. ASSUME NEW p \in Proc, GrantRead(p)
      PROVE  RW!Read(p)
  <2>1. role[p] = "none" /\ CountRead >= 0 /\ role' = [role EXCEPT ![p] = "reader"]
    BY <1>3 DEF GrantRead, Store, Undisturbed, SeenCurrent, RoleFits, InSection
  <2>2. Writers = {}
    BY <2>1 DEF Undisturbed, CountFits
  <2>3. QED
    BY <2>1, <2>2 DEF RW!Read, Writers
<1>4. ASSUME NEW p \in Proc, GrantWrite(p)
      PROVE  RW!Write(p)
  <2>1. CountRead = 0 /\ role' = [role EXCEPT ![p] = "writer"]
    BY <1>4 DEF GrantWrite, Store, Undisturbed, SeenCurrent
  <2>2. Writers = {} /\ Cardinality(Readers) = 0
    BY <2>1 DEF Undisturbed, CountFits
  <2>3. Readers = {}
    BY <2>2, ReadersFinite, FS_EmptySet
  <2>4. QED
    BY <2>1, <2>2, <2>3 DEF RW!Write, Readers, Writers, TypeOK
<1>5. ASSUME NEW p \in Proc, ReleaseRead(p) \/ ReleaseWrite(p)
      PROVE  RW!Release(p)
  BY <1>5 DEF ReleaseRead, ReleaseWrite, Store, RW!Release, Undisturbed, RoleFits, InSection
<1>6. QED
  BY <1>1, <1>2, <1>3, <1>4, <1>5 DEF KeptNext, Protocol, RW!Next

\* With its files kept, and whoever is killed, the two files implement a
\* readers-writer lock.
THEOREM Implements == KeptSpec => ImplementsReadersWriters
<1>1. Init => ~disturbed /\ IInv /\ RW!Init
  BY InitType, InitUndisturbed DEF IInv, Init, RW!Init
<1>2. ~disturbed /\ IInv /\ [KeptNext]_vars => ~disturbed' /\ IInv'
  BY KeptStep, Inductive
<1>3. ~disturbed /\ IInv /\ [KeptNext]_vars => [RW!Next]_role
  BY RefinedStep DEF IInv
<1>4. QED
  BY <1>1, <1>2, <1>3, PTL DEF KeptSpec, ImplementsReadersWriters, RW!Spec

=============================================================================

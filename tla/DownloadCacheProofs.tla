-------------------------- MODULE DownloadCacheProofs --------------------------
(***************************************************************************)
(* Proofs about the download cache, for any number of threads, processes,  *)
(* downloads, chunks, tries and kills.                                     *)
(*                                                                         *)
(* When the threads are all in one process, or each in one of its own: a   *)
(* file that is handed out is whole, and so is one without a mark, and     *)
(* marks are balanced.                                                     *)
(***************************************************************************)
EXTENDS DownloadCache, WellFoundedInduction, TLAPS

\* A thread has the lock in memory of its process, ...
OwnsMutex == \A t \in Thread : pc[t] \in Inside => mutex[processOf[t]] = t

\* ... and a process whose threads are its own has the file.
OwnsFile ==
  Apart => \A t \in Thread :
    pc[t] \in Inside \cup {"thread", "release"} => owner = processOf[t]

\* Only what a download itself does can make its file whole.
Plain == ~checked /\ ~Gzip

\* The first n chunks of the only version there is without a checksum.
Prefix(n) == [i \in Place |-> IF i <= n THEN 1 ELSE Hole]

OneVersion == ~checked => published = 1 /\ \A t \in Thread : version[t] = 1

\* A file without a dirty mark.
Clean ==
  ~corrupted /\ (checked \/ ~Gzip) /\ ~dirty /\ cached # None => Whole(cached)

\* The file and its mark, where a thread is inside.
Of(t) ==
  /\ pc[t] = "clean" => dirty /\ cached = None
  /\ pc[t] = "look" => ~dirty
  /\ pc[t] = "mark" => ~dirty /\ cached = None
  /\ pc[t] \in {"request", "body", "resume", "verify", "error", "undirty"} => dirty
  /\ pc[t] \in {"body", "resume", "verify", "undirty", "copy"} => cached # None
  /\ pc[t] = "body" => opened[t]
  /\ pc[t] \in {"body", "resume"} /\ Plain => cached = Prefix(size[t])
  /\ pc[t] = "verify" /\ Plain => cached = Prefix(Chunks)
  /\ pc[t] \in {"undirty", "copy"} => Passes(cached)
  /\ pc[t] = "undirty" /\ (checked \/ ~Gzip) => Whole(cached)
  /\ pc[t] = "copy" /\ Trusted => Whole(cached)

Handed == Trusted => \A t \in Thread : handed[t] # None => Whole(handed[t]) /\ Passes(handed[t])

Kept == OneVersion /\ Clean /\ Handed /\ \A t \in Thread : Of(t)

Inv == TypeOK /\ OwnsMutex /\ OwnsFile /\ (Apart \/ Together => Kept)

-----------------------------------------------------------------------------
(* Files.                                                                  *)

\* Every file has a last chunk, or none.
LEMMA SizeExists ==
  ASSUME NEW file \in File
  PROVE  \E n \in 0..Chunks : /\ n > 0 => file[n] # Hole
                              /\ \A i \in n + 1..Chunks : file[i] = Hole
<1> DEFINE T == {n \in 0..Chunks : \A i \in n + 1..Chunks : file[i] = Hole}
<1>1. T \subseteq Nat /\ Chunks \in T
  BY ChunksAssumption
<1>2. PICK n \in T : \A m \in T : ~(<<m, n>> \in OpToRel(<, Nat))
  BY <1>1, NatLessThanWellFounded, WFMin
<1>3. \A m \in T : ~(m < n)
  BY <1>1, <1>2 DEF OpToRel
<1>4. n > 0 => file[n] # Hole
  <2> SUFFICES ASSUME n > 0, file[n] = Hole PROVE FALSE
    OBVIOUS
  <2>1. n - 1 \in T
    BY ChunksAssumption
  <2>2. QED
    BY <1>1, <1>3, <2>1
<1>5. QED
  BY <1>4

LEMMA SizeIs ==
  ASSUME NEW file \in File
  PROVE  /\ SizeOf(file) \in 0..Chunks
         /\ SizeOf(file) > 0 => file[SizeOf(file)] # Hole
         /\ \A i \in SizeOf(file) + 1..Chunks : file[i] = Hole
BY SizeExists DEF SizeOf

LEMMA PrefixSize ==
  ASSUME NEW n \in 0..Chunks
  PROVE  Prefix(n) \in File /\ SizeOf(Prefix(n)) = n
<1>1. Prefix(n) \in File
  BY DEF Prefix, File, Version, Hole
<1>2. SizeOf(Prefix(n)) \in 0..Chunks
  BY <1>1, SizeIs
<1>3. ~(SizeOf(Prefix(n)) > n)
  BY <1>1, <1>2, SizeIs, ChunksAssumption DEF Prefix, Place, Hole
<1>4. ~(SizeOf(Prefix(n)) < n)
  BY <1>1, <1>2, SizeIs, ChunksAssumption DEF Prefix, Place, Hole
<1>5. QED
  BY <1>1, <1>2, <1>3, <1>4, ChunksAssumption

LEMMA PrefixGrows ==
  ASSUME NEW n \in 0..Chunks, n < Chunks
  PROVE  [Prefix(n) EXCEPT ![n + 1] = 1] = Prefix(n + 1)
<1>1. [Prefix(n) EXCEPT ![n + 1] = 1] =
        [i \in Place |-> IF i = n + 1 THEN 1 ELSE IF i <= n THEN 1 ELSE Hole]
  BY DEF Prefix
<1>2. \A i \in Place : i <= n + 1 <=> i = n + 1 \/ i <= n
  BY ChunksAssumption DEF Place
<1>3. QED
  BY <1>1, <1>2 DEF Prefix

LEMMA PrefixWhole == Blank = Prefix(0) /\ Whole(Prefix(Chunks))
<1>1. Blank = Prefix(0)
  BY ChunksAssumption DEF Blank, Prefix, Place
<1>2. Prefix(Chunks) = [i \in Place |-> 1]
  BY ChunksAssumption DEF Prefix, Place
<1>3. QED
  BY <1>1, <1>2 DEF Whole, Version

\* With a checksum a file that passes is whole, and no file does not pass.
LEMMA Checksum ==
  ASSUME checked, NEW file, Passes(file)
  PROVE  Whole(file) /\ file # None
<1>1. file = [i \in Place |-> 1]
  BY DEF Passes
<1>2. file \in File
  BY <1>1 DEF File, Version
<1>3. QED
  BY <1>1, <1>2, NoneAssumption DEF Whole, Version

-----------------------------------------------------------------------------
(* Types and locks.                                                        *)

LEMMA InitInv == Init => Inv
<1> SUFFICES ASSUME Init PROVE Inv
  OBVIOUS
<1>1. TypeOK
  <2>1. 0 \in 0..Chunks /\ 0 \in 0..Retry /\ 0 \in 0..MaxDownloads /\ 0 \in 0..MaxKills
        /\ 0 \in 0..MaxUpsets /\ 1 \in Version
    BY BoundsAssumption, ChunksAssumption DEF Version
  <2>2. QED
    BY <2>1 DEF Init, TypeOK
<1>2. OwnsMutex /\ OwnsFile /\ \A t \in Thread : Of(t)
  BY DEF Init, OwnsMutex, OwnsFile, Of, Inside
<1>3. OneVersion /\ Clean /\ Handed
  BY DEF Init, OneVersion, Clean, Handed
<1>4. QED
  BY <1>1, <1>2, <1>3 DEF Inv, Kept

LEMMA RetryTyped ==
  ASSUME TypeOK, NEW t \in Thread, pc[t] \in Inside, TryAgain(t),
         UNCHANGED <<dirty, locks, published, handed, bounds, settled>>
  PROVE  TypeOK'
BY BoundsAssumption DEF TypeOK, TryAgain, Go, Inside, locks, bounds, settled

LEMMA ReadsTyped ==
  ASSUME TypeOK, NEW t \in Thread, NEW from \in 0..Chunks, Reads(t, from), cached' \in File,
         UNCHANGED <<dirty, locks, published, handed, bounds, settled>>
  PROVE  TypeOK'
BY DEF TypeOK, Reads, Go, Inside, locks, bounds, settled

LEMMA TransfersTyped ==
  ASSUME TypeOK, NEW t \in Thread, Transfers(t)
  PROVE  TypeOK'
<1>0. Blank \in File /\ 0 \in 0..Chunks
  BY ChunksAssumption DEF Blank, File
<1>1. CASE Request(t)
  <2>1. CASE Reads(t, 0) /\ cached' = Blank
    BY <1>0, <1>1, <2>1, ReadsTyped DEF Request
  <2>2. CASE TryAgain(t)
    BY <1>1, <2>2, RetryTyped DEF Request, Inside
  <2>3. CASE Go(t, "error") /\ UNCHANGED <<cached, transfer>>
    BY <1>1, <2>3 DEF Request, TypeOK, Go, Inside, locks, transfer, bounds, settled
  <2>4. QED
    BY <1>1, <2>1, <2>2, <2>3 DEF Request
<1>2. CASE Write(t)
  <2>1. size[t] \in 0..Chunks /\ size[t] < Chunks /\ version[t] \in Version
    BY <1>2 DEF Write, TypeOK
  <2>2. size' \in [Thread -> 0..Chunks]
    BY <1>2, <2>1, ChunksAssumption DEF Write, TypeOK
  <2>3. cached' \in File \cup {None}
    BY <1>2, <2>1, ChunksAssumption DEF Write, TypeOK, File, Place
  <2>4. QED
    BY <1>2, <2>2, <2>3 DEF Write, TypeOK, Inside, locks, bounds, settled
<1>3. CASE EndOfBody(t)
  <2>1. CASE TryAgain(t)
    BY <1>3, <2>1, RetryTyped DEF EndOfBody, Inside
  <2>2. CASE (Go(t, "verify") \/ Go(t, "resume")) /\ UNCHANGED <<cached, transfer>>
    BY <1>3, <2>2 DEF EndOfBody, TypeOK, Go, Inside, locks, transfer, bounds, settled
  <2>3. QED
    BY <1>3, <2>1, <2>2 DEF EndOfBody
<1>4. CASE Resume(t)
  <2>1. CASE cached # None /\ Reads(t, SizeOf(cached))
    <3>1. cached \in File /\ SizeOf(cached) \in 0..Chunks
      BY <2>1, SizeIs DEF TypeOK
    <3>2. cached' \in File
      BY <1>0, <1>4, <2>1, <3>1 DEF Resume, Reads, TryAgain, TypeOK
    <3>3. QED
      BY <1>4, <2>1, <3>1, <3>2, ReadsTyped DEF Resume
  <2>2. CASE Reads(t, 0) /\ cached' = Blank
    BY <1>0, <1>4, <2>2, ReadsTyped DEF Resume
  <2>3. CASE TryAgain(t)
    BY <1>4, <2>3, RetryTyped DEF Resume, Inside
  <2>4. QED
    BY <1>4, <2>1, <2>2, <2>3 DEF Resume
<1>5. CASE Verify(t)
  BY <1>5 DEF Verify, TypeOK, Goes, Go, Inside, locks, transfer, bounds, settled
<1>6. CASE Fail(t)
  BY <1>6 DEF Fail, Remove, TypeOK, Goes, Go, Inside, locks, bounds, settled
<1>7. QED
  BY <1>1, <1>2, <1>3, <1>4, <1>5, <1>6 DEF Transfers

LEMMA StepsTyped ==
  ASSUME TypeOK, NEW t \in Thread, Step(t)
  PROVE  TypeOK'
<1> USE PlacementsAssumption, ChunksAssumption, BoundsAssumption DEF TypeOK, Goes,
  Go, Inside
<1>1. CASE LockFile(t)
  BY <1>1 DEF LockFile, transfer, bounds, settled
<1>2. CASE LockThread(t)
  BY <1>2 DEF LockThread, transfer, bounds, settled
<1>3. CASE UnlockThread(t)
  BY <1>3 DEF UnlockThread, transfer, bounds, settled
<1>4. CASE ReleaseFile(t)
  BY <1>4 DEF ReleaseFile, transfer, bounds, settled
<1>5. CASE CheckDirty(t)
  BY <1>5 DEF CheckDirty, Remove, locks, bounds, settled
<1>6. CASE CleanDirty(t)
  BY <1>6 DEF CleanDirty, locks, transfer, bounds, settled
<1>7. CASE Look(t)
  BY <1>7 DEF Look, Remove, locks, bounds, settled
<1>8. CASE Mark(t)
  BY <1>8 DEF Mark, locks, transfer, bounds, settled
<1>9. CASE Copy(t)
  BY <1>9 DEF Copy, locks, transfer, bounds, settled
<1>10. CASE Transfers(t)
  BY <1>10, TransfersTyped
<1>11. QED
  BY <1>1, <1>2, <1>3, <1>4, <1>5, <1>6, <1>7, <1>8, <1>9, <1>10 DEF Step

LEMMA PlacementKept ==
  ASSUME processOf' = processOf
  PROVE  (Apart' <=> Apart) /\ (Together' <=> Together)
BY DEF Apart, Together

\* Inside, a thread keeps both locks, and nobody else changes where he is.
LEMMA InsideMoves ==
  ASSUME TypeOK, NEW t \in Thread, Step(t), pc[t] \in Inside, pc[t] # "unlock"
  PROVE  /\ pc'[t] \in Inside /\ \A u \in Thread : u # t => pc'[u] = pc[u]
         /\ UNCHANGED <<locks, processOf>>
<1> USE DEF TypeOK, Goes, Go, Inside
<1>1. CASE CheckDirty(t) \/ CleanDirty(t) \/ Look(t) \/ Mark(t) \/ Copy(t)
  BY <1>1 DEF CheckDirty, CleanDirty, Look, Mark, Copy, settled
<1>2. CASE Transfers(t)
  BY <1>2 DEF Transfers, Request, Reads, TryAgain, Write, EndOfBody, Resume,
      Verify, Fail, settled
<1>3. QED
  BY <1>1, <1>2 DEF Step, LockFile, LockThread, UnlockThread, ReleaseFile

\* The steps with the locks change nothing else.
Locking(t) == LockFile(t) \/ LockThread(t) \/ UnlockThread(t) \/ ReleaseFile(t)

LEMMA StepsOwn ==
  ASSUME TypeOK, OwnsMutex, OwnsFile, NEW t \in Thread, Step(t)
  PROVE  OwnsMutex' /\ OwnsFile' /\ processOf' = processOf
<1> USE PlacementsAssumption, NobodyAssumption
    DEF TypeOK, Goes, Go, OwnsMutex, OwnsFile, Apart
<1>1. CASE LockFile(t)
  BY <1>1 DEF LockFile, settled, Inside
<1>2. CASE LockThread(t)
  BY <1>2 DEF LockThread, settled, Inside
<1>3. CASE UnlockThread(t)
  BY <1>3 DEF UnlockThread, settled, Inside
<1>4. CASE ReleaseFile(t)
  BY <1>4 DEF ReleaseFile, settled, Inside
<1>5. CASE ~Locking(t)
  <2>1. pc[t] \in Inside /\ pc[t] # "unlock"
    BY <1>5 DEF Locking, Step, CheckDirty, CleanDirty, Look, Mark, Copy, Transfers, Request,
                Write, EndOfBody, Resume, Verify, Fail, Inside
  <2>2. /\ pc'[t] \in Inside /\ \A u \in Thread : u # t => pc'[u] = pc[u]
        /\ UNCHANGED <<locks, processOf>>
    BY <2>1, InsideMoves
  <2>3. QED
    BY <2>1, <2>2 DEF locks
<1>6. QED
  BY <1>1, <1>2, <1>3, <1>4, <1>5 DEF Locking

\* Nobody else is inside when threads and processes do not mix.
LEMMA InsideAlone ==
  ASSUME TypeOK, OwnsMutex, OwnsFile, Apart \/ Together,
         NEW t \in Thread, NEW u \in Thread, pc[t] \in Inside, pc[u] \in Inside
  PROVE  t = u
<1>1. mutex[processOf[t]] = t /\ mutex[processOf[u]] = u
  BY DEF OwnsMutex
<1>2. CASE Together
  BY <1>1, <1>2 DEF Together
<1>3. CASE Apart
  <2>1. processOf[t] = processOf[u]
    BY <1>3 DEF OwnsFile
  <2>2. QED
    BY <1>3, <2>1 DEF Apart
<1>4. QED
  BY <1>2, <1>3

-----------------------------------------------------------------------------
(* What a step inside does to the file.                                    *)

\* A step of the download leaves a mark, hands nothing out, and knows one
\* version if there is one.
LEMMA Downloading ==
  ASSUME TypeOK, Kept, NEW t \in Thread, Transfers(t)
  PROVE  /\ dirty /\ Clean' /\ Handed' /\ OneVersion'
         /\ UNCHANGED <<dirty, handed, checked, corrupted>>
<1>1. pc[t] \in {"request", "body", "resume", "verify", "error"}
  BY DEF Transfers, Request, Write, EndOfBody, Resume, Verify, Fail, Goes
<1>2. dirty
  BY <1>1 DEF Kept, Of
<1>3. UNCHANGED <<dirty, published, handed, checked, corrupted>>
  BY DEF Transfers, Request, Write, EndOfBody, Resume, Verify, Fail, bounds, settled
<1>4. version' = version \/ version' = [version EXCEPT ![t] = published]
  BY DEF Transfers, Request, Write, EndOfBody, Resume, Verify, Fail, Reads,
      TryAgain, transfer
<1>5. OneVersion'
  BY <1>3, <1>4 DEF Kept, OneVersion, TypeOK
<1>6. QED
  BY <1>2, <1>3, <1>5 DEF Kept, Clean, Handed, Trusted, Passes

LEMMA RequestKeeps ==
  ASSUME TypeOK, Kept, NEW t \in Thread, Request(t)
  PROVE  Of(t)'
<1>1. pc[t] = "request" /\ dirty /\ dirty' = dirty
  BY DEF Request, Kept, Of
<1>2. CASE Reads(t, 0) /\ cached' = Blank
  <2>1. pc'[t] = "body" /\ opened'[t] /\ size'[t] = 0
    BY <1>2 DEF Reads, Go, TypeOK
  <2>2. cached' # None /\ cached' = Prefix(0)
    BY <1>2, PrefixSize, PrefixWhole, NoneAssumption, ChunksAssumption
  <2>3. QED
    BY <1>1, <2>1, <2>2 DEF Of
<1>3. CASE TryAgain(t) \/ Go(t, "error")
  <2>1. pc'[t] \in {"request", "error"}
    BY <1>3 DEF TryAgain, Go, TypeOK
  <2>2. QED
    BY <1>1, <2>1 DEF Of
<1>4. QED
  BY <1>2, <1>3 DEF Request

LEMMA WriteKeeps ==
  ASSUME TypeOK, Kept, NEW t \in Thread, Write(t)
  PROVE  Of(t)'
<1>1. /\ pc[t] = "body" /\ pc' = pc /\ dirty /\ dirty' = dirty /\ opened[t] /\ opened' = opened
      /\ cached # None /\ size[t] \in 0..Chunks /\ size[t] < Chunks
      /\ size'[t] = size[t] + 1 /\ checked' = checked
  BY DEF Write, Kept, Of, TypeOK, settled
<1>2. cached \in File /\ cached' = [cached EXCEPT ![size[t] + 1] = version[t]]
  BY <1>1 DEF Write, TypeOK
<1>3. cached' # None
  BY <1>1, <1>2, NoneAssumption, ChunksAssumption DEF TypeOK, File, Place
<1>4. ASSUME Plain
      PROVE  cached' = Prefix(size'[t])
  <2>1. cached = Prefix(size[t]) /\ version[t] = 1
    BY <1>1, <1>4 DEF Kept, Of, OneVersion, Plain
  <2>2. QED
    BY <1>1, <1>2, <2>1, PrefixGrows
<1>5. QED
  BY <1>1, <1>3, <1>4 DEF Of, Plain

LEMMA EndOfBodyKeeps ==
  ASSUME TypeOK, Kept, NEW t \in Thread, EndOfBody(t)
  PROVE  Of(t)'
<1>1. /\ pc[t] = "body" /\ dirty /\ dirty' = dirty /\ cached # None /\ checked' = checked
      /\ Plain => cached = Prefix(size[t])
  BY DEF EndOfBody, Kept, Of, settled
<1>2. CASE TryAgain(t)
  <2>1. pc'[t] \in {"request", "error"}
    BY <1>2 DEF TryAgain, Go, TypeOK
  <2>2. QED
    BY <1>1, <2>1 DEF Of
<1>3. CASE Go(t, "resume") /\ UNCHANGED <<cached, transfer>>
  BY <1>1, <1>3 DEF Of, Plain, Go, TypeOK, transfer
<1>4. CASE Go(t, "verify") /\ UNCHANGED cached /\ (size[t] = Chunks \/ Gzip)
  BY <1>1, <1>4 DEF Of, Plain, Go, TypeOK
<1>5. QED
  BY <1>2, <1>3, <1>4 DEF EndOfBody

LEMMA ResumeKeeps ==
  ASSUME TypeOK, Kept, NEW t \in Thread, Resume(t)
  PROVE  Of(t)'
<1>1. /\ pc[t] = "resume" /\ dirty /\ dirty' = dirty /\ cached # None /\ checked' = checked
      /\ Plain => cached = Prefix(size[t])
  BY DEF Resume, Kept, Of, settled
<1>2. CASE TryAgain(t)
  <2>1. pc'[t] \in {"request", "error"}
    BY <1>2 DEF TryAgain, Go, TypeOK
  <2>2. QED
    BY <1>1, <2>1 DEF Of
<1>3. CASE /\ Reads(t, SizeOf(cached))
           /\ cached' = IF SizeOf(cached) = 0 THEN Blank ELSE cached
  <2>1. pc'[t] = "body" /\ opened'[t] /\ size'[t] = SizeOf(cached)
    BY <1>3 DEF Reads, Go, TypeOK
  <2>2. cached' # None
    BY <1>1, <1>3, PrefixSize, PrefixWhole, NoneAssumption, ChunksAssumption
  <2>3. Plain => cached' = Prefix(size'[t])
    BY <1>1, <1>3, <2>1, PrefixSize, PrefixWhole DEF TypeOK
  <2>4. QED
    BY <1>1, <2>1, <2>2, <2>3 DEF Of, Plain
<1>4. QED
  BY <1>1, <1>2, <1>3 DEF Resume

LEMMA VerifyKeeps ==
  ASSUME TypeOK, Kept, NEW t \in Thread, Verify(t)
  PROVE  Of(t)'
<1>1. /\ pc[t] = "verify" /\ dirty /\ cached # None /\ UNCHANGED <<dirty, cached, checked>>
      /\ Plain => cached = Prefix(Chunks)
  BY DEF Verify, Goes, Kept, Of, settled
<1>2. pc'[t] = IF Passes(cached) THEN "undirty" ELSE "error"
  BY DEF Verify, Goes, Go, TypeOK
<1>3. ASSUME Passes(cached), checked \/ ~Gzip
      PROVE  Whole(cached)
  BY <1>1, <1>3, Checksum, PrefixWhole DEF Plain
<1>4. QED
  BY <1>1, <1>2, <1>3 DEF Of, Passes

LEMMA TransfersKeep ==
  ASSUME TypeOK, Kept, NEW t \in Thread, Transfers(t)
  PROVE  OneVersion' /\ Clean' /\ Handed' /\ Of(t)'
<1>1. OneVersion' /\ Clean' /\ Handed'
  BY Downloading
<1>2. CASE Fail(t)
  <2>1. pc'[t] = "unlock"
    BY <1>2 DEF Fail, Goes, Go, TypeOK
  <2>2. QED
    BY <1>1, <2>1 DEF Of
<1>3. QED
  BY <1>1, <1>2, RequestKeeps, WriteKeeps, EndOfBodyKeeps, ResumeKeeps, VerifyKeeps
     DEF Transfers

LEMMA CacheStepsKeep ==
  ASSUME TypeOK, Kept, NEW t \in Thread,
         CheckDirty(t) \/ CleanDirty(t) \/ Look(t) \/ Mark(t) \/ Copy(t)
  PROVE  OneVersion' /\ Clean' /\ Handed' /\ Of(t)'
<1>1. UNCHANGED <<published, version, checked, corrupted>>
  BY DEF CheckDirty, CleanDirty, Look, Mark, Copy, transfer, bounds, settled
<1>2. OneVersion'
  BY <1>1 DEF Kept, OneVersion
<1>3. CASE CheckDirty(t)
  <2>1. /\ pc'[t] = IF dirty THEN "clean" ELSE "look"
        /\ cached' = IF dirty THEN None ELSE cached
        /\ UNCHANGED <<dirty, handed>>
    BY <1>3 DEF CheckDirty, Remove, Goes, Go, TypeOK
  <2>2. QED
    BY <1>1, <1>2, <2>1 DEF Kept, Clean, Handed, Trusted, Passes, Of
<1>4. CASE CleanDirty(t)
  <2>1. /\ pc[t] \in {"clean", "undirty"} /\ dirty /\ Of(t)
        /\ pc'[t] = IF pc[t] = "clean" THEN "look" ELSE "copy"
        /\ dirty' = FALSE
        /\ UNCHANGED <<cached, handed>>
    BY <1>4 DEF CleanDirty, Go, TypeOK, Kept, Of
  <2>2. Handed'
    BY <1>1, <2>1 DEF Kept, Handed, Trusted, Passes
  <2>3. Clean' /\ Of(t)'
    BY <1>1, <2>1 DEF Clean, Of, Passes, Trusted
  <2>4. QED
    BY <1>2, <2>2, <2>3
<1>5. CASE Look(t)
  <2>1. /\ pc[t] = "look" /\ ~dirty
        /\ pc'[t] = IF cached # None /\ Passes(cached) THEN "copy" ELSE "mark"
        /\ cached' = IF cached # None /\ ~Passes(cached) THEN None ELSE cached
        /\ UNCHANGED <<dirty, handed>>
    BY <1>5 DEF Look, Remove, Goes, Go, TypeOK, Kept, Of
  <2>2. ASSUME cached # None, Passes(cached), Trusted
        PROVE  Whole(cached)
    BY <2>1, <2>2, Checksum DEF Kept, Clean, Trusted
  <2>3. Clean' /\ Handed'
    BY <1>1, <2>1 DEF Kept, Clean, Handed, Trusted, Passes
  <2>4. CASE cached # None /\ Passes(cached)
    BY <1>1, <1>2, <2>1, <2>2, <2>3, <2>4 DEF Of, Passes, Trusted
  <2>5. CASE ~(cached # None /\ Passes(cached))
    BY <1>1, <1>2, <2>1, <2>3, <2>5 DEF Of
  <2>6. QED
    BY <2>4, <2>5
<1>6. CASE Mark(t)
  <2>1. /\ pc[t] = "mark" /\ ~dirty /\ cached = None
        /\ pc'[t] = "request" /\ dirty' = TRUE /\ UNCHANGED <<cached, handed>>
    BY <1>6 DEF Mark, Goes, Go, TypeOK, Kept, Of
  <2>2. QED
    BY <1>1, <1>2, <2>1 DEF Kept, Clean, Handed, Trusted, Passes, Of
<1>7. CASE Copy(t)
  <2>1. /\ pc[t] = "copy" /\ pc'[t] = "unlock" /\ Passes(cached)
        /\ Trusted => Whole(cached)
        /\ handed' = [handed EXCEPT ![t] = cached] /\ UNCHANGED <<cached, dirty>>
    BY <1>7 DEF Copy, Goes, Go, TypeOK, Kept, Of
  <2>2. Handed'
    BY <1>1, <2>1 DEF Kept, Handed, Trusted, Passes, TypeOK
  <2>3. QED
    BY <1>1, <1>2, <2>1, <2>2 DEF Kept, Clean, Of
<1>8. QED
  BY <1>3, <1>4, <1>5, <1>6, <1>7

LEMMA LockingKeeps ==
  ASSUME TypeOK, Kept, NEW t \in Thread, Locking(t)
  PROVE  Kept'
<1>1. /\ \A u \in Thread :
           pc'[u] = pc[u] \/ pc'[u] \in {"thread", "check", "release", "idle"}
      /\ UNCHANGED <<cached, dirty, published, transfer, handed, corrupted, checked>>
  BY DEF Locking, LockFile, LockThread, UnlockThread, ReleaseFile, Goes, Go, TypeOK, bounds,
         settled
<1>2. OneVersion' /\ Clean' /\ Handed'
  BY <1>1 DEF Kept, OneVersion, Clean, Handed, Trusted, Passes, transfer
<1>3. ASSUME NEW u \in Thread
      PROVE  Of(u)'
  <2>1. CASE pc'[u] = pc[u]
    BY <1>1, <2>1 DEF Kept, Of, Plain, Passes, Trusted, transfer
  <2>2. CASE pc'[u] \in {"thread", "check", "release", "idle"}
    BY <2>2 DEF Of
  <2>3. QED
    BY <1>1, <2>1, <2>2
<1>4. QED
  BY <1>2, <1>3 DEF Kept

LEMMA StepsKeep ==
  ASSUME Inv, Apart \/ Together, NEW t \in Thread, Step(t)
  PROVE  Kept'
<1>0. TypeOK /\ OwnsMutex /\ OwnsFile /\ Kept
  BY DEF Inv
<1>1. CASE Locking(t)
  BY <1>0, <1>1, LockingKeeps
<1>2. CASE ~Locking(t)
  <2>1. OneVersion' /\ Clean' /\ Handed' /\ Of(t)'
    BY <1>0, <1>2, CacheStepsKeep, TransfersKeep DEF Step, Locking
  <2>2. pc[t] \in Inside /\ pc[t] # "unlock"
    BY <1>2 DEF Locking, Step, CheckDirty, CleanDirty, Look, Mark, Copy, Transfers, Request,
                Write, EndOfBody, Resume, Verify, Fail, Goes, Inside
  <2>3. ASSUME NEW u \in Thread, u # t
        PROVE  Of(u)'
    <3>1. pc'[u] = pc[u] /\ pc[u] \notin Inside
      BY <1>0, <2>2, <2>3, InsideMoves, InsideAlone
    <3>2. QED
      BY <3>1 DEF Of, Inside
  <2>4. QED
    BY <2>1, <2>3 DEF Kept
<1>3. QED
  BY <1>1, <1>2

-----------------------------------------------------------------------------
(* The rest of the world.                                                  *)

LEMMA StartInv ==
  ASSUME Inv, NEW t \in Thread, Start(t)
  PROVE  Inv'
<1>0. TypeOK /\ OwnsMutex /\ OwnsFile
  BY DEF Inv
<1>1. /\ pc' = [pc EXCEPT ![t] = "file"] /\ pc[t] = "idle"
      /\ handed' = [handed EXCEPT ![t] = None]
      /\ tries' = [tries EXCEPT ![t] = 0]
      /\ downloads' = downloads + 1 /\ downloads < MaxDownloads
      /\ UNCHANGED <<cached, dirty, owner, mutex, published, opened, start, size,
        version, kills,
                     upsets, corrupted, processOf, checked>>
  BY DEF Start, Goes, Go, locks, settled
<1>2. TypeOK'
  BY <1>0, <1>1, BoundsAssumption DEF TypeOK
<1>3. OwnsMutex' /\ OwnsFile'
  BY <1>0, <1>1 DEF TypeOK, OwnsMutex, OwnsFile, Apart, Inside
<1>4. ASSUME Kept
      PROVE  Kept'
  <2>1. OneVersion' /\ Clean' /\ Handed'
    BY <1>0, <1>1, <1>4 DEF Kept, OneVersion, Clean, Handed, Trusted, Passes, TypeOK
  <2>2. \A u \in Thread : Of(u)'
    BY <1>0, <1>1, <1>4 DEF Kept, Of, Plain, Passes, Trusted, TypeOK
  <2>3. QED
    BY <2>1, <2>2 DEF Kept
<1>5. QED
  BY <1>1, <1>2, <1>3, <1>4, PlacementKept DEF Inv

LEMMA KillInv ==
  ASSUME Inv, NEW p \in Process, Kill(p)
  PROVE  Inv'
<1> DEFINE mine == {t \in Thread : processOf[t] = p}
<1>0. TypeOK /\ OwnsMutex /\ OwnsFile
  BY DEF Inv
<1>1. /\ kills' = kills + 1 /\ kills < MaxKills
      /\ pc' = [t \in Thread |-> IF t \in mine THEN "idle" ELSE pc[t]]
      /\ owner' = IF owner = p THEN Nobody ELSE owner
      /\ mutex' = [mutex EXCEPT ![p] = Nobody]
      /\ UNCHANGED <<cached, dirty, published, opened, start, size, version, tries, handed,
                     downloads, upsets, corrupted, processOf, checked>>
  BY DEF Kill, transfer, settled
<1>2. TypeOK'
  BY <1>0, <1>1, BoundsAssumption DEF TypeOK
<1>3. \A t \in Thread : pc'[t] # "idle" => pc'[t] = pc[t] /\ processOf[t] # p
  BY <1>1
<1>4. OwnsMutex'
  BY <1>0, <1>1, <1>3, PlacementsAssumption DEF TypeOK, OwnsMutex, Inside
<1>5. OwnsFile'
  BY <1>0, <1>1, <1>3 DEF OwnsFile, Apart, Inside
<1>6. ASSUME Kept
      PROVE  Kept'
  <2>1. OneVersion' /\ Clean' /\ Handed'
    BY <1>1, <1>6 DEF Kept, OneVersion, Clean, Handed, Trusted, Passes
  <2>2. \A u \in Thread : Of(u)'
    BY <1>1, <1>3, <1>6 DEF Kept, Of, Plain, Passes, Trusted
  <2>3. QED
    BY <2>1, <2>2 DEF Kept
<1>7. QED
  BY <1>1, <1>2, <1>4, <1>5, <1>6, PlacementKept DEF Inv

LEMMA PublishInv ==
  ASSUME Inv, NEW v \in Version, Publish(v)
  PROVE  Inv'
<1>0. TypeOK /\ OwnsMutex /\ OwnsFile
  BY DEF Inv
<1>1. /\ checked /\ published' = v /\ upsets < MaxUpsets /\ upsets' = upsets + 1
      /\ UNCHANGED <<cached, dirty, owner, mutex, pc, opened, start, size, version,
        tries, handed,
                     downloads, kills, corrupted, processOf, checked>>
  BY DEF Publish, Upset, locks, transfer, settled
<1>2. TypeOK'
  BY <1>0, <1>1, BoundsAssumption DEF TypeOK
<1>3. OwnsMutex' /\ OwnsFile'
  BY <1>0, <1>1 DEF OwnsMutex, OwnsFile, Apart
<1>4. ASSUME Kept
      PROVE  Kept'
  BY <1>1, <1>4 DEF Kept, OneVersion, Clean, Handed, Of, Plain, Passes, Trusted
<1>5. QED
  BY <1>1, <1>2, <1>3, <1>4, PlacementKept DEF Inv

LEMMA CorruptInv ==
  ASSUME Inv, NEW i \in Place, Corrupt(i)
  PROVE  Inv'
<1>0. TypeOK /\ OwnsMutex /\ OwnsFile
  BY DEF Inv
<1>1. /\ cached # None /\ cached' = [cached EXCEPT ![i] = Hole] /\ corrupted' = TRUE
      /\ upsets < MaxUpsets /\ upsets' = upsets + 1
      /\ \A t \in Thread : pc[t] \notin Inside
      /\ UNCHANGED <<dirty, owner, mutex, published, pc, opened, start, size,
        version, tries, handed,
                     downloads, kills, processOf, checked>>
  BY DEF Corrupt, Upset, locks, transfer, settled
<1>2. TypeOK'
  BY <1>0, <1>1, BoundsAssumption DEF TypeOK, File
<1>3. OwnsMutex' /\ OwnsFile'
  BY <1>0, <1>1 DEF OwnsMutex, OwnsFile, Apart
<1>4. ASSUME Kept
      PROVE  Kept'
  <2>1. OneVersion' /\ Clean' /\ Handed'
    BY <1>1, <1>4 DEF Kept, OneVersion, Clean, Handed, Trusted, Passes
  <2>2. \A u \in Thread : Of(u)'
    BY <1>1 DEF Of, Inside
  <2>3. QED
    BY <2>1, <2>2 DEF Kept
<1>5. QED
  BY <1>1, <1>2, <1>3, <1>4, PlacementKept DEF Inv

LEMMA SpecInv == Spec => []Inv
<1>1. Inv /\ [Next]_vars => Inv'
  <2> SUFFICES ASSUME Inv, [Next]_vars PROVE Inv'
    OBVIOUS
  <2>1. CASE UNCHANGED vars
    BY <2>1 DEF vars, locks, transfer, bounds, settled, Inv, TypeOK, OwnsMutex,
        OwnsFile, Kept,
                OneVersion, Clean, Handed, Of, Plain, Passes, Trusted, Apart, Together
  <2>2. ASSUME NEW t \in Thread, Step(t)
        PROVE  Inv'
    <3>1. TypeOK' /\ OwnsMutex' /\ OwnsFile' /\ processOf' = processOf
      BY <2>2, StepsTyped, StepsOwn DEF Inv
    <3>2. Apart \/ Together => Kept'
      BY <2>2, StepsKeep
    <3>3. QED
      BY <3>1, <3>2, PlacementKept DEF Inv
  <2>3. QED
    BY <2>1, <2>2, StartInv, KillInv, PublishInv, CorruptInv DEF Next
<1>2. QED
  BY <1>1, InitInv, PTL DEF Spec

-----------------------------------------------------------------------------
\* Every reachable state of the download cache is of its type: sizes and tries
\* stay in their bounds (_download_file, _call_with_retry).
THEOREM TypeCorrect == Spec => []TypeOK
<1>1. Inv => TypeOK
  BY DEF Inv
<1>2. QED
  BY <1>1, SpecInv, PTL

\* Whatever is retried, resumed, cut short, killed or published meanwhile, what
\* CachedFileDownloader.download hands out is the whole file that was asked for.
THEOREM WholeIsHanded == Spec => []HandedWhole
<1>1. Inv => HandedWhole
  BY DEF Inv, Kept, Handed, HandedWhole, AlwaysWhole
<1>2. QED
  BY <1>1, SpecInv, PTL

\* A file in the cache without a dirty mark is whole, however many downloads
\* were killed while they wrote it (is_dirty, set_dirty, clean_dirty).
THEOREM CleanFilesAreWhole == Spec => []CleanIsWhole
<1>1. Inv => CleanIsWhole
  BY DEF Inv, Kept, Clean, CleanIsWhole
<1>2. QED
  BY <1>1, SpecInv, PTL

\* set_dirty never finds a mark or a file, and clean_dirty never misses a mark,
\* so that no download leaves a file that cannot be downloaded again.
THEOREM MarksAreBalanced == Spec => []MarksBalanced
<1>1. Inv => MarksBalanced
  BY DEF Inv, Kept, Of, MarksBalanced
<1>2. QED
  BY <1>1, SpecInv, PTL
=============================================================================

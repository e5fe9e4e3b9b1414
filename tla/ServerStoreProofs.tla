------------------------- MODULE ServerStoreProofs -------------------------
(***************************************************************************)
(* Proofs about the storage of the server, for any revisions, requests and *)
(* crashes.                                                                *)
(***************************************************************************)
EXTENDS ServerStore, SequenceTheorems, WellFoundedInduction, TLAPS

-----------------------------------------------------------------------------
(* Revision lists.                                                         *)

LEMMA LeastIndex ==
  ASSUME NEW T, T \subseteq Nat, T # {}
  PROVE  \E i \in T : \A j \in T : i <= j
<1> DEFINE R == OpToRel(<, Nat)
<1>1. IsWellFoundedOn(R, Nat)
  BY NatLessThanWellFounded
<1>2. \E i \in T : \A j \in T : ~(<<j, i>> \in R)
  <2> HIDE DEF R
  <2>1. QED
    BY <1>1, WFMin
<1>3. ASSUME NEW i \in Nat, NEW j \in Nat, j < i PROVE <<j, i>> \in R
  <2>1. R = {ss \in Nat \X Nat : ss[1] < ss[2]}
    BY DEF OpToRel
  <2> HIDE DEF R
  <2>2. QED
    BY <1>3, <2>1
<1>4. QED
  <2>1. PICK i \in T : \A j \in T : ~(<<j, i>> \in R)
    BY <1>2
  <2> HIDE DEF R
  <2>2. ASSUME NEW j \in T PROVE i <= j
    <3>1. i \in Nat /\ j \in Nat
      OBVIOUS
    <3>2. ~(j < i)
      BY <1>3, <2>1, <3>1
    <3>3. QED
      BY <3>1, <3>2
  <2>3. QED
    BY <2>2

LEMMA FindFirst ==
  ASSUME NEW S, NEW l \in Seq(S), NEW r
  PROVE  /\ Find(l, r) = 0 <=> r \notin ToSet(l)
         /\ Find(l, r) # 0 => Find(l, r) \in 1..Len(l) /\ l[Find(l, r)] = r
<1>1. CASE r \notin ToSet(l)
  BY <1>1 DEF Find
<1>2. CASE r \in ToSet(l)
  <2> DEFINE T == {i \in DOMAIN l : l[i] = r}
  <2>1. DOMAIN l = 1..Len(l) /\ Len(l) \in Nat
    OBVIOUS
  <2>2. T # {} /\ T \subseteq Nat
    BY <1>2, <2>1 DEF ToSet
  <2>3. \E i \in T : \A j \in T : i <= j
    <3> HIDE DEF T
    <3>1. QED
      BY <2>2, LeastIndex
  <2>4. \E i \in DOMAIN l : l[i] = r /\ \A j \in DOMAIN l : l[j] = r => i <= j
    BY <2>3
  <2>5. Find(l, r) \in DOMAIN l /\ l[Find(l, r)] = r
    BY <1>2, <2>4 DEF Find
  <2>6. QED
    BY <1>2, <2>1, <2>5
<1>3. QED
  BY <1>1, <1>2

\* Removing one entry keeps all the others.
LEMMA RemoveAtKeeps ==
  ASSUME NEW S, NEW l \in Seq(S), NEW i \in 1..Len(l)
  PROVE  /\ RemoveAt(l, i) \in Seq(S)
         /\ ToSet(RemoveAt(l, i)) \subseteq ToSet(l)
         /\ \A j \in 1..Len(l) : j # i => l[j] \in ToSet(RemoveAt(l, i))
<1> DEFINE a == SubSeq(l, 1, i - 1)
           b == SubSeq(l, i + 1, Len(l))
           n == Len(l)
<1>1. n \in Nat /\ i \in 1..n /\ \A j \in 1..n : l[j] \in S
  OBVIOUS
<1>2. /\ a \in Seq(S) /\ Len(a) = i - 1
      /\ \A j \in 1..(i - 1) : a[j] = l[j]
  <2>1. \A j \in 1..(i - 1) : l[j] \in S
    BY <1>1
  <2>2. i - 1 \in Int /\ 1 \in Int /\ (1 <= i - 1 \/ i - 1 = 0)
    BY <1>1
  <2>3. QED
    BY <2>1, <2>2, SubSeqProperties
<1>3. /\ b \in Seq(S) /\ Len(b) = n - i
      /\ \A j \in 1..(n - i) : b[j] = l[i + j]
  <2>1. \A j \in (i + 1)..n : l[j] \in S
    BY <1>1
  <2>2. i + 1 \in Int /\ n \in Int /\ (i + 1 <= n \/ i = n)
    BY <1>1
  <2>3. /\ b \in Seq(S) /\ Len(b) = IF i + 1 <= n THEN n - (i + 1) + 1 ELSE 0
        /\ \A j \in 1..(n - (i + 1) + 1) : b[j] = l[i + 1 + j - 1]
    BY <2>1, <2>2, SubSeqProperties
  <2>4. QED
    BY <2>2, <2>3, <1>1
<1>4. /\ a \o b \in Seq(S) /\ Len(a \o b) = n - 1
      /\ \A j \in 1..(n - 1) : (a \o b)[j] = IF j < i THEN l[j] ELSE l[j + 1]
  <2> HIDE DEF a, b, n
  <2>1. /\ a \o b \in Seq(S) /\ Len(a \o b) = Len(a) + Len(b)
        /\ \A j \in 1..(Len(a) + Len(b)) :
              (a \o b)[j] = IF j <= Len(a) THEN a[j] ELSE b[j - Len(a)]
    BY <1>2, <1>3, ConcatProperties
  <2>2. QED
    BY <1>1, <1>2, <1>3, <2>1
<1>5. RemoveAt(l, i) = a \o b
  BY DEF RemoveAt
<1> DEFINE c == a \o b
<1> HIDE DEF a, b, c, n
<1>6. c \in Seq(S) /\ Len(c) = n - 1 /\ DOMAIN c = 1..(n - 1)
  BY <1>4 DEF c
<1>7. \A j \in 1..(n - 1) : c[j] = IF j < i THEN l[j] ELSE l[j + 1]
  BY <1>4 DEF c
<1>8. \A j \in 1..n : j # i => l[j] \in ToSet(c)
  <2> TAKE j \in 1..n
  <2>1. CASE j < i
    <3>1. j \in 1..(n - 1) /\ c[j] = l[j]
      BY <1>1, <1>7, <2>1
    <3>2. QED
      BY <1>6, <3>1 DEF ToSet
  <2>2. CASE j > i
    <3>1. j - 1 \in 1..(n - 1) /\ ~(j - 1 < i) /\ j - 1 + 1 = j
      BY <1>1, <2>2
    <3>2. c[j - 1] = l[j]
      BY <1>7, <3>1
    <3>3. QED
      BY <1>6, <3>1, <3>2 DEF ToSet
  <2>3. QED
    BY <1>1, <2>1, <2>2
<1>9. \A j \in 1..(n - 1) : c[j] \in ToSet(l)
  <2>1. DOMAIN l = 1..n
    BY DEF n
  <2>2. \A j \in 1..(n - 1) : j \in 1..n /\ j + 1 \in 1..n
    BY <1>1
  <2>3. QED
    BY <1>7, <2>1, <2>2 DEF ToSet
<1>10. QED
  BY <1>5, <1>6, <1>8, <1>9 DEF ToSet, c, n

\* Removing a revision loses no other.
LEMMA RemoveRevisionKeeps ==
  ASSUME NEW S, NEW l \in Seq(S), NEW r
  PROVE  /\ RemoveRevision(l, r) \in Seq(S)
         /\ ToSet(l) \ {r} \subseteq ToSet(RemoveRevision(l, r))
<1>1. CASE Find(l, r) = 0
  BY <1>1 DEF RemoveRevision
<1>2. CASE Find(l, r) # 0
  <2> DEFINE i == Find(l, r)
  <2>1. i \in 1..Len(l) /\ l[i] = r
    BY <1>2, FindFirst
  <2>2. RemoveRevision(l, r) = RemoveAt(l, i)
    BY <1>2 DEF RemoveRevision
  <2> HIDE DEF i
  <2>3. QED
    BY <2>1, <2>2, RemoveAtKeeps DEF ToSet
<1>3. QED
  BY <1>1, <1>2

\* Adding a revision lists it and loses no other.
LEMMA AddRevisionKeeps ==
  ASSUME NEW S, NEW l \in Seq(S), NEW r \in S
  PROVE  /\ AddRevision(l, r) \in Seq(S)
         /\ ToSet(l) \cup {r} \subseteq ToSet(AddRevision(l, r))
<1>1. CASE l # <<>> /\ Last(l) = r
  <2>1. Len(l) \in DOMAIN l
    BY <1>1
  <2>2. QED
    BY <1>1, <2>1 DEF AddRevision, Last, ToSet
<1>2. CASE ~(l # <<>> /\ Last(l) = r)
  <2> DEFINE k == IF Find(l, r) > 1 THEN RemoveAt(l, Find(l, r)) ELSE l
  <2>1. k \in Seq(S) /\ ToSet(l) \ {r} \subseteq ToSet(k)
    <3>1. CASE Find(l, r) > 1
      <4>1. k = RemoveRevision(l, r)
        BY <3>1 DEF RemoveRevision
      <4>2. QED
        BY <4>1, RemoveRevisionKeeps
    <3>2. CASE ~(Find(l, r) > 1)
      BY <3>2
    <3>3. QED
      BY <3>1, <3>2
  <2>2. AddRevision(l, r) = Append(k, r)
    BY <1>2 DEF AddRevision
  <2> HIDE DEF k
  <2>3. /\ Append(k, r) \in Seq(S) /\ Len(Append(k, r)) = Len(k) + 1
        /\ \A i \in 1..Len(k) : Append(k, r)[i] = k[i]
        /\ Append(k, r)[Len(k) + 1] = r
    BY <2>1, AppendProperties
  <2>4. ToSet(k) \cup {r} \subseteq ToSet(Append(k, r))
    BY <2>1, <2>3 DEF ToSet
  <2>5. QED
    BY <2>1, <2>2, <2>3, <2>4
<1>3. QED
  BY <1>1, <1>2

\* as_list keeps the entries.
LEMMA AsListType ==
  ASSUME NEW S, NEW l \in Seq(S) PROVE AsList(l) \in Seq(S)
<1>1. Len(l) \in Nat /\ \A i \in 1..Len(l) : (Len(l) - i) + 1 \in 1..Len(l)
  OBVIOUS
<1>2. \A i \in 1..Len(l) : l[(Len(l) - i) + 1] \in S
  BY <1>1
<1>3. [i \in 1..Len(l) |-> l[(Len(l) - i) + 1]] \in Seq(S)
  BY <1>1, <1>2, IsASeq
<1>4. QED
  BY <1>3 DEF AsList, Reverse

-----------------------------------------------------------------------------
(* Type correctness, for any number of workers.                            *)

\* What the request of a worker is about, at the steps where that matters.
Ready ==
  \A w \in Worker :
    /\ pc[w] = "remove" => todo[w] # <<>>
    /\ pc[w] \in {"remove", "rm package"} => place[w] \in RRev /\ removing[w]
    /\ pc[w] = "rm revision" => place[w] = Recipe /\ removing[w]
    /\ pc[w] \in {"rm revision", "rm packages"} => id[w] \in RRev
    /\ pc[w] \in {"put", "save", "fill"} => ~removing[w]

Typed == TypeOK /\ Ready

LEMMA EntriesType ==
  ASSUME TypeOK, NEW p \in Places PROVE Entries(p) \in Seq(Revision(p))
BY DEF TypeOK, Entries

LEMMA InitTyped == Init => Typed
BY RRevAssumption, PlaceAssumption, MigratedAssumption, BoundsAssumption
   DEF Init, Typed, TypeOK, Ready, Deleting, Places, Revision, AnyRevision

\* What is left of TypeOK when a request begins.
BeginEffect ==
  /\ pc' \in [Worker -> {"idle", "put", "save", "fill", "remove", "load", "store", "tidy"}
                          \cup Deleting]
  /\ place' \in [Worker -> Places]
  /\ id' \in [Worker -> AnyRevision]
  /\ removing' \in [Worker -> BOOLEAN]
  /\ todo' \in [Worker -> Seq(PRev)]
  /\ list' \in [Worker -> Seq(AnyRevision)]
  /\ \A v \in Worker : id'[v] \in Revision(place'[v])
  /\ \A v \in Worker : pc'[v] = "store" => list'[v] \in Seq(Revision(place'[v]))
  /\ Ready'

LEMMA EmptyType == <<>> \in Seq(AnyRevision)
OBVIOUS

LEMMA TailLeft ==
  ASSUME NEW S, NEW s \in Seq(S), Len(s) > 1 PROVE Tail(s) # <<>>
<1> DEFINE t == Tail(s)  n == Len(s)
<1>1. s # <<>> /\ Len(s) \in Nat
  BY LenProperties
<1>2. Len(t) = Len(s) - 1
  BY <1>1, HeadTailProperties
<1>3. n \in Nat /\ n > 1 /\ Len(t) = n - 1
  BY <1>1, <1>2
<1> HIDE DEF t, n
<1>4. Len(t) # 0
  BY <1>3
<1>5. t # <<>>
  BY <1>4
<1>6. QED
  BY <1>5 DEF t

LEMMA BeginTyped ==
  ASSUME Typed, NEW w \in Worker, NEW p \in Places, NEW i \in Revision(p),
         NEW to \in {"put", "remove", "rm revision", "rm packages"},
         NEW all \in Seq(PRev), NEW rm \in BOOLEAN,
         to = "put" <=> ~rm,
         to = "remove" => all # <<>> /\ p \in RRev,
         to \in {"rm revision", "rm packages"} => p = Recipe,
         Begin(w, to, p, i, rm, all)
  PROVE  BeginEffect
<1>1. i \in AnyRevision
  BY DEF AnyRevision, Revision
<1>2. p = Recipe => i \in RRev
  BY DEF Revision
<1>3. /\ pc' = [pc EXCEPT ![w] = to] /\ place' = [place EXCEPT ![w] = p]
      /\ id' = [id EXCEPT ![w] = i] /\ removing' = [removing EXCEPT ![w] = rm]
      /\ todo' = [todo EXCEPT ![w] = all] /\ list' = [list EXCEPT ![w] = <<>>]
  BY DEF Begin, Go
<1>4. /\ place' \in [Worker -> Places] /\ id' \in [Worker -> AnyRevision]
      /\ removing' \in [Worker -> BOOLEAN] /\ todo' \in [Worker -> Seq(PRev)]
      /\ list' \in [Worker -> Seq(AnyRevision)]
  <2>1. /\ place \in [Worker -> Places] /\ id \in [Worker -> AnyRevision]
        /\ removing \in [Worker -> BOOLEAN] /\ todo \in [Worker -> Seq(PRev)]
        /\ list \in [Worker -> Seq(AnyRevision)]
    BY DEF Typed, TypeOK
  <2>2. <<>> \in Seq(AnyRevision)
    BY EmptyType
  <2>3. /\ place' \in [Worker -> Places] /\ id' \in [Worker -> AnyRevision]
        /\ removing' \in [Worker -> BOOLEAN]
    BY <1>1, <1>3, <2>1
  <2>4. todo' \in [Worker -> Seq(PRev)]
    BY <1>3, <2>1
  <2>5. list' \in [Worker -> Seq(AnyRevision)]
    BY <1>3, <2>1, <2>2
  <2>6. QED
    BY <2>3, <2>4, <2>5
<1>5. pc' \in [Worker -> {"idle", "put", "save", "fill", "remove", "load", "store", "tidy"}
                          \cup Deleting]
  BY <1>3 DEF Typed, TypeOK, Deleting
<1>6. /\ \A v \in Worker : id'[v] \in Revision(place'[v])
      /\ \A v \in Worker : pc'[v] = "store" => list'[v] \in Seq(Revision(place'[v]))
  BY <1>3 DEF Typed, TypeOK
<1>7. Ready'
  BY <1>2, <1>3 DEF Typed, TypeOK, Ready
<1>8. QED
  BY <1>4, <1>5, <1>6, <1>7 DEF BeginEffect

LEMMA RequestsTyped ==
  ASSUME Typed, NEW w \in Worker,
         \/ \E p \in Places : \E i \in Revision(p) : PutFile(w, p, i)
         \/ \E r \in RRev :
              \/ RemoveRecipeRevision(w, r) \/ RemoveAllPackages(w, r)
              \/ \E all \in PackagesToRemove(r) : RemovePackage(w, r, all)
         \/ RemoveRecipe(w) \/ GetLatestRevision(w)
  PROVE  Typed'
<1>0. <<>> \in Seq(PRev) /\ Recipe \in Places
  BY DEF Places
<1>1. ASSUME NEW p \in Places, NEW i \in Revision(p), PutFile(w, p, i) PROVE Typed'
  <2>1. Begin(w, "put", p, i, FALSE, <<>>) /\ UNCHANGED <<files, lost, acked, answer, crashes>>
    BY <1>1 DEF PutFile
  <2> HIDE <1>1
  <2>2. BeginEffect
    BY <1>0, <2>1, BeginTyped
  <2>3. QED
    BY <2>1, <2>2 DEF BeginEffect, Typed, TypeOK, Deleting, files
<1>2. ASSUME NEW r \in RRev, NEW to \in {"rm revision", "rm packages"},
             Begin(w, to, Recipe, r, TRUE, <<>>), acked' \subseteq acked,
             UNCHANGED <<files, lost, answer, crashes>>
      PROVE  Typed'
  <2>1. r \in Revision(Recipe)
    BY DEF Revision
  <2>2. BeginEffect
    BY <1>0, <1>2, <2>1, BeginTyped
  <2>3. QED
    BY <1>2, <2>2 DEF BeginEffect, Typed, TypeOK, Deleting, files
<1>3. ASSUME NEW r \in RRev, RemoveRecipeRevision(w, r) \/ RemoveAllPackages(w, r) PROVE Typed'
  <2>1. PICK to \in {"rm revision", "rm packages"} :
           /\ Begin(w, to, Recipe, r, TRUE, <<>>) /\ acked' \subseteq acked
           /\ UNCHANGED <<files, lost, answer, crashes>>
    BY <1>3 DEF RemoveRecipeRevision, RemoveAllPackages
  <2>2. QED
    BY <1>2, <2>1
<1>4. ASSUME NEW r \in RRev, NEW all \in PackagesToRemove(r), RemovePackage(w, r, all)
      PROVE  Typed'
  <2>1. r \in Places /\ Revision(r) = PRev
    BY PlaceAssumption DEF Places, Revision
  <2>2. all \in Seq(PRev) /\ all # <<>>
    <3>1. AsList(Entries(r)) \in Seq(PRev)
      BY <2>1, EntriesType, AsListType DEF Typed
    <3>2. \A i \in PRev : <<i>> \in Seq(PRev)
      OBVIOUS
    <3>3. all \in {<<i>> : i \in PRev} \cup {AsList(Entries(r))} /\ all # <<>>
      BY <1>4 DEF PackagesToRemove, RemovePackage
    <3>4. QED
      BY <3>1, <3>2, <3>3
  <2>3. Head(all) \in PRev
    BY <2>2
  <2>4. QED
    <3>1. /\ Begin(w, "remove", r, Head(all), TRUE, all)
          /\ UNCHANGED <<files, lost, acked, answer, crashes>>
      BY <1>4 DEF RemovePackage
    <3>2. BeginEffect
      BY <2>1, <2>2, <2>3, <3>1, BeginTyped
    <3>3. QED
      BY <3>1, <3>2 DEF BeginEffect, Typed, TypeOK, Deleting, files
<1>5. CASE RemoveRecipe(w)
  BY <1>5 DEF RemoveRecipe, Go, Typed, TypeOK, Ready, Deleting, files
<1>6. CASE GetLatestRevision(w)
  <2>1. Recipe \in Places /\ Revision(Recipe) = RRev
    BY DEF Places, Revision
  <2>2. Entries(Recipe) \in Seq(RRev)
    BY <2>1, EntriesType DEF Typed
  <2>3. Latest(Recipe) \in AnyRevision \cup {NotFound}
    BY <2>2 DEF Latest, Last, AnyRevision
  <2>4. QED
    BY <1>6, <2>3 DEF GetLatestRevision, Typed, TypeOK, Ready, Deleting, files, worker
<1>7. QED
  BY <1>1, <1>3, <1>4, <1>5, <1>6

\* Saving and deleting files.
LEMMA FileStepsTyped ==
  ASSUME Typed, NEW w \in Worker,
         \/ UnlinkFile(w) \/ MakeFolder(w) \/ SaveFile(w) \/ RemovePackageFolder(w)
         \/ Delete(w) \/ EndDelete(w)
  PROVE  Typed'
<1>1. CASE UnlinkFile(w)
  BY <1>1 DEF UnlinkFile, Go, Typed, TypeOK, Ready, Deleting
<1>2. CASE MakeFolder(w)
  <2>1. /\ place[w] \in Places /\ id[w] \in AnyRevision /\ id[w] \in Revision(place[w])
        /\ stored \in [Places -> SUBSET AnyRevision]
        /\ \A p \in Places : stored[p] \subseteq Revision(p)
    BY DEF Typed, TypeOK
  <2>2. /\ stored' \in [Places -> SUBSET AnyRevision]
        /\ \A p \in Places : stored'[p] \subseteq Revision(p)
    BY <1>2, <2>1 DEF MakeFolder
  <2>3. /\ UNCHANGED <<whole, index, lock, place, id, removing, todo, list, lost, acked, answer,
                       crashes>>
        /\ pc' = [pc EXCEPT ![w] = "fill"] /\ pc[w] = "save"
    BY <1>2 DEF MakeFolder, Go
  <2>4. QED
    BY <2>2, <2>3 DEF Typed, TypeOK, Ready, Deleting
<1>3. CASE SaveFile(w)
  <2>1. place[w] \in Places /\ id[w] \in AnyRevision
    BY DEF Typed, TypeOK, Deleting
  <2>2. whole' \subseteq Places \X AnyRevision /\ lost' \subseteq Places \X AnyRevision
    <3>1. /\ whole' = whole \/ whole' = whole \cup {<<place[w], id[w]>>}
          /\ lost' \subseteq lost
      BY <1>3 DEF SaveFile
    <3>2. QED
      BY <2>1, <3>1 DEF Typed, TypeOK
  <2>3. /\ UNCHANGED <<stored, index, lock, place, id, removing, todo, list, acked, answer, crashes>>
        /\ \E to \in {"idle", "load"} : pc' = [pc EXCEPT ![w] = to]
    BY <1>3 DEF SaveFile, Go
  <2>4. QED
    BY <2>2, <2>3 DEF Typed, TypeOK, Ready, Deleting
<1>4. CASE RemovePackageFolder(w)
  <2>1. todo[w] \in Seq(PRev) /\ todo[w] # <<>> /\ place[w] \in RRev
    BY <1>4 DEF RemovePackageFolder, Typed, TypeOK, Ready, Deleting
  <2>2. Head(todo[w]) \in PRev /\ Revision(place[w]) = PRev
    BY <2>1, PlaceAssumption DEF Revision
  <2>3. Head(todo[w]) \in AnyRevision /\ Head(todo[w]) \in Revision(place[w])
    BY <2>2 DEF AnyRevision
  <2>4. QED
    BY <1>4, <2>3 DEF RemovePackageFolder, Go, Typed, TypeOK, Ready, Deleting, files
<1>5. CASE Delete(w)
  <2>1. UNCHANGED worker
    BY <1>5 DEF Delete, DeleteFolder, DeleteIndex, DeleteLock
  <2>2. PICK p \in Places :
          \/ \E i \in Revision(p) : DeleteFolder(w, p, i)
          \/ DeleteIndex(w, p) \/ DeleteLock(w, p)
    BY <1>5 DEF Delete
  <2>3. CASE \E i \in Revision(p) : DeleteFolder(w, p, i)
    <3>1. PICK i \in Revision(p) : DeleteFolder(w, p, i)
      BY <2>3
    <3>2. /\ stored \in [Places -> SUBSET AnyRevision]
          /\ \A q \in Places : stored[q] \subseteq Revision(q)
          /\ whole \subseteq Places \X AnyRevision
      BY DEF Typed, TypeOK
    <3>3. /\ stored' \in [Places -> SUBSET AnyRevision]
          /\ \A q \in Places : stored'[q] \subseteq Revision(q)
      BY <3>1, <3>2 DEF DeleteFolder
    <3>4. /\ whole' \subseteq Places \X AnyRevision
          /\ UNCHANGED <<index, lock, lost, acked, answer, crashes>>
      BY <3>1, <3>2 DEF DeleteFolder
    <3>5. QED
      BY <2>1, <3>3, <3>4 DEF Typed, TypeOK, Ready, worker
  <2>4. CASE DeleteIndex(w, p) \/ DeleteLock(w, p)
    BY <2>1, <2>4 DEF DeleteIndex, DeleteLock, Typed, TypeOK, Ready, worker
  <2>5. QED
    BY <2>2, <2>3, <2>4
<1>6. CASE EndDelete(w)
  <2>1. /\ UNCHANGED <<files, place, id, removing, todo, list, lost, acked, answer, crashes>>
        /\ \E to \in {"idle", "load"} :
             /\ pc' = [pc EXCEPT ![w] = to]
             /\ to = "load" => pc[w] \in {"rm revision", "rm package"}
    BY <1>6 DEF EndDelete, Go
  <2>2. QED
    BY <2>1 DEF Typed, TypeOK, Ready, Deleting, files
<1>7. QED
  BY <1>1, <1>2, <1>3, <1>4, <1>5, <1>6

LEMMA StepsTyped ==
  ASSUME Typed, NEW w \in Worker, LoadIndex(w) \/ WriteIndex(w) \/ Tidy(w) \/ Crash(w)
  PROVE  Typed'
<1>1. CASE LoadIndex(w)
  <2> DEFINE p == place[w]
  <2>1. p \in Places /\ id[w] \in Revision(p) /\ Revision(p) \subseteq AnyRevision
    BY <1>1 DEF LoadIndex, Typed, TypeOK, Revision, AnyRevision
  <2>2. Entries(p) \in Seq(Revision(p))
    BY <2>1, EntriesType DEF Typed
  <2>3. /\ RemoveRevision(Entries(p), id[w]) \in Seq(Revision(p))
        /\ AddRevision(Entries(p), id[w]) \in Seq(Revision(p))
    BY <2>1, <2>2, RemoveRevisionKeeps, AddRevisionKeeps
  <2>4. PICK l : l \in Seq(Revision(p)) /\ list' = [list EXCEPT ![w] = l]
    <3>1. <<>> \in Seq(Revision(p))
      OBVIOUS
    <3>2. \E l \in {<<>>, RemoveRevision(Entries(p), id[w]), AddRevision(Entries(p), id[w])} :
             list' = [list EXCEPT ![w] = l]
      BY <1>1 DEF LoadIndex
    <3>3. QED
      BY <2>3, <3>1, <3>2
  <2>5. l \in Seq(AnyRevision)
    BY <2>1, <2>4, SeqMonotonic
  <2>6. lock' \in [Places -> BOOLEAN]
    <3>1. lock \in [Places -> BOOLEAN]
      BY DEF Typed, TypeOK
    <3>2. \E b \in BOOLEAN : lock' = [lock EXCEPT ![p] = b]
      BY <1>1, <2>1, <3>1 DEF LoadIndex
    <3>3. QED
      BY <3>1, <3>2
  <2>7. /\ UNCHANGED <<stored, whole, index, place, id, removing, todo, lost, acked, answer, crashes>>
        /\ pc[w] = "load" /\ \E to \in {"idle", "store"} : pc' = [pc EXCEPT ![w] = to]
    BY <1>1 DEF LoadIndex, Go
  <2>8. /\ list' \in [Worker -> Seq(AnyRevision)]
        /\ pc' \in [Worker -> {"idle", "put", "save", "fill", "remove", "load", "store", "tidy"}
                               \cup Deleting]
    BY <2>4, <2>5, <2>7 DEF Typed, TypeOK
  <2>9. \A v \in Worker : pc'[v] = "store" => list'[v] \in Seq(Revision(place'[v]))
    BY <2>4, <2>7 DEF Typed, TypeOK
  <2>10. Ready'
    BY <2>7 DEF Typed, TypeOK, Ready
  <2>11. QED
    BY <2>6, <2>7, <2>8, <2>9, <2>10 DEF Typed, TypeOK
<1>2. CASE WriteIndex(w)
  <2>1. /\ place[w] \in Places /\ list[w] \in Seq(Revision(place[w]))
        /\ todo[w] \in Seq(PRev) /\ id[w] \in AnyRevision /\ <<>> \in Seq(AnyRevision)
    BY <1>2 DEF WriteIndex, Typed, TypeOK
  <2>2. todo[w] # <<>> => Tail(todo[w]) \in Seq(PRev)
    BY <2>1
  <2>3. todo' \in [Worker -> Seq(PRev)]
    BY <1>2, <2>1, <2>2 DEF WriteIndex, Typed, TypeOK
  <2>4. acked' \subseteq Places \X AnyRevision
    BY <1>2, <2>1 DEF WriteIndex, Typed, TypeOK
  <2>5. Ready'
    <3>1. Len(todo[w]) > 1 => Tail(todo[w]) # <<>>
      BY <2>1, TailLeft
    <3>2. place[w] # Recipe => place[w] \in RRev
      BY <2>1 DEF Places
    <3>3. pc'[w] = "remove" => Len(todo[w]) > 1 /\ place[w] # Recipe /\ removing[w]
      BY <1>2 DEF WriteIndex, Go, Typed, TypeOK
    <3>4. pc'[w] = "remove" => todo'[w] # <<>> /\ place'[w] \in RRev /\ removing'[w]
      <4>1. HAVE pc'[w] = "remove"
      <4>2. todo \in [Worker -> Seq(PRev)] /\ todo[w] # <<>>
        BY <2>1, <3>3, <4>1 DEF Typed, TypeOK
      <4>3. todo' = [todo EXCEPT ![w] = Tail(@)] /\ UNCHANGED <<place, removing>>
        BY <1>2, <3>3, <4>1, <4>2 DEF WriteIndex
      <4>4. QED
        BY <3>1, <3>2, <3>3, <4>1, <4>2, <4>3
    <3>5. /\ \A v \in Worker \ {w} : pc'[v] = pc[v] /\ todo'[v] = todo[v]
          /\ UNCHANGED <<place, id, removing>> /\ pc'[w] \in {"idle", "tidy", "remove"}
      BY <1>2 DEF WriteIndex, Go, Typed, TypeOK, Deleting
    <3>6. QED
      BY <3>4, <3>5 DEF Ready, Typed
  <2>6. /\ pc' \in [Worker -> {"idle", "put", "save", "fill", "remove", "load", "store", "tidy"}
                               \cup Deleting]
        /\ \A v \in Worker : id'[v] \in Revision(place'[v])
        /\ \A v \in Worker : pc'[v] = "store" => list'[v] \in Seq(Revision(place'[v]))
    BY <1>2 DEF WriteIndex, Go, Typed, TypeOK, Deleting
  <2>7. QED
    BY <1>2, <2>1, <2>3, <2>4, <2>5, <2>6 DEF WriteIndex, Typed, TypeOK, Deleting
<1>3. CASE Tidy(w)
  <2>1. pc[w] = "tidy" /\ \E to \in {"idle", "unlink"} : pc' = [pc EXCEPT ![w] = to]
    BY <1>3 DEF Tidy, Go
  <2>2. QED
    BY <1>3, <2>1 DEF Tidy, Typed, TypeOK, Ready, Deleting, files
<1>4. CASE Crash(w)
  <2>1. /\ \A p \in Places : index'[p] \in Seq(Revision(p)) \cup {NoFile, Corrupt}
        /\ DOMAIN index' = Places /\ lock' \in [Places -> BOOLEAN]
    <3>1. CASE UNCHANGED <<index, lock>>
      BY <3>1 DEF Typed, TypeOK
    <3>2. CASE /\ index' = [index EXCEPT ![place[w]] = Corrupt]
               /\ lock' = [lock EXCEPT ![place[w]] = TRUE]
      BY <3>2 DEF Typed, TypeOK
    <3>3. QED
      BY <1>4, <3>1, <3>2 DEF Crash
  <2>2. crashes' \in 0..MaxCrashes
    <3>1. crashes \in 0..MaxCrashes
      BY DEF Typed, TypeOK
    <3>2. QED
      BY <1>4, <3>1, BoundsAssumption DEF Crash
  <2>3. whole' \subseteq whole /\ lost' \subseteq lost \cup {<<place[w], id[w]>>}
    BY <1>4 DEF Crash
  <2>4. whole' \subseteq Places \X AnyRevision /\ lost' \subseteq Places \X AnyRevision
    BY <2>3 DEF Typed, TypeOK
  <2>5. /\ UNCHANGED <<stored, place, id, removing, todo, acked, answer>>
        /\ pc' = [pc EXCEPT ![w] = "idle"] /\ list' = [list EXCEPT ![w] = <<>>]
    BY <1>4 DEF Crash, Go
  <2>6. /\ list' \in [Worker -> Seq(AnyRevision)]
        /\ pc' \in [Worker -> {"idle", "put", "save", "fill", "remove", "load", "store", "tidy"}
                               \cup Deleting]
        /\ \A v \in Worker : pc'[v] = "store" => list'[v] \in Seq(Revision(place'[v]))
    BY <2>5 DEF Typed, TypeOK
  <2>7. Ready'
    BY <2>5 DEF Typed, TypeOK, Ready
  <2>8. QED
    BY <2>1, <2>2, <2>4, <2>5, <2>6, <2>7 DEF Typed, TypeOK
<1>5. QED
  BY <1>1, <1>2, <1>3, <1>4

LEMMA NextTyped == Typed /\ [Next]_vars => Typed'
<1>1. Typed /\ UNCHANGED vars => Typed'
  BY DEF Typed, TypeOK, Ready, Deleting, vars, files, worker
<1>2. QED
  BY <1>1, RequestsTyped, FileStepsTyped, StepsTyped DEF Next

\* Every reachable state is of its type, in particular an index lists
\* revisions of its own place.
THEOREM TypeCorrect == Spec => []TypeOK
<1>1. Typed => TypeOK
  BY DEF Typed
<1>2. QED
  BY <1>1, InitTyped, NextTyped, PTL DEF Spec


-----------------------------------------------------------------------------
(* One worker.                                                             *)

OneWorker == \A v, w \in Worker : v = w

Acked(p, i) == <<p, i>> \in acked

\* What an acknowledged revision has, and it may be that its files are gone.
Listed(p, i) == i \in stored[p] /\ (index[p] = Corrupt \/ i \in ToSet(Entries(p)))
Filed(p, i) == <<p, i>> \in whole \cup lost \/ Replaced(p, i)

\* Nothing that is acknowledged is being deleted, and what the one worker knows
\* in the middle of its request.
Serves ==
  /\ \A p \in Places, i \in AnyRevision : Acked(p, i) => Listed(p, i) /\ Filed(p, i)
  /\ \A w \in Worker, p \in Places, i \in AnyRevision :
       Deletes(w, p, i) \/ DeletesIndex(w, p) => ~Acked(p, i)
  /\ \A w \in Worker :
       /\ pc[w] = "load" /\ removing[w] => ~Acked(place[w], id[w])
       /\ pc[w] \in {"fill", "load", "store"} /\ ~removing[w] => id[w] \in stored[place[w]]
       /\ pc[w] \in {"load", "store"} /\ ~removing[w] => <<place[w], id[w]>> \in whole
       /\ pc[w] = "store" =>
            /\ \A i \in AnyRevision : Acked(place[w], i) => i \in ToSet(list[w])
            /\ removing[w] \/ id[w] \in ToSet(list[w])

\* A package that is being uploaded has its recipe.
Owned ==
  /\ PackagesHaveRecipe
  /\ \A w \in Worker :
       pc[w] \in {"put", "save", "fill", "load", "store"} /\ ~removing[w] =>
         place[w] = Recipe \/ place[w] \in stored[Recipe]

Serving == Typed /\ Serves /\ Owned

\* When a request begins, or ends, there is nothing to know of it.
LEMMA BeginServes ==
  ASSUME OneWorker, Serving, Typed', NEW w \in Worker,
         pc'[w] \in {"idle", "remove", "tidy"},
         \A p \in Places, i \in AnyRevision : Acked(p, i)' => Listed(p, i)' /\ Filed(p, i)',
         PackagesHaveRecipe'
  PROVE  Serves' /\ Owned'
<1>1. \A v \in Worker : v = w
  BY DEF OneWorker
<1>2. Serves'
  BY <1>1 DEF Serves, Deletes, DeletesIndex
<1>3. Owned'
  BY <1>1 DEF Owned
<1>4. QED
  BY <1>2, <1>3

\* When it goes on to delete, what it deletes must not be acknowledged.
LEMMA DeletingServes ==
  ASSUME OneWorker, Serving, Typed', NEW w \in Worker, pc'[w] \in Deleting,
         \A p \in Places, i \in AnyRevision : Acked(p, i)' => Listed(p, i)' /\ Filed(p, i)',
         \A p \in Places, i \in AnyRevision :
           Deletes(w, p, i)' \/ DeletesIndex(w, p)' => ~Acked(p, i)',
         PackagesHaveRecipe'
  PROVE  Serves' /\ Owned'
<1>1. \A v \in Worker : v = w
  BY DEF OneWorker
<1>2. pc'[w] \notin {"put", "save", "fill", "load", "store"}
  BY DEF Deleting
<1>3. Serves'
  BY <1>1, <1>2 DEF Serves
<1>4. Owned'
  BY <1>1, <1>2 DEF Owned
<1>5. QED
  BY <1>3, <1>4

LEMMA KnownServed ==
  ASSUME Serving, NEW p \in Places, NEW i \in AnyRevision, Acked(p, i)
  PROVE  /\ Listed(p, i) /\ Filed(p, i)
         /\ p = Recipe => i \in RRev
         /\ p # Recipe => i \in PRev /\ p \in stored[Recipe]
<1>1. Listed(p, i) /\ Filed(p, i)
  BY DEF Serving, Serves
<1>2. i \in Revision(p)
  BY <1>1 DEF Listed, Serving, Typed, TypeOK
<1>3. QED
  BY <1>1, <1>2 DEF Revision, Serving, Owned, PackagesHaveRecipe, Acked, Places

\* With one worker that is not at its files, none is being replaced.
LEMMA NotReplaced ==
  ASSUME OneWorker, NEW w \in Worker, pc[w] \notin {"save", "fill"}, NEW p, NEW i, Filed(p, i)
  PROVE  <<p, i>> \in whole \cup lost
BY DEF OneWorker, Filed, Replaced

\* What is left alone of the files keeps what is acknowledged.
LEMMA FilesServe ==
  ASSUME OneWorker, Serving, NEW w \in Worker, pc[w] \notin {"save", "fill"},
         UNCHANGED <<files, lost>>, acked' \subseteq acked
  PROVE  /\ \A p \in Places, i \in AnyRevision : Acked(p, i)' => Listed(p, i)' /\ Filed(p, i)'
         /\ PackagesHaveRecipe'
<1>1. ASSUME NEW p \in Places, NEW i \in AnyRevision, Acked(p, i)'
      PROVE  Listed(p, i)' /\ Filed(p, i)'
  <2>1. Acked(p, i)
    BY <1>1 DEF Acked
  <2>2. Listed(p, i) /\ Filed(p, i)
    BY <2>1, KnownServed
  <2>3. <<p, i>> \in whole \cup lost
    BY <2>2, NotReplaced
  <2>4. QED
    BY <2>2, <2>3 DEF Listed, Filed, Entries, files
<1>2. PackagesHaveRecipe'
  BY DEF PackagesHaveRecipe, Serving, Owned, files
<1>3. QED
  BY <1>1, <1>2

LEMMA RequestsServe ==
  ASSUME OneWorker, Serving, Typed', NEW w \in Worker,
         \/ \E p \in Places : \E i \in Revision(p) : PutFile(w, p, i)
         \/ \E r \in RRev :
              \/ RemoveRecipeRevision(w, r) \/ RemoveAllPackages(w, r)
              \/ \E all \in PackagesToRemove(r) : RemovePackage(w, r, all)
         \/ RemoveRecipe(w) \/ GetLatestRevision(w)
  PROVE  Serves' /\ Owned'
<1>0. /\ pc[w] = "idle" /\ UNCHANGED <<files, lost>> /\ acked' \subseteq acked
  BY DEF PutFile, RemoveRecipeRevision, RemoveAllPackages, RemovePackage, RemoveRecipe,
     GetLatestRevision, Request
<1>1. /\ \A p \in Places, i \in AnyRevision : Acked(p, i)' => Listed(p, i)' /\ Filed(p, i)'
      /\ PackagesHaveRecipe'
  BY <1>0, FilesServe
<1>2. \A v \in Worker : v = w
  BY DEF OneWorker
<1>3. pc \in [Worker -> {"idle", "put", "save", "fill", "remove", "load", "store", "tidy"}
                          \cup Deleting]
      /\ place \in [Worker -> Places] /\ id \in [Worker -> AnyRevision]
      /\ removing \in [Worker -> BOOLEAN]
  BY DEF Serving, Typed, TypeOK
<1>4. ASSUME NEW p \in Places, NEW i \in Revision(p), PutFile(w, p, i)
      PROVE  Serves' /\ Owned'
  <2>1. pc'[w] = "put" /\ place'[w] = p /\ (p = Recipe \/ p \in stored[Recipe])
    BY <1>3, <1>4 DEF PutFile, Begin, Go
  <2>2. Serves'
    BY <1>1, <1>2, <2>1 DEF Serves, Deletes, DeletesIndex
  <2>3. Owned'
    BY <1>0, <1>1, <1>2, <2>1 DEF Owned, files
  <2>4. QED
    BY <2>2, <2>3
<1>5. ASSUME NEW r \in RRev, NEW to \in {"rm revision", "rm packages"},
             Begin(w, to, Recipe, r, TRUE, <<>>),
             to = "rm revision" => ~Acked(Recipe, r)',
             \A i \in PRev : ~Acked(r, i)'
      PROVE  Serves' /\ Owned'
  <2>1. pc'[w] = to /\ place'[w] = Recipe /\ id'[w] = r
    BY <1>3, <1>5 DEF Begin, Go
  <2>2. r \in Places /\ r # Recipe
    BY PlaceAssumption DEF Places
  <2>3. ASSUME NEW i \in AnyRevision, Acked(r, i)' PROVE FALSE
    <3>1. Acked(r, i)
      BY <1>0, <2>3 DEF Acked
    <3>2. i \in PRev
      BY <2>2, <3>1, KnownServed
    <3>3. QED
      BY <1>5, <2>3, <3>2
  <2>4. \A p \in Places, i \in AnyRevision :
           Deletes(w, p, i)' \/ DeletesIndex(w, p)' => ~Acked(p, i)'
    BY <1>5, <2>1, <2>3 DEF Deletes, DeletesIndex
  <2>5. pc'[w] \in Deleting
    BY <2>1 DEF Deleting
  <2>6. QED
    BY <1>1, <2>4, <2>5, DeletingServes
<1>6. ASSUME NEW r \in RRev, RemoveRecipeRevision(w, r) PROVE Serves' /\ Owned'
  <2>1. /\ Begin(w, "rm revision", Recipe, r, TRUE, <<>>)
        /\ acked' = acked \ ({<<Recipe, r>>} \cup {<<r, i>> : i \in PRev})
    BY <1>6 DEF RemoveRecipeRevision
  <2>2. ~Acked(Recipe, r)' /\ \A i \in PRev : ~Acked(r, i)'
    BY <2>1 DEF Acked
  <2>3. QED
    BY <1>5, <2>1, <2>2
<1>7. ASSUME NEW r \in RRev, RemoveAllPackages(w, r) PROVE Serves' /\ Owned'
  <2>1. /\ Begin(w, "rm packages", Recipe, r, TRUE, <<>>)
        /\ acked' = acked \ {<<r, i>> : i \in PRev}
    BY <1>7 DEF RemoveAllPackages
  <2>2. \A i \in PRev : ~Acked(r, i)'
    BY <2>1 DEF Acked
  <2>3. QED
    BY <1>5, <2>1, <2>2
<1>8. ASSUME NEW r \in RRev, NEW all, RemovePackage(w, r, all) PROVE Serves' /\ Owned'
  <2>1. pc'[w] = "remove"
    BY <1>3, <1>8 DEF RemovePackage, Begin, Go
  <2>2. QED
    BY <1>1, <2>1, BeginServes
<1>9. CASE RemoveRecipe(w)
  <2>1. pc'[w] \in Deleting /\ \A p \in Places, i \in AnyRevision : ~Acked(p, i)'
    BY <1>3, <1>9 DEF RemoveRecipe, Go, Acked, Deleting
  <2>2. QED
    BY <1>1, <2>1, DeletingServes
<1>10. CASE GetLatestRevision(w)
  <2>1. pc'[w] = "idle"
    BY <1>0, <1>10 DEF GetLatestRevision, worker
  <2>2. QED
    BY <1>1, <2>1, BeginServes
<1>11. QED
  BY <1>4, <1>6, <1>7, <1>8, <1>9, <1>10

\* Saving a file: what it replaces is missing for a while.
LEMMA SavingServes ==
  ASSUME OneWorker, Serving, Typed', NEW w \in Worker,
         UnlinkFile(w) \/ MakeFolder(w) \/ SaveFile(w)
  PROVE  Serves' /\ Owned'
<1> DEFINE p == place[w]
           i == id[w]
<1>0. /\ \A v \in Worker : v = w
      /\ p \in Places /\ i \in Revision(p) /\ i \in AnyRevision /\ Recipe \in Places
      /\ pc \in [Worker -> {"idle", "put", "save", "fill", "remove", "load", "store", "tidy"}
                             \cup Deleting]
      /\ UNCHANGED <<index, lock, place, id, removing, todo, list, acked>>
  BY DEF OneWorker, Serving, Typed, TypeOK, UnlinkFile, MakeFolder, SaveFile, Places
<1>1. /\ pc[w] \in {"put", "save", "fill"} /\ ~removing[w]
      /\ p = Recipe \/ p \in stored[Recipe]
  BY DEF UnlinkFile, MakeFolder, SaveFile, Serving, Typed, Ready, Owned
<1>2. /\ stored \in [Places -> SUBSET AnyRevision]
      /\ \A q \in Places : stored[q] \subseteq stored'[q]
      /\ \A q \in Places : q # p => stored'[q] = stored[q]
  BY <1>0 DEF UnlinkFile, MakeFolder, SaveFile, Serving, Typed, TypeOK
<1>3. pc'[w] \in {"save", "fill"} => \A q, j : q = p /\ j = i => Replaced(q, j)'
  BY <1>0 DEF Replaced
<1>4. \A q, j : ~(q = p /\ j = i) => ~Replaced(q, j)
  BY <1>0 DEF Replaced
<1>5. /\ whole \ {<<p, i>>} \subseteq whole'
      /\ lost \ {<<p, i>>} \subseteq lost'
      /\ pc'[w] \in {"save", "fill"} \/ <<p, i>> \in whole'
      /\ pc'[w] \in {"save", "fill", "load", "idle"}
      /\ pc'[w] \in {"fill", "load"} => i \in stored'[p]
      /\ pc'[w] = "load" => <<p, i>> \in whole'
  <2>1. CASE UnlinkFile(w)
    BY <1>0, <2>1 DEF UnlinkFile, Go
  <2>2. CASE MakeFolder(w)
    BY <1>0, <1>2, <2>2 DEF MakeFolder, Go
  <2>3. CASE SaveFile(w)
    <3>1. i \in stored[p]
      BY <1>1, <2>3 DEF SaveFile, Serving, Serves
    <3>2. QED
      BY <1>0, <1>2, <2>3, <3>1 DEF SaveFile, Go
  <2>4. QED
    BY <2>1, <2>2, <2>3
<1>6. \A q \in Places, j \in AnyRevision : Acked(q, j)' => Listed(q, j)' /\ Filed(q, j)'
  <2>1. SUFFICES ASSUME NEW q \in Places, NEW j \in AnyRevision, Acked(q, j)'
                 PROVE  Listed(q, j)' /\ Filed(q, j)'
    OBVIOUS
  <2>2. Acked(q, j)
    BY <1>0, <2>1 DEF Acked
  <2>3. Listed(q, j) /\ Filed(q, j)
    BY <2>2, KnownServed
  <2>4. Listed(q, j)'
    BY <1>0, <1>2, <2>3 DEF Listed, Entries
  <2>5. CASE q = p /\ j = i
    BY <1>3, <1>5, <2>4, <2>5 DEF Filed
  <2>6. CASE ~(q = p /\ j = i)
    <3>1. <<q, j>> \in whole \cup lost /\ <<q, j>> # <<p, i>>
      BY <1>4, <2>3, <2>6 DEF Filed
    <3>2. <<q, j>> \in whole' \cup lost'
      BY <1>5, <3>1
    <3>3. QED
      BY <2>4, <3>2 DEF Filed
  <2>7. QED
    BY <2>5, <2>6
<1>7. PackagesHaveRecipe'
  BY <1>0, <1>2 DEF PackagesHaveRecipe, Serving, Owned
<1>8. Serves'
  <2>1. \A v \in Worker : pc'[v] \notin Deleting
    BY <1>0, <1>5 DEF Deleting
  <2>2. \A v \in Worker, q \in Places, j \in AnyRevision :
           ~(Deletes(v, q, j)' \/ DeletesIndex(v, q)')
    BY <2>1 DEF Deletes, DeletesIndex, Deleting
  <2>3. QED
    BY <1>0, <1>1, <1>5, <1>6, <2>2 DEF Serves
<1>9. Owned'
  BY <1>0, <1>1, <1>2, <1>7 DEF Owned
<1>10. QED
  BY <1>8, <1>9

\* What is deleted is not acknowledged.
LEMMA DeletingKeeps ==
  ASSUME OneWorker, Serving, Typed', NEW w \in Worker, Delete(w)
  PROVE  Serves' /\ Owned'
<1>0. /\ \A v \in Worker : v = w
      /\ UNCHANGED <<worker, lost, acked>> /\ pc[w] \in Deleting
  BY DEF OneWorker, Delete, DeleteFolder, DeleteIndex, DeleteLock, Deletes, DeletesIndex, Deleting
<1>1. /\ pc'[w] = pc[w] /\ place'[w] = place[w] /\ id'[w] = id[w]
      /\ pc[w] \notin {"put", "save", "fill", "load", "store", "idle"}
  BY <1>0 DEF worker, Deleting
<1>2. PICK p \in Places :
        (\E i \in Revision(p) : DeleteFolder(w, p, i)) \/ DeleteIndex(w, p) \/ DeleteLock(w, p)
  BY DEF Delete
<1>3. /\ \A q \in Places, j \in AnyRevision :
           Deletes(w, q, j)' \/ DeletesIndex(w, q)' => ~Acked(q, j)'
  BY <1>0, <1>1 DEF Serving, Serves, Deletes, DeletesIndex, Acked
<1>4. ASSUME NEW q \in Places, NEW j \in AnyRevision, Acked(q, j)
      PROVE  /\ ~Deletes(w, q, j) /\ ~DeletesIndex(w, q)
             /\ Listed(q, j) /\ <<q, j>> \in whole \cup lost
  BY <1>1, <1>4, KnownServed, NotReplaced DEF Serving, Serves
<1>5. CASE \E i \in Revision(p) : DeleteFolder(w, p, i)
  <2>1. PICK i \in Revision(p) : DeleteFolder(w, p, i)
    BY <1>5
  <2>2. /\ Deletes(w, p, i) /\ UNCHANGED <<index, lost, acked>>
        /\ stored' = [stored EXCEPT ![p] = @ \ {i}] /\ whole' = whole \ {<<p, i>>}
        /\ stored \in [Places -> SUBSET AnyRevision] /\ Recipe \in Places /\ RRev \subseteq Places
        /\ i \in AnyRevision
    BY <2>1 DEF DeleteFolder, Serving, Typed, TypeOK, Places, Revision, AnyRevision
  <2>3. ASSUME NEW q \in Places, NEW j \in AnyRevision, Acked(q, j)'
        PROVE  Listed(q, j)' /\ Filed(q, j)'
    <3>1. Acked(q, j)
      BY <2>2, <2>3 DEF Acked
    <3>2. ~(q = p /\ j = i)
      BY <1>4, <2>2, <3>1
    <3>3. Listed(q, j) /\ <<q, j>> \in whole \cup lost /\ <<q, j>> # <<p, i>>
      BY <1>4, <3>1, <3>2
    <3>4. j \in stored'[q]
      BY <2>2, <3>2, <3>3 DEF Listed
    <3>5. QED
      BY <2>2, <3>3, <3>4 DEF Listed, Filed, Entries
  <2>4. PackagesHaveRecipe'
    <3>1. SUFFICES ASSUME NEW r \in RRev, NEW j \in PRev, Acked(r, j)
                   PROVE  r \in stored'[Recipe]
      BY <2>2 DEF PackagesHaveRecipe, Acked
    <3>2. r \in stored[Recipe]
      BY <3>1 DEF Serving, Owned, PackagesHaveRecipe, Acked
    <3>3. ~Deletes(w, r, j) /\ ~DeletesIndex(w, r)
      BY <1>4, <2>2, <3>1 DEF AnyRevision
    <3>4. ~(p = Recipe /\ i = r)
      BY <2>2, <3>3, PlaceAssumption DEF Deletes, DeletesIndex, Serving, Typed, Ready
    <3>5. QED
      BY <2>2, <3>2, <3>4
  <2>5. QED
    BY <1>0, <1>1, <1>3, <2>3, <2>4, DeletingServes
<1>6. CASE DeleteIndex(w, p) \/ DeleteLock(w, p)
  <2>1. /\ DeletesIndex(w, p) /\ UNCHANGED <<stored, whole, lost, acked>>
        /\ \A q \in Places : q # p => index'[q] = index[q]
    BY <1>6 DEF DeleteIndex, DeleteLock, Serving, Typed, TypeOK
  <2>2. ASSUME NEW q \in Places, NEW j \in AnyRevision, Acked(q, j)'
        PROVE  Listed(q, j)' /\ Filed(q, j)'
    <3>1. Acked(q, j)
      BY <2>1, <2>2 DEF Acked
    <3>2. q # p /\ Listed(q, j) /\ <<q, j>> \in whole \cup lost
      BY <1>4, <2>1, <3>1
    <3>3. QED
      BY <2>1, <3>2 DEF Listed, Filed, Entries
  <2>3. PackagesHaveRecipe'
    BY <2>1 DEF PackagesHaveRecipe, Serving, Owned
  <2>4. QED
    BY <1>0, <1>1, <1>3, <2>2, <2>3, DeletingServes
<1>7. QED
  BY <1>2, <1>5, <1>6

\* Where a worker goes on to, or stops.
LEMMA GoingServes ==
  ASSUME OneWorker, Serving, Typed', NEW w \in Worker,
         RemovePackageFolder(w) \/ EndDelete(w) \/ Tidy(w)
  PROVE  Serves' /\ Owned'
<1>0. /\ \A v \in Worker : v = w
      /\ pc[w] \notin {"save", "fill"} /\ UNCHANGED <<files, lost>> /\ acked' \subseteq acked
  BY DEF OneWorker, RemovePackageFolder, EndDelete, Tidy, Deleting
<1>1. /\ \A p \in Places, i \in AnyRevision : Acked(p, i)' => Listed(p, i)' /\ Filed(p, i)'
      /\ PackagesHaveRecipe'
  BY <1>0, FilesServe
<1>2. pc \in [Worker -> {"idle", "put", "save", "fill", "remove", "load", "store", "tidy"}
                          \cup Deleting]
      /\ id \in [Worker -> AnyRevision]
  BY DEF Serving, Typed, TypeOK
<1>3. CASE pc'[w] \in {"idle", "remove", "tidy"}
  BY <1>1, <1>3, BeginServes
<1>4. CASE RemovePackageFolder(w) /\ pc'[w] \notin {"idle", "remove", "tidy"}
  <2>1. /\ pc'[w] = "rm package" /\ id'[w] = Head(todo[w]) /\ UNCHANGED place
        /\ acked' = acked \ {<<place[w], Head(todo[w])>>}
    BY <1>2, <1>4 DEF RemovePackageFolder, Go
  <2>2. \A p \in Places, i \in AnyRevision :
           Deletes(w, p, i)' \/ DeletesIndex(w, p)' => ~Acked(p, i)'
    BY <2>1 DEF Deletes, DeletesIndex, Acked
  <2>3. QED
    BY <1>1, <2>1, <2>2, DeletingServes DEF Deleting
<1>5. CASE EndDelete(w) /\ pc'[w] \notin {"idle", "remove", "tidy"}
  <2>1. /\ pc[w] \in {"rm revision", "rm package"} /\ pc'[w] = "load"
        /\ UNCHANGED <<place, id, removing, acked, stored>>
    BY <1>2, <1>5 DEF EndDelete, Go, files
  <2>2. /\ removing[w] /\ Deletes(w, place[w], id[w])
        /\ place[w] \in Places /\ id[w] \in AnyRevision
    BY <2>1 DEF Serving, Typed, TypeOK, Ready, Deletes
  <2>3. ~Acked(place[w], id[w])
    BY <2>2 DEF Serving, Serves
  <2>4. Serves'
    BY <1>0, <1>1, <2>1, <2>2, <2>3 DEF Serves, Deletes, DeletesIndex, Acked
  <2>5. Owned'
    BY <1>0, <1>1, <2>1, <2>2 DEF Owned
  <2>6. QED
    BY <2>4, <2>5
<1>6. CASE Tidy(w) /\ pc'[w] \notin {"idle", "remove", "tidy"}
  <2>1. pc'[w] = "unlink" /\ (\A r \in RRev : ~FolderExists(r)) /\ UNCHANGED acked
    BY <1>2, <1>6 DEF Tidy, Go
  <2>2. stored[Recipe] = {}
    BY <2>1 DEF FolderExists, Serving, Typed, TypeOK, Places, Revision
  <2>3. \A p \in Places, i \in AnyRevision :
           Deletes(w, p, i)' \/ DeletesIndex(w, p)' => ~Acked(p, i)'
    BY <2>1, <2>2, KnownServed DEF Deletes, DeletesIndex, Acked, Listed
  <2>4. QED
    BY <1>1, <2>1, <2>3, DeletingServes DEF Deleting
<1>7. QED
  BY <1>3, <1>4, <1>5, <1>6

\* LoadIndex: what is about to be written lists whatever is acknowledged.
LEMMA LoadServes ==
  ASSUME OneWorker, Serving, Typed', NEW w \in Worker, LoadIndex(w)
  PROVE  Serves' /\ Owned'
<1> DEFINE p == place[w]
<1>1. /\ p \in Places /\ id[w] \in Revision(p) /\ Entries(p) \in Seq(Revision(p))
      /\ pc[w] = "load" /\ UNCHANGED <<stored, whole, lost, index, place, id, removing, acked>>
      /\ \A v \in Worker : v = w
  BY EntriesType DEF LoadIndex, Serving, Typed, TypeOK, OneWorker
<1>2. \A q \in Places, i \in AnyRevision : Acked(q, i)' => Listed(q, i)' /\ Filed(q, i)'
  <2>1. ASSUME NEW q \in Places, NEW i \in AnyRevision, Acked(q, i)'
        PROVE  Listed(q, i)' /\ Filed(q, i)'
    <3>1. Acked(q, i)
      BY <1>1, <2>1 DEF Acked
    <3>2. Listed(q, i) /\ <<q, i>> \in whole \cup lost
      BY <1>1, <3>1, KnownServed, NotReplaced
    <3>3. QED
      BY <1>1, <3>2 DEF Listed, Filed, Entries
  <2>2. QED
    BY <2>1
<1>3. PackagesHaveRecipe'
  BY <1>1 DEF PackagesHaveRecipe, Serving, Owned
<1>4. CASE pc'[w] = "idle"
  BY <1>2, <1>3, <1>4, BeginServes
<1>5. CASE pc'[w] # "idle"
  <2>1. pc'[w] = "store" /\ (index[p] = Corrupt => FALSE)
    BY <1>1, <1>5, FileAssumption DEF LoadIndex, Go, Serving, Typed, TypeOK
  <2>2. list'[w] = IF removing[w] THEN RemoveRevision(Entries(p), id[w])
                   ELSE AddRevision(Entries(p), id[w])
    BY <1>5 DEF LoadIndex, Go, Serving, Typed, TypeOK
  <2>3. \A i \in AnyRevision : Acked(p, i) => i \in ToSet(Entries(p))
    BY <1>1, <2>1, KnownServed DEF Listed
  <2>4. /\ ToSet(Entries(p)) \ {id[w]} \subseteq ToSet(RemoveRevision(Entries(p), id[w]))
        /\ ToSet(Entries(p)) \cup {id[w]} \subseteq ToSet(AddRevision(Entries(p), id[w]))
    BY <1>1, RemoveRevisionKeeps, AddRevisionKeeps
  <2>5. /\ removing[w] => ~Acked(p, id[w])
        /\ ~removing[w] => id[w] \in stored[p] /\ <<p, id[w]>> \in whole
    BY <1>1 DEF Serving, Serves
  <2>6. /\ \A i \in AnyRevision : Acked(p, i) => i \in ToSet(list'[w])
        /\ removing[w] \/ id[w] \in ToSet(list'[w])
    BY <2>2, <2>3, <2>4, <2>5
  <2>7. \A v \in Worker, q \in Places, i \in AnyRevision :
           ~(Deletes(v, q, i)' \/ DeletesIndex(v, q)')
    BY <1>1, <2>1 DEF Deletes, DeletesIndex
  <2>8. Serves'
    BY <1>1, <1>2, <2>1, <2>5, <2>6, <2>7 DEF Serves, Acked
  <2>9. Owned'
    BY <1>1, <1>3, <2>1 DEF Owned, Serving
  <2>10. QED
    BY <2>8, <2>9
<1>6. QED
  BY <1>4, <1>5

\* WriteIndex: the new list serves its place, and the upload it answers.
LEMMA WriteServes ==
  ASSUME OneWorker, Serving, Typed', NEW w \in Worker, WriteIndex(w)
  PROVE  Serves' /\ Owned'
<1> DEFINE p == place[w]
<1>1. /\ p \in Places /\ list[w] \in Seq(Revision(p)) /\ pc[w] = "store"
      /\ index' = [index EXCEPT ![p] = list[w]]
      /\ UNCHANGED <<stored, whole, lost, place, id, removing>>
  BY DEF WriteIndex, Serving, Typed, TypeOK
<1>2. /\ \A i \in AnyRevision : Acked(p, i) => i \in ToSet(list[w])
      /\ removing[w] \/ /\ id[w] \in ToSet(list[w]) /\ id[w] \in stored[p]
                        /\ <<p, id[w]>> \in whole
      /\ removing[w] \/ p = Recipe \/ p \in stored[Recipe]
  BY <1>1 DEF Serving, Serves, Owned
<1>3. acked' = IF removing[w] THEN acked ELSE acked \cup {<<p, id[w]>>}
  BY DEF WriteIndex
<1>4. \A q \in Places, i \in AnyRevision :
         Acked(q, i)' => Acked(q, i) \/ (q = p /\ i = id[w] /\ ~removing[w])
  BY <1>3 DEF Acked
<1>5. index'[p] = list[w] /\ \A q \in Places \ {p} : index'[q] = index[q]
  BY <1>1 DEF Serving, Typed, TypeOK
<1>6. \A q \in Places : Entries(q)' = IF q = p THEN list[w] ELSE Entries(q)
  <2>1. list[w] \notin {NoFile, Corrupt}
    BY <1>1, FileAssumption
  <2>2. QED
    BY <1>5, <2>1 DEF Entries
<1>7. \A q \in Places, i \in AnyRevision : Acked(q, i) => Listed(q, i) /\ <<q, i>> \in whole \cup lost
  BY <1>1, KnownServed, NotReplaced
<1>8. \A q \in Places, i \in AnyRevision : Acked(q, i)' => Listed(q, i)' /\ Filed(q, i)'
  <2>1. ASSUME NEW q \in Places, NEW i \in AnyRevision, Acked(q, i)'
        PROVE  Listed(q, i)' /\ Filed(q, i)'
    <3>1. i \in stored[q] /\ <<q, i>> \in whole \cup lost
      BY <1>2, <1>4, <1>7, <2>1 DEF Listed
    <3>2. index'[q] = Corrupt \/ i \in ToSet(Entries(q)')
      BY <1>2, <1>4, <1>5, <1>6, <1>7, <2>1 DEF Listed
    <3>3. QED
      BY <1>1, <3>1, <3>2 DEF Listed, Filed
  <2>2. QED
    BY <2>1
<1>9. PackagesHaveRecipe'
  <2>1. SUFFICES ASSUME NEW r \in RRev, NEW i \in PRev, Acked(r, i)'
                 PROVE  r \in stored[Recipe]
    BY <1>1 DEF PackagesHaveRecipe, Acked
  <2>2. r \in Places /\ r # Recipe /\ i \in AnyRevision
    BY PlaceAssumption DEF Places, AnyRevision
  <2>3. Acked(r, i) => r \in stored[Recipe]
    BY <2>2, KnownServed
  <2>4. QED
    BY <1>2, <1>4, <2>1, <2>2, <2>3
<1>10. pc'[w] \in {"idle", "remove", "tidy"}
  BY DEF WriteIndex, Go, Serving, Typed, TypeOK
<1>11. QED
  BY <1>8, <1>9, <1>10, BeginServes

\* A worker that is killed leaves what it was deleting, replacing or writing.
LEMMA CrashServes ==
  ASSUME OneWorker, Serving, Typed', NEW w \in Worker, Crash(w)
  PROVE  Serves' /\ Owned'
<1>1. /\ UNCHANGED <<stored, acked, place, id>> /\ pc'[w] = "idle" /\ place[w] \in Places
      /\ index' = index \/ index' = [index EXCEPT ![place[w]] = Corrupt]
  BY DEF Crash, Go, Serving, Typed, TypeOK
<1>2. \A q \in Places : index'[q] = Corrupt \/ (index'[q] = index[q] /\ Entries(q)' = Entries(q))
  BY <1>1 DEF Entries, Serving, Typed, TypeOK
<1>3. PICK cut : /\ whole' = whole \ cut
                 /\ \A x \in cut : Deletes(w, x[1], x[2])
  BY DEF Crash
<1>4. lost' = IF pc[w] \in {"save", "fill"} THEN lost \cup {<<place[w], id[w]>>} ELSE lost
  BY DEF Crash
<1>5. ASSUME NEW q \in Places, NEW i \in AnyRevision, Acked(q, i)'
      PROVE  Listed(q, i)' /\ Filed(q, i)'
  <2>1. Acked(q, i)
    BY <1>1, <1>5 DEF Acked
  <2>2. Listed(q, i) /\ Filed(q, i) /\ ~Deletes(w, q, i)
    BY <2>1, KnownServed DEF Serving, Serves
  <2>3. <<q, i>> \notin cut
    BY <1>3, <2>2
  <2>4. CASE pc[w] \in {"save", "fill"}
    <3>1. Replaced(q, i) => q = place[w] /\ i = id[w]
      BY DEF OneWorker, Replaced
    <3>2. QED
      BY <1>1, <1>2, <1>3, <1>4, <2>2, <2>3, <2>4, <3>1 DEF Listed, Filed
  <2>5. CASE pc[w] \notin {"save", "fill"}
    <3>1. <<q, i>> \in whole \cup lost
      BY <2>2, <2>5, NotReplaced
    <3>2. QED
      BY <1>1, <1>2, <1>3, <1>4, <2>2, <2>3, <2>5, <3>1 DEF Listed, Filed
  <2>6. QED
    BY <2>4, <2>5
<1>6. PackagesHaveRecipe'
  BY <1>1 DEF PackagesHaveRecipe, Serving, Owned
<1>7. QED
  BY <1>1, <1>5, <1>6, BeginServes

LEMMA NextServes == OneWorker /\ Serving /\ [Next]_vars => Serving'
<1> SUFFICES ASSUME OneWorker, Serving, [Next]_vars PROVE Serving'
  OBVIOUS
<1>1. Typed'
  BY NextTyped DEF Serving
<1>2. CASE UNCHANGED vars
  <2>1. Serves'
    <3>1. UNCHANGED <<stored, whole, lost, index, pc, place, id, removing, list, acked>>
      BY <1>2 DEF vars, files, worker
    <3>2. \A p, i : (Acked(p, i)' <=> Acked(p, i)) /\ (Listed(p, i)' <=> Listed(p, i))
                    /\ (Filed(p, i)' <=> Filed(p, i))
      BY <3>1 DEF Acked, Listed, Filed, Replaced, Entries
    <3>3. \A w, p, i : /\ Deletes(w, p, i)' <=> Deletes(w, p, i)
                       /\ DeletesIndex(w, p)' <=> DeletesIndex(w, p)
      BY <3>1 DEF Deletes, DeletesIndex
    <3>4. QED
      BY <3>1, <3>2, <3>3 DEF Serving, Serves
  <2>2. Owned'
    BY <1>2 DEF vars, files, worker, Serving, Owned, PackagesHaveRecipe
  <2>3. QED
    BY <1>1, <2>1, <2>2 DEF Serving
<1>3. CASE Next
  <2>1. Serves' /\ Owned'
    BY <1>1, <1>3, RequestsServe, SavingServes, DeletingKeeps, GoingServes, LoadServes,
       WriteServes, CrashServes DEF Next
  <2>2. QED
    BY <1>1, <2>1 DEF Serving
<1>4. QED
  BY <1>2, <1>3

LEMMA AlwaysServing ==
  ASSUME OneWorker
  PROVE  Spec => []Serving
<1>1. Init => Serving
  <2>1. Init => Serves /\ Owned
    BY PlaceAssumption
       DEF Init, Serves, Owned, Acked, PackagesHaveRecipe, Places, Deletes, DeletesIndex
  <2>2. QED
    BY <2>1, InitTyped DEF Serving
<1>2. Serving /\ [Next]_vars => Serving'
  BY NextServes
<1>3. QED
  BY <1>1, <1>2, PTL DEF Spec

\* With one worker, as conan_server runs by default, a revision whose upload
\* was answered stays on the server and in its index until its removal is asked
\* for, whatever is asked in whatever order and wherever the worker is killed;
\* and it has its files, but while they are replaced and after the worker was
\* killed at that (_upload_to_path), until they are uploaded again, ...
THEOREM OneWorkerServes == OneWorker => (Spec => []AckedServed)
<1> SUFFICES ASSUME OneWorker PROVE Spec => []AckedServed
  OBVIOUS
<1>1. Serving => AckedServed
  BY DEF Serving, Serves, AckedServed, Acked, Listed, Filed
<1>2. QED
  BY <1>1, AlwaysServing, PTL

\* ... and a package whose upload was answered has its recipe, until a removal
\* of either is asked for (upload_package_file).
THEOREM OneWorkerKeepsRecipes == OneWorker => (Spec => []PackagesHaveRecipe)
<1> SUFFICES ASSUME OneWorker PROVE Spec => []PackagesHaveRecipe
  OBVIOUS
<1>1. Serving => PackagesHaveRecipe
  BY DEF Serving, Owned
<1>2. QED
  BY <1>1, AlwaysServing, PTL

-----------------------------------------------------------------------------
(* What is left when the last revision is gone.                            *)

\* The folder of the recipe holds revisions, the index and its lock, or nothing.
Locked == lock[Recipe] <=> index[Recipe] # NoFile
Settled == Locked /\ (stored[Recipe] # {} <=> index[Recipe] # NoFile)

\* The steps of a request at which that is not so.
Updating(w) ==
  \/ pc[w] \in {"fill", "load", "store"} /\ place[w] = Recipe
  \/ pc[w] \in {"rm revision", "rm recipe", "tidy", "unlink"}

\* The folder of a recipe revision that is not stored is being deleted.
Removing(w, r) == pc[w] = "rm recipe" \/ (pc[w] = "rm revision" /\ id[w] = r)
Placed ==
  \A r \in RRev : stored[r] # {} \/ HasIndex(r) =>
                    r \in stored[Recipe] \/ \E w \in Worker : Removing(w, r)

\* And what the worker knows of the index that it reads, or wrote.
Emptying ==
  /\ \A p \in Places : index[p] # Corrupt
  /\ Placed
  /\ (\A w \in Worker : ~Updating(w)) => Settled
  /\ \A w \in Worker :
       /\ pc[w] \in {"save", "fill"} => <<place[w], id[w]>> \notin whole
       /\ pc[w] \in {"rm package", "load", "store"} =>
            place[w] = Recipe \/ place[w] \in stored[Recipe]
       /\ pc[w] \in {"fill", "load"} /\ place[w] = Recipe =>
            Locked /\ (removing[w] => index[Recipe] # NoFile)
       /\ pc[w] \in {"rm revision", "tidy"} => Locked /\ index[Recipe] # NoFile
       /\ pc[w] = "unlink" => stored[Recipe] = {}

EInv == Serving /\ (crashes = 0 => Emptying)

\* What the next lemmas take from the types.
LEMMA EmptyTypes ==
  ASSUME OneWorker, EInv, NEW w \in Worker
  PROVE  /\ \A v \in Worker : v = w
         /\ Recipe \in Places /\ Recipe \notin RRev /\ RRev \subseteq Places
         /\ stored \in [Places -> SUBSET AnyRevision] /\ DOMAIN index = Places
         /\ lock \in [Places -> BOOLEAN]
         /\ pc \in [Worker -> {"idle", "put", "save", "fill", "remove", "load", "store", "tidy"}
                                \cup Deleting]
         /\ place \in [Worker -> Places] /\ id \in [Worker -> AnyRevision]
         /\ removing \in [Worker -> BOOLEAN]
BY PlaceAssumption DEF OneWorker, EInv, Serving, Typed, TypeOK, Places

\* A request that begins finds everything settled, and changes no file.
LEMMA RequestsEmpty ==
  ASSUME OneWorker, EInv, crashes' = 0, NEW w \in Worker,
         \/ \E p \in Places : \E i \in Revision(p) : PutFile(w, p, i)
         \/ \E r \in RRev :
              \/ RemoveRecipeRevision(w, r) \/ RemoveAllPackages(w, r)
              \/ \E all \in PackagesToRemove(r) : RemovePackage(w, r, all)
         \/ RemoveRecipe(w) \/ GetLatestRevision(w)
  PROVE  Emptying'
<1>1. /\ pc[w] = "idle" /\ crashes = 0 /\ UNCHANGED <<stored, whole, index, lock>>
  BY DEF PutFile, RemoveRecipeRevision, RemoveAllPackages, RemovePackage,
     RemoveRecipe, GetLatestRevision, Request, files
<1>2. Emptying /\ Settled
  BY <1>1, EmptyTypes DEF EInv, Emptying, Updating
<1>3. \A r \in RRev : stored[r] # {} \/ HasIndex(r) => r \in stored[Recipe]
  BY <1>1, <1>2, EmptyTypes DEF Emptying, Placed, Removing
<1>4. Placed' /\ Settled' /\ \A p \in Places : index'[p] # Corrupt
  BY <1>1, <1>2, <1>3 DEF Emptying, Placed, Settled, Locked, HasIndex
<1>5. CASE pc'[w] \in {"idle", "put", "remove", "rm packages", "rm recipe"}
  BY <1>4, <1>5, EmptyTypes DEF Emptying
<1>6. ASSUME NEW r \in RRev, RemoveRecipeRevision(w, r) PROVE Emptying'
  <2>1. FolderExists(r) /\ pc'[w] = "rm revision"
    BY <1>6, EmptyTypes DEF RemoveRecipeRevision, Begin, Go
  <2>2. stored[Recipe] # {}
    BY <1>3, <2>1 DEF FolderExists
  <2>3. Locked' /\ index'[Recipe] # NoFile
    BY <1>1, <1>2, <2>2 DEF Settled, Locked
  <2>4. QED
    BY <1>4, <2>1, <2>3, EmptyTypes DEF Emptying
<1>7. ASSUME NEW r \in RRev, RemoveAllPackages(w, r) PROVE pc'[w] = "rm packages"
  BY <1>7, EmptyTypes DEF RemoveAllPackages, Begin, Go
<1>8. ASSUME NEW p, NEW i, PutFile(w, p, i) PROVE pc'[w] = "put"
  BY <1>8, EmptyTypes DEF PutFile, Begin, Go
<1>9. ASSUME NEW r, NEW all, RemovePackage(w, r, all) PROVE pc'[w] = "remove"
  BY <1>9, EmptyTypes DEF RemovePackage, Begin, Go
<1>10. CASE RemoveRecipe(w)
  BY <1>5, <1>10, EmptyTypes DEF RemoveRecipe, Go
<1>11. CASE GetLatestRevision(w)
  BY <1>1, <1>5, <1>11 DEF GetLatestRevision, worker
<1>12. QED
  BY <1>5, <1>6, <1>7, <1>8, <1>9, <1>10, <1>11

LEMMA SavingEmpty ==
  ASSUME OneWorker, EInv, crashes' = 0, NEW w \in Worker,
         UnlinkFile(w) \/ MakeFolder(w) \/ SaveFile(w)
  PROVE  Emptying'
<1> DEFINE p == place[w]
<1>1. /\ pc[w] \in {"put", "save", "fill"} /\ crashes = 0 /\ p \in Places /\ ~removing[w]
      /\ UNCHANGED <<index, lock, place, id, removing>>
      /\ p = Recipe \/ p \in stored[Recipe]
  BY EmptyTypes DEF UnlinkFile, MakeFolder, SaveFile, EInv, Serving, Typed, Ready, Owned
<1>2. Emptying
  BY <1>1 DEF EInv
<1>3. /\ \A q \in Places : stored[q] \subseteq stored'[q]
      /\ \A q \in Places : q # p => stored'[q] = stored[q]
  BY <1>1, EmptyTypes DEF UnlinkFile, MakeFolder, SaveFile
<1>4. Placed'
  <2>1. \A r \in RRev : stored[r] # {} \/ HasIndex(r) => r \in stored[Recipe]
    BY <1>1, <1>2, EmptyTypes DEF Emptying, Placed, Removing
  <2>2. \A r \in RRev : stored'[r] # {} => stored[r] # {} \/ r = p
    BY <1>3, EmptyTypes
  <2>3. QED
    BY <1>1, <1>3, <2>1, <2>2, EmptyTypes DEF Placed, HasIndex
<1>5. Locked /\ (p # Recipe \/ pc[w] # "fill" => Settled)
  BY <1>1, <1>2, EmptyTypes DEF Emptying, Updating, Settled
<1>6. Locked' /\ (p # Recipe => Settled')
  BY <1>1, <1>3, <1>5, EmptyTypes DEF Locked, Settled
<1>7. CASE UnlinkFile(w)
  <2>1. pc'[w] = "save" /\ <<p, id[w]>> \notin whole' /\ stored' = stored /\ pc[w] = "put"
    BY <1>7, EmptyTypes DEF UnlinkFile, Go
  <2>2. Settled'
    BY <1>1, <1>5, <2>1 DEF Settled, Locked
  <2>3. QED
    BY <1>1, <1>2, <1>4, <2>1, <2>2, EmptyTypes DEF Emptying
<1>8. CASE MakeFolder(w)
  <2>1. pc'[w] = "fill" /\ <<p, id[w]>> \notin whole'
    BY <1>2, <1>8, EmptyTypes DEF MakeFolder, Go, Emptying
  <2>2. QED
    BY <1>1, <1>2, <1>4, <1>6, <2>1, EmptyTypes DEF Emptying, Updating
<1>9. CASE SaveFile(w)
  <2>1. id[w] \in stored[p] /\ <<p, id[w]>> \notin whole
    BY <1>1, <1>2, <1>9 DEF SaveFile, EInv, Serving, Serves, Emptying
  <2>2. pc'[w] = "load"
    BY <1>9, <2>1, EmptyTypes DEF SaveFile, Go
  <2>3. p = Recipe \/ p \in stored'[Recipe]
    BY <1>1, <1>3, EmptyTypes
  <2>4. QED
    BY <1>1, <1>2, <1>4, <1>6, <2>2, <2>3, EmptyTypes DEF Emptying, Updating
<1>10. QED
  BY <1>7, <1>8, <1>9

LEMMA DeletingEmpty ==
  ASSUME OneWorker, EInv, crashes' = 0, NEW w \in Worker, Delete(w)
  PROVE  Emptying'
<1>0. /\ pc[w] \in {"rm revision", "rm packages"} => id[w] \in RRev
      /\ pc[w] = "rm package" => place[w] \in RRev
  BY DEF EInv, Serving, Typed, Ready
<1>1. /\ pc[w] \in Deleting /\ crashes = 0 /\ UNCHANGED <<pc, place, id, removing>>
  BY DEF Delete, DeleteFolder, DeleteIndex, DeleteLock, Deletes, DeletesIndex, Deleting, worker
<1>2. Emptying
  BY <1>1 DEF EInv
<1>3. /\ \A q \in Places : stored'[q] \subseteq stored[q]
      /\ \A q \in Places : index'[q] \in {index[q], NoFile} /\ (lock'[q] => lock[q])
      /\ stored'[Recipe] = stored[Recipe] \/ pc[w] = "rm recipe"
           \/ (pc[w] = "rm revision" /\ stored[Recipe] \subseteq stored'[Recipe] \cup {id[w]})
      /\ UNCHANGED <<index[Recipe], lock[Recipe]>> \/ pc[w] \in {"rm recipe", "unlink"}
  <2>1. PICK p \in Places :
          (\E i \in Revision(p) : DeleteFolder(w, p, i)) \/ DeleteIndex(w, p) \/ DeleteLock(w, p)
    BY DEF Delete
  <2>2. CASE \E i \in Revision(p) : DeleteFolder(w, p, i)
    <3>1. PICK i \in Revision(p) : DeleteFolder(w, p, i)
      BY <2>2
    <3>2. /\ Deletes(w, p, i) /\ UNCHANGED <<index, lock>>
          /\ stored' = [stored EXCEPT ![p] = @ \ {i}]
      BY <3>1 DEF DeleteFolder
    <3>3. p = Recipe => pc[w] = "rm recipe" \/ (pc[w] = "rm revision" /\ i = id[w])
      BY <1>0, <3>2, PlaceAssumption DEF Deletes
    <3>4. QED
      BY <3>2, <3>3, EmptyTypes
  <2>3. CASE DeleteIndex(w, p) \/ DeleteLock(w, p)
    <3>1. /\ DeletesIndex(w, p) /\ UNCHANGED stored
          /\ \/ index' = [index EXCEPT ![p] = NoFile] /\ lock' = lock
             \/ lock' = [lock EXCEPT ![p] = FALSE] /\ index' = index
      BY <2>3 DEF DeleteIndex, DeleteLock
    <3>2. p = Recipe => pc[w] \in {"rm recipe", "unlink"}
      BY <1>0, <3>1, PlaceAssumption DEF DeletesIndex
    <3>3. QED
      BY <3>1, <3>2, EmptyTypes
  <2>4. QED
    BY <2>1, <2>2, <2>3
<1>4. \A q \in Places : index'[q] # Corrupt
  BY <1>2, <1>3, FileAssumption DEF Emptying
<1>5. Placed'
  <2>1. \A r \in RRev : stored'[r] # {} \/ HasIndex(r)' => stored[r] # {} \/ HasIndex(r)
    BY <1>3, EmptyTypes DEF HasIndex
  <2>2. \A r \in RRev : r \in stored[Recipe] => r \in stored'[Recipe] \/ Removing(w, r)
    BY <1>3 DEF Removing
  <2>3. \A r \in RRev, v \in Worker : Removing(v, r)' <=> Removing(v, r)
    BY <1>1 DEF Removing
  <2>4. QED
    BY <1>2, <2>1, <2>2, <2>3 DEF Emptying, Placed
<1>6. CASE pc[w] \in {"rm recipe", "unlink"}
  BY <1>1, <1>2, <1>3, <1>4, <1>5, <1>6, EmptyTypes DEF Emptying, Updating
<1>7. CASE pc[w] = "rm revision"
  BY <1>1, <1>2, <1>3, <1>4, <1>5, <1>7, EmptyTypes DEF Emptying, Updating, Locked
<1>8. CASE pc[w] \in {"rm packages", "rm package"}
  <2>1. Settled'
    BY <1>1, <1>2, <1>3, <1>8, EmptyTypes DEF Emptying, Updating, Settled, Locked
  <2>2. QED
    BY <1>1, <1>2, <1>3, <1>4, <1>5, <1>8, <2>1, EmptyTypes DEF Emptying
<1>9. QED
  BY <1>1, <1>6, <1>7, <1>8 DEF Deleting

LEMMA GoingEmpty ==
  ASSUME OneWorker, EInv, crashes' = 0, NEW w \in Worker,
         RemovePackageFolder(w) \/ EndDelete(w) \/ Tidy(w)
  PROVE  Emptying'
<1>1. /\ crashes = 0 /\ UNCHANGED <<stored, whole, index, lock, place, removing>>
  BY DEF RemovePackageFolder, EndDelete, Tidy, files
<1>2. Emptying
  BY <1>1 DEF EInv
<1>3. \A p \in Places : index'[p] # Corrupt
  BY <1>1, <1>2 DEF Emptying
<1>4. CASE RemovePackageFolder(w)
  <2>1. /\ pc[w] = "remove" /\ pc'[w] \in {"idle", "rm package"} /\ place[w] \in RRev
        /\ pc'[w] = "rm package" => stored[place[w]] # {}
    BY <1>4, EmptyTypes DEF RemovePackageFolder, Go, EInv, Serving, Typed, Ready
  <2>2. \A r \in RRev : stored[r] # {} \/ HasIndex(r) => r \in stored[Recipe]
    <3>1. \A v \in Worker, r \in RRev : ~Removing(v, r)
      BY <2>1 DEF OneWorker, Removing
    <3>2. QED
      BY <1>2, <3>1 DEF Emptying, Placed
  <2>3. Placed'
    BY <1>1, <2>2 DEF Placed, HasIndex
  <2>4. Settled'
    BY <1>1, <1>2, <2>1, EmptyTypes DEF Emptying, Updating, Settled, Locked
  <2>5. QED
    BY <1>1, <1>3, <2>1, <2>2, <2>3, <2>4, EmptyTypes DEF Emptying
<1>5. CASE EndDelete(w)
  <2>1. /\ pc[w] \in Deleting /\ ~Left(w) /\ UNCHANGED id
        /\ pc'[w] = IF pc[w] \in {"rm revision", "rm package"} THEN "load" ELSE "idle"
    BY <1>5, EmptyTypes DEF EndDelete, Go
  <2>2. /\ \A p \in Places : DeletesIndex(w, p) => index[p] = NoFile /\ ~lock[p]
        /\ \A p \in Places : \A i \in stored[p] : ~Deletes(w, p, i)
    BY <2>1 DEF Left, HasIndex
  <2>3. Placed'
    <3>1. SUFFICES ASSUME NEW r \in RRev, stored[r] # {} \/ HasIndex(r)
                   PROVE  r \in stored[Recipe]
      BY <1>1 DEF Placed, HasIndex
    <3>2. ~Removing(w, r)
      BY <2>2, <3>1, EmptyTypes DEF Removing, Deletes, DeletesIndex, HasIndex
    <3>3. QED
      BY <1>2, <3>1, <3>2, EmptyTypes DEF Emptying, Placed
  <2>4. CASE pc[w] = "rm recipe"
    <3>1. Settled'
      BY <1>1, <2>2, <2>4, EmptyTypes DEF Settled, Locked, Deletes, DeletesIndex
    <3>2. QED
      BY <1>3, <2>1, <2>3, <2>4, <3>1, EmptyTypes DEF Emptying
  <2>5. CASE pc[w] = "unlink"
    <3>1. Settled'
      BY <1>1, <1>2, <2>2, <2>5, EmptyTypes DEF Emptying, Settled, Locked, DeletesIndex
    <3>2. QED
      BY <1>3, <2>1, <2>3, <2>5, <3>1, EmptyTypes DEF Emptying
  <2>6. CASE pc[w] = "rm revision"
    <3>1. Locked' /\ index'[Recipe] # NoFile /\ place'[w] = Recipe /\ pc'[w] = "load"
      BY <1>1, <1>2, <2>1, <2>6 DEF Emptying, Locked, EInv, Serving, Typed, Ready
    <3>2. QED
      BY <1>3, <2>3, <3>1, EmptyTypes DEF Emptying, Updating
  <2>7. CASE pc[w] \in {"rm package", "rm packages"}
    <3>1. Settled'
      BY <1>1, <1>2, <2>7, EmptyTypes DEF Emptying, Updating, Settled, Locked
    <3>2. pc'[w] = "load" => place'[w] \in RRev /\ place'[w] \in stored'[Recipe]
      BY <1>1, <1>2, <2>1, <2>7, EmptyTypes DEF Emptying, EInv, Serving, Typed, Ready
    <3>3. QED
      BY <1>3, <2>1, <2>3, <3>1, <3>2, EmptyTypes DEF Emptying
  <2>8. QED
    BY <2>1, <2>4, <2>5, <2>6, <2>7 DEF Deleting
<1>6. CASE Tidy(w)
  <2>1. /\ pc[w] = "tidy" /\ pc'[w] \in {"idle", "unlink"}
        /\ pc'[w] = "unlink" <=> /\ \A r \in RRev : ~FolderExists(r)
                                 /\ index[Recipe] # NoFile /\ lock[Recipe]
    BY <1>6, EmptyTypes DEF Tidy, Go
  <2>2. Locked /\ index[Recipe] # NoFile
    BY <1>2, <2>1 DEF Emptying
  <2>3. \A r \in RRev : FolderExists(r) => r \in stored[Recipe]
    <3>1. \A v \in Worker, r \in RRev : ~Removing(v, r)
      BY <2>1 DEF OneWorker, Removing
    <3>2. QED
      BY <1>2, <3>1 DEF Emptying, Placed, FolderExists
  <2>4. Placed'
    BY <1>1, <2>3 DEF Placed, HasIndex, FolderExists
  <2>5. CASE pc'[w] = "idle"
    <3>1. stored[Recipe] # {}
      BY <2>1, <2>2, <2>3, <2>5 DEF Locked
    <3>2. Settled'
      BY <1>1, <2>2, <3>1 DEF Settled, Locked
    <3>3. QED
      BY <1>3, <2>4, <2>5, <3>2, EmptyTypes DEF Emptying
  <2>6. CASE pc'[w] = "unlink"
    <3>1. stored'[Recipe] = {}
      BY <1>1, <2>1, <2>6
         DEF FolderExists, EInv, Serving, Typed, TypeOK, Places, Revision
    <3>2. QED
      BY <1>3, <2>4, <2>6, <3>1, EmptyTypes DEF Emptying, Updating
  <2>7. QED
    BY <2>1, <2>5, <2>6
<1>7. QED
  BY <1>4, <1>5, <1>6

\* The steps at the index itself.
LEMMA LoadEmpty ==
  ASSUME OneWorker, EInv, crashes' = 0, NEW w \in Worker, LoadIndex(w)
  PROVE  Emptying'
<1> DEFINE p == place[w]
           starts == ~removing[w] /\ index[p] = NoFile
<1>1. /\ pc[w] = "load" /\ crashes = 0 /\ p \in Places
  BY EmptyTypes DEF LoadIndex
<1>2. Emptying
  BY <1>1 DEF EInv
<1>3. /\ UNCHANGED <<stored, index, place, id, removing>> /\ pc'[w] \in {"idle", "store"}
      /\ pc'[w] = "idle" => removing[w] /\ index[p] = NoFile
      /\ lock' = [lock EXCEPT ![p] = @ \/ ~starts]
  BY <1>1, <1>2, EmptyTypes DEF LoadIndex, Go, Emptying
<1>4. \A r \in RRev : stored[r] # {} \/ HasIndex(r) => r \in stored[Recipe]
  BY <1>1, <1>2, EmptyTypes DEF Emptying, Placed, Removing
<1>5. CASE p = Recipe
  <2>1. pc'[w] = "store"
    BY <1>1, <1>2, <1>3, <1>5 DEF Emptying
  <2>2. \A r \in RRev : HasIndex(r)' <=> HasIndex(r)
    BY <1>3, <1>5, EmptyTypes DEF HasIndex
  <2>3. Placed'
    BY <1>3, <1>4, <2>2 DEF Placed
  <2>4. QED
    BY <1>2, <1>3, <1>5, <2>1, <2>3, EmptyTypes DEF Emptying, Updating
<1>6. CASE p # Recipe
  <2>1. p \in RRev /\ p \in stored[Recipe]
    BY <1>1, <1>2, <1>6 DEF Emptying, Places
  <2>2. \A r \in RRev : r # p => (HasIndex(r)' <=> HasIndex(r))
    BY <1>1, <1>3, EmptyTypes DEF HasIndex
  <2>3. lock'[Recipe] = lock[Recipe]
    BY <1>1, <1>3, <1>6, EmptyTypes
  <2>4. Settled'
    BY <1>1, <1>2, <1>3, <1>6, <2>3, EmptyTypes DEF Emptying, Updating, Settled, Locked
  <2>5. Placed'
    BY <1>3, <1>4, <2>1, <2>2 DEF Placed
  <2>6. QED
    BY <1>2, <1>3, <1>6, <2>1, <2>4, <2>5, EmptyTypes DEF Emptying
<1>7. QED
  BY <1>5, <1>6

LEMMA WriteEmpty ==
  ASSUME OneWorker, EInv, crashes' = 0, NEW w \in Worker, WriteIndex(w)
  PROVE  Emptying'
<1> DEFINE p == place[w]
<1>1. /\ pc[w] = "store" /\ crashes = 0 /\ p \in Places
  BY EmptyTypes DEF WriteIndex
<1>2. Emptying
  BY <1>1 DEF EInv
<1>3. /\ UNCHANGED <<stored, place, id, removing>>
      /\ index' = [index EXCEPT ![p] = list[w]] /\ lock' = [lock EXCEPT ![p] = TRUE]
      /\ pc'[w] \in {"idle", "remove", "tidy"}
      /\ pc'[w] = "tidy" <=> removing[w] /\ p = Recipe
  BY <1>1, EmptyTypes DEF WriteIndex, Go
<1>4. list[w] \notin {NoFile, Corrupt}
  <2>1. list[w] \in Seq(Revision(p))
    BY <1>1 DEF EInv, Serving, Typed, TypeOK
  <2>2. QED
    BY <1>1, <2>1, FileAssumption
<1>5. (\A q \in Places : index'[q] # Corrupt) /\ index'[p] # NoFile /\ lock'[p]
  BY <1>1, <1>2, <1>3, <1>4, EmptyTypes DEF Emptying
<1>6. \A r \in RRev : stored[r] # {} \/ HasIndex(r) => r \in stored[Recipe]
  BY <1>1, <1>2, EmptyTypes DEF Emptying, Placed, Removing
<1>7. CASE p = Recipe
  <2>1. \A r \in RRev : HasIndex(r)' <=> HasIndex(r)
    BY <1>3, <1>7, EmptyTypes DEF HasIndex
  <2>2. Locked'
    BY <1>5, <1>7 DEF Locked
  <2>3. ~removing[w] => stored[Recipe] # {}
    BY <1>1, <1>7 DEF EInv, Serving, Serves
  <2>4. Placed'
    BY <1>3, <1>6, <2>1 DEF Placed
  <2>5. QED
    BY <1>2, <1>3, <1>5, <1>7, <2>2, <2>3, <2>4, EmptyTypes DEF Emptying, Updating, Settled
<1>8. CASE p # Recipe
  <2>1. p \in RRev /\ p \in stored[Recipe]
    BY <1>1, <1>2, <1>8 DEF Emptying, Places
  <2>2. \A r \in RRev : r # p => (HasIndex(r)' <=> HasIndex(r))
    BY <1>1, <1>3, EmptyTypes DEF HasIndex
  <2>3. lock'[Recipe] = lock[Recipe] /\ index'[Recipe] = index[Recipe]
    BY <1>1, <1>3, <1>8, EmptyTypes
  <2>4. Settled'
    BY <1>1, <1>2, <1>3, <1>8, <2>3, EmptyTypes DEF Emptying, Updating, Settled, Locked
  <2>5. Placed'
    BY <1>3, <1>6, <2>1, <2>2 DEF Placed
  <2>6. QED
    BY <1>2, <1>3, <1>5, <1>8, <2>1, <2>4, <2>5, EmptyTypes DEF Emptying
<1>9. QED
  BY <1>7, <1>8

LEMMA NextEmpty == OneWorker /\ EInv /\ [Next]_vars => EInv'
<1> SUFFICES ASSUME OneWorker, EInv, [Next]_vars, crashes' = 0 PROVE Emptying'
  BY NextServes DEF EInv
<1>1. CASE UNCHANGED vars
  BY <1>1 DEF EInv, Emptying, Placed, Removing, Updating, Settled, Locked, HasIndex, vars, files,
     worker
<1>2. ASSUME NEW w \in Worker, Crash(w) PROVE FALSE
  BY <1>2, BoundsAssumption DEF Crash, EInv, Serving, Typed, TypeOK
<1>3. CASE Next
  BY <1>2, <1>3, RequestsEmpty, SavingEmpty, DeletingEmpty, GoingEmpty, LoadEmpty, WriteEmpty
     DEF Next
<1>4. QED
  BY <1>1, <1>3

\* With one worker that is not killed, and no revisions left by the migration,
\* the recipe is not found any more when its last revision has been removed,
\* however that came about (_delete_empty_dirs).
THEOREM OneWorkerTidies == OneWorker /\ Migrated = {} => (Spec => []NothingLeft)
<1> SUFFICES ASSUME OneWorker, Migrated = {} PROVE Spec => []NothingLeft
  OBVIOUS
<1>1. Init => Emptying
  BY FileAssumption, PlaceAssumption
     DEF Init, Emptying, Placed, Removing, Updating, Settled, Locked, HasIndex, Places
<1>2. EInv => NothingLeft
  <2> SUFFICES ASSUME EInv, Idle, crashes = 0, \A r \in RRev : ~FolderExists(r)
               PROVE  ~RecipeExists
    BY DEF NothingLeft
  <2>1. Settled
    BY DEF EInv, Emptying, Idle, Updating
  <2>2. stored[Recipe] = {}
    BY DEF EInv, Serving, Typed, TypeOK, FolderExists, Places, Revision
  <2>3. QED
    BY <2>1, <2>2 DEF Settled, Locked, RecipeExists, HasIndex
<1>3. Spec => []EInv
  <2>1. Init /\ Serving => EInv
    BY <1>1 DEF EInv
  <2>2. EInv /\ [Next]_vars => EInv'
    BY NextEmpty
  <2>3. QED
    BY <2>1, <2>2, AlwaysServing, PTL DEF Spec
<1>4. QED
  BY <1>2, <1>3, PTL
=============================================================================

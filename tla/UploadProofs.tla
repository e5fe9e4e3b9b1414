---------------------------- MODULE UploadProofs ----------------------------
(***************************************************************************)
(* Proofs about uploads.  First the files of one revision, for any number  *)
(* of clients, files, runs and faults.  Then the pool of an upload, for    *)
(* any recipes, packages, threads, remotes and failures: an upload that    *)
(* ends well has uploaded everything, and packages follow their recipe;    *)
(* and the remotes that recipes and packages name, whatever commands       *)
(* change them.                                                            *)
(***************************************************************************)
EXTENDS Upload, UploadPool, FiniteSetTheorems, SequenceTheorems, TLAPS

-----------------------------------------------------------------------------
(* Type correctness, which needs to know how far each upload can be, and   *)
(* which request each client waits for.                                    *)

\* Client c is at a place of its upload, and waits for an answer to its file.
PositionOf(c) ==
  /\ pc[c] \in {"manifest", "snapshot", "compare"} => next[c] = 1 /\ missed[c] = {}
  /\ pc[c] = "sending" => next[c] \in FileNames
  /\ asked[c] # Free =>
       /\ pc[c] = "sending" /\ Handles(asked[c])
       /\ handling[asked[c]].client = c /\ handling[asked[c]].file = next[c]

Position == \A c \in Client : PositionOf(c)

\* Who writes to a file has created it, and a cut file is written or lost.
Opened ==
  /\ \A h \in Handler : handling[h].step = "open" => stored[handling[h].file] # Absent
  /\ \A f \in cut : stored[f] # Absent
  /\ \A f \in cut : f \in lost \/ \E h \in Handler :
       handling[h].step = "open" /\ handling[h].file = f

Placed == TypeOK /\ Position /\ Opened

Decides(c) == Start(c) \/ CheckRecipeDate(c) \/ GetSnapshot(c) \/ Compare(c)
Sends(c) == AnswerLost(c) \/ GiveUp(c) \/ Abort(c) \/ \E h \in Handler : Request(c, h)
Serves(h) == Unlink(h) \/ Create(h) \/ FileExists(h) \/ CloseFile(h) \/ KillHandler(h)
Removes == \E files \in SUBSET Snapshot \ {{}} : RemoveFiles(files)
Reads == CheckComplete \/ ListFiles \/ Download

LEMMA StepCases ==
  ASSUME [RevisionNext]_revisionVars
  PROVE  /\ UNCHANGED setup
         /\ \/ \E c \in Client : Decides(c) \/ Sends(c)
            \/ \E h \in Handler : Serves(h)
            \/ Removes \/ Reads \/ UNCHANGED revisionVars
BY DEF RevisionNext, Step, Decides, Sends, Serves, Removes, Reads, revisionVars

LEMMA InitPlaced == RevisionInit => Placed
<1> SUFFICES ASSUME RevisionInit PROVE Placed
  OBVIOUS
<1>1. TypeOK
  BY FilesAssumption, BoundsAssumption DEF RevisionInit, TypeOK, Resting, Content, Nothing, FileNames
<1>2. Position
  BY DEF RevisionInit, Position, PositionOf
<1>3. Opened
  BY DEF RevisionInit, Opened, Free
<1>4. QED
  BY <1>1, <1>2, <1>3 DEF Placed

\* A handler that is not free has a request of a client.
LEMMA HandlerFacts ==
  ASSUME TypeOK, NEW h \in Handler
  PROVE  /\ Handles(h) <=> handling[h].step # "free"
         /\ Handles(h) =>
              /\ handling[h] \in Requests
              /\ handling[h].client \in Client /\ handling[h].file \in FileNames
              /\ handling[h].step \in {"received", "clear", "open", "gone"}
<1>1. handling[h] \in Requests \/ handling[h] = Free
  BY DEF TypeOK
<1>2. QED
  BY <1>1 DEF Handles, Requests, Free

LEMMA LocalNumber ==
  ASSUME TypeOK, NEW c \in Client PROVE Local[c] \in Nat /\ Local[c] # Absent /\ Local[c] \in Content
BY SetupsAssumption, AbsentAssumption DEF TypeOK, Local, Content

LEMMA DecidesPlaced ==
  ASSUME Placed, UNCHANGED setup, NEW c \in Client, Decides(c)
  PROVE  Placed'
<1>1. UNCHANGED <<server, asked>> /\ asked[c] = Free
  BY DEF Decides, Start, CheckRecipeDate, GetSnapshot, Compare, Placed, Position, PositionOf, Resting
<1>2. Opened'
  BY <1>1 DEF Placed, Opened, server
<1>3. stored[Manifest] \in Content
  BY FilesAssumption DEF Placed, TypeOK, Manifest, FileNames
<1>4. TypeOK' /\ PositionOf(c)'
  <2>1. CASE Start(c)
    BY <1>1, <2>1, FilesAssumption, BoundsAssumption
       DEF Placed, PositionOf, TypeOK, Start, Go, Resting, Content, FileNames, reader, server
  <2>2. CASE CheckRecipeDate(c)
    <3>1. \E to \in {"snapshot", "refused", "failed"} : Go(c, to)
      BY <2>2 DEF CheckRecipeDate
    <3>2. manifest' \in [Client -> Content \cup {Garbled}]
      BY <1>3, <2>2 DEF CheckRecipeDate, Placed, TypeOK
    <3>3. pc[c] = "manifest" /\ UNCHANGED <<next, missed, runs, faults, wiped, reader>>
      BY <2>2 DEF CheckRecipeDate
    <3>4. TypeOK'
      BY <1>1, <3>1, <3>2, <3>3 DEF Placed, TypeOK, Go, Resting, reader, server
    <3>5. PositionOf(c)'
      BY <1>1, <3>1, <3>3 DEF Placed, Position, PositionOf, TypeOK, Go
    <3>6. QED
      BY <3>4, <3>5
  <2>3. CASE GetSnapshot(c)
    <3>1. SnapshotTo(c) \in {"sending", "compare", "done", "refused"}
      BY DEF SnapshotTo, CompareTo
    <3>2. QED
      BY <1>1, <2>3, <3>1, FilesAssumption
         DEF Placed, Position, PositionOf, TypeOK, GetSnapshot, Go, Resting, FileNames, reader, server
  <2>4. CASE Compare(c)
    <3>1. \E to \in {"sending", "done", "refused", "failed"} : Go(c, to)
      BY <2>4 DEF Compare, CompareTo
    <3>2. manifest' \in [Client -> Content \cup {Garbled}]
      BY <1>3, <2>4 DEF Compare, Placed, TypeOK
    <3>3. QED
      BY <1>1, <2>4, <3>1, <3>2, FilesAssumption
         DEF Placed, Position, PositionOf, TypeOK, Compare, Go, Resting, FileNames, reader, server
  <2>5. QED
    BY <2>1, <2>2, <2>3, <2>4 DEF Decides
<1>5. ASSUME NEW d \in Client \ {c} PROVE PositionOf(d)'
  <2>1. pc'[d] = pc[d] /\ next'[d] = next[d] /\ missed'[d] = missed[d]
    BY DEF Decides, Start, CheckRecipeDate, GetSnapshot, Compare, Go, Placed, TypeOK
  <2>2. QED
    BY <1>1, <2>1 DEF Placed, Position, PositionOf, server, Handles
<1>6. QED
  BY <1>2, <1>4, <1>5 DEF Placed, Position

LEMMA SendsPlaced ==
  ASSUME Placed, UNCHANGED setup, NEW c \in Client, Sends(c)
  PROVE  Placed'
<1>1. CASE AnswerLost(c)
  <2>1. TypeOK' /\ Opened'
    BY <1>1, BoundsAssumption DEF Placed, TypeOK, Opened, AnswerLost, server, reader
  <2>2. Position'
    BY <1>1 DEF Placed, TypeOK, Position, PositionOf, AnswerLost, server, Handles
  <2>3. QED
    BY <2>1, <2>2 DEF Placed
<1>2. CASE Abort(c)
  <2>1. TypeOK' /\ Opened'
    BY <1>2 DEF Placed, TypeOK, Opened, Abort, Go, Resting, server, reader
  <2>2. Position'
    BY <1>2 DEF Placed, TypeOK, Position, PositionOf, Abort, Go, server, Handles
  <2>3. QED
    BY <2>1, <2>2 DEF Placed
<1>3. CASE GiveUp(c)
  <2>1. pc[c] = "sending" /\ asked[c] = Free /\ next[c] \in FileNames /\ next[c] \in Nat
    BY <1>3 DEF GiveUp, Placed, Position, PositionOf, FileNames
  <2>2. /\ missed' \in [Client -> SUBSET FileNames] /\ next' \in [Client -> 1..Files + 1]
        /\ next' = [next EXCEPT ![c] = @ + 1]
        /\ pc' = [pc EXCEPT ![c] = IF next[c] < Files THEN "sending" ELSE "failed"]
    <3>1. missed[c] \cup {next[c]} # {}
      OBVIOUS
    <3>2. pc' = [pc EXCEPT ![c] = IF next[c] < Files THEN "sending" ELSE "failed"]
      BY <1>3, <3>1, Zenon DEF GiveUp, FileSent, Go
    <3>3. QED
      BY <1>3, <2>1, <3>2, FilesAssumption DEF GiveUp, FileSent, Placed, TypeOK, FileNames
  <2>3. TypeOK'
    BY <1>3, <2>1, <2>2, BoundsAssumption DEF Placed, TypeOK, GiveUp, Resting, reader
  <2>4. Opened'
    BY <1>3 DEF Placed, Opened, GiveUp
  <2>5. Position'
    BY <1>3, <2>1, <2>2, FilesAssumption
       DEF Placed, TypeOK, Position, PositionOf, GiveUp, FileSent, FileNames, Handles
  <2>6. QED
    BY <2>3, <2>4, <2>5 DEF Placed
<1>4. ASSUME NEW h \in Handler, Request(c, h) PROVE Placed'
  <2> DEFINE r == [client |-> c, file |-> next[c], step |-> "received"]
  <2>1. /\ pc[c] = "sending" /\ asked[c] = Free /\ handling[h] = Free /\ next[c] \in FileNames
        /\ asked' = [asked EXCEPT ![c] = h] /\ handling' = [handling EXCEPT ![h] = r]
        /\ UNCHANGED <<stored, cut, lost, pc, manifest, next, missed, runs, faults, wiped, reader>>
    BY <1>4 DEF Request, Receive, Handles, Placed, Position, PositionOf
  <2>2. r \in Requests /\ r # Free /\ r.step = "received" /\ r.client = c /\ r.file = next[c]
    BY <2>1 DEF Requests, Free
  <2>3. TypeOK'
    BY <2>1, <2>2 DEF Placed, TypeOK, reader
  <2>4. Opened'
    BY <2>1, <2>2 DEF Placed, Opened, TypeOK, Free
  <2>5. Position'
    <3>1. ASSUME NEW d \in Client PROVE PositionOf(d)'
      <4>1. CASE d = c
        BY <2>1, <2>2, <4>1 DEF Placed, TypeOK, Position, PositionOf, Handles
      <4>2. CASE d # c
        <5>1. asked'[d] = asked[d] /\ (asked[d] # Free => asked[d] \in Handler \ {h})
          BY <2>1, <4>2 DEF Placed, TypeOK, Position, PositionOf, Handles
        <5>2. QED
          BY <2>1, <5>1 DEF Placed, TypeOK, Position, PositionOf, Handles
      <4>3. QED
        BY <4>1, <4>2
    <3>2. QED
      BY <3>1 DEF Position
  <2>6. QED
    BY <2>3, <2>4, <2>5 DEF Placed
<1>5. QED
  BY <1>1, <1>2, <1>3, <1>4 DEF Sends

\* A request that ends leaves its client waiting for nobody.
LEMMA HeardPlaced ==
  ASSUME Placed, NEW h \in Handler, Handles(h), handling' = [handling EXCEPT ![h] = Free],
         asked' = Heard(h)
  PROVE  /\ asked' \in [Client -> Handler \cup {Free}]
         /\ \A c \in Client :
              /\ asked[c] = h => asked'[c] = Free /\ c = handling[h].client
              /\ asked[c] # h => asked'[c] = asked[c]
              /\ asked'[c] # Free => handling'[asked'[c]] = handling[asked[c]]
<1>1. handling[h].client \in Client
  BY HandlerFacts DEF Placed
<1>2. \A c \in Client : asked[c] = h => c = handling[h].client
  BY HandlerAssumption DEF Placed, Position, PositionOf
<1>3. asked \in [Client -> Handler \cup {Free}] /\ handling \in [Handler -> Requests \cup {Free}]
  BY DEF Placed, TypeOK
<1>4. asked' = [asked EXCEPT ![handling[h].client] = IF @ = h THEN Free ELSE @]
  BY DEF Heard
<1>5. \A c \in Client :
        /\ asked[c] = h => asked'[c] = Free /\ c = handling[h].client
        /\ asked[c] # h => asked'[c] = asked[c]
  BY <1>1, <1>2, <1>3, <1>4
<1>6. ASSUME NEW c \in Client, asked'[c] # Free PROVE handling'[asked'[c]] = handling[asked[c]]
  BY <1>3, <1>5, <1>6
<1>7. asked' \in [Client -> Handler \cup {Free}]
  BY <1>1, <1>3, <1>4
<1>8. QED
  BY <1>5, <1>6, <1>7

\* Writers who lose their file keep client and file.
LEMMA DetachedFacts ==
  ASSUME TypeOK, NEW h \in Handler, NEW files
  PROVE  /\ Detached(h, files) \in Requests \cup {Free}
         /\ Detached(h, files) # Free <=> Handles(h)
         /\ Handles(h) => /\ Detached(h, files).client = handling[h].client
                          /\ Detached(h, files).file = handling[h].file
         /\ Detached(h, files).step =
              IF Handles(h) /\ handling[h].file \in files /\ handling[h].step = "open"
              THEN "gone" ELSE handling[h].step
<1>1. CASE Handles(h) /\ handling[h].file \in files /\ handling[h].step = "open"
  BY <1>1, HandlerFacts DEF Detached, Handles, Requests, Free
<1>2. CASE ~(Handles(h) /\ handling[h].file \in files /\ handling[h].step = "open")
  BY <1>2 DEF Detached, Handles, TypeOK
<1>3. QED
  BY <1>1, <1>2

LEMMA UnlinkPlaced ==
  ASSUME Placed, UNCHANGED setup, NEW h \in Handler, Unlink(h)
  PROVE  Placed'
<1> DEFINE f == handling[h].file
           r == [handling[h] EXCEPT !.step = "clear"]
<1>1. /\ handling[h].step = "received" /\ Handles(h) /\ f \in FileNames /\ handling[h] \in Requests
      /\ handling \in [Handler -> Requests \cup {Free}]
  BY HandlerFacts DEF Unlink, Placed, TypeOK
<1>2. /\ stored' = [stored EXCEPT ![f] = Absent] /\ cut' = cut \ {f}
      /\ handling' = [i \in Handler |-> IF i = h THEN r ELSE Detached(i, {f})]
      /\ UNCHANGED <<lost, client, faults, reader>>
  BY DEF Unlink
<1>3. r \in Requests /\ r # Free /\ r.client = handling[h].client /\ r.file = f /\ r.step = "clear"
  BY <1>1 DEF Requests, Free
<1> HIDE DEF r
<1>4. TypeOK'
  <2>1. wiped' \in SUBSET (Client \cup {Reader})
    BY DEF Unlink, Between, Placed, TypeOK
  <2>2. handling' \in [Handler -> Requests \cup {Free}]
    BY <1>2, <1>3, DetachedFacts DEF Placed
  <2>3. QED
    BY <1>1, <1>2, <2>1, <2>2 DEF Placed, TypeOK, Content, client, reader
<1>5. Position'
  <2>1. ASSUME NEW c \in Client, asked[c] # Free
        PROVE  /\ handling'[asked[c]] # Free /\ handling'[asked[c]].client = handling[asked[c]].client
               /\ handling'[asked[c]].file = handling[asked[c]].file
    <3>1. asked[c] \in Handler /\ Handles(asked[c])
      BY <2>1 DEF Placed, TypeOK, Position, PositionOf
    <3>2. CASE asked[c] = h
      BY <1>2, <1>3, <3>1, <3>2
    <3>3. CASE asked[c] # h
      <4>1. handling'[asked[c]] = Detached(asked[c], {f})
        BY <1>2, <3>1, <3>3
      <4>2. QED
        BY <3>1, <4>1, DetachedFacts DEF Placed
    <3>4. QED
      BY <3>2, <3>3
  <2>2. UNCHANGED <<pc, next, missed, asked>>
    BY <1>2 DEF client
  <2>3. ASSUME NEW c \in Client PROVE PositionOf(c)'
    BY <2>1, <2>2 DEF Placed, Position, PositionOf, Handles
  <2>4. QED
    BY <2>3 DEF Position
<1>6. Opened'
  <2>1. ASSUME NEW i \in Handler, handling'[i].step = "open"
        PROVE  handling[i].step = "open" /\ handling'[i].file = handling[i].file /\ handling[i].file # f
    <3>1. i # h /\ handling'[i] = Detached(i, {f})
      <4>1. handling'[i] = IF i = h THEN r ELSE Detached(i, {f})
        BY <1>2
      <4>2. QED
        BY <1>3, <2>1, <4>1
    <3>2. Handles(i)
      BY <2>1, <3>1, DetachedFacts, HandlerFacts DEF Placed
    <3>3. QED
      BY <2>1, <3>1, <3>2, DetachedFacts DEF Placed
  <2>2. \A i \in Handler : handling'[i].step = "open" => stored'[handling'[i].file] # Absent
    <3>1. \A i \in Handler : handling[i].step = "open" =>
            handling[i].file \in FileNames /\ stored[handling[i].file] # Absent
      BY HandlerFacts DEF Placed, Opened
    <3>2. stored' = [stored EXCEPT ![f] = Absent] /\ stored \in [FileNames -> Content]
      BY <1>2 DEF Placed, TypeOK
    <3>3. QED
      BY <2>1, <3>1, <3>2
  <2>3. ASSUME NEW g \in cut', g \notin lost
        PROVE  \E i \in Handler : handling'[i].step = "open" /\ handling'[i].file = g
    <3>1. PICK i \in Handler : handling[i].step = "open" /\ handling[i].file = g
      BY <1>2, <2>3 DEF Placed, Opened
    <3>2. handling'[i] = Detached(i, {f}) /\ g # f /\ Handles(i)
      BY <1>1, <1>2, <2>3, <3>1, HandlerFacts DEF Placed
    <3>3. QED
      BY <3>1, <3>2, DetachedFacts DEF Placed
  <2>4. \A g \in cut' : stored'[g] # Absent
    BY <1>2 DEF Placed, TypeOK, Opened
  <2>5. QED
    BY <1>2, <2>2, <2>3, <2>4 DEF Opened
<1>7. QED
  BY <1>4, <1>5, <1>6 DEF Placed

LEMMA RemovesPlaced ==
  ASSUME Placed, UNCHANGED setup, NEW files \in SUBSET Snapshot, RemoveFiles(files)
  PROVE  Placed'
<1>1. /\ stored' = [f \in FileNames |-> IF f \in files THEN Absent ELSE stored[f]]
      /\ cut' = cut \ files /\ lost' = lost \cup files
      /\ handling' = [h \in Handler |-> Detached(h, files)]
      /\ UNCHANGED <<client, reader>> /\ files \subseteq FileNames
  BY DEF RemoveFiles, Snapshot
<1>2. TypeOK'
  <2>1. wiped' \in SUBSET (Client \cup {Reader})
    BY DEF RemoveFiles, Between, AtWork, Placed, TypeOK
  <2>2. handling' \in [Handler -> Requests \cup {Free}]
    BY <1>1, DetachedFacts DEF Placed
  <2>3. faults' \in 0..MaxFaults
    BY BoundsAssumption DEF RemoveFiles, Placed, TypeOK
  <2>4. QED
    BY <1>1, <2>1, <2>2, <2>3 DEF Placed, TypeOK, Content, client, reader
<1>3. Position'
  <2>1. ASSUME NEW c \in Client, asked[c] # Free
        PROVE  /\ handling'[asked[c]] # Free /\ handling'[asked[c]].client = handling[asked[c]].client
               /\ handling'[asked[c]].file = handling[asked[c]].file
    <3>1. asked[c] \in Handler /\ Handles(asked[c])
      BY <2>1 DEF Placed, TypeOK, Position, PositionOf
    <3>2. handling'[asked[c]] = Detached(asked[c], files)
      BY <1>1, <3>1
    <3>3. QED
      BY <3>1, <3>2, DetachedFacts DEF Placed
  <2>2. QED
    BY <1>1, <2>1 DEF Placed, Position, PositionOf, client, Handles
<1>4. Opened'
  <2>1. ASSUME NEW i \in Handler, handling'[i].step = "open"
        PROVE  handling[i].step = "open" /\ handling'[i].file = handling[i].file /\ handling[i].file \notin files
    <3>1. handling'[i] = Detached(i, files)
      BY <1>1
    <3>2. Handles(i)
      BY <2>1, <3>1, DetachedFacts, HandlerFacts DEF Placed
    <3>3. QED
      BY <2>1, <3>1, <3>2, DetachedFacts DEF Placed
  <2>2. \A i \in Handler : handling'[i].step = "open" => stored'[handling'[i].file] # Absent
    BY <1>1, <2>1, HandlerFacts DEF Placed, Opened, TypeOK
  <2>3. ASSUME NEW g \in cut', g \notin lost'
        PROVE  \E i \in Handler : handling'[i].step = "open" /\ handling'[i].file = g
    <3>1. PICK i \in Handler : handling[i].step = "open" /\ handling[i].file = g
      BY <1>1, <2>3 DEF Placed, Opened
    <3>2. handling'[i] = Detached(i, files) /\ g \notin files /\ Handles(i)
      BY <1>1, <2>3, <3>1, HandlerFacts DEF Placed
    <3>3. QED
      BY <3>1, <3>2, DetachedFacts DEF Placed
  <2>4. \A g \in cut' : stored'[g] # Absent
    BY <1>1 DEF Placed, TypeOK, Opened
  <2>5. QED
    BY <2>2, <2>3, <2>4 DEF Opened
<1>5. QED
  BY <1>2, <1>3, <1>4 DEF Placed

\* The steps of a handler that end its request, or do nothing but go on.
LEMMA ServesPlaced ==
  ASSUME Placed, UNCHANGED setup, NEW h \in Handler, Serves(h)
  PROVE  Placed'
<1> DEFINE f == handling[h].file
           c == handling[h].client
<1>1. /\ Handles(h) /\ f \in FileNames /\ c \in Client /\ handling[h] \in Requests
      /\ handling[h].step \in {"received", "clear", "open", "gone"}
  BY HandlerFacts DEF Serves, Unlink, Create, FileExists, CloseFile, KillHandler, Placed
<1>2. CASE Unlink(h)
  BY <1>2, UnlinkPlaced
<1>3. CASE Create(h)
  <2> DEFINE r == [handling[h] EXCEPT !.step = "open"]
  <2>1. /\ r \in Requests /\ r # Free /\ r.client = c /\ r.file = f /\ r.step = "open"
    BY <1>1 DEF Requests, Free
  <2> HIDE DEF r
  <2>2. /\ stored[f] = Absent /\ stored' = [stored EXCEPT ![f] = Local[c]] /\ cut' = cut \cup {f}
        /\ handling' = [handling EXCEPT ![h] = r] /\ handling[h].step = "clear"
        /\ UNCHANGED <<lost, client, faults, wiped, reader>>
    BY <1>3 DEF Create, r
  <2>3. Local[c] \in Content /\ Local[c] # Absent
    BY <1>1, LocalNumber DEF Placed
  <2>4. TypeOK'
    BY <1>1, <2>1, <2>2, <2>3 DEF Placed, TypeOK, client, reader
  <2>5. Position'
    <3>1. UNCHANGED <<pc, next, missed, asked>>
      BY <2>2 DEF client
    <3>2. ASSUME NEW d \in Client PROVE PositionOf(d)'
      BY <2>1, <2>2, <3>1 DEF Placed, TypeOK, Position, PositionOf, Handles
    <3>3. QED
      BY <3>2 DEF Position
  <2>6. Opened'
    <3>1. \A i \in Handler \ {h} : handling'[i] = handling[i]
      BY <2>2 DEF Placed, TypeOK
    <3>2. handling'[h] = r
      BY <2>2 DEF Placed, TypeOK
    <3>3. \A i \in Handler : handling'[i].step = "open" => stored'[handling'[i].file] # Absent
      <4>1. ASSUME NEW i \in Handler \ {h}, handling'[i].step = "open"
            PROVE  stored'[handling'[i].file] # Absent
        <5>1. stored[handling[i].file] # Absent
          BY <3>1, <4>1 DEF Placed, Opened
        <5>2. QED
          BY <2>2, <2>3, <3>1, <5>1 DEF Placed, TypeOK
      <4>2. stored'[r.file] # Absent
        BY <1>1, <2>1, <2>2, <2>3 DEF Placed, TypeOK
      <4>3. QED
        BY <3>2, <4>1, <4>2
    <3>4. ASSUME NEW g \in cut', g \notin lost
          PROVE  \E i \in Handler : handling'[i].step = "open" /\ handling'[i].file = g
      <4>1. CASE g = f
        BY <2>1, <3>2, <4>1
      <4>2. CASE g # f
        <5>1. PICK i \in Handler : handling[i].step = "open" /\ handling[i].file = g
          BY <2>2, <3>4, <4>2 DEF Placed, Opened
        <5>2. i # h
          BY <2>2, <5>1
        <5>3. QED
          BY <3>1, <5>1, <5>2
      <4>3. QED
        BY <4>1, <4>2
    <3>5. \A g \in cut' : stored'[g] # Absent
      BY <1>1, <2>2, <2>3 DEF Placed, TypeOK, Opened
    <3>6. QED
      BY <2>2, <3>3, <3>4, <3>5 DEF Opened
  <2>7. QED
    BY <2>4, <2>5, <2>6 DEF Placed
<1>4. CASE FileExists(h) \/ CloseFile(h) \/ KillHandler(h)
  <2>1. /\ handling' = [handling EXCEPT ![h] = Free] /\ asked' = Heard(h)
        /\ UNCHANGED <<stored, manifest, runs, reader>>
    BY <1>4 DEF FileExists, CloseFile, KillHandler
  <2>2. /\ asked' \in [Client -> Handler \cup {Free}]
        /\ \A d \in Client :
             /\ asked[d] = h => asked'[d] = Free /\ d = c
             /\ asked[d] # h => asked'[d] = asked[d]
             /\ asked'[d] # Free => handling'[asked'[d]] = handling[asked[d]]
    BY <1>1, <2>1, HeardPlaced
  <2>3. handling' \in [Handler -> Requests \cup {Free}]
    BY <2>1 DEF Placed, TypeOK
  <2>4. ASSUME UNCHANGED <<pc, next, missed>> PROVE Position'
    <3>1. ASSUME NEW d \in Client PROVE PositionOf(d)'
      <4>1. CASE asked'[d] = Free
        BY <2>4, <4>1 DEF Placed, Position, PositionOf
      <4>2. CASE asked'[d] # Free
        <5>1. asked'[d] = asked[d] /\ handling'[asked'[d]] = handling[asked[d]]
          BY <2>2, <4>2
        <5>2. QED
          BY <2>4, <4>2, <5>1 DEF Placed, Position, PositionOf, Handles
      <4>3. QED
        BY <4>1, <4>2
    <3>2. QED
      BY <3>1 DEF Position
  <2>5. ASSUME asked[c] = h, FileSent(c, FALSE)
        PROVE  /\ missed' = missed /\ next' = [next EXCEPT ![c] = @ + 1]
               /\ next[c] \in FileNames /\ next' \in [Client -> 1..Files + 1]
               /\ pc' = [pc EXCEPT ![c] = IF next[c] < Files THEN "sending"
                                         ELSE IF missed[c] = {} THEN "done" ELSE "failed"]
    <3>1. next[c] \in FileNames
      BY <1>1, <2>5, HandlerAssumption DEF Placed, Position, PositionOf
    <3>2. /\ missed' = [missed EXCEPT ![c] = missed[c]] /\ next' = [next EXCEPT ![c] = @ + 1]
          /\ pc' = [pc EXCEPT ![c] = IF next[c] < Files THEN "sending"
                                    ELSE IF missed[c] = {} THEN "done" ELSE "failed"]
      <4>1. FileSent(c, FALSE)
        BY <2>5
      <4>2. missed' = [missed EXCEPT ![c] = missed[c]]
        BY <4>1 DEF FileSent
      <4>3. next' = [next EXCEPT ![c] = @ + 1]
        BY <4>1 DEF FileSent
      <4>4. Go(c, IF next[c] < Files THEN "sending" ELSE IF missed[c] = {} THEN "done" ELSE "failed")
        BY <4>1 DEF FileSent
      <4>5. QED
        BY <4>2, <4>3, <4>4 DEF Go
    <3>3. QED
      BY <1>1, <3>1, <3>2, FilesAssumption DEF Placed, TypeOK, FileNames
  <2>6. ASSUME asked[c] = h, FileSent(c, FALSE) PROVE Position'
    <3>1. ASSUME NEW d \in Client PROVE PositionOf(d)'
      <4>1. CASE d = c
        <5>1. asked'[c] = Free /\ pc[c] = "sending" /\ next[c] \in 1..Files /\ Files \in Nat
          BY <1>1, <2>2, <2>6, HandlerAssumption, FilesAssumption
             DEF Placed, Position, PositionOf, FileNames
        <5>2. /\ pc'[c] = IF next[c] < Files THEN "sending"
                          ELSE IF missed[c] = {} THEN "done" ELSE "failed"
              /\ next'[c] = next[c] + 1
          BY <1>1, <2>5, <2>6 DEF Placed, TypeOK
        <5>3. QED
          BY <4>1, <5>1, <5>2 DEF PositionOf, FileNames
      <4>2. CASE d # c
        <5>1. asked'[d] = asked[d] /\ (asked[d] # Free => handling'[asked'[d]] = handling[asked[d]])
          BY <2>2, <4>2
        <5>2. pc'[d] = pc[d] /\ next'[d] = next[d] /\ missed'[d] = missed[d]
          BY <2>5, <2>6, <4>2 DEF Placed, TypeOK
        <5>3. QED
          BY <5>1, <5>2 DEF Placed, Position, PositionOf, Handles
      <4>3. QED
        BY <4>1, <4>2
    <3>2. QED
      BY <3>1 DEF Position
  <2>7. UNCHANGED <<pc, next, missed>> \/ (asked[c] = h /\ FileSent(c, FALSE))
    BY <1>4 DEF FileExists, CloseFile, KillHandler
  <2>8. TypeOK'
    <3>1. /\ pc' \in [Client -> Resting \cup {"manifest", "snapshot", "compare", "sending"}]
          /\ next' \in [Client -> 1..Files + 1] /\ missed' \in [Client -> SUBSET FileNames]
      <4>1. CASE UNCHANGED <<pc, next, missed>>
        BY <4>1 DEF Placed, TypeOK
      <4>2. CASE asked[c] = h /\ FileSent(c, FALSE)
        <5>1. \E to \in {"sending", "done", "failed"} : pc' = [pc EXCEPT ![c] = to]
          BY <2>5, <4>2
        <5>2. QED
          BY <2>5, <4>2, <5>1 DEF Placed, TypeOK, Resting
      <4>3. QED
        BY <2>7, <4>1, <4>2
    <3>2. /\ cut' \in SUBSET FileNames /\ lost' \in SUBSET FileNames
          /\ faults' \in 0..MaxFaults /\ wiped' \in SUBSET (Client \cup {Reader})
      <4>1. CASE FileExists(h)
        BY <4>1 DEF FileExists, Placed, TypeOK
      <4>2. CASE CloseFile(h)
        BY <4>2 DEF CloseFile, Placed, TypeOK
      <4>3. CASE KillHandler(h)
        <5>1. AtWork \subseteq Client
          BY DEF AtWork
        <5>2. QED
          BY <1>1, <4>3, <5>1, BoundsAssumption DEF KillHandler, Placed, TypeOK
      <4>4. QED
        BY <1>4, <4>1, <4>2, <4>3
    <3>3. QED
      BY <2>1, <2>2, <2>3, <3>1, <3>2 DEF Placed, TypeOK, reader
  <2>9. Opened'
    <3>1. /\ handling'[h] = Free /\ \A i \in Handler \ {h} : handling'[i] = handling[i]
      BY <2>1 DEF Placed, TypeOK
    <3>2. \A i \in Handler : handling'[i].step = "open" => stored'[handling'[i].file] # Absent
      BY <2>1, <3>1 DEF Placed, Opened, Free
    <3>3. ASSUME NEW g \in cut', g \notin lost'
          PROVE  \E i \in Handler : handling'[i].step = "open" /\ handling'[i].file = g
      <4>1. g \in cut /\ g \notin lost /\ ~(handling[h].step = "open" /\ f = g)
        <5>1. CASE FileExists(h)
          BY <3>3, <5>1 DEF FileExists
        <5>2. CASE CloseFile(h)
          BY <3>3, <5>2 DEF CloseFile
        <5>3. CASE KillHandler(h)
          BY <3>3, <5>3 DEF KillHandler, Saved
        <5>4. QED
          BY <1>4, <5>1, <5>2, <5>3
      <4>2. PICK i \in Handler : handling[i].step = "open" /\ handling[i].file = g
        BY <4>1 DEF Placed, Opened
      <4>3. QED
        BY <3>1, <4>1, <4>2
    <3>4. \A g \in cut' : stored'[g] # Absent
      BY <1>4, <2>1 DEF FileExists, CloseFile, KillHandler, Placed, Opened
    <3>5. QED
      BY <3>2, <3>3, <3>4 DEF Opened
  <2>10. QED
    BY <2>4, <2>6, <2>7, <2>8, <2>9 DEF Placed
<1>5. QED
  BY <1>2, <1>3, <1>4 DEF Serves

LEMMA ReadsPlaced ==
  ASSUME Placed, UNCHANGED setup, Reads PROVE Placed'
<1>1. UNCHANGED <<server, client, faults, wiped>>
  BY DEF Reads, CheckComplete, ListFiles, Download
<1>2. wanted' \in SUBSET FileNames /\ rpc' \in {"idle", "checked", "downloading", "done", "failed"}
  BY DEF Reads, CheckComplete, ListFiles, Download, Snapshot, Placed, TypeOK
<1>3. got' \in SUBSET FileNames
  <2>1. CASE Download
    BY <2>1 DEF Download, Placed, TypeOK
  <2>2. CASE CheckComplete \/ ListFiles
    BY <2>2 DEF CheckComplete, ListFiles, Placed, TypeOK
  <2>3. QED
    BY <2>1, <2>2 DEF Reads
<1>4. QED
  BY <1>1, <1>2, <1>3
     DEF Placed, TypeOK, Position, PositionOf, Opened, Handles, server, client

LEMMA NextPlaced == Placed /\ [RevisionNext]_revisionVars => Placed'
<1>1. Placed /\ UNCHANGED revisionVars => Placed'
  BY DEF Placed, TypeOK, Position, PositionOf, Opened, Handles, revisionVars, server, client, reader
<1>2. QED
  BY <1>1, StepCases, DecidesPlaced, SendsPlaced, ServesPlaced, RemovesPlaced, ReadsPlaced
     DEF Removes

\* Every reachable state is of its type.
THEOREM TypeCorrect == RevisionSpec => []TypeOK
<1>1. Placed => TypeOK
  BY DEF Placed
<1>2. QED
  BY <1>1, InitPlaced, NextPlaced, PTL DEF RevisionSpec

-----------------------------------------------------------------------------
(* What one step does to the requests, the files and the uploads.          *)

\* What becomes of a request that a step does not end.
Goes(i) == handling'[i].client = handling[i].client /\ handling'[i].file = handling[i].file

\* A request goes on, unless it ends, and writers become "gone" only when their
\* file is unlinked or removed.
LEMMA RequestsGo ==
  ASSUME Placed, [RevisionNext]_revisionVars, NEW i \in Handler, Handles(i)
  PROVE  \/ /\ Handles(i)' /\ Goes(i)
            /\ \/ handling'[i].step = "gone" <=> handling[i].step = "gone"
               \/ /\ handling[i].step = "open"
                  /\ \/ \E h \in Handler : Unlink(h) /\ handling[h].file = handling[i].file
                     \/ \E files \in SUBSET Snapshot : RemoveFiles(files) /\ handling[i].file \in files
         \/ FileExists(i) \/ CloseFile(i) \/ KillHandler(i)
<1>1. /\ handling \in [Handler -> Requests \cup {Free}]
      /\ handling[i] \in Requests /\ handling[i].step # "free"
  BY HandlerFacts DEF Placed, TypeOK
<1>2. CASE UNCHANGED handling
  BY <1>2 DEF Handles, Goes
<1>3. ASSUME NEW c \in Client, NEW h \in Handler, Request(c, h) PROVE handling'[i] = handling[i]
  BY <1>1, <1>3 DEF Request, Receive, Handles
<1>4. ASSUME NEW h \in Handler, Unlink(h) PROVE
         /\ Handles(i)' /\ Goes(i)
         /\ \/ handling'[i].step = "gone" <=> handling[i].step = "gone"
            \/ handling[i].step = "open" /\ handling[h].file = handling[i].file
  <2>1. CASE i = h
    <3>1. /\ handling'[i] = [handling[i] EXCEPT !.step = "clear"] /\ handling[i].step = "received"
      BY <1>4, <2>1 DEF Unlink
    <3>2. QED
      BY <1>1, <3>1 DEF Handles, Goes, Requests, Free
  <2>2. CASE i # h
    <3>1. handling'[i] = Detached(i, {handling[h].file})
      BY <1>4, <2>2 DEF Unlink
    <3>2. QED
      BY <1>1, <3>1, DetachedFacts DEF Placed, Handles, Goes
  <2>3. QED
    BY <2>1, <2>2
<1>5. ASSUME NEW h \in Handler, Create(h) PROVE
         /\ Handles(i)' /\ Goes(i) /\ (handling'[i].step = "gone" <=> handling[i].step = "gone")
  <2>1. CASE i = h
    <3>1. /\ handling'[i] = [handling[i] EXCEPT !.step = "open"] /\ handling[i].step = "clear"
      BY <1>1, <1>5, <2>1 DEF Create
    <3>2. QED
      BY <1>1, <3>1 DEF Handles, Goes, Requests, Free
  <2>2. CASE i # h
    BY <1>1, <1>5, <2>2 DEF Create, Handles, Goes
  <2>3. QED
    BY <2>1, <2>2
<1>6. ASSUME NEW h \in Handler \ {i}, FileExists(h) \/ CloseFile(h) \/ KillHandler(h)
      PROVE  handling'[i] = handling[i]
  BY <1>1, <1>6 DEF FileExists, CloseFile, KillHandler
<1>7. ASSUME NEW files \in SUBSET Snapshot, RemoveFiles(files) PROVE
         /\ Handles(i)' /\ Goes(i)
         /\ \/ handling'[i].step = "gone" <=> handling[i].step = "gone"
            \/ handling[i].step = "open" /\ handling[i].file \in files
  <2>1. handling'[i] = Detached(i, files)
    BY <1>7 DEF RemoveFiles
  <2>2. QED
    BY <1>1, <2>1, DetachedFacts DEF Placed, Handles, Goes
<1>8. UNCHANGED handling \/ (\E c \in Client, h \in Handler : Request(c, h))
      \/ (\E h \in Handler : Serves(h)) \/ (\E files \in SUBSET Snapshot : RemoveFiles(files))
  BY StepCases DEF Decides, Start, CheckRecipeDate, GetSnapshot, Compare, Sends, AnswerLost, GiveUp,
     Abort, Removes, Reads, CheckComplete, ListFiles, Download, revisionVars, server
<1>9. QED
  <2>1. CASE \E c \in Client, h \in Handler : Request(c, h)
    BY <1>3, <2>1 DEF Handles, Goes
  <2>2. CASE \E h \in Handler : Serves(h)
    BY <1>4, <1>5, <1>6, <2>2 DEF Serves, Handles, Goes
  <2>3. CASE \E files \in SUBSET Snapshot : RemoveFiles(files)
    BY <1>7, <2>3
  <2>4. QED
    BY <1>2, <1>8, <2>1, <2>2, <2>3

\* A file that is there stays, or its request is under way, unless it is removed.
LEMMA StoredOrSaved ==
  ASSUME Placed, [RevisionNext]_revisionVars, NEW f \in FileNames, stored[f] # Absent
  PROVE  \/ stored'[f] # Absent
         \/ \E h \in Handler : Unlink(h) /\ handling[h].file = f
         \/ \E files \in SUBSET Snapshot : RemoveFiles(files) /\ f \in files
<1>1. stored \in [FileNames -> Content]
  BY DEF Placed, TypeOK
<1>2. CASE stored' = stored
  BY <1>2
<1>3. ASSUME NEW h \in Handler, Unlink(h) PROVE stored'[f] = stored[f] \/ handling[h].file = f
  BY <1>1, <1>3 DEF Unlink
<1>4. ASSUME NEW h \in Handler, Create(h) PROVE stored'[f] # Absent
  BY <1>1, <1>4, HandlerFacts, LocalNumber DEF Create, Placed
<1>5. ASSUME NEW files \in SUBSET Snapshot, RemoveFiles(files) PROVE stored'[f] = stored[f] \/ f \in files
  BY <1>5 DEF RemoveFiles
<1>6. \/ stored' = stored \/ \E h \in Handler : Unlink(h) \/ Create(h)
      \/ \E files \in SUBSET Snapshot : RemoveFiles(files)
  BY StepCases DEF Decides, Start, CheckRecipeDate, GetSnapshot, Compare, Sends, AnswerLost, GiveUp,
     Abort, Request, Receive, Serves, FileExists, CloseFile, KillHandler, Removes, Reads,
     CheckComplete, ListFiles, Download, revisionVars, server
<1>7. QED
  BY <1>2, <1>3, <1>4, <1>5, <1>6

\* A request that has just unlinked its file is under way.
LEMMA UnlinkSaves ==
  ASSUME Placed, NEW f, NEW h \in Handler, Unlink(h), handling[h].file = f
  PROVE  BeingSaved(f)'
<1>1. handling[h] \in Requests
  BY HandlerFacts DEF Placed, Unlink
<1>2. handling'[h] = [handling[h] EXCEPT !.step = "clear"]
  BY DEF Unlink
<1>3. handling'[h].step = "clear" /\ handling'[h].file = handling[h].file /\ handling'[h] # Free
  BY <1>1, <1>2 DEF Requests, Free
<1>4. QED
  BY <1>3 DEF BeingSaved, Handles

-----------------------------------------------------------------------------
(* Files do not get lost without anyone knowing.                           *)

\* Settled is for ever: who unlinks a file saves it, and loses it at most.
LEMMA SettledStays ==
  ASSUME Placed, [RevisionNext]_revisionVars, NEW f \in FileNames, Settled(f)
  PROVE  Settled(f)'
<1>1. Placed' /\ UNCHANGED setup
  BY NextPlaced, StepCases
<1>2. ASSUME NEW i \in Handler, BeingSaved(f), Handles(i), handling[i].file = f,
             handling[i].step # "gone", FileExists(i) \/ CloseFile(i) \/ KillHandler(i)
      PROVE  Settled(f)'
  <2>1. CASE FileExists(i)
    <3>1. stored'[f] # Absent /\ UNCHANGED <<cut, lost>>
      BY <1>2, <2>1 DEF FileExists
    <3>2. ASSUME f \in cut, f \notin lost PROVE BeingSaved(f)'
      <4>1. PICK j \in Handler : handling[j].step = "open" /\ handling[j].file = f
        BY <3>2 DEF Placed, Opened
      <4>2. j # i /\ handling'[j] = handling[j]
        BY <2>1, <4>1 DEF FileExists, Placed, TypeOK
      <4>3. QED
        BY <4>1, <4>2, HandlerFacts DEF Placed, BeingSaved, Handles
    <3>3. QED
      BY <3>1, <3>2 DEF Settled, Saved
  <2>2. CASE CloseFile(i)
    <3>1. handling[i].step = "open" /\ stored'[f] = stored[f] /\ f \notin cut'
      BY <1>2, <2>2 DEF CloseFile
    <3>2. QED
      BY <1>2, <3>1 DEF Settled, Saved, Placed, Opened
  <2>3. CASE KillHandler(i)
    <3>1. stored' = stored /\ cut' = cut /\ (Saved(f) \/ f \in lost')
      BY <1>2, <2>3 DEF KillHandler
    <3>2. QED
      BY <3>1 DEF Settled, Saved
  <2>4. QED
    BY <1>2, <2>1, <2>2, <2>3
<1>3. CASE BeingSaved(f)
  <2>1. PICK i \in Handler : Handles(i) /\ handling[i].file = f /\ handling[i].step # "gone"
    BY <1>3 DEF BeingSaved
  <2>2. CASE FileExists(i) \/ CloseFile(i) \/ KillHandler(i)
    BY <1>2, <1>3, <2>1, <2>2
  <2>3. CASE Handles(i)' /\ Goes(i) /\ (handling'[i].step = "gone" <=> handling[i].step = "gone")
    BY <2>1, <2>3 DEF Settled, BeingSaved, Goes
  <2>4. CASE \E h \in Handler : Unlink(h) /\ handling[h].file = f
    BY <1>1, <2>4, UnlinkSaves DEF Settled
  <2>5. CASE \E files \in SUBSET Snapshot : RemoveFiles(files) /\ f \in files
    BY <2>5 DEF RemoveFiles, Settled
  <2>6. QED
    BY <2>1, <2>2, <2>3, <2>4, <2>5, RequestsGo
<1>4. CASE f \in lost
  <2>1. CASE f \in lost'
    BY <2>1 DEF Settled
  <2>2. CASE f \notin lost'
    <3>1. PICK h \in Handler : CloseFile(h)
      <4>1. ASSUME NEW h \in Handler, KillHandler(h) PROVE f \in lost'
        BY <1>4, <4>1 DEF KillHandler
      <4>2. ASSUME NEW c \in Client, GiveUp(c) PROVE f \in lost'
        BY <1>4, <4>2 DEF GiveUp
      <4>3. QED
        BY <1>4, <2>2, <4>1, <4>2, StepCases DEF Decides, Start, CheckRecipeDate, GetSnapshot, Compare, Sends,
           AnswerLost, Abort, Request, Receive, Serves, Unlink, Create, FileExists, Removes,
           RemoveFiles, Reads, CheckComplete, ListFiles, Download, revisionVars, server
    <3>2. handling[h].file = f /\ handling[h].step = "open" /\ f \notin cut' /\ stored' = stored
      BY <1>4, <2>2, <3>1 DEF CloseFile
    <3>3. QED
      BY <3>2 DEF Placed, Opened, Settled, Saved
  <2>3. QED
    BY <2>1, <2>2
<1>5. CASE Saved(f)
  <2>1. CASE stored'[f] # Absent
    <3>1. ASSUME f \in cut', f \notin lost' PROVE BeingSaved(f)'
      <4>1. PICK j \in Handler : handling'[j].step = "open" /\ handling'[j].file = f
        BY <1>1, <3>1 DEF Placed, Opened
      <4>2. handling'[j] # Free
        BY <4>1 DEF Free
      <4>3. QED
        BY <4>1, <4>2 DEF BeingSaved, Handles
    <3>2. QED
      BY <2>1, <3>1 DEF Settled, Saved
  <2>2. CASE \E h \in Handler : Unlink(h) /\ handling[h].file = f
    BY <1>1, <2>2, UnlinkSaves DEF Settled
  <2>3. CASE \E files \in SUBSET Snapshot : RemoveFiles(files) /\ f \in files
    BY <2>3 DEF RemoveFiles, Settled
  <2>4. QED
    BY <1>5, <2>1, <2>2, <2>3, StoredOrSaved DEF Saved
<1>6. QED
  BY <1>3, <1>4, <1>5 DEF Settled

-----------------------------------------------------------------------------
(* The manifest comes last.                                                *)

Before(n) == \A g \in 1..(n - 1) : Settled(g)

\* What client c has passed is settled, and so is everything once it has seen a
\* manifest or is done.
OrderedOf(c) ==
  /\ pc[c] = "sending" => Before(next[c])
  /\ manifest[c] # Absent \/ pc[c] = "done" => \A f \in FileNames : Settled(f)

\* Whatever is on the server or on its way, the files before it are settled.
Ordered ==
  /\ \A f \in FileNames : stored[f] # Absent => Before(f)
  /\ \A h \in Handler : Handles(h) =>
       /\ Before(handling[h].file)
       /\ handling[h].step = "gone" => Settled(handling[h].file)
  /\ \A c \in Client : OrderedOf(c)

OInv == Placed /\ Ordered

LEMMA BeforeStays ==
  ASSUME Placed, [RevisionNext]_revisionVars, NEW n \in 1..Files + 1, Before(n)
  PROVE  Before(n)'
<1>1. 1..(n - 1) \subseteq FileNames
  BY FilesAssumption DEF FileNames
<1>2. QED
  BY <1>1, SettledStays DEF Before

\* A file that is there is settled: it is whole, or being written, or lost.
LEMMA StoredSettled ==
  ASSUME Placed, NEW f, stored[f] # Absent PROVE Settled(f)
BY HandlerFacts DEF Placed, Opened, Settled, Saved, BeingSaved, Handles

LEMMA ManifestSettles ==
  ASSUME OInv, stored[Manifest] # Absent \/ Manifest \in cut
  PROVE  \A f \in FileNames : Settled(f)
<1>1. Manifest \in FileNames /\ stored[Manifest] # Absent
  BY FilesAssumption DEF Manifest, FileNames, OInv, Placed, Opened
<1>2. Settled(Manifest) /\ Before(Manifest)
  BY <1>1, StoredSettled DEF OInv, Ordered
<1>3. QED
  BY <1>2, FilesAssumption DEF Before, Manifest, FileNames

LEMMA StoredOrdered ==
  ASSUME OInv, [RevisionNext]_revisionVars, NEW f \in FileNames, stored'[f] # Absent
  PROVE  Before(f)'
<1>1. stored[f] # Absent \/ \E h \in Handler : Create(h) /\ handling[h].file = f
  <2>1. ASSUME NEW h \in Handler, Unlink(h) PROVE stored[f] # Absent
    BY <2>1 DEF Unlink, OInv, Placed, TypeOK
  <2>2. ASSUME NEW h \in Handler, Create(h) PROVE stored[f] # Absent \/ handling[h].file = f
    BY <2>2 DEF Create, OInv, Placed, TypeOK
  <2>3. ASSUME NEW files \in SUBSET Snapshot, RemoveFiles(files) PROVE stored[f] # Absent
    BY <2>3 DEF RemoveFiles
  <2>4. \/ stored' = stored \/ \E h \in Handler : Unlink(h) \/ Create(h)
        \/ \E files \in SUBSET Snapshot : RemoveFiles(files)
    BY StepCases DEF Decides, Start, CheckRecipeDate, GetSnapshot, Compare, Sends, AnswerLost, GiveUp,
       Abort, Request, Receive, Serves, FileExists, CloseFile, KillHandler, Removes, Reads,
       CheckComplete, ListFiles, Download, revisionVars, server
  <2>5. QED
    BY <2>1, <2>2, <2>3, <2>4
<1>2. Before(f)
  BY <1>1, HandlerFacts DEF OInv, Ordered, Create, Placed
<1>3. QED
  BY <1>2, BeforeStays, FilesAssumption DEF OInv, FileNames

\* A request that is new is one for the next file of a client that sends.
LEMMA RequestsCome ==
  ASSUME OInv, [RevisionNext]_revisionVars, NEW i \in Handler, Handles(i)'
  PROVE  (Handles(i) /\ Goes(i)) \/ \E c \in Client : Request(c, i)
<1>1. ASSUME ~Handles(i) PROVE \E c \in Client : Request(c, i)
  <2>1. handling[i] = Free /\ handling[i].step = "free"
    BY <1>1 DEF Handles, Free
  <2>2. handling'[i] # handling[i]
    BY <2>1 DEF Handles
  <2>3. ASSUME NEW h \in Handler, Serves(h) PROVE FALSE
    <3>1. Handles(h) /\ h # i
      BY <1>1, <2>3, HandlerFacts DEF Serves, Unlink, Create, FileExists, CloseFile, KillHandler, OInv, Placed
    <3>2. CASE Unlink(h)
      <4>1. handling'[i] = Detached(i, {handling[h].file})
        BY <3>1, <3>2 DEF Unlink
      <4>2. QED
        BY <1>1, <2>2, <4>1 DEF Detached
    <3>3. CASE ~Unlink(h)
      BY <2>2, <2>3, <3>1, <3>3 DEF Serves, Create, FileExists, CloseFile, KillHandler, OInv, Placed, TypeOK
    <3>4. QED
      BY <3>2, <3>3
  <2>4. ~Removes
    BY <1>1, <2>2 DEF Removes, RemoveFiles, Detached
  <2>5. PICK c \in Client, h \in Handler : Request(c, h)
    BY <2>2, <2>3, <2>4, StepCases DEF Decides, Start, CheckRecipeDate, GetSnapshot, Compare, Sends,
       AnswerLost, GiveUp, Abort, Reads, CheckComplete, ListFiles, Download, revisionVars, server
  <2>6. h = i
    BY <2>2, <2>5 DEF Request, Receive, OInv, Placed, TypeOK
  <2>7. QED
    BY <2>5, <2>6
<1>2. ASSUME Handles(i) PROVE Goes(i)
  <2>1. CASE FileExists(i) \/ CloseFile(i) \/ KillHandler(i)
    BY <2>1 DEF FileExists, CloseFile, KillHandler, Handles, OInv, Placed, TypeOK
  <2>2. QED
    BY <1>2, <2>1, RequestsGo DEF OInv
<1>3. QED
  BY <1>1, <1>2

LEMMA RequestsOrdered ==
  ASSUME OInv, [RevisionNext]_revisionVars, NEW i \in Handler, Handles(i)'
  PROVE  /\ Before(handling[i].file)'
         /\ (handling[i].step = "gone" => Settled(handling[i].file))'
<1>1. CASE \E c \in Client : Request(c, i)
  <2>1. PICK c \in Client : Request(c, i)
    BY <1>1
  <2>2. /\ handling'[i] = [client |-> c, file |-> next[c], step |-> "received"]
        /\ pc[c] = "sending"
    BY <2>1 DEF Request, Receive, OInv, Placed, TypeOK
  <2>3. next[c] \in FileNames /\ Before(next[c])
    BY <2>2 DEF OInv, Ordered, OrderedOf, Placed, Position, PositionOf
  <2>4. (handling[i].file)' = next[c] /\ (handling[i].step)' = "received"
    BY <2>2
  <2>5. Before(next[c]) => \A n \in 1..Files + 1 : n = next[c] => Before(n)'
    BY BeforeStays DEF OInv
  <2>6. QED
    BY <2>3, <2>4, <2>5, FilesAssumption DEF FileNames, Before
<1>2. CASE Handles(i) /\ Goes(i)
  <2> DEFINE f == handling[i].file
  <2>1. f \in FileNames /\ Before(f) /\ handling'[i].file = f
    BY <1>2, HandlerFacts DEF OInv, Ordered, Placed, Goes
  <2>2. PICK g \in FileNames : g = f
    BY <2>1
  <2>3. Before(g)'
    BY <2>1, <2>2, BeforeStays, FilesAssumption DEF OInv, FileNames
  <2>4. ASSUME handling'[i].step = "gone" PROVE Settled(g)'
    <3>1. CASE handling[i].step = "gone"
      BY <1>2, <2>2, <3>1, SettledStays DEF OInv, Ordered
    <3>2. CASE \E h \in Handler : Unlink(h) /\ handling[h].file = f
      BY <2>2, <3>2, UnlinkSaves DEF OInv, Settled
    <3>3. CASE \E files \in SUBSET Snapshot : RemoveFiles(files) /\ f \in files
      BY <2>2, <3>3 DEF RemoveFiles, Settled
    <3>4. CASE FileExists(i) \/ CloseFile(i) \/ KillHandler(i)
      <4>1. handling'[i] = Free
        BY <3>4 DEF FileExists, CloseFile, KillHandler, OInv, Placed, TypeOK
      <4>2. QED
        BY <2>4, <4>1 DEF Free
    <3>5. QED
      BY <1>2, <2>4, <3>1, <3>2, <3>3, <3>4, RequestsGo DEF OInv
  <2>5. handling'[i].file = g
    BY <2>1, <2>2
  <2>6. QED
    BY <2>3, <2>4, <2>5 DEF Before
<1>3. QED
  BY <1>1, <1>2, RequestsCome

\* What a client knows changes in its own steps and as it hears of success.
LEMMA OthersWait ==
  ASSUME Placed, [RevisionNext]_revisionVars, NEW c \in Client, ~Decides(c), ~Sends(c),
         \A h \in Handler : CloseFile(h) => asked[c] # h
  PROVE  /\ pc'[c] = pc[c] /\ next'[c] = next[c]
         /\ missed'[c] = missed[c] /\ manifest'[c] = manifest[c]
<1>1. CASE UNCHANGED <<pc, next, missed, manifest>>
  BY <1>1
<1>2. ASSUME NEW d \in Client, Decides(d) \/ Sends(d)
      PROVE  /\ pc'[c] = pc[c] /\ next'[c] = next[c]
             /\ missed'[c] = missed[c] /\ manifest'[c] = manifest[c]
  <2>1. d # c
    BY <1>2
  <2>2. CASE Decides(d)
    BY <2>1, <2>2 DEF Decides, Start, CheckRecipeDate, GetSnapshot, Compare, Go, Placed, TypeOK
  <2>3. CASE Sends(d)
    <3>1. CASE GiveUp(d)
      BY <2>1, <3>1 DEF GiveUp, FileSent, Go, Placed, TypeOK
    <3>2. CASE ~GiveUp(d)
      BY <2>1, <2>3, <3>2 DEF Sends, AnswerLost, Abort, Request, Receive, Go, Placed, TypeOK
    <3>3. QED
      BY <3>1, <3>2
  <2>4. QED
    BY <1>2, <2>2, <2>3
<1>3. ASSUME NEW h \in Handler, CloseFile(h)
      PROVE  /\ pc'[c] = pc[c] /\ next'[c] = next[c]
             /\ missed'[c] = missed[c] /\ manifest'[c] = manifest[c]
  <2> DEFINE d == handling[h].client
  <2>1. CASE asked[d] = h
    <3>1. d # c /\ FileSent(d, FALSE) /\ manifest' = manifest
      BY <1>3, <2>1 DEF CloseFile
    <3>2. QED
      BY <3>1 DEF FileSent, Go, Placed, TypeOK
  <2>2. CASE asked[d] # h
    BY <1>3, <2>2 DEF CloseFile
  <2>3. QED
    BY <2>1, <2>2
<1>4. \/ UNCHANGED <<pc, next, missed, manifest>>
      \/ \E d \in Client : Decides(d) \/ Sends(d)
      \/ \E h \in Handler : CloseFile(h)
  BY StepCases DEF Serves, Unlink, Create, FileExists, KillHandler, Removes, RemoveFiles, Reads,
     CheckComplete, ListFiles, Download, revisionVars, client
<1>5. QED
  BY <1>1, <1>2, <1>3, <1>4

\* A client that hears of success was waiting for the file it sent.
LEMMA HearsSuccess ==
  ASSUME Placed, NEW c \in Client, NEW h \in Handler, CloseFile(h), asked[c] = h
  PROVE  /\ pc[c] = "sending" /\ handling[h].client = c /\ handling[h].file = next[c]
         /\ next[c] \in 1..Files /\ Handles(h)
         /\ next'[c] = next[c] + 1 /\ missed'[c] = missed[c] /\ manifest'[c] = manifest[c]
         /\ pc'[c] = IF next[c] < Files THEN "sending"
                     ELSE IF missed[c] = {} THEN "done" ELSE "failed"
<1>1. /\ pc[c] = "sending" /\ handling[h].client = c /\ handling[h].file = next[c]
      /\ next[c] \in 1..Files /\ Handles(h)
  BY HandlerAssumption DEF Placed, Position, PositionOf, FileNames
<1>2. FileSent(c, FALSE) /\ manifest' = manifest
  BY <1>1 DEF CloseFile
<1>3. missed' = [missed EXCEPT ![c] = missed[c]] /\ next' = [next EXCEPT ![c] = @ + 1]
  BY <1>2 DEF FileSent
<1>4. Go(c, IF next[c] < Files THEN "sending" ELSE IF missed[c] = {} THEN "done" ELSE "failed")
  BY <1>2 DEF FileSent
<1>5. QED
  BY <1>1, <1>2, <1>3, <1>4 DEF Go, Placed, TypeOK

LEMMA DecidesOrdered ==
  ASSUME OInv, [RevisionNext]_revisionVars, NEW c \in Client, Decides(c)
  PROVE  OrderedOf(c)'
<1>1. \A f \in FileNames : Settled(f) => Settled(f)'
  BY SettledStays DEF OInv
<1>2. CASE Start(c)
  <2>1. manifest'[c] = Absent /\ pc'[c] \in {"manifest", "snapshot"}
    BY <1>2 DEF OInv, Placed, TypeOK, Start, Go
  <2>2. QED
    BY <2>1 DEF OrderedOf
<1>3. CASE CheckRecipeDate(c)
  <2>1. /\ pc'[c] \in {"refused", "snapshot", "failed"}
        /\ manifest'[c] # Absent => stored[Manifest] # Absent \/ Manifest \in cut
    BY <1>3 DEF OInv, Placed, TypeOK, CheckRecipeDate, Go
  <2>2. QED
    BY <1>1, <2>1, ManifestSettles DEF OrderedOf
<1>4. CASE GetSnapshot(c)
  <2>1. next'[c] = 1 /\ manifest'[c] = manifest[c] /\ pc'[c] = SnapshotTo(c)
    BY <1>4 DEF OInv, Placed, Position, PositionOf, TypeOK, GetSnapshot, Go
  <2>2. SnapshotTo(c) = "done" => manifest[c] # Absent
    BY DEF SnapshotTo
  <2>3. manifest[c] # Absent => \A f \in FileNames : Settled(f)
    BY DEF OInv, Ordered, OrderedOf
  <2>4. QED
    BY <1>1, <2>1, <2>2, <2>3 DEF OrderedOf, Before
<1>5. CASE Compare(c)
  <2>1. /\ next'[c] = 1
        /\ manifest'[c] # Absent \/ pc'[c] = "done" => stored[Manifest] # Absent \/ Manifest \in cut
    BY <1>5, AbsentAssumption DEF OInv, Placed, Position, PositionOf, TypeOK, Compare, Go
  <2>2. QED
    BY <1>1, <2>1, ManifestSettles DEF OrderedOf, Before
<1>6. QED
  BY <1>2, <1>3, <1>4, <1>5 DEF Decides

LEMMA ClientOrdered ==
  ASSUME OInv, [RevisionNext]_revisionVars, NEW c \in Client
  PROVE  OrderedOf(c)'
<1>1. \A f \in FileNames : Settled(f) => Settled(f)'
  BY SettledStays DEF OInv
<1>2. OrderedOf(c) /\ next[c] \in 1..Files + 1
  BY DEF OInv, Ordered, Placed, TypeOK
<1>3. Before(next[c]) => \A g \in 1..(next[c] - 1) : Settled(g)'
  BY <1>1, <1>2, FilesAssumption DEF Before, FileNames
<1>4. CASE Decides(c)
  BY <1>4, DecidesOrdered
<1>5. CASE AnswerLost(c) \/ \E h \in Handler : Request(c, h)
  <2>1. UNCHANGED <<pc, next, manifest>>
    BY <1>5 DEF AnswerLost, Request, Receive
  <2>2. QED
    BY <1>1, <1>2, <1>3, <2>1 DEF OrderedOf, Before
<1>6. CASE Abort(c)
  <2>1. pc'[c] = "failed" /\ manifest'[c] = manifest[c]
    BY <1>6 DEF Abort, Go, OInv, Placed, TypeOK
  <2>2. QED
    BY <1>1, <1>2, <2>1 DEF OrderedOf
<1>7. CASE GiveUp(c)
  <2>1. pc[c] = "sending" /\ next[c] \in 1..Files /\ Files \in Nat
    BY <1>7, FilesAssumption DEF GiveUp, OInv, Placed, Position, PositionOf, FileNames
  <2>2. next'[c] = next[c] + 1 /\ manifest'[c] = manifest[c]
    BY <1>7 DEF GiveUp, FileSent, OInv, Placed, TypeOK
  <2>3. pc'[c] # "done"
    <3>1. missed[c] \cup {next[c]} # {}
      OBVIOUS
    <3>2. Go(c, IF next[c] < Files THEN "sending" ELSE "failed")
      BY <1>7, <3>1, Zenon DEF GiveUp, FileSent
    <3>3. QED
      BY <3>2 DEF Go, OInv, Placed, TypeOK
  <2>4. Saved(next[c]) \/ next[c] \in lost'
    BY <1>7 DEF GiveUp
  <2>5. PICK n \in FileNames : n = next[c]
    BY <2>1 DEF FileNames
  <2>6. Settled(n)'
    <3>1. CASE Saved(n)
      BY <1>1, <3>1 DEF Settled
    <3>2. CASE n \in lost'
      BY <3>2 DEF Settled
    <3>3. QED
      BY <2>4, <2>5, <3>1, <3>2
  <2>7. \A g \in 1..n : Settled(g)'
    BY <1>2, <1>3, <2>1, <2>5, <2>6 DEF OrderedOf
  <2>8. QED
    BY <1>1, <1>2, <2>1, <2>2, <2>3, <2>5, <2>7 DEF OrderedOf, Before
<1>8. ASSUME NEW h \in Handler, CloseFile(h), asked[c] = h PROVE OrderedOf(c)'
  <2>1. /\ pc[c] = "sending" /\ handling[h].file = next[c] /\ Handles(h)
        /\ next[c] \in 1..Files /\ Files \in Nat /\ next'[c] = next[c] + 1
        /\ manifest'[c] = manifest[c]
        /\ pc'[c] = "done" => ~(next[c] < Files)
    BY <1>8, HearsSuccess, FilesAssumption DEF OInv
  <2>2. PICK n \in FileNames : n = next[c]
    BY <2>1 DEF FileNames
  <2>3. Settled(n)'
    <3>1. CASE handling[h].step = "open"
      <4>1. stored'[n] # Absent /\ n \notin cut'
        BY <1>8, <2>1, <2>2, <3>1 DEF CloseFile, OInv, Placed, Opened
      <4>2. QED
        BY <4>1 DEF Settled, Saved
    <3>2. CASE handling[h].step = "gone"
      BY <1>1, <2>1, <2>2, <3>2 DEF OInv, Ordered
    <3>3. QED
      BY <1>8, <3>1, <3>2 DEF CloseFile
  <2>4. \A g \in 1..n : Settled(g)'
    BY <1>2, <1>3, <2>1, <2>2, <2>3 DEF OrderedOf
  <2>5. pc'[c] = "done" => \A f \in FileNames : Settled(f)'
    BY <2>1, <2>2, <2>4 DEF FileNames
  <2>6. QED
    BY <1>1, <1>2, <2>1, <2>2, <2>4, <2>5 DEF OrderedOf, Before
<1>9. CASE ~Decides(c) /\ ~Sends(c) /\ \A h \in Handler : CloseFile(h) => asked[c] # h
  <2>1. pc'[c] = pc[c] /\ next'[c] = next[c] /\ manifest'[c] = manifest[c]
    BY <1>9, OthersWait DEF OInv
  <2>2. QED
    BY <1>1, <1>2, <1>3, <2>1 DEF OrderedOf, Before
<1>10. QED
  BY <1>4, <1>5, <1>6, <1>7, <1>8, <1>9 DEF Sends

LEMMA NextOrdered == OInv /\ [RevisionNext]_revisionVars => OInv'
BY NextPlaced, StoredOrdered, RequestsOrdered, ClientOrdered DEF OInv, Ordered

LEMMA AlwaysOrdered == RevisionSpec => []OInv
<1>1. RevisionInit => OInv
  <2>1. RevisionInit => Ordered
    BY DEF RevisionInit, Ordered, OrderedOf, Nothing, Handles
  <2>2. QED
    BY <2>1, InitPlaced DEF OInv
<1>2. QED
  BY <1>1, NextOrdered, PTL DEF RevisionSpec

\* Beside a manifest no file is missing or cut, but one that a request is
\* replacing, or that was itself given up, cut by a killed handler or removed and
\* not saved since: the files are sent in their order (_upload_files), although a
\* handler unlinks before it saves, clients race, and answers come late or never.
THEOREM ManifestLast == RevisionSpec => []ManifestMeansComplete
<1>1. OInv => ManifestMeansComplete
  BY ManifestSettles DEF ManifestMeansComplete
<1>2. QED
  BY <1>1, AlwaysOrdered, PTL

\* So is every file of a recipe whose upload reports success, also of one that
\* looked at the manifest alone (_recipe_files_to_upload).
THEOREM RecipeUploads == RevisionSpec => []RecipesComplete
<1>1. OInv => RecipesComplete
  BY DEF OInv, Ordered, OrderedOf, RecipesComplete
<1>2. QED
  BY <1>1, AlwaysOrdered, PTL

-----------------------------------------------------------------------------
(* A package upload that ends well leaves a complete package.              *)

Present(f) == stored[f] # Absent \/ BeingSaved(f)

\* A client that met no loss has stored every file it passed, unless it knows
\* that it missed it; one that skips the upload has found all of them.
AccountedOf(c) ==
  /\ pc[c] = "sending" => \A f \in 1..(next[c] - 1) : f \in missed[c] \/ Present(f)
  /\ Package /\ pc[c] \in {"compare", "done"} => \A f \in FileNames : Present(f)
  /\ \A h \in Handler : asked[c] = h /\ handling[h].step = "gone" => Present(handling[h].file)

Accounted == \A c \in Client \ wiped : AccountedOf(c)

PInv == Placed /\ Accounted

\* Files do not disappear but by a removal or a killed handler, ...
LEMMA PresentStays ==
  ASSUME Placed, [RevisionNext]_revisionVars, NEW f \in FileNames, Present(f)
  PROVE  \/ Present(f)'
         \/ \E files \in SUBSET Snapshot : RemoveFiles(files)
         \/ \E h \in Handler : /\ KillHandler(h) /\ handling[h].file = f
                               /\ stored[f] = Absent /\ handling[h].step # "gone"
<1>1. CASE stored[f] # Absent
  BY <1>1, StoredOrSaved, UnlinkSaves DEF Present
<1>2. CASE stored[f] = Absent
  <2>1. PICK i \in Handler : Handles(i) /\ handling[i].file = f /\ handling[i].step # "gone"
    BY <1>2 DEF Present, BeingSaved
  <2>2. CASE FileExists(i)
    BY <1>2, <2>1, <2>2 DEF FileExists
  <2>3. CASE CloseFile(i)
    BY <1>2, <2>1, <2>3 DEF CloseFile, Placed, Opened
  <2>4. CASE KillHandler(i)
    BY <1>2, <2>1, <2>4
  <2>5. CASE Handles(i)' /\ Goes(i) /\ (handling'[i].step = "gone" <=> handling[i].step = "gone")
    BY <2>1, <2>5 DEF Present, BeingSaved, Goes
  <2>6. CASE \E h \in Handler : Unlink(h) /\ handling[h].file = f
    BY <2>6, UnlinkSaves DEF Present
  <2>7. QED
    BY <2>1, <2>2, <2>3, <2>4, <2>5, <2>6, RequestsGo
<1>3. QED
  BY <1>1, <1>2

\* ... and then everyone at work knows of it, except whose request was killed.
LEMMA LossKnown ==
  ASSUME Placed, [RevisionNext]_revisionVars, NEW c \in Client, pc[c] # "idle", c \notin wiped',
         NEW f \in FileNames, Present(f), ~Present(f)'
  PROVE  \E h \in Handler : KillHandler(h) /\ asked[c] = h /\ f = next[c]
<1>1. ~\E files \in SUBSET Snapshot : RemoveFiles(files)
  BY DEF RemoveFiles, AtWork
<1>2. PICK h \in Handler : /\ KillHandler(h) /\ handling[h].file = f
                           /\ stored[f] = Absent /\ handling[h].step # "gone"
  BY <1>1, PresentStays
<1>3. c \in IF asked[handling[h].client] = h THEN {handling[h].client} ELSE {}
  BY <1>2 DEF KillHandler, AtWork
<1>4. asked[c] = h
  BY <1>3
<1>5. f = next[c]
  BY <1>2, <1>4, HandlerAssumption DEF Placed, Position, PositionOf
<1>6. QED
  BY <1>2, <1>4, <1>5

\* Only a new upload forgets a loss.
LEMMA WipedStays ==
  ASSUME Placed, [RevisionNext]_revisionVars, NEW c \in Client \cup {Reader}, c \in wiped, c \notin wiped'
  PROVE  c \in Client /\ Start(c)
<1>1. ASSUME NEW d \in Client, Start(d) PROVE wiped' = wiped \ {d}
  BY <1>1 DEF Start
<1>2. wiped \subseteq wiped' \/ \E d \in Client : Start(d)
  BY StepCases DEF Decides, CheckRecipeDate, GetSnapshot, Compare, Sends, AnswerLost, GiveUp, Abort,
     Request, Receive, Serves, Unlink, Create, FileExists, CloseFile, KillHandler, Removes, RemoveFiles,
     Reads, CheckComplete, ListFiles, Download, revisionVars, server
<1>3. QED
  BY <1>1, <1>2

\* A client that waits for a writer whose file is gone has met the loss of it,
\* or another request is under way.
LEMMA GoneAccounted ==
  ASSUME PInv, [RevisionNext]_revisionVars, NEW c \in Client, c \notin wiped, c \notin wiped',
         NEW h \in Handler, asked'[c] = h, handling'[h].step = "gone"
  PROVE  Present(handling[h].file)'
<1>1. Placed' /\ h # Free
  BY NextPlaced, HandlerAssumption DEF PInv
<1>2. asked[c] = h \/ Request(c, h)
  <2>1. ASSUME NEW i \in Handler, CloseFile(i) \/ FileExists(i) \/ KillHandler(i) PROVE asked[c] = h
    <3>1. Handles(i) /\ handling' = [handling EXCEPT ![i] = Free] /\ asked' = Heard(i)
      BY <2>1, HandlerFacts DEF CloseFile, FileExists, KillHandler, PInv, Placed
    <3>2. QED
      BY <1>1, <3>1, HeardPlaced DEF PInv
  <2>2. ASSUME NEW d \in Client, NEW i \in Handler, Request(d, i)
        PROVE  asked[c] = h \/ Request(c, h)
    BY <2>2 DEF Request, Receive, PInv, Placed, TypeOK
  <2>3. ASSUME NEW d \in Client, AnswerLost(d) \/ Abort(d) PROVE asked[c] = h
    BY <1>1, <2>3 DEF AnswerLost, Abort, PInv, Placed, TypeOK
  <2>4. ASSUME asked' = asked PROVE asked[c] = h
    BY <2>4
  <2>5. QED
    BY <2>1, <2>2, <2>3, <2>4, StepCases DEF Decides, Start, CheckRecipeDate, GetSnapshot, Compare,
       Sends, GiveUp, Serves, Unlink, Create, Removes, RemoveFiles, Reads, CheckComplete,
       ListFiles, Download, revisionVars, client
<1>3. ~Request(c, h)
  <2>1. SUFFICES ASSUME Request(c, h) PROVE FALSE
    OBVIOUS
  <2>2. handling'[h] = [client |-> c, file |-> next[c], step |-> "received"]
    BY <2>1 DEF Request, Receive, PInv, Placed, TypeOK
  <2>3. QED
    BY <2>2
<1>4. /\ Handles(h) /\ pc[c] = "sending" /\ handling[h].file \in FileNames
      /\ handling[h].file = next[c]
  BY <1>1, <1>2, <1>3, HandlerFacts DEF PInv, Placed, Position, PositionOf
<1>5. ~FileExists(h) /\ ~CloseFile(h) /\ ~KillHandler(h)
  <2>1. SUFFICES ASSUME FileExists(h) \/ CloseFile(h) \/ KillHandler(h) PROVE FALSE
    OBVIOUS
  <2>2. handling'[h] = Free
    BY <2>1 DEF FileExists, CloseFile, KillHandler, PInv, Placed, TypeOK
  <2>3. QED
    BY <2>2 DEF Free
<1>6. Goes(h)
  BY <1>4, <1>5, RequestsGo DEF PInv
<1>7. PICK f \in FileNames : f = handling[h].file
  BY <1>4
<1>8. Present(f)'
  <2>1. CASE handling[h].step = "gone"
    <3>1. Present(f)
      BY <1>2, <1>3, <1>7, <2>1 DEF PInv, Accounted, AccountedOf
    <3>2. ~\E i \in Handler : KillHandler(i) /\ asked[c] = i /\ f = next[c]
      BY <1>2, <1>3, <1>5
    <3>3. QED
      BY <1>4, <3>1, <3>2, LossKnown DEF PInv
  <2>2. CASE \E i \in Handler : Unlink(i) /\ handling[i].file = f
    BY <2>2, UnlinkSaves DEF PInv, Present
  <2>3. CASE \E files \in SUBSET Snapshot : RemoveFiles(files)
    BY <1>4, <2>3 DEF RemoveFiles, AtWork
  <2>4. QED
    BY <1>4, <1>5, <1>7, <2>1, <2>2, <2>3, RequestsGo DEF PInv
<1>9. handling'[h].file = f
  BY <1>6, <1>7 DEF Goes
<1>10. QED
  BY <1>8, <1>9 DEF Present, BeingSaved, Handles

LEMMA NextAccountedOf ==
  ASSUME PInv, [RevisionNext]_revisionVars, NEW c \in Client, c \notin wiped'
  PROVE  AccountedOf(c)'
<1>0. Placed' /\ UNCHANGED setup
  BY NextPlaced, StepCases DEF PInv
<1>1. CASE pc[c] = "idle" \/ c \in wiped
  <2>1. CASE Start(c)
    BY <1>0, <2>1, HandlerAssumption DEF Start, Go, PInv, Placed, TypeOK, Position, PositionOf, AccountedOf
  <2>2. CASE pc[c] = "idle" /\ ~Start(c)
    <3>1. asked[c] = Free
      BY <2>2 DEF PInv, Placed, Position, PositionOf
    <3>2. ~Decides(c) /\ ~Sends(c)
      BY <2>2, <3>1 DEF Decides, CheckRecipeDate, GetSnapshot, Compare, Sends, AnswerLost, GiveUp,
         Abort, Request, Receive, Resting
    <3>3. pc'[c] = "idle"
      BY <2>2, <3>1, <3>2, OthersWait, HandlerAssumption DEF PInv
    <3>4. asked'[c] = Free
      BY <1>0, <3>3 DEF Placed, Position, PositionOf
    <3>5. QED
      BY <3>3, <3>4, HandlerAssumption DEF AccountedOf
  <2>3. QED
    BY <1>1, <2>1, <2>2, WipedStays DEF PInv
<1>2. CASE pc[c] # "idle" /\ c \notin wiped
  <2>1. AccountedOf(c) /\ next[c] \in 1..Files + 1 /\ 1..(next[c] - 1) \subseteq FileNames /\ Files \in Nat
    BY <1>2, FilesAssumption DEF PInv, Accounted, Placed, TypeOK, FileNames
  <2>2. \A f \in FileNames : Present(f) =>
          Present(f)' \/ (f = next[c] /\ \E h \in Handler : KillHandler(h) /\ asked[c] = h)
    BY <1>2, LossKnown DEF PInv
  <2>3. \A h \in Handler : asked'[c] = h /\ handling'[h].step = "gone" => Present(handling[h].file)'
    BY <1>2, GoneAccounted
  <2>4. CASE \E h \in Handler : KillHandler(h) /\ asked[c] = h
    <3>1. pc'[c] = "sending" /\ next'[c] = next[c] /\ missed'[c] = missed[c]
      BY <2>4, HandlerAssumption DEF KillHandler, PInv, Placed, Position, PositionOf
    <3>2. \A f \in 1..(next[c] - 1) : f \in missed[c] \/ Present(f)'
      BY <2>1, <2>2, <2>4, HandlerAssumption DEF AccountedOf, PInv, Placed, Position, PositionOf
    <3>3. QED
      BY <2>3, <3>1, <3>2 DEF AccountedOf
  <2>5. ASSUME ~\E h \in Handler : KillHandler(h) /\ asked[c] = h
        PROVE  /\ pc'[c] = "sending" => \A f \in 1..(next'[c] - 1) : f \in missed'[c] \/ Present(f)'
               /\ Package' /\ pc'[c] \in {"compare", "done"} => \A f \in FileNames : Present(f)'
    <3>1. \A f \in FileNames : Present(f) => Present(f)'
      BY <2>2, <2>5
    <3>2. Package' = Package
      BY <1>0 DEF Package
    <3>3. CASE Decides(c)
      <4>1. CASE Start(c) \/ CheckRecipeDate(c)
        BY <4>1 DEF Start, CheckRecipeDate, Go, PInv, Placed, TypeOK
      <4>2. CASE GetSnapshot(c)
        <5>1. pc'[c] = SnapshotTo(c) /\ next'[c] = 1
          BY <4>2 DEF GetSnapshot, Go, PInv, Placed, TypeOK, Position, PositionOf
        <5>2. Package /\ SnapshotTo(c) \in {"compare", "done"} => \A f \in FileNames : Present(f)
          BY DEF SnapshotTo, Complete, Snapshot, Present
        <5>3. QED
          BY <3>1, <3>2, <5>1, <5>2
      <4>3. CASE Compare(c)
        <5>1. pc[c] = "compare" /\ next'[c] = 1
          BY <4>3 DEF Compare, PInv, Placed, Position, PositionOf
        <5>2. QED
          BY <2>1, <3>1, <3>2, <5>1 DEF AccountedOf
      <4>4. QED
        BY <3>3, <4>1, <4>2, <4>3 DEF Decides
    <3>4. CASE AnswerLost(c) \/ \E h \in Handler : Request(c, h)
      <4>1. UNCHANGED <<pc, next, missed>>
        BY <3>4 DEF AnswerLost, Request, Receive
      <4>2. QED
        BY <2>1, <3>1, <3>2, <4>1 DEF AccountedOf
    <3>5. CASE Abort(c)
      BY <3>5 DEF Abort, Go, PInv, Placed, TypeOK
    <3>6. CASE GiveUp(c)
      <4>1. pc[c] = "sending" /\ next[c] \in 1..Files
        BY <3>6 DEF GiveUp, PInv, Placed, Position, PositionOf, FileNames
      <4>2. next'[c] = next[c] + 1 /\ missed'[c] = missed[c] \cup {next[c]}
        BY <3>6 DEF GiveUp, FileSent, PInv, Placed, TypeOK
      <4>3. pc'[c] \in {"sending", "failed"}
        <5>1. missed[c] \cup {next[c]} # {}
          OBVIOUS
        <5>2. Go(c, IF next[c] < Files THEN "sending" ELSE "failed")
          BY <3>6, <5>1, Zenon DEF GiveUp, FileSent
        <5>3. QED
          BY <5>2 DEF Go, PInv, Placed, TypeOK
      <4>4. \A f \in 1..(next[c] - 1) : f \in missed[c] \/ Present(f)'
        BY <2>1, <3>1, <4>1 DEF AccountedOf
      <4>5. QED
        BY <4>1, <4>2, <4>3, <4>4
    <3>7. ASSUME NEW h \in Handler, CloseFile(h), asked[c] = h
          PROVE  /\ pc'[c] = "sending" => \A f \in 1..(next'[c] - 1) : f \in missed'[c] \/ Present(f)'
                 /\ Package' /\ pc'[c] \in {"compare", "done"} => \A f \in FileNames : Present(f)'
      <4>1. /\ pc[c] = "sending" /\ handling[h].file = next[c] /\ Handles(h)
            /\ next[c] \in 1..Files /\ next'[c] = next[c] + 1 /\ missed'[c] = missed[c]
            /\ pc'[c] = IF next[c] < Files THEN "sending"
                        ELSE IF missed[c] = {} THEN "done" ELSE "failed"
        BY <3>7, HearsSuccess DEF PInv
      <4>2. PICK n \in FileNames : n = next[c]
        BY <4>1 DEF FileNames
      <4>3. Present(n)'
        <5>1. CASE handling[h].step = "open"
          BY <3>7, <4>1, <4>2, <5>1 DEF CloseFile, PInv, Placed, Opened, Present
        <5>2. CASE handling[h].step = "gone"
          BY <2>1, <3>1, <3>7, <4>1, <4>2, <5>2 DEF AccountedOf
        <5>3. QED
          BY <3>7, <5>1, <5>2 DEF CloseFile
      <4>4. \A f \in 1..n : f \in missed[c] \/ Present(f)'
        BY <2>1, <3>1, <4>1, <4>2, <4>3 DEF AccountedOf
      <4>5. pc'[c] = "done" => \A f \in FileNames : Present(f)'
        BY <2>1, <4>1, <4>2, <4>4 DEF FileNames
      <4>6. QED
        BY <2>1, <4>1, <4>2, <4>4, <4>5
    <3>8. CASE ~Decides(c) /\ ~Sends(c) /\ \A h \in Handler : CloseFile(h) => asked[c] # h
      <4>1. pc'[c] = pc[c] /\ next'[c] = next[c] /\ missed'[c] = missed[c]
        BY <3>8, OthersWait DEF PInv
      <4>2. QED
        BY <2>1, <3>1, <3>2, <4>1 DEF AccountedOf
    <3>9. QED
      BY <3>3, <3>4, <3>5, <3>6, <3>7, <3>8 DEF Sends
  <2>6. QED
    BY <2>3, <2>4, <2>5 DEF AccountedOf
<1>3. QED
  BY <1>1, <1>2

LEMMA NextAccounted == PInv /\ [RevisionNext]_revisionVars => PInv'
BY NextPlaced, NextAccountedOf DEF PInv, Accounted

\* Uploading a package until it succeeds leaves all its files on the server, each
\* but while a request replaces it, however many attempts failed, clients raced
\* and handlers were killed before, unless files are lost meanwhile
\* (_package_files_to_upload, _upload_files).
THEOREM PackageUploads == RevisionSpec => []PackagesComplete
<1>1. RevisionInit => PInv
  <2>1. RevisionInit => Accounted
    BY HandlerAssumption DEF RevisionInit, Accounted, AccountedOf
  <2>2. QED
    BY <2>1, InitPlaced DEF PInv
<1>2. PInv => PackagesComplete
  BY DEF PInv, Accounted, AccountedOf, Present, PackagesComplete
<1>3. QED
  BY <1>1, <1>2, NextAccounted, PTL DEF RevisionSpec

-----------------------------------------------------------------------------
(* Installing while others upload.                                         *)

\* What the reader has not got is on the list of what it still has to get.
Listed ==
  Reader \notin wiped =>
    /\ rpc = "checked" => Complete
    /\ rpc = "downloading" => \A f \in FileNames : f \in wanted \/ f \in got
    /\ rpc = "done" => got = FileNames

LInv == Placed /\ Listed

LEMMA ReadsListed == ASSUME LInv, Reads PROVE Listed'
<1>1. stored' = stored /\ wiped' = wiped
  BY DEF Reads, CheckComplete, ListFiles, Download, server
<1>2. CASE CheckComplete
  BY <1>1, <1>2 DEF CheckComplete, Listed, Complete, Snapshot
<1>3. CASE ListFiles
  <2>1. Reader \notin wiped => wanted' = FileNames
    BY <1>3 DEF ListFiles, LInv, Listed, Complete
  <2>2. rpc' \in {"failed", "downloading"}
    BY <1>3 DEF ListFiles
  <2>3. QED
    BY <1>1, <2>1, <2>2 DEF Listed
<1>4. CASE Download
  <2>1. PICK f \in wanted :
          /\ rpc = "downloading" /\ wanted' = wanted \ {f}
          /\ got' = IF stored[f] = Absent THEN got ELSE got \cup {f}
          /\ rpc' = IF stored[f] = Absent THEN "failed"
                    ELSE IF wanted = {f} THEN "done" ELSE "downloading"
    BY <1>4 DEF Download
  <2>2. SUFFICES ASSUME Reader \notin wiped', rpc' # "failed"
                 PROVE  (\A g \in FileNames : g \in wanted' \/ g \in got') /\ got' \subseteq FileNames
    BY <2>1 DEF Listed
  <2>3. \A g \in FileNames : g \in wanted \/ g \in got
    BY <1>1, <2>1, <2>2 DEF LInv, Listed
  <2>4. QED
    BY <2>1, <2>2, <2>3 DEF LInv, Placed, TypeOK
<1>5. QED
  BY <1>2, <1>3, <1>4 DEF Reads

LEMMA NextListed == LInv /\ [RevisionNext]_revisionVars => LInv'
<1> SUFFICES ASSUME LInv, [RevisionNext]_revisionVars PROVE Listed'
  BY NextPlaced DEF LInv
<1>1. CASE Reads
  BY <1>1, ReadsListed
<1>2. CASE ~Reads
  <2>1. UNCHANGED reader
    BY <1>2, StepCases DEF Decides, Start, CheckRecipeDate, GetSnapshot, Compare, Sends, AnswerLost,
       GiveUp, Abort, Request, Receive, Serves, Unlink, Create, FileExists, CloseFile, KillHandler,
       Removes, RemoveFiles, revisionVars
  <2>2. Reader \notin wiped' => Reader \notin wiped
    BY WipedStays, ReaderAssumption DEF LInv
  <2>3. ASSUME rpc = "checked", Reader \notin wiped', Complete PROVE Complete'
    <3>1. ASSUME NEW f \in FileNames, stored[f] # Absent PROVE stored'[f] # Absent
      <4>1. ASSUME NEW h \in Handler, Unlink(h), handling[h].file = f PROVE FALSE
        BY <2>3, <3>1, <4>1 DEF Unlink, Between
      <4>2. ASSUME NEW files \in SUBSET Snapshot, RemoveFiles(files) PROVE FALSE
        BY <2>3, <4>2 DEF RemoveFiles, Between
      <4>3. QED
        BY <3>1, <4>1, <4>2, StoredOrSaved DEF LInv
    <3>2. QED
      BY <2>3, <3>1 DEF Complete, Snapshot
  <2>4. QED
    BY <2>1, <2>2, <2>3 DEF LInv, Listed, reader
<1>3. QED
  BY <1>1, <1>2

\* A package that was installed has every file, also one that others upload or
\* replace meanwhile and whichever of their requests fail, unless a file went
\* just between the check of the snapshot and the listing of what to download
\* (is_package_snapshot_complete, get_package).
THEOREM InstallsAreWhole == RevisionSpec => []InstallMeansComplete
<1>1. RevisionInit => LInv
  BY InitPlaced DEF RevisionInit, LInv, Listed
<1>2. LInv => InstallMeansComplete
  BY DEF LInv, Listed, InstallMeansComplete
<1>3. QED
  BY <1>1, <1>2, NextListed, PTL DEF RevisionSpec

-----------------------------------------------------------------------------
(* The pool of an upload.                                                  *)

Items(queue) == {queue[i].item : i \in DOMAIN queue}
Distinct(queue) == \A i, j \in DOMAIN queue : queue[i].item = queue[j].item => i = j

IsTask(t) == t = [item |-> t.item, remote |-> t.remote, seen |-> t.seen] /\ t.item \in Item

Shape ==
  /\ upload = [phase |-> upload.phase, loaded |-> upload.loaded, chosen |-> upload.chosen,
               threads |-> upload.threads, todo |-> upload.todo, groups |-> upload.groups,
               remote |-> upload.remote]
  /\ upload.phase \in {"none", "collect", "map", "join", "done", "failed"}
  /\ upload.todo \subseteq Ref
  /\ \A g \in upload.groups : g = <<g[1], g[2]>> /\ g[2] \in Ref
  /\ tasks \in Seq(Range(tasks)) /\ \A i \in DOMAIN tasks : IsTask(tasks[i])
  /\ running = [w \in Worker |-> running[w]]
  /\ \A w \in Worker : running[w] = NoTask \/ IsTask(running[w])
  /\ results \in Seq([item : Item, failed : BOOLEAN])
  /\ jobs \in [Job -> [open : BOOLEAN, left : Nat, failed : SUBSET Pref]]
  /\ handler \in BOOLEAN /\ errors \subseteq Item /\ hooks \subseteq Ref /\ failures \in Nat
  /\ \A x \in uploaded : x[1] \in Item

\* What the threads do, and everything that the pool has not finished.
Busy == {running[w].item : w \in Worker} \ {None}
Pending == Items(tasks) \cup Busy \cup Items(results)
Outstanding(j) == {x \in Pending : JobOf(x) = j}

\* An item is in one place of the pool at a time.
Places ==
  /\ Distinct(tasks) /\ Distinct(results)
  /\ \A v, w \in Worker : running[v].item = running[w].item /\ running[v].item # None => v = w
  /\ Items(tasks) \cap Busy = {}
  /\ Items(tasks) \cap Items(results) = {} /\ Busy \cap Items(results) = {}

\* A job knows how many of its items are pending.
Counts ==
  \A j \in Job : /\ jobs[j].left = Cardinality(Outstanding(j))
                 /\ jobs[j].left > 0 \/ jobs[j].failed # {} => jobs[j].open

\* The recipes that are to be uploaded: not yet collected, in the group of a
\* remote, or in the pool.
Grouped == {g[2] : g \in upload.groups}
Waiting == upload.todo \cup Grouped \cup ((Items(tasks) \cup Busy) \cap Ref)

\* The packages of a recipe that waits are not in the pool, and it waits once.
Order ==
  /\ \A r \in Waiting : ~jobs[r].open
  /\ \A g, h \in upload.groups : g[2] = h[2] => g = h
  /\ upload.todo \cap Grouped = {} /\ (upload.todo \cup Grouped) \cap Pending = {}

\* The phases of the command.
Phases ==
  /\ upload.phase = "none" => Pending = {} /\ Waiting = {} /\ \A j \in Job : ~jobs[j].open
  /\ upload.phase \in {"map", "join", "done"} => upload.todo = {}
  /\ upload.phase \in {"join", "done"} => upload.groups = {}
  /\ upload.phase = "done" => errors = {} /\ \A j \in Job : ~jobs[j].open
  /\ ~handler => \E r \in Ref : jobs[r].open

\* Something has failed, and the command will know, or will never end.
Trouble ==
  \/ errors # {} \/ ~handler
  \/ \E r \in Ref : jobs[r].failed # {}
  \/ \E i \in DOMAIN results : results[i].failed /\ results[i].item \in Pref

Sending == {x[1] : x \in uploaded}

\* A recipe waits or was uploaded, with its packages on the way.
Well ==
  ~Trouble =>
    /\ failures = 0
    /\ upload.phase # "none" => \A r \in Ref \ Waiting :
         /\ r \in Sending /\ (r \in hooks \/ jobs[r].open)
         /\ PackagesIn(r) \subseteq Items(tasks) \cup Busy \cup Sending

\* The recipe of a package in the pool was uploaded to where this one goes.
After(t) == t.item \in Pref => <<t.item[1], t.remote.url>> \in uploaded
Follows ==
  /\ \A i \in DOMAIN tasks : After(tasks[i])
  /\ \A w \in Worker : After(running[w])
  /\ PackagesFollow

Inv == Shape /\ Places /\ Counts /\ Order /\ Phases /\ Well /\ Follows

-----------------------------------------------------------------------------
(* Queues.                                                                 *)

LEMMA SeqOfItself ==
  ASSUME NEW S, NEW s \in Seq(S)
  PROVE  s \in Seq(Range(s)) /\ Len(s) \in Nat /\ DOMAIN s = 1..Len(s)
<1>1. \A i \in 1..Len(s) : s[i] \in Range(s)
  BY DEF Range
<1> QED
  BY <1>1

\* What is left of a queue, when the first item is taken.
LEMMA TailQueue ==
  ASSUME NEW S, NEW s \in Seq(S), s # <<>>
  PROVE  /\ Tail(s) \in Seq(Range(Tail(s))) /\ Head(s) = s[1] /\ 1 \in DOMAIN s
         /\ \A i \in DOMAIN Tail(s) : i + 1 \in DOMAIN s /\ Tail(s)[i] = s[i + 1]
         /\ Head(s).item \in Items(s) /\ Items(s) = {Head(s).item} \cup Items(Tail(s))
         /\ Distinct(s) => Distinct(Tail(s)) /\ Head(s).item \notin Items(Tail(s))
<1>1. /\ Tail(s) \in Seq(S) /\ Len(s) \in Nat /\ Len(s) > 0 /\ Len(Tail(s)) = Len(s) - 1
      /\ DOMAIN s = 1..Len(s) /\ DOMAIN Tail(s) = 1..Len(s) - 1
      /\ Head(s) = s[1] /\ \A i \in 1..Len(s) - 1 : Tail(s)[i] = s[i + 1]
  BY HeadTailProperties, LenProperties
<1>2. Tail(s) \in Seq(Range(Tail(s)))
  BY <1>1, SeqOfItself
<1>3. \A i \in DOMAIN s : i = 1 \/ (i - 1 \in DOMAIN Tail(s) /\ Tail(s)[i - 1] = s[i])
  BY <1>1
<1>4. Head(s).item \in Items(s) /\ Items(s) = {Head(s).item} \cup Items(Tail(s))
  <2>1. \A x \in Items(s) : x = Head(s).item \/ x \in Items(Tail(s))
    BY <1>1, <1>3 DEF Items
  <2>2. \A x \in Items(Tail(s)) : x \in Items(s)
    BY <1>1 DEF Items
  <2>3. Head(s).item \in Items(s)
    BY <1>1 DEF Items
  <2> QED
    BY <2>1, <2>2, <2>3
<1>5. ASSUME Distinct(s)
      PROVE  Distinct(Tail(s)) /\ Head(s).item \notin Items(Tail(s))
  <2>1. Distinct(Tail(s))
    BY <1>1, <1>5 DEF Distinct
  <2>2. ASSUME NEW i \in DOMAIN Tail(s), Tail(s)[i].item = s[1].item
        PROVE  FALSE
    BY <1>1, <1>5, <2>2 DEF Distinct
  <2> QED
    BY <1>1, <2>1, <2>2 DEF Items
<1> QED
  BY <1>1, <1>2, <1>4, <1>5

LEMMA AppendQueue ==
  ASSUME NEW S, NEW s \in Seq(S), NEW x \in S
  PROVE  /\ Append(s, x) \in Seq(S) /\ Items(Append(s, x)) = Items(s) \cup {x.item}
         /\ \A i \in DOMAIN s : i \in DOMAIN Append(s, x) /\ Append(s, x)[i] = s[i]
         /\ \A i \in DOMAIN Append(s, x) : Append(s, x)[i] = x \/ (i \in DOMAIN s /\ Append(s, x)[i] = s[i])
         /\ \E i \in DOMAIN Append(s, x) : Append(s, x)[i] = x
         /\ Distinct(s) /\ x.item \notin Items(s) => Distinct(Append(s, x))
<1> DEFINE q == Append(s, x)
<1>1. /\ q \in Seq(S) /\ Len(s) \in Nat /\ DOMAIN s = 1..Len(s) /\ DOMAIN q = 1..Len(s) + 1
      /\ q[Len(s) + 1] = x /\ \A i \in 1..Len(s) : q[i] = s[i]
  BY AppendProperties, LenProperties
<1> HIDE DEF q
<1>2. \A i \in DOMAIN q : (i = Len(s) + 1 /\ q[i] = x) \/ (i \in DOMAIN s /\ q[i] = s[i])
  BY <1>1
<1>3. Items(q) = Items(s) \cup {x.item}
  BY <1>1, <1>2 DEF Items
<1>4. Distinct(s) /\ x.item \notin Items(s) => Distinct(q)
  BY <1>1, <1>2 DEF Distinct, Items
<1>5. \E i \in DOMAIN q : q[i] = x
  BY <1>1
<1> QED
  BY <1>1, <1>2, <1>3, <1>4, <1>5 DEF q

\* A finite set, put in a sequence.
LEMMA SetInSequence ==
  ASSUME NEW T, IsFiniteSet(T)
  PROVE  /\ SetToSeq(T) \in Seq(T) /\ Range(SetToSeq(T)) = T
         /\ \A i, j \in DOMAIN SetToSeq(T) : SetToSeq(T)[i] = SetToSeq(T)[j] => i = j
<1> DEFINE n == Cardinality(T)
           q == SetToSeq(T)
<1>1. n \in Nat /\ ExistsBijection(1..n, T)
  BY FS_CardinalityType
<1>2. PICK f \in [1..n -> T] : IsInjective(f)
  BY <1>1 DEF ExistsBijection, Bijection, Injection
<1>3. q \in [1..n -> T] /\ IsInjective(q)
  BY <1>2 DEF SetToSeq
<1>4. q \in Surjection(1..n, T)
  <2>1. q \in Injection(1..n, T) /\ Cardinality(1..n) = n
    BY <1>1, <1>3, FS_Interval DEF Injection
  <2> QED
    BY <2>1, FS_Injection
<1>5. Range(q) = T
  BY <1>3, <1>4 DEF Range, Surjection
<1>6. q \in Seq(T)
  BY <1>1, <1>3, SeqDef
<1> QED
  BY <1>3, <1>5, <1>6 DEF IsInjective

\* A finite set of tasks is put into the queue.
LEMMA JoinQueue ==
  ASSUME NEW S, NEW s \in Seq(S), NEW T, IsFiniteSet(T),
         \A t, u \in T : t.item = u.item => t = u
  PROVE  LET q == s \o SetToSeq(T)
             new == {t.item : t \in T}
         IN  /\ q \in Seq(Range(q)) /\ Items(q) = Items(s) \cup new
             /\ \A i \in DOMAIN q : q[i] \in T \/ (i \in DOMAIN s /\ q[i] = s[i])
             /\ Distinct(s) /\ Items(s) \cap new = {} => Distinct(q)
<1> DEFINE u == SetToSeq(T)
           q == s \o u
           n == Len(s)
<1>1. u \in Seq(T) /\ Range(u) = T /\ \A i, j \in DOMAIN u : u[i] = u[j] => i = j
  BY SetInSequence
<1> HIDE DEF u
<1>2. /\ q \in Seq(S \cup T) /\ n \in Nat /\ Len(u) \in Nat
      /\ DOMAIN s = 1..n /\ DOMAIN u = 1..Len(u) /\ DOMAIN q = 1..n + Len(u)
      /\ \A i \in 1..n + Len(u) : q[i] = IF i <= n THEN s[i] ELSE u[i - n]
  <2>1. s \in Seq(S \cup T) /\ u \in Seq(S \cup T)
    BY <1>1
  <2> QED
    BY <2>1, ConcatProperties, LenProperties
<1> HIDE DEF q, n
<1>3. q \in Seq(Range(q))
  BY <1>2, SeqOfItself
<1>4. \A i \in DOMAIN q :
        \/ i \in DOMAIN s /\ i <= n /\ q[i] = s[i]
        \/ i > n /\ i - n \in DOMAIN u /\ q[i] = u[i - n]
  BY <1>2
<1>5. \A j \in DOMAIN u : u[j] \in T
  BY <1>1 DEF Range
<1>6. Items(q) = Items(s) \cup {t.item : t \in T}
  <2>1. \A x \in Items(q) : x \in Items(s) \cup {t.item : t \in T}
    BY <1>4, <1>5 DEF Items
  <2>2. \A x \in Items(s) : x \in Items(q)
    BY <1>2 DEF Items
  <2>3. ASSUME NEW t \in T
        PROVE  t.item \in Items(q)
    <3>1. PICK j \in DOMAIN u : u[j] = t
      BY <1>1 DEF Range
    <3>2. n + j \in DOMAIN q /\ q[n + j] = t
      BY <1>2, <3>1
    <3> QED
      BY <3>2 DEF Items
  <2> QED
    BY <2>1, <2>2, <2>3
<1>7. ASSUME Distinct(s), Items(s) \cap {t.item : t \in T} = {}
      PROVE  Distinct(q)
  <2> SUFFICES ASSUME NEW i \in DOMAIN q, NEW j \in DOMAIN q, q[i].item = q[j].item
               PROVE  i = j
    BY DEF Distinct
  <2>1. CASE i <= n /\ j <= n
    BY <1>2, <1>4, <1>7, <2>1 DEF Distinct
  <2>2. CASE i > n /\ j > n
    <3>1. i - n \in DOMAIN u /\ j - n \in DOMAIN u /\ q[i] = u[i - n] /\ q[j] = u[j - n]
      BY <1>2, <1>4, <2>2
    <3>2. u[i - n] = u[j - n]
      BY <1>5, <3>1
    <3>3. i - n = j - n
      BY <1>1, <3>1, <3>2
    <3> QED
      BY <1>2, <3>3
  <2>3. ASSUME NEW k \in DOMAIN q, NEW l \in DOMAIN q, k <= n, l > n, q[k].item = q[l].item
        PROVE  FALSE
    <3>1. q[k].item \in Items(s)
      BY <1>2, <1>4, <2>3 DEF Items
    <3>2. q[l] \in T
      BY <1>2, <1>4, <1>5, <2>3
    <3> QED
      BY <1>7, <2>3, <3>1, <3>2
  <2> QED
    BY <1>2, <2>1, <2>2, <2>3
<1> QED
  BY <1>3, <1>4, <1>5, <1>6, <1>7 DEF q, u

-----------------------------------------------------------------------------
(* Items and jobs.                                                         *)

LEMMA ItemFacts ==
  /\ \A r \in Ref : JobOf(r) = Recipes /\ r # None
  /\ \A p \in Pref : p[1] \in Ref /\ JobOf(p) = p[1] /\ p \notin Ref /\ p # None
  /\ \A x \in Item : JobOf(x) \in Job
  /\ Recipes \notin Ref
<1>1. \A p \in Pref : p[1] \in Ref
  BY DEF Pref
<1> QED
  BY <1>1, ItemsAssumption DEF JobOf, Recipes, Job, Item

LEMMA ItemFinite == IsFiniteSet(Item) /\ \A r \in Ref : IsFiniteSet(PackagesIn(r))
<1> DEFINE Of(r) == {r} \X PackagesOf[r]
           f == [r \in Ref |-> Of(r)]
           Sets == {Of(r) : r \in Ref}
<1>1. IsFiniteSet(Sets)
  <2>1. f \in Surjection(Ref, Sets)
    BY DEF Surjection
  <2> QED
    BY <2>1, FS_Surjection, ItemsAssumption
<1>2. \A s \in Sets : IsFiniteSet(s)
  <2> SUFFICES ASSUME NEW r \in Ref
               PROVE  IsFiniteSet(Of(r))
    OBVIOUS
  <2>1. IsFiniteSet({r}) /\ IsFiniteSet(PackagesOf[r])
    BY FS_Singleton, ItemsAssumption
  <2> QED
    BY <2>1, FS_Product
<1>3. IsFiniteSet(Pref)
  BY <1>1, <1>2, FS_UNION DEF Pref
<1>4. IsFiniteSet(Item)
  BY <1>3, FS_Union, ItemsAssumption DEF Item
<1> QED
  BY <1>3, <1>4, FS_Subset DEF PackagesIn

\* What is pending are items.
LEMMA PendingItems ==
  ASSUME Shape
  PROVE  /\ Items(tasks) \subseteq Item /\ Busy \subseteq Item /\ Items(results) \subseteq Item
         /\ \A j : Outstanding(j) \subseteq Item /\ IsFiniteSet(Outstanding(j))
<1>1. Items(tasks) \subseteq Item
  BY DEF Shape, Items, IsTask
<1>2. Busy \subseteq Item
  BY DEF Shape, Busy, IsTask, NoTask
<1>3. Items(results) \subseteq Item
  <2>1. \A i \in DOMAIN results : results[i] \in [item : Item, failed : BOOLEAN]
    <3> DEFINE R == [item : Item, failed : BOOLEAN]
    <3>1. results \in Seq(R)
      BY DEF Shape
    <3> HIDE DEF R
    <3>2. \A i \in DOMAIN results : results[i] \in R
      BY <3>1, ElementOfSeq, LenProperties
    <3> QED
      BY <3>2 DEF R
  <2> QED
    BY <2>1 DEF Items
<1>4. \A j : Outstanding(j) \subseteq Item
  BY <1>1, <1>2, <1>3 DEF Outstanding, Pending
<1> QED
  BY <1>1, <1>2, <1>3, <1>4, ItemFinite, FS_Subset

\* A job that is not open has nothing in the pool, and nothing that failed.
LEMMA NothingOutstanding ==
  ASSUME Shape, Counts, NEW j \in Job, ~jobs[j].open
  PROVE  Outstanding(j) = {} /\ jobs[j].left = 0 /\ jobs[j].failed = {}
<1>1. jobs[j].left \in Nat /\ jobs[j].left = 0 /\ jobs[j].failed = {}
  BY DEF Shape, Counts
<1>2. Cardinality(Outstanding(j)) = 0 /\ IsFiniteSet(Outstanding(j))
  BY <1>1, PendingItems DEF Counts
<1> QED
  BY <1>1, <1>2, FS_EmptySet

\* A job with an item in the pool is open.
LEMMA PendingOpen ==
  ASSUME Shape, Counts, NEW x \in Pending
  PROVE  x \in Item /\ JobOf(x) \in Job /\ jobs[JobOf(x)].open
<1>1. x \in Item /\ JobOf(x) \in Job /\ x \in Outstanding(JobOf(x))
  BY PendingItems, ItemFacts DEF Pending, Outstanding
<1> QED
  BY <1>1, NothingOutstanding

\* A task that a thread has is in the pool, and so an upload is going on.
LEMMA WorkersBusy ==
  ASSUME Inv, NEW x \in Pending
  PROVE  upload.phase \notin {"none", "done"}
<1>1. JobOf(x) \in Job /\ jobs[JobOf(x)].open
  BY PendingOpen DEF Inv
<1> QED
  BY <1>1 DEF Inv, Phases

-----------------------------------------------------------------------------
(* The command.                                                            *)

LEMMA InitInv == Init => Inv
<1> SUFFICES ASSUME Init
             PROVE  Inv
  OBVIOUS
<1>1. /\ tasks = <<>> /\ results = <<>> /\ uploaded = {} /\ errors = {} /\ hooks = {}
      /\ upload = NoUpload /\ running = [w \in Worker |-> NoTask] /\ handler = TRUE
      /\ jobs = [j \in Job |-> NoJob] /\ failures = 0
  BY DEF Init
<1>2. Shape
  BY <1>1 DEF Shape, NoUpload, NoTask, NoJob, Range
<1>3. Items(tasks) = {} /\ Busy = {} /\ Items(results) = {}
  BY <1>1 DEF Items, Busy, NoTask
<1>4. Places
  BY <1>1, <1>3 DEF Places, Distinct, NoTask
<1>5. Counts
  <2> SUFFICES ASSUME NEW j \in Job
               PROVE  /\ jobs[j].left = Cardinality(Outstanding(j))
                      /\ jobs[j].left > 0 \/ jobs[j].failed # {} => jobs[j].open
    BY DEF Counts
  <2>1. Outstanding(j) = {}
    BY <1>3 DEF Outstanding, Pending
  <2>2. jobs[j].left = 0 /\ jobs[j].failed = {}
    BY <1>1 DEF NoJob
  <2> QED
    BY <2>1, <2>2, FS_EmptySet
<1>6. Waiting = {} /\ Grouped = {}
  BY <1>1, <1>3 DEF Waiting, Grouped, NoUpload
<1>7. Order /\ Phases
  BY <1>1, <1>3, <1>6 DEF Order, Phases, Pending, NoUpload, NoJob
<1>8. Well
  BY <1>1 DEF Well, NoUpload
<1>9. Follows
  BY <1>1, ItemsAssumption DEF Follows, After, NoTask, PackagesFollow
<1> QED
  BY <1>2, <1>4, <1>5, <1>7, <1>8, <1>9 DEF Inv

\* A step that leaves the pool alone.
LEMMA PoolKeeps ==
  ASSUME Inv, UNCHANGED poolVars
  PROVE  /\ Places' /\ Counts' /\ Follows'
         /\ Pending' = Pending /\ Items(tasks)' = Items(tasks) /\ Busy' = Busy
         /\ Trouble' = Trouble /\ Sending' = Sending
<1> USE DEF Inv, poolVars
<1>1. /\ Pending' = Pending /\ Items(tasks)' = Items(tasks) /\ Busy' = Busy
      /\ Items(results)' = Items(results) /\ \A j : Outstanding(j)' = Outstanding(j)
  BY DEF Pending, Items, Busy, Outstanding
<1>2. Places'
  BY <1>1 DEF Places, Distinct
<1>3. Counts'
  BY <1>1 DEF Counts
<1>4. Follows'
  BY DEF Follows, After, PackagesFollow
<1> QED
  BY <1>1, <1>2, <1>3, <1>4 DEF Trouble, Sending

LEMMA StutterInv ==
  ASSUME Inv, UNCHANGED <<upload, poolVars>>
  PROVE  Inv'
<1>1. /\ Places' /\ Counts' /\ Follows' /\ Trouble' = Trouble /\ Pending' = Pending
      /\ Waiting' = Waiting /\ Grouped' = Grouped
  BY PoolKeeps DEF Waiting, Grouped
<1>2. Shape'
  BY DEF Inv, Shape, poolVars
<1>3. Order' /\ Phases'
  BY <1>1 DEF Inv, Order, Phases, poolVars
<1>4. Well'
  BY <1>1, PoolKeeps DEF Inv, Well, poolVars
<1> QED
  BY <1>1, <1>2, <1>3, <1>4 DEF Inv

LEMMA StartUploadInv ==
  ASSUME Inv, NEW chosen, NEW threads, StartUpload(chosen, threads)
  PROVE  Inv'
<1>1. /\ upload.phase = "none" /\ UNCHANGED poolVars
      /\ upload'.phase = "collect" /\ upload'.todo = Ref /\ upload'.groups = {}
  BY DEF StartUpload, NoUpload
<1>2. Places' /\ Counts' /\ Follows' /\ Trouble' = Trouble /\ Pending' = {}
  BY <1>1, PoolKeeps DEF Inv, Phases
<1>3. Shape'
  BY <1>1 DEF Inv, Shape, poolVars, StartUpload, NoUpload
<1>4. Waiting' = Ref /\ Grouped' = {}
  BY <1>1, <1>2 DEF Waiting, Grouped, Pending
<1>5. \A j \in Job : ~jobs[j].open
  BY <1>1 DEF Inv, Phases
<1>6. Order' /\ Phases'
  BY <1>1, <1>2, <1>4, <1>5 DEF Order, Phases, poolVars, Inv, Job
<1>7. Well'
  BY <1>1, <1>2, <1>4 DEF Inv, Well, poolVars
<1> QED
  BY <1>2, <1>3, <1>6, <1>7 DEF Inv

LEMMA CollectInv ==
  ASSUME Inv, NEW r \in Ref, Collect(r)
  PROVE  Inv'
<1> DEFINE n == RemoteFor(r)
<1>1. /\ upload.phase = "collect" /\ r \in upload.todo /\ UNCHANGED poolVars
  BY DEF Collect
<1>2. /\ Places' /\ Counts' /\ Follows' /\ Trouble' = Trouble /\ Pending' = Pending
      /\ Items(tasks)' = Items(tasks) /\ Busy' = Busy /\ Sending' = Sending
  BY <1>1, PoolKeeps
<1>3. CASE upload' = [upload EXCEPT !.phase = "failed"]
  <2>1. upload'.phase = "failed" /\ upload'.todo = upload.todo /\ upload'.groups = upload.groups
    BY <1>3 DEF Inv, Shape
  <2>2. Shape'
    BY <1>1, <1>3 DEF Inv, Shape, poolVars
  <2>3. Waiting' = Waiting /\ Grouped' = Grouped
    BY <1>2, <2>1 DEF Waiting, Grouped
  <2>4. Order' /\ Phases' /\ Well'
    BY <1>1, <1>2, <2>1, <2>3 DEF Inv, Order, Phases, Well, poolVars
  <2> QED
    BY <1>2, <2>2, <2>4 DEF Inv
<1>4. CASE upload' = [upload EXCEPT !.todo = @ \ {r}, !.groups = @ \cup {<<n, r>>}]
  <2> HIDE DEF n
  <2>1. /\ upload'.phase = "collect" /\ upload'.todo = upload.todo \ {r}
        /\ upload'.groups = upload.groups \cup {<<n, r>>}
    BY <1>1, <1>4 DEF Inv, Shape
  <2>2. Shape'
    <3>1. \A g \in upload'.groups : g = <<g[1], g[2]>> /\ g[2] \in Ref
      BY <2>1 DEF Inv, Shape
    <3>2. upload'.todo \subseteq Ref
      BY <2>1 DEF Inv, Shape
    <3> QED
      BY <1>1, <1>4, <2>1, <3>1, <3>2 DEF Inv, Shape, poolVars
  <2>3. Grouped' = Grouped \cup {r} /\ r \notin Grouped
    <3>1. r \notin Grouped
      BY <1>1 DEF Inv, Order
    <3>2. Grouped' = {g[2] : g \in upload.groups \cup {<<n, r>>}}
      BY <2>1 DEF Grouped
    <3>3. \A x : x \in Grouped' <=> x \in Grouped \/ x = r
      <4>1. <<n, r>>[2] = r
        OBVIOUS
      <4> QED
        BY <3>2, <4>1 DEF Grouped
    <3> QED
      BY <3>1, <3>3
  <2>4. Waiting' = Waiting
    BY <1>1, <1>2, <2>1, <2>3 DEF Waiting
  <2>5. Order'
    <3>1. \A g \in upload.groups : g[2] # r
      BY <2>3 DEF Grouped
    <3>2. \A g, h \in upload'.groups : g[2] = h[2] => g = h
      BY <2>1, <3>1 DEF Inv, Order
    <3>3. r \notin Pending
      BY <1>1 DEF Inv, Order
    <3>4. upload'.todo \cap Grouped' = {}
      BY <2>1, <2>3 DEF Inv, Order
    <3>5. (upload'.todo \cup Grouped') \cap Pending' = {}
      BY <1>2, <2>1, <2>3, <3>3 DEF Inv, Order
    <3> QED
      BY <1>1, <2>4, <3>2, <3>4, <3>5 DEF Inv, Order, poolVars
  <2>6. Phases'
    BY <1>1, <2>1 DEF Inv, Phases, poolVars
  <2>7. Well'
    BY <1>1, <1>2, <2>1, <2>4 DEF Inv, Well, poolVars
  <2> QED
    BY <1>2, <2>2, <2>5, <2>6, <2>7 DEF Inv
<1> QED
  BY <1>3, <1>4 DEF Collect

LEMMA ClosePoolInv ==
  ASSUME Inv, ClosePool
  PROVE  Inv'
<1>1. /\ upload.phase = "map" /\ upload.groups = {} /\ UNCHANGED poolVars
      /\ upload' = [upload EXCEPT !.phase = "join"]
  BY DEF ClosePool
<1>2. /\ Places' /\ Counts' /\ Follows' /\ Trouble' = Trouble /\ Pending' = Pending
      /\ Items(tasks)' = Items(tasks) /\ Busy' = Busy /\ Sending' = Sending
  BY <1>1, PoolKeeps
<1>3. upload'.phase = "join" /\ upload'.todo = upload.todo /\ upload'.groups = upload.groups
  BY <1>1 DEF Inv, Shape
<1>4. Shape'
  BY <1>1 DEF Inv, Shape, poolVars
<1>5. Waiting' = Waiting /\ Grouped' = Grouped
  BY <1>2, <1>3 DEF Waiting, Grouped
<1>6. Order' /\ Phases' /\ Well'
  BY <1>1, <1>2, <1>3, <1>5 DEF Inv, Order, Phases, Well, poolVars
<1> QED
  BY <1>2, <1>4, <1>6 DEF Inv

LEMMA JoinPoolInv ==
  ASSUME Inv, JoinPool
  PROVE  Inv'
<1>1. /\ upload.phase = "join" /\ UNCHANGED poolVars /\ \A j \in Job : ~jobs[j].open
      /\ upload' = [upload EXCEPT !.phase = IF errors = {} THEN "done" ELSE "failed"]
  BY DEF JoinPool
<1>2. /\ Places' /\ Counts' /\ Follows' /\ Trouble' = Trouble /\ Pending' = Pending
      /\ Items(tasks)' = Items(tasks) /\ Busy' = Busy /\ Sending' = Sending
  BY <1>1, PoolKeeps
<1>3. /\ upload'.phase = IF errors = {} THEN "done" ELSE "failed"
      /\ upload'.todo = upload.todo /\ upload'.groups = upload.groups
  BY <1>1 DEF Inv, Shape
<1>4. Shape'
  BY <1>1 DEF Inv, Shape, poolVars
<1>5. Waiting' = Waiting /\ Grouped' = Grouped
  BY <1>2, <1>3 DEF Waiting, Grouped
<1>6. Order'
  BY <1>1, <1>2, <1>3, <1>5 DEF Inv, Order, poolVars
<1>7. Phases'
  BY <1>1, <1>3 DEF Inv, Phases, poolVars
<1>8. Well'
  BY <1>1, <1>2, <1>3, <1>5 DEF Inv, Well, poolVars
<1> QED
  BY <1>2, <1>4, <1>6, <1>7, <1>8 DEF Inv

LEMMA MapGroupInv ==
  ASSUME Inv, NEW n, MapGroup(n)
  PROVE  Inv'
<1> DEFINE G == Group(n)
           remote == RemoteOf(upload.loaded, n)
           T == {Task(r, remote) : r \in G}
<1>1. /\ upload.phase \in {"collect", "map"} /\ upload.todo = {} /\ ~jobs[Recipes].open
      /\ tasks' = tasks \o SetToSeq(T)
      /\ jobs' = [jobs EXCEPT ![Recipes] = NewJob(Cardinality(G))]
      /\ upload' = [upload EXCEPT !.phase = "map", !.remote = n, !.groups = {g \in @ : g[1] # n}]
      /\ UNCHANGED <<running, results, handler, errors, uploaded, hooks, failures>>
  BY DEF MapGroup
<1>2. /\ upload'.phase = "map" /\ upload'.todo = upload.todo
      /\ upload'.groups = {g \in upload.groups : g[1] # n}
  BY <1>1 DEF Inv, Shape
<1>3. G \subseteq Ref /\ IsFiniteSet(G) /\ Cardinality(G) \in Nat /\ G \subseteq Grouped
  <2>1. G \subseteq Grouped
    <3>1. \A r : <<n, r>>[2] = r
      OBVIOUS
    <3> QED
      BY <3>1 DEF Group, Grouped
  <2> QED
    BY <2>1, ItemsAssumption, FS_Subset, FS_CardinalityType DEF Group
<1>4. /\ IsFiniteSet(T) /\ {t.item : t \in T} = G
      /\ \A t, u \in T : t.item = u.item => t = u
      /\ \A t \in T : IsTask(t) /\ t.item \in Ref
  <2>1. \A r : Task(r, remote).item = r
    BY DEF Task
  <2>2. IsFiniteSet(T)
    <3> DEFINE f == [r \in G |-> Task(r, remote)]
    <3>1. f \in Surjection(G, T)
      BY DEF Surjection
    <3> QED
      BY <1>3, <3>1, FS_Surjection
  <2>3. {t.item : t \in T} = G
    BY <2>1
  <2>4. \A t \in T : IsTask(t) /\ t.item \in Ref
    BY <1>3 DEF Task, IsTask, Item
  <2> QED
    BY <2>1, <2>2, <2>3, <2>4
<1> HIDE DEF G, T
<1>5. /\ tasks' \in Seq(Range(tasks')) /\ Items(tasks)' = Items(tasks) \cup G
      /\ \A i \in DOMAIN tasks' : tasks'[i] \in T \/ (i \in DOMAIN tasks /\ tasks'[i] = tasks[i])
      /\ Distinct(tasks) /\ Items(tasks) \cap G = {} => Distinct(tasks')
  <2>1. tasks \in Seq(Range(tasks))
    BY DEF Inv, Shape
  <2>2. \A t, u \in T : t.item = u.item => t = u
    BY <1>4
  <2>3. /\ tasks' \in Seq(Range(tasks')) /\ Items(tasks') = Items(tasks) \cup {t.item : t \in T}
        /\ \A i \in DOMAIN tasks' : tasks'[i] \in T \/ (i \in DOMAIN tasks /\ tasks'[i] = tasks[i])
        /\ Distinct(tasks) /\ Items(tasks) \cap {t.item : t \in T} = {} => Distinct(tasks')
    BY <1>1, <1>4, <2>1, <2>2, JoinQueue
  <2>4. {t.item : t \in T} = G /\ Items(tasks)' = Items(tasks')
    BY <1>4 DEF Items
  <2> QED
    BY <2>3, <2>4
<1>6. G \cap Pending = {} /\ Distinct(tasks')
  BY <1>3, <1>5 DEF Inv, Order, Places, Pending
<1>7. Busy' = Busy /\ Items(results)' = Items(results) /\ Pending' = Pending \cup G
  BY <1>1, <1>5 DEF Busy, Items, Pending
<1>8. Grouped' = Grouped \ G
  <2>1. \A g \in upload.groups : g[2] \in G <=> g[1] = n
    <3> SUFFICES ASSUME NEW g \in upload.groups
                 PROVE  g[2] \in G <=> g[1] = n
      OBVIOUS
    <3>1. g = <<g[1], g[2]>> /\ g[2] \in Ref
      BY DEF Inv, Shape
    <3>2. ASSUME g[2] \in G
          PROVE  g[1] = n
      <4>1. <<n, g[2]>> \in upload.groups /\ <<n, g[2]>>[2] = g[2] /\ <<n, g[2]>>[1] = n
        BY <3>2 DEF G, Group
      <4> QED
        BY <4>1 DEF Inv, Order
    <3>3. ASSUME g[1] = n
          PROVE  g[2] \in G
      BY <3>1, <3>3 DEF G, Group
    <3> QED
      BY <3>2, <3>3
  <2> QED
    BY <1>2, <2>1 DEF Grouped
<1>9. Waiting' = Waiting
  BY <1>2, <1>3, <1>5, <1>7, <1>8 DEF Waiting
<1>10. /\ Recipes \in Job /\ jobs'[Recipes] = NewJob(Cardinality(G))
       /\ \A j \in Job \ {Recipes} : jobs'[j] = jobs[j]
       /\ \A r \in Ref : r \in Job /\ r # Recipes
  BY <1>1, ItemFacts DEF Inv, Shape, Job
<1>11. Shape'
  <2>1. jobs' \in [Job -> [open : BOOLEAN, left : Nat, failed : SUBSET Pref]]
    BY <1>1, <1>3 DEF Inv, Shape, NewJob
  <2>2. \A i \in DOMAIN tasks' : IsTask(tasks'[i])
    BY <1>4, <1>5 DEF Inv, Shape
  <2>3. /\ upload' = [phase |-> upload'.phase, loaded |-> upload'.loaded, chosen |-> upload'.chosen,
                      threads |-> upload'.threads, todo |-> upload'.todo, groups |-> upload'.groups,
                      remote |-> upload'.remote]
        /\ \A g \in upload'.groups : g = <<g[1], g[2]>> /\ g[2] \in Ref
        /\ upload'.todo \subseteq Ref
    BY <1>1, <1>2 DEF Inv, Shape
  <2> QED
    BY <1>1, <1>2, <1>5, <2>1, <2>2, <2>3 DEF Inv, Shape
<1>12. Places'
  BY <1>1, <1>5, <1>6, <1>7 DEF Inv, Places, Pending, Distinct
<1>13. Counts'
  <2> SUFFICES ASSUME NEW j \in Job
               PROVE  /\ jobs'[j].left = Cardinality(Outstanding(j)')
                      /\ jobs'[j].left > 0 \/ jobs'[j].failed # {} => jobs'[j].open
    BY DEF Counts
  <2>1. \A r \in G : JobOf(r) = Recipes
    BY <1>3, ItemFacts
  <2>2. CASE j = Recipes
    <3>1. Outstanding(j) = {}
      BY <1>1, <2>2, NothingOutstanding DEF Inv
    <3>2. Outstanding(j)' = G
      BY <1>7, <2>1, <2>2, <3>1 DEF Outstanding
    <3> QED
      BY <1>10, <2>2, <3>2 DEF NewJob
  <2>3. CASE j # Recipes
    <3>1. Outstanding(j)' = Outstanding(j)
      BY <1>7, <2>1, <2>3 DEF Outstanding
    <3> QED
      BY <1>10, <2>3, <3>1 DEF Inv, Counts
  <2> QED
    BY <2>2, <2>3
<1>14. Order'
  <2>1. \A r \in Waiting' : ~jobs'[r].open
    <3>1. Waiting \subseteq Ref
      BY DEF Waiting, Grouped, Inv, Shape
    <3> QED
      BY <1>9, <1>10, <3>1 DEF Inv, Order
  <2>2. (upload'.todo \cup Grouped') \cap Pending' = {}
    BY <1>1, <1>2, <1>7, <1>8 DEF Inv, Order
  <2> QED
    BY <1>1, <1>2, <2>1, <2>2 DEF Inv, Order
<1>15. Phases'
  BY <1>1, <1>2, <1>10 DEF Inv, Phases
<1>16. Trouble' = Trouble
  BY <1>1, <1>10 DEF Trouble
<1>17. Well'
  BY <1>1, <1>2, <1>5, <1>7, <1>9, <1>10, <1>16 DEF Inv, Well, Sending
<1>18. Follows'
  <2>1. \A t \in T : After(t)'
    BY <1>4, ItemFacts DEF After
  <2>2. \A i \in DOMAIN tasks' : After(tasks[i])'
    BY <1>1, <1>5, <2>1 DEF Inv, Follows, After
  <2> QED
    BY <1>1, <2>2 DEF Inv, Follows, After, PackagesFollow
<1> QED
  BY <1>11, <1>12, <1>13, <1>14, <1>15, <1>17, <1>18 DEF Inv

-----------------------------------------------------------------------------
(* The threads.                                                            *)

\* The task of a thread.
LEMMA Running ==
  ASSUME Inv, NEW w \in Worker, running[w] # NoTask
  PROVE  LET x == running[w].item
         IN  /\ IsTask(running[w]) /\ x \in Item /\ x \in Busy /\ x \in Pending
             /\ x \notin Items(tasks) /\ x \notin Items(results)
             /\ \A v \in Worker : v # w => running[v].item # x
             /\ upload.phase \notin {"none", "done"}
<1> DEFINE x == running[w].item
<1>1. IsTask(running[w])
  BY DEF Inv, Shape
<1>2. x \in Item /\ x # None
  BY <1>1, ItemsAssumption DEF IsTask, Item
<1>3. x \in Busy /\ x \in Pending
  BY <1>2 DEF Busy, Pending
<1> QED
  BY <1>1, <1>2, <1>3, WorkersBusy DEF Inv, Places

\* What a thread is done with is a result.
LEMMA EndedEffect ==
  ASSUME Inv, NEW w \in Worker, running[w] # NoTask, NEW failed \in BOOLEAN, Ended(w, failed)
  PROVE  LET x == running[w].item
         IN  /\ running' = [v \in Worker |-> running'[v]]
             /\ \A v \in Worker : running'[v] = IF v = w THEN NoTask ELSE running[v]
             /\ results' \in Seq([item : Item, failed : BOOLEAN])
             /\ Busy' = Busy \ {x} /\ Items(results)' = Items(results) \cup {x}
             /\ Distinct(results')
             /\ \E i \in DOMAIN results' : results'[i] = [item |-> x, failed |-> failed]
             /\ \A i \in DOMAIN results : i \in DOMAIN results' /\ results'[i] = results[i]
             /\ \A i \in DOMAIN results' : \/ results'[i] = [item |-> x, failed |-> failed]
                                           \/ i \in DOMAIN results /\ results'[i] = results[i]
<1> DEFINE x == running[w].item
           result == [item |-> x, failed |-> failed]
           R == [item : Item, failed : BOOLEAN]
<1>1. /\ running' = [running EXCEPT ![w] = NoTask] /\ results' = Append(results, result)
      /\ running = [v \in Worker |-> running[v]] /\ results \in Seq(R)
  BY DEF Ended, Inv, Shape
<1>2. x \in Item /\ x \notin Items(results) /\ \A v \in Worker : v # w => running[v].item # x
  BY Running
<1>3. /\ running' = [v \in Worker |-> running'[v]]
      /\ \A v \in Worker : running'[v] = IF v = w THEN NoTask ELSE running[v]
  BY <1>1
<1>4. Busy' = Busy \ {x}
  <2>1. \A y : y \in Busy' <=> y # None /\ \E v \in Worker : running'[v].item = y
    BY DEF Busy
  <2>2. \A y : y \in Busy <=> y # None /\ \E v \in Worker : running[v].item = y
    BY DEF Busy
  <2>3. NoTask.item = None
    BY DEF NoTask
  <2>4. ASSUME NEW y
        PROVE  y \in Busy' <=> y \in Busy \ {x}
    BY <1>2, <1>3, <2>1, <2>2, <2>3
  <2> QED
    BY <2>4
<1>5. result \in R /\ result.item = x
  BY <1>2
<1>6. Distinct(results)
  BY DEF Inv, Places
<1> HIDE DEF result, R
<1>7. /\ results' \in Seq(R) /\ Items(results)' = Items(results) \cup {x} /\ Distinct(results')
      /\ \E i \in DOMAIN results' : results'[i] = result
      /\ \A i \in DOMAIN results : i \in DOMAIN results' /\ results'[i] = results[i]
      /\ \A i \in DOMAIN results' : results'[i] = result \/ (i \in DOMAIN results /\ results'[i] = results[i])
  BY <1>1, <1>2, <1>5, <1>6, AppendQueue DEF Items
<1> QED
  BY <1>3, <1>4, <1>7 DEF result, R

LEMMA TakeInv ==
  ASSUME Inv, NEW w \in Worker, Take(w)
  PROVE  Inv'
<1> DEFINE t == Head(tasks)
           x == t.item
           u == running'[w]
<1>1. /\ running[w] = NoTask /\ tasks # <<>> /\ tasks' = Tail(tasks)
      /\ running' = [running EXCEPT ![w] = IF t.item \in Ref THEN [t EXCEPT !.seen = recipes[t.item]] ELSE t]
      /\ UNCHANGED <<upload, results, jobs, handler, errors, uploaded, hooks, failures>>
  BY DEF Take, CanTake
<1>2. /\ tasks' \in Seq(Range(tasks')) /\ t = tasks[1] /\ 1 \in DOMAIN tasks
      /\ \A i \in DOMAIN tasks' : i + 1 \in DOMAIN tasks /\ tasks'[i] = tasks[i + 1]
      /\ x \in Items(tasks) /\ Items(tasks) = {x} \cup Items(tasks)'
      /\ Distinct(tasks') /\ x \notin Items(tasks)'
  <2>1. tasks \in Seq(Range(tasks)) /\ Distinct(tasks)
    BY DEF Inv, Shape, Places
  <2>2. /\ tasks' \in Seq(Range(tasks')) /\ t = tasks[1] /\ 1 \in DOMAIN tasks
        /\ \A i \in DOMAIN tasks' : i + 1 \in DOMAIN tasks /\ tasks'[i] = tasks[i + 1]
        /\ x \in Items(tasks) /\ Items(tasks) = {x} \cup Items(tasks')
        /\ Distinct(tasks') /\ x \notin Items(tasks')
    BY <1>1, <2>1, TailQueue
  <2>3. Items(tasks)' = Items(tasks')
    BY DEF Items
  <2> QED
    BY <2>2, <2>3
<1>3. IsTask(t) /\ x \in Item /\ x # None /\ x \in Pending
  <2>1. IsTask(t)
    BY <1>2 DEF Inv, Shape
  <2> QED
    BY <1>2, <2>1, ItemsAssumption DEF IsTask, Item, Pending
<1> HIDE DEF t
<1>4. /\ running' = [v \in Worker |-> running'[v]]
      /\ \A v \in Worker \ {w} : running'[v] = running[v]
      /\ IsTask(u) /\ u.item = x /\ u.remote = t.remote
  <2>1. u = IF x \in Ref THEN [t EXCEPT !.seen = recipes[x]] ELSE t
    BY <1>1 DEF Inv, Shape
  <2> QED
    BY <1>1, <1>3, <2>1 DEF Inv, Shape, IsTask
<1> HIDE DEF u
<1>5. Busy' = Busy \cup {x} /\ x \notin Busy
  <2>1. x \notin Busy
    BY <1>2 DEF Inv, Places
  <2>2. \A y : y \in Busy' <=> y # None /\ \E v \in Worker : running'[v].item = y
    BY DEF Busy
  <2>3. \A y : y \in Busy <=> y # None /\ \E v \in Worker : running[v].item = y
    BY DEF Busy
  <2>4. running[w].item = None /\ running'[w].item = x
    BY <1>1, <1>4 DEF NoTask, u
  <2>5. ASSUME NEW y
        PROVE  y \in Busy' <=> y \in Busy \cup {x}
    BY <1>3, <1>4, <2>2, <2>3, <2>4
  <2> QED
    BY <2>1, <2>5
<1>6. /\ Items(results)' = Items(results) /\ Pending' = Pending
      /\ Items(tasks)' \cup Busy' = Items(tasks) \cup Busy
  <2>1. Items(results)' = Items(results)
    BY <1>1 DEF Items
  <2> QED
    BY <1>2, <1>5, <2>1 DEF Pending
<1>7. Waiting' = Waiting /\ Grouped' = Grouped /\ \A j : Outstanding(j)' = Outstanding(j)
  BY <1>1, <1>6 DEF Waiting, Grouped, Outstanding
<1>8. Shape'
  <2>1. \A i \in DOMAIN tasks' : IsTask(tasks'[i])
    BY <1>2 DEF Inv, Shape
  <2>2. \A v \in Worker : running'[v] = NoTask \/ IsTask(running'[v])
    BY <1>4 DEF Inv, Shape, u
  <2> QED
    BY <1>1, <1>2, <1>4, <2>1, <2>2 DEF Inv, Shape
<1>9. Places'
  <2>1. \A v \in Worker : running[v].item # x
    BY <1>3, <1>5 DEF Busy
  <2>2. \A v, y \in Worker : running'[v].item = running'[y].item /\ running'[v].item # None => v = y
    BY <1>4, <2>1 DEF Inv, Places, u
  <2>3. Items(tasks)' \cap Busy' = {} /\ Items(tasks)' \cap Items(results)' = {} /\ Busy' \cap Items(results)' = {}
    BY <1>2, <1>5, <1>6 DEF Inv, Places
  <2> QED
    BY <1>1, <1>2, <2>2, <2>3 DEF Inv, Places, Distinct
<1>10. Counts' /\ Order' /\ Phases'
  BY <1>1, <1>6, <1>7 DEF Inv, Counts, Order, Phases
<1>11. Trouble' = Trouble /\ Sending' = Sending
  BY <1>1 DEF Trouble, Sending
<1>12. Well'
  BY <1>1, <1>6, <1>7, <1>11 DEF Inv, Well
<1>13. Follows'
  <2>1. \A i \in DOMAIN tasks' : After(tasks[i])'
    BY <1>1, <1>2 DEF Inv, Follows, After
  <2>2. After(running[w])'
    BY <1>1, <1>2, <1>4 DEF Inv, Follows, After, u
  <2>3. \A v \in Worker : After(running[v])'
    BY <1>1, <1>4, <2>2 DEF Inv, Follows, After
  <2> QED
    BY <1>1, <2>1, <2>3 DEF Inv, Follows, PackagesFollow
<1> QED
  BY <1>8, <1>9, <1>10, <1>12, <1>13 DEF Inv

\* A recipe that is uploaded no longer waits, and its packages are queued,
\* which were not in the pool.
LEMMA UploadRecipeEffect ==
  ASSUME Inv, NEW w \in Worker, UploadRecipe(w)
  PROVE  LET t == running[w]
             r == t.item
             P == PackagesIn(r)
         IN  /\ t # NoTask /\ r \in Waiting /\ P \cap Pending = {}
             /\ tasks' \in Seq(Range(tasks')) /\ Items(tasks') = Items(tasks) \cup P
             /\ Distinct(tasks')
             /\ \A i \in DOMAIN tasks' : tasks'[i] \in PackageTasks(t)
                                         \/ (i \in DOMAIN tasks /\ tasks'[i] = tasks[i])
             /\ jobs' \in [Job -> [open : BOOLEAN, left : Nat, failed : SUBSET Pref]]
             /\ jobs'[r] = [open |-> P # {}, left |-> Cardinality(P), failed |-> {}]
             /\ \A j \in Job \ {r} : jobs'[j] = jobs[j]
             /\ hooks \subseteq hooks' /\ hooks' \subseteq Ref /\ (P = {} => r \in hooks')
<1> DEFINE t == running[w]
           r == t.item
           P == PackagesIn(r)
           T == PackageTasks(t)
<1>1. r \in Ref /\ r \in Job /\ t # NoTask
  BY ItemFacts DEF UploadRecipe, NoTask, Job
<1>2. r \in Waiting /\ ~jobs[r].open
  BY <1>1, Running DEF Waiting, Inv, Order
<1>3. Outstanding(r) = {} /\ jobs[r].left = 0 /\ jobs[r].failed = {}
  BY <1>1, <1>2, NothingOutstanding DEF Inv
<1>4. P \cap Pending = {} /\ IsFiniteSet(P) /\ Cardinality(P) \in Nat /\ (P = {} => Cardinality(P) = 0)
  <2>1. \A p \in P : JobOf(p) = r
    BY ItemFacts DEF PackagesIn
  <2>2. IsFiniteSet(P)
    BY <1>1, ItemFinite
  <2> QED
    BY <1>3, <2>1, <2>2, FS_CardinalityType, FS_EmptySet DEF Outstanding
<1>5. jobs \in [Job -> [open : BOOLEAN, left : Nat, failed : SUBSET Pref]] /\ hooks \subseteq Ref
      /\ tasks \in Seq(Range(tasks)) /\ Distinct(tasks)
  BY DEF Inv, Shape, Places
<1>6. CASE P = {}
  <2>1. tasks' = tasks /\ jobs' = jobs /\ hooks' = hooks \cup {r}
    BY <1>6 DEF UploadRecipe
  <2>2. jobs[r] = [open |-> FALSE, left |-> 0, failed |-> {}]
    BY <1>1, <1>2, <1>3, <1>5
  <2> QED
    BY <1>1, <1>2, <1>4, <1>5, <1>6, <2>1, <2>2
<1>7. CASE P # {}
  <2>1. /\ tasks' = tasks \o SetToSeq(T) /\ jobs' = [jobs EXCEPT ![r] = NewJob(Cardinality(P))]
        /\ hooks' = hooks
    BY <1>7 DEF UploadRecipe
  <2>2. jobs' \in [Job -> [open : BOOLEAN, left : Nat, failed : SUBSET Pref]]
    BY <1>4, <1>5, <2>1 DEF NewJob
  <2>3. jobs'[r] = [open |-> P # {}, left |-> Cardinality(P), failed |-> {}]
    BY <1>1, <1>5, <1>7, <2>1 DEF NewJob
  <2>4. \A p : Task(p, t.remote).item = p
    BY DEF Task
  <2>5. /\ IsFiniteSet(T) /\ {u.item : u \in T} = P
        /\ \A u, v \in T : u.item = v.item => u = v
    <3> DEFINE f == [p \in P |-> Task(p, t.remote)]
    <3>1. T = {Task(p, t.remote) : p \in P}
      BY DEF PackageTasks
    <3>2. f \in Surjection(P, T)
      BY <3>1 DEF Surjection
    <3>3. IsFiniteSet(T)
      BY <1>4, <3>2, FS_Surjection
    <3> QED
      BY <2>4, <3>1, <3>3
  <2> HIDE DEF T
  <2>6. /\ tasks' \in Seq(Range(tasks')) /\ Items(tasks') = Items(tasks) \cup {u.item : u \in T}
        /\ \A i \in DOMAIN tasks' : tasks'[i] \in T \/ (i \in DOMAIN tasks /\ tasks'[i] = tasks[i])
        /\ Distinct(tasks) /\ Items(tasks) \cap {u.item : u \in T} = {} => Distinct(tasks')
    BY <1>5, <2>1, <2>5, JoinQueue
  <2>7. Items(tasks') = Items(tasks) \cup P /\ Distinct(tasks')
    BY <1>4, <1>5, <2>5, <2>6 DEF Pending
  <2> QED
    BY <1>1, <1>2, <1>4, <1>5, <1>7, <2>1, <2>2, <2>3, <2>6, <2>7 DEF T
<1> QED
  BY <1>6, <1>7

LEMMA UploadRecipeInv ==
  ASSUME Inv, NEW w \in Worker, UploadRecipe(w)
  PROVE  Inv'
<1> DEFINE t == running[w]
           r == t.item
           P == PackagesIn(r)
<1>1. /\ r \in Ref /\ r \in Job /\ Ended(w, FALSE) /\ uploaded' = uploaded \cup {<<r, t.remote.url>>}
      /\ UNCHANGED <<upload, handler, errors, failures>>
  BY DEF UploadRecipe, Sent, Job
<1>2. /\ t # NoTask /\ r \in Waiting /\ P \cap Pending = {}
      /\ tasks' \in Seq(Range(tasks')) /\ Items(tasks') = Items(tasks) \cup P
      /\ Distinct(tasks')
      /\ \A i \in DOMAIN tasks' : tasks'[i] \in PackageTasks(t)
                                  \/ (i \in DOMAIN tasks /\ tasks'[i] = tasks[i])
      /\ jobs' \in [Job -> [open : BOOLEAN, left : Nat, failed : SUBSET Pref]]
      /\ jobs'[r] = [open |-> P # {}, left |-> Cardinality(P), failed |-> {}]
      /\ \A j \in Job \ {r} : jobs'[j] = jobs[j]
      /\ hooks \subseteq hooks' /\ hooks' \subseteq Ref /\ (P = {} => r \in hooks')
  BY UploadRecipeEffect
<1>3. /\ IsTask(t) /\ r \in Busy /\ r \in Pending /\ r \notin Items(tasks) /\ r \notin Items(results)
      /\ \A v \in Worker : v # w => running[v].item # r
      /\ upload.phase \notin {"none", "done"}
  BY <1>2, Running
<1>4. /\ running' = [v \in Worker |-> running'[v]]
      /\ \A v \in Worker : running'[v] = IF v = w THEN NoTask ELSE running[v]
      /\ results' \in Seq([item : Item, failed : BOOLEAN])
      /\ Busy' = Busy \ {r} /\ Items(results)' = Items(results) \cup {r}
      /\ Distinct(results')
      /\ \A i \in DOMAIN results : i \in DOMAIN results' /\ results'[i] = results[i]
      /\ \A i \in DOMAIN results' : \/ results'[i] = [item |-> r, failed |-> FALSE]
                                    \/ i \in DOMAIN results /\ results'[i] = results[i]
  BY <1>1, <1>2, EndedEffect
<1>5. /\ ~jobs[r].open /\ jobs[r].failed = {} /\ Outstanding(r) = {}
      /\ \A p \in P : p \in Pref /\ p \notin Ref /\ JobOf(p) = r /\ p[1] = r /\ p \in Item
      /\ Recipes # r
  BY <1>1, <1>2, NothingOutstanding, ItemFacts DEF Inv, Order, PackagesIn, Item
<1>6. Items(tasks)' = Items(tasks) \cup P
  BY <1>2 DEF Items
<1> HIDE DEF P, r, t
<1>7. Pending' = Pending \cup P
  BY <1>3, <1>4, <1>6 DEF Pending
<1>8. Grouped' = Grouped /\ Waiting' = Waiting \ {r}
  <2>1. Grouped' = Grouped
    BY <1>1 DEF Grouped
  <2>2. r \notin upload.todo \cup Grouped
    BY <1>3 DEF Inv, Order
  <2> QED
    BY <1>1, <1>3, <1>4, <1>5, <1>6, <2>1, <2>2 DEF Waiting
<1>9. Sending' = Sending \cup {r}
  <2>1. <<r, t.remote.url>>[1] = r
    OBVIOUS
  <2> QED
    BY <1>1, <2>1 DEF Sending
<1>10. \A u \in PackageTasks(t) : IsTask(u) /\ u.item \in P /\ u.remote = t.remote
  BY <1>5 DEF PackageTasks, Task, IsTask, P, r
<1>11. Shape'
  <2>1. \A i \in DOMAIN tasks' : IsTask(tasks'[i])
    BY <1>2, <1>10 DEF Inv, Shape
  <2>2. \A v \in Worker : running'[v] = NoTask \/ IsTask(running'[v])
    BY <1>4 DEF Inv, Shape
  <2>3. \A x \in uploaded' : x[1] \in Item
    BY <1>1 DEF Inv, Shape, Item
  <2> QED
    BY <1>1, <1>2, <1>4, <2>1, <2>2, <2>3 DEF Inv, Shape
<1>12. Places'
  <2>1. \A u, v \in Worker : running'[u].item = running'[v].item /\ running'[u].item # None => u = v
    BY <1>4 DEF Inv, Places, NoTask
  <2>2. Items(tasks)' \cap Busy' = {} /\ Items(tasks)' \cap Items(results)' = {} /\ Busy' \cap Items(results)' = {}
    BY <1>1, <1>2, <1>3, <1>4, <1>5, <1>6 DEF Inv, Places, Pending
  <2> QED
    BY <1>2, <1>4, <2>1, <2>2 DEF Places, Distinct
<1>13. Counts'
  <2> SUFFICES ASSUME NEW j \in Job
               PROVE  /\ jobs'[j].left = Cardinality(Outstanding(j)')
                      /\ jobs'[j].left > 0 \/ jobs'[j].failed # {} => jobs'[j].open
    BY DEF Counts
  <2>1. CASE j = r
    <3>1. Outstanding(j)' = P
      BY <1>5, <1>7, <2>1 DEF Outstanding
    <3>2. P = {} => Cardinality(P) = 0
      BY FS_EmptySet
    <3>3. Cardinality(P) > 0 => P # {}
      BY <3>2
    <3>4. jobs'[j].left = Cardinality(P) /\ jobs'[j].failed = {} /\ jobs'[j].open = (P # {})
      BY <1>2, <2>1
    <3> QED
      BY <3>1, <3>3, <3>4
  <2>2. CASE j # r
    <3>1. Outstanding(j)' = Outstanding(j)
      BY <1>5, <1>7, <2>2 DEF Outstanding
    <3> QED
      BY <1>2, <2>2, <3>1 DEF Inv, Counts
  <2> QED
    BY <2>1, <2>2
<1>14. Order'
  <2>1. Waiting \subseteq Ref /\ upload.todo \cup Grouped \subseteq Ref
    BY DEF Waiting, Grouped, Inv, Shape
  <2>2. \A s \in Waiting' : ~jobs'[s].open
    BY <1>2, <1>8, <2>1 DEF Inv, Order, Job
  <2>3. (upload.todo \cup Grouped) \cap Pending' = {}
    BY <1>5, <1>7, <2>1 DEF Inv, Order
  <2> QED
    BY <1>1, <1>8, <2>2, <2>3 DEF Inv, Order
<1>15. Phases'
  <2>1. ~handler => \E s \in Ref : jobs'[s].open
    BY <1>2, <1>5 DEF Inv, Phases, Job
  <2> QED
    BY <1>1, <1>3, <2>1 DEF Inv, Phases
<1>16. ~Trouble' => ~Trouble
  <2>1. \A s \in Ref : jobs[s].failed # {} => jobs'[s].failed # {}
    BY <1>2, <1>5 DEF Job
  <2> QED
    BY <1>1, <1>4, <2>1 DEF Trouble
<1>17. Well'
  <2> SUFFICES ASSUME ~Trouble'
               PROVE  /\ failures = 0
                      /\ \A s \in Ref \ Waiting' :
                           /\ s \in Sending' /\ (s \in hooks' \/ jobs'[s].open)
                           /\ PackagesIn(s) \subseteq Items(tasks)' \cup Busy' \cup Sending'
    BY <1>1 DEF Well
  <2>1. /\ failures = 0
        /\ \A s \in Ref \ Waiting :
             /\ s \in Sending /\ (s \in hooks \/ jobs[s].open)
             /\ PackagesIn(s) \subseteq Items(tasks) \cup Busy \cup Sending
    BY <1>3, <1>16 DEF Inv, Well
  <2> SUFFICES ASSUME NEW s \in Ref \ Waiting'
               PROVE  /\ s \in Sending' /\ (s \in hooks' \/ jobs'[s].open)
                      /\ PackagesIn(s) \subseteq Items(tasks)' \cup Busy' \cup Sending'
    BY <2>1
  <2>2. CASE s = r
    <3>1. r \in hooks' \/ jobs'[r].open
      <4>1. jobs'[r].open = (P # {})
        BY <1>2
      <4> QED
        BY <1>2, <4>1
    <3>2. PackagesIn(s) = P
      BY <2>2 DEF P
    <3>3. s \in Sending' /\ P \subseteq Items(tasks)'
      BY <1>6, <1>9, <2>2
    <3> QED
      BY <2>2, <3>1, <3>2, <3>3
  <2>3. CASE s # r
    <3>1. s \in Ref \ Waiting /\ jobs'[s] = jobs[s]
      BY <1>2, <1>8, <2>3 DEF Job
    <3> QED
      BY <1>2, <1>4, <1>6, <1>9, <2>1, <3>1
  <2> QED
    BY <2>2, <2>3
<1>18. Follows'
  <2>1. \A u \in PackageTasks(t) : After(u)'
    BY <1>1, <1>5, <1>10 DEF After
  <2>2. \A i \in DOMAIN tasks' : After(tasks[i])'
    BY <1>1, <1>2, <2>1 DEF Inv, Follows, After
  <2>3. \A v \in Worker : After(running[v])'
    BY <1>1, <1>4, ItemsAssumption DEF Inv, Follows, After, NoTask
  <2>4. PackagesFollow'
    <3>1. <<r, t.remote.url>>[1] \notin Pref
      BY <1>1, ItemFacts
    <3> QED
      BY <1>1, <3>1 DEF Inv, Follows, PackagesFollow
  <2> QED
    BY <2>2, <2>3, <2>4 DEF Follows
<1> QED
  BY <1>11, <1>12, <1>13, <1>14, <1>15, <1>17, <1>18 DEF Inv

LEMMA UploadPackageInv ==
  ASSUME Inv, NEW w \in Worker, UploadPackage(w)
  PROVE  Inv'
<1> DEFINE t == running[w]
           p == t.item
<1>1. /\ p \in Pref /\ p # None /\ p \notin Ref /\ Ended(w, FALSE)
      /\ uploaded' = uploaded \cup {<<p, t.remote.url>>}
      /\ UNCHANGED <<upload, tasks, jobs, handler, errors, hooks, failures>>
  BY ItemFacts DEF UploadPackage, Sent
<1>2. t # NoTask
  BY <1>1 DEF NoTask
<1>3. /\ IsTask(t) /\ p \in Busy /\ p \in Pending /\ p \notin Items(tasks) /\ p \notin Items(results)
      /\ \A v \in Worker : v # w => running[v].item # p
      /\ upload.phase \notin {"none", "done"}
  BY <1>2, Running
<1>4. /\ running' = [v \in Worker |-> running'[v]]
      /\ \A v \in Worker : running'[v] = IF v = w THEN NoTask ELSE running[v]
      /\ results' \in Seq([item : Item, failed : BOOLEAN])
      /\ Busy' = Busy \ {p} /\ Items(results)' = Items(results) \cup {p}
      /\ Distinct(results')
      /\ \A i \in DOMAIN results : i \in DOMAIN results' /\ results'[i] = results[i]
  BY <1>1, <1>2, EndedEffect
<1>5. After(t)
  BY DEF Inv, Follows
<1> HIDE DEF p, t
<1>6. Items(tasks)' = Items(tasks) /\ Pending' = Pending
  <2>1. Items(tasks)' = Items(tasks)
    BY <1>1 DEF Items
  <2> QED
    BY <1>3, <1>4, <2>1 DEF Pending
<1>7. Grouped' = Grouped /\ Waiting' = Waiting /\ \A j : Outstanding(j)' = Outstanding(j)
  <2>1. Grouped' = Grouped
    BY <1>1 DEF Grouped
  <2> QED
    BY <1>1, <1>4, <1>6, <2>1 DEF Waiting, Outstanding
<1>8. Sending' = Sending \cup {p}
  <2>1. <<p, t.remote.url>>[1] = p
    OBVIOUS
  <2> QED
    BY <1>1, <2>1 DEF Sending
<1>9. Shape'
  <2>1. \A v \in Worker : running'[v] = NoTask \/ IsTask(running'[v])
    BY <1>4 DEF Inv, Shape
  <2>2. \A x \in uploaded' : x[1] \in Item
    BY <1>1 DEF Inv, Shape, Item
  <2> QED
    BY <1>1, <1>4, <2>1, <2>2 DEF Inv, Shape
<1>10. Places'
  <2>1. \A u, v \in Worker : running'[u].item = running'[v].item /\ running'[u].item # None => u = v
    BY <1>4 DEF Inv, Places, NoTask
  <2>2. Items(tasks)' \cap Busy' = {} /\ Items(tasks)' \cap Items(results)' = {} /\ Busy' \cap Items(results)' = {}
    BY <1>3, <1>4, <1>6 DEF Inv, Places
  <2> QED
    BY <1>1, <1>4, <2>1, <2>2 DEF Inv, Places, Distinct
<1>11. Counts' /\ Order' /\ Phases'
  BY <1>1, <1>3, <1>6, <1>7 DEF Inv, Counts, Order, Phases
<1>12. ~Trouble' => ~Trouble
  BY <1>1, <1>4 DEF Trouble
<1>13. Well'
  BY <1>1, <1>4, <1>6, <1>7, <1>8, <1>12 DEF Inv, Well
<1>14. Follows'
  <2>1. \A i \in DOMAIN tasks : After(tasks[i])'
    BY <1>1 DEF Inv, Follows, After
  <2>2. ASSUME NEW v \in Worker
        PROVE  After(running[v])'
    <3>1. CASE v = w
      <4>1. running'[v].item \notin Pref
        BY <1>4, <3>1, ItemsAssumption DEF NoTask
      <4> QED
        BY <4>1 DEF After
    <3>2. CASE v # w
      <4>1. running'[v] = running[v] /\ After(running[v])
        BY <1>4, <3>2 DEF Inv, Follows
      <4> QED
        BY <1>1, <4>1 DEF After
    <3> QED
      BY <3>1, <3>2
  <2>3. PackagesFollow'
    <3>1. <<p, t.remote.url>>[1] = p /\ <<p, t.remote.url>>[2] = t.remote.url
      OBVIOUS
    <3>2. <<p[1], t.remote.url>> \in uploaded
      BY <1>1, <1>5 DEF After, p
    <3> QED
      BY <1>1, <3>1, <3>2 DEF Inv, Follows, PackagesFollow
  <2> QED
    BY <1>1, <2>1, <2>2, <2>3 DEF Follows
<1> QED
  BY <1>9, <1>10, <1>11, <1>13, <1>14 DEF Inv

\* What fails is known: of a recipe at once, of a package in the result.
LEMMA FailInv ==
  ASSUME Inv, NEW w \in Worker, Fail(w)
  PROVE  Inv'
<1> DEFINE x == running[w].item
<1>1. /\ running[w] # NoTask /\ Ended(w, TRUE) /\ failures' = failures + 1
      /\ errors' = IF x \in Ref THEN errors \cup {x} ELSE errors
      /\ UNCHANGED <<upload, tasks, jobs, handler, uploaded, hooks>>
  BY DEF Fail
<1>2. /\ x \in Item /\ x \in Busy /\ x \in Pending /\ x \notin Items(tasks) /\ x \notin Items(results)
      /\ upload.phase \notin {"none", "done"}
  BY <1>1, Running
<1>3. /\ running' = [v \in Worker |-> running'[v]]
      /\ \A v \in Worker : running'[v] = IF v = w THEN NoTask ELSE running[v]
      /\ results' \in Seq([item : Item, failed : BOOLEAN])
      /\ Busy' = Busy \ {x} /\ Items(results)' = Items(results) \cup {x}
      /\ Distinct(results')
      /\ \E i \in DOMAIN results' : results'[i] = [item |-> x, failed |-> TRUE]
  BY <1>1, EndedEffect
<1> HIDE DEF x
<1>4. Items(tasks)' = Items(tasks) /\ Pending' = Pending
  <2>1. Items(tasks)' = Items(tasks)
    BY <1>1 DEF Items
  <2> QED
    BY <1>2, <1>3, <2>1 DEF Pending
<1>5. Grouped' = Grouped /\ Waiting' \subseteq Waiting /\ \A j : Outstanding(j)' = Outstanding(j)
  <2>1. Grouped' = Grouped
    BY <1>1 DEF Grouped
  <2> QED
    BY <1>1, <1>3, <1>4, <2>1 DEF Waiting, Outstanding
<1>6. Shape'
  <2>1. \A v \in Worker : running'[v] = NoTask \/ IsTask(running'[v])
    BY <1>3 DEF Inv, Shape
  <2>2. errors' \subseteq Item /\ failures' \in Nat
    BY <1>1, <1>2 DEF Inv, Shape
  <2> QED
    BY <1>1, <1>3, <2>1, <2>2 DEF Inv, Shape
<1>7. Places'
  <2>1. \A u, v \in Worker : running'[u].item = running'[v].item /\ running'[u].item # None => u = v
    BY <1>3 DEF Inv, Places, NoTask
  <2>2. Items(tasks)' \cap Busy' = {} /\ Items(tasks)' \cap Items(results)' = {} /\ Busy' \cap Items(results)' = {}
    BY <1>2, <1>3, <1>4 DEF Inv, Places
  <2> QED
    BY <1>1, <1>3, <2>1, <2>2 DEF Inv, Places, Distinct
<1>8. Counts' /\ Order' /\ Phases'
  BY <1>1, <1>2, <1>4, <1>5 DEF Inv, Counts, Order, Phases
<1>9. Trouble'
  <2>1. CASE x \in Ref
    BY <1>1, <2>1 DEF Trouble
  <2>2. CASE x \in Pref
    BY <1>3, <2>2 DEF Trouble
  <2> QED
    BY <1>2, <2>1, <2>2 DEF Item
<1>10. Follows'
  <2>1. ASSUME NEW v \in Worker
        PROVE  After(running[v])'
    <3>1. CASE v = w
      <4>1. running'[v].item \notin Pref
        BY <1>3, <3>1, ItemsAssumption DEF NoTask
      <4> QED
        BY <4>1 DEF After
    <3>2. CASE v # w
      <4>1. running'[v] = running[v] /\ After(running[v])
        BY <1>3, <3>2 DEF Inv, Follows
      <4> QED
        BY <1>1, <4>1 DEF After
    <3> QED
      BY <3>1, <3>2
  <2>2. \A i \in DOMAIN tasks : After(tasks[i])'
    BY <1>1 DEF Inv, Follows, After
  <2> QED
    BY <1>1, <2>1, <2>2 DEF Inv, Follows, PackagesFollow
<1> QED
  BY <1>6, <1>7, <1>8, <1>9, <1>10 DEF Inv, Well

-----------------------------------------------------------------------------
(* The thread that handles the results.                                    *)

\* A result that is handled is counted, and is no longer pending.
LEMMA ResultEffect ==
  ASSUME Inv, results # <<>>, results' = Tail(results), UNCHANGED <<tasks, running>>,
         NEW x, x = Result.item, NEW j, j = ResultJob
  PROVE  /\ x \in Item /\ x \in Pending /\ j \in Job /\ jobs[j].open
         /\ Result = results[1] /\ 1 \in DOMAIN results
         /\ \A i \in DOMAIN results : i # 1 => i - 1 \in DOMAIN results' /\ results'[i - 1] = results[i]
         /\ x \in Pref <=> j \in Ref
         /\ results' \in Seq([item : Item, failed : BOOLEAN]) /\ Distinct(results')
         /\ Items(results)' \subseteq Items(results) /\ Pending' = Pending \ {x}
         /\ \A k \in Job \ {j} : Outstanding(k)' = Outstanding(k)
         /\ Counted \in [open : BOOLEAN, left : Nat, failed : SUBSET Pref]
         /\ Counted.open /\ Counted.left = Cardinality(Outstanding(j)')
         /\ Counted.failed = IF Result.failed /\ x \in Pref THEN jobs[j].failed \cup {x} ELSE jobs[j].failed
<1> DEFINE R == [item : Item, failed : BOOLEAN]
<1>1. results \in Seq(R) /\ Distinct(results)
  BY DEF Inv, Shape, Places
<1> HIDE DEF R
<1>2. /\ Result = results[1] /\ 1 \in DOMAIN results
      /\ x \in Items(results) /\ Items(results) = {x} \cup Items(results')
      /\ Distinct(results') /\ x \notin Items(results')
  BY <1>1, TailQueue DEF Result
<1>3. /\ results' \in Seq(R)
      /\ \A i \in DOMAIN results : i # 1 => i - 1 \in DOMAIN results' /\ results'[i - 1] = results[i]
  BY <1>1, HeadTailProperties, LenProperties
<1>4. x \in Pending /\ x \in Item /\ j \in Job /\ jobs[j].open /\ j = JobOf(x)
  BY <1>2, PendingOpen DEF Inv, Pending, ResultJob
<1>5. x \in Pref <=> j \in Ref
  BY <1>4, ItemFacts DEF Item
<1>6. Items(results)' \subseteq Items(results) /\ Pending' = Pending \ {x}
  <2>1. Items(tasks)' = Items(tasks) /\ Items(results)' = Items(results') /\ Busy' = Busy
    BY DEF Items, Busy
  <2>2. x \notin Items(tasks) /\ x \notin Busy
    BY <1>2 DEF Inv, Places
  <2> QED
    BY <1>2, <2>1, <2>2 DEF Pending
<1>7. /\ Outstanding(j)' = Outstanding(j) \ {x} /\ x \in Outstanding(j)
      /\ \A k \in Job \ {j} : Outstanding(k)' = Outstanding(k)
  BY <1>4, <1>6 DEF Outstanding
<1>8. jobs[j] \in [open : BOOLEAN, left : Nat, failed : SUBSET Pref]
  BY <1>4 DEF Inv, Shape
<1>9. Cardinality(Outstanding(j)') = jobs[j].left - 1 /\ jobs[j].left - 1 \in Nat
  <2>1. IsFiniteSet(Outstanding(j)) /\ jobs[j].left = Cardinality(Outstanding(j))
    BY <1>4, PendingItems DEF Inv, Counts
  <2>2. Cardinality(Outstanding(j) \ {x}) = Cardinality(Outstanding(j)) - 1
    BY <1>7, <2>1, FS_RemoveElement
  <2>3. Cardinality(Outstanding(j) \ {x}) \in Nat
    BY <2>1, FS_Subset, FS_CardinalityType
  <2> QED
    BY <1>7, <2>1, <2>2, <2>3
<1>10. Counted = [jobs[j] EXCEPT !.left = @ - 1,
                    !.failed = IF Result.failed /\ x \in Pref THEN @ \cup {x} ELSE @]
  BY DEF Counted
<1>11. /\ Counted \in [open : BOOLEAN, left : Nat, failed : SUBSET Pref]
       /\ Counted.open /\ Counted.left = jobs[j].left - 1
       /\ Counted.failed = IF Result.failed /\ x \in Pref THEN jobs[j].failed \cup {x} ELSE jobs[j].failed
  BY <1>4, <1>8, <1>9, <1>10
<1>12. results' \in Seq([item : Item, failed : BOOLEAN])
  BY <1>3 DEF R
<1>13. Counted.left = Cardinality(Outstanding(j)')
  BY <1>9, <1>11
<1> QED
  BY <1>2, <1>3, <1>4, <1>5, <1>6, <1>7, <1>11, <1>12, <1>13

\* What a result leaves as it was, when its job becomes what new is.
LEMMA ResultKeeps ==
  ASSUME Inv, results # <<>>, results' = Tail(results), NEW new, jobs' = [jobs EXCEPT ![ResultJob] = new],
         new = Counted \/ (Counted.left = 0 /\ new = NoJob),
         UNCHANGED <<upload, tasks, running, uploaded>>
  PROVE  /\ Places' /\ Counts' /\ Order' /\ Follows' /\ Waiting' = Waiting
         /\ jobs' \in [Job -> [open : BOOLEAN, left : Nat, failed : SUBSET Pref]]
         /\ upload.phase \notin {"none", "done"}
<1>1. PICK x, j : x = Result.item /\ j = ResultJob
  OBVIOUS
<1>2. /\ x \in Pending /\ j \in Job /\ jobs[j].open
      /\ Distinct(results') /\ Items(results)' \subseteq Items(results) /\ Pending' = Pending \ {x}
      /\ \A k \in Job \ {j} : Outstanding(k)' = Outstanding(k)
      /\ Counted \in [open : BOOLEAN, left : Nat, failed : SUBSET Pref]
      /\ Counted.open /\ Counted.left = Cardinality(Outstanding(j)')
  BY <1>1, ResultEffect
<1>3. new \in [open : BOOLEAN, left : Nat, failed : SUBSET Pref]
  <2>1. NoJob \in [open : BOOLEAN, left : Nat, failed : SUBSET Pref]
    BY DEF NoJob
  <2> QED
    BY <1>2, <2>1
<1>4. /\ jobs' \in [Job -> [open : BOOLEAN, left : Nat, failed : SUBSET Pref]]
      /\ jobs'[j] = new /\ \A k \in Job \ {j} : jobs'[k] = jobs[k]
  BY <1>1, <1>2, <1>3 DEF Inv, Shape
<1>5. Items(tasks)' = Items(tasks) /\ Busy' = Busy
  BY DEF Items, Busy
<1>6. Waiting' = Waiting /\ Grouped' = Grouped
  BY <1>5 DEF Waiting, Grouped
<1>7. Places'
  BY <1>2, <1>5 DEF Inv, Places, Distinct
<1>8. Counts'
  <2>1. /\ new.left = Cardinality(Outstanding(j)')
        /\ new.left > 0 \/ new.failed # {} => new.open
    BY <1>2 DEF NoJob
  <2> QED
    BY <1>2, <1>4, <2>1 DEF Inv, Counts
<1>9. Order'
  <2>1. Waiting \subseteq Ref
    BY DEF Waiting, Grouped, Inv, Shape
  <2>2. \A r \in Waiting : ~jobs'[r].open
    BY <1>2, <1>4, <2>1 DEF Inv, Order, Job
  <2> QED
    BY <1>2, <1>6, <2>2 DEF Inv, Order
<1>10. Follows'
  BY DEF Inv, Follows, After, PackagesFollow
<1> QED
  BY <1>2, <1>4, <1>6, <1>7, <1>8, <1>9, <1>10, WorkersBusy

LEMMA HandleResultInv ==
  ASSUME Inv, HandleResult
  PROVE  Inv'
<1> DEFINE new == IF Counted.left = 0 THEN NoJob ELSE Counted
<1>1. /\ handler /\ results # <<>> /\ results' = Tail(results)
      /\ jobs' = [jobs EXCEPT ![ResultJob] = new]
      /\ UNCHANGED <<upload, tasks, running, handler, uploaded, failures>>
  BY DEF HandleResult
<1>2. PICK x, j : x = Result.item /\ j = ResultJob
  OBVIOUS
<1>3. /\ j \in Job /\ jobs[j].open /\ (x \in Pref <=> j \in Ref)
      /\ Result = results[1] /\ 1 \in DOMAIN results
      /\ \A i \in DOMAIN results : i # 1 => i - 1 \in DOMAIN results' /\ results'[i - 1] = results[i]
      /\ results' \in Seq([item : Item, failed : BOOLEAN])
      /\ Counted \in [open : BOOLEAN, left : Nat, failed : SUBSET Pref] /\ Counted.open
      /\ Counted.failed = IF Result.failed /\ x \in Pref THEN jobs[j].failed \cup {x} ELSE jobs[j].failed
  BY <1>1, <1>2, ResultEffect
<1>4. /\ Places' /\ Counts' /\ Order' /\ Follows' /\ Waiting' = Waiting
      /\ jobs' \in [Job -> [open : BOOLEAN, left : Nat, failed : SUBSET Pref]]
      /\ upload.phase \notin {"none", "done"}
  BY <1>1, ResultKeeps
<1>5. jobs'[j] = new /\ \A k \in Job \ {j} : jobs'[k] = jobs[k]
  BY <1>1, <1>2, <1>3 DEF Inv, Shape
<1>6. IF Counted.left = 0 /\ j \in Ref
      THEN errors' = errors \cup Counted.failed
           /\ hooks' = IF Counted.failed = {} THEN hooks \cup {j} ELSE hooks
      ELSE errors' = errors /\ hooks' = hooks
  BY <1>2 DEF HandleResult, Called
<1>7. Shape'
  <2>1. errors' \subseteq Item /\ hooks' \subseteq Ref
    <3>1. Counted.failed \subseteq Item
      BY <1>3 DEF Item
    <3>2. errors \subseteq Item /\ hooks \subseteq Ref
      BY DEF Inv, Shape
    <3> QED
      BY <1>6, <3>1, <3>2
  <2> QED
    BY <1>1, <1>3, <1>4, <2>1 DEF Inv, Shape
<1>8. Phases'
  BY <1>1, <1>4 DEF Inv, Phases
<1>9. j \in Ref /\ Counted.failed # {} => Trouble'
  <2>1. CASE Counted.left = 0
    BY <1>6, <2>1 DEF Trouble
  <2>2. CASE Counted.left # 0
    BY <1>5, <2>2 DEF Trouble
  <2> QED
    BY <2>1, <2>2
<1>10. ~Trouble' => ~Trouble
  <2> SUFFICES ASSUME ~Trouble'
               PROVE  ~Trouble
    OBVIOUS
  <2>1. errors = {} /\ handler
    BY <1>1, <1>6 DEF Trouble
  <2>2. ASSUME NEW r \in Ref
        PROVE  jobs[r].failed = {}
    <3>1. r \in Job
      BY DEF Job
    <3>2. CASE r = j
      BY <1>3, <1>9, <3>2
    <3>3. CASE r # j
      BY <1>5, <3>1, <3>3 DEF Trouble
    <3> QED
      BY <3>2, <3>3
  <2>3. ASSUME NEW i \in DOMAIN results, results[i].failed, results[i].item \in Pref
        PROVE  FALSE
    <3>1. CASE i = 1
      BY <1>2, <1>3, <1>9, <2>3, <3>1
    <3>2. CASE i # 1
      BY <1>3, <2>3, <3>2 DEF Trouble
    <3> QED
      BY <3>1, <3>2
  <2> QED
    BY <2>1, <2>2, <2>3 DEF Trouble
<1>11. Well'
  <2>1. Items(tasks)' = Items(tasks) /\ Busy' = Busy /\ Sending' = Sending
    BY <1>1 DEF Items, Busy, Sending
  <2> SUFFICES ASSUME ~Trouble', NEW r \in Ref \ Waiting'
               PROVE  /\ r \in Sending /\ (r \in hooks' \/ jobs'[r].open)
                      /\ PackagesIn(r) \subseteq Items(tasks) \cup Busy \cup Sending
    BY <1>1, <1>4, <1>10, <2>1 DEF Inv, Well
  <2>2. /\ r \in Sending /\ (r \in hooks \/ jobs[r].open)
        /\ PackagesIn(r) \subseteq Items(tasks) \cup Busy \cup Sending
    BY <1>4, <1>10 DEF Inv, Well
  <2>3. CASE r = j
    <3>1. r \in hooks' \/ jobs'[r].open
      BY <1>3, <1>5, <1>6, <1>9, <2>3
    <3> QED
      BY <2>2, <3>1
  <2>4. CASE r # j
    <3>1. jobs'[r] = jobs[r] /\ hooks \subseteq hooks'
      BY <1>5, <1>6, <2>4 DEF Job
    <3> QED
      BY <2>2, <3>1
  <2> QED
    BY <2>3, <2>4
<1> QED
  BY <1>4, <1>7, <1>8, <1>11 DEF Inv

\* A job whose callback fails stays open for ever.
LEMMA FailCallbackInv ==
  ASSUME Inv, FailCallback
  PROVE  Inv'
<1>1. /\ handler /\ results # <<>> /\ results' = Tail(results)
      /\ ResultJob \in Ref /\ handler' = FALSE /\ failures' = failures + 1
      /\ jobs' = [jobs EXCEPT ![ResultJob] = Counted]
      /\ UNCHANGED <<upload, tasks, running, errors, uploaded, hooks>>
  BY DEF FailCallback
<1>2. PICK x, j : x = Result.item /\ j = ResultJob
  OBVIOUS
<1>3. j \in Job /\ Counted.open /\ results' \in Seq([item : Item, failed : BOOLEAN])
  BY <1>1, <1>2, ResultEffect
<1>4. /\ Places' /\ Counts' /\ Order' /\ Follows' /\ Waiting' = Waiting
      /\ jobs' \in [Job -> [open : BOOLEAN, left : Nat, failed : SUBSET Pref]]
      /\ upload.phase \notin {"none", "done"}
  BY <1>1, ResultKeeps
<1>5. Shape'
  <2>1. failures' \in Nat /\ handler' \in BOOLEAN
    <3>1. failures \in Nat
      BY DEF Inv, Shape
    <3>2. failures' \in Nat
      BY <1>1, <3>1
    <3>3. handler' \in BOOLEAN
      BY <1>1
    <3> QED
      BY <3>2, <3>3
  <2>2. UNCHANGED <<upload, tasks, running, errors, uploaded, hooks>>
    BY <1>1
  <2> QED
    BY <1>3, <1>4, <2>1, <2>2 DEF Inv, Shape
<1>6. jobs'[j].open
  BY <1>1, <1>2, <1>3 DEF Inv, Shape
<1>7. Phases'
  BY <1>1, <1>2, <1>4, <1>6 DEF Inv, Phases
<1>8. Well'
  BY <1>1 DEF Well, Trouble
<1> QED
  BY <1>4, <1>5, <1>7, <1>8 DEF Inv

-----------------------------------------------------------------------------
\* Every step keeps the invariant.
LEMMA NextInv ==
  ASSUME Inv, [Next]_vars
  PROVE  Inv'
<1>1. CASE RemoteCommand
  BY <1>1, StutterInv DEF RemoteCommand
<1>2. ASSUME NEW n \in Name \cup {None},
             StartUpload(n, Worker) \/ StartUpload(n, {CHOOSE w \in Worker : TRUE})
      PROVE  Inv'
  BY <1>2, StartUploadInv
<1>3. CASE UploadCommand
  BY <1>3, CollectInv, MapGroupInv, ClosePoolInv, JoinPoolInv DEF UploadCommand
<1>4. ASSUME NEW w \in Worker, UploadThread(w)
      PROVE  Inv'
  BY <1>4, TakeInv, UploadRecipeInv, UploadPackageInv, FailInv DEF UploadThread
<1>5. CASE HandleResult
  BY <1>5, HandleResultInv
<1>6. CASE FailCallback
  BY <1>6, FailCallbackInv
<1>7. CASE UNCHANGED vars
  BY <1>7, StutterInv DEF vars
<1> QED
  BY <1>1, <1>2, <1>3, <1>4, <1>5, <1>6, <1>7 DEF Next

\* The invariant gives what an upload that ends well promises.
LEMMA DoneIsComplete == Inv => OkMeansUploaded
<1> SUFFICES ASSUME Inv, upload.phase = "done"
             PROVE  Sending = Item /\ hooks = Ref /\ failures = 0
  BY DEF OkMeansUploaded, Sending
<1>1. upload.todo = {} /\ upload.groups = {} /\ errors = {} /\ \A j \in Job : ~jobs[j].open
  BY DEF Inv, Phases
<1>2. Pending = {}
  BY WorkersBusy
<1>3. Waiting = {}
  BY <1>1, <1>2 DEF Waiting, Grouped, Pending
<1>4. ~Trouble
  <2>1. handler
    BY <1>1 DEF Inv, Phases, Job
  <2>2. \A r \in Ref : jobs[r].failed = {}
    BY <1>1 DEF Inv, Counts, Job
  <2>3. DOMAIN results = {}
    BY <1>2 DEF Pending, Items
  <2> QED
    BY <1>1, <2>1, <2>2, <2>3 DEF Trouble
<1>5. /\ failures = 0
      /\ \A r \in Ref : /\ r \in Sending /\ r \in hooks
                        /\ PackagesIn(r) \subseteq Sending
  <2>1. Items(tasks) = {} /\ Busy = {}
    BY <1>2 DEF Pending
  <2> QED
    BY <1>1, <1>3, <1>4, <2>1 DEF Inv, Well, Job
<1>6. hooks \subseteq Ref /\ Sending \subseteq Item
  BY DEF Inv, Shape, Sending
<1>7. Pref \subseteq Sending
  BY <1>5, ItemFacts DEF PackagesIn
<1> QED
  BY <1>5, <1>6, <1>7 DEF Item

\* The invariant holds in every state that an upload reaches.
LEMMA PoolInv == Spec => []Inv
  BY InitInv, NextInv, PTL DEF Spec

\* However many recipes, packages, threads and failures there are: an upload
\* that reports no error (CmdUpload.upload, uploader.py) has sent every recipe
\* and package, called post_upload for each recipe, and nothing has failed.
THEOREM SuccessIsComplete == Spec => []OkMeansUploaded
  BY PoolInv, DoneIsComplete, PTL

\* However the threads of the pool interleave, a package is sent after its
\* recipe and to the server that the recipe was sent to (_upload_recipe,
\* uploader.py), even when the remotes change meanwhile.
THEOREM PackagesAfterRecipes == Spec => []PackagesFollow
<1>1. Inv => PackagesFollow
  BY DEF Inv, Follows
<1> QED
  BY <1>1, PoolInv, PTL

-----------------------------------------------------------------------------
(* The registry of remotes.                                                *)

\* Two numbers of a finite set have a different number of others below them.
LEMMA RanksDiffer ==
  ASSUME NEW K \in SUBSET Nat, IsFiniteSet(K), NEW k \in K, NEW l \in K,
         Cardinality({j \in K : j <= k}) = Cardinality({j \in K : j <= l})
  PROVE  k = l
<1> DEFINE Below(i) == {j \in K : j <= i}
<1>1. ASSUME NEW a \in K, NEW b \in K, a < b
      PROVE  Cardinality(Below(a)) # Cardinality(Below(b))
  <2>1. Below(a) \subseteq Below(b) /\ b \in Below(b) /\ b \notin Below(a)
    <3>1. a \in Nat /\ b \in Nat /\ \A j \in K : j \in Nat
      OBVIOUS
    <3>2. /\ \A j \in K : j <= a => j <= b
          /\ b <= b /\ ~(b <= a)
      BY <1>1, <3>1
    <3> QED
      BY <3>2, Zenon
  <2>2. Below(b) \in SUBSET K
    OBVIOUS
  <2> HIDE DEF Below
  <2>3. IsFiniteSet(Below(b))
    BY <2>2, FS_Subset
  <2> QED
    BY <2>1, <2>3, FS_Subset
<1>2. k \in Nat /\ l \in Nat /\ (k < l \/ l < k \/ k = l)
  OBVIOUS
<1> QED
  BY <1>1, <1>2

\* The i-th of a finite set of numbers is there.
LEMMA Ranked ==
  ASSUME NEW K \in SUBSET Nat, IsFiniteSet(K), NEW i \in 1..Cardinality(K)
  PROVE  \E k \in K : Cardinality({j \in K : j <= k}) = i
<1> DEFINE Below(k) == {j \in K : j <= k}
           rank == [k \in K |-> Cardinality(Below(k))]
           n == Cardinality(K)
<1>1. n \in Nat /\ IsFiniteSet(1..n) /\ Cardinality(1..n) = n
  BY FS_CardinalityType, FS_Interval
<1>2. ASSUME NEW k \in K
      PROVE  IsFiniteSet(Below(k)) /\ Cardinality(Below(k)) \in 1..n
  <2>1. IsFiniteSet(Below(k)) /\ Cardinality(Below(k)) <= n
    BY FS_Subset
  <2>2. k \in Below(k) /\ Cardinality(Below(k)) \in Nat
    BY <2>1, FS_CardinalityType
  <2>3. Cardinality(Below(k)) # 0
    BY <2>1, <2>2, FS_EmptySet
  <2> QED
    BY <1>1, <2>1, <2>2, <2>3
<1>4. rank \in Injection(K, 1..n)
  <2>1. rank \in [K -> 1..n]
    BY <1>2
  <2>2. ASSUME NEW k \in K, NEW l \in K, rank[k] = rank[l]
        PROVE  k = l
    BY <2>2, RanksDiffer
  <2> HIDE DEF Below
  <2> QED
    BY <2>1, <2>2 DEF Injection, IsInjective
<1>5. rank \in Surjection(K, 1..n)
  BY <1>1, <1>4, FS_Injection
<1>6. PICK k \in K : rank[k] = i
  BY <1>5 DEF Surjection
<1> QED
  BY <1>6 DEF Below

\* What is left of the remotes, when some are taken out.
LEMMA WithoutNames ==
  ASSUME NEW s \in Seq(Remote), NEW ns, NEW us
  PROVE  /\ Without(s, ns, us) \in Seq(Remote)
         /\ Names(Without(s, ns, us)) =
              {s[i].name : i \in {j \in DOMAIN s : s[j].name \notin ns /\ s[j].url \notin us}}
<1> DEFINE K == {j \in DOMAIN s : s[j].name \notin ns /\ s[j].url \notin us}
           Nth(k) == CHOOSE i \in K : Cardinality({j \in K : j <= i}) = k
           t == [k \in 1..Cardinality(K) |-> s[Nth(k)]]
<1>1. /\ Len(s) \in Nat /\ DOMAIN s = 1..Len(s) /\ \A i \in DOMAIN s : s[i] \in Remote
  BY LenProperties, ElementOfSeq
<1>2. K \in SUBSET Nat /\ IsFiniteSet(K) /\ Cardinality(K) \in Nat
  <2>1. K \in SUBSET (1..Len(s)) /\ IsFiniteSet(1..Len(s))
    BY <1>1, FS_Interval
  <2> QED
    BY <2>1, FS_Subset, FS_CardinalityType
<1>3. Without(s, ns, us) = t
  BY DEF Without
<1>4. \A k \in 1..Cardinality(K) : Nth(k) \in K
  BY <1>2, Ranked
<1>5. \A j \in K : \E k \in 1..Cardinality(K) : Nth(k) = j
  <2> SUFFICES ASSUME NEW j \in K PROVE \E k \in 1..Cardinality(K) : Nth(k) = j
    OBVIOUS
  <2> DEFINE Below(i) == {l \in K : l <= i}
             k == Cardinality(Below(j))
  <2>1. \A i \in K : /\ IsFiniteSet(Below(i)) /\ Cardinality(Below(i)) \in Nat
                     /\ Cardinality(Below(i)) <= Cardinality(K)
    BY <1>2, FS_Subset, FS_CardinalityType
  <2>2. j \in Below(j) /\ k # 0
    <3>1. j \in Below(j)
      BY <1>2
    <3> QED
      BY <2>1, <3>1, FS_EmptySet
  <2>3. k \in 1..Cardinality(K)
    <3>1. k \in Nat /\ k <= Cardinality(K)
      BY <2>1
    <3> HIDE DEF k, K
    <3> QED
      BY <1>2, <2>2, <3>1
  <2>4. ASSUME NEW i \in K, Cardinality(Below(i)) = k
        PROVE  i = j
    BY <1>2, <2>4, RanksDiffer
  <2>5. Nth(k) = j
    BY <2>4
  <2> QED
    BY <2>3, <2>5
<1> HIDE DEF Nth
<1>6. t \in [1..Cardinality(K) -> Remote]
  BY <1>1, <1>4
<1>7. t \in Seq(Remote) /\ DOMAIN t = 1..Cardinality(K)
  BY <1>2, <1>6, SeqDef
<1>8. Names(t) = {s[i].name : i \in K}
  <2>1. \A x \in Names(t) : x \in {s[i].name : i \in K}
    BY <1>4, <1>7 DEF Names
  <2>2. \A i \in K : s[i].name \in Names(t)
    BY <1>5, <1>7 DEF Names
  <2> QED
    BY <2>1, <2>2
<1> QED
  BY <1>3, <1>7, <1>8

\* A remote that is put in, wherever, is there.
LEMMA AddedNames ==
  ASSUME NEW s \in Seq(Remote), NEW remote \in Remote, NEW at \in Place
  PROVE  /\ AddUpdate(s, remote, at) \in Seq(Remote)
         /\ Names(AddUpdate(s, remote, at)) = Names(s) \cup {remote.name}
<1>1. /\ Len(s) \in Nat /\ DOMAIN s = 1..Len(s) /\ \A i \in DOMAIN s : s[i] \in Remote
  BY LenProperties, ElementOfSeq
<1>2. CASE at # None
  <2> DEFINE o == Without(s, {remote.name}, {})
             q == InsertAt(o, 1, remote)
  <2>1. o \in Seq(Remote) /\ Names(o) = Names(s) \ {remote.name}
    <3>1. Names(s) \ {remote.name} =
            {s[i].name : i \in {j \in DOMAIN s : s[j].name \notin {remote.name} /\ s[j].url \notin {}}}
      BY DEF Names
    <3> QED
      BY <3>1, WithoutNames
  <2> HIDE DEF o
  <2>2. Len(o) \in Nat /\ DOMAIN o = 1..Len(o) /\ \A i \in DOMAIN o : o[i] \in Remote
    BY <2>1, LenProperties, ElementOfSeq
  <2>3. AddUpdate(s, remote, at) = q
    <3>1. at = 0
      BY <1>2 DEF Place
    <3>2. Min({0, Len(o)}) = 0
      BY <2>2 DEF Min
    <3> QED
      BY <1>2, <3>1, <3>2 DEF AddUpdate, o
  <2>4. q = <<remote>> \o o
    <3>1. SubSeq(o, 1, 0) = <<>> /\ SubSeq(o, 1, Len(o)) = o
      BY <2>1, SubSeqEmpty, SubSeqFull
    <3>2. q = (<<>> \o <<remote>>) \o o
      BY <3>1 DEF InsertAt
    <3> QED
      BY <3>2
  <2>5. q \in Seq(Remote) /\ Len(q) = Len(o) + 1 /\ DOMAIN q = 1..Len(o) + 1
        /\ q[1] = remote /\ \A i \in 1..Len(o) : q[i + 1] = o[i]
    <3> HIDE DEF q
    <3> QED
      BY <2>1, <2>2, <2>4
  <2> HIDE DEF q
  <2>6. Names(q) = Names(o) \cup {remote.name}
    <3>1. \A i \in DOMAIN q : i = 1 \/ (i - 1 \in DOMAIN o /\ q[i] = o[i - 1])
      BY <2>2, <2>5
    <3>2. \A i \in DOMAIN o : i + 1 \in DOMAIN q /\ q[i + 1] = o[i]
      BY <2>2, <2>5
    <3>3. 1 \in DOMAIN q /\ q[1] = remote
      BY <2>2, <2>5
    <3> QED
      BY <3>1, <3>2, <3>3 DEF Names
  <2> QED
    BY <2>1, <2>3, <2>5, <2>6
<1>3. CASE at = None /\ remote.name \in Names(s)
  <2> DEFINE q == [i \in DOMAIN s |-> IF s[i].name = remote.name THEN remote ELSE s[i]]
  <2>1. AddUpdate(s, remote, at) = q
    BY <1>3 DEF AddUpdate
  <2>2. q \in [1..Len(s) -> Remote]
    BY <1>1
  <2>3. q \in Seq(Remote)
    BY <1>1, <2>2, SeqDef
  <2>4. DOMAIN q = DOMAIN s /\ \A i \in DOMAIN s : q[i].name = s[i].name
    OBVIOUS
  <2>5. Names(q) = Names(s)
    BY <2>4 DEF Names
  <2> QED
    BY <1>3, <2>1, <2>3, <2>5
<1>4. CASE at = None /\ remote.name \notin Names(s)
  <2> DEFINE q == Append(s, remote)
  <2>1. AddUpdate(s, remote, at) = q
    BY <1>4 DEF AddUpdate
  <2>2. /\ q \in Seq(Remote) /\ DOMAIN q = 1..Len(s) + 1
        /\ q[Len(s) + 1] = remote /\ \A i \in 1..Len(s) : q[i] = s[i]
    BY <1>1, AppendProperties, LenProperties
  <2> HIDE DEF q
  <2>3. \A i \in DOMAIN q : (i = Len(s) + 1 /\ q[i] = remote) \/ (i \in DOMAIN s /\ q[i] = s[i])
    BY <1>1, <2>2
  <2>4. Names(q) = Names(s) \cup {remote.name}
    BY <1>1, <2>2, <2>3 DEF Names
  <2> QED
    BY <2>1, <2>2, <2>4
<1> QED
  BY <1>2, <1>3, <1>4

-----------------------------------------------------------------------------
(* The names in the metadata, while nothing has lapsed.                    *)

NameOrNone == Name \cup {None}

\* What a rewriting command makes of a name is a name that it leaves as it is,
\* and that is in the file it saves, if it saves one.
IsRewrite(c) ==
  /\ c \in [kind : {"rewrite"}, loaded : Seq(Remote), file : Seq(Remote), saves : BOOLEAN,
            map : [NameOrNone -> NameOrNone], todo : SUBSET Ref]
  /\ c.map[None] = None /\ \A n \in NameOrNone : c.map[c.map[n]] = c.map[n]
  /\ c.saves => \A n \in NameOrNone : c.map[n] # n \/ n \in Names(c.loaded)
                                        => c.map[n] \in Names(c.file) \cup {None}

IsNaming(c) ==
  c \in [kind : {"name"}, pref : Ref \cup Pref, name : NameOrNone]

Registers ==
  /\ registry \in Seq(Remote)
  /\ recipes \in [Ref -> NameOrNone] /\ packages \in [Pref -> NameOrNone]
  /\ command = [a \in Admin |-> command[a]]
  /\ \A a \in Admin : command[a] = Idle \/ IsRewrite(command[a]) \/ IsNaming(command[a])

\* No command that is done with the reference would change the name, ...
Unmoved(r, n) ==
  \A b \in Admin : command[b].kind = "rewrite" /\ r \notin command[b].todo => command[b].map[n] = n

\* ... which is registered, or about to be, or about to be changed.
Expected(r, n) ==
  \/ n \in Names(registry) \cup {None}
  \/ \E b \in Admin :
       /\ command[b].kind = "rewrite"
       /\ IF command[b].saves THEN r \notin command[b].todo /\ n \in Names(command[b].file)
          ELSE r \in command[b].todo /\ command[b].map[n] # n

Fine(r, n) == Unmoved(r, n) /\ Expected(r, n)
Traced == \A r \in Ref : \A n \in Named(r) : Fine(r, n)

NamesInv == lapses = {} => Registers /\ Traced

LEMMA Kinds ==
  ASSUME Registers, NEW a \in Admin
  PROVE  /\ command[a] = Idle => command[a].kind = "idle"
         /\ command[a].kind = "rewrite" => IsRewrite(command[a])
         /\ command[a].kind = "name" => IsNaming(command[a])
BY DEF Registers, Idle, IsRewrite, IsNaming

LEMMA NamesOK ==
  ASSUME NEW s \in Seq(Remote)
  PROVE  Names(s) \subseteq Name /\ IsFiniteSet(Names(s))
<1>1. /\ Len(s) \in Nat /\ DOMAIN s = 1..Len(s) /\ \A i \in DOMAIN s : s[i] \in Remote
  BY LenProperties, ElementOfSeq
<1>2. Names(s) \subseteq Name
  BY <1>1 DEF Names, Remote
<1> QED
  BY <1>2, NoneAssumption, FS_Subset

LEMMA NamedOK ==
  ASSUME Registers, NEW r \in Ref, NEW n \in Named(r)
  PROVE  n \in NameOrNone
BY DEF Registers, Named, Pref

\* Names stay fine when remotes are added and no rewriting command does a step.
LEMMA FineStays ==
  ASSUME Registers, NEW r \in Ref, NEW n, Fine(r, n),
         Names(registry) \subseteq Names(registry'),
         \A b \in Admin : command'[b].kind = "rewrite" \/ command[b].kind = "rewrite"
                            => command'[b] = command[b]
  PROVE  Fine(r, n)'
BY DEF Fine, Unmoved, Expected

\* A name that was written, unless it overlapped with a command.
LEMMA WrittenFine ==
  ASSUME Registers, NEW a, a \notin Admin \/ command[a].kind # "rewrite", NEW r \in Ref, NEW n,
         Overlapped(a, r, {n}, Names(registry)) = {}
  PROVE  n \in NameOrNone /\ Fine(r, n)
<1>1. CASE n = None
  BY <1>1, Kinds DEF NameOrNone, Fine, Unmoved, Expected, IsRewrite
<1>2. CASE n # None
  <2>1. /\ n \in Names(registry)
        /\ \A b \in Admin \ {a} : command[b].kind = "rewrite" /\ r \notin command[b].todo
                                    => command[b].map[n] = n
    <3>1. n \in {n} \ {None}
      BY <1>2
    <3>2. lapses \cup {"overlap"} # {}
      OBVIOUS
    <3> QED
      BY <3>1, <3>2 DEF Overlapped
  <2>2. Unmoved(r, n)
    BY <2>1 DEF Unmoved
  <2>3. n \in Name
    BY <2>1, NamesOK DEF Registers
  <2> QED
    BY <2>1, <2>2, <2>3 DEF NameOrNone, Fine, Expected
<1> QED
  BY <1>1, <1>2

\* Steps by which no name is changed in the metadata, and no remote is lost.
LEMMA QuietNames ==
  ASSUME lapses = {}, Registers, Traced, Registers',
         UNCHANGED <<recipes, packages>>, Names(registry) \subseteq Names(registry'),
         \A b \in Admin : command'[b].kind = "rewrite" \/ command[b].kind = "rewrite"
                            => command'[b] = command[b]
  PROVE  Traced'
<1> SUFFICES ASSUME NEW r \in Ref, NEW n \in Named(r)'
             PROVE  Fine(r, n)'
  BY DEF Traced
<1>1. n \in Named(r)
  BY DEF Named
<1> QED
  BY <1>1, FineStays DEF Traced

LEMMA InitNames == Init => NamesInv
<1> SUFFICES ASSUME RemotesInit PROVE Registers /\ Traced
  BY DEF Init, NamesInv
<1>1. registry \in Seq(Remote)
  <2>1. PICK n \in 0..Cardinality(Name) : registry \in [1..n -> Remote]
    BY RegisteredAssumption DEF RemotesInit, Registry
  <2>2. n \in Nat
    BY NoneAssumption, FS_CardinalityType
  <2> QED
    BY <2>1, <2>2, SeqDef
<1>2. recipes \in [Ref -> NameOrNone]
  BY <1>1, NamesOK DEF RemotesInit, NameOrNone
<1>3. packages \in [Pref -> NameOrNone] /\ \A p \in Pref : p[1] \in Ref /\ packages[p] = recipes[p[1]]
  BY <1>2 DEF RemotesInit, Pref
<1>4. Registers
  BY <1>1, <1>2, <1>3 DEF Registers, RemotesInit
<1>5. ASSUME NEW r \in Ref, NEW n \in Named(r)
      PROVE  Fine(r, n)
  <2>1. n \in Names(registry) \cup {None}
    BY <1>3, <1>5 DEF Named, RemotesInit
  <2>2. \A b \in Admin : command[b].kind # "rewrite"
    BY DEF RemotesInit, Idle
  <2> QED
    BY <2>1, <2>2 DEF Fine, Unmoved, Expected
<1> QED
  BY <1>4, <1>5 DEF Traced
\* A command that begins.
LEMMA Beginning ==
  ASSUME Registers, NEW a \in Admin, NEW c, Begin(a, c),
         c = Idle \/ IsRewrite(c) \/ IsNaming(c)
  PROVE  /\ command' = [b \in Admin |-> command'[b]]
         /\ command[a] = Idle /\ command'[a] = c
         /\ \A b \in Admin \ {a} : command'[b] = command[b]
         /\ \A b \in Admin : command'[b] = Idle \/ IsRewrite(command'[b]) \/ IsNaming(command'[b])
BY DEF Registers, Begin

\* Remotes that are added, or changed in their place.
LEMMA AddNames ==
  ASSUME NamesInv, lapses' = {}, NEW a \in Admin, NEW remote \in Remote, NEW at \in Place,
         NEW otherwise, Add(a, remote, at, otherwise) \/ Update(a, remote, at, otherwise)
  PROVE  Registers' /\ Traced'
<1>1. /\ lapses = {} /\ Begin(a, Idle) /\ registry' = AddUpdate(registry, remote, at)
      /\ UNCHANGED <<recipes, packages>>
  BY DEF Add, Update, Save
<1>2. Registers /\ Traced
  BY <1>1 DEF NamesInv
<1>3. registry' \in Seq(Remote) /\ Names(registry) \subseteq Names(registry')
  BY <1>1, <1>2, AddedNames DEF Registers
<1>4. /\ command' = [b \in Admin |-> command'[b]]
      /\ command[a] = Idle /\ command'[a] = Idle /\ \A b \in Admin \ {a} : command'[b] = command[b]
      /\ \A b \in Admin : command'[b] = Idle \/ IsRewrite(command'[b]) \/ IsNaming(command'[b])
  BY <1>1, <1>2, Beginning
<1>5. Registers'
  BY <1>1, <1>2, <1>3, <1>4 DEF Registers
<1>6. \A b \in Admin : command'[b] = command[b]
  BY <1>4
<1> QED
  BY <1>1, <1>2, <1>3, <1>5, <1>6, QuietNames

LEMMA NamingNames ==
  ASSUME NamesInv, lapses' = {}, NEW a \in Admin, NEW p \in Ref \cup Pref,
         NEW n \in NameOrNone, NameRef(a, p, n)
  PROVE  Registers' /\ Traced'
<1>1. /\ lapses = {} /\ Begin(a, Naming(p, n)) /\ UNCHANGED <<registry, recipes, packages>>
  BY DEF NameRef, Loaded
<1>2. Registers /\ Traced
  BY <1>1 DEF NamesInv
<1>3. IsNaming(Naming(p, n)) /\ Naming(p, n).kind = "name" /\ Idle.kind = "idle"
  BY DEF IsNaming, Naming, Idle
<1>4. /\ command' = [b \in Admin |-> command'[b]]
      /\ command[a] = Idle /\ command'[a] = Naming(p, n)
      /\ \A b \in Admin \ {a} : command'[b] = command[b]
      /\ \A b \in Admin : command'[b] = Idle \/ IsRewrite(command'[b]) \/ IsNaming(command'[b])
  BY <1>1, <1>2, <1>3, Beginning
<1>5. Registers'
  BY <1>1, <1>2, <1>4 DEF Registers
<1>6. \A b \in Admin : command'[b].kind = "rewrite" \/ command[b].kind = "rewrite"
                         => command'[b] = command[b]
  BY <1>3, <1>4
<1> QED
  BY <1>1, <1>2, <1>5, <1>6, QuietNames

\* A command that rewrites the metadata begins: names are lost from the
\* registry only if it is about to change them.
LEMMA RewritingNames ==
  ASSUME lapses = {}, Registers, Traced, NEW a \in Admin, NEW c, Begin(a, c),
         IsRewrite(c), c.todo = Ref, UNCHANGED <<recipes, packages>>,
         registry' \in Seq(Remote),
         \A n \in Names(registry) \ Names(registry') : ~c.saves /\ c.map[n] # n
  PROVE  Registers' /\ Traced'
<1>1. /\ command' = [b \in Admin |-> command'[b]]
      /\ command[a] = Idle /\ command'[a] = c /\ \A b \in Admin \ {a} : command'[b] = command[b]
      /\ \A b \in Admin : command'[b] = Idle \/ IsRewrite(command'[b]) \/ IsNaming(command'[b])
  BY Beginning
<1>2. c.kind = "rewrite" /\ Idle.kind # "rewrite"
  BY DEF IsRewrite, Idle
<1>3. Registers'
  BY <1>1 DEF Registers
<1>4. ASSUME NEW r \in Ref, NEW n \in Named(r)'
      PROVE  Fine(r, n)'
  <2>1. Fine(r, n)
    BY DEF Named, Traced
  <2>2. Unmoved(r, n)'
    BY <1>1, <2>1 DEF Fine, Unmoved
  <2>3. CASE n \in Names(registry) \ Names(registry')
    <3>1. c.kind = "rewrite" /\ ~c.saves /\ r \in c.todo /\ c.map[n] # n
      BY <1>2, <2>3
    <3> QED
      BY <1>1, <2>2, <3>1 DEF Fine, Expected
  <2>4. CASE n \notin Names(registry) \ Names(registry')
    BY <1>1, <1>2, <2>1, <2>2, <2>4 DEF Fine, Expected
  <2> QED
    BY <2>3, <2>4
<1> QED
  BY <1>3, <1>4 DEF Traced

\* What conan remote remove, rename, clean and config install make of names.
Maps(c, ns, saves) ==
  /\ IsRewrite(c) /\ c.todo = Ref /\ c.saves = saves
  /\ \A n \in ns : c.map[n] # n

LEMMA Mapped ==
  ASSUME NEW ns \in SUBSET Name, NEW m \in NameOrNone \ ns,
         NEW loaded \in Seq(Remote), NEW file \in Seq(Remote), NEW saves \in BOOLEAN,
         saves = FALSE \/ ((m \in Names(file) \/ m = None) /\ Names(loaded) \ ns \subseteq Names(file))
  PROVE  Maps(Rewriting(loaded, file, saves, MapTo(ns, m)), ns, saves)
<1> DEFINE map == MapTo(ns, m)
           c == Rewriting(loaded, file, saves, map)
<1>1. /\ map \in [NameOrNone -> NameOrNone] /\ map[None] = None
      /\ \A n \in NameOrNone : map[n] = IF n \in ns THEN m ELSE n
  BY NoneAssumption DEF MapTo, NameOrNone
<1>2. \A n \in NameOrNone : map[map[n]] = map[n]
  BY <1>1
<1>3. \A n \in ns : map[n] # n
  BY <1>1 DEF NameOrNone
<1>4. /\ c.kind = "rewrite" /\ c.loaded = loaded /\ c.file = file /\ c.saves = saves
      /\ c.map = map /\ c.todo = Ref
  BY DEF Rewriting
<1>5. c \in [kind : {"rewrite"}, loaded : Seq(Remote), file : Seq(Remote), saves : BOOLEAN,
            map : [NameOrNone -> NameOrNone], todo : SUBSET Ref]
  BY <1>1 DEF Rewriting
<1>6. Names(loaded) \subseteq Name
  BY NamesOK
<1> HIDE DEF map, c
<1>7. c.saves => \A n \in NameOrNone : c.map[n] # n \/ n \in Names(c.loaded)
                                        => c.map[n] \in Names(c.file) \cup {None}
  BY <1>1, <1>4
<1>8. IsRewrite(c)
  BY <1>1, <1>2, <1>4, <1>5, <1>7 DEF IsRewrite
<1> QED
  BY <1>3, <1>4, <1>8 DEF map, c, Maps

\* One name is mapped, and the remotes are saved in the end, ...
LEMMA OneSaved ==
  ASSUME NEW n \in Name, NEW m \in NameOrNone, m # n,
         NEW loaded \in Seq(Remote), NEW file \in Seq(Remote),
         m \in Names(file) \/ m = None, Names(loaded) \ {n} \subseteq Names(file)
  PROVE  LET c == Rewriting(loaded, file, TRUE, MapTo({n}, m))
         IN  IsRewrite(c) /\ c.todo = Ref
<1> DEFINE ns == {n}
<1>1. ns \in SUBSET Name /\ m \in NameOrNone \ ns /\ Names(loaded) \ ns \subseteq Names(file)
  OBVIOUS
<1> HIDE DEF ns
<1>2. Maps(Rewriting(loaded, file, TRUE, MapTo(ns, m)), ns, TRUE)
  BY <1>1, Mapped
<1> QED
  BY <1>2 DEF ns, Maps

\* ... or were saved before.
LEMMA OneMapped ==
  ASSUME NEW n \in Name, NEW m \in NameOrNone, m # n, NEW loaded \in Seq(Remote)
  PROVE  LET c == Rewriting(loaded, <<>>, FALSE, MapTo({n}, m))
         IN  IsRewrite(c) /\ c.todo = Ref /\ ~c.saves /\ c.map[n] # n
<1> DEFINE ns == {n}
<1>1. ns \in SUBSET Name /\ m \in NameOrNone \ ns /\ n \in ns /\ <<>> \in Seq(Remote)
  OBVIOUS
<1> HIDE DEF ns
<1>2. Maps(Rewriting(loaded, <<>>, FALSE, MapTo(ns, m)), ns, FALSE)
  BY <1>1, Mapped
<1> QED
  BY <1>1, <1>2 DEF ns, Maps

LEMMA EmptyRemotes == <<>> \in Seq(Remote) /\ Names(<<>>) = {}
BY DEF Names

LEMMA OneRemote ==
  ASSUME NEW remote \in Remote
  PROVE  <<remote>> \in Seq(Remote)
OBVIOUS

LEMMA RemovingNames ==
  ASSUME NamesInv, lapses' = {}, NEW a \in Admin, NEW n \in Name, RemoveRemote(a, n)
  PROVE  Registers' /\ Traced'
<1> DEFINE file == Without(registry, {n}, {})
           c == Rewriting(registry, file, TRUE, MapTo({n}, None))
<1>1. lapses = {} /\ Registers /\ Traced
  BY DEF NamesInv, RemoveRemote, Loaded
<1>2. file \in Seq(Remote) /\ Names(registry) \ {n} \subseteq Names(file)
  <2>1. \A x \in Names(registry) \ {n} : x \in {registry[i].name : i \in {j \in DOMAIN registry :
            registry[j].name \notin {n} /\ registry[j].url \notin {}}}
    BY DEF Names
  <2> QED
    BY <1>1, <2>1, WithoutNames DEF Registers
<1> HIDE DEF file
<1>3. None \in NameOrNone /\ None # n /\ registry \in Seq(Remote)
  BY <1>1, NoneAssumption DEF NameOrNone, Registers
<1>4. IsRewrite(c) /\ c.todo = Ref
  BY <1>2, <1>3, OneSaved
<1>5. Begin(a, c) /\ UNCHANGED <<registry, recipes, packages>>
  BY DEF RemoveRemote, Loaded, file
<1> QED
  BY <1>1, <1>4, <1>5, RewritingNames DEF Registers

LEMMA RenamingNames ==
  ASSUME NamesInv, lapses' = {}, NEW a \in Admin, NEW n \in Name, NEW m \in Name, Rename(a, n, m)
  PROVE  Registers' /\ Traced'
<1> DEFINE file == Renamed(registry, n, m)
           c == Rewriting(registry, file, TRUE, MapTo({n}, m))
<1>1. lapses = {} /\ Registers /\ Traced /\ n \in Names(registry) /\ m \notin Names(registry)
  BY DEF NamesInv, Rename, Loaded
<1>2. /\ registry \in Seq(Remote) /\ Len(registry) \in Nat /\ DOMAIN registry = 1..Len(registry)
      /\ \A i \in DOMAIN registry : registry[i] \in Remote
  BY <1>1, LenProperties, ElementOfSeq DEF Registers
<1>3. file \in [1..Len(registry) -> Remote]
  BY <1>2 DEF Renamed, Remote
<1>4. file \in Seq(Remote)
  BY <1>2, <1>3, SeqDef
<1>5. /\ DOMAIN file = DOMAIN registry
      /\ \A i \in DOMAIN registry : file[i].name = IF registry[i].name = n THEN m ELSE registry[i].name
  BY <1>2 DEF Renamed, Remote
<1> HIDE DEF file
<1>6. m \in Names(file) /\ Names(registry) \ {n} \subseteq Names(file)
  BY <1>1, <1>5 DEF Names
<1>7. m \in NameOrNone /\ m # n
  BY <1>1 DEF NameOrNone
<1>8. IsRewrite(c) /\ c.todo = Ref
  BY <1>2, <1>4, <1>6, <1>7, OneSaved
<1>9. Begin(a, c) /\ UNCHANGED <<registry, recipes, packages>>
  BY DEF Rename, Loaded, file
<1> QED
  BY <1>1, <1>2, <1>8, <1>9, RewritingNames

LEMMA ClearingNames ==
  ASSUME NamesInv, lapses' = {}, NEW a \in Admin, Clear(a)
  PROVE  Registers' /\ Traced'
<1> DEFINE c == Rewriting(registry, <<>>, TRUE, MapTo(Name, None))
<1>1. lapses = {} /\ Registers /\ Traced
  BY DEF NamesInv, Clear, Loaded
<1>2. None \in NameOrNone \ Name
  BY NoneAssumption DEF NameOrNone
<1>3. Names(registry) \ Name = {}
  BY <1>1, NamesOK DEF Registers
<1>4. IsRewrite(c) /\ c.todo = Ref
  BY <1>1, <1>2, <1>3, EmptyRemotes, Mapped DEF Registers, Maps
<1>5. Begin(a, c) /\ UNCHANGED <<registry, recipes, packages>>
  BY DEF Clear, Loaded
<1> QED
  BY <1>1, <1>4, <1>5, RewritingNames DEF Registers

LEMMA DefiningNames ==
  ASSUME NamesInv, lapses' = {}, NEW a \in Admin, NEW remotes \in Seq(Remote), Define(a, remotes)
  PROVE  Registers' /\ Traced'
<1> DEFINE ns == Name \ Names(remotes)
           c == Rewriting(registry, remotes, TRUE, MapTo(ns, None))
<1>1. lapses = {} /\ Registers /\ Traced
  BY DEF NamesInv, Define, Loaded
<1>2. None \in NameOrNone \ ns /\ ns \in SUBSET Name
  BY NoneAssumption DEF NameOrNone
<1>3. Names(registry) \ ns \subseteq Names(remotes) /\ registry \in Seq(Remote)
  BY <1>1, NamesOK DEF Registers
<1>5. Begin(a, c) /\ UNCHANGED <<registry, recipes, packages>>
  BY DEF Define, Loaded
<1> HIDE DEF ns
<1>4. IsRewrite(c) /\ c.todo = Ref
  BY <1>2, <1>3, Mapped DEF Maps
<1> QED
  BY <1>1, <1>4, <1>5, RewritingNames DEF Registers

LEMMA ForcingNames ==
  ASSUME NamesInv, lapses' = {}, NEW a \in Admin, NEW remote \in Remote, NEW at \in Place,
         ForceAdd(a, remote, at)
  PROVE  Registers' /\ Traced'
<1> DEFINE same == SameUrl(registry, remote)
           others == Without(registry, {remote.name}, {remote.url})
           old == RenamedBy(registry, remote)
           c == Rewriting(registry, <<>>, FALSE, MapTo({old}, remote.name))
<1>1. /\ lapses = {} /\ ~(Cardinality(same) > 1)
      /\ registry' = AddUpdate(others, remote, at) /\ UNCHANGED <<recipes, packages>>
      /\ Begin(a, IF old = None THEN Idle ELSE c)
  BY DEF ForceAdd, Save, Upsert
<1>2. Registers /\ Traced
  BY <1>1 DEF NamesInv
<1>3. /\ registry \in Seq(Remote) /\ Len(registry) \in Nat /\ DOMAIN registry = 1..Len(registry)
      /\ \A i \in DOMAIN registry : registry[i] \in Remote
  BY <1>2, LenProperties, ElementOfSeq DEF Registers
<1>4. /\ registry' \in Seq(Remote) /\ remote.name \in Names(registry')
      /\ \A i \in DOMAIN registry : i \in same \/ registry[i].name \in Names(registry')
  <2>1. /\ others \in Seq(Remote)
        /\ Names(others) = {registry[i].name : i \in {j \in DOMAIN registry :
              registry[j].name \notin {remote.name} /\ registry[j].url \notin {remote.url}}}
    BY <1>3, WithoutNames
  <2> HIDE DEF others
  <2>2. registry' \in Seq(Remote) /\ Names(registry') = Names(others) \cup {remote.name}
    BY <1>1, <2>1, AddedNames
  <2> QED
    BY <2>1, <2>2 DEF SameUrl
<1>5. CASE same = {}
  <2>1. old = None
    BY <1>5 DEF RenamedBy
  <2>2. Names(registry) \subseteq Names(registry')
    BY <1>4, <1>5 DEF Names
  <2>3. /\ command' = [b \in Admin |-> command'[b]]
        /\ command[a] = Idle /\ command'[a] = Idle /\ \A b \in Admin \ {a} : command'[b] = command[b]
        /\ \A b \in Admin : command'[b] = Idle \/ IsRewrite(command'[b]) \/ IsNaming(command'[b])
    BY <1>1, <1>2, <2>1, Beginning
  <2>4. Registers'
    BY <1>1, <1>2, <1>4, <2>3 DEF Registers
  <2>5. \A b \in Admin : command'[b] = command[b]
    BY <2>3
  <2> QED
    BY <1>1, <1>2, <2>2, <2>4, <2>5, QuietNames
<1>6. CASE same # {}
  <2>1. PICK i \in DOMAIN registry : same = {i}
    <3>1. IsFiniteSet(same) /\ Cardinality(same) \in Nat /\ same \subseteq DOMAIN registry
      <4>1. same \in SUBSET (1..Len(registry)) /\ IsFiniteSet(1..Len(registry))
        BY <1>3, FS_Interval DEF SameUrl
      <4> QED
        BY <1>3, <4>1, FS_Subset, FS_CardinalityType
    <3>2. Cardinality(same) = 1
      BY <1>1, <1>6, <3>1, FS_EmptySet
    <3>3. PICK x : same = {x}
      BY <3>1, <3>2, FS_Singleton
    <3> QED
      BY <3>1, <3>3
  <2>2. i \in Nat /\ registry[i].name # remote.name /\ registry[i].name \in Name
    BY <1>3, <2>1 DEF SameUrl, Remote
  <2>3. old = registry[i].name
    <3>1. Max({i}) = i
      BY <2>2 DEF Max
    <3> QED
      BY <2>1, <3>1 DEF RenamedBy
  <2> HIDE DEF old, same
  <2>4. old # None /\ old \in Name /\ remote.name \in NameOrNone /\ remote.name # old
    BY <2>2, <2>3, NoneAssumption DEF NameOrNone, Remote
  <2>5. IsRewrite(c) /\ c.todo = Ref /\ ~c.saves /\ c.map[old] # old
    BY <1>3, <2>4, OneMapped
  <2>6. \A n \in Names(registry) \ Names(registry') : n = old
    BY <1>4, <2>1, <2>3 DEF Names
  <2> HIDE DEF c
  <2> QED
    BY <1>1, <1>2, <1>4, <2>4, <2>5, <2>6, RewritingNames
<1> QED
  BY <1>5, <1>6

\* The metadata of a reference are rewritten.
LEMMA RewriteNames ==
  ASSUME NamesInv, lapses' = {}, NEW a \in Admin, NEW r \in Ref, RewriteRef(a, r)
  PROVE  Registers' /\ Traced'
<1> DEFINE c == command[a]
           written == {c.map[n] : n \in Named(r)} \ Named(r)
           known == Names(IF c.saves THEN c.file ELSE registry)
<1>1. /\ c.kind = "rewrite" /\ r \in c.todo /\ registry' = registry
      /\ recipes' = [recipes EXCEPT ![r] = c.map[@]]
      /\ packages' = [p \in Pref |-> IF p[1] = r THEN c.map[packages[p]] ELSE packages[p]]
      /\ command' = [command EXCEPT ![a].todo = @ \ {r}]
      /\ lapses' = Overlapped(a, r, written, known)
  BY DEF RewriteRef
<1>2. /\ lapses = {}
      /\ \A n \in written \ {None} :
           /\ n \in known
           /\ \A b \in Admin \ {a} : command[b].kind = "rewrite" /\ r \notin command[b].todo
                                       => command[b].map[n] = n
  <2> HIDE DEF written, known
  <2>1. lapses \cup {"overlap"} # {}
    OBVIOUS
  <2> QED
    BY <1>1, <2>1 DEF Overlapped
<1>3. Registers /\ Traced /\ IsRewrite(c)
  BY <1>1, <1>2, Kinds DEF NamesInv
<1>4. /\ command' = [b \in Admin |-> command'[b]]
      /\ command'[a] = [c EXCEPT !.todo = c.todo \ {r}]
      /\ \A b \in Admin \ {a} : command'[b] = command[b]
  BY <1>1, <1>3 DEF Registers
<1>5. /\ IsRewrite(command'[a]) /\ command'[a].todo = c.todo \ {r} /\ command'[a].kind = "rewrite"
      /\ command'[a].map = c.map /\ command'[a].saves = c.saves /\ command'[a].file = c.file
  BY <1>3, <1>4 DEF IsRewrite
<1>6. Registers'
  <2>1. recipes' \in [Ref -> NameOrNone] /\ packages' \in [Pref -> NameOrNone]
    BY <1>1, <1>3 DEF Registers, IsRewrite
  <2>2. \A b \in Admin : command'[b] = Idle \/ IsRewrite(command'[b]) \/ IsNaming(command'[b])
    BY <1>3, <1>4, <1>5 DEF Registers
  <2> QED
    BY <1>1, <1>3, <1>4, <2>1, <2>2 DEF Registers
<1>7. ASSUME NEW s \in Ref \ {r}, NEW n \in Named(s)'
      PROVE  Fine(s, n)'
  <2>1. n \in Named(s)
    BY <1>1, <1>3 DEF Named, Registers, Pref
  <2>2. Fine(s, n)
    BY <1>3, <2>1 DEF Traced
  <2> HIDE DEF c
  <2>3. \A b \in Admin : /\ command'[b].kind = command[b].kind /\ command'[b].map = command[b].map
                         /\ command'[b].saves = command[b].saves /\ command'[b].file = command[b].file
                         /\ s \in command'[b].todo <=> s \in command[b].todo
    BY <1>1, <1>4, <1>5 DEF c
  <2>4. Unmoved(s, n)'
    BY <2>2, <2>3 DEF Fine, Unmoved
  <2>5. Expected(s, n)'
    BY <1>1, <2>2, <2>3 DEF Fine, Expected
  <2> QED
    BY <2>4, <2>5 DEF Fine
<1>8. ASSUME NEW m \in Named(r)'
      PROVE  Fine(r, m)'
  <2>1. PICK n \in Named(r) : m = c.map[n]
    BY <1>1, <1>3 DEF Named, Registers, Pref
  <2>2. n \in NameOrNone /\ m \in NameOrNone /\ c.map[m] = m /\ Fine(r, n)
    BY <1>3, <2>1, NamedOK DEF IsRewrite, Traced
  <2>3. CASE m \in Named(r)
    <3>1. Fine(r, m)
      BY <1>3, <2>3 DEF Traced
    <3>2. Unmoved(r, m)'
      BY <1>4, <1>5, <2>2, <3>1 DEF Fine, Unmoved
    <3>3. CASE m \in Names(registry) \cup {None}
      BY <1>1, <3>2, <3>3 DEF Fine, Expected
    <3>4. CASE m \notin Names(registry) \cup {None}
      <4>1. PICK b \in Admin :
              /\ command[b].kind = "rewrite"
              /\ IF command[b].saves THEN r \notin command[b].todo /\ m \in Names(command[b].file)
                 ELSE r \in command[b].todo /\ command[b].map[m] # m
        BY <3>1, <3>4 DEF Fine, Expected
      <4>2. b # a
        BY <1>1, <2>2, <4>1
      <4> QED
        BY <1>4, <3>2, <4>1, <4>2 DEF Fine, Expected
    <3> QED
      BY <3>3, <3>4
  <2>4. CASE m \notin Named(r)
    <3>1. m \in written
      BY <2>1, <2>4
    <3>2. CASE m = None
      <4>1. \A b \in Admin : command'[b].kind = "rewrite" => command'[b].map[None] = None
        BY <1>6, Kinds DEF Registers, IsRewrite, Idle, IsNaming
      <4> QED
        BY <3>2, <4>1 DEF Fine, Unmoved, Expected
    <3>3. CASE m # None
      <4>1. /\ m \in known
            /\ \A b \in Admin \ {a} : command[b].kind = "rewrite" /\ r \notin command[b].todo
                                       => command[b].map[m] = m
        BY <1>2, <3>1, <3>3
      <4>2. Unmoved(r, m)'
        BY <1>4, <1>5, <2>2, <4>1 DEF Unmoved
      <4>3. CASE c.saves
        BY <1>5, <4>1, <4>2, <4>3 DEF Fine, Expected
      <4>4. CASE ~c.saves
        BY <1>1, <4>1, <4>2, <4>4 DEF Fine, Expected
      <4> QED
        BY <4>3, <4>4
    <3> QED
      BY <3>2, <3>3
  <2> QED
    BY <2>3, <2>4
<1> QED
  BY <1>6, <1>7, <1>8 DEF Traced

\* A command that rewrote the metadata ends, and saves its remotes.
LEMMA FinishingNames ==
  ASSUME NamesInv, lapses' = {}, NEW a \in Admin, Finish(a)
  PROVE  Registers' /\ Traced'
<1> DEFINE c == command[a]
<1>1. /\ lapses = {} /\ c.kind = "rewrite" /\ c.todo = {}
      /\ registry' = IF c.saves THEN c.file ELSE registry
      /\ c.saves => registry = c.loaded
      /\ command' = [command EXCEPT ![a] = Idle] /\ UNCHANGED <<recipes, packages>>
  <2>1. lapses \cup {"overlap"} # {}
    OBVIOUS
  <2> QED
    BY <2>1 DEF Finish
<1>2. Registers /\ Traced /\ IsRewrite(c)
  BY <1>1, Kinds DEF NamesInv
<1>3. /\ command' = [b \in Admin |-> command'[b]] /\ command'[a] = Idle /\ Idle.kind # "rewrite"
      /\ \A b \in Admin \ {a} : command'[b] = command[b]
  BY <1>1, <1>2 DEF Registers, Idle
<1>4. Registers'
  <2>1. registry' \in Seq(Remote)
    BY <1>1, <1>2 DEF Registers, IsRewrite
  <2> QED
    BY <1>1, <1>2, <1>3, <2>1 DEF Registers
<1>5. ASSUME NEW r \in Ref, NEW n \in Named(r)'
      PROVE  Fine(r, n)'
  <2>1. n \in Named(r)
    BY <1>1 DEF Named
  <2>2. Fine(r, n) /\ n \in NameOrNone /\ c.map[n] = n
    BY <1>1, <1>2, <2>1, NamedOK DEF Traced, Fine, Unmoved
  <2>3. Unmoved(r, n)'
    BY <1>3, <2>2 DEF Fine, Unmoved
  <2>4. CASE n \in Names(registry) \cup {None}
    <3>1. n \in Names(registry') \cup {None}
      BY <1>1, <1>2, <2>2, <2>4 DEF IsRewrite
    <3> QED
      BY <2>3, <3>1 DEF Fine, Expected
  <2>5. CASE n \notin Names(registry) \cup {None}
    <3>1. PICK b \in Admin :
            /\ command[b].kind = "rewrite"
            /\ IF command[b].saves THEN r \notin command[b].todo /\ n \in Names(command[b].file)
               ELSE r \in command[b].todo /\ command[b].map[n] # n
      BY <2>2, <2>5 DEF Fine, Expected
    <3>2. CASE b = a
      BY <1>1, <2>3, <3>1, <3>2 DEF Fine, Expected
    <3>3. CASE b # a
      BY <1>3, <2>3, <3>1, <3>3 DEF Fine, Expected
    <3> QED
      BY <3>2, <3>3
  <2> QED
    BY <2>4, <2>5
<1> QED
  BY <1>4, <1>5 DEF Traced

\* A name is written for a recipe ...
LEMMA RecipeNamed ==
  ASSUME lapses = {}, Registers, Traced, NEW r \in Ref, NEW n, n \in NameOrNone, Fine(r, n),
         Registers', registry' = registry, recipes' = [recipes EXCEPT ![r] = n],
         UNCHANGED packages,
         \A b \in Admin : command'[b].kind = "rewrite" \/ command[b].kind = "rewrite"
                            => command'[b] = command[b]
  PROVE  Traced'
<1> SUFFICES ASSUME NEW s \in Ref, NEW m \in Named(s)'
             PROVE  Fine(s, m)'
  BY DEF Traced
<1>1. m \in Named(s) \/ (s = r /\ m = n)
  BY DEF Named, Registers
<1>2. Fine(s, m)
  BY <1>1 DEF Traced
<1> QED
  BY <1>2, FineStays

\* ... or for a package.
LEMMA PackageNamed ==
  ASSUME lapses = {}, Registers, Traced, NEW p \in Pref, NEW n, n \in NameOrNone, Fine(p[1], n),
         Registers', registry' = registry, packages' = [packages EXCEPT ![p] = n],
         UNCHANGED recipes,
         \A b \in Admin : command'[b].kind = "rewrite" \/ command[b].kind = "rewrite"
                            => command'[b] = command[b]
  PROVE  Traced'
<1> SUFFICES ASSUME NEW s \in Ref, NEW m \in Named(s)'
             PROVE  Fine(s, m)'
  BY DEF Traced
<1>1. m \in Named(s) \/ (s = p[1] /\ m = n)
  BY DEF Named, Registers
<1>2. Fine(s, m)
  BY <1>1 DEF Traced
<1> QED
  BY <1>2, FineStays

LEMMA WritingNames ==
  ASSUME NamesInv, lapses' = {}, NEW a \in Admin, WriteName(a)
  PROVE  Registers' /\ Traced'
<1> DEFINE p == command[a].pref
           n == command[a].name
<1>1. /\ command[a].kind = "name" /\ registry' = registry
      /\ command' = [command EXCEPT ![a] = Idle]
      /\ \/ p \in Ref /\ recipes' = [recipes EXCEPT ![p] = n] /\ UNCHANGED packages
            /\ lapses' = Overlapped(a, p, {n}, Names(registry))
         \/ p \in Pref /\ packages' = [packages EXCEPT ![p] = n] /\ UNCHANGED recipes
            /\ lapses' = Overlapped(a, p[1], {n}, Names(registry))
  BY DEF WriteName
<1>2. lapses = {} /\ Registers /\ Traced
  <2>1. lapses \cup {"overlap"} # {}
    OBVIOUS
  <2>2. lapses = {}
    BY <1>1, <2>1 DEF Overlapped
  <2> QED
    BY <2>2 DEF NamesInv
<1>3. /\ command' = [b \in Admin |-> command'[b]] /\ command'[a] = Idle /\ Idle.kind # "rewrite"
      /\ \A b \in Admin \ {a} : command'[b] = command[b]
  BY <1>1, <1>2 DEF Registers, Idle
<1>4. \A b \in Admin : command'[b].kind = "rewrite" \/ command[b].kind = "rewrite"
                         => command'[b] = command[b]
  BY <1>1, <1>3
<1>5. n \in NameOrNone
  BY <1>1, <1>2, Kinds DEF IsNaming
<1>6. Registers'
  BY <1>1, <1>2, <1>3, <1>5 DEF Registers
<1> HIDE DEF p, n
<1>7. CASE p \in Ref /\ recipes' = [recipes EXCEPT ![p] = n] /\ UNCHANGED packages
           /\ lapses' = Overlapped(a, p, {n}, Names(registry))
  <2>1. Fine(p, n)
    BY <1>1, <1>2, <1>7, WrittenFine
  <2> QED
    BY <1>1, <1>2, <1>4, <1>5, <1>6, <1>7, <2>1, RecipeNamed
<1>8. CASE p \in Pref /\ packages' = [packages EXCEPT ![p] = n] /\ UNCHANGED recipes
           /\ lapses' = Overlapped(a, p[1], {n}, Names(registry))
  <2>1. p[1] \in Ref
    BY <1>8 DEF Pref
  <2>2. Fine(p[1], n)
    BY <1>1, <1>2, <1>8, <2>1, WrittenFine
  <2> QED
    BY <1>1, <1>2, <1>4, <1>5, <1>6, <1>8, <2>2, PackageNamed
<1> QED
  BY <1>1, <1>7, <1>8 DEF p, n

\* A thread of the pool names the remote it has uploaded to.
LEMMA UploadingNames ==
  ASSUME NamesInv, lapses' = {}, NEW w \in Worker, UploadRecipe(w) \/ UploadPackage(w)
  PROVE  Registers' /\ Traced'
<1> DEFINE x == running[w].item
           n == running[w].remote.name
<1>1. /\ UNCHANGED <<registry, command>>
      /\ \/ UNCHANGED <<recipes, packages, lapses>>
         \/ x \in Ref /\ recipes' = [recipes EXCEPT ![x] = n] /\ UNCHANGED packages
            /\ lapses' = Overlapped(None, x, {n}, Names(registry))
         \/ x \in Pref /\ packages' = [packages EXCEPT ![x] = n] /\ UNCHANGED recipes
            /\ lapses' = Overlapped(None, x[1], {n}, Names(registry))
  BY DEF UploadRecipe, UploadPackage
<1> HIDE DEF x, n
<1>2. lapses = {} /\ Registers /\ Traced
  <2>1. lapses \cup {"overlap"} # {}
    OBVIOUS
  <2>2. lapses = {}
    BY <1>1, <2>1 DEF Overlapped
  <2> QED
    BY <2>2 DEF NamesInv
<1>3. None \notin Admin
  BY NoneAssumption
<1>4. CASE UNCHANGED <<recipes, packages>>
  <2>1. Registers'
    BY <1>1, <1>2, <1>4 DEF Registers
  <2> QED
    BY <1>1, <1>2, <1>4, <2>1, QuietNames
<1>5. CASE x \in Ref /\ recipes' = [recipes EXCEPT ![x] = n] /\ UNCHANGED packages
           /\ lapses' = Overlapped(None, x, {n}, Names(registry))
  <2>1. n \in NameOrNone /\ Fine(x, n)
    BY <1>2, <1>3, <1>5, WrittenFine
  <2>2. Registers'
    BY <1>1, <1>2, <1>5, <2>1 DEF Registers
  <2> QED
    BY <1>1, <1>2, <1>5, <2>1, <2>2, RecipeNamed
<1>6. CASE x \in Pref /\ packages' = [packages EXCEPT ![x] = n] /\ UNCHANGED recipes
           /\ lapses' = Overlapped(None, x[1], {n}, Names(registry))
  <2>1. x[1] \in Ref
    BY <1>6 DEF Pref
  <2>2. n \in NameOrNone /\ Fine(x[1], n)
    BY <1>2, <1>3, <1>6, <2>1, WrittenFine
  <2>3. Registers'
    BY <1>1, <1>2, <1>6, <2>2 DEF Registers
  <2> QED
    BY <1>1, <1>2, <1>6, <2>2, <2>3, PackageNamed
<1> QED
  BY <1>1, <1>4, <1>5, <1>6

\* Steps that leave the remotes and the metadata as they are.
LEMMA StillNames ==
  ASSUME NamesInv, UNCHANGED <<registry, recipes, packages, command, lapses>>
  PROVE  NamesInv'
<1> SUFFICES ASSUME lapses = {} PROVE Registers' /\ Traced'
  BY DEF NamesInv
<1>1. Registers /\ Traced
  BY DEF NamesInv
<1>2. Registers'
  BY <1>1 DEF Registers
<1> QED
  BY <1>1, <1>2, QuietNames

LEMMA ChangeNames ==
  ASSUME NamesInv, lapses' = {}, NEW a \in Admin, Change(a)
  PROVE  Registers' /\ Traced'
<1>1. CASE \E remote \in Remote, at \in Place : ForceAdd(a, remote, at)
  BY <1>1, ForcingNames
<1>2. CASE \E remote \in Remote, at \in Place, otherwise \in BOOLEAN :
             Add(a, remote, at, otherwise) \/ Update(a, remote, at, otherwise)
  BY <1>2, AddNames
<1>3. CASE \E n, m \in Name : Rename(a, n, m)
  BY <1>3, RenamingNames
<1>4. CASE \E n \in Name : RemoveRemote(a, n)
  BY <1>4, RemovingNames
<1>5. CASE Clear(a)
  BY <1>5, ClearingNames
<1>6. CASE \E remote \in Remote : Define(a, <<remote>>)
  BY <1>6, OneRemote, DefiningNames
<1>7. CASE \E p \in Ref \cup Pref, n \in NameOrNone : NameRef(a, p, n)
  BY <1>7, NamingNames
<1>8. CASE \E r \in Ref : RewriteRef(a, r)
  BY <1>8, RewriteNames
<1>9. CASE Finish(a)
  BY <1>9, FinishingNames
<1>10. CASE WriteName(a)
  BY <1>10, WritingNames
<1>11. ~Kill(a)
  <2>1. lapses \cup {"killed"} # {}
    OBVIOUS
  <2> QED
    BY <2>1 DEF Kill
<1> QED
  BY <1>1, <1>2, <1>3, <1>4, <1>5, <1>6, <1>7, <1>8, <1>9, <1>10, <1>11 DEF Change, NameOrNone

LEMMA NextNames == NamesInv /\ [Next]_vars => NamesInv'
<1> SUFFICES ASSUME NamesInv, [Next]_vars PROVE NamesInv'
  OBVIOUS
<1>1. CASE RemoteCommand
  BY <1>1, ChangeNames DEF RemoteCommand, NamesInv
<1>2. CASE \E w \in Worker : UploadRecipe(w) \/ UploadPackage(w)
  BY <1>2, UploadingNames DEF NamesInv
<1>3. CASE \E n \in Name \cup {None} : \E threads : StartUpload(n, threads)
  BY <1>3, StillNames DEF StartUpload
<1>4. CASE UploadCommand
  BY <1>4, StillNames DEF UploadCommand, Collect, MapGroup, ClosePool, JoinPool, remoteVars
<1>5. CASE \E w \in Worker : Take(w) \/ Fail(w)
  BY <1>5, StillNames DEF Take, Fail, remoteVars
<1>6. CASE HandleResult \/ FailCallback
  BY <1>6, StillNames DEF HandleResult, FailCallback, remoteVars
<1>7. CASE UNCHANGED vars
  BY <1>7, StillNames DEF vars, remoteVars
<1> QED
  BY <1>1, <1>2, <1>3, <1>4, <1>5, <1>6, <1>7 DEF Next, UploadThread

\* What the metadata of recipes and packages name is a remote when no command
\* is running (remote_registry.py), for any remotes, references, and any
\* number of processes, commands and uploads, unless a command was killed,
\* overlapped with another one or found two remotes with one URL.
THEOREM RemotesAreKnown == Spec => []RemotesKnown
<1>1. NamesInv => RemotesKnown
  <2> SUFFICES ASSUME Registers, Traced, \A a \in Admin : command[a] = Idle
               PROVE  Range(recipes) \cup Range(packages) \subseteq Names(registry) \cup {None}
    BY DEF NamesInv, RemotesKnown
  <2>1. ASSUME NEW r \in Ref, NEW n \in Named(r)
        PROVE  n \in Names(registry) \cup {None}
    BY <2>1, Kinds DEF Traced, Fine, Expected, Idle
  <2>2. \A r \in Ref : recipes[r] \in Names(registry) \cup {None}
    BY <2>1 DEF Named
  <2>3. \A p \in Pref : packages[p] \in Names(registry) \cup {None}
    BY <2>1 DEF Named, Pref
  <2> QED
    BY <2>2, <2>3 DEF Range, Registers
<1> QED
  BY <1>1, InitNames, NextNames, PTL DEF Spec
=====================================================================

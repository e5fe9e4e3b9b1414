--------------------------- MODULE MC_MetadataFile ---------------------------
\* Three threads, which run in three processes, in one, or two of them in one.
EXTENDS MetadataFile, TLC

CONSTANTS t1, t2, t3, p1, p2, p3

Threads == {t1, t2, t3}
Processes == {p1, p2, p3}
SomePlacements ==
  { t1 :> p1 @@ t2 :> p2 @@ t3 :> p3,
    t1 :> p1 @@ t2 :> p1 @@ t3 :> p1,
    t1 :> p1 @@ t2 :> p1 @@ t3 :> p2 }
=============================================================================

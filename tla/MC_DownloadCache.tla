-------------------------- MODULE MC_DownloadCache --------------------------
\* Two threads in two processes, or in one; with a third one, threads and
\* processes mixed.
EXTENDS DownloadCache, TLC

CONSTANTS t1, t2, t3, p1, p2

TwoThreads == {t1, t2}
ThreeThreads == {t1, t2, t3}
Processes == {p1, p2}
Unmixed == {t1 :> p1 @@ t2 :> p2, t1 :> p1 @@ t2 :> p1}
Mixed == {t1 :> p1 @@ t2 :> p1 @@ t3 :> p2}
=============================================================================

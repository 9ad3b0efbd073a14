------------------------------- MODULE MCAsync -------------------------------
(* Small instances of Async for TLC.                                       *)
EXTENDS Async, TLC

CONSTANTS t1, t2, c1, w1, w2, w3, j1, j2, j3

\* Two calls of an RTP receiver (id 7, no work handler), one DNS lookup
MCJobId == [j \in Jobs |-> IF j = j3 THEN 0 ELSE 7]

\* re_async_alloc allocates one item for each worker
MCPrealloc == <<w1, w2>>

NoNested == <<>>

\* The callback of the DNS lookup starts another lookup
MCNested == j3 :> j2

Symm == Permutations(Workers) \cup Permutations(Works)
=============================================================================

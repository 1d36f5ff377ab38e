----------------------- MODULE MCConcurrentHashTable -----------------------
(* A small instance of ConcurrentHashTable for TLC.                        *)
EXTENDS ConcurrentHashTable

CONSTANTS k1, k2

\* Two keys in one bucket; the other buckets stay empty.
MCHash == (k1 :> 4) @@ (k2 :> 1)

\* The default is a value that may be stored too.
MCCalls == {c \in Call : c.op = "GetValueOr" => c.default = Blank}

Symmetry == Permutations(Thread)
=============================================================================

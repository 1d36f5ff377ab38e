-------------------------- MODULE MCServiceAsTested --------------------------
(* A small instance of ServiceAsTested for TLC.                            *)
EXTENDS ServiceAsTested

\* Names and generated ids are interchangeable.
Symmetry == Permutations(User) \cup Permutations(Id)

\* No step reads what was answered; of the order of the ids FakeService asks only
\* which are in it, and those are the ones issued, less that of the request served.
View == <<store, issued, pc, local, faults, crashes, seen>>

\* Bound: no third chirp once somebody follows.  The lists of followed names and the
\* threads have no key in common.
Bound == Cardinality(issued) > 2 => \A u \in User : userFollowed[u] \in {<<>>, Absent}
=============================================================================

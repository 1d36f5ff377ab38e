--------------------------- MODULE MCChirpService ---------------------------
(* Small instances of ChirpService for TLC.                                *)
EXTENDS ChirpService

\* Threads, names and generated ids are interchangeable.
Symmetry == Permutations(Handler) \cup Permutations(User) \cup Permutations(Id)

\* No step reads the status of the last answer, so states that differ in it
\* alone have the same future.
View == <<store, issued, pc, local, faults, crashes>>
=============================================================================

--------------------------- MODULE MCIdGenerator ---------------------------
(* Small instances of IdGenerator for TLC.                                 *)
EXTENDS IdGenerator, TLC

CONSTANTS s1, t1, t2

\* t1 and t2 share the process s1; a thread beside them has one for itself.
MCServerOf == [t \in Thread |-> IF t \in {t1, t2} THEN s1
                                ELSE CHOOSE s \in Server : s # s1]

\* Codes that differ above their lowest bits (3 \div 2 # 5 \div 2).
MCMachineCode == [s \in Server |-> IF s = s1 THEN 3 ELSE 5]

Symmetry == Permutations(Thread \cap {t1, t2})
=============================================================================

-------------------------- MODULE MCKeyValueStore --------------------------
(* Small instances of KeyValueStore for TLC.                               *)
EXTENDS KeyValueStore, TLC

CONSTANTS Ops,       \* the functions that clients call, ...
          Stored     \* ... and the values they put

MCCalls ==
  {k \in SingleCall : /\ k.op \in Ops
                      /\ k.op \in {"Put", "PutOrUpdate"} => k.value \in Stored}
    \cup {[op |-> "GetValues", keys |-> ks] :
            ks \in IF "GetValues" \in Ops THEN [1 .. 2 -> Key] ELSE {}}

Symmetry == Permutations(Client) \cup Permutations(Handler)

\* Three functions are promised to be atomic only if nothing interleaves: a call of
\* theirs is alone, with no RPC left over from another, and no RPC of a Put fails.
Calling(c, ops) == call[c] # NoCall /\ call[c].op \in ops

Alone ==
  \A c \in Client :
    /\ Calling(c, {"Put", "Delete", "GetValues"}) =>
         /\ \A d \in Client \ {c} : call[d] = NoCall
         /\ \A h \in Handler : rpc[h] # Idle => rpc[h].from = c
    /\ Calling(c, {"Put"}) => faults = MaxFaults
=============================================================================

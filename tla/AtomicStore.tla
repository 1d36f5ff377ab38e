---------------------------- MODULE AtomicStore ----------------------------
(***************************************************************************)
(* The key-value store as its clients may think of it: a call takes effect  *)
(* in one step between its invocation and its return.  A call may fail; it  *)
(* then has taken effect, or never will, or, if it changes the map, will do *)
(* so later, when its caller has long gone on.  When the store's process    *)
(* dies everything in it is gone.                                           *)
(***************************************************************************)
EXTENDS StoreCalls

CONSTANTS Client,
          Calls,     \* the calls that clients make
          Worker,    \* at most this many calls are left to take effect late
          Pending    \* the result of a call that has not taken effect

VARIABLES map, call, result,
          late       \* the change that each worker has yet to make

vars == <<map, call, result, late>>

Nothing == [k \in Key |-> NoValue]

Init ==
  /\ map = Nothing
  /\ call = [c \in Client |-> NoCall]
  /\ result = [c \in Client |-> Pending]
  /\ late = [w \in Worker |-> NoCall]

Invoke(c) ==
  /\ call[c] = NoCall
  /\ \E k \in Calls : call' = [call EXCEPT ![c] = k]
  /\ UNCHANGED <<map, result, late>>

TakeEffect(c) ==
  /\ call[c] # NoCall /\ result[c] = Pending
  /\ result' = [result EXCEPT ![c] = Promised(map, call[c])]
  /\ map' = Left(map, call[c])
  /\ UNCHANGED <<call, late>>

Return(c) ==
  /\ result[c] # Pending
  /\ call' = [call EXCEPT ![c] = NoCall]
  /\ result' = [result EXCEPT ![c] = Pending]
  /\ UNCHANGED <<map, late>>

Fail(c) ==
  /\ call[c] # NoCall
  /\ result' = [result EXCEPT ![c] = Failed(call[c])]
  /\ \/ UNCHANGED late
     \/ /\ result[c] = Pending /\ call[c].op \in {"PutOrUpdate", "Delete"}
        /\ \E w \in Worker : /\ late[w] = NoCall
                             /\ late' = [late EXCEPT ![w] = call[c]]
  /\ UNCHANGED <<map, call>>

TakeEffectLate(w) ==
  /\ late[w] # NoCall
  /\ map' = Left(map, late[w])
  /\ late' = [late EXCEPT ![w] = NoCall]
  /\ UNCHANGED <<call, result>>

Die ==
  /\ map' = Nothing
  /\ late' = [w \in Worker |-> NoCall]
  /\ \E failing \in SUBSET {c \in Client : call[c] # NoCall} :
       result' = [c \in Client |-> IF c \in failing THEN Failed(call[c])
                                                    ELSE result[c]]
  /\ UNCHANGED call

Next == \/ \E c \in Client : Invoke(c) \/ TakeEffect(c) \/ Return(c) \/ Fail(c)
        \/ \E w \in Worker : TakeEffectLate(w)
        \/ Die

Spec == Init /\ [][Next]_vars
=============================================================================

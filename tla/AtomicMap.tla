----------------------------- MODULE AtomicMap -----------------------------
(***************************************************************************)
(* What ConcurrentHashTable (kvstore/utils/cchash.h) promises: threads call  *)
(* the operations of a map from keys to values, and every call takes effect *)
(* in one step between its invocation and its return.                       *)
(***************************************************************************)
EXTENDS MapCalls

CONSTANTS
  Thread,    \* the threads that share the map
  Calls,     \* the calls that they make
  Pending    \* the result of a call that has not taken effect

VARIABLES
  map,      \* the value of each key
  call,     \* what each thread has called and not returned from
  result    \* what its call returns, once it has taken effect

vars == <<map, call, result>>

Init ==
  /\ map = [k \in Key |-> NoValue]
  /\ call = [t \in Thread |-> NoCall]
  /\ result = [t \in Thread |-> Pending]

Invoke(t) ==
  /\ call[t] = NoCall
  /\ \E c \in Calls : call' = [call EXCEPT ![t] = c]
  /\ UNCHANGED <<map, result>>

TakeEffect(t) ==
  /\ call[t] # NoCall /\ result[t] = Pending
  /\ result' = [result EXCEPT ![t] = Output(map, call[t])]
  /\ map' = Updated(map, call[t])
  /\ UNCHANGED call

Return(t) ==
  /\ result[t] # Pending
  /\ call' = [call EXCEPT ![t] = NoCall]
  /\ result' = [result EXCEPT ![t] = Pending]
  /\ UNCHANGED map

Next == \E t \in Thread : Invoke(t) \/ TakeEffect(t) \/ Return(t)

Spec == Init /\ [][Next]_vars
=============================================================================

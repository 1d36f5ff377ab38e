------------------------ MODULE ConcurrentHashTable ------------------------
(***************************************************************************)
(* The hash table of the key-value store (kvstore/utils/cchash.h, a copy of *)
(* which is service/utils/cchash.h): buckets, each a list of key-value      *)
(* pairs guarded by a std::shared_mutex.  A thread that calls an operation  *)
(* locks the key's bucket, looks for the key's entry, uses what it found,   *)
(* and unlocks when it returns; threads interleave between these steps.     *)
(***************************************************************************)
EXTENDS MapCalls, Naturals, SequencesExt

CONSTANTS
  Thread, NoThread,
  Calls,        \* the calls that threads make
  Pending,      \* the result of a call that has not taken effect
  NumBuckets,   \* 19 unless the constructor is told otherwise
  Hash          \* std::hash of each key

ASSUME BucketsAssumption == NumBuckets \in Nat \ {0}
ASSUME HashAssumption == Hash \in [Key -> Nat]
ASSUME PendingAssumption == Pending \notin Result
ASSUME CallsAssumption == Calls \subseteq Call
ASSUME NoThreadAssumption == NoThread \notin Thread

VARIABLES
  data,       \* the list of each bucket
  readers,    \* the threads that hold its mutex shared, ...
  writer,     \* ... or the one that holds it exclusively
  call, result,
  pc,         \* the next step of each thread
  iter        \* the position FindEntry returned, 0 for end()

mutex == <<readers, writer>>
vars == <<data, mutex, call, result, pc, iter>>

Bucket == 0 .. (NumBuckets - 1)
Entry == [key : Key, value : Value]

GetBucket(k) == Hash[k] % NumBuckets

\* The first entry of the key, or end().
End == 0
FindEntry(list, k) == SelectInSeq(list, LAMBDA entry : entry.key = k)

TheBucket(t) == GetBucket(call[t].key)
TheList(t) == data[TheBucket(t)]

-----------------------------------------------------------------------------
\* (mutants) An operation that changes the list locks the bucket shared.
ExclusiveButAdd == {"AddOrUpdate", "DeleteKey"}
ExclusiveButDelete == {"Add", "AddOrUpdate"}

\* The operations that take a unique_lock.
Exclusive == {"Add", "AddOrUpdate", "DeleteKey"}

At(t, label) == pc[t] = label
Goto(t, label) == pc' = [pc EXCEPT ![t] = label]

Invoke(t) ==
  /\ At(t, "idle")
  /\ \E c \in Calls : call' = [call EXCEPT ![t] = c]
  /\ Goto(t, "lock")
  /\ UNCHANGED <<data, mutex, result, iter>>

\* shared_lock: any number of readers, no writer.
LockShared(t) ==
  /\ At(t, "lock") /\ call[t].op \notin Exclusive
  /\ writer[TheBucket(t)] = NoThread
  /\ readers' = [readers EXCEPT ![TheBucket(t)] = @ \cup {t}]
  /\ Goto(t, "find")
  /\ UNCHANGED <<data, writer, call, result, iter>>

\* unique_lock: one writer, no readers.
LockUnique(t) ==
  /\ At(t, "lock") /\ call[t].op \in Exclusive
  /\ writer[TheBucket(t)] = NoThread /\ readers[TheBucket(t)] = {}
  /\ writer' = [writer EXCEPT ![TheBucket(t)] = t]
  /\ Goto(t, "find")
  /\ UNCHANGED <<data, readers, call, result, iter>>

Find(t) ==
  /\ At(t, "find")
  /\ iter' = [iter EXCEPT ![t] = FindEntry(TheList(t), call[t].key)]
  /\ Goto(t, "use")
  /\ UNCHANGED <<data, mutex, call, result>>

\* The rest of an operation: its result and what it makes of the list.
Use(t, op, list, res) ==
  /\ At(t, "use") /\ call[t].op = op
  /\ data' = [data EXCEPT ![TheBucket(t)] = list]
  /\ result' = [result EXCEPT ![t] = res]
  /\ Goto(t, "unlock")
  /\ UNCHANGED <<mutex, call, iter>>

HasKey(t) == Use(t, "Has", TheList(t), iter[t] # End)

\* FindEntry(key)->second, without a check: on end() it is undefined, and
\* libstdc++ reads the zeroes of the mutex behind the list's head, an empty string.
GetValue(t) ==
  Use(t, "GetValue", TheList(t),
      IF iter[t] # End THEN TheList(t)[iter[t]].value ELSE Blank)

\* With a default value the key is looked for a second time.
GetValueOr(t) ==
  Use(t, "GetValueOr", TheList(t),
      IF iter[t] = End
      THEN call[t].default
      ELSE TheList(t)[FindEntry(TheList(t), call[t].key)].value)

\* (mutant) Key and value, both strings, are swapped.
PushedSwapped(t) ==
  Append(TheList(t), [key |-> call[t].value, value |-> call[t].key])

Pushed(t) == Append(TheList(t), [key |-> call[t].key, value |-> call[t].value])

AddValue(t) ==
  Use(t, "Add", IF iter[t] = End THEN Pushed(t) ELSE TheList(t), iter[t] = End)

\* (mutant) The entry that is there is not looked for.
AddOrUpdateValuePushes(t) == Use(t, "AddOrUpdate", Pushed(t), Void)

AddOrUpdateValue(t) ==
  Use(t, "AddOrUpdate",
      IF iter[t] # End
      THEN [TheList(t) EXCEPT ![iter[t]].value = call[t].value]
      ELSE Pushed(t),
      Void)

DeleteKey(t) ==
  Use(t, "DeleteKey",
      IF iter[t] # End
      THEN RemoveAt(TheList(t), FindEntry(TheList(t), call[t].key))
      ELSE TheList(t),
      Void)

\* The lock's destructor, and the return.
Unlock(t) ==
  /\ At(t, "unlock")
  /\ readers' = [readers EXCEPT ![TheBucket(t)] = @ \ {t}]
  /\ writer' = [writer EXCEPT ![TheBucket(t)] = IF @ = t THEN NoThread ELSE @]
  /\ call' = [call EXCEPT ![t] = NoCall]
  /\ result' = [result EXCEPT ![t] = Pending]
  /\ iter' = [iter EXCEPT ![t] = End]
  /\ Goto(t, "idle")
  /\ UNCHANGED data

-----------------------------------------------------------------------------
Init ==
  /\ data = [b \in Bucket |-> <<>>]
  /\ readers = [b \in Bucket |-> {}]
  /\ writer = [b \in Bucket |-> NoThread]
  /\ call = [t \in Thread |-> NoCall]
  /\ result = [t \in Thread |-> Pending]
  /\ pc = [t \in Thread |-> "idle"]
  /\ iter = [t \in Thread |-> End]

Lock(t) == LockShared(t) \/ LockUnique(t)
Operation(t) == \/ HasKey(t) \/ GetValue(t) \/ GetValueOr(t)
                \/ AddValue(t) \/ AddOrUpdateValue(t) \/ DeleteKey(t)

Next == \E t \in Thread : \/ Invoke(t) \/ Lock(t) \/ Find(t)
                          \/ Operation(t) \/ Unlock(t)

Spec == Init /\ [][Next]_vars

-----------------------------------------------------------------------------
(* Properties.                                                             *)

TypeOK ==
  /\ data \in [Bucket -> Seq(Entry)]
  /\ readers \in [Bucket -> SUBSET Thread]
  /\ writer \in [Bucket -> Thread \cup {NoThread}]
  /\ call \in [Thread -> Call \cup {NoCall}]
  /\ result \in [Thread -> Result \cup {Pending}]
  /\ pc \in [Thread -> {"idle", "lock", "find", "use", "unlock"}]
  /\ iter \in [Thread -> Nat]

\* A key is in its own bucket and in one entry only, although an entry is
\* appended after a search that another thread may have made too (cchash.h:72-92).
OneEntryPerKey ==
  \A b \in Bucket : \A n, m \in DOMAIN data[b] :
    /\ GetBucket(data[b][n].key) = b
    /\ data[b][n].key = data[b][m].key => n = m

\* An iterator is used while it still says where the key's entry is: nobody
\* has inserted or erased in between (cchash.h:54-99).
IteratorIsFresh ==
  \A t \in Thread : At(t, "use") => iter[t] = FindEntry(TheList(t), call[t].key)

\* The map that the buckets represent.
Lookup(list, k) ==
  IF FindEntry(list, k) = End THEN NoValue ELSE list[FindEntry(list, k)].value
Table == [k \in Key |-> Lookup(data[GetBucket(k)], k)]

\* Every call takes effect in one step between its invocation and its return
\* (the class comment of cchash.h:21-39, for any number of threads).
AM == INSTANCE AtomicMap WITH map <- Table
Linearizable == AM!Spec
=============================================================================

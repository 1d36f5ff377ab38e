--------------------- MODULE ConcurrentHashTableProofs ---------------------
(* The hash table implements an atomic map, for any number of threads, keys, *)
(* values and buckets.                                                       *)
EXTENDS ConcurrentHashTable, WellFoundedInduction, TLAPS

-----------------------------------------------------------------------------
(* Lists of entries.                                                       *)

\* A search ends at the first entry of the key, or at end() if there is none.
LEMMA FindEntryFacts ==
  ASSUME NEW list \in Seq(Entry), NEW k, NEW n, n = FindEntry(list, k)
  PROVE  /\ n \in 0 .. Len(list)
         /\ n # End => n \in DOMAIN list /\ list[n].key = k
         /\ n = End => \A m \in DOMAIN list : list[m].key # k
<1> DEFINE I == {i \in 1 .. Len(list) : list[i].key = k}
<1>1. FindEntry(list, k) = IF I # {} THEN Min(I) ELSE 0
  BY DEF FindEntry, SelectInSeq
<1>2. CASE I = {}
  BY <1>1, <1>2 DEF End
<1>3. CASE I # {}
  <2>1. PICK i \in I : \A j \in I : i <= j
    <3> DEFINE R == {ss \in Nat \X Nat : ss[1] < ss[2]}
    <3>1. IsWellFoundedOn(R, Nat)
      BY NatLessThanWellFounded DEF OpToRel
    <3> HIDE DEF I
    <3>2. I \subseteq Nat
      BY DEF I
    <3>3. PICK i \in I : \A j \in I : ~(<<j, i>> \in R)
      BY <1>3, <3>1, <3>2, WFMin
    <3>4. \A j \in Nat : <<j, i>> \notin R => ~(j < i)
      BY <3>2
    <3> HIDE DEF R
    <3>5. ASSUME NEW j \in I PROVE i <= j
      <4>1. i \in Nat /\ j \in Nat
        BY <3>2
      <4>2. <<j, i>> \notin R
        BY <3>3
      <4> QED
        BY <3>4, <4>1, <4>2
    <3> QED
      BY <3>5
  <2>2. Min(I) \in I
    BY <2>1 DEF Min
  <2> QED
    BY <1>1, <1>3, <2>2 DEF End
<1> QED
  BY <1>2, <1>3

\* What is left when an entry is erased.
LEMMA EraseFacts ==
  ASSUME NEW list \in Seq(Entry), NEW n \in DOMAIN list
  PROVE  /\ RemoveAt(list, n) \in Seq(Entry)
         /\ Len(RemoveAt(list, n)) = Len(list) - 1
         /\ \A m \in DOMAIN RemoveAt(list, n) :
              RemoveAt(list, n)[m] = IF m < n THEN list[m] ELSE list[m + 1]
<1> DEFINE before == SubSeq(list, 1, n - 1)
           after == SubSeq(list, n + 1, Len(list))
<1>1. /\ before \in Seq(Entry) /\ Len(before) = n - 1
      /\ \A m \in 1 .. (n - 1) : before[m] = list[m]
  OBVIOUS
<1>2. /\ after \in Seq(Entry) /\ Len(after) = Len(list) - n
      /\ \A m \in 1 .. (Len(list) - n) : after[m] = list[n + m]
  OBVIOUS
<1>3. RemoveAt(list, n) = before \o after
  BY DEF RemoveAt
<1> HIDE DEF before, after
<1> QED
  BY <1>1, <1>2, <1>3
-----------------------------------------------------------------------------
(* What a list says of a key.                                              *)

UniqueKeys(list) ==
  \A n, m \in DOMAIN list : list[n].key = list[m].key => n = m

\* Every key of the new list is k or a key of the old one.
KeysFrom(new, list, k) ==
  \A n \in DOMAIN new :
    new[n].key = k \/ \E m \in DOMAIN list : new[n].key = list[m].key

\* The value of a key is that of its entry, wherever the entry is, ...
LEMMA LookupEntry ==
  ASSUME NEW list \in Seq(Entry), UniqueKeys(list), NEW n \in DOMAIN list,
         NEW k, list[n].key = k
  PROVE  FindEntry(list, k) = n /\ Lookup(list, k) = list[n].value
<1>1. n # End
  BY DEF End
<1> QED
  BY <1>1, FindEntryFacts DEF Lookup, UniqueKeys

\* ... and NoValue if it has none.
LEMMA LookupNoEntry ==
  ASSUME NEW list \in Seq(Entry), NEW k, \A n \in DOMAIN list : list[n].key # k
  PROVE  FindEntry(list, k) = End /\ Lookup(list, k) = NoValue
  BY FindEntryFacts DEF Lookup

\* Appending an entry of a new key.
LEMMA PushLookup ==
  ASSUME NEW list \in Seq(Entry), UniqueKeys(list), NEW e \in Entry,
         FindEntry(list, e.key) = End,
         NEW new, new = Append(list, e)
  PROVE  /\ new \in Seq(Entry) /\ UniqueKeys(new)
         /\ Lookup(new, e.key) = e.value
         /\ \A k \in Key \ {e.key} : Lookup(new, k) = Lookup(list, k)
         /\ KeysFrom(new, list, e.key)
<1>1. /\ new \in Seq(Entry) /\ Len(new) = Len(list) + 1 /\ new[Len(list) + 1] = e
      /\ \A n \in 1 .. Len(list) : new[n] = list[n]
  OBVIOUS
<1>2. \A n \in DOMAIN list : list[n].key # e.key
  BY FindEntryFacts
<1>3. UniqueKeys(new)
  BY <1>1, <1>2 DEF UniqueKeys
<1>4. Lookup(new, e.key) = e.value
  <2>1. Len(list) + 1 \in DOMAIN new
    BY <1>1
  <2> QED
    BY <1>1, <1>3, <2>1, LookupEntry
<1>5. ASSUME NEW k \in Key \ {e.key} PROVE Lookup(new, k) = Lookup(list, k)
  <2>1. CASE \E n \in DOMAIN list : list[n].key = k
    <3>1. PICK n \in DOMAIN list : list[n].key = k
      BY <2>1
    <3>2. n \in DOMAIN new /\ new[n] = list[n]
      BY <1>1
    <3>3. Lookup(new, k) = new[n].value
      BY <1>1, <1>3, <3>1, <3>2, LookupEntry
    <3>4. Lookup(list, k) = list[n].value
      BY <3>1, LookupEntry
    <3> QED
      BY <3>2, <3>3, <3>4
  <2>2. CASE \A n \in DOMAIN list : list[n].key # k
    <3>1. \A n \in DOMAIN new : new[n].key # k
      BY <1>1, <2>2
    <3> QED
      BY <1>1, <2>2, <3>1, LookupNoEntry
  <2> QED
    BY <2>1, <2>2
<1>6. KeysFrom(new, list, e.key)
  BY <1>1 DEF KeysFrom
<1> QED
  BY <1>1, <1>3, <1>4, <1>5, <1>6

\* Overwriting the value of an entry.
LEMMA OverwriteLookup ==
  ASSUME NEW list \in Seq(Entry), UniqueKeys(list), NEW n \in DOMAIN list,
         NEW e \in Entry, e.key = list[n].key,
         NEW new \in Seq(Entry), Len(new) = Len(list), new[n] = e,
         \A m \in DOMAIN list \ {n} : new[m] = list[m]
  PROVE  /\ UniqueKeys(new)
         /\ Lookup(new, e.key) = e.value
         /\ \A k \in Key \ {e.key} : Lookup(new, k) = Lookup(list, k)
         /\ KeysFrom(new, list, e.key)
<1>1. /\ new \in Seq(Entry) /\ DOMAIN new = DOMAIN list
      /\ \A m \in DOMAIN list : new[m].key = list[m].key
      /\ new[n].value = e.value
      /\ \A m \in DOMAIN list \ {n} : new[m].value = list[m].value
  OBVIOUS
<1>2. UniqueKeys(new)
  BY <1>1 DEF UniqueKeys
<1>3. Lookup(new, e.key) = e.value
  BY <1>1, <1>2, LookupEntry
<1>4. ASSUME NEW k \in Key \ {e.key} PROVE Lookup(new, k) = Lookup(list, k)
  <2>1. CASE \E m \in DOMAIN list : list[m].key = k
    <3>1. PICK m \in DOMAIN list : list[m].key = k
      BY <2>1
    <3>2. m # n /\ new[m].key = k /\ new[m].value = list[m].value
      BY <1>1, <3>1
    <3>3. Lookup(new, k) = new[m].value
      BY <1>1, <1>2, <3>2, LookupEntry
    <3>4. Lookup(list, k) = list[m].value
      BY <3>1, LookupEntry
    <3> QED
      BY <3>2, <3>3, <3>4
  <2>2. CASE \A m \in DOMAIN list : list[m].key # k
    BY <1>1, <2>2, LookupNoEntry
  <2> QED
    BY <2>1, <2>2
<1>5. KeysFrom(new, list, e.key)
  BY <1>1 DEF KeysFrom
<1> QED
  BY <1>1, <1>2, <1>3, <1>4, <1>5

\* Erasing an entry.
LEMMA EraseLookup ==
  ASSUME NEW list \in Seq(Entry), UniqueKeys(list), NEW n \in DOMAIN list,
         NEW new, new = RemoveAt(list, n)
  PROVE  /\ new \in Seq(Entry) /\ UniqueKeys(new)
         /\ Lookup(new, list[n].key) = NoValue
         /\ \A k \in Key \ {list[n].key} : Lookup(new, k) = Lookup(list, k)
         /\ KeysFrom(new, list, list[n].key)
<1> DEFINE From(m) == IF m < n THEN m ELSE m + 1
<1>1. /\ new \in Seq(Entry) /\ Len(new) = Len(list) - 1
      /\ \A m \in DOMAIN new : new[m] = list[From(m)] /\ From(m) \in DOMAIN list
  BY EraseFacts
<1>2. \A m \in DOMAIN new : From(m) # n
  BY <1>1
<1>3. UniqueKeys(new)
  <2>1. \A m, p \in DOMAIN new : From(m) = From(p) => m = p
    BY <1>1
  <2> HIDE DEF From
  <2> QED
    BY <1>1, <2>1 DEF UniqueKeys
<1>4. \A m \in DOMAIN new : new[m].key # list[n].key
  <2> HIDE DEF From
  <2> QED
    BY <1>1, <1>2 DEF UniqueKeys
<1>5. Lookup(new, list[n].key) = NoValue
  BY <1>1, <1>4, LookupNoEntry
<1>6. ASSUME NEW k \in Key \ {list[n].key} PROVE Lookup(new, k) = Lookup(list, k)
  <2>1. CASE \E m \in DOMAIN list : list[m].key = k
    <3>1. PICK m \in DOMAIN list : list[m].key = k
      BY <2>1
    <3>2. PICK p \in DOMAIN new : From(p) = m
      <4>1. CASE m < n
        BY <1>1, <4>1
      <4>2. CASE m > n
        <5>1. m \in 1 .. Len(list) /\ n \in 1 .. Len(list)
          OBVIOUS
        <5>2. m - 1 \in 1 .. Len(new)
          BY <1>1, <4>2, <5>1
        <5>3. From(m - 1) = m
          BY <4>2, <5>1
        <5>4. m - 1 \in DOMAIN new
          BY <1>1, <5>2
        <5> QED
          BY <5>3, <5>4
      <4> QED
        BY <3>1, <4>1, <4>2
    <3>3. new[p] = list[m]
      BY <1>1, <3>2
    <3> QED
      BY <1>1, <1>3, <3>1, <3>3, LookupEntry
  <2>2. CASE \A m \in DOMAIN list : list[m].key # k
    <3>1. \A m \in DOMAIN new : new[m].key # k
      BY <1>1, <2>2
    <3> QED
      BY <1>1, <2>2, <3>1, LookupNoEntry
  <2> QED
    BY <2>1, <2>2
<1>7. KeysFrom(new, list, list[n].key)
  BY <1>1 DEF KeysFrom
<1> QED
  BY <1>1, <1>3, <1>5, <1>6, <1>7

-----------------------------------------------------------------------------
(* The inductive invariant: what a thread inside an operation can rely on. *)

\* A thread between its lock and its unlock holds the mutex of its bucket, and
\* whoever holds one exclusively holds it alone.
HoldsLock(t) ==
  pc[t] \in {"find", "use", "unlock"} =>
    IF call[t].op \in Exclusive THEN writer[TheBucket(t)] = t
                                ELSE t \in readers[TheBucket(t)]

MutualExclusion ==
  \A b \in Bucket : writer[b] # NoThread => readers[b] = {}

\* A thread that is not idle has called something, and has a result as soon as
\* it is past its operation.
CallInProgress(t) ==
  /\ pc[t] = "idle" <=> call[t] = NoCall
  /\ pc[t] = "unlock" <=> result[t] # Pending

TableInv ==
  /\ TypeOK
  /\ \A t \in Thread : HoldsLock(t) /\ CallInProgress(t)
  /\ MutualExclusion
  /\ OneEntryPerKey
  /\ IteratorIsFresh

LEMMA BucketType == \A k \in Key : GetBucket(k) \in Bucket
<1> SUFFICES ASSUME NEW k \in Key PROVE Hash[k] % NumBuckets \in 0 .. (NumBuckets - 1)
  BY DEF GetBucket, Bucket
<1>1. Hash[k] \in Nat /\ NumBuckets \in Nat \ {0}
  BY HashAssumption, BucketsAssumption
<1> QED
  BY <1>1

\* What a call is made of.
LEMMA CallType ==
  /\ NoCall \notin Call
  /\ \A c \in Call :
       /\ c.key \in Key
       /\ c.op \in {"Has", "GetValue", "GetValueOr"} \cup Exclusive
       /\ c.op = "GetValueOr" => c.default \in Value
       /\ c.op \in {"Add", "AddOrUpdate"} => c.value \in Value
  BY DEF Call, NoCall, GetValueCall, HasCall, DeleteKeyCall, GetValueOrCall, AddCall,
         AddOrUpdateCall, Exclusive

\* The lists have one entry per key.
LEMMA ListsUnique ==
  ASSUME TypeOK, OneEntryPerKey, NEW b \in Bucket
  PROVE  data[b] \in Seq(Entry) /\ UniqueKeys(data[b])
  BY DEF TypeOK, OneEntryPerKey, UniqueKeys

\* A thread past idle works on a list of the table.
LEMMA InProgress ==
  ASSUME TypeOK, NEW t \in Thread, CallInProgress(t), pc[t] # "idle"
  PROVE  call[t] \in Call /\ call[t].key \in Key /\ TheBucket(t) \in Bucket
  BY CallType, BucketType DEF TypeOK, CallInProgress, TheBucket

\* No two threads that work on one bucket, if one of them changes it.
LEMMA Alone ==
  ASSUME TableInv, NEW t \in Thread, pc[t] \in {"find", "use", "unlock"},
         call[t].op \in Exclusive,
         NEW u \in Thread \ {t}, pc[u] \in {"find", "use", "unlock"}
  PROVE  TheBucket(u) # TheBucket(t)
<1>1. TheBucket(t) \in Bucket /\ TheBucket(u) \in Bucket
  BY InProgress DEF TableInv
<1>2. t # NoThread
  BY NoThreadAssumption
<1> QED
  BY <1>1, <1>2 DEF TableInv, HoldsLock, MutualExclusion

THEOREM InitInv == Init => TableInv
<1> SUFFICES ASSUME Init PROVE TableInv
  OBVIOUS
<1>1. TypeOK
  BY DEF Init, TypeOK, End
<1>2. \A t \in Thread : HoldsLock(t) /\ CallInProgress(t)
  BY DEF Init, HoldsLock, CallInProgress
<1>3. MutualExclusion /\ OneEntryPerKey /\ IteratorIsFresh
  BY DEF Init, MutualExclusion, OneEntryPerKey, IteratorIsFresh, At
<1> QED
  BY <1>1, <1>2, <1>3 DEF TableInv

-----------------------------------------------------------------------------
(* What an operation does to its list is what its call does to the map.    *)

\* new and res are what the call of t makes of its list, and its result.
Effect(t, new, res) ==
  LET c == call[t]
  IN  /\ new \in Seq(Entry) /\ UniqueKeys(new)
      /\ KeysFrom(new, TheList(t), c.key)
      /\ c.op \notin Exclusive => new = TheList(t)
      /\ res \in Result /\ res = AM!Output(Table, c)
      /\ Lookup(new, c.key) = AM!Updated(Table, c)[c.key]
      /\ \A k \in Key \ {c.key} : Lookup(new, k) = Lookup(TheList(t), k)

\* What a thread that is about to use its iterator knows.
LEMMA AtUse ==
  ASSUME TableInv, NEW t \in Thread, pc[t] = "use"
  PROVE  /\ call[t] \in Call /\ TheBucket(t) \in Bucket
         /\ TheList(t) \in Seq(Entry) /\ UniqueKeys(TheList(t))
         /\ iter[t] = FindEntry(TheList(t), call[t].key)
         /\ iter[t] # End => /\ iter[t] \in DOMAIN TheList(t)
                             /\ TheList(t)[iter[t]] \in Entry
                             /\ TheList(t)[iter[t]].key = call[t].key
         /\ Table \in [Key -> Value \cup {NoValue}]
         /\ Table[call[t].key] = Lookup(TheList(t), call[t].key)
         /\ Present(Table, call[t].key) <=> iter[t] # End
<1>1. /\ call[t] \in Call /\ call[t].key \in Key /\ TheBucket(t) \in Bucket
      /\ TheList(t) \in Seq(Entry) /\ UniqueKeys(TheList(t))
  BY InProgress, ListsUnique DEF TableInv, TheList
<1>2. iter[t] = FindEntry(TheList(t), call[t].key)
  BY DEF TableInv, IteratorIsFresh, At
<1>3. iter[t] # End => /\ iter[t] \in DOMAIN TheList(t)
                       /\ TheList(t)[iter[t]] \in Entry
                       /\ TheList(t)[iter[t]].key = call[t].key
  BY <1>1, <1>2, FindEntryFacts
<1>4. ASSUME NEW k \in Key
      PROVE  Table[k] = Lookup(data[GetBucket(k)], k)
  BY DEF Table
<1>5. ASSUME NEW k \in Key
      PROVE  Lookup(data[GetBucket(k)], k) \in Value \cup {NoValue}
  <2>1. data[GetBucket(k)] \in Seq(Entry)
    BY BucketType, ListsUnique DEF TableInv
  <2> DEFINE list == data[GetBucket(k)]
             n == FindEntry(list, k)
  <2>2. n # End => list[n] \in Entry
    BY <2>1, FindEntryFacts
  <2> QED
    BY <2>2 DEF Lookup, Entry
<1>6. Table \in [Key -> Value \cup {NoValue}]
  BY <1>4, <1>5 DEF Table
<1>7. Table[call[t].key] = Lookup(TheList(t), call[t].key)
  BY <1>1, <1>4 DEF TheList, TheBucket
<1>8. Present(Table, call[t].key) <=> iter[t] # End
  BY <1>2, <1>3, <1>7, NoValueAssumption DEF Present, Lookup, Entry
<1> QED
  BY <1>1, <1>2, <1>3, <1>6, <1>7, <1>8

LEMMA ReadEffect ==
  ASSUME TableInv, NEW t \in Thread, HasKey(t) \/ GetValue(t) \/ GetValueOr(t)
  PROVE  \E new, res : Use(t, call[t].op, new, res) /\ Effect(t, new, res)
<1> DEFINE list == TheList(t)
<1>1. pc[t] = "use" /\ call[t].op \notin Exclusive
  BY DEF HasKey, GetValue, GetValueOr, Use, At, Exclusive
<1>2. KeysFrom(list, list, call[t].key)
  BY DEF KeysFrom
<1>3. AM!Updated(Table, call[t]) = Table
  BY <1>1 DEF AM!Updated, Exclusive
<1>4. ASSUME NEW res \in Result, res = AM!Output(Table, call[t])
      PROVE  Effect(t, list, res)
  BY <1>1, <1>2, <1>3, <1>4, AtUse DEF Effect
<1>5. CASE HasKey(t)
  <2>1. call[t].op = "Has"
    BY <1>5 DEF HasKey, Use
  <2>2. (iter[t] # End) = AM!Output(Table, call[t])
    BY <1>1, <2>1, AtUse DEF AM!Output, AM!Present, Present
  <2>3. (iter[t] # End) \in Result
    BY DEF Result
  <2> QED
    BY <1>4, <1>5, <2>1, <2>2, <2>3 DEF HasKey
<1>6. CASE GetValue(t)
  <2> DEFINE res == IF iter[t] # End THEN list[iter[t]].value ELSE Blank
  <2>1. call[t].op = "GetValue"
    BY <1>6 DEF GetValue, Use
  <2>2. res = AM!Output(Table, call[t])
    BY <1>1, <2>1, AtUse DEF AM!Output, AM!Present, Present, Lookup
  <2>3. res \in Result
    BY <1>1, AtUse, BlankAssumption DEF Result, Entry
  <2> QED
    BY <1>4, <1>6, <2>1, <2>2, <2>3 DEF GetValue
<1>7. CASE GetValueOr(t)
  <2> DEFINE res == IF iter[t] = End THEN call[t].default
                    ELSE list[FindEntry(list, call[t].key)].value
  <2>1. call[t].op = "GetValueOr"
    BY <1>7 DEF GetValueOr, Use
  <2>2. res = AM!Output(Table, call[t])
    BY <1>1, <2>1, AtUse DEF AM!Output, AM!Present, Present, Lookup
  <2>3. res \in Result
    BY <1>1, <2>1, AtUse, CallType DEF Result, Entry
  <2> QED
    BY <1>4, <1>7, <2>1, <2>2, <2>3 DEF GetValueOr
<1> QED
  BY <1>5, <1>6, <1>7

LEMMA AddEffect ==
  ASSUME TableInv, NEW t \in Thread, AddValue(t)
  PROVE  \E new, res : Use(t, call[t].op, new, res) /\ Effect(t, new, res)
<1> DEFINE list == TheList(t)
           key == call[t].key
           v == call[t].value
           e == [key |-> call[t].key, value |-> call[t].value]
           new == IF iter[t] = End THEN Pushed(t) ELSE list
<1>1. pc[t] = "use" /\ call[t].op = "Add" /\ Use(t, "Add", new, iter[t] = End)
  BY DEF AddValue, Use, At
<1>2. e \in Entry /\ Pushed(t) = Append(list, e)
  BY <1>1, AtUse, CallType DEF Entry, Pushed
<1>3. (iter[t] = End) = AM!Output(Table, call[t]) /\ (iter[t] = End) \in Result
  BY <1>1, AtUse DEF AM!Output, AM!Present, Present, Result
<1>4. CASE iter[t] = End
  <2>1. AM!Updated(Table, call[t])[key] = v
    BY <1>1, <1>4, AtUse, CallType DEF AM!Updated, AM!Present, Present
  <2>2. /\ new \in Seq(Entry) /\ UniqueKeys(new) /\ KeysFrom(new, list, key)
        /\ Lookup(new, key) = v
        /\ \A k \in Key \ {key} : Lookup(new, k) = Lookup(list, k)
    <3>1. new = Append(list, e) /\ e.key = key /\ e.value = v
      BY <1>2, <1>4
    <3>2. /\ list \in Seq(Entry) /\ UniqueKeys(list)
          /\ FindEntry(list, e.key) = End
      BY <1>1, <1>4, <3>1, AtUse
    <3>3. e \in Entry
      BY <1>2
    <3> HIDE DEF new, e, v, key, list
    <3> QED
      BY <3>1, <3>2, <3>3, PushLookup
  <2>3. Effect(t, new, iter[t] = End)
    BY <1>1, <1>3, <2>1, <2>2 DEF Effect, Exclusive
  <2> QED
    BY <1>1, <2>3
<1>5. CASE iter[t] # End
  <2>1. AM!Updated(Table, call[t]) = Table
    BY <1>1, <1>5, AtUse DEF AM!Updated, AM!Present, Present
  <2>2. KeysFrom(list, list, key) /\ new = list
    BY <1>5 DEF KeysFrom
  <2>3. Effect(t, new, iter[t] = End)
    BY <1>1, <1>3, <2>1, <2>2, AtUse DEF Effect
  <2> QED
    BY <1>1, <2>3
<1> QED
  BY <1>4, <1>5

LEMMA AddOrUpdateEffect ==
  ASSUME TableInv, NEW t \in Thread, AddOrUpdateValue(t)
  PROVE  \E new, res : Use(t, call[t].op, new, res) /\ Effect(t, new, res)
<1> DEFINE list == TheList(t)
           key == call[t].key
           v == call[t].value
           e == [key |-> call[t].key, value |-> call[t].value]
           new == IF iter[t] # End THEN [list EXCEPT ![iter[t]].value = v] ELSE Pushed(t)
<1>1. pc[t] = "use" /\ call[t].op = "AddOrUpdate" /\ Use(t, "AddOrUpdate", new, Void)
  BY DEF AddOrUpdateValue, Use, At
<1>2. e \in Entry /\ v \in Value /\ Pushed(t) = Append(list, e)
  BY <1>1, AtUse, CallType DEF Entry, Pushed
<1>3. Void = AM!Output(Table, call[t]) /\ Void \in Result
  BY <1>1 DEF AM!Output, Result
<1>4. AM!Updated(Table, call[t])[key] = v
  BY <1>1, AtUse, CallType DEF AM!Updated
<1>5. /\ new \in Seq(Entry) /\ UniqueKeys(new) /\ KeysFrom(new, list, key)
      /\ Lookup(new, key) = v
      /\ \A k \in Key \ {key} : Lookup(new, k) = Lookup(list, k)
  <2>1. CASE iter[t] = End
    <3>1. new = Append(list, e) /\ e.key = key /\ e.value = v
      BY <1>2, <2>1
    <3>2. /\ list \in Seq(Entry) /\ UniqueKeys(list)
          /\ FindEntry(list, e.key) = End
      BY <1>1, <2>1, <3>1, AtUse
    <3>3. e \in Entry
      BY <1>2
    <3> HIDE DEF new, e, v, key, list
    <3> QED
      BY <3>1, <3>2, <3>3, PushLookup
  <2>2. CASE iter[t] # End
    <3> DEFINE n == iter[t]
    <3>1. /\ list \in Seq(Entry) /\ UniqueKeys(list)
          /\ n \in DOMAIN list /\ list[n] \in Entry /\ list[n].key = key
      BY <1>1, <2>2, AtUse
    <3>2. [list[n] EXCEPT !.value = v] = e
      BY <3>1 DEF Entry
    <3>3. new = [list EXCEPT ![n] = e]
      <4>1. new = [list EXCEPT ![n] = [list[n] EXCEPT !.value = v]]
        BY <2>2
      <4> QED
        BY <3>2, <4>1, Zenon
    <3>4. e \in Entry /\ e.key = key /\ e.value = v
      BY <1>2
    <3>5. e.key = list[n].key
      BY <3>1, <3>4
    <3> HIDE DEF new, n, e, v, key, list
    <3>6. /\ new \in Seq(Entry) /\ Len(new) = Len(list) /\ new[n] = e
          /\ \A m \in DOMAIN list \ {n} : new[m] = list[m]
      BY <3>1, <3>3, <3>4
    <3>7. /\ UniqueKeys(new)
          /\ Lookup(new, e.key) = e.value
          /\ \A k \in Key \ {e.key} : Lookup(new, k) = Lookup(list, k)
          /\ KeysFrom(new, list, e.key)
      BY <3>1, <3>4, <3>5, <3>6, OverwriteLookup
    <3> QED
      BY <3>4, <3>6, <3>7
  <2> QED
    BY <2>1, <2>2
<1>6. Effect(t, new, Void)
  BY <1>1, <1>3, <1>4, <1>5 DEF Effect, Exclusive
<1> QED
  BY <1>1, <1>6

LEMMA DeleteKeyEffect ==
  ASSUME TableInv, NEW t \in Thread, DeleteKey(t)
  PROVE  \E new, res : Use(t, call[t].op, new, res) /\ Effect(t, new, res)
<1> DEFINE list == TheList(t)
           key == call[t].key
           new == IF iter[t] # End THEN RemoveAt(list, FindEntry(list, key)) ELSE list
<1>1. pc[t] = "use" /\ call[t].op = "DeleteKey" /\ Use(t, "DeleteKey", new, Void)
  BY DEF DeleteKey, Use, At
<1>2. Void = AM!Output(Table, call[t]) /\ Void \in Result
  BY <1>1 DEF AM!Output, Result
<1>3. AM!Updated(Table, call[t])[key] = NoValue
  BY <1>1, AtUse, CallType DEF AM!Updated
<1>4. /\ new \in Seq(Entry) /\ UniqueKeys(new) /\ KeysFrom(new, list, key)
      /\ Lookup(new, key) = NoValue
      /\ \A k \in Key \ {key} : Lookup(new, k) = Lookup(list, k)
  <2>1. CASE iter[t] = End
    BY <1>1, <2>1, AtUse DEF KeysFrom, Lookup
  <2>2. CASE iter[t] # End
    <3>1. /\ list \in Seq(Entry) /\ UniqueKeys(list)
          /\ iter[t] \in DOMAIN list /\ list[iter[t]].key = key
      BY <1>1, <2>2, AtUse
    <3>2. new = RemoveAt(list, iter[t])
      BY <1>1, <2>2, AtUse
    <3> HIDE DEF new, key, list
    <3> QED
      BY <3>1, <3>2, EraseLookup
  <2> QED
    BY <2>1, <2>2
<1>5. Effect(t, new, Void)
  BY <1>1, <1>2, <1>3, <1>4 DEF Effect, Exclusive
<1> QED
  BY <1>1, <1>5

\* Every operation has the effect of its call.
LEMMA OperationEffect ==
  ASSUME TableInv, NEW t \in Thread, Operation(t)
  PROVE  \E new, res : Use(t, call[t].op, new, res) /\ Effect(t, new, res)
  BY ReadEffect, AddEffect, AddOrUpdateEffect, DeleteKeyEffect DEF Operation

-----------------------------------------------------------------------------
(* Every step preserves the invariant.                                     *)

LEMMA InvokeInv ==
  ASSUME TableInv, NEW t \in Thread, Invoke(t) PROVE TableInv'
<1>1. PICK c \in Calls : call' = [call EXCEPT ![t] = c]
  BY DEF Invoke
<1>2. c \in Call /\ c # NoCall
  BY CallsAssumption, CallType
<1>3. TypeOK'
  BY <1>1, <1>2 DEF TableInv, TypeOK, Invoke, Goto, mutex
<1>4. ASSUME NEW u \in Thread PROVE HoldsLock(u)' /\ CallInProgress(u)'
  <2>1. HoldsLock(u) /\ CallInProgress(u) /\ CallInProgress(t)
    BY DEF TableInv
  <2> QED
    BY <1>1, <1>2, <2>1 DEF TableInv, TypeOK, Invoke, At, Goto, mutex, HoldsLock,
       CallInProgress, TheBucket
<1>5. IteratorIsFresh'
  BY <1>1 DEF TableInv, TypeOK, IteratorIsFresh, Invoke, At, Goto, mutex, TheList,
     TheBucket
<1>6. MutualExclusion' /\ OneEntryPerKey'
  BY DEF TableInv, MutualExclusion, OneEntryPerKey, Invoke, mutex
<1> QED
  BY <1>3, <1>4, <1>5, <1>6 DEF TableInv

LEMMA LockInv ==
  ASSUME TableInv, NEW t \in Thread, Lock(t) PROVE TableInv'
<1>1. TheBucket(t) \in Bucket /\ pc[t] = "lock"
  BY InProgress DEF TableInv, Lock, LockShared, LockUnique, At
<1> DEFINE b == TheBucket(t)
<1>a. /\ pc' = [pc EXCEPT ![t] = "find"]
      /\ UNCHANGED <<data, call, result, iter>>
      /\ writer[b] = NoThread
  BY DEF Lock, LockShared, LockUnique, Goto
<1>b. \/ /\ call[t].op \notin Exclusive
         /\ readers' = [readers EXCEPT ![b] = @ \cup {t}] /\ writer' = writer
      \/ /\ call[t].op \in Exclusive /\ readers[b] = {}
         /\ writer' = [writer EXCEPT ![b] = t] /\ readers' = readers
  BY DEF Lock, LockShared, LockUnique
<1>2. TypeOK'
  <2>1. readers' \in [Bucket -> SUBSET Thread] /\ writer' \in [Bucket -> Thread \cup {NoThread}]
    <3>1. readers[b] \cup {t} \subseteq Thread
      BY <1>1 DEF TableInv, TypeOK
    <3> HIDE DEF b
    <3>2. [readers EXCEPT ![b] = readers[b] \cup {t}] \in [Bucket -> SUBSET Thread]
      BY <3>1 DEF TableInv, TypeOK
    <3>3. [writer EXCEPT ![b] = t] \in [Bucket -> Thread \cup {NoThread}]
      BY DEF TableInv, TypeOK
    <3> QED
      BY <1>b, <3>2, <3>3 DEF TableInv, TypeOK
  <2>2. pc' \in [Thread -> {"idle", "lock", "find", "use", "unlock"}]
    BY <1>a DEF TableInv, TypeOK
  <2> QED
    BY <1>a, <2>1, <2>2 DEF TableInv, TypeOK
<1>3. ASSUME NEW u \in Thread PROVE HoldsLock(u)' /\ CallInProgress(u)'
  <2>1. HoldsLock(u) /\ CallInProgress(u)
    BY DEF TableInv
  <2>2. pc[u] \in {"find", "use", "unlock"} => TheBucket(u) \in Bucket
    BY <2>1, InProgress DEF TableInv
  <2>3. CallInProgress(u)'
    BY <1>1, <1>a, <2>1 DEF TableInv, TypeOK, CallInProgress
  <2>4. TheBucket(u)' = TheBucket(u) /\ call'[u] = call[u]
    BY <1>a DEF TheBucket
  <2>5. u # NoThread
    BY NoThreadAssumption
  <2>6. CASE u = t
    <3>1. IF call[t].op \in Exclusive THEN writer'[b] = t ELSE t \in readers'[b]
      BY <1>1, <1>b DEF TableInv, TypeOK
    <3> QED
      BY <2>3, <2>4, <2>6, <3>1 DEF HoldsLock
  <2>7. CASE u # t
    <3>1. pc'[u] = pc[u]
      BY <1>a, <2>7 DEF TableInv, TypeOK
    <3>2. ASSUME NEW c \in Bucket
          PROVE  (writer[c] = u => writer'[c] = u) /\ readers[c] \subseteq readers'[c]
      BY <1>1, <1>a, <1>b, <2>5 DEF TableInv, TypeOK
    <3> QED
      BY <2>1, <2>2, <2>3, <2>4, <3>1, <3>2 DEF HoldsLock
  <2> QED
    BY <2>6, <2>7
<1>4. MutualExclusion'
  BY <1>1 DEF TableInv, TypeOK, MutualExclusion, Lock, LockShared, LockUnique
<1>5. OneEntryPerKey' /\ IteratorIsFresh'
  BY <1>1 DEF TableInv, TypeOK, OneEntryPerKey, IteratorIsFresh, Lock, LockShared,
     LockUnique, At, Goto, TheList, TheBucket
<1> QED
  BY <1>2, <1>3, <1>4, <1>5 DEF TableInv

LEMMA FindInv ==
  ASSUME TableInv, NEW t \in Thread, Find(t) PROVE TableInv'
<1>1. /\ TheBucket(t) \in Bucket /\ pc[t] = "find"
      /\ TheList(t) \in Seq(Entry)
  BY InProgress, ListsUnique DEF TableInv, Find, At, TheList
<1>2. FindEntry(TheList(t), call[t].key) \in Nat
  BY <1>1, FindEntryFacts
<1>3. TypeOK'
  BY <1>1, <1>2 DEF TableInv, TypeOK, Find, Goto, mutex
<1>4. ASSUME NEW u \in Thread PROVE HoldsLock(u)' /\ CallInProgress(u)'
  <2>1. HoldsLock(u) /\ CallInProgress(u)
    BY DEF TableInv
  <2> QED
    BY <1>1, <2>1 DEF TableInv, TypeOK, Find, Goto, mutex, HoldsLock, CallInProgress,
       TheBucket
<1>5. MutualExclusion' /\ OneEntryPerKey'
  BY DEF TableInv, MutualExclusion, OneEntryPerKey, Find, mutex
<1>6. IteratorIsFresh'
  BY DEF TableInv, TypeOK, IteratorIsFresh, Find, At, Goto, TheList, TheBucket
<1> QED
  BY <1>3, <1>4, <1>5, <1>6 DEF TableInv

\* Only the list of a bucket locked exclusively changes, and nobody else holds an
\* iterator into that bucket.
LEMMA OperationInv ==
  ASSUME TableInv, NEW t \in Thread, Operation(t) PROVE TableInv'
<1>1. PICK new, res : Use(t, call[t].op, new, res) /\ Effect(t, new, res)
  BY OperationEffect
<1>2. /\ pc[t] = "use" /\ pc' = [pc EXCEPT ![t] = "unlock"]
      /\ data' = [data EXCEPT ![TheBucket(t)] = new]
      /\ result' = [result EXCEPT ![t] = res]
      /\ UNCHANGED <<readers, writer, call, iter>>
  BY <1>1 DEF Use, At, Goto, mutex
<1>3. TheBucket(t) \in Bucket /\ TheList(t) \in Seq(Entry) /\ call[t].key \in Key
  BY <1>2, AtUse, CallType
<1>4. TypeOK'
  BY <1>1, <1>2, <1>3 DEF TableInv, TypeOK, Effect
<1>5. ASSUME NEW u \in Thread PROVE HoldsLock(u)' /\ CallInProgress(u)'
  <2>1. HoldsLock(u) /\ CallInProgress(u)
    BY DEF TableInv
  <2>2. res # Pending
    BY <1>1, PendingAssumption DEF Effect
  <2>3. TheBucket(u)' = TheBucket(u)
    BY <1>2 DEF TheBucket
  <2>4. pc'[u] = IF u = t THEN "unlock" ELSE pc[u]
    BY <1>2 DEF TableInv, TypeOK
  <2>5. result'[u] = IF u = t THEN res ELSE result[u]
    BY <1>2 DEF TableInv, TypeOK
  <2>6. HoldsLock(u)'
    BY <1>2, <2>1, <2>3, <2>4 DEF HoldsLock
  <2>7. CallInProgress(u)'
    BY <1>2, <2>1, <2>2, <2>4, <2>5 DEF CallInProgress
  <2> QED
    BY <2>6, <2>7
<1>6. MutualExclusion'
  BY <1>2 DEF TableInv, MutualExclusion
<1>7. OneEntryPerKey'
  <2> SUFFICES ASSUME NEW b \in Bucket, NEW n \in DOMAIN data'[b],
                      NEW m \in DOMAIN data'[b]
               PROVE  /\ GetBucket(data'[b][n].key) = b
                      /\ data'[b][n].key = data'[b][m].key => n = m
    BY DEF OneEntryPerKey, GetBucket
  <2>1. CASE b = TheBucket(t)
    <3>1. data'[b] = new
      BY <1>2, <1>3, <2>1 DEF TableInv, TypeOK
    <3>2. \A p \in DOMAIN TheList(t) : GetBucket(TheList(t)[p].key) = b
      BY <1>3, <2>1 DEF TableInv, OneEntryPerKey, TheList
    <3>3. GetBucket(call[t].key) = b
      BY <2>1 DEF TheBucket
    <3> QED
      BY <1>1, <3>1, <3>2, <3>3 DEF Effect, KeysFrom, UniqueKeys
  <2>2. CASE b # TheBucket(t)
    <3>1. data'[b] = data[b]
      BY <1>2, <1>3, <2>2 DEF TableInv, TypeOK
    <3> QED
      BY <3>1 DEF TableInv, OneEntryPerKey
  <2> QED
    BY <2>1, <2>2
<1>8. IteratorIsFresh'
  <2> SUFFICES ASSUME NEW u \in Thread, At(u, "use")'
               PROVE  (iter[u] = FindEntry(TheList(u), call[u].key))'
    BY DEF IteratorIsFresh
  <2>1. u # t /\ pc[u] = "use"
    BY <1>2 DEF TableInv, TypeOK, At
  <2>2. TheBucket(u) \in Bucket /\ iter[u] = FindEntry(TheList(u), call[u].key)
    BY <2>1, AtUse
  <2>3. TheList(u)' = TheList(u)
    <3>1. CASE call[t].op \in Exclusive
      <4>1. TheBucket(u) # TheBucket(t)
        BY <1>2, <2>1, <3>1, Alone
      <4> QED
        BY <1>2, <1>3, <2>2, <4>1 DEF TableInv, TypeOK, TheList, TheBucket
    <3>2. CASE call[t].op \notin Exclusive
      <4>1. new = TheList(t)
        BY <1>1, <3>2 DEF Effect
      <4>2. data' = data
        BY <1>2, <1>3, <4>1 DEF TableInv, TypeOK, TheList
      <4> QED
        BY <1>2, <4>2 DEF TheList, TheBucket
    <3> QED
      BY <3>1, <3>2
  <2>4. call'[u] = call[u] /\ iter'[u] = iter[u]
    BY <1>2
  <2> QED
    BY <2>2, <2>3, <2>4
<1> QED
  BY <1>4, <1>5, <1>6, <1>7, <1>8 DEF TableInv

LEMMA UnlockInv ==
  ASSUME TableInv, NEW t \in Thread, Unlock(t) PROVE TableInv'
<1>1. TheBucket(t) \in Bucket /\ pc[t] = "unlock"
  BY InProgress DEF TableInv, Unlock, At
<1>2. TypeOK'
  BY <1>1 DEF TableInv, TypeOK, Unlock, Goto, End
<1>3. ASSUME NEW u \in Thread PROVE HoldsLock(u)' /\ CallInProgress(u)'
  <2>1. HoldsLock(u) /\ CallInProgress(u) /\ CallInProgress(t)
    BY DEF TableInv
  <2>2. pc[u] \in {"find", "use", "unlock"} => TheBucket(u) \in Bucket
    BY <2>1, InProgress DEF TableInv
  <2>3. CallInProgress(u)'
    BY <1>1, <2>1 DEF TableInv, TypeOK, Unlock, Goto, CallInProgress
  <2>4. CASE u = t
    BY <1>1, <2>3, <2>4 DEF TableInv, TypeOK, Unlock, Goto, HoldsLock
  <2>5. CASE u # t
    <3>1. call'[u] = call[u] /\ pc'[u] = pc[u] /\ TheBucket(u)' = TheBucket(u)
      BY <2>5 DEF TableInv, TypeOK, Unlock, Goto, TheBucket
    <3>2. HoldsLock(u)'
      BY <1>1, <2>1, <2>2, <2>5, <3>1 DEF TableInv, TypeOK, Unlock, HoldsLock
    <3> QED
      BY <2>3, <3>2
  <2> QED
    BY <2>4, <2>5
<1>4. MutualExclusion'
  BY <1>1 DEF TableInv, TypeOK, MutualExclusion, Unlock
<1>5. OneEntryPerKey' /\ IteratorIsFresh'
  BY DEF TableInv, TypeOK, OneEntryPerKey, IteratorIsFresh, Unlock, At, Goto, TheList,
     TheBucket
<1> QED
  BY <1>2, <1>3, <1>4, <1>5 DEF TableInv

THEOREM StepInv == TableInv /\ [Next]_vars => TableInv'
<1> SUFFICES ASSUME TableInv, [Next]_vars PROVE TableInv'
  OBVIOUS
<1>1. ASSUME NEW t \in Thread, \/ Invoke(t) \/ Lock(t) \/ Find(t)
                               \/ Operation(t) \/ Unlock(t)
      PROVE  TableInv'
  BY <1>1, InvokeInv, LockInv, FindInv, OperationInv, UnlockInv
<1>2. CASE UNCHANGED vars
  BY <1>2 DEF vars, mutex, TableInv, TypeOK, HoldsLock, CallInProgress, MutualExclusion,
     OneEntryPerKey, IteratorIsFresh, At, TheList, TheBucket
<1> QED
  BY <1>1, <1>2 DEF Next

\* The table's lists stay well-formed, and no thread uses an iterator that another
\* has made stale (cchash.h:54-99).
THEOREM TableConsistent == Spec => [](TypeOK /\ OneEntryPerKey /\ IteratorIsFresh)
<1>1. TableInv => TypeOK /\ OneEntryPerKey /\ IteratorIsFresh
  BY DEF TableInv
<1> QED
  BY <1>1, InitInv, StepInv, PTL DEF Spec

\* The types: who reads and who writes a bucket, and where each iterator points.
THEOREM TypeCorrect == Spec => []TypeOK
<1>. QED  BY TableConsistent, PTL

\* An iterator that has been found is used while the entry is still where it was: the
\* lock is held from FindEntry to the use of what it found (cchash.h:54-99).
THEOREM IteratorStaysFresh == Spec => []IteratorIsFresh
<1>. QED  BY TableConsistent, PTL

-----------------------------------------------------------------------------
(* Refinement.                                                             *)

LEMMA RefineInit == Init => AM!Init
<1> SUFFICES ASSUME Init PROVE Table = [k \in Key |-> NoValue]
  BY DEF Init, AM!Init, AM!NoCall, NoCall
<1>1. ASSUME NEW k \in Key PROVE Lookup(data[GetBucket(k)], k) = NoValue
  <2>1. data[GetBucket(k)] = <<>>
    BY BucketType DEF Init
  <2>2. <<>> \in Seq(Entry) /\ DOMAIN <<>> = {}
    OBVIOUS
  <2>3. Lookup(<<>>, k) = NoValue
    BY <2>2, LookupNoEntry
  <2> QED
    BY <2>1, <2>3
<1> QED
  BY <1>1 DEF Table, Lookup

\* An operation is the step in which its call takes effect.
LEMMA OperationRefines ==
  ASSUME TableInv, NEW t \in Thread, Operation(t) PROVE AM!TakeEffect(t)
<1>1. PICK new, res : Use(t, call[t].op, new, res) /\ Effect(t, new, res)
  BY OperationEffect
<1>2. /\ pc[t] = "use"
      /\ data' = [data EXCEPT ![TheBucket(t)] = new]
      /\ result' = [result EXCEPT ![t] = res]
      /\ call' = call
  BY <1>1 DEF Use, At, Goto, mutex
<1>3. call[t] # NoCall /\ result[t] = Pending
  BY <1>2 DEF TableInv, CallInProgress
<1> DEFINE key == call[t].key
<1>4. TheBucket(t) \in Bucket /\ key \in Key /\ TheBucket(t) = GetBucket(key)
  BY <1>2, AtUse, CallType DEF TheBucket
<1>5. ASSUME NEW k \in Key
      PROVE  Table[k] = Lookup(data[GetBucket(k)], k) /\ GetBucket(k) \in Bucket
  BY BucketType DEF Table
<1>6. ASSUME NEW k \in Key
      PROVE  Table'[k] = Lookup(data'[GetBucket(k)], k)
  BY DEF Table
<1>7. ASSUME NEW k \in Key
      PROVE  Table'[k] = AM!Updated(Table, call[t])[k]
  <2>1. CASE k = key
    <3>1. data'[GetBucket(k)] = new
      BY <1>2, <1>4, <2>1 DEF TableInv, TypeOK
    <3>2. Lookup(new, key) = AM!Updated(Table, call[t])[key]
      BY <1>1 DEF Effect
    <3> QED
      BY <1>6, <2>1, <3>1, <3>2
  <2>2. CASE k # key
    <3>1. Lookup(data'[GetBucket(k)], k) = Lookup(data[GetBucket(k)], k)
      <4>1. Lookup(new, k) = Lookup(TheList(t), k)
        BY <1>1, <2>2 DEF Effect
      <4>2. CASE GetBucket(k) = TheBucket(t)
        <5>1. data'[GetBucket(k)] = new /\ data[GetBucket(k)] = TheList(t)
          BY <1>2, <1>4, <4>2 DEF TableInv, TypeOK, TheList
        <5> QED
          BY <4>1, <5>1
      <4>3. CASE GetBucket(k) # TheBucket(t)
        BY <1>2, <1>5, <4>3 DEF TableInv, TypeOK
      <4> QED
        BY <4>2, <4>3
    <3>2. AM!Updated(Table, call[t])[k] = Table[k]
      BY <2>2 DEF AM!Updated, Table
    <3> QED
      BY <1>5, <1>6, <3>1, <3>2
  <2> QED
    BY <2>1, <2>2
<1>8. Table' = AM!Updated(Table, call[t])
  <2>1. Table' = [k \in Key |-> Table'[k]]
    BY DEF Table
  <2>2. AM!Updated(Table, call[t]) = [k \in Key |-> AM!Updated(Table, call[t])[k]]
    BY DEF AM!Updated, Table
  <2> QED
    BY <1>7, <2>1, <2>2
<1>9. res = AM!Output(Table, call[t])
  BY <1>1 DEF Effect
<1> QED
  BY <1>2, <1>3, <1>8, <1>9 DEF AM!TakeEffect, AM!NoCall, NoCall

\* The steps of a call other than its operation: the two ends, and two that change
\* nothing of the map.
LEMMA OtherStepsRefine ==
  ASSUME TableInv, NEW t \in Thread
  PROVE  /\ Invoke(t) => AM!Invoke(t)
         /\ Lock(t) \/ Find(t) => UNCHANGED <<Table, call, result>>
         /\ Unlock(t) => AM!Return(t)
<1>1. data' = data => Table' = Table
  BY DEF Table
<1>2. call[t] = NoCall <=> pc[t] = "idle"
  BY DEF TableInv, CallInProgress
<1>3. result[t] # Pending <=> pc[t] = "unlock"
  BY DEF TableInv, CallInProgress
<1>4. ASSUME Invoke(t) PROVE AM!Invoke(t)
  BY <1>1, <1>2, <1>4 DEF Invoke, At, AM!Invoke, AM!NoCall, NoCall
<1>5. ASSUME Lock(t) \/ Find(t) PROVE UNCHANGED <<Table, call, result>>
  BY <1>1, <1>5 DEF Lock, LockShared, LockUnique, Find
<1>6. ASSUME Unlock(t) PROVE AM!Return(t)
  BY <1>1, <1>3, <1>6 DEF Unlock, At, AM!Return, AM!NoCall, NoCall
<1> QED
  BY <1>4, <1>5, <1>6

\* The table is linearizable: from outside, each call takes effect at once
\* (cchash.h:21-39), whatever the threads, keys, values, buckets and hash.
THEOREM Linearizability == Spec => Linearizable
<1>1. TableInv /\ [Next]_vars => [AM!Next]_(AM!vars)
  <2> SUFFICES ASSUME TableInv, [Next]_vars PROVE [AM!Next]_(AM!vars)
    OBVIOUS
  <2>1. ASSUME NEW t \in Thread, Invoke(t) PROVE AM!Next
    BY <2>1, OtherStepsRefine DEF AM!Next
  <2>2. ASSUME NEW t \in Thread, Lock(t) \/ Find(t) PROVE UNCHANGED AM!vars
    BY <2>2, OtherStepsRefine DEF AM!vars
  <2>3. ASSUME NEW t \in Thread, Operation(t) PROVE AM!Next
    BY <2>3, OperationRefines DEF AM!Next
  <2>4. ASSUME NEW t \in Thread, Unlock(t) PROVE AM!Next
    BY <2>4, OtherStepsRefine DEF AM!Next
  <2>5. CASE UNCHANGED vars
    BY <2>5 DEF vars, AM!vars, Table
  <2> QED
    BY <2>1, <2>2, <2>3, <2>4, <2>5 DEF Next
<1>2. Init => AM!Init
  BY RefineInit
<1> QED
  BY <1>1, <1>2, InitInv, StepInv, PTL DEF Spec, Linearizable, AM!Spec


=============================================================================

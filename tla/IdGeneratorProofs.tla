------------------------- MODULE IdGeneratorProofs -------------------------
(***************************************************************************)
(* Proofs about IdGenerator: the types, and that no id is handed out twice  *)
(* as long as what the generator takes for granted holds.                   *)
(***************************************************************************)
EXTENDS IdGenerator, TLAPS

Sequence == 0 .. (SequenceSize - 1)

\* What the generator takes for granted: no more than 4096 ids in a second, no restart
\* within one, and machine codes that differ in the ten bits that it keeps.
Granted ==
  /\ MaxPerSecond <= SequenceSize
  /\ SameSecond => MaxRestarts = 0
  /\ \A r, s \in Server :
       MachineField(MachineCode[r]) = MachineField(MachineCode[s]) => r = s

\* The last c sequence numbers before sequence, going round.
Recent(q, sequence, c) ==
  IF c <= sequence THEN q \in (sequence - c) .. (sequence - 1)
                   ELSE q < sequence \/ q >= SequenceSize + sequence - c

\* i was made by s in the second sec with the sequence number q, ...
MadeOf(i, s, sec, q) == i = IdOf(s, sec, q) /\ sec <= GetSec
\* ... and recently, if in this second.
MadeBy(i, s, sec, q) ==
  MadeOf(i, s, sec, q) /\ (sec = GetSec => Recent(q, sequence_[s], count[s]))

IdsAreMade ==
  \A i \in issued : \E s \in Server, sec \in Nat, q \in Sequence : MadeBy(i, s, sec, q)

IdInv == TypeOK /\ IdsAreMade

-----------------------------------------------------------------------------
(* Arithmetic.                                                             *)

\* Division and remainder by a positive number.
LEMMA Division ==
  ASSUME NEW a \in Nat, NEW b \in Nat \ {0}
  PROVE  /\ a \div b \in Nat /\ a % b \in 0 .. (b - 1)
         /\ a = b * (a \div b) + (a % b)
  OBVIOUS

\* A product grows with its factor.
LEMMA ProductGrows ==
  ASSUME NEW a \in Nat, NEW b \in Nat, NEW n \in Nat, a < b
  PROVE  a * n + n <= b * n
<1>1. PICK d \in Nat : b = a + 1 + d
  <2>1. b = a + 1 + (b - a - 1) /\ b - a - 1 \in Nat
    OBVIOUS
  <2>. QED  BY <2>1
<1>2. b * n = a * n + n + d * n
  BY <1>1
<1>3. d * n \in Nat
  BY <1>1
<1>. QED  BY <1>2, <1>3

\* A number is its quotient and its remainder in one way only.
LEMMA DigitsUnique ==
  ASSUME NEW n \in Nat \ {0}, NEW a \in Nat, NEW b \in Nat,
         NEW p \in 0 .. (n - 1), NEW q \in 0 .. (n - 1), a * n + p = b * n + q
  PROVE  a = b /\ p = q
<1>0. a * n \in Nat /\ b * n \in Nat
  OBVIOUS
<1>1. CASE a < b
  <2>1. a * n + n <= b * n
    BY <1>1, ProductGrows
  <2>. QED  BY <2>1, <1>0
<1>2. CASE b < a
  <2>1. b * n + n <= a * n
    BY <1>2, ProductGrows
  <2>. QED  BY <2>1, <1>0
<1>3. CASE a = b
  BY <1>3, <1>0
<1>. QED  BY <1>1, <1>2, <1>3

\* The clock's second never goes back when the clock does not.
LEMMA SecondsGrow ==
  ASSUME NEW a \in Nat, NEW b \in Nat, a <= b
  PROVE  a \div SecondSize <= b \div SecondSize
<1>. DEFINE p == a \div SecondSize  r == b \div SecondSize
<1>0. SecondSize \in Nat \ {0}
  BY SizesAssumption
<1>1. /\ p \in Nat /\ a % SecondSize \in 0 .. (SecondSize - 1)
      /\ a = SecondSize * p + (a % SecondSize)
  BY <1>0, Division
<1>2. /\ r \in Nat /\ b % SecondSize \in 0 .. (SecondSize - 1)
      /\ b = SecondSize * r + (b % SecondSize)
  BY <1>0, Division
<1>3. ASSUME r < p  PROVE FALSE
  <2>1. r * SecondSize + SecondSize <= p * SecondSize
    BY <1>0, <1>1, <1>2, <1>3, ProductGrows
  <2>2. r * SecondSize = SecondSize * r /\ p * SecondSize = SecondSize * p
    BY <1>0, <1>1, <1>2
  <2>3. SecondSize * r \in Nat /\ SecondSize * p \in Nat
    BY <1>0, <1>1, <1>2
  <2>. HIDE DEF p, r
  <2>. QED  BY <1>0, <1>1, <1>2, <2>1, <2>2, <2>3
<1>. QED  BY <1>1, <1>2, <1>3

\* The first reading of the next second is in it.
LEMMA NextSecond ==
  ASSUME NEW k \in Nat
  PROVE  (k * SecondSize) \div SecondSize = k
<1>. DEFINE a == k * SecondSize
<1>0. SecondSize \in Nat \ {0} /\ a \in Nat
  BY SizesAssumption
<1>1. /\ a \div SecondSize \in Nat /\ a % SecondSize \in 0 .. (SecondSize - 1)
      /\ a = SecondSize * (a \div SecondSize) + (a % SecondSize)
  <2>. HIDE DEF a
  <2>. QED  BY <1>0, Division
<1>2. k * SecondSize + 0 = (a \div SecondSize) * SecondSize + (a % SecondSize)
  BY <1>0, <1>1
<1>3. 0 \in 0 .. (SecondSize - 1)
  BY <1>0
<1>4. k = a \div SecondSize
  <2>. HIDE DEF a
  <2>. QED  BY <1>0, <1>1, <1>2, <1>3, DigitsUnique
<1>. QED  BY <1>4

\* The machine's field is one of MachineSize.
LEMMA FieldBounded ==
  ASSUME NEW s \in Server
  PROVE  MachineField(MachineCode[s]) \in 0 .. (MachineSize - 1)
<1>. DEFINE m == MachineCode[s] \div SequenceSize
<1>1. m \in Nat
  BY MachineAssumption, SizesAssumption, Division
<1>2. m % MachineSize \in 0 .. (MachineSize - 1)
  <2>. HIDE DEF m
  <2>. QED  BY <1>1, SizesAssumption, Division
<1>. QED  BY <1>2 DEF MachineField

\* An id says which second, machine and sequence number it is made of.
LEMMA IdOfInjective ==
  ASSUME NEW r \in Server, NEW s \in Server, NEW k \in Nat, NEW n \in Nat,
         NEW p \in Sequence, NEW q \in Sequence, IdOf(r, k, p) = IdOf(s, n, q)
  PROVE  k = n /\ p = q /\ MachineField(MachineCode[r]) = MachineField(MachineCode[s])
<1>. DEFINE fr == MachineField(MachineCode[r])  fs == MachineField(MachineCode[s])
<1>. DEFINE hr == k * MachineSize + fr  hs == n * MachineSize + fs
<1>0. /\ SequenceSize \in Nat \ {0} /\ MachineSize \in Nat \ {0}
      /\ fr \in 0 .. (MachineSize - 1) /\ fs \in 0 .. (MachineSize - 1)
  BY SizesAssumption, FieldBounded
<1>1. p % SequenceSize = p /\ q % SequenceSize = q
  BY SizesAssumption DEF Sequence
<1>2. hr * SequenceSize + p = hs * SequenceSize + q
  BY <1>1 DEF IdOf
<1>3. hr \in Nat /\ hs \in Nat
  <2>. HIDE DEF fr, fs
  <2>. QED  BY <1>0
<1>4. hr = hs /\ p = q
  <2>. HIDE DEF hr, hs
  <2>. QED  BY <1>0, <1>2, <1>3, DigitsUnique DEF Sequence
<1>5. k = n /\ fr = fs
  <2>. HIDE DEF fr, fs
  <2>. QED  BY <1>0, <1>4, DigitsUnique
<1>. QED  BY <1>4, <1>5

\* An id is a natural number.
LEMMA IdIsNat ==
  ASSUME NEW s \in Server, NEW k \in Nat, NEW q \in Sequence
  PROVE  IdOf(s, k, q) \in Nat
<1>. DEFINE f == MachineField(MachineCode[s])
<1>1. SequenceSize \in Nat \ {0} /\ MachineSize \in Nat /\ f \in Nat
  BY SizesAssumption, FieldBounded
<1>2. q % SequenceSize \in Nat
  BY <1>1 DEF Sequence
<1>3. k * MachineSize + f \in Nat
  <2>. HIDE DEF f
  <2>. QED  BY <1>1
<1>4. ASSUME NEW h \in Nat, NEW r \in Nat  PROVE h * SequenceSize + r \in Nat
  BY <1>1
<1>. QED  BY <1>2, <1>3, <1>4 DEF IdOf

-----------------------------------------------------------------------------
(* The types.                                                              *)

LEMMA SecondIsNat == ASSUME TypeOK  PROVE GetSec \in Nat
<1>1. now \in 0 .. MaxTime
  BY DEF TypeOK
<1>2. now \in Nat /\ SecondSize \in Nat \ {0}
  BY <1>1, SizesAssumption, IdBoundsAssumption
<1>. QED  BY <1>2, Division DEF GetSec

LEMMA TypeInit == Init => TypeOK
BY SizesAssumption, IdBoundsAssumption DEF Init, TypeOK, Zero, NoPair

LEMMA TypeStep == TypeOK /\ [Next]_vars => TypeOK'
<1>. SUFFICES ASSUME TypeOK, [Next]_vars  PROVE TypeOK'
  OBVIOUS
<1>. USE IdBoundsAssumption, SizesAssumption, ServerOfAssumption
<1>a. now \in 0 .. MaxTime /\ restarts \in 0 .. MaxRestarts
  BY DEF TypeOK
<1>b. count \in [Server -> 0 .. MaxPerSecond]
  BY DEF TypeOK
<1>c. sequence_ \in [Server -> 0 .. (SequenceSize - 1)]
  BY DEF TypeOK
<1>0. GetSec \in Nat /\ now \in Nat
  BY <1>a, SecondIsNat
<1>1. ASSUME NEW t \in Thread, ReadSeconds(t)  PROVE TypeOK'
  BY <1>0, <1>1 DEF TypeOK, ReadSeconds, Goto, generator
<1>2. ASSUME NEW t \in Thread, StoreSeconds(t)  PROVE TypeOK'
  BY <1>2 DEF TypeOK, StoreSeconds, Goto
<1>3. ASSUME NEW t \in Thread, ReadUseconds(t)  PROVE TypeOK'
  BY <1>0, <1>3 DEF TypeOK, ReadUseconds, Goto, generator, GetMicroSec
<1>4. ASSUME NEW t \in Thread, StoreUseconds(t)  PROVE TypeOK'
  BY <1>4 DEF TypeOK, StoreUseconds, Goto
<1>5. ASSUME NEW t \in Thread, GetId(t)  PROVE TypeOK'
  <2>1. NewId(t) \in Nat
    BY <1>0, IdIsNat DEF TypeOK, NewId, Sequence
  <2>. DEFINE s == ServerOf[t]
  <2>a. s \in Server
    OBVIOUS
  <2>b. /\ sequence_' = [sequence_ EXCEPT ![s] = Successor(@)]
        /\ count' = [count EXCEPT ![s] = @ + 1] /\ count[s] < MaxPerSecond
    BY <1>5 DEF GetId
  <2>. HIDE DEF s
  <2>2. sequence_' \in [Server -> 0 .. (SequenceSize - 1)]
    BY <2>a, <2>b, <1>c DEF Successor
  <2>3. count' \in [Server -> 0 .. MaxPerSecond]
    BY <2>a, <2>b, <1>b
  <2>. QED  BY <1>5, <2>1, <2>2, <2>3 DEF TypeOK, GetId, Goto
<1>6. ASSUME NEW t \in Thread, CopySeconds(t)  PROVE TypeOK'
  BY <1>6 DEF TypeOK, CopySeconds, Goto, generator
<1>7. ASSUME NEW t \in Thread, CopyUseconds(t)  PROVE TypeOK'
  BY <1>7 DEF TypeOK, CopyUseconds, Goto, generator
<1>8. ASSUME NEW t \in Thread, Return(t)  PROVE TypeOK'
  BY <1>8 DEF TypeOK, Return, Goto, generator, NoPair
<1>9. ASSUME NEW s \in Server, Restart(s)  PROVE TypeOK'
  <2>1. (GetSec + 1) * SecondSize \in Nat
    BY <1>0
  <2>2. now' \in 0 .. MaxTime
    BY <1>0, <1>9, <2>1 DEF Restart, Advance
  <2>3. count' \in [Server -> 0 .. MaxPerSecond]
    BY <1>9, <1>b DEF Restart, Advance
  <2>4. restarts' \in 0 .. MaxRestarts
    BY <1>9, <1>a DEF Restart
  <2>5. sequence_' \in [Server -> 0 .. (SequenceSize - 1)]
    BY <1>9, <1>c DEF Restart
  <2>6. time_' \in [Server -> [seconds : Nat, useconds : Nat]]
    BY <1>9 DEF TypeOK, Restart, Zero
  <2>7. /\ pc' \in [Thread -> {"idle", "store seconds", "read useconds",
                  "store useconds", "get id", "copy seconds", "copy useconds", "return"}]
        /\ reading' \in [Thread -> Nat] /\ called' \in [Thread -> Nat]
    BY <1>9 DEF TypeOK, Restart
  <2>8. pair' \in [Thread -> [id : Nat, seconds : Nat, useconds : Nat]]
    BY <1>9 DEF TypeOK, Restart, NoPair
  <2>9. issued' \in SUBSET Nat
    BY <1>9 DEF TypeOK, Restart
  <2>. QED  BY <2>2, <2>3, <2>4, <2>5, <2>6, <2>7, <2>8, <2>9 DEF TypeOK
<1>10. CASE Tick
  <2>1. count' \in [Server -> 0 .. MaxPerSecond]
    BY <1>10, <1>b DEF Tick, Advance
  <2>2. now' \in 0 .. MaxTime
    BY <1>0, <1>10 DEF Tick, Advance
  <2>. QED  BY <1>10, <2>1, <2>2 DEF TypeOK, Tick, Advance, generator, thread
<1>11. CASE UNCHANGED vars
  BY <1>11 DEF TypeOK, vars, generator, thread
<1>. QED
  BY <1>1, <1>2, <1>3, <1>4, <1>5, <1>6, <1>7, <1>8, <1>9, <1>10, <1>11 DEF Next, Call

\* The types hold for any number of threads and processes; the sequence number of a
\* generator, incremented and reset under the mutex, stays below its size.
THEOREM TypeCorrect == Spec => []TypeOK
<1>. QED  BY TypeInit, TypeStep, PTL DEF Spec

-----------------------------------------------------------------------------
(* Uniqueness.                                                             *)

\* The types of what uniqueness is about.
LEMMA Counters ==
  ASSUME TypeOK
  PROVE  /\ sequence_ \in [Server -> Sequence]
         /\ count \in [Server -> Nat] /\ \A s \in Server : count[s] <= MaxPerSecond
         /\ now \in Nat /\ restarts \in Nat /\ GetSec \in Nat
<1>1. sequence_ \in [Server -> Sequence]
  BY DEF TypeOK, Sequence
<1>2. count \in [Server -> 0 .. MaxPerSecond]
  BY DEF TypeOK
<1>3. now \in 0 .. MaxTime /\ restarts \in 0 .. MaxRestarts
  BY DEF TypeOK
<1>. QED  BY <1>1, <1>2, <1>3, SecondIsNat, IdBoundsAssumption

\* Every step but GetId leaves the generators' sequence numbers alone or starts a
\* second, in which none has been used yet.
LEMMA OtherStep ==
  ASSUME TypeOK, TypeOK', IdsAreMade, issued' = issued,
         \/ now' = now /\ sequence_' = sequence_ /\ count' = count
         \/ /\ GetSec' = GetSec /\ sequence_' = sequence_ /\ count' = count
         \/ GetSec' > GetSec
  PROVE  IdsAreMade'
<1>. SUFFICES ASSUME NEW i \in issued
              PROVE  \E s \in Server, sec \in Nat, q \in Sequence : MadeBy(i, s, sec, q)'
  BY DEF IdsAreMade
<1>1. PICK s \in Server, sec \in Nat, q \in Sequence : MadeBy(i, s, sec, q)
  BY DEF IdsAreMade
<1>2. GetSec \in Nat /\ GetSec' \in Nat
  <2>1. now' \in 0 .. MaxTime
    BY DEF TypeOK
  <2>2. PICK a \in Nat : a = now'
    BY <2>1, IdBoundsAssumption
  <2>3. a \div SecondSize \in Nat
    BY SizesAssumption, Division
  <2>. QED  BY <2>2, <2>3, SecondIsNat DEF GetSec
<1>3. CASE now' = now /\ sequence_' = sequence_ /\ count' = count
  <2>1. GetSec' = GetSec
    BY <1>3 DEF GetSec
  <2>. QED  BY <1>1, <1>3, <2>1 DEF MadeBy, MadeOf
<1>4. CASE GetSec' = GetSec /\ sequence_' = sequence_ /\ count' = count
  BY <1>1, <1>4 DEF MadeBy, MadeOf
<1>5. CASE GetSec' > GetSec
  <2>1. sec <= GetSec' /\ sec # GetSec'
    BY <1>1, <1>2, <1>5 DEF MadeBy, MadeOf
  <2>. QED  BY <1>1, <2>1 DEF MadeBy, MadeOf
<1>. QED  BY <1>3, <1>4, <1>5

\* A sequence number used recently is so after one more, and so is the one just used.
LEMMA StillRecent ==
  ASSUME NEW sequence \in Sequence, NEW c \in Nat, c < SequenceSize, NEW q \in Sequence,
         q = sequence \/ Recent(q, sequence, c)
  PROVE  Recent(q, Successor(sequence), c + 1)
BY SizesAssumption DEF Sequence, Recent, Successor

\* The one about to be used has not been used recently.
LEMMA NextIsNew ==
  ASSUME NEW sequence \in Sequence, NEW c \in Nat, c < SequenceSize
  PROVE  ~Recent(sequence, sequence, c)
BY SizesAssumption DEF Sequence, Recent

\* The next id of a thread is not one of those handed out.
LEMMA NewIdIsNew ==
  ASSUME Granted, IdInv, NEW t \in Thread, GetId(t)
  PROVE  NewId(t) \notin issued
<1>. SUFFICES ASSUME NewId(t) \in issued  PROVE FALSE
  OBVIOUS
<1>. DEFINE r == ServerOf[t]
<1>1. r \in Server /\ GetSec \in Nat /\ sequence_[r] \in Sequence /\ count[r] \in Nat
  BY ServerOfAssumption, Counters DEF IdInv
<1>2. count[r] < SequenceSize
  <2>1. count[r] < MaxPerSecond
    BY DEF GetId
  <2>. QED  BY <1>1, <2>1, IdBoundsAssumption, SizesAssumption DEF Granted
<1>3. PICK s \in Server, sec \in Nat, q \in Sequence : MadeBy(NewId(t), s, sec, q)
  BY DEF IdInv, IdsAreMade
<1>4. IdOf(s, sec, q) = IdOf(r, GetSec, sequence_[r])
  BY <1>3 DEF MadeBy, MadeOf, NewId
<1>5. PICK now_sec \in Nat, next \in Sequence : now_sec = GetSec /\ next = sequence_[r]
  BY <1>1
<1>. HIDE DEF r
<1>6. /\ sec = now_sec /\ q = next
      /\ MachineField(MachineCode[s]) = MachineField(MachineCode[r])
  <2>1. PICK owner \in Server : owner = r
    BY <1>1
  <2>2. IdOf(s, sec, q) = IdOf(owner, now_sec, next)
    BY <1>4, <1>5, <2>1
  <2>. QED  BY <2>1, <2>2, IdOfInjective
<1>7. s = r
  BY <1>1, <1>6 DEF Granted
<1>8. Recent(next, next, count[r])
  BY <1>3, <1>5, <1>6, <1>7 DEF MadeBy
<1>. QED
  <2>1. PICK c \in Nat : c = count[r]
    BY <1>1
  <2>. QED  BY <1>2, <1>8, <2>1, NextIsNew

LEMMA MadeStep ==
  ASSUME Granted, IdInv, TypeOK', [Next]_vars
  PROVE  IdsAreMade'
<1>0. now \in Nat /\ now' \in Nat /\ GetSec \in Nat /\ SecondSize \in Nat \ {0}
  <2>1. now \in 0 .. MaxTime /\ now' \in 0 .. MaxTime
    BY DEF IdInv, TypeOK
  <2>. QED  BY <2>1, SecondIsNat, SizesAssumption, IdBoundsAssumption DEF IdInv
<1>1. ASSUME NEW t \in Thread, Call(t), ~GetId(t)  PROVE IdsAreMade'
  <2>1. now' = now /\ sequence_' = sequence_ /\ count' = count /\ issued' = issued
    BY <1>1 DEF Call, ReadSeconds, StoreSeconds, ReadUseconds, StoreUseconds,
                CopySeconds, CopyUseconds, Return, generator
  <2>. QED  BY <2>1, OtherStep DEF IdInv
<1>2. ASSUME NEW t \in Thread, GetId(t)  PROVE IdsAreMade'
  <2>. DEFINE r == ServerOf[t]
  <2>1. r \in Server /\ sequence_[r] \in Sequence /\ count[r] \in Nat
    BY ServerOfAssumption, Counters DEF IdInv
  <2>2. /\ now' = now /\ issued' = issued \cup {NewId(t)}
        /\ sequence_' = [sequence_ EXCEPT ![r] = Successor(@)]
        /\ count' = [count EXCEPT ![r] = @ + 1] /\ count[r] < MaxPerSecond
    BY <1>2 DEF GetId
  <2>3. count[r] < SequenceSize
    BY <2>1, <2>2, IdBoundsAssumption, SizesAssumption DEF Granted
  <2>4. GetSec' = GetSec
    BY <2>2 DEF GetSec
  <2>5. \A s \in Server : IF s = r
          THEN sequence_'[s] = Successor(sequence_[s]) /\ count'[s] = count[s] + 1
          ELSE sequence_'[s] = sequence_[s] /\ count'[s] = count[s]
    BY <2>2 DEF IdInv, TypeOK
  <2>6. \A q \in Sequence : q = sequence_[r] \/ Recent(q, sequence_[r], count[r])
                             => Recent(q, Successor(sequence_[r]), count[r] + 1)
    <3>1. PICK sequence \in Sequence, c \in Nat : sequence = sequence_[r] /\ c = count[r]
      BY <2>1
    <3>. QED  BY <2>3, <3>1, StillRecent
  <2>7. NewId(t) = IdOf(r, GetSec, sequence_[r])
    BY DEF NewId
  <2>. HIDE DEF r
  <2>8. PICK owner \in Server, sec \in Nat, q \in Sequence, new \in {NewId(t)} :
          owner = r /\ sec = GetSec /\ q = sequence_[r] /\ new = NewId(t)
    BY <1>0, <2>1
  <2>9. MadeBy(new, owner, sec, q)'
    <3>1. Recent(q, sequence_'[owner], count'[owner])
      BY <2>1, <2>5, <2>6, <2>8
    <3>2. new = IdOf(owner, sec, q) /\ sec <= GetSec'
      BY <1>0, <2>4, <2>7, <2>8
    <3>. QED  BY <3>1, <3>2 DEF MadeBy, MadeOf
  <2>10. ASSUME NEW i \in issued
         PROVE  \E s \in Server, m \in Nat, p \in Sequence : MadeBy(i, s, m, p)'
    <3>1. PICK s \in Server, m \in Nat, p \in Sequence : MadeBy(i, s, m, p)
      BY DEF IdInv, IdsAreMade
    <3>2. m = GetSec => Recent(p, sequence_'[s], count'[s])
      BY <2>5, <2>6, <3>1 DEF MadeBy
    <3>3. MadeBy(i, s, m, p)'
      BY <2>4, <3>1, <3>2 DEF MadeBy, MadeOf
    <3>. QED  BY <3>3
  <2>. QED  BY <2>2, <2>8, <2>9, <2>10 DEF IdsAreMade
<1>3. ASSUME NEW s \in Server, Restart(s)  PROVE IdsAreMade'
  <2>1. ~SameSecond
    <3>1. restarts \in Nat /\ restarts < MaxRestarts
      BY <1>3, Counters DEF Restart, IdInv
    <3>. QED  BY <3>1, IdBoundsAssumption DEF Granted
  <2>2. now' = (GetSec + 1) * SecondSize /\ issued' = issued
    BY <1>3, <2>1 DEF Restart, Advance
  <2>3. GetSec' = GetSec + 1
    <3>1. PICK k \in Nat : k = GetSec + 1
      BY <1>0
    <3>. QED  BY <2>2, <3>1, NextSecond DEF GetSec
  <2>. QED  BY <1>0, <2>2, <2>3, OtherStep DEF IdInv
<1>4. CASE Tick
  <2>1. now' = now + 1 /\ issued' = issued /\ sequence_' = sequence_
    BY <1>4 DEF Tick, Advance, generator
  <2>2. GetSec' \in Nat /\ GetSec <= GetSec'
    <3>1. PICK a \in Nat, b \in Nat : a = now /\ b = now'
      BY <1>0
    <3>. QED  BY <1>0, <2>1, <3>1, SecondsGrow, Division DEF GetSec
  <2>3. GetSec' = GetSec => count' = count
    BY <1>4, <2>1 DEF Tick, Advance, GetSec, IdInv, TypeOK
  <2>. QED  BY <1>0, <2>1, <2>2, <2>3, OtherStep DEF IdInv
<1>5. CASE UNCHANGED vars
  BY <1>5, OtherStep DEF IdInv, vars, generator
<1>. QED  BY <1>1, <1>2, <1>3, <1>4, <1>5 DEF Next

\* The generator hands out no id twice, for any number of threads and processes, if no
\* process needs more than SequenceSize ids in a second or is back within the second
\* it died in, and if machine codes differ above their lowest bits.
THEOREM IdsNeverRepeat ==
  ASSUME Granted
  PROVE  Spec => IdsUnique
<1>1. Init => IdInv
  BY TypeInit DEF IdInv, IdsAreMade, Init
<1>2. IdInv /\ [Next]_vars => IdInv'
  BY TypeStep, MadeStep DEF IdInv
<1>3. IdInv /\ [Next]_vars => [\A t \in Thread : GetId(t) => NewId(t) \notin issued]_vars
  BY NewIdIsNew
<1>. QED  BY <1>1, <1>2, <1>3, PTL DEF Spec, IdsUnique

-----------------------------------------------------------------------------
(* The time of a pair.                                                     *)

\* A time that t may return: of the clock since it was called.
Sec(t, x) == x \in (called[t] \div SecondSize) .. GetSec
Usec(t, x) == x \in called[t] .. now

\* What is in the thread's hand, in time_ and in the pair, as far as it has got.
HasTime(t) ==
  LET time == time_[ServerOf[t]]
  IN  /\ called[t] \in 0 .. now
      /\ pc[t] = "store seconds" => Sec(t, reading[t])
      /\ pc[t] \in {"read useconds", "store useconds", "get id", "copy seconds"} =>
           Sec(t, time.seconds)
      /\ pc[t] = "store useconds" => Usec(t, reading[t])
      /\ pc[t] \in {"get id", "copy seconds", "copy useconds"} => Usec(t, time.useconds)
      /\ pc[t] \in {"copy useconds", "return"} => Sec(t, pair[t].seconds)
      /\ pc[t] = "return" => Usec(t, pair[t].useconds)

TimeInv == \A t \in Thread : Alone(t) => HasTime(t)

\* The clock does not go back, and a time of the past stays one.
LEMMA ClockRuns ==
  ASSUME TypeOK, TypeOK', [Next]_vars
  PROVE  /\ now \in Nat /\ now' \in Nat /\ now <= now'
         /\ GetSec \in Nat /\ GetSec' \in Nat /\ GetSec <= GetSec'
<1>0. now \in Nat /\ now' \in Nat /\ GetSec \in Nat /\ SecondSize \in Nat \ {0}
  <2>1. now \in 0 .. MaxTime /\ now' \in 0 .. MaxTime
    BY DEF TypeOK
  <2>. QED  BY <2>1, SecondIsNat, SizesAssumption, IdBoundsAssumption
<1>1. ASSUME NEW t \in Thread, Call(t)  PROVE now' = now
  BY <1>1 DEF Call, ReadSeconds, StoreSeconds, ReadUseconds, StoreUseconds, GetId,
              CopySeconds, CopyUseconds, Return
<1>2. ASSUME NEW s \in Server, Restart(s)  PROVE now <= now'
  <2>1. now' = now \/ now' = (GetSec + 1) * SecondSize
    BY <1>2 DEF Restart, Advance
  <2>2. now <= (GetSec + 1) * SecondSize
    <3>1. PICK a \in Nat : a = now
      BY <1>0
    <3>. DEFINE k == a \div SecondSize
    <3>2. /\ k \in Nat /\ a % SecondSize \in 0 .. (SecondSize - 1)
          /\ a = SecondSize * k + (a % SecondSize)
      BY <1>0, Division
    <3>3. SecondSize * k = k * SecondSize /\ k * SecondSize \in Nat
      BY <1>0, <3>2
    <3>4. (k + 1) * SecondSize = k * SecondSize + SecondSize
      BY <1>0, <3>2
    <3>. HIDE DEF k
    <3>5. a <= (k + 1) * SecondSize
      BY <1>0, <3>2, <3>3, <3>4
    <3>. QED  BY <3>1, <3>5 DEF GetSec, k
  <2>. QED  BY <1>0, <2>1, <2>2
<1>3. Tick => now' = now + 1
  BY DEF Tick, Advance
<1>4. UNCHANGED vars => now' = now
  BY DEF vars
<1>5. now <= now'
  BY <1>0, <1>1, <1>2, <1>3, <1>4 DEF Next
<1>6. GetSec' \in Nat /\ GetSec <= GetSec'
  <2>1. PICK a \in Nat, b \in Nat : a = now /\ b = now'
    BY <1>0
  <2>. QED  BY <1>0, <1>5, <2>1, SecondsGrow, Division DEF GetSec
<1>. QED  BY <1>0, <1>5, <1>6

\* What was a time that t may return still is one, if it was not called again.
LEMMA TimeStays ==
  ASSUME TypeOK, TypeOK', [Next]_vars, NEW t \in Thread, called'[t] = called[t],
         called[t] \in 0 .. now
  PROVE  /\ called'[t] \in 0 .. now'
         /\ \A x : Sec(t, x) => Sec(t, x)'
         /\ \A x : Usec(t, x) => Usec(t, x)'
<1>1. /\ now \in Nat /\ now' \in Nat /\ now <= now'
      /\ GetSec \in Nat /\ GetSec' \in Nat /\ GetSec <= GetSec'
  BY ClockRuns
<1>2. called[t] \in Nat
  BY DEF TypeOK
<1>3. called[t] \div SecondSize \in Nat
  BY <1>2, SizesAssumption, Division
<1>4. ASSUME NEW x, Sec(t, x)  PROVE Sec(t, x)'
  <2>1. PICK a \in Nat : a = called[t] \div SecondSize
    BY <1>3
  <2>2. x \in a .. GetSec
    BY <1>4, <2>1 DEF Sec
  <2>3. x \in a .. GetSec'
    BY <1>1, <2>2
  <2>. QED  BY <2>1, <2>3 DEF Sec
<1>5. ASSUME NEW x, Usec(t, x)  PROVE Usec(t, x)'
  BY <1>1, <1>2, <1>5 DEF Usec
<1>. QED  BY <1>1, <1>2, <1>4, <1>5

\* A step that is not the thread's own does not touch what it is about to return.
LEMMA TimeQuiet ==
  ASSUME TypeOK, TypeOK', [Next]_vars, NEW t \in Thread, HasTime(t),
         called'[t] = called[t], pc'[t] = pc[t], reading'[t] = reading[t],
         pair'[t] = pair[t], time_'[ServerOf[t]] = time_[ServerOf[t]]
  PROVE  HasTime(t)'
<1>1. called[t] \in 0 .. now
  BY DEF HasTime
<1>2. /\ called'[t] \in 0 .. now'
      /\ \A x : Sec(t, x) => Sec(t, x)'
      /\ \A x : Usec(t, x) => Usec(t, x)'
  BY <1>1, TimeStays
<1>. QED  BY <1>2 DEF HasTime

\* A step of t itself, with a thread to itself.
LEMMA TimeOwn ==
  ASSUME TypeOK, TypeOK', [Next]_vars, NEW t \in Thread, HasTime(t), Call(t)
  PROVE  HasTime(t)'
<1>. DEFINE s == ServerOf[t]
<1>0. /\ s \in Server /\ now \in Nat /\ now' = now /\ GetSec \in Nat /\ GetSec' = GetSec
  <2>1. now' = now
    BY DEF Call, ReadSeconds, StoreSeconds, ReadUseconds, StoreUseconds, GetId,
           CopySeconds, CopyUseconds, Return
  <2>. QED  BY <2>1, ClockRuns, ServerOfAssumption DEF GetSec
<1>1. called[t] \in 0 .. now /\ called[t] \in Nat
  BY DEF HasTime, TypeOK
<1>a. now \in 0 .. now' /\ 0 \in 0 .. now' /\ now \in called[t] .. now'
  <2>1. PICK a \in Nat, b \in Nat : a = now /\ b = called[t]
    BY <1>0, <1>1
  <2>. QED  BY <1>0, <1>1, <2>1
<1>2. /\ DOMAIN pc = Thread /\ reading \in [Thread -> Nat]
      /\ called \in [Thread -> Nat]
      /\ pair \in [Thread -> [id : Nat, seconds : Nat, useconds : Nat]]
      /\ time_ \in [Server -> [seconds : Nat, useconds : Nat]]
  BY DEF TypeOK
<1>3. called'[t] = called[t] =>
        /\ called'[t] \in 0 .. now'
        /\ \A x : Sec(t, x) => Sec(t, x)'
        /\ \A x : Usec(t, x) => Usec(t, x)'
  BY <1>1, TimeStays
<1>4. CASE ReadSeconds(t)
  <2>1. called'[t] = now /\ reading'[t] = GetSec /\ pc'[t] = "store seconds"
    BY <1>2, <1>4 DEF ReadSeconds, Goto
  <2>2. Sec(t, reading[t])'
    <3>1. PICK a \in Nat : a = GetSec
      BY <1>0
    <3>2. called'[t] \div SecondSize = a /\ reading'[t] = a /\ GetSec' = a
      BY <1>0, <2>1, <3>1 DEF GetSec
    <3>3. a \in a .. a
      OBVIOUS
    <3>. QED  BY <3>2, <3>3 DEF Sec
  <2>3. called'[t] \in 0 .. now'
    BY <1>a, <2>1
  <2>. QED  BY <2>1, <2>2, <2>3 DEF HasTime
<1>5. CASE StoreSeconds(t)
  <2>1. /\ pc[t] = "store seconds" /\ pc'[t] = "read useconds"
        /\ called' = called /\ time_'[s].seconds = reading[t]
    BY <1>0, <1>2, <1>5 DEF StoreSeconds, Goto
  <2>2. Sec(t, reading[t])
    BY <2>1 DEF HasTime
  <2>. QED  BY <1>3, <2>1, <2>2 DEF HasTime
<1>6. CASE ReadUseconds(t)
  <2>1. /\ pc[t] = "read useconds" /\ pc'[t] = "store useconds"
        /\ called' = called /\ time_' = time_ /\ reading'[t] = now
    BY <1>2, <1>6 DEF ReadUseconds, Goto, GetMicroSec, generator
  <2>2. Usec(t, reading[t])'
    BY <1>a, <2>1 DEF Usec
  <2>. QED  BY <1>3, <2>1, <2>2 DEF HasTime
<1>7. CASE StoreUseconds(t)
  <2>1. /\ pc[t] = "store useconds" /\ pc'[t] = "get id" /\ called' = called
        /\ time_'[s].useconds = reading[t] /\ time_'[s].seconds = time_[s].seconds
    BY <1>0, <1>2, <1>7 DEF StoreUseconds, Goto
  <2>2. Usec(t, reading[t]) /\ Sec(t, time_[s].seconds)
    BY <2>1 DEF HasTime
  <2>. QED  BY <1>3, <2>1, <2>2 DEF HasTime
<1>8. CASE GetId(t)
  <2>1. /\ pc[t] = "get id" /\ pc'[t] = "copy seconds"
        /\ called' = called /\ time_' = time_
    BY <1>2, <1>8 DEF GetId, Goto
  <2>. QED  BY <1>3, <2>1 DEF HasTime
<1>9. CASE CopySeconds(t)
  <2>1. /\ pc[t] = "copy seconds" /\ pc'[t] = "copy useconds"
        /\ called' = called /\ time_' = time_ /\ pair'[t].seconds = time_[s].seconds
    BY <1>2, <1>9 DEF CopySeconds, Goto, generator
  <2>2. Sec(t, time_[s].seconds) /\ Usec(t, time_[s].useconds)
    BY <2>1 DEF HasTime
  <2>. QED  BY <1>3, <2>1, <2>2 DEF HasTime
<1>10. CASE CopyUseconds(t)
  <2>1. /\ pc[t] = "copy useconds" /\ pc'[t] = "return" /\ called' = called
        /\ pair'[t].useconds = time_[s].useconds /\ pair'[t].seconds = pair[t].seconds
    BY <1>2, <1>10 DEF CopyUseconds, Goto
  <2>2. Sec(t, pair[t].seconds) /\ Usec(t, time_[s].useconds)
    BY <2>1 DEF HasTime
  <2>. QED  BY <1>3, <2>1, <2>2 DEF HasTime
<1>11. CASE Return(t)
  <2>1. called'[t] = 0 /\ pc'[t] = "idle"
    BY <1>2, <1>11 DEF Return, Goto
  <2>. QED  BY <1>a, <2>1 DEF HasTime
<1>. QED  BY <1>4, <1>5, <1>6, <1>7, <1>8, <1>9, <1>10, <1>11 DEF Call

\* A thread that is the only one of its process.
LEMMA TimeStep == TypeOK /\ TypeOK' /\ TimeInv /\ [Next]_vars => TimeInv'
<1>. SUFFICES ASSUME TypeOK, TypeOK', TimeInv, [Next]_vars, NEW t \in Thread, Alone(t)
              PROVE  HasTime(t)'
  BY DEF TimeInv, Alone
<1>0. HasTime(t) /\ ServerOf[t] \in Server
  BY ServerOfAssumption DEF TimeInv
<1>a. /\ DOMAIN pc = Thread /\ reading \in [Thread -> Nat]
      /\ called \in [Thread -> Nat]
      /\ pair \in [Thread -> [id : Nat, seconds : Nat, useconds : Nat]]
      /\ time_ \in [Server -> [seconds : Nat, useconds : Nat]]
  BY DEF TypeOK
<1>1. CASE Call(t)
  BY <1>0, <1>1, TimeOwn
<1>2. ASSUME NEW u \in Thread, u # t, Call(u)  PROVE HasTime(t)'
  <2>1. ServerOf[u] # ServerOf[t]
    BY <1>2 DEF Alone
  <2>2. /\ called'[t] = called[t] /\ pc'[t] = pc[t] /\ reading'[t] = reading[t]
        /\ pair'[t] = pair[t]
    BY <1>2, <1>a DEF Call, ReadSeconds, StoreSeconds, ReadUseconds, StoreUseconds, GetId,
            CopySeconds, CopyUseconds, Return, Goto, generator
  <2>3. time_'[ServerOf[t]] = time_[ServerOf[t]]
    BY <1>2, <1>0, <1>a, <2>1 DEF Call, ReadSeconds, StoreSeconds, ReadUseconds,
            StoreUseconds, GetId, CopySeconds, CopyUseconds, Return, generator
  <2>. QED  BY <1>0, <2>2, <2>3, TimeQuiet
<1>3. ASSUME NEW r \in Server, Restart(r)  PROVE HasTime(t)'
  <2>1. CASE ServerOf[t] = r
    <3>1. pc'[t] = "idle" /\ called'[t] = 0
      BY <1>3, <2>1 DEF Restart
    <3>. QED  BY <3>1, ClockRuns DEF HasTime
  <2>2. CASE ServerOf[t] # r
    <3>1. /\ called'[t] = called[t] /\ pc'[t] = pc[t] /\ reading'[t] = reading[t]
          /\ pair'[t] = pair[t] /\ time_'[ServerOf[t]] = time_[ServerOf[t]]
      BY <1>0, <1>3, <1>a, <2>2 DEF Restart
    <3>. QED  BY <1>0, <3>1, TimeQuiet
  <2>. QED  BY <2>1, <2>2
<1>4. CASE Tick
  BY <1>0, <1>4, TimeQuiet DEF Tick, generator, thread
<1>5. CASE UNCHANGED vars
  BY <1>0, <1>5, TimeQuiet DEF vars, generator, thread
<1>. QED  BY <1>1, <1>2, <1>3, <1>4, <1>5 DEF Next

LEMMA TimeInit == Init => TimeInv
BY IdBoundsAssumption DEF Init, TimeInv, HasTime

\* A process that calls its generator from one thread gets times at which the call was
\* in progress, however the clock runs, other processes call and it dies and is back:
\* the race on time_ (unique_id.cc:11-14) is the only thing that can go wrong.
THEOREM TimeCorrectIfAlone == Spec => []TimeIsOwnIfAlone
<1>1. TimeInv => TimeIsOwnIfAlone
  BY DEF TimeInv, HasTime, TimeIsOwnIfAlone, HasOwnTime, Sec, Usec
<1>2. Init => TypeOK /\ TimeInv
  BY TypeInit, TimeInit
<1>3. TypeOK /\ TimeInv /\ [Next]_vars => (TypeOK /\ TimeInv)'
  BY TypeStep, TimeStep
<1>. QED  BY <1>1, <1>2, <1>3, PTL DEF Spec
=============================================================================

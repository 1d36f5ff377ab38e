---------------------------- MODULE IdGenerator ----------------------------
(***************************************************************************)
(* The id generator of the service (service/utils/unique_id.cc): a call      *)
(* returns the time and an id made of the second, the machine code and a    *)
(* sequence number, in the manner of Twitter's Snowflake.  The sequence      *)
(* number is guarded by a mutex; the member time_, which every call writes  *)
(* and then copies, is not.                                                 *)
(*                                                                         *)
(* Threads race on time_: an aligned 64-bit store or load does not tear, so *)
(* each of its two fields is stored and loaded in one step.                 *)
(***************************************************************************)
EXTENDS Integers

CONSTANTS
  Server,         \* processes, each with its generator; the system runs one
  Thread,         \* the threads that call it, ...
  ServerOf,       \* ... and the process each belongs to
  MachineCode,    \* the code that each process passes (300 unless told otherwise)
  SequenceSize,   \* 0x1000
  MachineSize,    \* 0x400
  SecondSize,     \* clock readings in a second, 1000000
  MaxTime,        \* bound: the clock stops here
  MaxPerSecond,   \* bound: ids that a process hands out in a second
  MaxRestarts,    \* bound: times that a process dies
  SameSecond      \* TRUE if a process may be back within the second

ASSUME ServerOfAssumption == ServerOf \in [Thread -> Server]
ASSUME MachineAssumption == MachineCode \in [Server -> Nat]
ASSUME SizesAssumption ==
  /\ SequenceSize \in Nat \ {0} /\ MachineSize \in Nat \ {0} /\ SecondSize \in Nat \ {0}
ASSUME IdBoundsAssumption ==
  /\ MaxTime \in Nat /\ MaxPerSecond \in Nat /\ MaxRestarts \in Nat
  /\ SameSecond \in BOOLEAN

VARIABLES
  now,          \* the system clock, in microseconds
  sequence_,    \* of each generator
  time_,        \* of each generator: [seconds, useconds]
  pc, reading,  \* of each thread: its next step, the clock reading it has in hand,
  pair,         \* the pair that it is about to return,
  called,       \* and when it was called
  issued,       \* every id handed out
  count,        \* how many of them each process handed out in this second
  restarts

generator == <<sequence_, time_>>
thread == <<pc, reading, pair, called>>
vars == <<now, generator, thread, issued, count, restarts>>

GetMicroSec == now
GetSec == now \div SecondSize
Zero == [seconds |-> 0, useconds |-> 0]

-----------------------------------------------------------------------------
\* "machine_code & 0x3FF << 12": the shift comes first, so that what is kept are the
\* ten bits of the machine code above its lowest twelve.
MachineField(code) == (code \div SequenceSize) % MachineSize

IdOf(s, sec, sequence) ==
  (sec * MachineSize + MachineField(MachineCode[s])) * SequenceSize
    + (sequence % SequenceSize)

\* (mutant) The sequence number wraps one too early.
SuccessorEarly(sequence) == IF sequence + 2 = SequenceSize THEN 0 ELSE sequence + 1

\* (mutant) The sequence number wraps one too late.
SuccessorLate(sequence) == IF sequence = SequenceSize THEN 0 ELSE sequence + 1

Successor(sequence) == IF sequence + 1 = SequenceSize THEN 0 ELSE sequence + 1

Goto(t, from, to) == pc[t] = from /\ pc' = [pc EXCEPT ![t] = to]

\* operator(): time_.set_seconds(GetSec()), ...
ReadSeconds(t) ==
  /\ Goto(t, "idle", "store seconds")
  /\ reading' = [reading EXCEPT ![t] = GetSec]
  /\ called' = [called EXCEPT ![t] = now]
  /\ UNCHANGED <<now, generator, pair, issued, count, restarts>>

StoreSeconds(t) ==
  /\ Goto(t, "store seconds", "read useconds")
  /\ time_' = [time_ EXCEPT ![ServerOf[t]].seconds = reading[t]]
  /\ UNCHANGED <<now, sequence_, reading, pair, called, issued, count, restarts>>

\* ... time_.set_useconds(GetMicroSec()), ...
ReadUseconds(t) ==
  /\ Goto(t, "read useconds", "store useconds")
  /\ reading' = [reading EXCEPT ![t] = GetMicroSec]
  /\ UNCHANGED <<now, generator, pair, called, issued, count, restarts>>

\* (mutant) The useconds are set by the first call only.
StoreUsecondsOnce(t) ==
  /\ Goto(t, "store useconds", "get id")
  /\ time_' = [time_ EXCEPT ![ServerOf[t]].useconds = IF @ = 0 THEN reading[t] ELSE @]
  /\ UNCHANGED <<now, sequence_, reading, pair, called, issued, count, restarts>>

StoreUseconds(t) ==
  /\ Goto(t, "store useconds", "get id")
  /\ time_' = [time_ EXCEPT ![ServerOf[t]].useconds = reading[t]]
  /\ UNCHANGED <<now, sequence_, reading, pair, called, issued, count, restarts>>

\* ... GetId, in the mutex, ...
NewId(t) == LET s == ServerOf[t] IN IdOf(s, GetSec, sequence_[s])

GetId(t) ==
  LET s == ServerOf[t]
  IN  /\ Goto(t, "get id", "copy seconds")
      /\ count[s] < MaxPerSecond
      /\ count' = [count EXCEPT ![s] = @ + 1]
      /\ pair' = [pair EXCEPT ![t].id = NewId(t)]
      /\ issued' = issued \cup {NewId(t)}
      /\ sequence_' = [sequence_ EXCEPT ![s] = Successor(@)]
      /\ UNCHANGED <<now, time_, reading, called, restarts>>

\* ... and make_pair, which copies time_ when GetId has returned.
CopySeconds(t) ==
  /\ Goto(t, "copy seconds", "copy useconds")
  /\ pair' = [pair EXCEPT ![t].seconds = time_[ServerOf[t]].seconds]
  /\ UNCHANGED <<now, generator, reading, called, issued, count, restarts>>

CopyUseconds(t) ==
  /\ Goto(t, "copy useconds", "return")
  /\ pair' = [pair EXCEPT ![t].useconds = time_[ServerOf[t]].useconds]
  /\ UNCHANGED <<now, generator, reading, called, issued, count, restarts>>

NoPair == [id |-> 0, seconds |-> 0, useconds |-> 0]

Return(t) ==
  /\ Goto(t, "return", "idle")
  /\ pair' = [pair EXCEPT ![t] = NoPair]
  /\ reading' = [reading EXCEPT ![t] = 0] /\ called' = [called EXCEPT ![t] = 0]
  /\ UNCHANGED <<now, generator, issued, count, restarts>>

-----------------------------------------------------------------------------
\* The clock runs.
Advance(time) ==
  /\ time <= MaxTime
  /\ now' = time
  /\ count' = [s \in Server |-> IF time \div SecondSize = GetSec THEN count[s] ELSE 0]

Tick == Advance(now + 1) /\ UNCHANGED <<generator, thread, issued, restarts>>

\* A process dies and is back, in a later second or at once; its generator starts anew.
Restart(s) ==
  /\ restarts < MaxRestarts /\ restarts' = restarts + 1
  /\ Advance(IF SameSecond THEN now ELSE (GetSec + 1) * SecondSize)
  /\ sequence_' = [sequence_ EXCEPT ![s] = 0]
  /\ time_' = [time_ EXCEPT ![s] = Zero]
  /\ pc' = [t \in Thread |-> IF ServerOf[t] = s THEN "idle" ELSE pc[t]]
  /\ reading' = [t \in Thread |-> IF ServerOf[t] = s THEN 0 ELSE reading[t]]
  /\ pair' = [t \in Thread |-> IF ServerOf[t] = s THEN NoPair ELSE pair[t]]
  /\ called' = [t \in Thread |-> IF ServerOf[t] = s THEN 0 ELSE called[t]]
  /\ UNCHANGED issued

-----------------------------------------------------------------------------
Init ==
  /\ now = 0
  /\ sequence_ = [s \in Server |-> 0] /\ time_ = [s \in Server |-> Zero]
  /\ pc = [t \in Thread |-> "idle"]
  /\ reading = [t \in Thread |-> 0] /\ called = [t \in Thread |-> 0]
  /\ pair = [t \in Thread |-> NoPair]
  /\ issued = {} /\ count = [s \in Server |-> 0] /\ restarts = 0

Call(t) == \/ ReadSeconds(t) \/ StoreSeconds(t) \/ ReadUseconds(t) \/ StoreUseconds(t)
           \/ GetId(t) \/ CopySeconds(t) \/ CopyUseconds(t) \/ Return(t)

Next == \/ \E t \in Thread : Call(t)
        \/ \E s \in Server : Restart(s)
        \/ Tick

Spec == Init /\ [][Next]_vars

-----------------------------------------------------------------------------
(* Properties.                                                             *)

\* The types; the sequence number stays below its size.
TypeOK ==
  /\ now \in 0 .. MaxTime
  /\ sequence_ \in [Server -> 0 .. (SequenceSize - 1)]
  /\ time_ \in [Server -> [seconds : Nat, useconds : Nat]]
  /\ pc \in [Thread -> {"idle", "store seconds", "read useconds", "store useconds",
                        "get id", "copy seconds", "copy useconds", "return"}]
  /\ reading \in [Thread -> Nat] /\ called \in [Thread -> Nat]
  /\ pair \in [Thread -> [id : Nat, seconds : Nat, useconds : Nat]]
  /\ issued \in SUBSET Nat
  /\ count \in [Server -> 0 .. MaxPerSecond] /\ restarts \in 0 .. MaxRestarts

\* "This is a unique id generator" (unique_id.h:30): no id is handed out twice, which
\* the wrapping sequence number, the second and the machine code have to see to.
IdsUnique == [][\A t \in Thread : GetId(t) => NewId(t) \notin issued]_vars

\* "The time this chirp was posted" (service.proto:16): the time of a pair is one at
\* which its call was in progress, in seconds and in microseconds, ...
HasOwnTime(t) ==
  pc[t] = "return" => /\ pair[t].useconds \in called[t] .. now
                      /\ pair[t].seconds \in (called[t] \div SecondSize) .. GetSec

TimeIsOwn == \A t \in Thread : HasOwnTime(t)

\* ... which is what a generator gives its only thread: also after a restart, and
\* however the clock runs between its two readings.
Alone(t) == \A u \in Thread : ServerOf[u] = ServerOf[t] => u = t
TimeIsOwnIfAlone == \A t \in Thread : Alone(t) => HasOwnTime(t)
=============================================================================

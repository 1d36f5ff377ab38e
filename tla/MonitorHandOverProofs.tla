----------------------- MODULE MonitorHandOverProofs -----------------------
(***************************************************************************)
(* Proofs about MonitorHandOver: the types, and that stream and buffer stay  *)
(* in step, for any number of callers, chirps and loops.                    *)
(***************************************************************************)
EXTENDS MonitorHandOver, TLAPS

\* The buffer's thread and the callers are in different code.
OwnCode ==
  /\ pc[Buffer] \in {"lock", "check", "clear", "notify", "done"}
  /\ \A c \in Caller : pc[c] # "clear"

\* Between its lock and its unlock a thread holds the mutex.
Inside(t) == pc[t] \in {"check", "flag", "leave", "clear"}
MutexHeld == \A t \in Thread : Inside(t) <=> monitor_mutex_ = t

\* As long as the loop has an end, a pass is begun below it.
Counted(c) ==
  monitor_refresh_times_ # Forever =>
    /\ curr_loop[c] <= monitor_refresh_times_
    /\ pc[c] \in {"look", "lock", "check", "flag", "notify"}
         => curr_loop[c] < monitor_refresh_times_

ChirpInHand(c) == pc[c] \in {"lock", "check"} => curr_chirp[c] # NoChirp

\* monitor is a chirp ahead of the buffer.
Ahead == \/ monitor_flag_ /\ pc[Buffer] # "clear"
         \/ \E c \in Caller : pc[c] = "flag"

HandedOver ==
  Waits =>
    /\ \A c \in Caller : pc[c] = "flag" => ~monitor_flag_
    /\ pc[Buffer] = "clear" => monitor_flag_
    /\ Len(sent) = Len(buffer) + (IF Ahead THEN 1 ELSE 0)
    /\ service = "FakeService" => sent = IF Ahead THEN Append(buffer, reply) ELSE buffer

ControlInv == OwnCode /\ MutexHeld

-----------------------------------------------------------------------------
(* Control: who is where, and holds the mutex.                             *)

LEMMA Threads ==
  /\ Buffer \in Thread /\ Buffer \notin Caller /\ Nobody \notin Thread
  /\ \A c \in Caller : c \in Thread /\ c # Buffer
BY HandOverAssumption DEF Thread

LEMMA PcDomain ==
  ASSUME TypeOK  PROVE pc = [t \in Thread |-> pc[t]]
BY DEF TypeOK

LEMMA ControlStep ==
  ASSUME TypeOK, ControlInv, [Next]_vars
  PROVE  ControlInv'
<1>0. pc = [t \in Thread |-> pc[t]]
  BY PcDomain
<1>1. ASSUME NEW c \in Caller, monitor(c)  PROVE ControlInv'
  <2>1. CASE Call(c) \/ Loop(c) \/ Find(c) \/ Notify(c) \/ EndOfPass(c)
    BY <1>0, Threads, <2>1 DEF ControlInv, OwnCode, MutexHeld, Inside, Call, Loop, Find, Notify,
         EndOfPass, Goto, sync
  <2>2. CASE MonitorLock(c) \/ ExitLock(c)
    BY <1>0, Threads, <2>2 DEF ControlInv, OwnCode, MutexHeld, Inside, MonitorLock, ExitLock, Lock, Goto
  <2>3. CASE MonitorSleep(c) \/ SetFlag(c) \/ Exit(c)
    BY <1>0, Threads, <2>3 DEF ControlInv, OwnCode, MutexHeld, Inside, MonitorSleep, Sleep, SetFlag,
         Exit, Unlock, Goto
  <2>4. CASE MonitorSet(c)
    BY <1>0, Threads, <2>4 DEF ControlInv, OwnCode, MutexHeld, Inside, MonitorSet, Goto, sync
  <2>. QED  BY <1>1, <2>1, <2>2, <2>3, <2>4 DEF monitor
<1>2. ASSUME MonitorBuffer  PROVE ControlInv'
  <2>1. CASE BufferLock
    BY <1>0, Threads, <2>1 DEF ControlInv, OwnCode, MutexHeld, Inside, BufferLock, Lock, Goto
  <2>2. CASE BufferSleep \/ BufferReturn \/ ClearFlag
    BY <1>0, Threads, <2>2 DEF ControlInv, OwnCode, MutexHeld, Inside, BufferSleep, Sleep, BufferReturn,
         ClearFlag, Unlock, Goto
  <2>3. CASE BufferPush \/ BufferNotify
    BY <1>0, Threads, <2>3 DEF ControlInv, OwnCode, MutexHeld, Inside, BufferPush, BufferNotify, Goto, sync
  <2>. QED  BY <1>2, <2>1, <2>2, <2>3 DEF MonitorBuffer
<1>3. CASE (\E t \in Thread : SpuriousWakeup(t)) \/ UNCHANGED vars
  BY <1>3 DEF ControlInv, OwnCode, MutexHeld, Inside, SpuriousWakeup, vars, sync
<1>. QED  BY <1>1, <1>2, <1>3 DEF Next

-----------------------------------------------------------------------------
(* What has been handed over, and what has arrived.                        *)

LEMMA OthersKeepStep ==
  ASSUME HandedOver, UNCHANGED <<service, buff_mode_, monitor_flag_, data>>,
         \A c \in Caller : pc'[c] = "flag" <=> pc[c] = "flag",
         pc'[Buffer] = "clear" <=> pc[Buffer] = "clear"
  PROVE  HandedOver'
<1>1. UNCHANGED <<service, buff_mode_, monitor_flag_, reply, sent, buffer>>
  BY DEF data
<1>2. Waits' = Waits /\ Ahead' = Ahead
  BY <1>1 DEF Waits, Ahead
<1>. QED  BY <1>1, <1>2 DEF HandedOver

LEMMA MonitorSetStep ==
  ASSUME TypeOK, ControlInv, HandedOver, NEW c \in Caller, MonitorSet(c)
  PROVE  HandedOver'
<1>. SUFFICES ASSUME Waits  PROVE HandedOver'
  BY DEF HandedOver, Waits, MonitorSet, mode
<1>0. /\ sent \in Seq(Nat) /\ buffer \in Seq(Nat)
      /\ Waits' /\ UNCHANGED <<service, monitor_flag_, buffer>> /\ ~monitor_flag_
      /\ sent' = Append(sent, curr_chirp[c])
      /\ service = "FakeService" => reply' = curr_chirp[c]
  <2>1. sent \in Seq(1 .. news) /\ buffer \in Seq(0 .. news) /\ news \in Nat
    BY DEF TypeOK
  <2>2. sent \in Seq(Nat) /\ buffer \in Seq(Nat)
    BY <2>1
  <2>. QED  BY <2>2 DEF MonitorSet, Waits, mode, flags, local
<1>1. /\ pc[c] = "check" /\ pc'[c] = "flag" /\ \A d \in Thread \ {c} : pc'[d] = pc[d]
  BY PcDomain, Threads DEF MonitorSet, Goto
<1>2. \A d \in Caller : pc[d] # "flag"
  BY <1>1, Threads DEF ControlInv, MutexHeld, Inside
<1>3. pc[Buffer] # "clear"
  BY <1>1, Threads DEF ControlInv, MutexHeld, Inside
<1>4. ~Ahead /\ Ahead'
  BY <1>0, <1>1, <1>2 DEF Ahead
<1>5. Len(sent) = Len(buffer) /\ (service = "FakeService" => sent = buffer)
  BY <1>0, <1>4 DEF HandedOver
<1>6. /\ Len(sent') = Len(buffer') + 1
      /\ service' = "FakeService" => sent' = Append(buffer', reply')
  BY <1>0, <1>5
<1>7. pc'[Buffer] # "clear"
  BY <1>1, <1>3, Threads
<1>. QED  BY <1>0, <1>4, <1>6, <1>7 DEF HandedOver

LEMMA SetFlagStep ==
  ASSUME TypeOK, ControlInv, HandedOver, NEW c \in Caller, SetFlag(c)
  PROVE  HandedOver'
<1>0. /\ UNCHANGED <<service, buff_mode_, reply, sent, buffer>> /\ monitor_flag_' = TRUE
      /\ Waits' = Waits
  BY DEF SetFlag, Waits, mode, data
<1>1. /\ pc[c] = "flag" /\ pc'[c] = "notify" /\ \A d \in Thread \ {c} : pc'[d] = pc[d]
  BY PcDomain, Threads DEF SetFlag, Goto
<1>2. pc[Buffer] # "clear" /\ \A d \in Caller \ {c} : pc[d] # "flag"
  BY <1>1, Threads DEF ControlInv, MutexHeld, Inside
<1>3. Ahead /\ Ahead'
  BY <1>0, <1>1, <1>2, Threads DEF Ahead
<1>4. \A d \in Caller : pc'[d] # "flag"
  BY <1>1, <1>2, Threads
<1>. QED  BY <1>0, <1>3, <1>4 DEF HandedOver

LEMMA BufferPushStep ==
  ASSUME TypeOK, ControlInv, HandedOver, BufferPush
  PROVE  HandedOver'
<1>0. /\ buffer \in Seq(Nat) /\ UNCHANGED <<service, buff_mode_, monitor_flag_, reply, sent>>
      /\ monitor_flag_ /\ buffer' = Append(buffer, reply) /\ Waits' = Waits /\ reply \in Nat
  <2>1. buffer \in Seq(0 .. news) /\ news \in Nat /\ reply \in 0 .. news
    BY DEF TypeOK
  <2>2. buffer \in Seq(Nat) /\ reply \in Nat
    BY <2>1
  <2>. QED  BY <2>2 DEF BufferPush, Waits, mode, flags
<1>1. /\ pc[Buffer] = "check" /\ pc'[Buffer] = "clear" /\ \A d \in Caller : pc'[d] = pc[d]
  BY PcDomain, Threads DEF BufferPush, Goto
<1>2. \A d \in Caller : pc[d] # "flag"
  BY <1>1, Threads DEF ControlInv, MutexHeld, Inside
<1>3. Ahead /\ ~Ahead'
  BY <1>0, <1>1, <1>2 DEF Ahead
<1>4. Len(buffer') = Len(buffer) + 1
  BY <1>0
<1>5. Len(buffer) \in Nat
  BY <1>0
<1>. QED  BY <1>0, <1>1, <1>2, <1>3, <1>4, <1>5 DEF HandedOver

LEMMA ClearFlagStep ==
  ASSUME TypeOK, ControlInv, HandedOver, ClearFlag
  PROVE  HandedOver'
<1>0. /\ UNCHANGED <<service, buff_mode_, reply, sent, buffer>> /\ monitor_flag_' = FALSE
      /\ Waits' = Waits
  BY DEF ClearFlag, Waits, mode, data
<1>1. /\ pc[Buffer] = "clear" /\ pc'[Buffer] = "notify" /\ \A d \in Caller : pc'[d] = pc[d]
  BY PcDomain, Threads DEF ClearFlag, Goto
<1>2. \A d \in Caller : pc[d] # "flag"
  BY <1>1, Threads DEF ControlInv, MutexHeld, Inside
<1>3. ~Ahead /\ ~Ahead'
  BY <1>0, <1>1, <1>2 DEF Ahead
<1>. QED  BY <1>0, <1>1, <1>2, <1>3 DEF HandedOver

LEMMA HandedOverStep ==
  ASSUME TypeOK, ControlInv, HandedOver, [Next]_vars
  PROVE  HandedOver'
<1>1. ASSUME NEW c \in Caller, monitor(c)  PROVE HandedOver'
  <2>1. CASE MonitorSet(c)
    BY <2>1, MonitorSetStep
  <2>2. CASE SetFlag(c)
    BY <2>2, SetFlagStep
  <2>3. CASE \/ Call(c) \/ Loop(c) \/ Find(c) \/ MonitorLock(c) \/ MonitorSleep(c)
             \/ Notify(c) \/ EndOfPass(c) \/ ExitLock(c) \/ Exit(c)
    <3>1. UNCHANGED <<service, buff_mode_, monitor_flag_, data>>
      BY <2>3 DEF Call, Loop, Find, MonitorLock, MonitorSleep, Notify, EndOfPass, ExitLock,
           Exit, Lock, Sleep, mode, flags
    <3>2. pc' = [pc EXCEPT ![c] = pc'[c]] /\ pc[c] # "flag" /\ pc'[c] # "flag"
      BY <2>3, PcDomain, Threads DEF Call, Loop, Find, MonitorLock, MonitorSleep, Notify,
           EndOfPass, ExitLock, Exit, Lock, Sleep, Goto
    <3>3. /\ pc'[Buffer] = pc[Buffer]
          /\ \A d \in Caller : pc'[d] = "flag" <=> pc[d] = "flag"
      BY <3>2, PcDomain, Threads
    <3>. QED  BY <3>1, <3>3, OthersKeepStep
  <2>. QED  BY <1>1, <2>1, <2>2, <2>3 DEF monitor
<1>2. ASSUME MonitorBuffer  PROVE HandedOver'
  <2>1. CASE BufferPush
    BY <2>1, BufferPushStep
  <2>2. CASE ClearFlag
    BY <2>2, ClearFlagStep
  <2>3. CASE BufferLock \/ BufferSleep \/ BufferReturn \/ BufferNotify
    <3>1. UNCHANGED <<service, buff_mode_, monitor_flag_, data>>
      BY <2>3 DEF BufferLock, BufferSleep, BufferReturn, BufferNotify, Lock, Sleep, mode, flags
    <3>2. /\ pc' = [pc EXCEPT ![Buffer] = pc'[Buffer]]
          /\ pc[Buffer] # "clear" /\ pc'[Buffer] # "clear"
      BY <2>3, PcDomain, Threads DEF BufferLock, BufferSleep, BufferReturn, BufferNotify,
           Lock, Sleep, Goto
    <3>3. /\ pc'[Buffer] # "clear" /\ pc[Buffer] # "clear"
          /\ \A d \in Caller : pc'[d] = pc[d]
      BY <3>2, PcDomain, Threads
    <3>. QED  BY <3>1, <3>3, OthersKeepStep
  <2>. QED  BY <1>2, <2>1, <2>2, <2>3 DEF MonitorBuffer
<1>3. CASE (\E t \in Thread : SpuriousWakeup(t)) \/ UNCHANGED vars
  <2>1. UNCHANGED <<service, buff_mode_, monitor_flag_, data, pc>>
    BY <1>3 DEF SpuriousWakeup, vars, mode, flags
  <2>. QED  BY <2>1, OthersKeepStep
<1>. QED  BY <1>1, <1>2, <1>3 DEF Next

-----------------------------------------------------------------------------
(* The types.                                                              *)

Label == {"start", "loop", "look", "lock", "check", "flag", "notify", "exit", "leave",
          "clear", "done"}

SyncType ==
  /\ service \in {"ServiceImpl", "FakeService"} /\ buff_mode_ \in BOOLEAN
  /\ monitor_flag_ \in BOOLEAN /\ exit_flag_ \in BOOLEAN
  /\ monitor_mutex_ \in Thread \cup {Nobody} /\ asleep \subseteq Thread
  /\ spurious \in 0 .. MaxSpurious
  /\ pc \in [Thread -> Label]

LoopType ==
  /\ monitor_refresh_times_ \in {Forever} \cup 1 .. MaxLoops
  /\ curr_loop \in [Caller -> 0 .. MaxLoops]

ChirpType ==
  /\ news \in 0 .. MaxNews /\ curr_chirp \in [Caller -> 0 .. news]
  /\ reply \in 0 .. news /\ sent \in Seq(1 .. news) /\ buffer \in Seq(0 .. news)

LEMMA TypeParts == TypeOK <=> SyncType /\ LoopType /\ ChirpType
BY DEF TypeOK, SyncType, LoopType, ChirpType, Label

LEMMA SyncTypeStep ==
  ASSUME SyncType, [Next]_vars  PROVE SyncType'
<1>1. ASSUME NEW c \in Caller, monitor(c)  PROVE SyncType'
  <2>1. CASE Call(c) \/ Loop(c) \/ Find(c) \/ EndOfPass(c) \/ MonitorSet(c)
    BY <2>1, Threads DEF SyncType, Label, Call, Loop, Find, EndOfPass, MonitorSet, Goto,
         mode, flags, sync
  <2>2. CASE MonitorLock(c) \/ ExitLock(c)
    BY <2>2, Threads DEF SyncType, Label, MonitorLock, ExitLock, Lock, Goto, mode, flags
  <2>3. CASE MonitorSleep(c) \/ SetFlag(c)
    BY <2>3, Threads DEF SyncType, Label, MonitorSleep, Sleep, SetFlag, Unlock, Goto, mode, flags
  <2>4. CASE Notify(c) \/ Exit(c)
    BY <2>4, Threads DEF SyncType, Label, Notify, Exit, notify_one, Unlock, Goto, mode, flags
  <2>. QED  BY <1>1, <2>1, <2>2, <2>3, <2>4 DEF monitor
<1>2. ASSUME MonitorBuffer  PROVE SyncType'
  <2>1. CASE BufferLock \/ BufferSleep \/ BufferReturn
    BY <2>1, Threads DEF SyncType, Label, BufferLock, Lock, BufferSleep, Sleep, BufferReturn,
         Unlock, Goto, mode, flags
  <2>2. CASE BufferPush \/ ClearFlag \/ BufferNotify
    BY <2>2, Threads DEF SyncType, Label, BufferPush, ClearFlag, BufferNotify, Unlock, Goto,
         mode, flags, sync
  <2>. QED  BY <1>2, <2>1, <2>2 DEF MonitorBuffer
<1>3. CASE (\E t \in Thread : SpuriousWakeup(t)) \/ UNCHANGED vars
  BY <1>3, HandOverAssumption DEF SyncType, SpuriousWakeup, vars, mode, flags, sync
<1>. QED  BY <1>1, <1>2, <1>3 DEF Next

LoopInv == LoopType /\ \A c \in Caller : Counted(c)

LEMMA LoopStep ==
  ASSUME SyncType, LoopInv, [Next]_vars  PROVE LoopInv'
<1>0. pc = [t \in Thread |-> pc[t]]
  BY DEF SyncType
<1>1. ASSUME NEW c \in Caller, monitor(c)  PROVE LoopInv'
  <2>1. CASE \/ Call(c) \/ Find(c) \/ MonitorLock(c) \/ MonitorSleep(c)
             \/ MonitorSet(c) \/ SetFlag(c) \/ Notify(c) \/ ExitLock(c)
    <3>1. UNCHANGED <<monitor_refresh_times_, curr_loop>>
      BY <2>1 DEF Call, Find, MonitorLock, MonitorSleep, MonitorSet, SetFlag, Notify,
           ExitLock, Lock, Sleep, flags, local
    <3>2. \A d \in Caller : pc'[d] \in {"look", "lock", "check", "flag", "notify"}
                              => pc[d] \in {"look", "lock", "check", "flag", "notify"}
      BY <2>1, <1>0, Threads DEF Call, Find, MonitorLock, MonitorSleep, MonitorSet,
           SetFlag, Notify, ExitLock, Lock, Sleep, Goto
    <3>. QED  BY <3>1, <3>2 DEF LoopInv, LoopType, Counted
  <2>2. CASE Loop(c)
    <3>1. UNCHANGED <<monitor_refresh_times_, curr_loop>>
      BY <2>2 DEF Loop, flags, local
    <3>2. /\ \A d \in Caller \ {c} : pc'[d] = pc[d]
          /\ pc'[c] \in {"look", "exit"}
          /\ pc'[c] = "look" => curr_loop[c] # monitor_refresh_times_
      BY <2>2, <1>0, Threads DEF Loop, Goto
    <3>. QED  BY <3>1, <3>2, HandOverAssumption DEF LoopInv, LoopType, Counted, Forever
  <2>3. CASE EndOfPass(c)
    <3>1. /\ monitor_refresh_times_' = monitor_refresh_times_
          /\ pc[c] = "look" /\ pc'[c] = "loop" /\ \A d \in Caller \ {c} : pc'[d] = pc[d]
          /\ curr_loop' = [curr_loop EXCEPT ![c] =
                              IF monitor_refresh_times_ = Forever THEN @ ELSE @ + 1]
      BY <2>3, <1>0, Threads DEF EndOfPass, flags, Goto
    <3>2. curr_loop[c] \in 0 .. MaxLoops /\ Counted(c)
      BY DEF LoopInv, LoopType
    <3>3. curr_loop'[c] \in 0 .. MaxLoops /\ Counted(c)'
      BY <3>1, <3>2, HandOverAssumption DEF LoopInv, LoopType, Counted, Forever
    <3>4. \A d \in Caller \ {c} : curr_loop'[d] = curr_loop[d] /\ Counted(d)'
      BY <3>1 DEF LoopInv, LoopType, Counted
    <3>5. LoopType'
      BY <3>1, <3>3, <3>4 DEF LoopInv, LoopType
    <3>. QED  BY <3>3, <3>4, <3>5 DEF LoopInv
  <2>4. CASE Exit(c)
    BY <2>4 DEF Exit, LoopInv, LoopType, Counted, local
  <2>. QED  BY <1>1, <2>1, <2>2, <2>3, <2>4 DEF monitor
<1>2. ASSUME MonitorBuffer  PROVE LoopInv'
  <2>1. /\ UNCHANGED <<monitor_refresh_times_, curr_loop>>
        /\ \A d \in Caller : pc'[d] = pc[d]
    BY <1>0, <1>2, Threads DEF MonitorBuffer, BufferLock, BufferSleep, BufferReturn,
         BufferPush, ClearFlag, BufferNotify, Lock, Sleep, Goto, flags, local
  <2>. QED  BY <2>1 DEF LoopInv, LoopType, Counted
<1>3. CASE (\E t \in Thread : SpuriousWakeup(t)) \/ UNCHANGED vars
  BY <1>3 DEF LoopInv, LoopType, Counted, SpuriousWakeup, vars, flags, local
<1>. QED  BY <1>1, <1>2, <1>3 DEF Next

ChirpInv == ChirpType /\ \A c \in Caller : ChirpInHand(c)

\* What was a chirp found stays one.
LEMMA SeqOfMore ==
  ASSUME NEW m \in Nat, NEW a \in Nat, NEW b \in Nat, a <= b, NEW s \in Seq(m .. a)
  PROVE  s \in Seq(m .. b)
<1>1. m .. a \subseteq m .. b
  OBVIOUS
<1>. QED  BY <1>1

LEMMA ChirpStep ==
  ASSUME SyncType, ChirpInv, [Next]_vars  PROVE ChirpInv'
<1>0. pc = [t \in Thread |-> pc[t]]
  BY DEF SyncType
<1>1. ASSUME NEW c \in Caller, monitor(c)  PROVE ChirpInv'
  <2>1. CASE \/ Call(c) \/ Loop(c) \/ MonitorLock(c) \/ MonitorSleep(c) \/ SetFlag(c)
             \/ Notify(c) \/ EndOfPass(c) \/ ExitLock(c) \/ Exit(c)
    <3>1. UNCHANGED <<news, curr_chirp, reply, sent, buffer>>
      BY <2>1 DEF Call, Loop, MonitorLock, MonitorSleep, SetFlag, Notify, EndOfPass,
           ExitLock, Exit, Lock, Sleep, local, data
    <3>2. \A d \in Caller : pc'[d] \in {"lock", "check"} => pc[d] \in {"lock", "check"}
      BY <2>1, <1>0, Threads DEF Call, Loop, MonitorLock, MonitorSleep, SetFlag, Notify,
           EndOfPass, ExitLock, Exit, Lock, Sleep, Goto
    <3>. QED  BY <3>1, <3>2 DEF ChirpInv, ChirpType, ChirpInHand
  <2>2. CASE Find(c)
    <3>1. /\ news' = news + 1 /\ news < MaxNews /\ UNCHANGED <<reply, sent, buffer>>
          /\ curr_chirp' = [curr_chirp EXCEPT ![c] = news + 1]
          /\ \A d \in Caller \ {c} : pc'[d] = pc[d]
      BY <2>2, <1>0, Threads DEF Find, data, Goto
    <3>2. /\ news \in 0 .. MaxNews /\ curr_chirp \in [Caller -> 0 .. news]
          /\ reply \in 0 .. news /\ sent \in Seq(1 .. news) /\ buffer \in Seq(0 .. news)
      BY DEF ChirpInv, ChirpType
    <3>3. /\ news' \in 0 .. MaxNews /\ news \in Nat /\ news' \in Nat /\ news <= news'
      BY <3>1, <3>2, HandOverAssumption
    <3>4. curr_chirp' \in [Caller -> 0 .. news'] /\ reply' \in 0 .. news'
      BY <3>1, <3>2, <3>3
    <3>5. sent' \in Seq(1 .. news') /\ buffer' \in Seq(0 .. news')
      BY <3>1, <3>2, <3>3, SeqOfMore
    <3>6. \A d \in Caller : ChirpInHand(d)'
      BY <3>1, <3>2, <3>3 DEF ChirpInv, ChirpInHand, NoChirp
    <3>. QED  BY <3>3, <3>4, <3>5, <3>6 DEF ChirpInv, ChirpType
  <2>3. CASE MonitorSet(c)
    <3>1. /\ UNCHANGED <<news, curr_chirp, buffer>> /\ sent' = Append(sent, curr_chirp[c])
          /\ reply' \in {reply, curr_chirp[c]}
          /\ pc[c] = "check" /\ pc'[c] = "flag" /\ \A d \in Caller \ {c} : pc'[d] = pc[d]
      BY <2>3, <1>0, Threads DEF MonitorSet, local, Goto
    <3>2. curr_chirp[c] \in 1 .. news
      BY <3>1 DEF ChirpInv, ChirpType, ChirpInHand, NoChirp
    <3>3. sent' \in Seq(1 .. news')
      BY <3>1, <3>2 DEF ChirpInv, ChirpType
    <3>. QED  BY <3>1, <3>2, <3>3 DEF ChirpInv, ChirpType, ChirpInHand
  <2>. QED  BY <1>1, <2>1, <2>2, <2>3 DEF monitor
<1>2. ASSUME MonitorBuffer  PROVE ChirpInv'
  <2>1. /\ UNCHANGED <<news, curr_chirp, reply, sent>>
        /\ buffer' \in {buffer, Append(buffer, reply)}
        /\ \A d \in Caller : pc'[d] = pc[d]
    BY <1>0, <1>2, Threads DEF MonitorBuffer, BufferLock, BufferSleep, BufferReturn,
         BufferPush, ClearFlag, BufferNotify, Lock, Sleep, Goto, local, data
  <2>2. reply \in 0 .. news /\ buffer \in Seq(0 .. news)
    BY DEF ChirpInv, ChirpType
  <2>3. Append(buffer, reply) \in Seq(0 .. news)
    BY <2>2
  <2>4. buffer' \in Seq(0 .. news) /\ news' = news
    BY <2>1, <2>2, <2>3
  <2>. QED  BY <2>1, <2>4 DEF ChirpInv, ChirpType, ChirpInHand
<1>3. CASE (\E t \in Thread : SpuriousWakeup(t)) \/ UNCHANGED vars
  BY <1>3 DEF ChirpInv, ChirpType, ChirpInHand, SpuriousWakeup, vars, local, data
<1>. QED  BY <1>1, <1>2, <1>3 DEF Next

-----------------------------------------------------------------------------
(* The theorems.                                                           *)

HandOverInv == SyncType /\ LoopInv /\ ChirpInv /\ ControlInv /\ HandedOver

LEMMA HandOverInit == Init => HandOverInv
<1>. SUFFICES ASSUME Init  PROVE HandOverInv
  OBVIOUS
<1>1. PICK calling \in SUBSET Caller :
        pc = [t \in Thread |-> CASE t = Buffer -> "lock"
                                 [] t \in calling -> "start"
                                 [] OTHER -> "done"]
  BY DEF Init
<1>2. pc[Buffer] = "lock" /\ \A c \in Caller : pc[c] \in {"start", "done"}
  BY <1>1, Threads
<1>3. SyncType
  <2>1. pc \in [Thread -> Label]
    BY <1>1 DEF Label
  <2>2. /\ service \in {"ServiceImpl", "FakeService"} /\ buff_mode_ \in BOOLEAN
        /\ monitor_flag_ = FALSE /\ exit_flag_ = FALSE
        /\ monitor_mutex_ = Nobody /\ asleep = {} /\ spurious = 0
    BY DEF Init
  <2>3. spurious \in 0 .. MaxSpurious
    BY <2>2, HandOverAssumption
  <2>4. monitor_mutex_ \in Thread \cup {Nobody} /\ asleep \subseteq Thread
    BY <2>2
  <2>5. monitor_flag_ \in BOOLEAN /\ exit_flag_ \in BOOLEAN
    BY <2>2
  <2>. QED  BY <2>1, <2>2, <2>3, <2>4, <2>5 DEF SyncType
<1>4. LoopInv
  BY <1>2, HandOverAssumption DEF Init, LoopInv, LoopType, Counted, Forever
<1>5. ChirpInv
  BY <1>2, HandOverAssumption DEF Init, ChirpInv, ChirpType, ChirpInHand, NoChirp
<1>6. ControlInv
  BY <1>2, Threads DEF Init, ControlInv, OwnCode, MutexHeld, Inside, Thread
<1>7. HandedOver
  BY <1>2, Threads DEF Init, HandedOver, Ahead
<1>. QED  BY <1>3, <1>4, <1>5, <1>6, <1>7 DEF HandOverInv

LEMMA HandOverStep == HandOverInv /\ [Next]_vars => HandOverInv'
<1>. SUFFICES ASSUME HandOverInv, [Next]_vars  PROVE HandOverInv'
  OBVIOUS
<1>1. TypeOK
  BY TypeParts DEF HandOverInv, LoopInv, ChirpInv
<1>. QED  BY <1>1, SyncTypeStep, LoopStep, ChirpStep, ControlStep, HandedOverStep DEF HandOverInv

\* Every variable keeps its type, for any number of callers, loops and chirps.
THEOREM TypeCorrect == Spec => []TypeOK
<1>1. HandOverInv => TypeOK
  BY TypeParts DEF HandOverInv, LoopInv, ChirpInv
<1>. QED  BY <1>1, HandOverInit, HandOverStep, PTL DEF Spec

\* With the buffer open it is at most one chirp behind monitor, monitor_flag_ says
\* when, and in the unit tests' service it holds what was handed over, in order.
THEOREM BufferInStep == Spec => []InStep
<1>1. HandOverInv => InStep
  <2>. SUFFICES ASSUME HandOverInv, Waits, monitor_mutex_ = Nobody
                PROVE  /\ Len(sent) = Len(buffer) + (IF monitor_flag_ THEN 1 ELSE 0)
                       /\ service = "FakeService" => IsPrefix(buffer, sent)
    BY DEF InStep
  <2>1. pc[Buffer] # "clear" /\ \A c \in Caller : pc[c] # "flag"
    BY Threads DEF HandOverInv, ControlInv, MutexHeld, Inside
  <2>2. Ahead = monitor_flag_
    BY <2>1 DEF Ahead, HandOverInv, SyncType
  <2>3. buffer \in Seq(Nat) /\ reply \in Nat
    BY DEF HandOverInv, ChirpInv, ChirpType
  <2>4. IsPrefix(buffer, buffer) /\ IsPrefix(buffer, Append(buffer, reply))
    BY <2>3 DEF IsPrefix
  <2>. QED  BY <2>2, <2>4 DEF HandOverInv, HandedOver
<1>. QED  BY <1>1, HandOverInit, HandOverStep, PTL DEF Spec
=============================================================================

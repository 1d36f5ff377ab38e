-------------------------- MODULE MonitorHandOver --------------------------
(***************************************************************************)
(* How monitor hands a chirp over to the thread of MonitorBuffer, in the      *)
(* service (service/service.cc:188-258) and in the service of the unit tests  *)
(* (service/service_string.cc:183-247): a mutex, a condition variable and     *)
(* three members that every call shares.  Which chirps are found is Monitor's *)
(* matter; here they are numbered as they are found.                         *)
(*                                                                         *)
(* The two differ in this: the unit tests' service always waits for the       *)
(* buffer, and writes the reply that the buffer reads; the service waits if    *)
(* told to (buff_mode_), and writes a reply of its own to the stream, so that  *)
(* the buffer reads one that nobody writes.                                  *)
(***************************************************************************)
EXTENDS Integers, FiniteSets, SequencesExt

CONSTANTS
  Caller,     \* threads that may call monitor
  Buffer,     \* the thread that MonitorBuffer starts
  Nobody,     \* not a thread
  MaxLoops,   \* bound: what SetNumMonitorLoop is given
  MaxNews,    \* bound: chirps found
  MaxSpurious \* bound: threads that wake without being notified

ASSUME HandOverAssumption ==
  /\ Buffer \notin Caller /\ Nobody \notin Caller \cup {Buffer}
  /\ MaxLoops \in Nat \ {0} /\ MaxNews \in Nat /\ MaxSpurious \in Nat

VARIABLES
  service, buff_mode_,      \* which of the two services, and its mode
  monitor_refresh_times_, monitor_flag_, exit_flag_,
  monitor_mutex_,           \* who holds it
  asleep, spurious,         \* who waits on monitor_buf_signal_, and who woke without cause
  pc, curr_loop, curr_chirp,
  news,                     \* chirps found
  reply,                    \* the reply that MonitorBuffer was given
  sent, buffer              \* what has been handed over, and what has arrived

mode == <<service, buff_mode_, spurious>>
flags == <<monitor_flag_, exit_flag_, monitor_refresh_times_>>
sync == <<monitor_mutex_, asleep>>
local == <<curr_loop, curr_chirp, news>>
data == <<reply, sent, buffer>>
vars == <<mode, flags, sync, pc, local, data>>

Thread == Caller \cup {Buffer}
Forever == -1
NoChirp == 0
Waits == service = "FakeService" \/ buff_mode_

Goto(t, from, to) == pc[t] = from /\ pc' = [pc EXCEPT ![t] = to]

-----------------------------------------------------------------------------
(* The mutex and the condition variable.                                   *)

Lock(t, from, to) ==
  /\ Goto(t, from, to)
  /\ t \notin asleep /\ monitor_mutex_ = Nobody
  /\ monitor_mutex_' = t
  /\ UNCHANGED <<mode, flags, asleep, local, data>>

Unlock == monitor_mutex_' = Nobody

\* Awoken, the thread has to lock the mutex again.
Sleep(t, from, to) ==
  /\ Goto(t, from, to) /\ Unlock
  /\ asleep' = asleep \cup {t}
  /\ UNCHANGED <<mode, flags, local, data>>

notify_one == IF asleep = {} THEN UNCHANGED asleep
              ELSE \E t \in asleep : asleep' = asleep \ {t}

SpuriousWakeup(t) ==
  /\ t \in asleep /\ asleep' = asleep \ {t}
  /\ spurious < MaxSpurious /\ spurious' = spurious + 1
  /\ UNCHANGED <<service, buff_mode_, flags, monitor_mutex_, pc, local, data>>

-----------------------------------------------------------------------------
(* monitor                                                                 *)

\* Who follows nobody is answered at once, and the buffer hears nothing of it.
Call(c) ==
  /\ \/ Goto(c, "start", "loop") \/ Goto(c, "start", "done")
  /\ UNCHANGED <<mode, flags, sync, local, data>>

Loop(c) ==
  /\ Goto(c, "loop", IF curr_loop[c] # monitor_refresh_times_ THEN "look" ELSE "exit")
  /\ UNCHANGED <<mode, flags, sync, local, data>>

Find(c) ==
  /\ Goto(c, "look", "lock")
  /\ news < MaxNews /\ news' = news + 1
  /\ curr_chirp' = [curr_chirp EXCEPT ![c] = news + 1]
  /\ UNCHANGED <<mode, flags, sync, curr_loop, data>>

MonitorLock(c) == Lock(c, "lock", "check")

MonitorSleep(c) == Waits /\ monitor_flag_ /\ Sleep(c, "check", "lock")

\* (mutant) The chirp is handed over although the last one has not been taken.
MonitorSetAtOnce(c) ==
  /\ Goto(c, "check", "flag")
  /\ reply' = IF service = "FakeService" THEN curr_chirp[c] ELSE reply
  /\ sent' = Append(sent, curr_chirp[c])
  /\ UNCHANGED <<mode, flags, sync, local, buffer>>

MonitorSet(c) ==
  /\ Goto(c, "check", "flag")
  /\ ~(Waits /\ monitor_flag_)
  /\ reply' = IF service = "FakeService" THEN curr_chirp[c] ELSE reply
  /\ sent' = Append(sent, curr_chirp[c])
  /\ UNCHANGED <<mode, flags, sync, local, buffer>>

SetFlag(c) ==
  /\ Goto(c, "flag", "notify") /\ Unlock
  /\ monitor_flag_' = TRUE
  /\ UNCHANGED <<mode, exit_flag_, monitor_refresh_times_, asleep, local, data>>

\* (mutant) The buffer is not told of the chirp.
NotifyNobody(c) ==
  /\ Goto(c, "notify", "look")
  /\ UNCHANGED <<mode, flags, sync, local, data>>

Notify(c) ==
  /\ Goto(c, "notify", "look") /\ notify_one
  /\ UNCHANGED <<mode, flags, monitor_mutex_, local, data>>

\* (mutant) Loops are counted even if there is no end to them.
EndOfPassCounts(c) ==
  /\ Goto(c, "look", "loop")
  /\ curr_loop' = [curr_loop EXCEPT ![c] = @ + 1]
  /\ UNCHANGED <<mode, flags, sync, curr_chirp, news, data>>

EndOfPass(c) ==
  /\ Goto(c, "look", "loop")
  /\ curr_loop' = [curr_loop EXCEPT ![c] =
                     IF monitor_refresh_times_ = Forever THEN @ ELSE @ + 1]
  /\ UNCHANGED <<mode, flags, sync, curr_chirp, news, data>>

ExitLock(c) == Lock(c, "exit", "leave")

\* (mutant) The buffer is not told of the end.
ExitSilently(c) ==
  /\ Goto(c, "leave", "done") /\ Unlock
  /\ exit_flag_' = TRUE /\ monitor_refresh_times_' = Forever
  /\ UNCHANGED <<mode, monitor_flag_, asleep, local, data>>

\* It notifies before it unlocks, and whoever wakes must wait for that.
Exit(c) ==
  /\ Goto(c, "leave", "done") /\ notify_one /\ Unlock
  /\ exit_flag_' = TRUE /\ monitor_refresh_times_' = Forever
  /\ UNCHANGED <<mode, monitor_flag_, local, data>>

-----------------------------------------------------------------------------
(* MonitorBuffer                                                           *)

BufferLock == Lock(Buffer, "lock", "check")

BufferSleep == ~exit_flag_ /\ ~monitor_flag_ /\ Sleep(Buffer, "check", "lock")

\* The end goes before a chirp that is still to be taken.
BufferReturn ==
  /\ Goto(Buffer, "check", "done") /\ Unlock
  /\ exit_flag_
  /\ UNCHANGED <<mode, flags, asleep, local, data>>

BufferPush ==
  /\ Goto(Buffer, "check", "clear")
  /\ ~exit_flag_ /\ monitor_flag_
  /\ buffer' = Append(buffer, reply)
  /\ UNCHANGED <<mode, flags, sync, local, reply, sent>>

ClearFlag ==
  /\ Goto(Buffer, "clear", "notify") /\ Unlock
  /\ monitor_flag_' = FALSE
  /\ UNCHANGED <<mode, exit_flag_, monitor_refresh_times_, asleep, local, data>>

BufferNotify ==
  /\ Goto(Buffer, "notify", "lock")
  /\ asleep' = {}
  /\ UNCHANGED <<mode, flags, monitor_mutex_, local, data>>

-----------------------------------------------------------------------------
\* Some of the callers never call.
Init ==
  /\ service \in {"ServiceImpl", "FakeService"} /\ buff_mode_ \in BOOLEAN
  /\ monitor_refresh_times_ \in {Forever} \cup 1 .. MaxLoops
  /\ monitor_flag_ = FALSE /\ exit_flag_ = FALSE
  /\ monitor_mutex_ = Nobody /\ asleep = {} /\ spurious = 0
  /\ \E calling \in SUBSET Caller :
       pc = [t \in Thread |-> CASE t = Buffer -> "lock"
                                [] t \in calling -> "start"
                                [] OTHER -> "done"]
  /\ curr_loop = [c \in Caller |-> 0] /\ curr_chirp = [c \in Caller |-> NoChirp]
  /\ news = 0
  /\ reply = NoChirp /\ sent = <<>> /\ buffer = <<>>

monitor(c) ==
  \/ Call(c) \/ Loop(c) \/ Find(c) \/ MonitorLock(c) \/ MonitorSleep(c)
  \/ MonitorSet(c) \/ SetFlag(c) \/ Notify(c) \/ EndOfPass(c) \/ ExitLock(c) \/ Exit(c)

MonitorBuffer ==
  \/ BufferLock \/ BufferSleep \/ BufferReturn \/ BufferPush \/ ClearFlag
  \/ BufferNotify

Next == \/ \E c \in Caller : monitor(c)
        \/ MonitorBuffer
        \/ \E t \in Thread : SpuriousWakeup(t)

Spec == Init /\ [][Next]_vars

\* Every thread runs.  Nobody has to wake without being notified.
FairSpec == Spec /\ WF_vars(MonitorBuffer) /\ \A c \in Caller : WF_vars(monitor(c))

-----------------------------------------------------------------------------
(* Properties.                                                             *)

TypeOK ==
  /\ service \in {"ServiceImpl", "FakeService"} /\ buff_mode_ \in BOOLEAN
  /\ monitor_refresh_times_ \in {Forever} \cup 1 .. MaxLoops
  /\ monitor_flag_ \in BOOLEAN /\ exit_flag_ \in BOOLEAN
  /\ monitor_mutex_ \in Thread \cup {Nobody} /\ asleep \subseteq Thread
  /\ spurious \in 0 .. MaxSpurious
  /\ pc \in [Thread -> {"start", "loop", "look", "lock", "check", "flag", "notify",
                        "exit", "leave", "clear", "done"}]
  /\ news \in 0 .. MaxNews
  /\ curr_loop \in [Caller -> 0 .. MaxLoops] /\ curr_chirp \in [Caller -> 0 .. news]
  /\ reply \in 0 .. news /\ sent \in Seq(1 .. news) /\ buffer \in Seq(0 .. news)

\* With the buffer open, monitor is never more than one chirp ahead of it, and then
\* monitor_flag_ says so; what has arrived in the unit tests' service is what was
\* handed over, in order.
InStep ==
  Waits /\ monitor_mutex_ = Nobody =>
    /\ Len(sent) = Len(buffer) + (IF monitor_flag_ THEN 1 ELSE 0)
    /\ service = "FakeService" => IsPrefix(buffer, sent)

Alone(c) == \A d \in Caller \ {c} : pc[d] = "done"

\* A call in a loop that has an end ends, and the buffer with it: no wake-up is lost
\* and neither waits for the other, whether or not the buffer is open.
EndTogether ==
  \A c \in Caller :
    (pc[c] = "loop" /\ Alone(c) /\ monitor_refresh_times_ # Forever)
      ~> (pc[c] = "done" /\ pc[Buffer] = "done")

\* What a lone caller hands over arrives, unless a call comes to its end first.
SentArrives ==
  \A n \in 1 .. MaxNews :
    (Waits /\ Len(sent) = n /\ \E c \in Caller : Alone(c)) ~> (Len(buffer) >= n \/ exit_flag_)
=============================================================================

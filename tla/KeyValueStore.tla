--------------------------- MODULE KeyValueStore ---------------------------
(***************************************************************************)
(* The key-value store: KeyValueStoreClient in the service's process, one   *)
(* gRPC per function (Put needs two), and the handlers of the store's       *)
(* process (kvstore/kvstore.cc), each RPC served by a thread of gRPC's pool. *)
(* get and deletekey touch the table twice, and between the two touches     *)
(* other handlers run.  The table is the atomic map that                    *)
(* ConcurrentHashTable implements.                                          *)
(*                                                                         *)
(* An RPC may fail at any time.  The client then goes on; the handler does   *)
(* not notice, and a put or a delete still happens when it gets there.      *)
(***************************************************************************)
EXTENDS StoreCalls

CONSTANTS
  Client,        \* the threads of the service, each making one call at a time
  Handler,       \* the threads of the store's pool
  Nobody,        \* the caller of an RPC that has given it up
  Calls,         \* the calls that clients make
  Pending,       \* the result of a call that has not taken effect
  MaxFaults,     \* bound: RPCs that fail
  MaxRestarts    \* bound: times that the store's process dies

ASSUME CallsAssumption == Calls \subseteq StoreCall
ASSUME BoundsAssumption == MaxFaults \in Nat /\ MaxRestarts \in Nat
ASSUME NobodyAssumption == Nobody \notin Client
ASSUME PendingAssumption == Pending \notin Value \cup BOOLEAN

VARIABLES
  database_,   \* the table
  rpc,         \* the request each handler serves, or Idle
  step,        \* its next touch of the table
  replyval,    \* what get has read
  call, pc,    \* the call of each client, and which RPC of it is out
  answer,      \* what came back, or NoAnswer
  faults, restarts

server == <<database_, rpc, step, replyval>>
client == <<call, pc, answer>>
counters == <<faults, restarts>>
vars == <<server, client, counters>>

Idle == [method |-> "none"]
Request == [method : {"get", "deletekey"}, key : Key, from : Client \cup {Nobody}]
             \cup [method : {"put"}, key : Key, value : Value,
                   from : Client \cup {Nobody}]

\* A status, and the value of the reply (Blank if there was no reply).
NoAnswer == [status |-> "none"]
Answer == [status : {"OK", "ERROR"}, value : Value]
Ok(a) == a.status = "OK"

-----------------------------------------------------------------------------
(* The client.                                                             *)

Get(c, k) == [method |-> "get", key |-> k, from |-> c]
PutRequest(c, k) == [method |-> "put", key |-> k.key, value |-> k.value, from |-> c]

\* The first RPC of a call.  GetValues sends its first key before it waits.
FirstRequest(c, k) ==
  CASE k.op \in {"Has", "GetValue", "Put"} -> Get(c, k.key)
    [] k.op = "GetValues"                 -> Get(c, k.keys[1])
    [] k.op = "PutOrUpdate"               -> PutRequest(c, k)
    [] k.op = "Delete" -> [method |-> "deletekey", key |-> k.key, from |-> c]

Send(request) ==
  \E h \in Handler :
    /\ rpc[h] = Idle
    /\ rpc' = [rpc EXCEPT ![h] = request]
    /\ step' = [step EXCEPT ![h] = "first"]

Invoke(c) ==
  /\ pc[c] = "idle"
  /\ \E k \in Calls :
       /\ Send(FirstRequest(c, k))
       /\ call' = [call EXCEPT ![c] = k]
       /\ pc' = [pc EXCEPT ![c] = IF k.op = "Put" THEN "has" ELSE "wait"]
  /\ UNCHANGED <<database_, replyval, answer, counters>>

\* Put: "if (Has(key).ok())" is an RPC of its own, ...
PutHas(c) ==
  /\ pc[c] = "has" /\ answer[c] # NoAnswer /\ ~Ok(answer[c])
  /\ Send(PutRequest(c, call[c]))
  /\ pc' = [pc EXCEPT ![c] = "wait"]
  /\ answer' = [answer EXCEPT ![c] = NoAnswer]
  /\ UNCHANGED <<database_, replyval, call, counters>>

\* ... and when it says yes that is the end of Put.
Finished(c) ==
  /\ answer[c] # NoAnswer
  /\ pc[c] = "wait" \/ (pc[c] = "has" /\ Ok(answer[c]))

Return(c) ==
  /\ Finished(c)
  /\ call' = [call EXCEPT ![c] = NoCall]
  /\ pc' = [pc EXCEPT ![c] = "idle"]
  /\ answer' = [answer EXCEPT ![c] = NoAnswer]
  /\ UNCHANGED <<server, counters>>

\* What the function returns.  The handler of get is gone after the first key, so
\* that the later reads of GetValues find nothing.
Returned(k, a, phase) ==
  CASE k.op = "GetValue"  -> a.value
    [] k.op = "GetValues" -> [n \in DOMAIN k.keys |-> IF n = 1 THEN a.value ELSE Blank]
    [] k.op = "Put"       -> phase = "wait" /\ Ok(a)
    [] OTHER              -> Ok(a)

-----------------------------------------------------------------------------
(* The handlers.                                                           *)

Serving(h, method, which) ==
  rpc[h] # Idle /\ rpc[h].method = method /\ step[h] = which

\* The handler returns: its client, if it still waits, gets the answer.
Reply(h, status, value) ==
  /\ answer' = IF rpc[h].from = Nobody THEN answer
               ELSE [answer EXCEPT ![rpc[h].from] = [status |-> status, value |-> value]]
  /\ rpc' = [rpc EXCEPT ![h] = Idle]
  /\ step' = [step EXCEPT ![h] = "first"]
  /\ replyval' = [replyval EXCEPT ![h] = Blank]
  /\ UNCHANGED <<call, pc, counters>>

Touch(op, h) == [op |-> op, key |-> rpc[h].key]

\* (mutant) put does not update a key that is there.
PutAdds(h) ==
  /\ Serving(h, "put", "first")
  /\ database_' = Updated(database_, [op |-> "Add", key |-> rpc[h].key,
                                      value |-> rpc[h].value])
  /\ Reply(h, "OK", Blank)

Put(h) ==
  /\ Serving(h, "put", "first")
  /\ database_' = Updated(database_, [op |-> "AddOrUpdate", key |-> rpc[h].key,
                                      value |-> rpc[h].value])
  /\ Reply(h, "OK", Blank)

\* (mutant) get takes what is in the table for a value.
GetReadRaw(h) ==
  /\ Serving(h, "get", "first")
  /\ replyval' = [replyval EXCEPT ![h] = database_[rpc[h].key]]
  /\ step' = [step EXCEPT ![h] = "second"]
  /\ UNCHANGED <<database_, rpc, client, counters>>

GetRead(h) ==
  /\ Serving(h, "get", "first")
  /\ replyval' = [replyval EXCEPT ![h] = Output(database_, Touch("GetValue", h))]
  /\ step' = [step EXCEPT ![h] = "second"]
  /\ UNCHANGED <<database_, rpc, client, counters>>

\* (mutant) get answers OK whether the key is there or not.
GetHasUnchecked(h) ==
  /\ Serving(h, "get", "second")
  /\ Reply(h, "OK", replyval[h])
  /\ UNCHANGED database_

GetHas(h) ==
  /\ Serving(h, "get", "second")
  /\ IF Output(database_, Touch("Has", h))
     THEN Reply(h, "OK", replyval[h])
     ELSE Reply(h, "ERROR", Blank)
  /\ UNCHANGED database_

DeleteMissing(h) ==
  /\ Serving(h, "deletekey", "first") /\ ~Output(database_, Touch("Has", h))
  /\ Reply(h, "ERROR", Blank)
  /\ UNCHANGED database_

DeleteHas(h) ==
  /\ Serving(h, "deletekey", "first") /\ Output(database_, Touch("Has", h))
  /\ step' = [step EXCEPT ![h] = "second"]
  /\ UNCHANGED <<database_, rpc, replyval, client, counters>>

Delete(h) ==
  /\ Serving(h, "deletekey", "second")
  /\ database_' = Updated(database_, Touch("DeleteKey", h))
  /\ Reply(h, "OK", Blank)

-----------------------------------------------------------------------------
(* Failures.                                                               *)

\* The client of an RPC learns that it has failed; a reply that had come before is
\* kept, and so may be the value in it.
Fail(c) ==
  /\ faults < MaxFaults /\ faults' = faults + 1
  /\ \/ /\ answer[c] = NoAnswer /\ pc[c] # "idle"
        /\ answer' = [answer EXCEPT ![c] = [status |-> "ERROR", value |-> Blank]]
     \/ /\ Ok(answer[c])
        /\ \E v \in {Blank, answer[c].value} :
             answer' = [answer EXCEPT ![c] = [status |-> "ERROR", value |-> v]]
  /\ rpc' = [h \in Handler |-> IF rpc[h] # Idle /\ rpc[h].from = c
                               THEN [rpc[h] EXCEPT !.from = Nobody] ELSE rpc[h]]
  /\ UNCHANGED <<database_, step, replyval, call, pc, restarts>>

\* The store's process dies, with its memory and its handlers, and starts again.
Restart ==
  /\ restarts < MaxRestarts /\ restarts' = restarts + 1
  /\ database_' = [k \in Key |-> NoValue]
  /\ rpc' = [h \in Handler |-> Idle]
  /\ step' = [h \in Handler |-> "first"]
  /\ replyval' = [h \in Handler |-> Blank]
  /\ answer' = [c \in Client |-> IF pc[c] # "idle" /\ answer[c] = NoAnswer
                                 THEN [status |-> "ERROR", value |-> Blank]
                                 ELSE answer[c]]
  /\ UNCHANGED <<call, pc, faults>>

-----------------------------------------------------------------------------
Init ==
  /\ database_ = [k \in Key |-> NoValue]
  /\ rpc = [h \in Handler |-> Idle]
  /\ step = [h \in Handler |-> "first"]
  /\ replyval = [h \in Handler |-> Blank]
  /\ call = [c \in Client |-> NoCall]
  /\ pc = [c \in Client |-> "idle"]
  /\ answer = [c \in Client |-> NoAnswer]
  /\ faults = 0 /\ restarts = 0

ClientStep(c) == Invoke(c) \/ PutHas(c) \/ Return(c) \/ Fail(c)
HandlerStep(h) == \/ Put(h) \/ GetRead(h) \/ GetHas(h)
                  \/ DeleteMissing(h) \/ DeleteHas(h) \/ Delete(h)

Next == \/ \E c \in Client : ClientStep(c)
        \/ \E h \in Handler : HandlerStep(h)
        \/ Restart

Spec == Init /\ [][Next]_vars

-----------------------------------------------------------------------------
(* Properties.                                                             *)

\* The types.
TypeOK ==
  /\ database_ \in [Key -> Value \cup {NoValue}]
  /\ rpc \in [Handler -> Request \cup {Idle}]
  /\ step \in [Handler -> {"first", "second"}]
  /\ replyval \in [Handler -> Value]
  /\ call \in [Client -> Calls \cup {NoCall}]
  /\ pc \in [Client -> {"idle", "has", "wait"}]
  /\ answer \in [Client -> Answer \cup {NoAnswer}]
  /\ faults \in 0 .. MaxFaults /\ restarts \in 0 .. MaxRestarts

\* A call takes effect with its answer, except that GetValue takes effect when its
\* handler reads the table (kvstore.cc:46), one touch before the answer.
Reading(c, h) == rpc[h] # Idle /\ rpc[h].from = c /\ step[h] = "second"

Outcome(c) ==
  CASE Finished(c) -> Returned(call[c], answer[c], pc[c])
    [] ~Finished(c) /\ \E h \in Handler : Reading(c, h) /\ call[c].op = "GetValue" ->
         replyval[CHOOSE h \in Handler : Reading(c, h)]
    [] OTHER -> Pending

\* A put or a delete that was given up and is still to come.
GivenUp(h, method) == rpc[h] # Idle /\ rpc[h].from = Nobody /\ rpc[h].method = method

Late(h) ==
  CASE GivenUp(h, "put") -> [op |-> "PutOrUpdate", key |-> rpc[h].key,
                             value |-> rpc[h].value]
    [] GivenUp(h, "deletekey") -> [op |-> "Delete", key |-> rpc[h].key]
    [] OTHER -> NoCall

\* The calls are atomic, as the service takes for granted: Has, GetValue and
\* PutOrUpdate whatever interleaves, fails or restarts, although get reads and
\* checks in two steps (kvstore.cc:46-47); Put and Delete only if nothing interleaves.
AS == INSTANCE AtomicStore
        WITH Worker <- Handler, map <- database_,
             result <- [c \in Client |-> Outcome(c)],
             late <- [h \in Handler |-> Late(h)]
Atomic == AS!Spec
=============================================================================

------------------------ MODULE KeyValueStoreProofs ------------------------
(* Has, GetValue and PutOrUpdate are atomic calls, for any number of clients, *)
(* handlers, keys, values, failures and restarts.                            *)
EXTENDS KeyValueStore, TLAPS

-----------------------------------------------------------------------------
(* Types.                                                                  *)

\* A client in the first half of Put has called Put.
BaseInv == TypeOK /\ \A c \in Client : pc[c] = "has" => call[c].op = "Put"

\* What a call is made of.
LEMMA CallFacts ==
  /\ NoCall \notin StoreCall
  /\ \A k \in StoreCall :
       /\ k.op \in {"Has", "GetValue", "Delete", "PutOrUpdate", "Put", "GetValues"}
       /\ k.op \in {"Has", "GetValue", "Delete"} => k.key \in Key
       /\ k.op \in {"PutOrUpdate", "Put"} =>
            /\ k.key \in Key /\ k.value \in Value
            /\ k = [op |-> k.op, key |-> k.key, value |-> k.value]
       /\ k.op = "GetValues" => k.keys[1] \in Key
  BY DEF StoreCall, SingleCall, HasOrGetOrDelete, PutOfPair, GetValuesCall, NoCall

\* What a request is made of.
LEMMA RequestFacts ==
  /\ Idle \notin Request
  /\ \A r \in Request : /\ r.method \in {"get", "deletekey", "put"}
                        /\ r.key \in Key /\ r.from \in Client \cup {Nobody}
                        /\ r.method = "put" => r.value \in Value
  BY DEF Request, Idle

\* A request that is given up is the same request.
Orphaned(r) == [r EXCEPT !.from = Nobody]
LEMMA OrphanedFacts ==
  \A r \in Request : /\ Orphaned(r) \in Request /\ Orphaned(r) # Idle
                     /\ Orphaned(r).method = r.method /\ Orphaned(r).key = r.key
                     /\ r.method = "put" => Orphaned(r).value = r.value
                     /\ Orphaned(r).from = Nobody
  BY DEF Request, Idle, Orphaned

LEMMA AnswerFacts ==
  /\ NoAnswer \notin Answer /\ ~Ok(NoAnswer)
  /\ \A s \in {"OK", "ERROR"}, v \in Value : [status |-> s, value |-> v] \in Answer
  /\ \A a \in Answer : a.value \in Value
  /\ Blank \in Value
  BY BlankAssumption DEF Answer, NoAnswer, Ok

\* The requests that clients send.
LEMMA FirstRequestType ==
  ASSUME NEW c \in Client, NEW k \in StoreCall
  PROVE  /\ FirstRequest(c, k) \in Request
         /\ FirstRequest(c, k).from = c
  BY CallFacts DEF FirstRequest, Get, PutRequest, Request

\* The table keeps its type.
LEMMA TableType ==
  ASSUME NEW m \in [Key -> Value \cup {NoValue}], NEW k \in Key, NEW v \in Value
  PROVE  /\ Updated(m, [op |-> "AddOrUpdate", key |-> k, value |-> v])
              \in [Key -> Value \cup {NoValue}]
         /\ Updated(m, [op |-> "DeleteKey", key |-> k]) \in [Key -> Value \cup {NoValue}]
         /\ Output(m, [op |-> "GetValue", key |-> k]) \in Value
  BY BlankAssumption DEF Updated, Output, Present

LEMMA BaseInit == Init => BaseInv
  BY BlankAssumption, BoundsAssumption DEF Init, BaseInv, TypeOK

\* A handler that replies leaves everything but the table well-typed.
LEMMA ReplyType ==
  ASSUME BaseInv, NEW h \in Handler, rpc[h] # Idle,
         NEW s \in {"OK", "ERROR"}, NEW v \in Value, Reply(h, s, v)
  PROVE  /\ rpc' \in [Handler -> Request \cup {Idle}]
         /\ step' \in [Handler -> {"first", "second"}]
         /\ replyval' \in [Handler -> Value]
         /\ answer' \in [Client -> Answer \cup {NoAnswer}]
         /\ UNCHANGED <<call, pc, counters>>
<1>1. [status |-> s, value |-> v] \in Answer /\ Blank \in Value
  BY AnswerFacts
<1>2. rpc[h] \in Request /\ rpc[h].from \in Client \cup {Nobody}
  BY RequestFacts DEF BaseInv, TypeOK
<1>3. answer' \in [Client -> Answer \cup {NoAnswer}]
  BY <1>1, <1>2 DEF BaseInv, TypeOK, Reply
<1> QED
  BY <1>1, <1>3 DEF BaseInv, TypeOK, Reply

LEMMA HandlerType ==
  ASSUME BaseInv, NEW h \in Handler, HandlerStep(h) PROVE BaseInv'
<1>1. rpc[h] # Idle /\ rpc[h] \in Request
  BY DEF HandlerStep, Put, GetRead, GetHas, DeleteMissing, DeleteHas, Delete, Serving,
     BaseInv, TypeOK
<1>2. rpc[h].key \in Key /\ rpc[h].method = "put" => rpc[h].value \in Value
  BY <1>1, RequestFacts
<1>3. database_ \in [Key -> Value \cup {NoValue}] /\ replyval[h] \in Value
  BY DEF BaseInv, TypeOK
<1>4. ASSUME NEW s \in {"OK", "ERROR"}, NEW v \in Value, Reply(h, s, v),
             database_' \in [Key -> Value \cup {NoValue}]
      PROVE  BaseInv'
  BY <1>1, <1>4, ReplyType DEF BaseInv, TypeOK, counters
<1>5. CASE Put(h)
  <2>1. rpc[h].key \in Key /\ rpc[h].value \in Value
    BY <1>2, <1>1, <1>5, RequestFacts DEF Put, Serving
  <2>2. database_' \in [Key -> Value \cup {NoValue}]
    BY <1>3, <1>5, <2>1, TableType DEF Put
  <2> QED
    BY <1>4, <1>5, <2>2, AnswerFacts DEF Put
<1>6. CASE GetRead(h)
  <2>1. rpc[h].key \in Key
    BY <1>1, RequestFacts
  <2>2. Output(database_, Touch("GetValue", h)) \in Value
    BY <1>3, <2>1, TableType, AnswerFacts DEF Touch
  <2> QED
    BY <1>6, <2>2 DEF GetRead, BaseInv, TypeOK, client, counters
<1>7. CASE GetHas(h)
  BY <1>3, <1>4, <1>7, AnswerFacts DEF GetHas
<1>8. CASE DeleteMissing(h)
  BY <1>3, <1>4, <1>8, AnswerFacts DEF DeleteMissing
<1>9. CASE DeleteHas(h)
  BY <1>9 DEF DeleteHas, BaseInv, TypeOK, client, counters
<1>10. CASE Delete(h)
  <2>1. rpc[h].key \in Key
    BY <1>1, RequestFacts
  <2>2. database_' \in [Key -> Value \cup {NoValue}]
    BY <1>3, <1>10, <2>1, TableType, AnswerFacts DEF Delete, Touch
  <2> QED
    BY <1>4, <1>10, <2>2, AnswerFacts DEF Delete
<1> QED
  BY <1>5, <1>6, <1>7, <1>8, <1>9, <1>10 DEF HandlerStep

LEMMA ClientType ==
  ASSUME BaseInv, NEW c \in Client, ClientStep(c) PROVE BaseInv'
<1>1. CASE Invoke(c)
  <2>1. PICK k \in Calls :
          /\ Send(FirstRequest(c, k))
          /\ call' = [call EXCEPT ![c] = k]
          /\ pc' = [pc EXCEPT ![c] = IF k.op = "Put" THEN "has" ELSE "wait"]
    BY <1>1 DEF Invoke
  <2>2. FirstRequest(c, k) \in Request
    BY CallsAssumption, FirstRequestType
  <2>3. /\ rpc' \in [Handler -> Request \cup {Idle}]
        /\ step' \in [Handler -> {"first", "second"}]
    BY <2>1, <2>2 DEF Send, BaseInv, TypeOK
  <2>4. \A d \in Client : pc'[d] = "has" => call'[d].op = "Put"
    BY <2>1 DEF BaseInv, TypeOK
  <2>5. call' \in [Client -> Calls \cup {NoCall}] /\ pc' \in [Client -> {"idle", "has", "wait"}]
    BY <2>1 DEF BaseInv, TypeOK
  <2> QED
    BY <1>1, <2>3, <2>4, <2>5 DEF Invoke, BaseInv, TypeOK, counters
<1>2. CASE PutHas(c)
  <2>1. call[c] \in Calls /\ call[c].op = "Put"
    <3>1. call[c].op = "Put" /\ call[c] \in Calls \cup {NoCall}
      BY <1>2 DEF PutHas, BaseInv, TypeOK
    <3> QED
      BY <3>1 DEF NoCall
  <2>2. PutRequest(c, call[c]) \in Request
    BY <2>1, CallsAssumption, CallFacts DEF PutRequest, Request
  <2>3. /\ rpc' \in [Handler -> Request \cup {Idle}]
        /\ step' \in [Handler -> {"first", "second"}]
    BY <1>2, <2>2 DEF PutHas, Send, BaseInv, TypeOK
  <2> QED
    BY <1>2, <2>3 DEF PutHas, BaseInv, TypeOK, counters
<1>3. CASE Return(c)
  BY <1>3 DEF Return, BaseInv, TypeOK, server, counters
<1>4. CASE Fail(c)
  <2>1. \A v \in Value : [status |-> "ERROR", value |-> v] \in Answer
    BY AnswerFacts
  <2>2. answer[c] # NoAnswer => answer[c].value \in Value
    BY AnswerFacts DEF BaseInv, TypeOK
  <2>3. answer' \in [Client -> Answer \cup {NoAnswer}]
    BY <1>4, <2>1, <2>2, AnswerFacts DEF Fail, BaseInv, TypeOK
  <2>4. rpc' \in [Handler -> Request \cup {Idle}]
    <3> SUFFICES ASSUME NEW h \in Handler
                 PROVE  (IF rpc[h] # Idle /\ rpc[h].from = c
                         THEN Orphaned(rpc[h]) ELSE rpc[h])
                          \in Request \cup {Idle}
      BY <1>4 DEF Fail, Orphaned
    <3>1. rpc[h] # Idle => rpc[h] \in Request
      BY DEF BaseInv, TypeOK
    <3> QED
      BY <3>1, OrphanedFacts
  <2>5. faults' \in 0 .. MaxFaults
    BY <1>4, BoundsAssumption DEF Fail, BaseInv, TypeOK
  <2> QED
    BY <1>4, <2>3, <2>4, <2>5 DEF Fail, BaseInv, TypeOK
<1> QED
  BY <1>1, <1>2, <1>3, <1>4 DEF ClientStep

LEMMA RestartType ==
  ASSUME BaseInv, Restart PROVE BaseInv'
<1>1. [status |-> "ERROR", value |-> Blank] \in Answer /\ Blank \in Value
  BY AnswerFacts
<1>2. answer' \in [Client -> Answer \cup {NoAnswer}]
  BY <1>1 DEF Restart, BaseInv, TypeOK
<1>3. restarts' \in 0 .. MaxRestarts
  BY BoundsAssumption DEF Restart, BaseInv, TypeOK
<1> QED
  BY <1>1, <1>2, <1>3 DEF Restart, BaseInv, TypeOK

LEMMA BaseStep == BaseInv /\ [Next]_vars => BaseInv'
<1> SUFFICES ASSUME BaseInv, [Next]_vars PROVE BaseInv'
  OBVIOUS
<1>1. CASE UNCHANGED vars
  BY <1>1 DEF vars, server, client, counters, BaseInv, TypeOK
<1> QED
  BY <1>1, HandlerType, ClientType, RestartType DEF Next

\* Every variable keeps its type, whatever is called, fails or restarts.
THEOREM TypeCorrect == Spec => []TypeOK
<1>1. BaseInv => TypeOK
  BY DEF BaseInv
<1> QED
  BY <1>1, BaseInit, BaseStep, PTL DEF Spec
-----------------------------------------------------------------------------
(* What holds between the steps of a call, if the calls are those that the *)
(* service makes: Put and Delete are not among them.                       *)

Shared == \A k \in Calls : k.op \in {"Has", "GetValue", "PutOrUpdate"}

\* A client that has called something has one RPC out, or its answer.
InCall(c) ==
  /\ pc[c] # "has"
  /\ pc[c] = "idle" <=> call[c] = NoCall
  /\ pc[c] = "idle" => answer[c] = NoAnswer

\* What a handler does is what its client waits for; what get has found missing it
\* has read as Blank.
Serves(h) ==
  rpc[h] # Idle =>
    /\ rpc[h].method \in {"get", "put"}
    /\ rpc[h].method = "put" => step[h] = "first"
    /\ step[h] = "second" /\ ~Present(database_, rpc[h].key) => replyval[h] = Blank
    /\ rpc[h].from # Nobody =>
         /\ call[rpc[h].from] # NoCall
         /\ answer[rpc[h].from] = NoAnswer
         /\ rpc[h] = FirstRequest(rpc[h].from, call[rpc[h].from])

\* No client has two RPCs out.
OneRpc ==
  \A g, h \in Handler :
    rpc[g] # Idle /\ rpc[h] # Idle /\ rpc[g].from = rpc[h].from /\ rpc[h].from # Nobody
      => g = h

StoreInv ==
  /\ BaseInv
  /\ \A c \in Client : InCall(c)
  /\ \A h \in Handler : Serves(h)
  /\ OneRpc

\* The calls in progress.
LEMMA CallKinds ==
  ASSUME Shared, BaseInv, NEW c \in Client, call[c] # NoCall
  PROVE  /\ call[c] \in StoreCall
         /\ call[c].key \in Key
         /\ \/ /\ call[c].op \in {"Has", "GetValue"}
               /\ FirstRequest(c, call[c]) = Get(c, call[c].key)
            \/ /\ call[c].op = "PutOrUpdate"
               /\ FirstRequest(c, call[c]) = PutRequest(c, call[c])
               /\ call[c].value \in Value
               /\ call[c] = [op |-> "PutOrUpdate", key |-> call[c].key,
                             value |-> call[c].value]
<1>1. call[c] \in Calls /\ call[c] \in StoreCall
  BY CallsAssumption DEF BaseInv, TypeOK
<1>2. call[c].op \in {"Has", "GetValue", "PutOrUpdate"}
  BY <1>1 DEF Shared
<1> QED
  BY <1>1, <1>2, CallFacts DEF FirstRequest

\* A request with a client is that of the client's call.
LEMMA ServedCall ==
  ASSUME Shared, StoreInv, NEW h \in Handler, rpc[h] # Idle, rpc[h].from # Nobody
  PROVE  LET c == rpc[h].from
         IN  /\ c \in Client /\ call[c] # NoCall /\ answer[c] = NoAnswer
             /\ rpc[h].key = call[c].key
             /\ rpc[h].method = "get" <=> call[c].op \in {"Has", "GetValue"}
             /\ rpc[h].method = "put" <=> call[c].op = "PutOrUpdate"
             /\ rpc[h].method = "put" => rpc[h].value = call[c].value
<1> DEFINE c == rpc[h].from
<1>1. rpc[h] \in Request /\ c \in Client
  BY RequestFacts DEF StoreInv, BaseInv, TypeOK
<1>2. call[c] # NoCall /\ answer[c] = NoAnswer /\ rpc[h] = FirstRequest(c, call[c])
  BY DEF StoreInv, Serves
<1> HIDE DEF c
<1>3. \/ call[c].op \in {"Has", "GetValue"} /\ rpc[h] = Get(c, call[c].key)
      \/ call[c].op = "PutOrUpdate" /\ rpc[h] = PutRequest(c, call[c])
  BY <1>1, <1>2, CallKinds DEF StoreInv
<1>4. /\ rpc[h].key = call[c].key
      /\ rpc[h].method = "get" <=> call[c].op \in {"Has", "GetValue"}
      /\ rpc[h].method = "put" <=> call[c].op = "PutOrUpdate"
      /\ rpc[h].method = "put" => rpc[h].value = call[c].value
  BY <1>3 DEF Get, PutRequest
<1> QED
  BY <1>1, <1>2, <1>4 DEF c

LEMMA StoreInit == Init => StoreInv
  BY BaseInit DEF Init, StoreInv, InCall, Serves, OneRpc

LEMMA InvokeInv ==
  ASSUME Shared, StoreInv, NEW c \in Client, Invoke(c) PROVE StoreInv'
<1>1. BaseInv'
  BY ClientType DEF StoreInv, ClientStep
<1>2. PICK k \in Calls :
        /\ Send(FirstRequest(c, k))
        /\ call' = [call EXCEPT ![c] = k]
        /\ pc' = [pc EXCEPT ![c] = "wait"]
  BY DEF Invoke, Shared
<1>3. PICK g \in Handler : /\ rpc[g] = Idle
                           /\ rpc' = [rpc EXCEPT ![g] = FirstRequest(c, k)]
                           /\ step' = [step EXCEPT ![g] = "first"]
  BY <1>2 DEF Send
<1>4. /\ UNCHANGED <<database_, replyval, answer>> /\ pc[c] = "idle"
      /\ call[c] = NoCall /\ answer[c] = NoAnswer
  BY DEF Invoke, StoreInv, InCall
<1>5. k \in StoreCall /\ k # NoCall /\ k.op \in {"Has", "GetValue", "PutOrUpdate"}
  BY CallsAssumption, CallFacts DEF Shared
<1>6. /\ FirstRequest(c, k).from = c /\ FirstRequest(c, k).method \in {"get", "put"}
      /\ c # Nobody
  BY <1>5, FirstRequestType, NobodyAssumption DEF FirstRequest, Get, PutRequest
<1>7. \A h \in Handler : rpc[h] # Idle => rpc[h].from # c
  BY <1>4, <1>6 DEF StoreInv, Serves
<1>8. ASSUME NEW d \in Client PROVE InCall(d)'
  BY <1>2, <1>4, <1>5 DEF StoreInv, BaseInv, TypeOK, InCall
<1>9. ASSUME NEW h \in Handler PROVE Serves(h)'
  <2>1. CASE h = g
    <3>1. rpc'[h] = FirstRequest(c, k) /\ step'[h] = "first" /\ call'[c] = k
      BY <1>2, <1>3, <2>1 DEF StoreInv, BaseInv, TypeOK
    <3> QED
      BY <1>4, <1>5, <1>6, <3>1 DEF Serves
  <2>2. CASE h # g
    <3>1. rpc'[h] = rpc[h] /\ step'[h] = step[h]
      BY <1>3, <2>2 DEF StoreInv, BaseInv, TypeOK
    <3>2. Serves(h)
      BY DEF StoreInv
    <3>3. rpc[h] # Idle => call'[rpc[h].from] = call[rpc[h].from]
      BY <1>2, <1>7 DEF StoreInv, BaseInv, TypeOK
    <3> QED
      BY <1>4, <3>1, <3>2, <3>3 DEF Serves
  <2> QED
    BY <2>1, <2>2
<1>10. OneRpc'
  BY <1>3, <1>6, <1>7 DEF StoreInv, BaseInv, TypeOK, OneRpc
<1> QED
  BY <1>1, <1>8, <1>9, <1>10 DEF StoreInv

LEMMA ReturnInv ==
  ASSUME Shared, StoreInv, NEW c \in Client, Return(c) PROVE StoreInv'
<1>1. BaseInv'
  BY ClientType DEF StoreInv, ClientStep
<1>2. /\ call' = [call EXCEPT ![c] = NoCall] /\ pc' = [pc EXCEPT ![c] = "idle"]
      /\ answer' = [answer EXCEPT ![c] = NoAnswer]
      /\ UNCHANGED <<database_, rpc, step, replyval>>
      /\ answer[c] # NoAnswer
  BY DEF Return, Finished, server
<1>3. ASSUME NEW d \in Client PROVE InCall(d)'
  BY <1>2 DEF StoreInv, BaseInv, TypeOK, InCall
<1>4. ASSUME NEW h \in Handler PROVE Serves(h)'
  <2>1. Serves(h)
    BY DEF StoreInv
  <2>2. rpc[h] # Idle /\ rpc[h].from # Nobody
          => /\ call'[rpc[h].from] = call[rpc[h].from]
             /\ answer'[rpc[h].from] = answer[rpc[h].from]
    BY <1>2, <2>1, ServedCall DEF StoreInv, BaseInv, TypeOK
  <2> QED
    BY <1>2, <2>1, <2>2 DEF Serves
<1> QED
  BY <1>1, <1>2, <1>3, <1>4 DEF StoreInv, OneRpc

LEMMA FailInv ==
  ASSUME Shared, StoreInv, NEW c \in Client, Fail(c) PROVE StoreInv'
<1>1. BaseInv'
  BY ClientType DEF StoreInv, ClientStep
<1>2. /\ UNCHANGED <<database_, step, replyval, call, pc>>
      /\ \A h \in Handler : rpc'[h] = IF rpc[h] # Idle /\ rpc[h].from = c
                                      THEN Orphaned(rpc[h]) ELSE rpc[h]
      /\ \A d \in Client \ {c} : answer'[d] = answer[d]
  BY DEF Fail, Orphaned, StoreInv, BaseInv, TypeOK
<1>3. pc[c] # "idle"
  BY AnswerFacts DEF Fail, StoreInv, InCall
<1>4. \A h \in Handler : rpc[h] # Idle => rpc[h] \in Request
  BY DEF StoreInv, BaseInv, TypeOK
<1>5. ASSUME NEW d \in Client PROVE InCall(d)'
  BY <1>2, <1>3 DEF StoreInv, InCall
<1>6. ASSUME NEW h \in Handler PROVE Serves(h)'
  <2>1. Serves(h)
    BY DEF StoreInv
  <2>2. CASE rpc[h] # Idle /\ rpc[h].from = c
    <3>1. rpc'[h] = Orphaned(rpc[h]) /\ rpc[h] \in Request
      BY <1>2, <1>4, <2>2
    <3> QED
      BY <1>2, <2>1, <2>2, <3>1, OrphanedFacts DEF Serves
  <2>3. CASE ~(rpc[h] # Idle /\ rpc[h].from = c)
    <3>1. rpc'[h] = rpc[h]
      BY <1>2, <2>3
    <3>2. rpc[h] # Idle /\ rpc[h].from # Nobody => answer'[rpc[h].from] = answer[rpc[h].from]
      BY <1>2, <2>3, ServedCall
    <3> QED
      BY <1>2, <2>1, <3>1, <3>2 DEF Serves
  <2> QED
    BY <2>2, <2>3
<1>7. OneRpc'
  <2>1. \A h \in Handler : rpc[h] # Idle /\ rpc[h].from = c => rpc'[h].from = Nobody
    BY <1>2, <1>4, OrphanedFacts
  <2> QED
    BY <1>2, <2>1 DEF StoreInv, OneRpc
<1> QED
  BY <1>1, <1>5, <1>6, <1>7 DEF StoreInv
\* A handler that replies is free again, and its client has what it waited for.
LEMMA ReplyInv ==
  ASSUME Shared, StoreInv, NEW h \in Handler, rpc[h] # Idle, BaseInv',
         NEW s \in {"OK", "ERROR"}, NEW v \in Value, Reply(h, s, v),
         \A k \in Key : Present(database_, k) => Present(database_', k)
  PROVE  StoreInv'
<1>1. /\ rpc' = [rpc EXCEPT ![h] = Idle] /\ step' = [step EXCEPT ![h] = "first"]
      /\ UNCHANGED <<call, pc>>
      /\ \A g \in Handler \ {h} : replyval'[g] = replyval[g]
  BY DEF Reply, StoreInv, BaseInv, TypeOK
<1>2. \A c \in Client : rpc[h].from # c => answer'[c] = answer[c]
  BY DEF Reply, StoreInv, BaseInv, TypeOK
<1>3. ASSUME NEW c \in Client PROVE InCall(c)'
  <2>1. InCall(c)
    BY DEF StoreInv
  <2>2. CASE rpc[h].from = c
    <3>1. call[c] # NoCall
      BY <2>2, NobodyAssumption, ServedCall
    <3> QED
      BY <1>1, <2>1, <3>1 DEF InCall
  <2>3. CASE rpc[h].from # c
    BY <1>1, <1>2, <2>1, <2>3 DEF InCall
  <2> QED
    BY <2>2, <2>3
<1>4. ASSUME NEW g \in Handler PROVE Serves(g)'
  <2>1. Serves(g)
    BY DEF StoreInv
  <2>2. CASE g = h
    BY <1>1, <2>2 DEF Serves, StoreInv, BaseInv, TypeOK
  <2>3. CASE g # h
    <3>1. rpc'[g] = rpc[g] /\ step'[g] = step[g] /\ replyval'[g] = replyval[g]
      BY <1>1, <2>3 DEF StoreInv, BaseInv, TypeOK
    <3>2. rpc[g] # Idle /\ rpc[g].from # Nobody => answer'[rpc[g].from] = answer[rpc[g].from]
      <4> SUFFICES ASSUME rpc[g] # Idle, rpc[g].from # Nobody
                   PROVE  answer'[rpc[g].from] = answer[rpc[g].from]
        OBVIOUS
      <4>1. rpc[h].from # rpc[g].from
        BY <2>3 DEF StoreInv, OneRpc
      <4> QED
        BY <1>2, <4>1, ServedCall
    <3>3. rpc[g] # Idle => rpc[g].key \in Key
      BY RequestFacts DEF StoreInv, BaseInv, TypeOK
    <3>4. rpc[g] # Idle /\ ~Present(database_', rpc[g].key)
            => ~Present(database_, rpc[g].key)
      BY <3>3
    <3>5. Present(database_, rpc[g].key)' <=> Present(database_', rpc[g].key)
      BY <3>1 DEF Present
    <3> QED
      BY <1>1, <2>1, <3>1, <3>2, <3>4, <3>5 DEF Serves
  <2> QED
    BY <2>2, <2>3
<1>5. OneRpc'
  BY <1>1 DEF StoreInv, BaseInv, TypeOK, OneRpc
<1> QED
  BY <1>3, <1>4, <1>5 DEF StoreInv

LEMMA HandlerInv ==
  ASSUME Shared, StoreInv, NEW h \in Handler, HandlerStep(h) PROVE StoreInv'
<1>1. rpc[h] # Idle /\ rpc[h] \in Request /\ rpc[h].method \in {"get", "put"}
  BY DEF HandlerStep, Put, GetRead, GetHas, DeleteMissing, DeleteHas, Delete, Serving,
     StoreInv, BaseInv, TypeOK, Serves
<1>2. BaseInv'
  BY HandlerType DEF StoreInv
<1>3. ASSUME Put(h) PROVE StoreInv'
  <2>1. rpc[h].key \in Key /\ rpc[h].value \in Value
    BY <1>1, <1>3, RequestFacts DEF Put, Serving
  <2>2. \A k \in Key : Present(database_, k) => Present(database_', k)
    BY <1>3, <2>1, NoValueAssumption DEF Put, Updated, Present, StoreInv, BaseInv, TypeOK
  <2> QED
    BY <1>1, <1>2, <1>3, <2>2, AnswerFacts, ReplyInv DEF Put
<1>4. ASSUME GetHas(h) PROVE StoreInv'
  <2>1. replyval[h] \in Value /\ database_' = database_
    BY <1>4 DEF GetHas, StoreInv, BaseInv, TypeOK
  <2> QED
    BY <1>1, <1>2, <1>4, <2>1, AnswerFacts, ReplyInv DEF GetHas
<1>5. ASSUME GetRead(h) PROVE StoreInv'
  <2>1. /\ UNCHANGED <<database_, rpc, call, pc, answer>>
        /\ step' = [step EXCEPT ![h] = "second"]
        /\ replyval' = [replyval EXCEPT ![h] = Output(database_, Touch("GetValue", h))]
        /\ rpc[h].method = "get"
    BY <1>5 DEF GetRead, client, Serving
  <2>2. ASSUME NEW g \in Handler PROVE Serves(g)'
    <3>1. Serves(g)
      BY DEF StoreInv
    <3>2. CASE g = h
      <4>1. ~Present(database_, rpc[g].key) => replyval'[g] = Blank
        BY <2>1, <3>2 DEF Output, Touch, StoreInv, BaseInv, TypeOK
      <4> QED
        BY <2>1, <3>1, <3>2, <4>1 DEF Serves, Present
    <3>3. CASE g # h
      <4>1. step'[g] = step[g] /\ replyval'[g] = replyval[g]
        BY <2>1, <3>3 DEF StoreInv, BaseInv, TypeOK
      <4> QED
        BY <2>1, <3>1, <4>1 DEF Serves, Present
    <3> QED
      BY <3>2, <3>3
  <2>3. OneRpc' /\ \A c \in Client : InCall(c)'
    BY <2>1 DEF StoreInv, OneRpc, InCall
  <2> QED
    BY <1>2, <2>2, <2>3 DEF StoreInv
<1> QED
  BY <1>1, <1>3, <1>4, <1>5 DEF HandlerStep, DeleteMissing, DeleteHas, Delete, Serving

LEMMA RestartInv ==
  ASSUME Shared, StoreInv, Restart PROVE StoreInv'
<1>1. BaseInv'
  BY RestartType DEF StoreInv
<1>2. \A h \in Handler : rpc'[h] = Idle
  BY DEF Restart
<1>3. \A c \in Client : InCall(c)'
  BY DEF Restart, StoreInv, InCall
<1> QED
  BY <1>1, <1>2, <1>3 DEF StoreInv, Serves, OneRpc

LEMMA StoreStep == Shared /\ StoreInv /\ [Next]_vars => StoreInv'
<1> SUFFICES ASSUME Shared, StoreInv, [Next]_vars PROVE StoreInv'
  OBVIOUS
<1>1. ASSUME NEW c \in Client, ClientStep(c) PROVE StoreInv'
  <2>1. ~PutHas(c)
    BY DEF StoreInv, InCall, PutHas
  <2> QED
    BY <1>1, <2>1, InvokeInv, ReturnInv, FailInv DEF ClientStep
<1>2. CASE UNCHANGED vars
  <2>1. BaseInv'
    BY <1>2, BaseStep DEF StoreInv
  <2> QED
    BY <1>2, <2>1 DEF vars, server, client, StoreInv, InCall, Serves, OneRpc, Present
<1> QED
  BY <1>1, <1>2, HandlerInv, RestartInv DEF Next
-----------------------------------------------------------------------------
(* Refinement.                                                             *)

\* The result of a call: with its answer, or when its handler has read; ...
LEMMA OutcomeFacts ==
  ASSUME Shared, StoreInv, NEW c \in Client
  PROVE  /\ answer[c] # NoAnswer => Outcome(c) = Returned(call[c], answer[c], pc[c])
         /\ \A h \in Handler :
              Reading(c, h) /\ call[c].op = "GetValue" => Outcome(c) = replyval[h]
         /\ answer[c] = NoAnswer /\ call[c].op # "GetValue" => Outcome(c) = Pending
         /\ answer[c] = NoAnswer /\ (\A h \in Handler : ~Reading(c, h))
              => Outcome(c) = Pending
<1>1. Finished(c) <=> answer[c] # NoAnswer
  BY DEF StoreInv, BaseInv, TypeOK, InCall, Finished
<1>2. \A h \in Handler : Reading(c, h) => answer[c] = NoAnswer
  BY NobodyAssumption, ServedCall DEF Reading
<1>3. \A g, h \in Handler : Reading(c, g) /\ Reading(c, h) => g = h
  BY NobodyAssumption DEF StoreInv, OneRpc, Reading
<1>4. ASSUME NEW h \in Handler, Reading(c, h)
      PROVE  (CHOOSE g \in Handler : Reading(c, g)) = h
  BY <1>3, <1>4
<1>5. ASSUME NEW h \in Handler, Reading(c, h), call[c].op = "GetValue"
      PROVE  Outcome(c) = replyval[h]
  BY <1>1, <1>2, <1>4, <1>5 DEF Outcome
<1>6. answer[c] # NoAnswer => Outcome(c) = Returned(call[c], answer[c], pc[c])
  BY <1>1 DEF Outcome
<1>7. ASSUME answer[c] = NoAnswer,
             call[c].op # "GetValue" \/ \A h \in Handler : ~Reading(c, h)
      PROVE  Outcome(c) = Pending
  BY <1>1, <1>7 DEF Outcome
<1> QED
  BY <1>5, <1>6, <1>7

\* ... and the same of the next state.
LEMMA OutcomeNext ==
  ASSUME Shared, StoreInv', NEW c \in Client
  PROVE  /\ answer'[c] # NoAnswer => Outcome(c)' = Returned(call'[c], answer'[c], pc'[c])
         /\ \A h \in Handler :
              Reading(c, h)' /\ call'[c].op = "GetValue" => Outcome(c)' = replyval'[h]
         /\ answer'[c] = NoAnswer /\ call'[c].op # "GetValue" => Outcome(c)' = Pending
         /\ answer'[c] = NoAnswer /\ (\A h \in Handler : ~Reading(c, h)')
              => Outcome(c)' = Pending
<1>1. Finished(c)' <=> answer'[c] # NoAnswer
  BY DEF StoreInv, BaseInv, TypeOK, InCall, Finished
<1>2. ASSUME NEW h \in Handler, Reading(c, h)' PROVE answer'[c] = NoAnswer
  <2>1. Serves(h)' /\ rpc'[h] # Idle /\ rpc'[h].from = c
    BY <1>2 DEF Reading, StoreInv
  <2> QED
    BY <2>1, NobodyAssumption DEF Serves
<1>3. \A g, h \in Handler : Reading(c, g)' /\ Reading(c, h)' => g = h
  BY NobodyAssumption DEF StoreInv, OneRpc, Reading
<1>4. ASSUME NEW h \in Handler, Reading(c, h)'
      PROVE  (CHOOSE g \in Handler : Reading(c, g))' = h
  BY <1>3, <1>4
<1>5. ASSUME NEW h \in Handler, Reading(c, h)', call'[c].op = "GetValue"
      PROVE  Outcome(c)' = replyval'[h]
  BY <1>1, <1>2, <1>4, <1>5 DEF Outcome
<1>6. answer'[c] # NoAnswer => Outcome(c)' = Returned(call'[c], answer'[c], pc'[c])
  BY <1>1 DEF Outcome
<1>7. ASSUME answer'[c] = NoAnswer,
             call'[c].op # "GetValue" \/ \A h \in Handler : ~Reading(c, h)'
      PROVE  Outcome(c)' = Pending
  BY <1>1, <1>7 DEF Outcome
<1> QED
  BY <1>5, <1>6, <1>7

\* A client that a step leaves alone keeps its outcome.
LEMMA OutcomeKept ==
  ASSUME Shared, StoreInv, StoreInv', NEW c \in Client,
         call'[c] = call[c], pc'[c] = pc[c], answer'[c] = answer[c],
         \A h \in Handler : /\ Reading(c, h)' <=> Reading(c, h)
                            /\ Reading(c, h) => replyval'[h] = replyval[h]
  PROVE  Outcome(c)' = Outcome(c)
<1>1. CASE answer[c] # NoAnswer
  BY <1>1, OutcomeFacts, OutcomeNext
<1>2. CASE answer[c] = NoAnswer /\ \A h \in Handler : ~Reading(c, h)
  BY <1>2, OutcomeFacts, OutcomeNext
<1>3. CASE answer[c] = NoAnswer /\ call[c].op # "GetValue"
  BY <1>3, OutcomeFacts, OutcomeNext
<1>4. CASE call[c].op = "GetValue" /\ \E h \in Handler : Reading(c, h)
  BY <1>4, OutcomeFacts, OutcomeNext
<1> QED
  BY <1>1, <1>2, <1>3, <1>4

Results == [c \in Client |-> Outcome(c)]
Lates == [h \in Handler |-> Late(h)]

\* How the results of all clients change when one client's does.
LEMMA ResultsExcept ==
  ASSUME NEW c \in Client, NEW r, Outcome(c)' = r,
         \A d \in Client \ {c} : Outcome(d)' = Outcome(d)
  PROVE  Results' = [Results EXCEPT ![c] = r]
<1>1. Results' = [d \in Client |-> Outcome(d)']
  BY DEF Results
<1> QED
  BY <1>1 DEF Results

LEMMA RefineInit == Init => AS!Init
<1> SUFFICES ASSUME Init
             PROVE  /\ \A c \in Client : Outcome(c) = Pending
                    /\ \A h \in Handler : Late(h) = NoCall
  BY DEF Init, AS!Init, AS!Nothing, AS!NoCall, NoCall
<1>1. \A c \in Client : ~Finished(c) /\ \A h \in Handler : ~Reading(c, h)
  BY DEF Init, Finished, Reading
<1>2. \A h \in Handler : rpc[h] = Idle
  BY DEF Init
<1> QED
  BY <1>1, <1>2 DEF Outcome, Late, GivenUp
\* The steps of a client that the store does not see, and those that end a call.
LEMMA InvokeRefines ==
  ASSUME Shared, StoreInv, StoreInv', NEW c \in Client, Invoke(c) PROVE AS!Invoke(c)
<1>1. PICK k \in Calls :
        /\ Send(FirstRequest(c, k))
        /\ call' = [call EXCEPT ![c] = k]
        /\ pc' = [pc EXCEPT ![c] = IF k.op = "Put" THEN "has" ELSE "wait"]
  BY DEF Invoke
<1>2. PICK g \in Handler : /\ rpc[g] = Idle
                           /\ rpc' = [rpc EXCEPT ![g] = FirstRequest(c, k)]
                           /\ step' = [step EXCEPT ![g] = "first"]
  BY <1>1 DEF Send
<1>3. /\ UNCHANGED <<database_, replyval, answer>>
      /\ call[c] = NoCall /\ answer[c] = NoAnswer
  BY DEF Invoke, StoreInv, InCall
<1>4. FirstRequest(c, k).from = c /\ c # Nobody
  BY CallsAssumption, FirstRequestType, NobodyAssumption
<1>5. \A h \in Handler \ {g} : rpc'[h] = rpc[h] /\ step'[h] = step[h]
  BY <1>2 DEF StoreInv, BaseInv, TypeOK
<1>6. rpc'[g].from = c /\ step'[g] = "first"
  BY <1>2, <1>4 DEF StoreInv, BaseInv, TypeOK
<1>7. \A d \in Client, h \in Handler : Reading(d, h)' <=> Reading(d, h)
  BY <1>2, <1>5, <1>6 DEF Reading
<1>8. \A h \in Handler : ~Reading(c, h)
  BY <1>3, <1>4, ServedCall DEF Reading
<1>9. Outcome(c) = Pending /\ Outcome(c)' = Pending
  BY <1>3, <1>7, <1>8, OutcomeFacts, OutcomeNext
<1>10. ASSUME NEW d \in Client PROVE Outcome(d)' = Outcome(d)
  <2>1. CASE d # c
    <3>1. call'[d] = call[d] /\ pc'[d] = pc[d]
      BY <1>1, <2>1 DEF StoreInv, BaseInv, TypeOK
    <3> QED
      BY <1>3, <1>7, <3>1, OutcomeKept
  <2> QED
    BY <1>9, <2>1
<1>11. ASSUME NEW h \in Handler PROVE Late(h)' = Late(h)
  BY <1>2, <1>4, <1>5, <1>6 DEF Late, GivenUp
<1> QED
  BY <1>1, <1>3, <1>10, <1>11 DEF AS!Invoke, AS!NoCall, NoCall

LEMMA ReturnRefines ==
  ASSUME Shared, StoreInv, StoreInv', NEW c \in Client, Return(c) PROVE AS!Return(c)
<1>1. /\ call' = [call EXCEPT ![c] = NoCall] /\ pc' = [pc EXCEPT ![c] = "idle"]
      /\ answer' = [answer EXCEPT ![c] = NoAnswer]
      /\ UNCHANGED <<database_, rpc, step, replyval>>
      /\ answer[c] # NoAnswer
  BY DEF Return, Finished, server
<1>2. \A d \in Client, h \in Handler : Reading(d, h)' <=> Reading(d, h)
  BY <1>1 DEF Reading
<1>3. \A h \in Handler : ~Reading(c, h)
  BY <1>1, NobodyAssumption, ServedCall DEF Reading
<1>4. Outcome(c)' = Pending
  BY <1>1, <1>2, <1>3, OutcomeNext DEF StoreInv, BaseInv, TypeOK
<1>5. ASSUME NEW d \in Client \ {c} PROVE Outcome(d)' = Outcome(d)
  <2>1. call'[d] = call[d] /\ pc'[d] = pc[d] /\ answer'[d] = answer[d]
    BY <1>1 DEF StoreInv, BaseInv, TypeOK
  <2> QED
    BY <1>1, <1>2, <2>1, OutcomeKept
<1>6. Outcome(c) # Pending
  <2>1. call[c] # NoCall /\ answer[c] \in Answer
    BY <1>1 DEF StoreInv, InCall, BaseInv, TypeOK
  <2>2. call[c].op \in {"Has", "GetValue", "PutOrUpdate"}
    BY <2>1, CallKinds DEF StoreInv
  <2>3. Returned(call[c], answer[c], pc[c]) \in Value \cup BOOLEAN
    BY <2>1, <2>2, AnswerFacts DEF Returned, Ok
  <2> QED
    BY <1>1, <2>3, OutcomeFacts, PendingAssumption
<1>7. Results' = [Results EXCEPT ![c] = Pending]
  BY <1>4, <1>5, ResultsExcept
<1>8. ASSUME NEW h \in Handler PROVE Late(h)' = Late(h)
  BY <1>1 DEF Late, GivenUp
<1>9. Lates' = Lates
  BY <1>8 DEF Lates
<1> QED
  BY <1>1, <1>6, <1>7, <1>9 DEF AS!Return, AS!NoCall, NoCall, Results, Lates
\* A failed RPC is a failed call; if it was a put, its handler makes it a late one.
LEMMA FailRefines ==
  ASSUME Shared, StoreInv, StoreInv', NEW c \in Client, Fail(c)
  PROVE  AS!Fail(c) \/ UNCHANGED AS!vars
<1>1. /\ UNCHANGED <<database_, step, replyval, call, pc>>
      /\ \A h \in Handler : rpc'[h] = IF rpc[h] # Idle /\ rpc[h].from = c
                                      THEN Orphaned(rpc[h]) ELSE rpc[h]
      /\ \A d \in Client \ {c} : answer'[d] = answer[d]
      /\ pc[c] # "idle" /\ call[c] # NoCall
  BY AnswerFacts DEF Fail, Orphaned, StoreInv, BaseInv, TypeOK, InCall
<1>2. \A h \in Handler : rpc[h] # Idle => rpc[h] \in Request
  BY DEF StoreInv, BaseInv, TypeOK
<1>3. ASSUME NEW d \in Client \ {c} PROVE Outcome(d)' = Outcome(d)
  <2>1. ASSUME NEW h \in Handler PROVE Reading(d, h)' <=> Reading(d, h)
    BY <1>1, <1>2, OrphanedFacts, NobodyAssumption DEF Reading
  <2> QED
    BY <1>1, <2>1, OutcomeKept
<1>4. call[c] \in StoreCall /\ call[c].op \in {"Has", "GetValue", "PutOrUpdate"}
  BY <1>1, CallKinds DEF StoreInv
<1>5. ASSUME NEW v \in Value, answer'[c] = [status |-> "ERROR", value |-> v],
             call[c].op = "GetValue" => v = Blank
      PROVE  Results' = [Results EXCEPT ![c] = AS!Failed(call[c])]
  <2>1. answer'[c] # NoAnswer /\ ~Ok(answer'[c]) /\ answer'[c].value = v
    BY <1>5, AnswerFacts DEF Ok
  <2>2. Outcome(c)' = Returned(call[c], answer'[c], pc[c])
    BY <1>1, <2>1, OutcomeNext
  <2>3. Outcome(c)' = AS!Failed(call[c])
    <3>1. CASE call[c].op = "GetValue"
      BY <1>5, <2>1, <2>2, <3>1 DEF Returned, AS!Failed
    <3>2. CASE call[c].op \in {"Has", "PutOrUpdate"}
      <4>1. Returned(call[c], answer'[c], pc[c]) = Ok(answer'[c])
        BY <3>2 DEF Returned
      <4>2. AS!Failed(call[c]) = FALSE
        BY <3>2 DEF AS!Failed
      <4>3. Ok(answer'[c]) = FALSE
        BY <2>1 DEF Ok
      <4> QED
        BY <2>2, <4>1, <4>2, <4>3
    <3> QED
      BY <1>4, <3>1, <3>2
  <2> QED
    BY <1>3, <2>3, ResultsExcept
<1>6. CASE answer[c] = NoAnswer
  <2>1. answer'[c] = [status |-> "ERROR", value |-> Blank]
    BY <1>6, AnswerFacts DEF Fail, StoreInv, BaseInv, TypeOK
  <2>2. Results' = [Results EXCEPT ![c] = AS!Failed(call[c])]
    BY <1>5, <2>1, AnswerFacts
  <2>3. CASE \A h \in Handler : ~(rpc[h] # Idle /\ rpc[h].from = c /\ rpc[h].method = "put")
    <3>1. ASSUME NEW h \in Handler PROVE Late(h)' = Late(h)
      <4>1. CASE rpc[h] # Idle /\ rpc[h].from = c
        <5>1. rpc'[h].method = "get" /\ rpc[h].method = "get"
          <6>1. rpc[h].method = "get"
            BY <2>3, <4>1 DEF StoreInv, Serves
          <6>2. rpc'[h] = Orphaned(rpc[h]) /\ rpc[h] \in Request
            BY <1>1, <1>2, <4>1
          <6> QED
            BY <6>1, <6>2, OrphanedFacts
        <5> QED
          BY <5>1 DEF Late, GivenUp
      <4>2. CASE ~(rpc[h] # Idle /\ rpc[h].from = c)
        <5>1. rpc'[h] = rpc[h]
          BY <1>1, <4>2
        <5> QED
          BY <5>1 DEF Late, GivenUp
      <4> QED
        BY <4>1, <4>2
    <3>2. Lates' = Lates
      BY <3>1 DEF Lates
    <3> QED
      BY <1>1, <2>2, <3>2 DEF AS!Fail, AS!NoCall, NoCall, Results, Lates
  <2>4. ASSUME NEW g \in Handler, rpc[g] # Idle, rpc[g].from = c, rpc[g].method = "put"
        PROVE  AS!Fail(c)
    <3>1. /\ call[c].op = "PutOrUpdate"
          /\ call[c] = [op |-> "PutOrUpdate", key |-> rpc[g].key, value |-> rpc[g].value]
      BY <2>4, NobodyAssumption, ServedCall, CallKinds DEF StoreInv
    <3>2. Late(g) = NoCall /\ Late(g)' = call[c]
      <4>1. rpc'[g] = Orphaned(rpc[g]) /\ rpc[g] \in Request
        BY <1>1, <1>2, <2>4
      <4>2. /\ rpc'[g] # Idle /\ rpc'[g].from = Nobody /\ rpc'[g].method = "put"
            /\ rpc'[g].key = rpc[g].key /\ rpc'[g].value = rpc[g].value
        BY <2>4, <4>1, OrphanedFacts
      <4> QED
        BY <2>4, <3>1, <4>2, NobodyAssumption DEF Late, GivenUp
    <3>3. ASSUME NEW h \in Handler \ {g} PROVE Late(h)' = Late(h)
      <4>1. rpc'[h] = rpc[h]
        BY <1>1, <2>4, NobodyAssumption DEF StoreInv, OneRpc
      <4> QED
        BY <4>1 DEF Late, GivenUp
    <3>4. Lates' = [Lates EXCEPT ![g] = call[c]]
      <4>1. Lates' = [h \in Handler |-> Late(h)']
        BY DEF Lates
      <4> QED
        BY <3>2, <3>3, <4>1 DEF Lates
    <3>5. Results[c] = Pending /\ Lates[g] = NoCall
      BY <1>6, <3>1, <3>2, OutcomeFacts DEF Results, Lates
    <3> QED
      BY <1>1, <2>2, <3>1, <3>4, <3>5 DEF AS!Fail, AS!NoCall, NoCall, Results, Lates
  <2> QED
    BY <2>3, <2>4
<1>7. CASE answer[c] # NoAnswer
  <2>1. PICK v \in {Blank, answer[c].value} :
          answer'[c] = [status |-> "ERROR", value |-> v]
    BY <1>7 DEF Fail, StoreInv, BaseInv, TypeOK
  <2>2. v \in Value
    BY <1>7, AnswerFacts DEF StoreInv, BaseInv, TypeOK
  <2>3. \A h \in Handler : rpc'[h] = rpc[h]
    BY <1>1, <1>7, NobodyAssumption, ServedCall
  <2>4. Lates' = Lates
    <3>1. \A h \in Handler : Late(h)' = Late(h)
      BY <2>3 DEF Late, GivenUp
    <3> QED
      BY <3>1 DEF Lates
  <2>5. CASE call[c].op = "GetValue" => v = Blank
    <3>1. Results' = [Results EXCEPT ![c] = AS!Failed(call[c])]
      BY <1>5, <2>1, <2>2, <2>5
    <3> QED
      BY <1>1, <2>4, <3>1 DEF AS!Fail, AS!NoCall, NoCall, Results, Lates
  <2>6. CASE call[c].op = "GetValue" /\ v = answer[c].value
    <3>1. Outcome(c) = answer[c].value
      BY <1>7, <2>6, OutcomeFacts DEF Returned
    <3>2. Outcome(c)' = answer[c].value
      <4>1. answer'[c] # NoAnswer /\ answer'[c].value = answer[c].value
        BY <2>1, <2>2, <2>6, AnswerFacts
      <4>2. Outcome(c)' = Returned(call[c], answer'[c], pc[c])
        BY <1>1, <4>1, OutcomeNext
      <4> QED
        BY <2>6, <4>1, <4>2 DEF Returned
    <3>3. Results' = Results
      <4>1. \A d \in Client : Outcome(d)' = Outcome(d)
        BY <1>3, <3>1, <3>2
      <4> QED
        BY <4>1 DEF Results
    <3> QED
      BY <1>1, <2>4, <3>3 DEF AS!vars, Results, Lates
  <2> QED
    BY <2>1, <2>5, <2>6
<1> QED
  BY <1>6, <1>7
-----------------------------------------------------------------------------
(* The handlers.                                                           *)

\* A handler that touches the table: the clients it does not serve see nothing.
LEMMA OthersKept ==
  ASSUME Shared, StoreInv, StoreInv', NEW h \in Handler, rpc[h] # Idle,
         UNCHANGED <<call, pc>>,
         rpc'[h] = rpc[h] \/ rpc'[h] = Idle,
         \A g \in Handler \ {h} :
            rpc'[g] = rpc[g] /\ step'[g] = step[g] /\ replyval'[g] = replyval[g],
         \A d \in Client : rpc[h].from # d => answer'[d] = answer[d]
  PROVE  \A d \in Client : rpc[h].from # d => Outcome(d)' = Outcome(d)
<1> SUFFICES ASSUME NEW d \in Client, rpc[h].from # d PROVE Outcome(d)' = Outcome(d)
  OBVIOUS
<1>1. ASSUME NEW g \in Handler
      PROVE  /\ Reading(d, g)' <=> Reading(d, g)
             /\ Reading(d, g) => replyval'[g] = replyval[g]
  BY DEF Reading
<1> QED
  BY <1>1, OutcomeKept

\* What Reply does, handler by handler and client by client.
LEMMA ReplyFacts ==
  ASSUME StoreInv, NEW h \in Handler, NEW s, NEW v, Reply(h, s, v)
  PROVE  /\ UNCHANGED <<call, pc>> /\ rpc'[h] = Idle
         /\ \A g \in Handler \ {h} :
              rpc'[g] = rpc[g] /\ step'[g] = step[g] /\ replyval'[g] = replyval[g]
         /\ \A d \in Client :
              answer'[d] = IF rpc[h].from = d THEN [status |-> s, value |-> v]
                                              ELSE answer[d]
         /\ Lates' = [Lates EXCEPT ![h] = NoCall]
<1>1. /\ UNCHANGED <<call, pc>> /\ rpc'[h] = Idle
      /\ \A g \in Handler \ {h} :
           rpc'[g] = rpc[g] /\ step'[g] = step[g] /\ replyval'[g] = replyval[g]
  BY DEF Reply, StoreInv, BaseInv, TypeOK
<1>2. \A d \in Client :
        answer'[d] = IF rpc[h].from = d THEN [status |-> s, value |-> v] ELSE answer[d]
  BY NobodyAssumption DEF Reply, StoreInv, BaseInv, TypeOK
<1>3. Late(h)' = NoCall /\ \A g \in Handler \ {h} : Late(g)' = Late(g)
  BY <1>1 DEF Late, GivenUp
<1>4. Lates' = [g \in Handler |-> Late(g)']
  BY DEF Lates
<1>5. Lates' = [Lates EXCEPT ![h] = NoCall]
  BY <1>3, <1>4 DEF Lates
<1> QED
  BY <1>1, <1>2, <1>5

LEMMA PutRefines ==
  ASSUME Shared, StoreInv, StoreInv', NEW h \in Handler, Put(h)
  PROVE  (\E c \in Client : AS!TakeEffect(c)) \/ AS!TakeEffectLate(h)
<1>1. /\ rpc[h] # Idle /\ rpc[h].method = "put" /\ Reply(h, "OK", Blank)
      /\ rpc[h] \in Request /\ rpc[h].from \in Client \cup {Nobody}
  BY RequestFacts DEF Put, Serving, StoreInv, BaseInv, TypeOK
<1> DEFINE k == [op |-> "PutOrUpdate", key |-> rpc[h].key, value |-> rpc[h].value]
<1>2. database_' = AS!Left(database_, k)
  BY DEF Put, Updated, AS!Left
<1>3. \A d \in Client : rpc[h].from # d => Outcome(d)' = Outcome(d)
  BY <1>1, ReplyFacts, OthersKept
<1>4. CASE rpc[h].from = Nobody
  <2>1. Late(h) = k
    BY <1>1, <1>4 DEF Late, GivenUp
  <2>2. Lates[h] = k /\ k # NoCall
    BY <2>1 DEF Lates, NoCall
  <2>3. Results' = Results
    BY <1>3, <1>4, NobodyAssumption DEF Results
  <2>4. Lates' = [Lates EXCEPT ![h] = NoCall] /\ call' = call
    BY <1>1, ReplyFacts
  <2> QED
    BY <1>2, <2>2, <2>3, <2>4 DEF AS!TakeEffectLate, AS!NoCall, NoCall, Results, Lates
<1>5. CASE rpc[h].from # Nobody
  <2>0. PICK c \in Client : c = rpc[h].from
    BY <1>1, <1>5
  <2>1. /\ c \in Client /\ call[c] # NoCall /\ answer[c] = NoAnswer
        /\ call[c].op = "PutOrUpdate" /\ call[c] = k
    BY <1>1, <1>5, <2>0, ServedCall, CallKinds DEF StoreInv
  <2> HIDE DEF k
  <2>2. Outcome(c) = Pending
    BY <2>1, OutcomeFacts
  <2>3. answer'[c] = [status |-> "OK", value |-> Blank] /\ call' = call /\ pc' = pc
    BY <1>1, <2>0, ReplyFacts
  <2>4. Outcome(c)' = TRUE
    <3>1. answer'[c] # NoAnswer /\ Ok(answer'[c]) = TRUE
      BY <2>3, AnswerFacts DEF Ok
    <3>2. Outcome(c)' = Returned(call[c], answer'[c], pc[c])
      <4>1. c \in Client /\ call'[c] = call[c] /\ pc'[c] = pc[c]
        BY <2>1, <2>3
      <4>2. Outcome(c)' = Returned(call'[c], answer'[c], pc'[c])
        BY <3>1, <4>1, OutcomeNext
      <4> QED
        BY <4>1, <4>2
    <3>3. Returned(call[c], answer'[c], pc[c]) = Ok(answer'[c])
      BY <2>1 DEF Returned
    <3> QED
      BY <3>1, <3>2, <3>3
  <2>5. AS!Promised(database_, call[c]) = TRUE
    BY <2>1 DEF AS!Promised
  <2>6. \A d \in Client \ {c} : Outcome(d)' = Outcome(d)
    BY <1>3, <2>0
  <2>7. Results' = [Results EXCEPT ![c] = AS!Promised(database_, call[c])]
    <3>1. c \in Client /\ Outcome(c)' = AS!Promised(database_, call[c])
      BY <2>1, <2>4, <2>5
    <3> QED
      BY <2>6, <3>1, ResultsExcept
  <2>8. Lates' = Lates
    <3>1. Lates[h] = NoCall
      BY <1>5 DEF Lates, Late, GivenUp
    <3>2. Lates' = [Lates EXCEPT ![h] = NoCall]
      BY <1>1, ReplyFacts
    <3> QED
      BY <3>1, <3>2 DEF Lates
  <2>9. Results[c] = Pending
    BY <2>1, <2>2 DEF Results
  <2>10. AS!TakeEffect(c)
    BY <1>2, <2>1, <2>3, <2>7, <2>8, <2>9 DEF AS!TakeEffect, AS!NoCall, NoCall, Results, Lates
  <2> QED
    BY <2>1, <2>10
<1> QED
  BY <1>4, <1>5
LEMMA GetReadRefines ==
  ASSUME Shared, StoreInv, StoreInv', NEW h \in Handler, GetRead(h)
  PROVE  (\E c \in Client : AS!TakeEffect(c)) \/ UNCHANGED AS!vars
<1>1. /\ rpc[h] # Idle /\ rpc[h].method = "get" /\ step[h] = "first"
      /\ UNCHANGED <<database_, rpc, call, pc, answer>>
      /\ \A g \in Handler \ {h} : step'[g] = step[g] /\ replyval'[g] = replyval[g]
      /\ step'[h] = "second"
      /\ replyval'[h] = Output(database_, Touch("GetValue", h))
      /\ rpc[h].from \in Client \cup {Nobody}
  BY RequestFacts DEF GetRead, Serving, client, StoreInv, BaseInv, TypeOK
<1>2. \A d \in Client : rpc[h].from # d => Outcome(d)' = Outcome(d)
  BY <1>1, OthersKept
<1>3. Lates' = Lates
  <2>1. \A g \in Handler : Late(g)' = Late(g)
    BY <1>1 DEF Late, GivenUp
  <2> QED
    BY <2>1 DEF Lates
<1>4. CASE rpc[h].from = Nobody
  <2>1. Results' = Results
    BY <1>2, <1>4, NobodyAssumption DEF Results
  <2> QED
    BY <1>1, <1>3, <2>1 DEF AS!vars, Results, Lates
<1>5. CASE rpc[h].from # Nobody
  <2>0. PICK c \in Client : c = rpc[h].from
    BY <1>1, <1>5
  <2>1. /\ call[c] # NoCall /\ answer[c] = NoAnswer /\ call[c].op \in {"Has", "GetValue"}
        /\ rpc[h].key = call[c].key
    BY <1>1, <1>5, <2>0, ServedCall
  <2>2. \A g \in Handler : ~Reading(c, g)
    BY <1>1, <1>5, <2>0 DEF StoreInv, OneRpc, Reading
  <2>3. Outcome(c) = Pending
    BY <2>1, <2>2, OutcomeFacts
  <2>4. \A d \in Client \ {c} : Outcome(d)' = Outcome(d)
    BY <1>2, <2>0
  <2>5. CASE call[c].op = "Has"
    <3>1. answer'[c] = NoAnswer /\ call'[c].op # "GetValue"
      BY <1>1, <2>1, <2>5
    <3>2. Outcome(c)' = Pending
      BY <3>1, OutcomeNext
    <3>3. Results' = Results
      BY <2>3, <2>4, <3>2 DEF Results
    <3> QED
      BY <1>1, <1>3, <3>3 DEF AS!vars, Results, Lates
  <2>6. CASE call[c].op = "GetValue"
    <3>1. Reading(c, h)' /\ call'[c].op = "GetValue"
      BY <1>1, <2>0, <2>6 DEF Reading
    <3>2. Outcome(c)' = replyval'[h]
      BY <3>1, OutcomeNext
    <3>3. AS!Promised(database_, call[c]) = replyval'[h]
      BY <1>1, <2>1, <2>6 DEF AS!Promised, AS!Present, Output, Touch, Present
    <3>4. Results' = [Results EXCEPT ![c] = AS!Promised(database_, call[c])]
      BY <2>4, <3>2, <3>3, ResultsExcept
    <3>5. database_' = AS!Left(database_, call[c])
      BY <1>1, <2>6 DEF AS!Left
    <3>6. Results[c] = Pending
      BY <2>3 DEF Results
    <3>7. AS!TakeEffect(c)
      BY <1>1, <1>3, <2>1, <3>4, <3>5, <3>6 DEF AS!TakeEffect, AS!NoCall, NoCall, Results, Lates
    <3> QED
      BY <3>7
  <2> QED
    BY <2>1, <2>5, <2>6
<1> QED
  BY <1>4, <1>5

LEMMA GetHasRefines ==
  ASSUME Shared, StoreInv, StoreInv', NEW h \in Handler, GetHas(h)
  PROVE  (\E c \in Client : AS!TakeEffect(c)) \/ UNCHANGED AS!vars
<1>1. /\ rpc[h] # Idle /\ rpc[h].method = "get" /\ step[h] = "second"
      /\ rpc[h].from \in Client \cup {Nobody} /\ database_' = database_
  BY RequestFacts DEF GetHas, Serving, StoreInv, BaseInv, TypeOK
<1>2. PICK s, v :
        /\ Reply(h, s, v) /\ v \in Value
        /\ IF Present(database_, rpc[h].key) THEN s = "OK" /\ v = replyval[h]
                                             ELSE s = "ERROR" /\ v = Blank
  BY AnswerFacts DEF GetHas, Output, Touch, StoreInv, BaseInv, TypeOK
<1>3. \A d \in Client : rpc[h].from # d => Outcome(d)' = Outcome(d)
  BY <1>1, <1>2, ReplyFacts, OthersKept
<1>4. Lates' = Lates
  <2>1. Lates[h] = NoCall
    BY <1>1 DEF Lates, Late, GivenUp
  <2>2. Lates' = [Lates EXCEPT ![h] = NoCall]
    BY <1>2, ReplyFacts
  <2> QED
    BY <2>1, <2>2 DEF Lates
<1>5. call' = call /\ pc' = pc
  BY <1>2, ReplyFacts
<1>6. CASE rpc[h].from = Nobody
  <2>1. Results' = Results
    BY <1>3, <1>6, NobodyAssumption DEF Results
  <2> QED
    BY <1>1, <1>4, <1>5, <2>1 DEF AS!vars, Results, Lates
<1>7. CASE rpc[h].from # Nobody
  <2>0. PICK c \in Client : c = rpc[h].from
    BY <1>1, <1>7
  <2>1. /\ call[c] # NoCall /\ answer[c] = NoAnswer /\ call[c].op \in {"Has", "GetValue"}
        /\ rpc[h].key = call[c].key
    BY <1>1, <1>7, <2>0, ServedCall
  <2>2. answer'[c] = [status |-> s, value |-> v] /\ answer'[c] # NoAnswer
    <3>1. answer'[c] = [status |-> s, value |-> v]
      BY <1>2, <2>0, ReplyFacts
    <3> QED
      BY <1>2, <3>1, AnswerFacts
  <2>3. Outcome(c)' = Returned(call[c], answer'[c], pc[c])
    <3>1. Outcome(c)' = Returned(call'[c], answer'[c], pc'[c])
      BY <2>2, OutcomeNext
    <3> QED
      BY <1>5, <3>1
  <2>4. \A d \in Client \ {c} : Outcome(d)' = Outcome(d)
    BY <1>3, <2>0
  <2>5. CASE call[c].op = "GetValue"
    <3>1. Outcome(c) = replyval[h]
      BY <1>1, <2>0, <2>5, OutcomeFacts DEF Reading
    <3>2. v = replyval[h]
      <4>1. ~Present(database_, rpc[h].key) => replyval[h] = Blank
        BY <1>1 DEF StoreInv, Serves
      <4> QED
        BY <1>2, <4>1
    <3>3. Outcome(c)' = replyval[h]
      BY <2>2, <2>3, <2>5, <3>2 DEF Returned
    <3>4. Results' = Results
      BY <2>4, <3>1, <3>3 DEF Results
    <3> QED
      BY <1>1, <1>4, <1>5, <3>4 DEF AS!vars, Results, Lates
  <2>6. CASE call[c].op = "Has"
    <3>1. Results[c] = Pending
      BY <2>1, <2>6, OutcomeFacts DEF Results
    <3>2. Returned(call[c], answer'[c], pc[c]) = Ok(answer'[c])
      BY <2>6 DEF Returned
    <3>3. Ok(answer'[c]) = Present(database_, call[c].key)
      <4>1. answer'[c].status = s
        BY <2>2
      <4>2. (s = "OK") = Present(database_, call[c].key)
        <5>1. CASE Present(database_, call[c].key)
          <6>1. s = "OK"
            BY <1>2, <2>1, <5>1
          <6> QED
            BY <5>1, <6>1 DEF Present
        <5>2. CASE ~Present(database_, call[c].key)
          <6>1. s # "OK"
            BY <1>2, <2>1, <5>2
          <6> QED
            BY <5>2, <6>1 DEF Present
        <5> QED
          BY <5>1, <5>2
      <4> QED
        BY <4>1, <4>2 DEF Ok
    <3>4. AS!Promised(database_, call[c]) = Present(database_, call[c].key)
      BY <2>6 DEF AS!Promised, AS!Present, Present
    <3>5. Outcome(c)' = AS!Promised(database_, call[c])
      BY <2>3, <3>2, <3>3, <3>4
    <3>6. Results' = [Results EXCEPT ![c] = AS!Promised(database_, call[c])]
      BY <2>4, <3>5, ResultsExcept
    <3>7. database_' = AS!Left(database_, call[c])
      BY <1>1, <2>6 DEF AS!Left
    <3>8. AS!TakeEffect(c)
      BY <1>4, <1>5, <2>1, <3>1, <3>6, <3>7 DEF AS!TakeEffect, AS!NoCall, NoCall, Results, Lates
    <3> QED
      BY <3>8
  <2> QED
    BY <2>1, <2>5, <2>6
<1> QED
  BY <1>6, <1>7
LEMMA RestartRefines ==
  ASSUME Shared, StoreInv, StoreInv', Restart PROVE AS!Die
<1> DEFINE failing == {c \in Client : pc[c] # "idle" /\ answer[c] = NoAnswer}
<1>1. /\ database_' = AS!Nothing /\ call' = call /\ pc' = pc
      /\ \A h \in Handler : rpc'[h] = Idle
      /\ \A c \in Client : answer'[c] = IF c \in failing
                                        THEN [status |-> "ERROR", value |-> Blank]
                                        ELSE answer[c]
  BY DEF Restart, AS!Nothing
<1>2. \A c \in failing : call[c] # NoCall
  BY DEF StoreInv, InCall
<1>3. ASSUME NEW c \in failing PROVE Outcome(c)' = AS!Failed(call[c])
  <2>1. call[c].op \in {"Has", "GetValue", "PutOrUpdate"}
    BY <1>2, CallKinds DEF StoreInv
  <2>2. answer'[c] = [status |-> "ERROR", value |-> Blank]
    BY <1>1
  <2>3. answer'[c] # NoAnswer /\ ~Ok(answer'[c]) /\ answer'[c].value = Blank
    BY <2>2, AnswerFacts DEF Ok
  <2>4. Outcome(c)' = Returned(call[c], answer'[c], pc[c])
    <3>1. Outcome(c)' = Returned(call'[c], answer'[c], pc'[c])
      BY <2>3, OutcomeNext
    <3> QED
      BY <1>1, <3>1
  <2>5. CASE call[c].op = "GetValue"
    BY <2>3, <2>4, <2>5 DEF Returned, AS!Failed
  <2>6. CASE call[c].op \in {"Has", "PutOrUpdate"}
    <3>1. Returned(call[c], answer'[c], pc[c]) = Ok(answer'[c])
      BY <2>6 DEF Returned
    <3>2. AS!Failed(call[c]) = FALSE
      BY <2>6 DEF AS!Failed
    <3>3. Ok(answer'[c]) = FALSE
      BY <2>3 DEF Ok
    <3> QED
      BY <2>4, <3>1, <3>2, <3>3
  <2> QED
    BY <2>1, <2>5, <2>6
<1>4. ASSUME NEW c \in Client \ failing PROVE Outcome(c)' = Outcome(c)
  <2>1. answer'[c] = answer[c]
    BY <1>1
  <2>2. CASE answer[c] # NoAnswer
    BY <1>1, <2>1, <2>2, OutcomeFacts, OutcomeNext
  <2>3. CASE answer[c] = NoAnswer
    <3>1. call[c] = NoCall
      BY <2>3 DEF StoreInv, InCall
    <3>2. call'[c] = NoCall
      BY <1>1, <3>1
    <3>3. \A h \in Handler : ~Reading(c, h)'
      BY <1>1 DEF Reading
    <3>4. \A h \in Handler : ~Reading(c, h)
      BY <3>1, NobodyAssumption, ServedCall DEF Reading
    <3> QED
      BY <2>1, <2>3, <3>3, <3>4, OutcomeFacts, OutcomeNext
  <2> QED
    BY <2>2, <2>3
<1>5. Results' = [c \in Client |-> IF c \in failing THEN AS!Failed(call[c]) ELSE Results[c]]
  <2>1. Results' = [c \in Client |-> Outcome(c)']
    BY DEF Results
  <2> QED
    BY <1>3, <1>4, <2>1 DEF Results
<1>6. Lates' = [h \in Handler |-> NoCall]
  <2>1. Lates' = [h \in Handler |-> Late(h)']
    BY DEF Lates
  <2>2. \A h \in Handler : Late(h)' = NoCall
    BY <1>1 DEF Late, GivenUp
  <2> QED
    BY <2>1, <2>2
<1>7. failing \in SUBSET {c \in Client : call[c] # NoCall}
  BY <1>2
<1> HIDE DEF failing
<1> QED
  BY <1>1, <1>5, <1>6, <1>7 DEF AS!Die, AS!NoCall, NoCall, Results, Lates

\* Has, GetValue and PutOrUpdate are atomic, although get touches the table twice
\* (kvstore.cc:46-47), whatever interleaves, fails or restarts; a put whose RPC has
\* failed may take effect late.
THEOREM StoreIsAtomic ==
  ASSUME Shared PROVE Spec => Atomic
<1>1. StoreInv /\ StoreInv' /\ [Next]_vars => [AS!Next]_(AS!vars)
  <2> SUFFICES ASSUME StoreInv, StoreInv', [Next]_vars PROVE [AS!Next]_(AS!vars)
    OBVIOUS
  <2>1. ASSUME NEW c \in Client, ClientStep(c) PROVE AS!Next \/ UNCHANGED AS!vars
    <3>1. ~PutHas(c)
      BY DEF StoreInv, InCall, PutHas
    <3> QED
      BY <2>1, <3>1, InvokeRefines, ReturnRefines, FailRefines DEF ClientStep, AS!Next
  <2>2. ASSUME NEW h \in Handler, HandlerStep(h) PROVE AS!Next \/ UNCHANGED AS!vars
    <3>1. ~DeleteMissing(h) /\ ~DeleteHas(h) /\ ~Delete(h)
      BY DEF StoreInv, Serves, DeleteMissing, DeleteHas, Delete, Serving
    <3> QED
      BY <2>2, <3>1, PutRefines, GetReadRefines, GetHasRefines DEF HandlerStep, AS!Next
  <2>3. ASSUME Restart PROVE AS!Next
    BY <2>3, RestartRefines DEF AS!Next
  <2>4. CASE UNCHANGED vars
    <3>1. ASSUME NEW c \in Client PROVE Outcome(c)' = Outcome(c)
      BY <2>4, OutcomeKept DEF vars, server, client, Reading
    <3>2. Results' = Results
      BY <3>1 DEF Results
    <3>3. Lates' = Lates
      BY <2>4 DEF Lates, Late, GivenUp, vars, server
    <3> QED
      BY <2>4, <3>2, <3>3 DEF AS!vars, Results, Lates, vars, server, client
  <2> QED
    BY <2>1, <2>2, <2>3, <2>4 DEF Next
<1>2. StoreInv /\ [Next]_vars => StoreInv'
  BY StoreStep
<1> QED
  BY <1>1, <1>2, StoreInit, RefineInit, PTL DEF Spec, Atomic, AS!Spec

=============================================================================

------------------------- MODULE ChirpServiceProofs -------------------------
(***************************************************************************)
(* Proofs about ChirpService, for any number of threads, users and ids.    *)
(***************************************************************************)
EXTENDS ChirpService, TLAPS

-----------------------------------------------------------------------------
(* What handlers in progress know, and other handlers leave alone.         *)

\* registeruser: the first key is in the store before the second is tried.
\* follow: both users are registered, and the list about to be stored is one.
FollowInFlight(h) ==
  /\ pc[h] \in {"RegisterFollowedHas", "RegisterFollowedPut"} =>
       userId[req[h].username] # Absent
  /\ pc[h] \in FollowSteps \ {"FollowHas"} =>
       /\ req[h].username # req[h].to_follow
       /\ userFollowed[req[h].username] # Absent
  /\ pc[h] \in {"FollowGet", "FollowPut"} => userFollowed[req[h].to_follow] # Absent
  /\ pc[h] = "FollowPut" =>
       /\ IsInjective(vec[h])
       /\ \A f \in Range(vec[h]) : f # req[h].username /\ userFollowed[f] # Absent

FollowInv == FollowedAreUsers /\ \A h \in Handler : FollowInFlight(h)

\* No id of a chirp in the store, or of a handler, is handed out again.
FreshIds ==
  /\ \A h, g \in Handler :
       h # g /\ pc[h] \in ChirpIdSteps /\ pc[g] \in ChirpIdSteps => cid[h] # cid[g]
  /\ SameSecond \/ \A i \in Id : idChirp[i] # Absent => i \in issued

\* i is in no reply list, stored or about to be.
Unlinked(i) == \A p \in Id : ~ReplyEdge(p, i)

\* chirp: its id is its own until it links it to its parent.
ChirpInFlight(h) ==
  /\ pc[h] = "ChirpIdHas" => SameSecond \/ idChirp[cid[h]] = Absent
  /\ pc[h] = "ChirpIdPut" => idChirp[cid[h]] = Absent
  /\ pc[h] \in ChirpStoredSteps => idChirp[cid[h]] = TheChirp(h)
  /\ pc[h] \in ChirpStoredSteps => idReply[cid[h]] = Absent
  /\ pc[h] \in {"ChirpUserPut", "ChirpParentHas", "ChirpParentGet"} => Unlinked(cid[h])
  /\ pc[h] \in ChirpParentSteps => idReply[req[h].parent_id] # Absent
  /\ pc[h] = "ChirpParentPut" =>
       /\ IsInjective(vec[h])
       /\ \A i \in Range(vec[h]) :
            idChirp[i] # Absent /\ idChirp[i].parent_id = req[h].parent_id

ChirpInv ==
  /\ LatestIsOwnChirp
  /\ RepliesAreReplies
  /\ ThreadsAcyclic
  /\ FreshIds
  /\ \A h \in Handler : ChirpInFlight(h)

-----------------------------------------------------------------------------
(* Types.                                                                  *)

Code == {"OK", "ALREADY_EXISTS", "NOT_FOUND", "UNAVAILABLE"}

\* Every variable and every handler's locals have their type at the start.
LEMMA TypeInit == Init => TypeOK
BY BoundAssumption DEF Init, TypeOK, StoreTypeOK, HandlerTypeOK, LocalsOK,
   RegisterSteps, ChirpIdSteps, ChirpParentSteps, FollowSteps, ReadSteps, Label

\* However a call to the store ends, the bound on failures is kept.
LEMMA FaultsBounded ==
  ASSUME TypeOK, \/ UNCHANGED faults
                 \/ Fault
  PROVE  faults' \in 0 .. MaxFaults
BY BoundAssumption DEF TypeOK, Fault

\* Every answer of the client keeps the bound.
LEMMA AnswersBounded ==
  ASSUME TypeOK, NEW x, NEW y,
         HasAnswers(x, y) \/ GetAnswers(x, y) \/ PutAnswers(x, y) \/ FetchAnswers(x, y)
  PROVE  faults' \in 0 .. MaxFaults
BY FaultsBounded DEF HasAnswers, GetAnswers, PutAnswers, FetchAnswers

\* A list read through GetValue is a list, whatever the store or the RPC did.
LEMMA DeparsedType ==
  ASSUME NEW S, NEW value \in Seq(S) \cup {Absent}, NEW list,
         \/ GetAnswers(value, list)
         \/ list \in {<<>>, Deparsed(value)}
  PROVE  list \in Seq(S)
<1>1. <<>> \in Seq(S)
  OBVIOUS
<1>2. Deparsed(value) \in Seq(S)
  BY <1>1 DEF Deparsed
<1> QED
  BY <1>1, <1>2 DEF GetAnswers

\* The locals of the handlers that take no step stay as good as they were.
LEMMA OtherLocals ==
  ASSUME TypeOK, NEW h \in Handler, issued \subseteq issued',
         \A g \in Handler \ {h} : /\ pc'[g] = pc[g] /\ req'[g] = req[g]
                                  /\ cid'[g] = cid[g] /\ vec'[g] = vec[g],
         LocalsOK(h)'
  PROVE  \A g \in Handler : LocalsOK(g)'
<1> TAKE g \in Handler
<1>1. CASE g = h
  BY <1>1
<1>2. CASE g # h
  BY <1>2 DEF TypeOK, LocalsOK
<1> QED
  BY <1>1, <1>2

\* A handler that answers is idle, and needs no locals.
LEMMA AnswerType ==
  ASSUME TypeOK, NEW h \in Handler, NEW code \in Code, Answer(h, code),
         issued \subseteq issued'
  PROVE  HandlerTypeOK' /\ \A g \in Handler : LocalsOK(g)'
<1>1. HandlerTypeOK'
  BY DEF TypeOK, HandlerTypeOK, Answer, Code, Label
<1>2. pc'[h] = "idle"
  BY DEF TypeOK, HandlerTypeOK, Answer
<1>3. LocalsOK(h)'
  BY <1>2 DEF LocalsOK, RegisterSteps, ChirpIdSteps, ChirpParentSteps,
              FollowSteps, ReadSteps
<1> QED
  BY <1>1, <1>3, OtherLocals DEF TypeOK, HandlerTypeOK, Answer

\* A handler that goes on has what its next step needs.
LEMMA ContinueType ==
  ASSUME TypeOK, NEW h \in Handler, NEW l \in Label, Continue(h, l),
         issued \subseteq issued', LocalsOK(h)'
  PROVE  HandlerTypeOK' /\ \A g \in Handler : LocalsOK(g)'
<1>1. HandlerTypeOK'
  BY DEF TypeOK, HandlerTypeOK, Continue, Goto, local
<1> QED
  BY <1>1, OtherLocals DEF TypeOK, HandlerTypeOK, Continue, Goto, local

\* A step that asks the store for a key, answers or goes on.
LEMMA HasType ==
  ASSUME TypeOK, NEW h \in Handler, NEW present \in BOOLEAN, NEW Yes, NEW No,
         HasThen(present, Yes, No),
         Yes \/ No => /\ HandlerTypeOK'
                      /\ \A g \in Handler : LocalsOK(g)'
  PROVE  TypeOK'
<1>1. PICK ok \in BOOLEAN : HasAnswers(present, ok) /\ IF ok THEN Yes ELSE No
  BY DEF HasThen
<1>2. faults' \in 0 .. MaxFaults
  BY <1>1, AnswersBounded
<1> QED
  BY <1>1, <1>2 DEF HasThen, TypeOK, StoreTypeOK, store

\* No step takes a variable or a handler's locals out of their type.
LEMMA TypeNext == TypeOK /\ [Next]_vars => TypeOK'
<1> SUFFICES ASSUME TypeOK, [Next]_vars PROVE TypeOK'
  OBVIOUS
<1> USE DEF At, RegisterSteps, ChirpIdSteps, ChirpParentSteps, FollowSteps,
            ReadSteps, Label
<1>1. CASE UNCHANGED vars
  BY <1>1 DEF vars, store, local, TypeOK, StoreTypeOK, HandlerTypeOK, LocalsOK
<1>2. ASSUME NEW h \in Handler, ReceiveRegister(h) PROVE TypeOK'
  <2>1. StoreTypeOK' /\ HandlerTypeOK'
    BY <1>2 DEF ReceiveRegister, Receive, Goto, store, Request, RegisterRequest, TypeOK, StoreTypeOK, HandlerTypeOK
  <2>2. LocalsOK(h)'
    BY <1>2 DEF ReceiveRegister, Receive, Goto, RegisterRequest, LocalsOK, TypeOK, HandlerTypeOK
  <2> QED
    BY <1>2, <2>1, <2>2, OtherLocals DEF ReceiveRegister, Receive, Goto, TypeOK, HandlerTypeOK
<1>3. ASSUME NEW h \in Handler, ReceiveChirp(h) PROVE TypeOK'
  <2>1. StoreTypeOK' /\ HandlerTypeOK'
    BY <1>3 DEF ReceiveChirp, Receive, Goto, store, Request, ChirpRequest, TypeOK, StoreTypeOK, HandlerTypeOK
  <2>2. LocalsOK(h)'
    BY <1>3 DEF ReceiveChirp, Receive, Goto, ChirpRequest, LocalsOK, TypeOK, HandlerTypeOK
  <2> QED
    BY <1>3, <2>1, <2>2, OtherLocals DEF ReceiveChirp, Receive, Goto, TypeOK, HandlerTypeOK
<1>4. ASSUME NEW h \in Handler, ReceiveFollow(h) PROVE TypeOK'
  <2>1. StoreTypeOK' /\ HandlerTypeOK'
    BY <1>4 DEF ReceiveFollow, Receive, Goto, store, Request, FollowRequest, TypeOK, StoreTypeOK, HandlerTypeOK
  <2>2. LocalsOK(h)'
    BY <1>4 DEF ReceiveFollow, Receive, Goto, FollowRequest, LocalsOK, TypeOK, HandlerTypeOK
  <2> QED
    BY <1>4, <2>1, <2>2, OtherLocals DEF ReceiveFollow, Receive, Goto, TypeOK, HandlerTypeOK
<1>5. ASSUME NEW h \in Handler, ReceiveRead(h) PROVE TypeOK'
  <2>1. StoreTypeOK' /\ HandlerTypeOK'
    BY <1>5 DEF ReceiveRead, Receive, Goto, store, Request, ReadRequest, TypeOK, StoreTypeOK, HandlerTypeOK
  <2>2. LocalsOK(h)'
    BY <1>5 DEF ReceiveRead, Receive, Goto, ReadRequest, LocalsOK, TypeOK, HandlerTypeOK
  <2> QED
    BY <1>5, <2>1, <2>2, OtherLocals DEF ReceiveRead, Receive, Goto, TypeOK, HandlerTypeOK
<1>6. ASSUME NEW h \in Handler, RegisterHas(h) PROVE TypeOK'
  <2>1. Answer(h, "ALREADY_EXISTS") \/ Continue(h, "RegisterIdHas")
          => HandlerTypeOK' /\ \A g \in Handler : LocalsOK(g)'
    BY <1>6, AnswerType, ContinueType
       DEF RegisterHas, HasThen, LocalsOK, Code, Continue, Goto, local, TypeOK, HandlerTypeOK
  <2> QED
    BY <1>6, <2>1, HasType DEF RegisterHas
<1>7. ASSUME NEW h \in Handler, RegisterIdHas(h) PROVE TypeOK'
  <2>1. Answer(h, "ALREADY_EXISTS") \/ Continue(h, "RegisterIdPut")
          => HandlerTypeOK' /\ \A g \in Handler : LocalsOK(g)'
    BY <1>7, AnswerType, ContinueType
       DEF RegisterIdHas, HasThen, LocalsOK, Code, Continue, Goto, local, TypeOK, HandlerTypeOK
  <2> QED
    BY <1>7, <2>1, HasType DEF RegisterIdHas
<1>8. ASSUME NEW h \in Handler, RegisterFollowedHas(h) PROVE TypeOK'
  <2>1. Answer(h, "ALREADY_EXISTS") \/ Continue(h, "RegisterFollowedPut")
          => HandlerTypeOK' /\ \A g \in Handler : LocalsOK(g)'
    BY <1>8, AnswerType, ContinueType
       DEF RegisterFollowedHas, HasThen, LocalsOK, Code, Continue, Goto, local, TypeOK, HandlerTypeOK
  <2> QED
    BY <1>8, <2>1, HasType DEF RegisterFollowedHas
<1>9. ASSUME NEW h \in Handler, ChirpIdHas(h) PROVE TypeOK'
  <2>1. Answer(h, "ALREADY_EXISTS") \/ Continue(h, "ChirpIdPut")
          => HandlerTypeOK' /\ \A g \in Handler : LocalsOK(g)'
    BY <1>9, AnswerType, ContinueType
       DEF ChirpIdHas, HasThen, LocalsOK, Code, Continue, Goto, local, TypeOK, HandlerTypeOK
  <2> QED
    BY <1>9, <2>1, HasType DEF ChirpIdHas
<1>10. ASSUME NEW h \in Handler, FollowHasTo(h) PROVE TypeOK'
  <2>1. Answer(h, "NOT_FOUND") \/ Continue(h, "FollowGet")
          => HandlerTypeOK' /\ \A g \in Handler : LocalsOK(g)'
    BY <1>10, AnswerType, ContinueType
       DEF FollowHasTo, HasThen, LocalsOK, Code, Continue, Goto, local, TypeOK, HandlerTypeOK
  <2> QED
    BY <1>10, <2>1, HasType DEF FollowHasTo
<1>11. ASSUME NEW h \in Handler, ReadHas(h) PROVE TypeOK'
  <2>1. Answer(h, "NOT_FOUND") \/ Continue(h, "ReadRoot")
          => HandlerTypeOK' /\ \A g \in Handler : LocalsOK(g)'
    BY <1>11, AnswerType, ContinueType
       DEF ReadHas, HasThen, LocalsOK, Code, Continue, Goto, local, TypeOK, HandlerTypeOK
  <2> QED
    BY <1>11, <2>1, HasType DEF ReadHas
<1>12. ASSUME NEW h \in Handler, ChirpParentHas(h) PROVE TypeOK'
  <2>1. ReplyKey(req[h].parent_id) # Absent => req[h].parent_id \in Id
    BY DEF ReplyKey
  <2>2. PICK ok \in BOOLEAN :
          /\ HasAnswers(ReplyKey(req[h].parent_id) # Absent, ok)
          /\ IF ok THEN Continue(h, "ChirpParentGet") ELSE Continue(h, "ChirpReplyPut")
    BY <1>12 DEF ChirpParentHas, HasThen
  <2>3. faults' \in 0 .. MaxFaults
    BY <2>2, AnswersBounded
  <2>4. HandlerTypeOK' /\ \A g \in Handler : LocalsOK(g)'
    BY <1>12, <2>1, <2>2, ContinueType
       DEF ChirpParentHas, HasThen, HasAnswers, LocalsOK, Continue, Goto, local,
           TypeOK, HandlerTypeOK
  <2> QED
    BY <1>12, <2>3, <2>4 DEF ChirpParentHas, HasThen, TypeOK, StoreTypeOK, store
<1>13. ASSUME NEW h \in Handler, FollowHas(h) PROVE TypeOK'
  <2>1. Answer(h, "NOT_FOUND") \/ Continue(h, "FollowHasTo")
          => HandlerTypeOK' /\ \A g \in Handler : LocalsOK(g)'
    BY <1>13, AnswerType, ContinueType
       DEF FollowHas, HasThen, LocalsOK, Code, Continue, Goto, local, store,
           TypeOK, HandlerTypeOK
  <2>2. CASE req[h].username = req[h].to_follow
    BY <1>13, <2>1, <2>2 DEF FollowHas, TypeOK, StoreTypeOK, store
  <2>3. CASE req[h].username # req[h].to_follow
    BY <1>13, <2>1, <2>3, HasType DEF FollowHas
  <2> QED
    BY <2>2, <2>3
<1>14. ASSUME NEW h \in Handler, RegisterIdPut(h) PROVE TypeOK'
  <2>1. PICK applied \in BOOLEAN, ok \in BOOLEAN : PutAnswers(applied, ok)
    BY <1>14 DEF RegisterIdPut
  <2>2. faults' \in 0 .. MaxFaults
    BY <2>1, AnswersBounded
  <2>3. StoreTypeOK'
    BY <1>14 DEF RegisterIdPut, Stored, RegisterRequest, LocalsOK, TypeOK, StoreTypeOK, HandlerTypeOK
  <2>4. HandlerTypeOK' /\ \A g \in Handler : LocalsOK(g)'
    <3>1. \/ Answer(h, "UNAVAILABLE")
            \/ Continue(h, "RegisterFollowedHas")
      BY <1>14 DEF RegisterIdPut
    <3> QED
      BY <1>14, <3>1, AnswerType, ContinueType
         DEF RegisterIdPut, Code, LocalsOK, Continue, Goto, local, TypeOK, HandlerTypeOK
  <2> QED
    BY <1>14, <2>2, <2>3, <2>4 DEF RegisterIdPut, TypeOK
<1>15. ASSUME NEW h \in Handler, RegisterFollowedPut(h) PROVE TypeOK'
  <2>1. PICK applied \in BOOLEAN, ok \in BOOLEAN : PutAnswers(applied, ok)
    BY <1>15 DEF RegisterFollowedPut
  <2>2. faults' \in 0 .. MaxFaults
    BY <2>1, AnswersBounded
  <2>3. StoreTypeOK'
    BY <1>15 DEF RegisterFollowedPut, Stored, RegisterRequest, LocalsOK, TypeOK, StoreTypeOK, HandlerTypeOK
  <2>4. HandlerTypeOK' /\ \A g \in Handler : LocalsOK(g)'
    <3>1. \/ Answer(h, "OK")
            \/ Answer(h, "UNAVAILABLE")
      BY <1>15 DEF RegisterFollowedPut
    <3> QED
      BY <1>15, <3>1, AnswerType
         DEF RegisterFollowedPut, Code, TypeOK, HandlerTypeOK
  <2> QED
    BY <1>15, <2>2, <2>3, <2>4 DEF RegisterFollowedPut, TypeOK
<1>16. ASSUME NEW h \in Handler, ChirpIdPut(h) PROVE TypeOK'
  <2>1. PICK applied \in BOOLEAN, ok \in BOOLEAN : PutAnswers(applied, ok)
    BY <1>16 DEF ChirpIdPut
  <2>2. faults' \in 0 .. MaxFaults
    BY <2>1, AnswersBounded
  <2>3. StoreTypeOK'
    BY <1>16 DEF ChirpIdPut, Stored, TheChirp, ChirpRequest, Chirp, LocalsOK, TypeOK, StoreTypeOK, HandlerTypeOK
  <2>4. HandlerTypeOK' /\ \A g \in Handler : LocalsOK(g)'
    <3>1. \/ Answer(h, "ALREADY_EXISTS")
            \/ Continue(h, "ChirpUserPut")
      BY <1>16 DEF ChirpIdPut
    <3> QED
      BY <1>16, <3>1, AnswerType, ContinueType
         DEF ChirpIdPut, Code, LocalsOK, Continue, Goto, local, TypeOK, HandlerTypeOK
  <2> QED
    BY <1>16, <2>2, <2>3, <2>4 DEF ChirpIdPut, TypeOK
<1>17. ASSUME NEW h \in Handler, ChirpUserPut(h) PROVE TypeOK'
  <2>1. PICK applied \in BOOLEAN, ok \in BOOLEAN : PutAnswers(applied, ok)
    BY <1>17 DEF ChirpUserPut
  <2>2. faults' \in 0 .. MaxFaults
    BY <2>1, AnswersBounded
  <2>3. StoreTypeOK'
    BY <1>17 DEF ChirpUserPut, Stored, ChirpRequest, LocalsOK, TypeOK, StoreTypeOK, HandlerTypeOK
  <2>4. HandlerTypeOK' /\ \A g \in Handler : LocalsOK(g)'
    <3>1. \/ Answer(h, "ALREADY_EXISTS")
            \/ Continue(h, "ChirpParentHas")
      BY <1>17 DEF ChirpUserPut
    <3> QED
      BY <1>17, <3>1, AnswerType, ContinueType
         DEF ChirpUserPut, Code, LocalsOK, Continue, Goto, local, TypeOK, HandlerTypeOK
  <2> QED
    BY <1>17, <2>2, <2>3, <2>4 DEF ChirpUserPut, TypeOK
<1>18. ASSUME NEW h \in Handler, ChirpParentPut(h) PROVE TypeOK'
  <2>1. PICK applied \in BOOLEAN, ok \in BOOLEAN : PutAnswers(applied, ok)
    BY <1>18 DEF ChirpParentPut
  <2>2. faults' \in 0 .. MaxFaults
    BY <2>1, AnswersBounded
  <2>3. StoreTypeOK'
    BY <1>18 DEF ChirpParentPut, Stored, ChirpRequest, LocalsOK, TypeOK, StoreTypeOK, HandlerTypeOK
  <2>4. HandlerTypeOK' /\ \A g \in Handler : LocalsOK(g)'
    <3>1. \/ Answer(h, "ALREADY_EXISTS")
            \/ Continue(h, "ChirpReplyPut")
      BY <1>18 DEF ChirpParentPut
    <3> QED
      BY <1>18, <3>1, AnswerType, ContinueType
         DEF ChirpParentPut, Code, LocalsOK, Continue, Goto, local, TypeOK, HandlerTypeOK
  <2> QED
    BY <1>18, <2>2, <2>3, <2>4 DEF ChirpParentPut, TypeOK
<1>19. ASSUME NEW h \in Handler, ChirpReplyPut(h) PROVE TypeOK'
  <2>1. PICK applied \in BOOLEAN, ok \in BOOLEAN : PutAnswers(applied, ok)
    BY <1>19 DEF ChirpReplyPut
  <2>2. faults' \in 0 .. MaxFaults
    BY <2>1, AnswersBounded
  <2>3. StoreTypeOK'
    BY <1>19 DEF ChirpReplyPut, Stored, ChirpRequest, LocalsOK, TypeOK, StoreTypeOK, HandlerTypeOK
  <2>4. HandlerTypeOK' /\ \A g \in Handler : LocalsOK(g)'
    <3>1. \/ Answer(h, "OK")
            \/ Answer(h, "ALREADY_EXISTS")
      BY <1>19 DEF ChirpReplyPut
    <3> QED
      BY <1>19, <3>1, AnswerType
         DEF ChirpReplyPut, Code, TypeOK, HandlerTypeOK
  <2> QED
    BY <1>19, <2>2, <2>3, <2>4 DEF ChirpReplyPut, TypeOK
<1>20. ASSUME NEW h \in Handler, FollowPut(h) PROVE TypeOK'
  <2>1. PICK applied \in BOOLEAN, ok \in BOOLEAN : PutAnswers(applied, ok)
    BY <1>20 DEF FollowPut
  <2>2. faults' \in 0 .. MaxFaults
    BY <2>1, AnswersBounded
  <2>3. StoreTypeOK'
    BY <1>20 DEF FollowPut, Stored, FollowRequest, LocalsOK, TypeOK, StoreTypeOK, HandlerTypeOK
  <2>4. HandlerTypeOK' /\ \A g \in Handler : LocalsOK(g)'
    <3>1. Answer(h, "OK")
      BY <1>20 DEF FollowPut
    <3> QED
      BY <1>20, <3>1, AnswerType
         DEF FollowPut, Code, TypeOK, HandlerTypeOK
  <2> QED
    BY <1>20, <2>2, <2>3, <2>4 DEF FollowPut, TypeOK
<1>21. ASSUME NEW h \in Handler, ChirpHas(h) PROVE TypeOK'
  <2>1. faults' \in 0 .. MaxFaults
    BY <1>21, AnswersBounded DEF ChirpHas
  <2>2. HandlerTypeOK' /\ \A g \in Handler : LocalsOK(g)'
    <3>1. CASE Answer(h, "NOT_FOUND") /\ UNCHANGED issued
      BY <3>1, AnswerType DEF Code
    <3>2. CASE \E i \in Id \ issued : /\ issued' = issued \cup {i}
                                     /\ cid' = [cid EXCEPT ![h] = i]
                                     /\ Goto(h, "ChirpIdHas")
                                     /\ UNCHANGED <<req, vec, queue, replies, thread, status>>
      <4>1. HandlerTypeOK' /\ LocalsOK(h)'
        BY <1>21, <3>2 DEF ChirpHas, Goto, LocalsOK, TypeOK, HandlerTypeOK
      <4> QED
        BY <3>2, <4>1, OtherLocals DEF Goto, TypeOK, HandlerTypeOK
    <3> QED
      BY <1>21, <3>1, <3>2 DEF ChirpHas
  <2> QED
    BY <1>21, <2>1, <2>2 DEF ChirpHas, Answer, TypeOK, StoreTypeOK, store
<1>22. ASSUME NEW h \in Handler, ChirpParentGet(h) PROVE TypeOK'
  <2>1. PICK list \in {<<>>, idReply[req[h].parent_id]} :
          /\ GetAnswers(idReply[req[h].parent_id], list)
          /\ vec' = [vec EXCEPT ![h] = Append(list, cid[h])]
    BY <1>22 DEF ChirpParentGet
  <2>2. faults' \in 0 .. MaxFaults
    BY <2>1, AnswersBounded
  <2>3. list \in Seq(Id)
    BY <1>22, <2>1, DeparsedType DEF ChirpParentGet, LocalsOK, TypeOK, StoreTypeOK
  <2>4. Append(list, cid[h]) \in Seq(Id)
    BY <1>22, <2>3 DEF ChirpParentGet, LocalsOK, TypeOK
  <2>5. HandlerTypeOK' /\ LocalsOK(h)'
    BY <1>22, <2>1, <2>4 DEF ChirpParentGet, Goto, LocalsOK, TypeOK, HandlerTypeOK
  <2> QED
    BY <1>22, <2>1, <2>2, <2>5, OtherLocals
       DEF ChirpParentGet, Goto, TypeOK, StoreTypeOK, HandlerTypeOK, store
<1>23. ASSUME NEW h \in Handler, FollowGet(h) PROVE TypeOK'
  <2>1. PICK list \in {<<>>, userFollowed[req[h].username]} :
          /\ GetAnswers(userFollowed[req[h].username], list)
          /\ \/ Answer(h, "ALREADY_EXISTS")
             \/ /\ vec' = [vec EXCEPT ![h] = Append(list, req[h].to_follow)]
                /\ Goto(h, "FollowPut")
                /\ UNCHANGED <<req, cid, queue, replies, thread, status>>
    BY <1>23 DEF FollowGet
  <2>2. faults' \in 0 .. MaxFaults
    BY <2>1, AnswersBounded
  <2>3. req[h] \in FollowRequest
    BY <1>23 DEF FollowGet, LocalsOK, TypeOK
  <2>4. list \in Seq(User)
    BY <2>1, <2>3, DeparsedType DEF FollowRequest, TypeOK, StoreTypeOK
  <2>5. Append(list, req[h].to_follow) \in Seq(User)
    BY <2>3, <2>4 DEF FollowRequest
  <2>6. HandlerTypeOK' /\ \A g \in Handler : LocalsOK(g)'
    <3>1. CASE Answer(h, "ALREADY_EXISTS")
      BY <1>23, <3>1, AnswerType DEF FollowGet, Code
    <3>2. CASE /\ vec' = [vec EXCEPT ![h] = Append(list, req[h].to_follow)]
               /\ Goto(h, "FollowPut")
               /\ UNCHANGED <<req, cid, queue, replies, thread, status>>
      <4>1. HandlerTypeOK' /\ LocalsOK(h)'
        BY <1>23, <2>5, <3>2 DEF FollowGet, Goto, LocalsOK, TypeOK, HandlerTypeOK
      <4> QED
        BY <1>23, <3>2, <4>1, OtherLocals DEF FollowGet, Goto, TypeOK, HandlerTypeOK
    <3> QED
      BY <2>1, <3>1, <3>2
  <2> QED
    BY <1>23, <2>2, <2>6 DEF FollowGet, TypeOK, StoreTypeOK, store
<1>24. ASSUME NEW h \in Handler, ReadRoot(h) PROVE TypeOK'
  <2>1. faults' \in 0 .. MaxFaults
    BY <1>24, AnswersBounded DEF ReadRoot
  <2>2. HandlerTypeOK' /\ LocalsOK(h)'
    BY <1>24 DEF ReadRoot, Goto, LocalsOK, ReadRequest, TypeOK, HandlerTypeOK
  <2> QED
    BY <1>24, <2>1, <2>2, OtherLocals DEF ReadRoot, Goto, TypeOK, StoreTypeOK, HandlerTypeOK, store
<1>25. ASSUME NEW h \in Handler, ReadReplies(h) PROVE TypeOK'
  <2>1. Head(queue[h]) \in Id \cup {NoId} /\ Tail(queue[h]) \in Seq(Id \cup {NoId})
    BY <1>25 DEF ReadReplies, TypeOK, HandlerTypeOK
  <2>2. PICK list \in {<<>>, Deparsed(ReplyKey(Head(queue[h])))} :
          /\ GetAnswers(ReplyKey(Head(queue[h])), list)
          /\ replies' = [replies EXCEPT ![h] = list]
    BY <1>25 DEF ReadReplies
  <2>3. list \in Seq(Id)
    <3>1. ReplyKey(Head(queue[h])) \in Seq(Id) \cup {Absent}
      BY DEF ReplyKey, TypeOK, StoreTypeOK
    <3> QED
      BY <2>2, <3>1, DeparsedType
  <2>4. faults' \in 0 .. MaxFaults
    BY <2>2, AnswersBounded
  <2>5. Append(thread[h], Head(queue[h])) \in Seq(Id \cup {NoId})
    BY <2>1 DEF TypeOK, HandlerTypeOK
  <2>6. HandlerTypeOK'
    BY <1>25, <2>1, <2>2, <2>3, <2>5 DEF ReadReplies, TypeOK, HandlerTypeOK
  <2> QED
    BY <1>25, <2>4, <2>6 DEF ReadReplies, TypeOK, StoreTypeOK, LocalsOK, store
<1>26. ASSUME NEW h \in Handler, ReadChirp(h) PROVE TypeOK'
  <2>1. Head(replies[h]) \in Id /\ Tail(replies[h]) \in Seq(Id)
    BY <1>26 DEF ReadChirp, TypeOK, HandlerTypeOK
  <2>2. faults' \in 0 .. MaxFaults
    BY <1>26, AnswersBounded DEF ReadChirp
  <2>3. \A c \in {Head(replies[h]), NoId} : Append(queue[h], c) \in Seq(Id \cup {NoId})
    BY <2>1 DEF TypeOK, HandlerTypeOK
  <2>4. HandlerTypeOK'
    BY <1>26, <2>1, <2>3 DEF ReadChirp, TypeOK, HandlerTypeOK
  <2> QED
    BY <1>26, <2>2, <2>4 DEF ReadChirp, TypeOK, StoreTypeOK, LocalsOK, store
<1>27. ASSUME NEW h \in Handler, ReadReturn(h) PROVE TypeOK'
  BY <1>27, AnswerType DEF ReadReturn, Code, TypeOK, StoreTypeOK, store
<1>28. CASE Restart
  BY <1>28, BoundAssumption DEF Restart, LocalsOK, TypeOK, StoreTypeOK, HandlerTypeOK, store
<1> QED
  BY <1>1, <1>2, <1>3, <1>4, <1>5, <1>6, <1>7, <1>8, <1>9, <1>10, <1>11, <1>12, <1>13, <1>14, <1>15, <1>16, <1>17, <1>18, <1>19, <1>20, <1>21, <1>22, <1>23, <1>24, <1>25, <1>26, <1>27, <1>28
  DEF Next, Arrive, Handle, Register, DoChirp, Follow, Read

\* TypeOK holds in every reachable state, for any number of threads and users.
THEOREM TypeCorrect == Spec => []TypeOK
<1>1. Init => TypeOK
  BY TypeInit
<1>2. TypeOK /\ [Next]_vars => TypeOK'
  BY TypeNext
<1> QED
  BY <1>1, <1>2, PTL DEF Spec

-----------------------------------------------------------------------------
(* Lists.                                                                  *)

LEMMA EmptyList == IsInjective(<<>>) /\ Range(<<>>) = {}
<1>1. DOMAIN <<>> = {}
  OBVIOUS
<1> QED
  BY <1>1 DEF IsInjective, Range

\* A list with no element twice, extended by an element it has not.
LEMMA AppendFresh ==
  ASSUME NEW S, NEW s \in Seq(S), NEW e \in S, IsInjective(s), e \notin Range(s)
  PROVE  /\ Append(s, e) \in Seq(S)
         /\ IsInjective(Append(s, e))
         /\ Range(Append(s, e)) = Range(s) \cup {e}
<1>1. /\ Append(s, e) \in Seq(S)
      /\ DOMAIN Append(s, e) = 1 .. (Len(s) + 1)
      /\ \A n \in 1 .. Len(s) : Append(s, e)[n] = s[n]
      /\ Append(s, e)[Len(s) + 1] = e
  OBVIOUS
<1>2. DOMAIN s = 1 .. Len(s) /\ Len(s) \in Nat
  OBVIOUS
<1>3. \A n \in 1 .. Len(s) : s[n] # e
  BY <1>2 DEF Range
<1>4. \A n \in 1 .. (Len(s) + 1) : n \in 1 .. Len(s) \/ n = Len(s) + 1
  BY <1>2
<1>5. IsInjective(Append(s, e))
  BY <1>1, <1>2, <1>3, <1>4 DEF IsInjective
<1>6. Range(Append(s, e)) = Range(s) \cup {e}
  BY <1>1, <1>2, <1>4 DEF Range
<1> QED
  BY <1>1, <1>5, <1>6

-----------------------------------------------------------------------------
(* Followed users.                                                         *)

GuardedSteps == {"RegisterFollowedHas", "RegisterFollowedPut"}
                  \cup (FollowSteps \ {"FollowHas"})

\* What is left to show of a step of h: what it stores, and what it knows.
LEMMA FollowStep ==
  ASSUME TypeOK, TypeOK', FollowInv, NEW h \in Handler,
         \A u \in User : userId[u] # Absent => userId'[u] # Absent,
         \A u \in User : userFollowed[u] # Absent => userFollowed'[u] # Absent,
         \A u \in User : userFollowed'[u] # userFollowed[u] =>
           /\ userId'[u] # Absent
           /\ IsInjective(userFollowed'[u])
           /\ \A f \in Range(userFollowed'[u]) : f # u /\ userFollowed'[f] # Absent,
         \A g \in Handler \ {h} : pc'[g] = pc[g] /\ req'[g] = req[g] /\ vec'[g] = vec[g],
         FollowInFlight(h)'
  PROVE  FollowInv'
<1>1. ASSUME NEW u \in User, userFollowed'[u] # Absent
      PROVE  /\ userId'[u] # Absent
             /\ IsInjective(userFollowed'[u])
             /\ \A f \in Range(userFollowed'[u]) : f # u /\ userFollowed'[f] # Absent
  <2>1. CASE userFollowed'[u] # userFollowed[u]
    BY <2>1
  <2>2. CASE userFollowed'[u] = userFollowed[u]
    <3>1. userFollowed[u] \in Seq(User)
      BY <1>1, <2>2 DEF TypeOK, StoreTypeOK
    <3>2. Range(userFollowed[u]) \subseteq User
      BY <3>1 DEF Range
    <3> QED
      BY <1>1, <2>2, <3>2 DEF FollowInv, FollowedAreUsers
  <2> QED
    BY <2>1, <2>2
<1>2. ASSUME NEW g \in Handler, g # h PROVE FollowInFlight(g)'
  <2>1. pc[g] = "FollowPut" => Range(vec[g]) \subseteq User
    BY DEF TypeOK, LocalsOK, Range
  <2>2. pc[g] \in GuardedSteps => req[g].username \in User
    BY DEF GuardedSteps, TypeOK, LocalsOK, RegisterSteps, FollowSteps,
           RegisterRequest, FollowRequest
  <2>3. pc[g] \in {"FollowGet", "FollowPut"} => req[g].to_follow \in User
    BY DEF TypeOK, LocalsOK, FollowSteps, FollowRequest
  <2> QED
    BY <1>2, <2>1, <2>2, <2>3 DEF FollowInv, FollowInFlight, GuardedSteps, FollowSteps
<1> QED
  BY <1>1, <1>2 DEF FollowInv, FollowedAreUsers

\* A step that stores nothing and leaves its handler where nothing need be known.
LEMMA FollowQuiet ==
  ASSUME TypeOK, TypeOK', FollowInv, NEW h \in Handler,
         \A u \in User : userId[u] # Absent => userId'[u] # Absent,
         UNCHANGED userFollowed,
         \A g \in Handler \ {h} : pc'[g] = pc[g] /\ req'[g] = req[g] /\ vec'[g] = vec[g],
         pc'[h] \notin GuardedSteps
  PROVE  FollowInv'
<1>1. FollowInFlight(h)'
  BY DEF FollowInFlight, GuardedSteps, FollowSteps
<1> QED
  BY <1>1, FollowStep

\* The same of a step that answers or goes on to such a step.
LEMMA FollowQuietMove ==
  ASSUME TypeOK, TypeOK', FollowInv, NEW h \in Handler,
         \A u \in User : userId[u] # Absent => userId'[u] # Absent,
         UNCHANGED userFollowed,
         NEW code, NEW l, l \notin GuardedSteps,
         Answer(h, code) \/ Continue(h, l)
  PROVE  FollowInv'
<1>1. pc'[h] \in {"idle", l}
  BY DEF TypeOK, HandlerTypeOK, Answer, Continue, Goto
<1>2. \A g \in Handler \ {h} : pc'[g] = pc[g] /\ req'[g] = req[g] /\ vec'[g] = vec[g]
  BY DEF TypeOK, HandlerTypeOK, Answer, Continue, Goto, local
<1> QED
  BY <1>1, <1>2, FollowQuiet DEF GuardedSteps, FollowSteps

\* The users' lists start out empty, and stay lists of users.
LEMMA FollowInit == Init => FollowInv
BY DEF Init, FollowInv, FollowedAreUsers, FollowInFlight, FollowSteps

LEMMA FollowNext == TypeOK /\ TypeOK' /\ FollowInv /\ [Next]_vars => FollowInv'
<1> SUFFICES ASSUME TypeOK, TypeOK', FollowInv, [Next]_vars PROVE FollowInv'
  OBVIOUS
<1> USE DEF At, GuardedSteps, FollowSteps
<1>1. CASE UNCHANGED vars
  BY <1>1 DEF vars, store, local, FollowInv, FollowedAreUsers, 
             FollowInFlight
<1>2. ASSUME NEW h \in Handler, ReceiveRegister(h) PROVE FollowInv'
  BY <1>2, FollowQuiet DEF ReceiveRegister, Receive, Goto, store, TypeOK, 
             HandlerTypeOK
<1>3. ASSUME NEW h \in Handler, ReceiveChirp(h) PROVE FollowInv'
  BY <1>3, FollowQuiet DEF ReceiveChirp, Receive, Goto, store, TypeOK, HandlerTypeOK
<1>4. ASSUME NEW h \in Handler, ReceiveFollow(h) PROVE FollowInv'
  BY <1>4, FollowQuiet DEF ReceiveFollow, Receive, Goto, store, TypeOK, HandlerTypeOK
<1>5. ASSUME NEW h \in Handler, ReceiveRead(h) PROVE FollowInv'
  BY <1>5, FollowQuiet DEF ReceiveRead, Receive, Goto, store, TypeOK, HandlerTypeOK
<1>6. ASSUME NEW h \in Handler, RegisterHas(h) PROVE FollowInv'
  <2>1. Answer(h, "ALREADY_EXISTS") \/ Continue(h, "RegisterIdHas")
    BY <1>6 DEF RegisterHas, HasThen
  <2> QED
    BY <1>6, <2>1, FollowQuietMove DEF RegisterHas, HasThen, store
<1>7. ASSUME NEW h \in Handler, RegisterIdHas(h) PROVE FollowInv'
  <2>1. Answer(h, "ALREADY_EXISTS") \/ Continue(h, "RegisterIdPut")
    BY <1>7 DEF RegisterIdHas, HasThen
  <2> QED
    BY <1>7, <2>1, FollowQuietMove DEF RegisterIdHas, HasThen, store
<1>8. ASSUME NEW h \in Handler, RegisterIdPut(h) PROVE FollowInv'
  <2>1. req[h] \in RegisterRequest
    BY <1>8 DEF RegisterIdPut, LocalsOK, RegisterSteps, TypeOK
  <2>2. PICK applied \in BOOLEAN, ok \in BOOLEAN :
          /\ ok => applied
          /\ userId' = Stored(applied, userId, req[h].username, NoId)
          /\ IF ok THEN Continue(h, "RegisterFollowedHas") ELSE Answer(h, "UNAVAILABLE")
    BY <1>8 DEF RegisterIdPut, PutAnswers
  <2>3. \A u \in User : userId[u] # Absent => userId'[u] # Absent
    BY <2>2, SentinelAssumption DEF Stored, StoreTypeOK, TypeOK
  <2>4. CASE ok
    <3>1. userId'[req[h].username] # Absent
      BY <2>1, <2>2, <2>4, SentinelAssumption DEF Stored, StoreTypeOK, RegisterRequest, TypeOK
    <3>2. FollowInFlight(h)'
      BY <2>2, <2>4, <3>1 DEF Continue, Goto, local, FollowInFlight, TypeOK, 
             HandlerTypeOK
    <3> QED
      BY <1>8, <2>2, <2>3, <2>4, <3>2, FollowStep DEF RegisterIdPut, Continue, Goto, local, TypeOK, 
             HandlerTypeOK
  <2>5. CASE ~ok
    BY <1>8, <2>2, <2>3, <2>5, FollowQuietMove DEF RegisterIdPut
  <2> QED
    BY <2>4, <2>5
<1>9. ASSUME NEW h \in Handler, RegisterFollowedHas(h) PROVE FollowInv'
  <2>1. CASE Answer(h, "ALREADY_EXISTS")
    BY <1>9, <2>1, FollowQuiet DEF RegisterFollowedHas, HasThen, Answer, store, TypeOK, 
             HandlerTypeOK
  <2>2. CASE Continue(h, "RegisterFollowedPut")
    <3>1. FollowInFlight(h)'
      BY <1>9, <2>2 DEF RegisterFollowedHas, HasThen, Continue, Goto, local, 
             store, FollowInv, FollowInFlight, TypeOK, 
             HandlerTypeOK
    <3> QED
      BY <1>9, <2>2, <3>1, FollowStep
         DEF RegisterFollowedHas, HasThen, Continue, Goto, local, 
             store, TypeOK, HandlerTypeOK
  <2> QED
    BY <1>9, <2>1, <2>2 DEF RegisterFollowedHas, HasThen
<1>10. ASSUME NEW h \in Handler, RegisterFollowedPut(h) PROVE FollowInv'
  <2>1. userId[req[h].username] # Absent
    BY <1>10 DEF RegisterFollowedPut, FollowInv, FollowInFlight
  <2>2. PICK applied \in BOOLEAN :
          userFollowed' = Stored(applied, userFollowed, req[h].username, <<>>)
    BY <1>10 DEF RegisterFollowedPut
  <2>3. <<>> # Absent /\ IsInjective(<<>>) /\ Range(<<>>) = {}
    <3>1. <<>> \in Seq(User) /\ DOMAIN <<>> = {}
      OBVIOUS
    <3> QED
      BY <3>1, SentinelAssumption, EmptyList
  <2>4. \A u \in User : userFollowed'[u] # userFollowed[u] =>
          u = req[h].username /\ userFollowed'[u] = <<>>
    BY <2>2 DEF Stored, StoreTypeOK, TypeOK
  <2>5. \A g \in Handler \ {h} : pc'[g] = pc[g] /\ req'[g] = req[g] /\ vec'[g] = vec[g]
    BY <1>10 DEF RegisterFollowedPut, Answer, TypeOK, HandlerTypeOK
  <2>6. FollowInFlight(h)'
    BY <1>10 DEF RegisterFollowedPut, Answer, FollowInFlight, TypeOK, 
             HandlerTypeOK
  <2>7. \A u \in User : userFollowed[u] # Absent => userFollowed'[u] # Absent
    BY <2>3, <2>4
  <2>8. UNCHANGED userId
    BY <1>10 DEF RegisterFollowedPut
  <2>9. \A u \in User : userFollowed'[u] # userFollowed[u] =>
          /\ userId'[u] # Absent
          /\ IsInjective(userFollowed'[u])
          /\ \A f \in Range(userFollowed'[u]) : f # u /\ userFollowed'[f] # Absent
    BY <2>1, <2>3, <2>4, <2>8
  <2> QED
    BY <2>5, <2>6, <2>7, <2>8, <2>9, FollowStep
<1>11. ASSUME NEW h \in Handler, ChirpHas(h) PROVE FollowInv'
  BY <1>11, FollowQuiet DEF ChirpHas, Answer, Goto, store, TypeOK, HandlerTypeOK
<1>12. ASSUME NEW h \in Handler, ChirpIdHas(h) PROVE FollowInv'
  <2>1. Answer(h, "ALREADY_EXISTS") \/ Continue(h, "ChirpIdPut")
    BY <1>12 DEF ChirpIdHas, HasThen
  <2> QED
    BY <1>12, <2>1, FollowQuietMove DEF ChirpIdHas, HasThen, store
<1>13. ASSUME NEW h \in Handler, ChirpIdPut(h) PROVE FollowInv'
  <2>1. Answer(h, "ALREADY_EXISTS") \/ Continue(h, "ChirpUserPut")
    BY <1>13 DEF ChirpIdPut
  <2> QED
    BY <1>13, <2>1, FollowQuietMove DEF ChirpIdPut, store
<1>14. ASSUME NEW h \in Handler, ChirpUserPut(h) PROVE FollowInv'
  <2>1. \A u \in User : userId[u] # Absent => userId'[u] # Absent
    BY <1>14, SentinelAssumption
       DEF ChirpUserPut, Stored, StoreTypeOK, LocalsOK, 
             ChirpIdSteps, TypeOK
  <2> QED
    <3>1. Answer(h, "ALREADY_EXISTS") \/ Continue(h, "ChirpParentHas")
      BY <1>14 DEF ChirpUserPut
    <3> QED
      BY <1>14, <2>1, <3>1, FollowQuietMove DEF ChirpUserPut
<1>15. ASSUME NEW h \in Handler, ChirpParentHas(h) PROVE FollowInv'
  BY <1>15, FollowQuiet DEF ChirpParentHas, HasThen, Answer, Continue, Goto, 
             local, store, TypeOK, HandlerTypeOK
<1>16. ASSUME NEW h \in Handler, ChirpParentGet(h) PROVE FollowInv'
  BY <1>16, FollowQuiet DEF ChirpParentGet, Goto, store, TypeOK, HandlerTypeOK
<1>17. ASSUME NEW h \in Handler, ChirpParentPut(h) PROVE FollowInv'
  <2>1. Answer(h, "ALREADY_EXISTS") \/ Continue(h, "ChirpReplyPut")
    BY <1>17 DEF ChirpParentPut
  <2> QED
    BY <1>17, <2>1, FollowQuietMove DEF ChirpParentPut, store
<1>18. ASSUME NEW h \in Handler, ChirpReplyPut(h) PROVE FollowInv'
  BY <1>18, FollowQuiet DEF ChirpReplyPut, Answer, TypeOK, HandlerTypeOK
<1>19. ASSUME NEW h \in Handler, FollowHas(h) PROVE FollowInv'
  <2>1. CASE Answer(h, "NOT_FOUND")
    BY <1>19, <2>1, FollowQuietMove DEF FollowHas, HasThen, store
  <2>2. CASE /\ req[h].username # req[h].to_follow
             /\ userFollowed[req[h].username] # Absent
             /\ Continue(h, "FollowHasTo")
    <3>1. FollowInFlight(h)'
      BY <1>19, <2>2 DEF FollowHas, HasThen, Continue, Goto, local, store, 
             FollowInFlight, TypeOK, HandlerTypeOK
    <3> QED
      BY <1>19, <2>2, <3>1, FollowStep
         DEF FollowHas, HasThen, Continue, Goto, local, store, 
             TypeOK, HandlerTypeOK
  <2> QED
    BY <1>19, <2>1, <2>2 DEF FollowHas, HasThen, HasAnswers
<1>20. ASSUME NEW h \in Handler, FollowHasTo(h) PROVE FollowInv'
  <2>1. CASE Answer(h, "NOT_FOUND")
    BY <1>20, <2>1, FollowQuiet DEF FollowHasTo, HasThen, Answer, store, TypeOK, HandlerTypeOK
  <2>2. CASE userFollowed[req[h].to_follow] # Absent /\ Continue(h, "FollowGet")
    <3>1. FollowInFlight(h)'
      BY <1>20, <2>2 DEF FollowHasTo, HasThen, Continue, Goto, local, store, 
             FollowInv, FollowInFlight, TypeOK, HandlerTypeOK
    <3> QED
      BY <1>20, <2>2, <3>1, FollowStep
         DEF FollowHasTo, HasThen, Continue, Goto, local, store, 
             TypeOK, HandlerTypeOK
  <2> QED
    BY <1>20, <2>1, <2>2 DEF FollowHasTo, HasThen, HasAnswers
<1>21. ASSUME NEW h \in Handler, FollowGet(h) PROVE FollowInv'
  <2>1. CASE Answer(h, "ALREADY_EXISTS")
    BY <1>21, <2>1, FollowQuiet DEF FollowGet, Answer, store, TypeOK, HandlerTypeOK
  <2>2. ASSUME NEW list, GetAnswers(userFollowed[req[h].username], list),
               req[h].to_follow \notin Range(list),
               vec' = [vec EXCEPT ![h] = Append(list, req[h].to_follow)],
               Goto(h, "FollowPut"), UNCHANGED req
        PROVE  FollowInv'
    <3>1. /\ req[h] \in FollowRequest
          /\ req[h].username # req[h].to_follow
          /\ userFollowed[req[h].username] # Absent
          /\ userFollowed[req[h].to_follow] # Absent
      BY <1>21 DEF FollowGet, LocalsOK, FollowInv, FollowInFlight, TypeOK
    <3>2. list \in Seq(User)
      BY <2>2, <3>1, DeparsedType DEF FollowRequest, StoreTypeOK, TypeOK
    <3>3. /\ IsInjective(list)
          /\ \A f \in Range(list) : f # req[h].username /\ userFollowed[f] # Absent
      <4>1. IsInjective(<<>>) /\ Range(<<>>) = {}
        BY EmptyList
      <4>2. list = <<>> \/ list = userFollowed[req[h].username]
        BY <2>2, <3>1 DEF GetAnswers, Deparsed
      <4> QED
        BY <3>1, <4>1, <4>2 DEF FollowRequest, FollowInv, FollowedAreUsers
    <3>4. req[h].to_follow \in User
      BY <3>1 DEF FollowRequest
    <3>5. /\ IsInjective(vec'[h])
          /\ Range(vec'[h]) = Range(list) \cup {req[h].to_follow}
      <4>1. vec'[h] = Append(list, req[h].to_follow)
        BY <2>2 DEF TypeOK, HandlerTypeOK
      <4>2. /\ IsInjective(Append(list, req[h].to_follow))
            /\ Range(Append(list, req[h].to_follow)) = Range(list) \cup {req[h].to_follow}
        BY <2>2, <3>2, <3>3, <3>4, AppendFresh
      <4> QED
        BY <4>1, <4>2
    <3>6. FollowInFlight(h)'
      BY <1>21, <2>2, <3>1, <3>3, <3>5 DEF FollowGet, Goto, store, FollowInFlight, TypeOK, 
             HandlerTypeOK
    <3> QED
      BY <1>21, <2>2, <3>6, FollowStep DEF FollowGet, Goto, store, TypeOK, HandlerTypeOK
  <2> QED
    BY <1>21, <2>1, <2>2 DEF FollowGet
<1>22. ASSUME NEW h \in Handler, FollowPut(h) PROVE FollowInv'
  <2>1. /\ req[h] \in FollowRequest /\ vec[h] \in Seq(User)
        /\ userFollowed[req[h].username] # Absent
        /\ IsInjective(vec[h])
        /\ \A f \in Range(vec[h]) : f # req[h].username /\ userFollowed[f] # Absent
    BY <1>22 DEF FollowPut, LocalsOK, FollowInv, FollowInFlight, TypeOK
  <2>2. PICK applied \in BOOLEAN :
          userFollowed' = Stored(applied, userFollowed, req[h].username, vec[h])
    BY <1>22 DEF FollowPut
  <2>3. \A u \in User : userFollowed[u] # Absent => userFollowed'[u] # Absent
    BY <2>1, <2>2, SentinelAssumption DEF Stored, StoreTypeOK, TypeOK
  <2>4. \A u \in User : userFollowed'[u] # userFollowed[u] =>
          u = req[h].username /\ userFollowed'[u] = vec[h]
    BY <2>2 DEF Stored, StoreTypeOK, TypeOK
  <2>5. Range(vec[h]) \subseteq User
    BY <2>1 DEF Range
  <2>6. userId[req[h].username] # Absent
    BY <2>1 DEF FollowRequest, FollowInv, FollowedAreUsers
  <2>7. FollowInFlight(h)'
    BY <1>22 DEF FollowPut, Answer, FollowInFlight, TypeOK, HandlerTypeOK
  <2> QED
    BY <1>22, <2>1, <2>3, <2>4, <2>5, <2>6, <2>7, FollowStep DEF FollowPut, Answer, TypeOK, HandlerTypeOK
<1>23. ASSUME NEW h \in Handler, ReadHas(h) PROVE FollowInv'
  <2>1. Answer(h, "NOT_FOUND") \/ Continue(h, "ReadRoot")
    BY <1>23 DEF ReadHas, HasThen
  <2> QED
    BY <1>23, <2>1, FollowQuietMove DEF ReadHas, HasThen, store
<1>24. ASSUME NEW h \in Handler, ReadRoot(h) PROVE FollowInv'
  BY <1>24, FollowQuiet DEF ReadRoot, Goto, store, TypeOK, HandlerTypeOK
<1>25. ASSUME NEW h \in Handler, ReadReplies(h) PROVE FollowInv'
  BY <1>25, FollowQuiet DEF ReadReplies, store
<1>26. ASSUME NEW h \in Handler, ReadChirp(h) PROVE FollowInv'
  BY <1>26, FollowQuiet DEF ReadChirp, store
<1>27. ASSUME NEW h \in Handler, ReadReturn(h) PROVE FollowInv'
  BY <1>27, FollowQuiet DEF ReadReturn, Answer, store, TypeOK, HandlerTypeOK
<1>28. CASE Restart
  BY <1>28 DEF Restart, store, FollowInv, FollowedAreUsers, 
             FollowInFlight
<1> QED
  BY <1>1, <1>2, <1>3, <1>4, <1>5, <1>6, <1>7, <1>8, <1>9, <1>10, <1>11, <1>12, <1>13, <1>14, <1>15, <1>16, <1>17, <1>18, <1>19, <1>20, <1>21, <1>22, <1>23, <1>24, <1>25, <1>26, <1>27, <1>28
  DEF Next, Arrive, Handle, Register, DoChirp, Follow, Read

\* Whatever requests run side by side, whatever RPCs fail and whenever the
\* service dies, a user's list names registered users, once each, never its
\* owner, and belongs to a registered user.
THEOREM FollowedCorrect == Spec => []FollowedAreUsers
<1>1. Init => TypeOK /\ FollowInv
  BY TypeInit, FollowInit
<1>2. TypeOK /\ FollowInv /\ [Next]_vars => (TypeOK /\ FollowInv)'
  BY TypeNext, FollowNext
<1>3. FollowInv => FollowedAreUsers
  BY DEF FollowInv
<1> QED
  BY <1>1, <1>2, <1>3, PTL DEF Spec

-----------------------------------------------------------------------------
(* Chirps and threads.                                                     *)

\* g takes no step.
Still(g) == /\ pc'[g] = pc[g] /\ req'[g] = req[g]
            /\ cid'[g] = cid[g] /\ vec'[g] = vec[g]

UnlinkedSteps == {"ChirpUserPut", "ChirpParentHas", "ChirpParentGet"}

\* What is linked is stored, and names its parent.
LEMMA LinkedStored ==
  ASSUME TypeOK, ChirpInv, NEW p \in Id, NEW c \in Id, ReplyEdge(p, c)
  PROVE  idChirp[c] # Absent /\ idChirp[c].parent_id = p
BY DEF ChirpInv, RepliesAreReplies, ReplyEdge, ChirpInFlight, At

\* With no new edge there is no new cycle, and nothing gets linked.
LEMMA EdgesKept ==
  ASSUME ChirpInv, \A p, c \in Id : ReplyEdge(p, c)' => ReplyEdge(p, c)
  PROVE  /\ ThreadsAcyclic'
         /\ \A i \in Id : Unlinked(i) => Unlinked(i)'
<1>1. ThreadsAcyclic'
  <2> SUFFICES ASSUME NEW S \in SUBSET Id, S # {}
               PROVE  \E p \in S : \A c \in S : ~ReplyEdge(p, c)'
    BY DEF ThreadsAcyclic
  <2>1. PICK p \in S : \A c \in S : ~ReplyEdge(p, c)
    BY DEF ChirpInv, ThreadsAcyclic
  <2> QED
    BY <2>1
<1>2. \A i \in Id : Unlinked(i) => Unlinked(i)'
  BY DEF Unlinked
<1> QED
  BY <1>1, <1>2

\* No new edge, no newly linked chirp, whichever handler does not step.
LEMMA StillUnlinked ==
  ASSUME TypeOK, ChirpInv, NEW g \in Handler, Still(g), pc[g] \in UnlinkedSteps,
         \A i \in Id : Unlinked(i) => Unlinked(i)'
  PROVE  Unlinked(cid[g])'
<1>1. cid[g] \in Id /\ cid'[g] = cid[g]
  BY DEF UnlinkedSteps, TypeOK, LocalsOK, ChirpIdSteps, Still
<1>2. Unlinked(cid[g])
  BY DEF ChirpInv, ChirpInFlight, UnlinkedSteps
<1>3. \A i \in Id : i = cid[g] => Unlinked(i)'
  BY <1>2
<1> QED
  BY <1>1, <1>3

\* A handler in progress that takes no step is not disturbed.
LEMMA InFlightKept ==
  ASSUME TypeOK, ChirpInv, NEW g \in Handler, Still(g),
         \A i \in Id : idChirp[i] # Absent => idChirp'[i] = idChirp[i],
         \A p \in Id : idReply[p] # Absent => idReply'[p] # Absent,
         pc[g] \in ChirpIdSteps =>
           /\ idChirp'[cid[g]] = idChirp[cid[g]]
           /\ idReply[cid[g]] = Absent => idReply'[cid[g]] = Absent,
         pc[g] \in UnlinkedSteps => Unlinked(cid[g])'
  PROVE  ChirpInFlight(g)'
<1>1. ChirpInFlight(g)
  BY DEF ChirpInv
<1>2. pc[g] = "ChirpParentPut" => Range(vec[g]) \subseteq Id
  BY DEF TypeOK, LocalsOK, Range
<1>3. pc[g] \in ChirpParentSteps => req[g].parent_id \in Id
  BY DEF TypeOK, LocalsOK
<1>4. pc[g] = "ChirpParentPut" =>
        /\ IsInjective(vec'[g])
        /\ \A i \in Range(vec'[g]) :
             idChirp'[i] # Absent /\ idChirp'[i].parent_id = req'[g].parent_id
  BY <1>1, <1>2 DEF ChirpInFlight, Still
<1>5. TheChirp(g)' = TheChirp(g)
  BY DEF TheChirp, Still
<1> QED
  BY <1>1, <1>3, <1>4, <1>5
     DEF Still, ChirpInFlight, ChirpParentSteps, ChirpStoredSteps, ChirpIdSteps,
         UnlinkedSteps

\* What is left to show of a step of h.
LEMMA ChirpStep ==
  ASSUME TypeOK, TypeOK', ChirpInv, NEW h \in Handler,
         \A g \in Handler \ {h} : Still(g),
         \A i \in Id : idChirp[i] # Absent => idChirp'[i] = idChirp[i],
         \A p \in Id : idReply[p] # Absent => idReply'[p] # Absent,
         \A g \in Handler \ {h} : pc[g] \in ChirpIdSteps =>
           /\ idChirp'[cid[g]] = idChirp[cid[g]]
           /\ idReply[cid[g]] = Absent => idReply'[cid[g]] = Absent,
         \A g \in Handler \ {h} : pc[g] \in UnlinkedSteps => Unlinked(cid[g])',
         \A p \in Id : idReply'[p] # idReply[p] =>
           /\ idChirp'[p] # Absent
           /\ IsInjective(idReply'[p])
           /\ \A i \in Range(idReply'[p]) :
                idChirp'[i] # Absent /\ idChirp'[i].parent_id = p,
         \A u \in User : userId'[u] # userId[u] /\ userId'[u] \in Id =>
           idChirp'[userId'[u]] # Absent /\ idChirp'[userId'[u]].username = u,
         ThreadsAcyclic', FreshIds', ChirpInFlight(h)'
  PROVE  ChirpInv'
<1>1. LatestIsOwnChirp'
  BY DEF ChirpInv, LatestIsOwnChirp
<1>2. RepliesAreReplies'
  <2> SUFFICES ASSUME NEW p \in Id, idReply'[p] # Absent
               PROVE  /\ idChirp'[p] # Absent
                      /\ IsInjective(idReply'[p])
                      /\ \A i \in Range(idReply'[p]) :
                           idChirp'[i] # Absent /\ idChirp'[i].parent_id = p
    BY DEF RepliesAreReplies
  <2>1. CASE idReply'[p] # idReply[p]
    BY <2>1
  <2>2. CASE idReply'[p] = idReply[p]
    <3>1. Range(idReply[p]) \subseteq Id
      BY <2>2 DEF TypeOK, StoreTypeOK, Range
    <3> QED
      BY <2>2, <3>1 DEF ChirpInv, RepliesAreReplies
  <2> QED
    BY <2>1, <2>2
<1>3. \A g \in Handler : ChirpInFlight(g)'
  BY InFlightKept
<1> QED
  BY <1>1, <1>2, <1>3 DEF ChirpInv

\* A step of h that leaves the chirps and the lists alone and links nothing.
LEMMA ChirpLocalStep ==
  ASSUME TypeOK, TypeOK', ChirpInv, NEW h \in Handler,
         \A g \in Handler \ {h} : Still(g),
         UNCHANGED <<idChirp, idReply, issued>>,
         \A u \in User : userId'[u] # userId[u] /\ userId'[u] \in Id =>
           idChirp[userId'[u]] # Absent /\ idChirp[userId'[u]].username = u,
         pc'[h] # "ChirpParentPut",
         pc'[h] \in ChirpIdSteps => pc[h] \in ChirpIdSteps /\ cid'[h] = cid[h],
         (\A i \in Id : Unlinked(i) => Unlinked(i)') => ChirpInFlight(h)'
  PROVE  ChirpInv'
<1>1. \A p, c \in Id : ReplyEdge(p, c)' => ReplyEdge(p, c)
  BY DEF ReplyEdge, At, Still
<1>2. ThreadsAcyclic' /\ \A i \in Id : Unlinked(i) => Unlinked(i)'
  BY <1>1, EdgesKept
<1>3. FreshIds'
  <2>1. ASSUME NEW f \in Handler, NEW g \in Handler, f # g,
               pc'[f] \in ChirpIdSteps, pc'[g] \in ChirpIdSteps
        PROVE  cid'[f] # cid'[g]
    BY <2>1 DEF ChirpInv, FreshIds, Still
  <2> QED
    BY <2>1 DEF ChirpInv, FreshIds
<1>4. \A g \in Handler \ {h} : pc[g] \in UnlinkedSteps => Unlinked(cid[g])'
  BY <1>2, StillUnlinked
<1>5. ChirpInFlight(h)'
  BY <1>2
<1>6. \A u \in User : userId'[u] # userId[u] /\ userId'[u] \in Id =>
        idChirp'[userId'[u]] # Absent /\ idChirp'[userId'[u]].username = u
  OBVIOUS
<1>7. \A p \in Id : idReply'[p] = idReply[p] /\ idChirp'[p] = idChirp[p]
  OBVIOUS
<1>8. \A g \in Handler \ {h} : pc[g] \in ChirpIdSteps =>
        /\ idChirp'[cid[g]] = idChirp[cid[g]]
        /\ idReply[cid[g]] = Absent => idReply'[cid[g]] = Absent
  OBVIOUS
<1> QED
  BY <1>2, <1>3, <1>4, <1>5, <1>6, <1>7, <1>8, ChirpStep

\* The same of a step after which h holds no id.
LEMMA ChirpQuiet ==
  ASSUME TypeOK, TypeOK', ChirpInv, NEW h \in Handler,
         \A g \in Handler \ {h} : Still(g),
         UNCHANGED <<idChirp, idReply, issued>>,
         \A u \in User : userId'[u] # userId[u] => userId'[u] \notin Id,
         pc'[h] \notin ChirpIdSteps
  PROVE  ChirpInv'
<1>1. ChirpInFlight(h)'
  BY DEF ChirpInFlight, ChirpIdSteps, ChirpStoredSteps, ChirpParentSteps
<1> QED
  BY <1>1, ChirpLocalStep DEF ChirpIdSteps

\* Where the handlers stand after one has answered, ...
LEMMA AnswerMoves ==
  ASSUME TypeOK, NEW h \in Handler, NEW code, Answer(h, code)
  PROVE  pc'[h] = "idle" /\ \A g \in Handler \ {h} : Still(g)
BY DEF TypeOK, HandlerTypeOK, Answer, Still

\* ... and after it went on.
LEMMA ContinueMoves ==
  ASSUME TypeOK, NEW h \in Handler, NEW l, Continue(h, l)
  PROVE  /\ pc'[h] = l /\ req'[h] = req[h] /\ cid'[h] = cid[h] /\ vec'[h] = vec[h]
         /\ \A g \in Handler \ {h} : Still(g)
BY DEF TypeOK, HandlerTypeOK, Continue, Goto, local, Still

\* A quiet step that answers or goes on.
LEMMA ChirpQuietMove ==
  ASSUME TypeOK, TypeOK', ChirpInv, NEW h \in Handler,
         UNCHANGED <<idChirp, idReply, issued>>,
         \A u \in User : userId'[u] # userId[u] => userId'[u] \notin Id,
         NEW code, NEW l, l \notin ChirpIdSteps,
         Answer(h, code) \/ Continue(h, l)
  PROVE  ChirpInv'
<1>1. pc'[h] \notin ChirpIdSteps /\ \A g \in Handler \ {h} : Still(g)
  BY AnswerMoves, ContinueMoves DEF ChirpIdSteps
<1> QED
  BY <1>1, ChirpQuiet

\* An id is not handed out again while a failed Has could hide its chirp.
NoReissue == ~SameSecond \/ MaxFaults = 0

LEMMA ChirpInit == Init => ChirpInv
<1> SUFFICES ASSUME Init PROVE ChirpInv
  OBVIOUS
<1>1. ThreadsAcyclic
  BY DEF Init, ThreadsAcyclic, ReplyEdge, At
<1> QED
  BY <1>1, SentinelAssumption
     DEF Init, ChirpInv, LatestIsOwnChirp, RepliesAreReplies, FreshIds,
         ChirpInFlight, ChirpIdSteps, ChirpStoredSteps, ChirpParentSteps

\* The generator's id is not in use, by a handler or (unless it may come
\* again) in the store.
LEMMA ChirpHasInv ==
  ASSUME TypeOK, TypeOK', ChirpInv, NEW h \in Handler, ChirpHas(h)
  PROVE  ChirpInv'
<1>1. CASE Answer(h, "NOT_FOUND") /\ UNCHANGED issued
  <2>1. UNCHANGED <<userId, idChirp, idReply, issued>>
    BY <1>1 DEF ChirpHas, store
  <2> QED
    BY <1>1, <2>1, ChirpQuietMove DEF ChirpIdSteps
<1>2. ASSUME NEW i \in Id \ issued, issued' = issued \cup {i},
             cid' = [cid EXCEPT ![h] = i], Goto(h, "ChirpIdHas"),
             UNCHANGED <<req, vec>>
      PROVE  ChirpInv'
  <2>1. pc'[h] = "ChirpIdHas" /\ cid'[h] = i /\ \A g \in Handler \ {h} : Still(g)
    BY <1>2 DEF Goto, Still, TypeOK, HandlerTypeOK
  <2>2. UNCHANGED <<userId, idChirp, idReply>>
    BY DEF ChirpHas, store
  <2>3. \A p, c \in Id : ReplyEdge(p, c)' => ReplyEdge(p, c)
    BY <2>1, <2>2 DEF ReplyEdge, At, Still
  <2>4. ThreadsAcyclic' /\ \A j \in Id : Unlinked(j) => Unlinked(j)'
    BY <2>3, EdgesKept
  <2>5. FreshIds'
    <3>1. \A g \in Handler \ {h} : pc[g] \in ChirpIdSteps => cid'[g] # i
      BY <2>1 DEF TypeOK, LocalsOK, Still
    <3>2. \A f, g \in Handler :
            f # g /\ pc'[f] \in ChirpIdSteps /\ pc'[g] \in ChirpIdSteps => cid'[f] # cid'[g]
      BY <2>1, <3>1 DEF ChirpInv, FreshIds, Still
    <3>3. SameSecond \/ \A j \in Id : idChirp'[j] # Absent => j \in issued'
      BY <1>2, <2>2 DEF ChirpInv, FreshIds
    <3> QED
      BY <3>2, <3>3 DEF FreshIds
  <2>6. ChirpInFlight(h)'
    <3>1. SameSecond \/ idChirp'[cid'[h]] = Absent
      BY <2>1, <2>2, <1>2 DEF ChirpInv, FreshIds
    <3> QED
      BY <2>1, <3>1 DEF ChirpInFlight, ChirpStoredSteps, ChirpIdSteps, ChirpParentSteps
  <2>7. \A g \in Handler \ {h} : pc[g] \in UnlinkedSteps => Unlinked(cid[g])'
    BY <2>1, <2>4, StillUnlinked
  <2> QED
    BY <2>1, <2>2, <2>4, <2>5, <2>6, <2>7, ChirpStep
<1> QED
  BY <1>1, <1>2 DEF ChirpHas

\* A Has that finds no chirp: there is none, because a fault that would hide
\* one can only happen when ids are not handed out again.
LEMMA ChirpIdHasInv ==
  ASSUME NoReissue, TypeOK, TypeOK', ChirpInv, NEW h \in Handler, ChirpIdHas(h)
  PROVE  ChirpInv'
<1>1. UNCHANGED <<userId, idChirp, idReply, issued>> /\ pc[h] = "ChirpIdHas"
  BY DEF ChirpIdHas, HasThen, store, At
<1>2. CASE Answer(h, "ALREADY_EXISTS")
  BY <1>1, <1>2, ChirpQuietMove DEF ChirpIdSteps
<1>3. CASE HasAnswers(idChirp[cid[h]] # Absent, FALSE) /\ Continue(h, "ChirpIdPut")
  <2>1. idChirp[cid[h]] = Absent
    <3>1. CASE Fault
      BY <1>1, <3>1, BoundAssumption
         DEF Fault, NoReissue, TypeOK, ChirpInv, ChirpInFlight
    <3>2. CASE ~Fault
      BY <1>3, <3>2 DEF HasAnswers
    <3> QED
      BY <3>1, <3>2
  <2>2. /\ pc'[h] = "ChirpIdPut" /\ cid'[h] = cid[h]
        /\ \A g \in Handler \ {h} : Still(g)
    BY <1>3, ContinueMoves
  <2>3. ChirpInFlight(h)'
    BY <1>1, <2>1, <2>2
       DEF ChirpInFlight, ChirpStoredSteps, ChirpIdSteps, ChirpParentSteps
  <2> QED
    BY <1>1, <2>2, <2>3, ChirpLocalStep DEF ChirpIdSteps
<1> QED
  BY <1>2, <1>3 DEF ChirpIdHas, HasThen

\* The chirp is stored under an id that nobody links or holds.
LEMMA ChirpIdPutInv ==
  ASSUME TypeOK, TypeOK', ChirpInv, NEW h \in Handler, ChirpIdPut(h)
  PROVE  ChirpInv'
<1>1. /\ pc[h] = "ChirpIdPut" /\ idChirp[cid[h]] = Absent
      /\ cid[h] \in Id /\ cid[h] \in issued /\ req[h] \in ChirpRequest
      /\ TheChirp(h) \in Chirp
  BY DEF ChirpIdPut, At, ChirpInv, ChirpInFlight, TypeOK, LocalsOK, ChirpIdSteps,
         TheChirp, ChirpRequest, Chirp
<1>2. PICK applied \in BOOLEAN, ok \in BOOLEAN :
        /\ ok => applied
        /\ idChirp' = Stored(applied, idChirp, cid[h], TheChirp(h))
        /\ IF ok THEN Continue(h, "ChirpUserPut") ELSE Answer(h, "ALREADY_EXISTS")
  BY DEF ChirpIdPut, PutAnswers
<1>3. UNCHANGED <<userId, idReply, issued>>
  BY DEF ChirpIdPut
<1>4. /\ \A g \in Handler \ {h} : Still(g)
      /\ IF ok THEN /\ pc'[h] = "ChirpUserPut"
                    /\ req'[h] = req[h] /\ cid'[h] = cid[h]
               ELSE pc'[h] = "idle"
  BY <1>2, AnswerMoves, ContinueMoves
<1>5. /\ \A i \in Id : i # cid[h] => idChirp'[i] = idChirp[i]
      /\ idChirp'[cid[h]] \in {idChirp[cid[h]], TheChirp(h)}
      /\ ok => idChirp'[cid[h]] = TheChirp(h)
  BY <1>1, <1>2 DEF Stored, TypeOK, StoreTypeOK
<1>6. idReply[cid[h]] = Absent
  BY <1>1 DEF ChirpInv, RepliesAreReplies
<1>7. Unlinked(cid[h])
  BY <1>1, LinkedStored DEF Unlinked
<1>8. \A p, c \in Id : ReplyEdge(p, c)' => ReplyEdge(p, c)
  BY <1>3, <1>4 DEF ReplyEdge, At, Still
<1>9. ThreadsAcyclic' /\ \A j \in Id : Unlinked(j) => Unlinked(j)'
  BY <1>8, EdgesKept
<1>10. FreshIds'
  <2>1. \A f, g \in Handler :
          f # g /\ pc'[f] \in ChirpIdSteps /\ pc'[g] \in ChirpIdSteps => cid'[f] # cid'[g]
    BY <1>1, <1>4 DEF ChirpInv, FreshIds, Still, ChirpIdSteps
  <2>2. SameSecond \/ \A j \in Id : idChirp'[j] # Absent => j \in issued'
    BY <1>1, <1>3, <1>5 DEF ChirpInv, FreshIds
  <2> QED
    BY <2>1, <2>2 DEF FreshIds
<1>11. ChirpInFlight(h)'
  <2>1. ok => \A i \in Id : i = cid[h] => Unlinked(i)'
    BY <1>7, <1>9
  <2>2. ok => Unlinked(cid[h])'
    BY <1>1, <1>4, <2>1
  <2>3. ok => TheChirp(h)' = TheChirp(h)
    BY <1>4 DEF TheChirp
  <2> QED
    BY <1>1, <1>3, <1>4, <1>5, <1>6, <2>2, <2>3
       DEF ChirpInFlight, ChirpStoredSteps, ChirpIdSteps, ChirpParentSteps
<1>12. \A g \in Handler \ {h} : pc[g] \in UnlinkedSteps => Unlinked(cid[g])'
  BY <1>4, <1>9, StillUnlinked
<1>13. \A g \in Handler \ {h} : pc[g] \in ChirpIdSteps =>
         /\ idChirp'[cid[g]] = idChirp[cid[g]]
         /\ idReply[cid[g]] = Absent => idReply'[cid[g]] = Absent
  BY <1>1, <1>3, <1>5 DEF ChirpInv, FreshIds, TypeOK, LocalsOK, ChirpIdSteps
<1>14. \A i \in Id : idChirp[i] # Absent => idChirp'[i] = idChirp[i]
  BY <1>1, <1>5
<1>15. userId' = userId /\ idReply' = idReply
  BY <1>3
<1> QED
  BY <1>4, <1>9, <1>10, <1>11, <1>12, <1>13, <1>14, <1>15, ChirpStep

\* The user's latest chirp is in the store by now, and is the user's.
LEMMA ChirpUserPutInv ==
  ASSUME TypeOK, TypeOK', ChirpInv, NEW h \in Handler, ChirpUserPut(h)
  PROVE  ChirpInv'
<1>1. /\ pc[h] = "ChirpUserPut" /\ idChirp[cid[h]] = TheChirp(h)
      /\ TheChirp(h) \in Chirp /\ TheChirp(h).username = req[h].username
      /\ idReply[cid[h]] = Absent /\ Unlinked(cid[h]) /\ cid[h] \in Id
      /\ req[h].username \in User
  BY DEF ChirpUserPut, At, ChirpInv, ChirpInFlight, TypeOK, LocalsOK, ChirpIdSteps,
         ChirpStoredSteps, TheChirp, Chirp, ChirpRequest
<1>2. UNCHANGED <<idChirp, idReply, issued>>
  BY DEF ChirpUserPut
<1>3. \A u \in User : userId'[u] # userId[u] => u = req[h].username /\ userId'[u] = cid[h]
  BY DEF ChirpUserPut, Stored, TypeOK, StoreTypeOK
<1>4. \A u \in User : userId'[u] # userId[u] /\ userId'[u] \in Id =>
        idChirp[userId'[u]] # Absent /\ idChirp[userId'[u]].username = u
  BY <1>1, <1>3, SentinelAssumption DEF Chirp
<1>5. Answer(h, "ALREADY_EXISTS") \/ Continue(h, "ChirpParentHas")
  BY DEF ChirpUserPut
<1>6. CASE Answer(h, "ALREADY_EXISTS")
  <2>1. ChirpInFlight(h)'
    BY <1>6, AnswerMoves
       DEF ChirpInFlight, ChirpStoredSteps, ChirpIdSteps, ChirpParentSteps
  <2> QED
    BY <1>2, <1>4, <1>6, <2>1, AnswerMoves, ChirpLocalStep DEF ChirpIdSteps
<1>7. CASE Continue(h, "ChirpParentHas")
  <2>1. /\ pc'[h] = "ChirpParentHas" /\ req'[h] = req[h] /\ cid'[h] = cid[h]
        /\ \A g \in Handler \ {h} : Still(g)
    BY <1>7, ContinueMoves
  <2>2. ASSUME \A i \in Id : Unlinked(i) => Unlinked(i)'
        PROVE  ChirpInFlight(h)'
    <3>1. \A i \in Id : i = cid[h] => Unlinked(i)'
      BY <1>1, <2>2
    <3>2. Unlinked(cid[h])'
      BY <1>1, <2>1, <3>1
    <3>3. TheChirp(h)' = TheChirp(h)
      BY <2>1 DEF TheChirp
    <3> QED
      BY <1>1, <1>2, <2>1, <3>2, <3>3
         DEF ChirpInFlight, ChirpStoredSteps, ChirpIdSteps, ChirpParentSteps
  <2> QED
    BY <1>1, <1>2, <1>4, <2>1, <2>2, ChirpLocalStep DEF ChirpIdSteps
<1> QED
  BY <1>5, <1>6, <1>7

\* A parent that has a list will always have one.
LEMMA ChirpParentHasInv ==
  ASSUME TypeOK, TypeOK', ChirpInv, NEW h \in Handler, ChirpParentHas(h)
  PROVE  ChirpInv'
<1>1. /\ pc[h] = "ChirpParentHas" /\ idChirp[cid[h]] = TheChirp(h)
      /\ idReply[cid[h]] = Absent /\ Unlinked(cid[h]) /\ cid[h] \in Id
  BY DEF ChirpParentHas, At, ChirpInv, ChirpInFlight, TypeOK, LocalsOK, ChirpIdSteps,
         ChirpStoredSteps
<1>2. UNCHANGED <<userId, idChirp, idReply, issued>>
  BY DEF ChirpParentHas, HasThen, store
<1>3. PICK l \in {"ChirpParentGet", "ChirpReplyPut"} :
        /\ Continue(h, l)
        /\ l = "ChirpParentGet" => ReplyKey(req[h].parent_id) # Absent
  BY DEF ChirpParentHas, HasThen, HasAnswers
<1>4. /\ pc'[h] = l /\ req'[h] = req[h] /\ cid'[h] = cid[h]
      /\ \A g \in Handler \ {h} : Still(g)
  BY <1>3, ContinueMoves
<1>5. ASSUME \A i \in Id : Unlinked(i) => Unlinked(i)'
      PROVE  ChirpInFlight(h)'
  <2>1. \A i \in Id : i = cid[h] => Unlinked(i)'
    BY <1>1, <1>5
  <2>2. Unlinked(cid[h])'
    BY <1>1, <1>4, <2>1
  <2>3. TheChirp(h)' = TheChirp(h)
    BY <1>4 DEF TheChirp
  <2>4. l = "ChirpParentGet" => idReply[req[h].parent_id] # Absent
    BY <1>3 DEF ReplyKey
  <2> QED
    BY <1>1, <1>2, <1>4, <2>2, <2>3, <2>4
       DEF ChirpInFlight, ChirpStoredSteps, ChirpIdSteps, ChirpParentSteps
<1> QED
  BY <1>1, <1>2, <1>4, <1>5, ChirpLocalStep DEF ChirpIdSteps

\* The list about to be stored links one more reply: the chirp itself, to a parent
\* that has a list while the chirp has none.
LEMMA ParentGetEdges ==
  ASSUME TypeOK, ChirpInv, NEW h \in Handler, ChirpParentGet(h)
  PROVE  LET parent == req[h].parent_id
         IN  /\ cid[h] \in Id /\ parent \in Id /\ parent # cid[h]
             /\ idReply[cid[h]] = Absent /\ idReply[parent] # Absent
             /\ pc'[h] = "ChirpParentPut" /\ UNCHANGED <<idReply, req, cid>>
             /\ \A g \in Handler \ {h} : Still(g)
             /\ IsInjective(vec'[h])
             /\ \A i \in Range(vec'[h]) :
                  i = cid[h] \/ (idChirp[i] # Absent /\ idChirp[i].parent_id = parent)
             /\ \A q, c \in Id : ReplyEdge(q, c)' =>
                  ReplyEdge(q, c) \/ (q = parent /\ c = cid[h])
<1> DEFINE parent == req[h].parent_id
<1>1. /\ pc[h] = "ChirpParentGet"
      /\ idReply[cid[h]] = Absent /\ Unlinked(cid[h]) /\ cid[h] \in Id
      /\ parent \in Id /\ idReply[parent] # Absent /\ parent # cid[h]
  BY DEF ChirpParentGet, At, ChirpInv, ChirpInFlight, TypeOK, LocalsOK, ChirpIdSteps,
         ChirpStoredSteps, ChirpParentSteps
<1>2. UNCHANGED <<userId, idChirp, idReply, issued, req, cid>>
  BY DEF ChirpParentGet, store
<1>3. PICK list : /\ GetAnswers(idReply[parent], list)
                  /\ vec' = [vec EXCEPT ![h] = Append(list, cid[h])]
  BY DEF ChirpParentGet
<1>4. /\ pc'[h] = "ChirpParentPut" /\ vec'[h] = Append(list, cid[h])
      /\ \A g \in Handler \ {h} : Still(g)
  BY <1>2, <1>3 DEF ChirpParentGet, Goto, Still, TypeOK, HandlerTypeOK
<1>5. list = <<>> \/ list = idReply[parent]
  BY <1>1, <1>3 DEF GetAnswers, Deparsed
<1>6. list \in Seq(Id)
  BY <1>1, <1>3, DeparsedType DEF TypeOK, StoreTypeOK
<1>7. /\ IsInjective(list)
      /\ \A i \in Range(list) : /\ ReplyEdge(parent, i)
                                /\ idChirp[i] # Absent /\ idChirp[i].parent_id = parent
  BY <1>1, <1>5, EmptyList DEF ChirpInv, RepliesAreReplies, ReplyEdge
<1>8. cid[h] \notin Range(list)
  BY <1>1, <1>7 DEF Unlinked
<1>9. IsInjective(vec'[h]) /\ Range(vec'[h]) = Range(list) \cup {cid[h]}
  <2>1. /\ IsInjective(Append(list, cid[h]))
        /\ Range(Append(list, cid[h])) = Range(list) \cup {cid[h]}
    BY <1>1, <1>6, <1>7, <1>8, AppendFresh
  <2> QED
    BY <1>4, <2>1
<1>10. \A q, c \in Id : ReplyEdge(q, c)' =>
         ReplyEdge(q, c) \/ (q = parent /\ c = cid[h])
  <2> SUFFICES ASSUME NEW q \in Id, NEW c \in Id, ReplyEdge(q, c)'
               PROVE  ReplyEdge(q, c) \/ (q = parent /\ c = cid[h])
    OBVIOUS
  <2>1. CASE idReply'[q] # Absent /\ c \in Range(idReply'[q])
    BY <1>2, <2>1 DEF ReplyEdge
  <2>2. ASSUME NEW g \in Handler, pc'[g] = "ChirpParentPut",
               req'[g].parent_id = q, c \in Range(vec'[g])
        PROVE  ReplyEdge(q, c) \/ (q = parent /\ c = cid[h])
    <3>1. CASE g = h
      BY <1>2, <1>7, <1>9, <2>2, <3>1
    <3>2. CASE g # h
      BY <1>4, <2>2, <3>2 DEF ReplyEdge, At, Still
    <3> QED
      BY <3>1, <3>2
  <2> QED
    BY <2>1, <2>2 DEF ReplyEdge, At
<1> QED
  BY <1>1, <1>2, <1>4, <1>7, <1>9, <1>10

\* The one new edge leads to a chirp that nothing replies to.
LEMMA ChirpParentGetInv ==
  ASSUME TypeOK, TypeOK', ChirpInv, NEW h \in Handler, ChirpParentGet(h)
  PROVE  ChirpInv'
<1> DEFINE parent == req[h].parent_id
<1>1. /\ pc[h] = "ChirpParentGet" /\ idChirp[cid[h]] = TheChirp(h)
      /\ TheChirp(h) \in Chirp /\ TheChirp(h).parent_id = parent
      /\ idReply[cid[h]] = Absent /\ cid[h] \in Id
      /\ parent \in Id /\ idReply[parent] # Absent /\ parent # cid[h]
  BY DEF ChirpParentGet, At, ChirpInv, ChirpInFlight, TypeOK, LocalsOK, ChirpIdSteps,
         ChirpStoredSteps, ChirpParentSteps, TheChirp, Chirp, ChirpRequest
<1>2. UNCHANGED <<userId, idChirp, idReply, issued, req, cid>>
  BY DEF ChirpParentGet, store
<1>3. /\ pc'[h] = "ChirpParentPut" /\ IsInjective(vec'[h])
      /\ \A g \in Handler \ {h} : Still(g)
      /\ \A i \in Range(vec'[h]) :
           i = cid[h] \/ (idChirp[i] # Absent /\ idChirp[i].parent_id = parent)
  BY ParentGetEdges
<1>4. \A q, c \in Id : ReplyEdge(q, c)' =>
         ReplyEdge(q, c) \/ (q = parent /\ c = cid[h])
  BY ParentGetEdges
<1>5. \A c \in Id : ~ReplyEdge(cid[h], c)
  BY <1>1 DEF ReplyEdge, ChirpInv, ChirpInFlight, At, ChirpParentSteps
<1>6. ThreadsAcyclic'
  <2> SUFFICES ASSUME NEW S \in SUBSET Id, S # {}
               PROVE  \E q \in S : \A c \in S : ~ReplyEdge(q, c)'
    BY DEF ThreadsAcyclic
  <2>1. CASE cid[h] \in S
    <3>1. \A q, c \in Id : q = cid[h] => ~ReplyEdge(q, c)'
      BY <1>1, <1>4, <1>5
    <3> QED
      BY <2>1, <3>1
  <2>2. CASE cid[h] \notin S
    <3>1. PICK q \in S : \A c \in S : ~ReplyEdge(q, c)
      BY DEF ChirpInv, ThreadsAcyclic
    <3> QED
      BY <1>4, <2>2, <3>1
  <2> QED
    BY <2>1, <2>2
<1>7. \A g \in Handler \ {h} : pc[g] \in UnlinkedSteps => Unlinked(cid[g])'
  <2> SUFFICES ASSUME NEW g \in Handler \ {h}, pc[g] \in UnlinkedSteps
               PROVE  Unlinked(cid[g])'
    OBVIOUS
  <2>1. Unlinked(cid[g]) /\ cid[g] \in Id /\ cid[g] # cid[h]
    BY <1>1 DEF ChirpInv, ChirpInFlight, FreshIds, UnlinkedSteps, ChirpIdSteps, TypeOK, LocalsOK
  <2>2. \A q, i \in Id : i = cid[g] => ~ReplyEdge(q, i)'
    BY <1>4, <2>1 DEF Unlinked
  <2>3. \A i \in Id : i = cid[g] => Unlinked(i)'
    BY <2>2 DEF Unlinked
  <2> QED
    BY <1>2, <2>1, <2>3
<1>8. FreshIds'
  BY <1>1, <1>2, <1>3 DEF ChirpInv, FreshIds, Still, ChirpIdSteps
<1>9. ChirpInFlight(h)'
  <2>1. TheChirp(h)' = TheChirp(h)
    BY <1>2 DEF TheChirp
  <2>2. \A i \in Range(vec'[h]) :
          idChirp'[i] # Absent /\ idChirp'[i].parent_id = req'[h].parent_id
    BY <1>1, <1>2, <1>3, SentinelAssumption DEF Chirp
  <2> QED
    BY <1>1, <1>2, <1>3, <2>1, <2>2
       DEF ChirpInFlight, ChirpStoredSteps, ChirpIdSteps, ChirpParentSteps
<1> QED
  BY <1>2, <1>3, <1>6, <1>7, <1>8, <1>9, ChirpStep

\* The list stored is the one of the edges counted already.
LEMMA ChirpParentPutInv ==
  ASSUME TypeOK, TypeOK', ChirpInv, NEW h \in Handler, ChirpParentPut(h)
  PROVE  ChirpInv'
<1> DEFINE parent == req[h].parent_id
<1>1. /\ pc[h] = "ChirpParentPut" /\ idChirp[cid[h]] = TheChirp(h)
      /\ idReply[cid[h]] = Absent /\ cid[h] \in Id
      /\ parent \in Id /\ idReply[parent] # Absent
      /\ vec[h] \in Seq(Id) /\ vec[h] # Absent /\ IsInjective(vec[h])
      /\ \A i \in Range(vec[h]) : idChirp[i] # Absent /\ idChirp[i].parent_id = parent
  BY SentinelAssumption
     DEF ChirpParentPut, At, ChirpInv, ChirpInFlight, TypeOK, LocalsOK, ChirpIdSteps,
         ChirpStoredSteps, ChirpParentSteps
<1>2. UNCHANGED <<userId, idChirp, issued>>
  BY DEF ChirpParentPut
<1>3. /\ \A p \in Id : p # parent => idReply'[p] = idReply[p]
      /\ idReply'[parent] \in {idReply[parent], vec[h]}
  BY <1>1 DEF ChirpParentPut, Stored, TypeOK, StoreTypeOK
<1>4. /\ pc'[h] = "idle" \/ /\ pc'[h] = "ChirpReplyPut"
                            /\ req'[h] = req[h] /\ cid'[h] = cid[h]
      /\ \A g \in Handler \ {h} : Still(g)
  <2>1. Answer(h, "ALREADY_EXISTS") \/ Continue(h, "ChirpReplyPut")
    BY DEF ChirpParentPut
  <2> QED
    BY <2>1, AnswerMoves, ContinueMoves
<1>5. \A p, c \in Id : ReplyEdge(p, c)' => ReplyEdge(p, c)
  BY <1>1, <1>3, <1>4 DEF ReplyEdge, At, Still
<1>6. ThreadsAcyclic' /\ \A i \in Id : Unlinked(i) => Unlinked(i)'
  BY <1>5, EdgesKept
<1>7. \A g \in Handler \ {h} : pc[g] \in UnlinkedSteps => Unlinked(cid[g])'
  BY <1>4, <1>6, StillUnlinked
<1>8. \A g \in Handler \ {h} : pc[g] \in ChirpIdSteps =>
        /\ idChirp'[cid[g]] = idChirp[cid[g]]
        /\ idReply[cid[g]] = Absent => idReply'[cid[g]] = Absent
  BY <1>1, <1>2, <1>3 DEF TypeOK, LocalsOK
<1>9. FreshIds'
  BY <1>1, <1>2, <1>4 DEF ChirpInv, FreshIds, Still, ChirpIdSteps
<1>10. ChirpInFlight(h)'
  <2>1. idReply'[cid[h]] = Absent
    BY <1>1, <1>3
  <2>2. pc'[h] = "ChirpReplyPut" => TheChirp(h)' = TheChirp(h)
    BY <1>4 DEF TheChirp
  <2> QED
    BY <1>1, <1>2, <1>4, <2>1, <2>2
       DEF ChirpInFlight, ChirpStoredSteps, ChirpIdSteps, ChirpParentSteps
<1>11. \A p \in Id : idReply'[p] # idReply[p] => p = parent /\ idReply'[p] = vec[h]
  BY <1>3
<1>12. idChirp[parent] # Absent
  BY <1>1 DEF ChirpInv, RepliesAreReplies
<1>13. \A p \in Id : idReply'[p] # idReply[p] =>
         /\ idChirp'[p] # Absent
         /\ IsInjective(idReply'[p])
         /\ \A i \in Range(idReply'[p]) :
              idChirp'[i] # Absent /\ idChirp'[i].parent_id = p
  BY <1>1, <1>2, <1>11, <1>12
<1>14. \A p \in Id : idReply[p] # Absent => idReply'[p] # Absent
  BY <1>1, <1>11
<1> QED
  BY <1>2, <1>4, <1>6, <1>7, <1>8, <1>9, <1>10, <1>13, <1>14, ChirpStep

\* A new list is empty, and belongs to a stored chirp.
LEMMA ChirpReplyPutInv ==
  ASSUME TypeOK, TypeOK', ChirpInv, NEW h \in Handler, ChirpReplyPut(h)
  PROVE  ChirpInv'
<1>1. /\ pc[h] = "ChirpReplyPut" /\ idChirp[cid[h]] = TheChirp(h)
      /\ TheChirp(h) \in Chirp /\ idReply[cid[h]] = Absent /\ cid[h] \in Id
  BY DEF ChirpReplyPut, At, ChirpInv, ChirpInFlight, TypeOK, LocalsOK, ChirpIdSteps,
         ChirpStoredSteps, TheChirp, Chirp, ChirpRequest
<1>2. UNCHANGED <<userId, idChirp, issued>>
  BY DEF ChirpReplyPut
<1>3. \A p \in Id : idReply'[p] # idReply[p] => p = cid[h] /\ idReply'[p] = <<>>
  BY DEF ChirpReplyPut, Stored, TypeOK, StoreTypeOK
<1>4. pc'[h] = "idle" /\ \A g \in Handler \ {h} : Still(g)
  <2>1. PICK code : Answer(h, code)
    BY DEF ChirpReplyPut
  <2> QED
    BY <2>1, AnswerMoves
<1>5. \A p, c \in Id : ReplyEdge(p, c)' => ReplyEdge(p, c)
  BY <1>3, <1>4, EmptyList DEF ReplyEdge, At, Still
<1>6. ThreadsAcyclic' /\ \A i \in Id : Unlinked(i) => Unlinked(i)'
  BY <1>5, EdgesKept
<1>7. \A g \in Handler \ {h} : pc[g] \in UnlinkedSteps => Unlinked(cid[g])'
  BY <1>4, <1>6, StillUnlinked
<1>8. \A g \in Handler \ {h} : pc[g] \in ChirpIdSteps =>
        /\ idChirp'[cid[g]] = idChirp[cid[g]]
        /\ idReply[cid[g]] = Absent => idReply'[cid[g]] = Absent
  BY <1>1, <1>2, <1>3 DEF ChirpInv, FreshIds, ChirpIdSteps, TypeOK, LocalsOK
<1>9. FreshIds'
  BY <1>2, <1>4 DEF ChirpInv, FreshIds, Still, ChirpIdSteps
<1>10. ChirpInFlight(h)'
  BY <1>4 DEF ChirpInFlight, ChirpStoredSteps, ChirpIdSteps, ChirpParentSteps
<1>11. idChirp[cid[h]] # Absent
  BY <1>1, SentinelAssumption DEF Chirp
<1>12. \A p \in Id : idReply'[p] # idReply[p] =>
         /\ idChirp'[p] # Absent
         /\ IsInjective(idReply'[p])
         /\ \A i \in Range(idReply'[p]) :
              idChirp'[i] # Absent /\ idChirp'[i].parent_id = p
  BY <1>2, <1>3, <1>11, EmptyList
<1>13. \A p \in Id : idReply[p] # Absent => idReply'[p] # Absent
  BY <1>1, <1>3
<1> QED
  BY <1>2, <1>4, <1>6, <1>7, <1>8, <1>9, <1>10, <1>12, <1>13, ChirpStep

\* No step of any handler, and no restart, breaks the invariant.
LEMMA ChirpNext ==
  ASSUME NoReissue
  PROVE  TypeOK /\ TypeOK' /\ ChirpInv /\ [Next]_vars => ChirpInv'
<1> SUFFICES ASSUME TypeOK, TypeOK', ChirpInv, [Next]_vars PROVE ChirpInv'
  OBVIOUS
<1>1. CASE UNCHANGED vars
  <2>1. UNCHANGED <<userId, idChirp, idReply, issued, pc, req, cid, vec>>
    BY <1>1 DEF vars, store, local
  <2>2. UNCHANGED <<LatestIsOwnChirp, RepliesAreReplies, ThreadsAcyclic, FreshIds>>
    BY <2>1 DEF LatestIsOwnChirp, RepliesAreReplies, ThreadsAcyclic, ReplyEdge, At, FreshIds
  <2>3. \A g \in Handler : ChirpInFlight(g)' = ChirpInFlight(g)
    BY <2>1 DEF ChirpInFlight, TheChirp, Unlinked, ReplyEdge, At
  <2> QED
    BY <2>2, <2>3 DEF ChirpInv
<1>2. ASSUME NEW h \in Handler, ReceiveRegister(h) PROVE ChirpInv'
  <2>1. UNCHANGED <<userId, idChirp, idReply, issued>>
    BY <1>2 DEF ReceiveRegister, Receive, store
  <2>2. pc'[h] \notin ChirpIdSteps /\ \A g \in Handler \ {h} : Still(g)
    BY <1>2 DEF ReceiveRegister, Receive, Goto, Still, ChirpIdSteps, TypeOK, HandlerTypeOK
  <2> QED
    BY <2>1, <2>2, ChirpQuiet
<1>3. ASSUME NEW h \in Handler, ReceiveChirp(h) PROVE ChirpInv'
  <2>1. UNCHANGED <<userId, idChirp, idReply, issued>>
    BY <1>3 DEF ReceiveChirp, Receive, store
  <2>2. pc'[h] \notin ChirpIdSteps /\ \A g \in Handler \ {h} : Still(g)
    BY <1>3 DEF ReceiveChirp, Receive, Goto, Still, ChirpIdSteps, TypeOK, HandlerTypeOK
  <2> QED
    BY <2>1, <2>2, ChirpQuiet
<1>4. ASSUME NEW h \in Handler, ReceiveFollow(h) PROVE ChirpInv'
  <2>1. UNCHANGED <<userId, idChirp, idReply, issued>>
    BY <1>4 DEF ReceiveFollow, Receive, store
  <2>2. pc'[h] \notin ChirpIdSteps /\ \A g \in Handler \ {h} : Still(g)
    BY <1>4 DEF ReceiveFollow, Receive, Goto, Still, ChirpIdSteps, TypeOK, HandlerTypeOK
  <2> QED
    BY <2>1, <2>2, ChirpQuiet
<1>5. ASSUME NEW h \in Handler, ReceiveRead(h) PROVE ChirpInv'
  <2>1. UNCHANGED <<userId, idChirp, idReply, issued>>
    BY <1>5 DEF ReceiveRead, Receive, store
  <2>2. pc'[h] \notin ChirpIdSteps /\ \A g \in Handler \ {h} : Still(g)
    BY <1>5 DEF ReceiveRead, Receive, Goto, Still, ChirpIdSteps, TypeOK, HandlerTypeOK
  <2> QED
    BY <2>1, <2>2, ChirpQuiet
<1>6. ASSUME NEW h \in Handler, RegisterHas(h) PROVE ChirpInv'
  <2>1. UNCHANGED <<userId, idChirp, idReply, issued>>
    BY <1>6 DEF RegisterHas, HasThen, store
  <2>2. Answer(h, "ALREADY_EXISTS") \/ Continue(h, "RegisterIdHas")
    BY <1>6 DEF RegisterHas, HasThen, store
  <2> QED
    BY <2>1, <2>2, ChirpQuietMove DEF ChirpIdSteps
<1>7. ASSUME NEW h \in Handler, RegisterIdHas(h) PROVE ChirpInv'
  <2>1. UNCHANGED <<userId, idChirp, idReply, issued>>
    BY <1>7 DEF RegisterIdHas, HasThen, store
  <2>2. Answer(h, "ALREADY_EXISTS") \/ Continue(h, "RegisterIdPut")
    BY <1>7 DEF RegisterIdHas, HasThen, store
  <2> QED
    BY <2>1, <2>2, ChirpQuietMove DEF ChirpIdSteps
<1>8. ASSUME NEW h \in Handler, RegisterIdPut(h) PROVE ChirpInv'
  <2>1. UNCHANGED <<idChirp, idReply, issued>>
    BY <1>8 DEF RegisterIdPut
  <2>2. \A u \in User : userId'[u] # userId[u] => userId'[u] \notin Id
    BY <1>8, SentinelAssumption DEF RegisterIdPut, Stored, TypeOK, StoreTypeOK
  <2>3. Answer(h, "UNAVAILABLE") \/ Continue(h, "RegisterFollowedHas")
    BY <1>8 DEF RegisterIdPut
  <2> QED
    BY <2>1, <2>2, <2>3, ChirpQuietMove DEF ChirpIdSteps
<1>9. ASSUME NEW h \in Handler, RegisterFollowedHas(h) PROVE ChirpInv'
  <2>1. UNCHANGED <<userId, idChirp, idReply, issued>>
    BY <1>9 DEF RegisterFollowedHas, HasThen, store
  <2>2. Answer(h, "ALREADY_EXISTS") \/ Continue(h, "RegisterFollowedPut")
    BY <1>9 DEF RegisterFollowedHas, HasThen, store
  <2> QED
    BY <2>1, <2>2, ChirpQuietMove DEF ChirpIdSteps
<1>10. ASSUME NEW h \in Handler, RegisterFollowedPut(h) PROVE ChirpInv'
  <2>1. UNCHANGED <<userId, idChirp, idReply, issued>>
    BY <1>10 DEF RegisterFollowedPut
  <2>2. Answer(h, "OK") \/ Answer(h, "UNAVAILABLE")
    BY <1>10 DEF RegisterFollowedPut
  <2> QED
    BY <2>1, <2>2, ChirpQuietMove DEF ChirpIdSteps
<1>11. ASSUME NEW h \in Handler, FollowHas(h) PROVE ChirpInv'
  <2>1. UNCHANGED <<userId, idChirp, idReply, issued>>
    BY <1>11 DEF FollowHas, HasThen, store
  <2>2. Answer(h, "NOT_FOUND") \/ Continue(h, "FollowHasTo")
    BY <1>11 DEF FollowHas, HasThen, store
  <2> QED
    BY <2>1, <2>2, ChirpQuietMove DEF ChirpIdSteps
<1>12. ASSUME NEW h \in Handler, FollowHasTo(h) PROVE ChirpInv'
  <2>1. UNCHANGED <<userId, idChirp, idReply, issued>>
    BY <1>12 DEF FollowHasTo, HasThen, store
  <2>2. Answer(h, "NOT_FOUND") \/ Continue(h, "FollowGet")
    BY <1>12 DEF FollowHasTo, HasThen, store
  <2> QED
    BY <2>1, <2>2, ChirpQuietMove DEF ChirpIdSteps
<1>13. ASSUME NEW h \in Handler, FollowGet(h) PROVE ChirpInv'
  <2>1. UNCHANGED <<userId, idChirp, idReply, issued>>
    BY <1>13 DEF FollowGet, store
  <2>2. pc'[h] \notin ChirpIdSteps /\ \A g \in Handler \ {h} : Still(g)
    <3>1. CASE Answer(h, "ALREADY_EXISTS")
      BY <3>1, AnswerMoves DEF ChirpIdSteps
    <3>2. CASE ~Answer(h, "ALREADY_EXISTS")
      BY <1>13, <3>2 DEF FollowGet, Goto, Still, ChirpIdSteps, TypeOK, HandlerTypeOK
    <3> QED
      BY <3>1, <3>2
  <2> QED
    BY <2>1, <2>2, ChirpQuiet
<1>14. ASSUME NEW h \in Handler, FollowPut(h) PROVE ChirpInv'
  <2>1. UNCHANGED <<userId, idChirp, idReply, issued>>
    BY <1>14 DEF FollowPut
  <2>2. Answer(h, "OK")
    BY <1>14 DEF FollowPut
  <2> QED
    BY <2>1, <2>2, ChirpQuietMove DEF ChirpIdSteps
<1>15. ASSUME NEW h \in Handler, ReadHas(h) PROVE ChirpInv'
  <2>1. UNCHANGED <<userId, idChirp, idReply, issued>>
    BY <1>15 DEF ReadHas, HasThen, store
  <2>2. Answer(h, "NOT_FOUND") \/ Continue(h, "ReadRoot")
    BY <1>15 DEF ReadHas, HasThen, store
  <2> QED
    BY <2>1, <2>2, ChirpQuietMove DEF ChirpIdSteps
<1>16. ASSUME NEW h \in Handler, ReadRoot(h) PROVE ChirpInv'
  <2>1. UNCHANGED <<userId, idChirp, idReply, issued>>
    BY <1>16 DEF ReadRoot, store
  <2>2. pc'[h] = "ReadLoop" /\ \A g \in Handler \ {h} : Still(g)
    BY <1>16 DEF ReadRoot, Goto, At, Still, TypeOK, HandlerTypeOK
  <2> QED
    BY <2>1, <2>2, ChirpQuiet DEF ChirpIdSteps
<1>17. ASSUME NEW h \in Handler, ReadReplies(h) PROVE ChirpInv'
  <2>1. UNCHANGED <<userId, idChirp, idReply, issued>>
    BY <1>17 DEF ReadReplies, store
  <2>2. pc'[h] = "ReadLoop" /\ \A g \in Handler \ {h} : Still(g)
    BY <1>17 DEF ReadReplies, At, Still, TypeOK, HandlerTypeOK
  <2> QED
    BY <2>1, <2>2, ChirpQuiet DEF ChirpIdSteps
<1>18. ASSUME NEW h \in Handler, ReadChirp(h) PROVE ChirpInv'
  <2>1. UNCHANGED <<userId, idChirp, idReply, issued>>
    BY <1>18 DEF ReadChirp, store
  <2>2. pc'[h] = "ReadLoop" /\ \A g \in Handler \ {h} : Still(g)
    BY <1>18 DEF ReadChirp, At, Still, TypeOK, HandlerTypeOK
  <2> QED
    BY <2>1, <2>2, ChirpQuiet DEF ChirpIdSteps
<1>19. ASSUME NEW h \in Handler, ReadReturn(h) PROVE ChirpInv'
  <2>1. UNCHANGED <<userId, idChirp, idReply, issued>>
    BY <1>19 DEF ReadReturn, store
  <2>2. Answer(h, "OK")
    BY <1>19 DEF ReadReturn, store
  <2> QED
    BY <2>1, <2>2, ChirpQuietMove DEF ChirpIdSteps
<1>20. ASSUME NEW h \in Handler, ChirpHas(h) PROVE ChirpInv'
  BY <1>20, ChirpHasInv
<1>21. ASSUME NEW h \in Handler, ChirpIdHas(h) PROVE ChirpInv'
  BY <1>21, ChirpIdHasInv
<1>22. ASSUME NEW h \in Handler, ChirpIdPut(h) PROVE ChirpInv'
  BY <1>22, ChirpIdPutInv
<1>23. ASSUME NEW h \in Handler, ChirpUserPut(h) PROVE ChirpInv'
  BY <1>23, ChirpUserPutInv
<1>24. ASSUME NEW h \in Handler, ChirpParentHas(h) PROVE ChirpInv'
  BY <1>24, ChirpParentHasInv
<1>25. ASSUME NEW h \in Handler, ChirpParentGet(h) PROVE ChirpInv'
  BY <1>25, ChirpParentGetInv
<1>26. ASSUME NEW h \in Handler, ChirpParentPut(h) PROVE ChirpInv'
  BY <1>26, ChirpParentPutInv
<1>27. ASSUME NEW h \in Handler, ChirpReplyPut(h) PROVE ChirpInv'
  BY <1>27, ChirpReplyPutInv
<1>28. CASE Restart
  <2>1. /\ UNCHANGED <<userId, idChirp, idReply>>
        /\ \A g \in Handler : pc'[g] = "idle"
        /\ SameSecond \/ issued' = issued
    BY <1>28 DEF Restart, store
  <2>2. LatestIsOwnChirp' /\ RepliesAreReplies'
    BY <2>1 DEF ChirpInv, LatestIsOwnChirp, RepliesAreReplies
  <2>3. \A p, c \in Id : ReplyEdge(p, c)' => ReplyEdge(p, c)
    BY <2>1 DEF ReplyEdge, At
  <2>4. ThreadsAcyclic'
    BY <2>3, EdgesKept
  <2>5. FreshIds' /\ \A g \in Handler : ChirpInFlight(g)'
    BY <2>1 DEF ChirpInv, FreshIds, ChirpInFlight, ChirpIdSteps, ChirpStoredSteps, ChirpParentSteps
  <2> QED
    BY <2>2, <2>4, <2>5 DEF ChirpInv
<1> QED
  BY <1>1, <1>2, <1>3, <1>4, <1>5, <1>6, <1>7, <1>8, <1>9, <1>10, <1>11,
     <1>12, <1>13, <1>14, <1>15, <1>16, <1>17, <1>18, <1>19, <1>20, <1>21,
     <1>22, <1>23, <1>24, <1>25, <1>26, <1>27, <1>28
  DEF Next, Arrive, Handle, Register, DoChirp, Follow, Read

\* Whatever requests run side by side and whenever the service dies: a user's
\* latest chirp is the user's, the lists link stored chirps to the parents they
\* name, and no thread has a cycle.  Failing RPCs do not change that, as long
\* as the generator does not hand out the same ids again after a restart.
THEOREM ThreadsCorrect ==
  ASSUME NoReissue
  PROVE  Spec => [](LatestIsOwnChirp /\ RepliesAreReplies /\ ThreadsAcyclic)
<1>1. Init => TypeOK /\ ChirpInv
  BY TypeInit, ChirpInit
<1>2. TypeOK /\ ChirpInv /\ [Next]_vars => (TypeOK /\ ChirpInv)'
  BY TypeNext, ChirpNext
<1>3. ChirpInv => LatestIsOwnChirp /\ RepliesAreReplies /\ ThreadsAcyclic
  BY DEF ChirpInv
<1> QED
  BY <1>1, <1>2, <1>3, PTL DEF Spec

\* What monitor relies on (service.cc:202-203): the latest id of a user names a stored
\* chirp, and one of that user, although the id and the chirp are put by two RPCs.
THEOREM LatestCorrect ==
  ASSUME NoReissue
  PROVE  Spec => []LatestIsOwnChirp
<1>1. Spec => [](LatestIsOwnChirp /\ RepliesAreReplies /\ ThreadsAcyclic)
  BY ThreadsCorrect
<1> QED
  BY <1>1, PTL

\* What read relies on (service.cc:162-168): a list holds stored chirps that name its
\* owner as their parent, each once, although a reply is linked by a put of the list.
THEOREM RepliesCorrect ==
  ASSUME NoReissue
  PROVE  Spec => []RepliesAreReplies
<1>1. Spec => [](LatestIsOwnChirp /\ RepliesAreReplies /\ ThreadsAcyclic)
  BY ThreadsCorrect
<1> QED
  BY <1>1, PTL

-----------------------------------------------------------------------------
(* What a step of one handler leaves to the others.                        *)

\* The locals of a read of g stay as they are.
ReadStill(g) == /\ queue'[g] = queue[g] /\ replies'[g] = replies[g]
                /\ thread'[g] = thread[g]

\* A request is taken up: only its handler notices.
LEMMA ReceiveStill ==
  ASSUME TypeOK, NEW h \in Handler, NEW r, NEW l, Receive(h, r, l)
  PROVE  /\ pc[h] = "idle" /\ pc'[h] = l /\ req'[h] = r /\ ReadStill(h)
         /\ \A g \in Handler \ {h} : Still(g) /\ ReadStill(g)
         /\ UNCHANGED <<userId, userFollowed, idChirp, idReply, issued, faults, crashes>>
BY DEF Receive, At, Goto, store, Still, ReadStill, TypeOK, HandlerTypeOK

\* A handler takes a step: the others do not.
LEMMA HandleStill ==
  ASSUME TypeOK, NEW h \in Handler, Handle(h)
  PROVE  \A g \in Handler \ {h} : Still(g) /\ ReadStill(g)
<1> USE DEF TypeOK, HandlerTypeOK, Still, ReadStill
<1> DEFINE Others == \A g \in Handler \ {h} : Still(g) /\ ReadStill(g)
<1>1. ASSUME NEW code, Answer(h, code) PROVE Others
  BY <1>1 DEF Answer
<1>2. ASSUME NEW l, Continue(h, l) PROVE Others
  BY <1>2 DEF Continue, Goto, local
<1>3. CASE Register(h)
  <2>1. (\E code : Answer(h, code)) \/ (\E l : Continue(h, l))
    BY <1>3, Zenon DEF Register, RegisterHas, RegisterIdHas, RegisterIdPut,
       RegisterFollowedHas, RegisterFollowedPut, HasThen
  <2> QED
    BY <1>1, <1>2, <2>1
<1>4. CASE ChirpHas(h) \/ ChirpParentGet(h)
  BY <1>1, <1>4 DEF ChirpHas, ChirpParentGet, Goto
<1>5. CASE \/ ChirpIdHas(h) \/ ChirpIdPut(h) \/ ChirpUserPut(h) \/ ChirpParentHas(h)
           \/ ChirpParentPut(h) \/ ChirpReplyPut(h)
  <2>1. (\E code : Answer(h, code)) \/ (\E l : Continue(h, l))
    BY <1>5, Zenon DEF ChirpIdHas, ChirpIdPut, ChirpUserPut, ChirpParentHas,
       ChirpParentPut, ChirpReplyPut, HasThen
  <2> QED
    BY <1>1, <1>2, <2>1
<1>6. CASE Follow(h)
  BY <1>1, <1>2, <1>6 DEF Follow, FollowHas, FollowHasTo, FollowGet, FollowPut, HasThen, Goto
<1>7. CASE Read(h)
  BY <1>1, <1>2, <1>7 DEF Read, ReadHas, ReadRoot, ReadReplies, ReadChirp, ReadReturn,
     HasThen, Goto
<1> QED
  BY <1>3, <1>4, <1>5, <1>6, <1>7 DEF Handle, DoChirp

\* Until it answers, a step of a handler that does not serve a read leaves the locals
\* of a read alone.
LEMMA NoReadStill ==
  ASSUME TypeOK, NEW h \in Handler, Register(h) \/ DoChirp(h) \/ Follow(h)
  PROVE  /\ pc[h] \notin ReadSteps /\ pc'[h] \notin ReadSteps
         /\ thread'[h] \in {thread[h], <<>>} /\ replies'[h] \in {replies[h], <<>>}
<1> USE DEF TypeOK, HandlerTypeOK, At, ReadSteps
<1> DEFINE Quiet == /\ pc'[h] \notin ReadSteps
                    /\ thread'[h] \in {thread[h], <<>>} /\ replies'[h] \in {replies[h], <<>>}
<1>1. ASSUME NEW code, Answer(h, code) PROVE Quiet
  BY <1>1 DEF Answer
<1>2. ASSUME NEW l, l \notin ReadSteps, Continue(h, l) PROVE Quiet
  BY <1>2 DEF Continue, Goto, local
<1>3. pc[h] \notin ReadSteps
  BY DEF Register, RegisterHas, RegisterIdHas, RegisterIdPut, RegisterFollowedHas,
     RegisterFollowedPut, DoChirp, ChirpHas, ChirpIdHas, ChirpIdPut, ChirpUserPut,
     ChirpParentHas, ChirpParentGet, ChirpParentPut, ChirpReplyPut,
     Follow, FollowHas, FollowHasTo, FollowGet, FollowPut
<1>4. CASE Register(h)
  BY <1>1, <1>2, <1>4 DEF Register, RegisterHas, RegisterIdHas, RegisterIdPut,
     RegisterFollowedHas, RegisterFollowedPut, HasThen
<1>5. CASE DoChirp(h)
  BY <1>1, <1>2, <1>5 DEF DoChirp, ChirpHas, ChirpIdHas, ChirpIdPut, ChirpUserPut,
     ChirpParentHas, ChirpParentGet, ChirpParentPut, ChirpReplyPut, HasThen, Goto
<1>6. CASE Follow(h)
  BY <1>1, <1>2, <1>6 DEF Follow, FollowHas, FollowHasTo, FollowGet, FollowPut, HasThen, Goto
<1> QED
  BY <1>3, <1>4, <1>5, <1>6

\* A call to the store is only ever counted as failed, never taken back.
LEMMA FaultsGrow ==
  ASSUME TypeOK, NEW h \in Handler, Handle(h), faults' = 0
  PROVE  faults = 0
<1>1. faults \in Nat
  BY BoundAssumption DEF TypeOK
<1>2. UNCHANGED faults \/ Fault
  <2>1. CASE Register(h)
    BY <2>1 DEF Register, RegisterHas, RegisterIdHas, RegisterIdPut, RegisterFollowedHas,
       RegisterFollowedPut, HasThen, HasAnswers, PutAnswers
  <2>2. CASE DoChirp(h)
    BY <2>2 DEF DoChirp, ChirpHas, ChirpIdHas, ChirpIdPut, ChirpUserPut, ChirpParentHas,
       ChirpParentGet, ChirpParentPut, ChirpReplyPut, HasThen, HasAnswers, GetAnswers, PutAnswers
  <2>3. CASE Follow(h)
    BY <2>3 DEF Follow, FollowHas, FollowHasTo, FollowGet, FollowPut, HasThen, HasAnswers,
       GetAnswers, PutAnswers
  <2>4. CASE Read(h)
    BY <2>4 DEF Read, ReadHas, ReadRoot, ReadReplies, ReadChirp, ReadReturn, HasThen,
       HasAnswers, GetAnswers, FetchAnswers
  <2> QED
    BY <2>1, <2>2, <2>3, <2>4 DEF Handle
<1> QED
  BY <1>1, <1>2 DEF Fault

\* Only two steps of chirp write the lists of replies, one the chirps.
LEMMA ThreadsUnchanged ==
  ASSUME NEW h \in Handler, Handle(h)
  PROVE  /\ ~ChirpIdPut(h) => UNCHANGED idChirp
         /\ ~ChirpParentPut(h) /\ ~ChirpReplyPut(h) => UNCHANGED idReply
<1>1. CASE Register(h)
  BY <1>1 DEF Register, RegisterHas, RegisterIdHas, RegisterIdPut, RegisterFollowedHas,
     RegisterFollowedPut, HasThen, store
<1>2. CASE DoChirp(h)
  BY <1>2 DEF DoChirp, ChirpHas, ChirpIdHas, ChirpIdPut, ChirpUserPut, ChirpParentHas,
     ChirpParentGet, ChirpParentPut, ChirpReplyPut, HasThen, store
<1>3. CASE Follow(h)
  BY <1>3 DEF Follow, FollowHas, FollowHasTo, FollowGet, FollowPut, HasThen, store
<1>4. CASE Read(h)
  BY <1>4 DEF Read, ReadHas, ReadRoot, ReadReplies, ReadChirp, ReadReturn, HasThen, store
<1> QED
  BY <1>1, <1>2, <1>3, <1>4 DEF Handle

\* A stored chirp is not written again, and a list that is there stays.
LEMMA ThreadsStay ==
  ASSUME TypeOK, ChirpInv, NEW h \in Handler, Handle(h), NEW i \in Id
  PROVE  /\ idChirp[i] # Absent => idChirp'[i] = idChirp[i]
         /\ idReply[i] # Absent => idReply'[i] # Absent
<1>1. CASE ChirpIdPut(h)
  BY <1>1 DEF ChirpIdPut, At, Stored, ChirpInv, ChirpInFlight, TypeOK, StoreTypeOK
<1>2. CASE ChirpParentPut(h)
  <2>1. vec[h] # Absent
    BY <1>2, SentinelAssumption DEF ChirpParentPut, At, TypeOK, LocalsOK
  <2> QED
    BY <1>2, <2>1 DEF ChirpParentPut, Stored, TypeOK, StoreTypeOK
<1>3. CASE ChirpReplyPut(h)
  <2>1. <<>> # Absent
    <3>1. <<>> \in Seq(Id)
      OBVIOUS
    <3> QED
      BY <3>1, SentinelAssumption
  <2> QED
    BY <1>3, <2>1 DEF ChirpReplyPut, Stored, TypeOK, StoreTypeOK
<1> QED
  BY <1>1, <1>2, <1>3, ThreadsUnchanged

\* A reply gets linked by one step alone: the one that puts it into the list that
\* will be stored.
LEMMA EdgesStay ==
  ASSUME TypeOK, ChirpInv, NEW h \in Handler, Handle(h), ~ChirpParentGet(h),
         NEW p \in Id, NEW c \in Id, ReplyEdge(p, c)'
  PROVE  ReplyEdge(p, c)
<1>1. pc'[h] # "ChirpParentPut"
  <2> USE DEF TypeOK, HandlerTypeOK
  <2>1. ASSUME NEW code, Answer(h, code) PROVE pc'[h] = "idle"
    BY <2>1 DEF Answer
  <2>2. ASSUME NEW l, Continue(h, l) PROVE pc'[h] = l
    BY <2>2 DEF Continue, Goto
  <2>3. CASE DoChirp(h)
    BY <2>1, <2>2, <2>3 DEF DoChirp, ChirpHas, ChirpIdHas, ChirpIdPut, ChirpUserPut,
       ChirpParentHas, ChirpParentPut, ChirpReplyPut, HasThen, Goto
  <2>4. CASE Register(h)
    BY <2>1, <2>2, <2>4 DEF Register, RegisterHas, RegisterIdHas, RegisterIdPut,
       RegisterFollowedHas, RegisterFollowedPut, HasThen
  <2>5. CASE Follow(h)
    BY <2>1, <2>2, <2>5 DEF Follow, FollowHas, FollowHasTo, FollowGet, FollowPut, HasThen, Goto
  <2>6. CASE Read(h)
    BY <2>1, <2>2, <2>6 DEF Read, ReadHas, ReadRoot, ReadReplies, ReadChirp, ReadReturn,
       HasThen, Goto, At
  <2> QED
    BY <2>3, <2>4, <2>5, <2>6 DEF Handle
<1>2. \A g \in Handler \ {h} : Still(g)
  BY HandleStill
<1>3. CASE \E g \in Handler :
             pc'[g] = "ChirpParentPut" /\ req'[g].parent_id = p /\ c \in Range(vec'[g])
  BY <1>1, <1>2, <1>3 DEF ReplyEdge, At, Still
<1>4. CASE idReply'[p] # Absent /\ c \in Range(idReply'[p])
  <2>1. CASE ChirpParentPut(h)
    BY <1>4, <2>1 DEF ChirpParentPut, Stored, ReplyEdge, TypeOK, StoreTypeOK
  <2>2. CASE ChirpReplyPut(h)
    BY <1>4, <2>2, EmptyList DEF ChirpReplyPut, Stored, ReplyEdge, TypeOK, StoreTypeOK
  <2> QED
    BY <1>4, <2>1, <2>2, ThreadsUnchanged DEF ReplyEdge
<1> QED
  BY <1>3, <1>4 DEF ReplyEdge, At

-----------------------------------------------------------------------------
(* The order of a thread.                                                   *)

\* No chirp is in s twice (a blank chirp may be).
Distinct(s) == \A m, n \in DOMAIN s : s[m] = s[n] /\ s[m] \in Id => m = n

\* What a read has yet to answer: what is queued and what will be.
Pending(h) == Range(queue[h]) \cup Range(replies[h])

\* A read has found its chirp.  In its loop it holds no chirp twice, in what it has
\* answered or has yet to answer; and all of that but the first replies to a chirp
\* answered before.
ReadInFlight(h) ==
  /\ pc[h] \in {"ReadRoot", "ReadLoop"} => idChirp[req[h].chirp_id] # Absent
  /\ pc[h] # "ReadLoop" => thread[h] = <<>> /\ replies[h] = <<>>
  /\ pc[h] = "ReadLoop" =>
       /\ faults = 0 => Range(thread[h]) \cup Range(queue[h]) \subseteq Id
       /\ Distinct(thread[h]) /\ Distinct(queue[h]) /\ Distinct(replies[h])
       /\ Range(thread[h]) \cap Pending(h) \cap Id = {}
       /\ Range(queue[h]) \cap Range(replies[h]) = {}
       /\ thread[h] = <<>> =>
            replies[h] = <<>> /\ queue[h] \in {<<req[h].chirp_id>>, <<NoId>>}
       /\ thread[h] # <<>> =>
            /\ thread[h][1] \in {req[h].chirp_id, NoId}
            /\ \A x \in Pending(h) \cap Id :
                 idChirp[x] # Absent /\ idChirp[x].parent_id \in Range(thread[h])
       /\ \A n \in DOMAIN thread[h] : n > 1 /\ thread[h][n] \in Id =>
            /\ idChirp[thread[h][n]] # Absent
            /\ \E m \in 1 .. (n - 1) : thread[h][m] = idChirp[thread[h][n]].parent_id

\* R puts every chirp before the replies to it that are, or once were, linked: before
\* a chirp has a list nothing comes after it.
OrdersReplies(R) ==
  /\ \A a, b, c \in Id : <<a, b>> \in R /\ <<b, c>> \in R => <<a, c>> \in R
  /\ \A a \in Id : <<a, a>> \notin R
  /\ \A p, c \in Id : ReplyEdge(p, c) => <<p, c>> \in R
  /\ \A c \in Id : idReply[c] = Absent => \A x \in Id : <<c, x>> \notin R

\* The chirp that h was asked for comes first of all that h reads.
OrdersRead(R, h) ==
  pc[h] = "ReadLoop" =>
    \A x \in (Range(thread[h]) \cup Pending(h)) \cap Id :
      x = req[h].chirp_id \/ <<req[h].chirp_id, x>> \in R

\* There is such an order of chirps, although lists shrink when a put of another
\* handler is overwritten, and links are gone when the service dies.
Ordered ==
  \E R \in SUBSET (Id \X Id) : OrdersReplies(R) /\ \A h \in Handler : OrdersRead(R, h)

TreeInv == Ordered /\ \A h \in Handler : ReadInFlight(h)

-----------------------------------------------------------------------------
(* Queues.                                                                  *)

\* The first element of a sequence, and the others.
LEMMA PopFront ==
  ASSUME NEW S, NEW s \in Seq(S), s # <<>>
  PROVE  /\ Head(s) \in S /\ Tail(s) \in Seq(S)
         /\ Range(s) = {Head(s)} \cup Range(Tail(s))
         /\ Distinct(s) => /\ Distinct(Tail(s))
                           /\ Head(s) \in Id => Head(s) \notin Range(Tail(s))
<1>1. /\ Head(s) \in S /\ Tail(s) \in Seq(S) /\ Head(s) = s[1]
      /\ Len(s) \in Nat \ {0} /\ Len(Tail(s)) = Len(s) - 1
      /\ DOMAIN s = 1 .. Len(s) /\ DOMAIN Tail(s) = 1 .. (Len(s) - 1)
      /\ \A n \in 1 .. (Len(s) - 1) : Tail(s)[n] = s[n + 1]
  OBVIOUS
<1>2. \A n \in 1 .. Len(s) : n = 1 \/ (n - 1 \in 1 .. (Len(s) - 1) /\ n = (n - 1) + 1)
  BY <1>1
<1>3. \A n \in 1 .. Len(s) : s[n] = s[1] \/ \E m \in 1 .. (Len(s) - 1) : Tail(s)[m] = s[n]
  BY <1>1, <1>2
<1>4. 1 \in 1 .. Len(s) /\ \A n \in 1 .. (Len(s) - 1) : n + 1 \in 1 .. Len(s) /\ n + 1 # 1
  BY <1>1
<1>5. Range(s) = {Head(s)} \cup Range(Tail(s))
  <2>1. ASSUME NEW x \in Range(s) PROVE x \in {Head(s)} \cup Range(Tail(s))
    <3>1. PICK n \in 1 .. Len(s) : x = s[n]
      BY <1>1 DEF Range
    <3>2. CASE s[n] = s[1]
      BY <1>1, <3>1, <3>2
    <3>3. ASSUME NEW m \in 1 .. (Len(s) - 1), Tail(s)[m] = s[n] PROVE x \in Range(Tail(s))
      BY <1>1, <3>1, <3>3 DEF Range
    <3> QED
      BY <1>3, <3>2, <3>3
  <2>2. ASSUME NEW x \in Range(Tail(s)) PROVE x \in Range(s)
    <3>1. PICK n \in 1 .. (Len(s) - 1) : x = Tail(s)[n]
      BY <1>1 DEF Range
    <3> QED
      BY <1>1, <1>4, <3>1 DEF Range
  <2>3. Head(s) \in Range(s)
    BY <1>1, <1>4 DEF Range
  <2> QED
    BY <2>1, <2>2, <2>3
<1>6. ASSUME Distinct(s) PROVE Distinct(Tail(s))
  <2> SUFFICES ASSUME NEW m \in 1 .. (Len(s) - 1), NEW n \in 1 .. (Len(s) - 1),
                      s[m + 1] = s[n + 1], s[m + 1] \in Id
               PROVE  m = n
    BY <1>1 DEF Distinct
  <2>1. m + 1 = n + 1
    BY <1>1, <1>4, <1>6 DEF Distinct
  <2> QED
    BY <2>1
<1>7. ASSUME Distinct(s), Head(s) \in Id PROVE Head(s) \notin Range(Tail(s))
  <2>1. \A n \in 1 .. (Len(s) - 1) : s[n + 1] # s[1]
    BY <1>1, <1>4, <1>7 DEF Distinct
  <2> QED
    BY <1>1, <2>1 DEF Range
<1> QED
  BY <1>1, <1>5, <1>6, <1>7

\* A sequence with one element more.
LEMMA PushBack ==
  ASSUME NEW S, NEW s \in Seq(S), NEW e \in S
  PROVE  /\ Append(s, e) \in Seq(S) /\ Append(s, e) # <<>>
         /\ DOMAIN Append(s, e) = 1 .. (Len(s) + 1) /\ Len(s) \in Nat
         /\ DOMAIN s = 1 .. Len(s)
         /\ \A n \in 1 .. Len(s) : Append(s, e)[n] = s[n]
         /\ Append(s, e)[Len(s) + 1] = e
         /\ Range(Append(s, e)) = Range(s) \cup {e}
         /\ Distinct(s) /\ (e \in Id => e \notin Range(s)) => Distinct(Append(s, e))
<1>1. /\ Append(s, e) \in Seq(S) /\ Append(s, e) # <<>>
      /\ DOMAIN Append(s, e) = 1 .. (Len(s) + 1) /\ Len(s) \in Nat
      /\ \A n \in 1 .. Len(s) : Append(s, e)[n] = s[n]
      /\ Append(s, e)[Len(s) + 1] = e
      /\ DOMAIN s = 1 .. Len(s)
  OBVIOUS
<1>2. /\ \A n \in 1 .. (Len(s) + 1) : n \in 1 .. Len(s) \/ n = Len(s) + 1
      /\ \A n \in 1 .. Len(s) : n \in 1 .. (Len(s) + 1)
      /\ Len(s) + 1 \in 1 .. (Len(s) + 1)
  BY <1>1
<1>3. Range(Append(s, e)) = Range(s) \cup {e}
  BY <1>1, <1>2 DEF Range
<1>4. ASSUME Distinct(s), e \in Id => e \notin Range(s) PROVE Distinct(Append(s, e))
  BY <1>1, <1>2, <1>4 DEF Distinct, Range
<1> QED
  BY <1>1, <1>3, <1>4

-----------------------------------------------------------------------------
(* Steps of a thread.                                                       *)

\* A read that takes no step is not disturbed.
LEMMA ReadKept ==
  ASSUME TypeOK, NEW g \in Handler, ReadInFlight(g), Still(g), ReadStill(g),
         \A i \in Id : idChirp[i] # Absent => idChirp'[i] = idChirp[i],
         faults' = 0 => faults = 0
  PROVE  ReadInFlight(g)'
<1>1. pc[g] \in {"ReadRoot", "ReadLoop"} => req[g].chirp_id \in Id
  BY DEF TypeOK, LocalsOK, ReadSteps, ReadRequest
<1>2. Pending(g)' = Pending(g)
  BY DEF Pending, ReadStill
<1> QED
  BY <1>1, <1>2 DEF ReadInFlight, Still, ReadStill

LEMMA OrderKept ==
  ASSUME NEW R, OrdersReplies(R),
         \A p \in Id : idReply[p] # Absent => idReply'[p] # Absent,
         \A p, c \in Id : ReplyEdge(p, c)' => ReplyEdge(p, c)
  PROVE  OrdersReplies(R)'
BY DEF OrdersReplies

LEMMA ReadOrderKept ==
  ASSUME NEW R, NEW Q, R \subseteq Q, NEW g \in Handler, OrdersRead(R, g), Still(g), ReadStill(g)
  PROVE  OrdersRead(Q, g)'
BY DEF OrdersRead, Pending, Still, ReadStill

\* The reply that is linked gets its place after its parent and all that is before it.
LEMMA OrderGrows ==
  ASSUME TypeOK, TypeOK', ChirpInv, NEW h \in Handler, ChirpParentGet(h),
         NEW R \in SUBSET (Id \X Id), OrdersReplies(R)
  PROVE  \E Q \in SUBSET (Id \X Id) : R \subseteq Q /\ OrdersReplies(Q)'
<1> DEFINE parent == req[h].parent_id
           c == cid[h]
<1>1. /\ c \in Id /\ parent \in Id /\ parent # c
      /\ idReply[c] = Absent /\ idReply[parent] # Absent /\ UNCHANGED idReply
      /\ \A p, x \in Id : ReplyEdge(p, x)' => ReplyEdge(p, x) \/ (p = parent /\ x = c)
  BY ParentGetEdges
<1> HIDE DEF parent, c
<1>2. PICK Q \in SUBSET (Id \X Id) :
        \A a, b \in Id : <<a, b>> \in Q <=> \/ <<a, b>> \in R
                                            \/ b = c /\ (a = parent \/ <<a, parent>> \in R)
  <2> DEFINE new == {e \in Id \X Id : e[2] = c /\ (e[1] = parent \/ <<e[1], parent>> \in R)}
  <2>1. R \cup new \in SUBSET (Id \X Id)
    OBVIOUS
  <2>2. \A a, b \in Id : <<a, b>> \in R \cup new <=>
          <<a, b>> \in R \/ (b = c /\ (a = parent \/ <<a, parent>> \in R))
    OBVIOUS
  <2> QED
    BY <2>1, <2>2
<1>3. \A x \in Id : <<c, x>> \notin R
  BY <1>1 DEF OrdersReplies
<1>4. \A a, b, d \in Id : <<a, b>> \in Q /\ <<b, d>> \in Q => <<a, d>> \in Q
  BY <1>1, <1>2, <1>3 DEF OrdersReplies
<1>5. \A a \in Id : <<a, a>> \notin Q
  BY <1>1, <1>2, <1>3 DEF OrdersReplies
<1>6. \A p, x \in Id : ReplyEdge(p, x)' => <<p, x>> \in Q
  BY <1>1, <1>2 DEF OrdersReplies
<1>7. \A a \in Id : idReply'[a] = Absent => \A x \in Id : <<a, x>> \notin Q
  BY <1>1, <1>2 DEF OrdersReplies
<1>8. OrdersReplies(Q)'
  BY <1>4, <1>5, <1>6, <1>7 DEF OrdersReplies
<1>9. R \subseteq Q
  <2> SUFFICES ASSUME NEW e \in R PROVE e \in Q
    OBVIOUS
  <2>1. PICK a \in Id, b \in Id : e = <<a, b>>
    OBVIOUS
  <2> QED
    BY <1>2, <2>1
<1> QED
  BY <1>8, <1>9

\* A step of a read: what it holds stays a piece of a thread.
LEMMA ReadRepliesStep ==
  ASSUME TypeOK, TypeOK', ChirpInv, NEW h \in Handler, ReadInFlight(h), ReadReplies(h),
         NEW R, OrdersReplies(R), OrdersRead(R, h)
  PROVE  ReadInFlight(h)' /\ OrdersRead(R, h)'
<1> DEFINE root == req[h].chirp_id
           curr == Head(queue[h])
           rest == Tail(queue[h])
           t == thread[h]
           list == replies'[h]
           B == Id \cup {NoId}
<1>1. /\ pc[h] = "ReadLoop" /\ replies[h] = <<>> /\ queue[h] # <<>>
      /\ pc'[h] = "ReadLoop" /\ req'[h] = req[h]
      /\ thread'[h] = Append(t, curr) /\ queue'[h] = rest
      /\ list \in {<<>>, Deparsed(ReplyKey(curr))}
      /\ UNCHANGED <<idChirp, idReply>>
      /\ faults' = 0 => faults = 0
  <2>1. faults' = 0 => faults = 0
    BY FaultsGrow DEF Handle, Read
  <2> QED
    BY <2>1 DEF ReadReplies, At, store, TypeOK, HandlerTypeOK
<1>2. t \in Seq(B) /\ queue[h] \in Seq(B)
  BY DEF TypeOK, HandlerTypeOK
<1>3. root \in Id
  BY <1>1 DEF TypeOK, LocalsOK, ReadSteps, ReadRequest
<1>4. /\ curr \in B /\ rest \in Seq(B)
      /\ Range(queue[h]) = {curr} \cup Range(rest)
      /\ Distinct(queue[h]) => /\ Distinct(rest)
                               /\ curr \in Id => curr \notin Range(rest)
  BY <1>1, <1>2, PopFront
<1>5. /\ Append(t, curr) # <<>>
      /\ DOMAIN Append(t, curr) = 1 .. (Len(t) + 1) /\ Len(t) \in Nat
      /\ DOMAIN t = 1 .. Len(t)
      /\ \A n \in 1 .. Len(t) : Append(t, curr)[n] = t[n]
      /\ Append(t, curr)[Len(t) + 1] = curr
      /\ Range(Append(t, curr)) = Range(t) \cup {curr}
      /\ Distinct(t) /\ (curr \in Id => curr \notin Range(t)) => Distinct(Append(t, curr))
  BY <1>2, <1>4, PushBack
<1>6. /\ faults = 0 => Range(t) \cup Range(queue[h]) \subseteq Id
      /\ Distinct(t) /\ Distinct(queue[h])
      /\ \A x \in Id : x \in Range(t) => x \notin Range(queue[h])
      /\ t = <<>> => queue[h] \in {<<root>>, <<NoId>>}
      /\ t # <<>> => /\ t[1] \in {root, NoId}
                     /\ \A x \in Range(queue[h]) \cap Id :
                          idChirp[x] # Absent /\ idChirp[x].parent_id \in Range(t)
      /\ \A n \in DOMAIN t : n > 1 /\ t[n] \in Id =>
           /\ idChirp[t[n]] # Absent
           /\ \E m \in 1 .. (n - 1) : t[m] = idChirp[t[n]].parent_id
      /\ idChirp[root] # Absent
  BY <1>1 DEF ReadInFlight, Pending
<1>7. /\ t = <<>> => Range(rest) = {} /\ curr \in {root, NoId} /\ Len(t) = 0
      /\ t # <<>> => 1 \in 1 .. Len(t)
  <2>1. ASSUME NEW x, queue[h] = <<x>> PROVE rest = <<>> /\ curr = x
    BY <2>1
  <2>2. t = <<>> => Len(t) = 0
    OBVIOUS
  <2>3. t # <<>> => 1 \in 1 .. Len(t)
    BY <1>2
  <2> QED
    BY <1>6, <2>1, <2>2, <2>3, EmptyList
<1>8. \A x \in (Range(t) \cup Range(queue[h])) \cap Id : x = root \/ <<root, x>> \in R
  BY <1>1 DEF OrdersRead, Pending
<1>9. list = <<>> \/ (curr \in Id /\ idReply[curr] # Absent /\ list = idReply[curr])
  BY <1>1 DEF Deparsed, ReplyKey
<1>10. /\ IsInjective(list) /\ Range(list) \subseteq Id
       /\ \A x \in Range(list) : /\ curr \in Id /\ ReplyEdge(curr, x)
                                 /\ idChirp[x] # Absent /\ idChirp[x].parent_id = curr
  <2>1. list \in Seq(Id)
    BY DEF TypeOK, HandlerTypeOK
  <2>2. Range(list) \subseteq Id
    BY <2>1 DEF Range
  <2> QED
    BY <1>9, <2>2, EmptyList DEF ChirpInv, RepliesAreReplies, ReplyEdge
<1> HIDE DEF root, curr, rest, t, list, B
<1>11. \A x \in Range(list) : x # root /\ x # curr /\ <<root, x>> \in R
  <2> SUFFICES ASSUME NEW x \in Range(list) PROVE x # root /\ x # curr /\ <<root, x>> \in R
    OBVIOUS
  <2>1. x \in Id /\ curr \in Id /\ <<curr, x>> \in R
    BY <1>10 DEF OrdersReplies
  <2>2. curr = root \/ <<root, curr>> \in R
    BY <1>4, <1>8, <2>1
  <2>3. <<root, x>> \in R
    BY <1>3, <2>1, <2>2 DEF OrdersReplies
  <2> QED
    BY <2>1, <2>3 DEF OrdersReplies
<1>12. Distinct(Append(t, curr)) /\ Distinct(rest) /\ Distinct(list)
  <2>1. Distinct(list)
    BY <1>10 DEF Distinct, IsInjective
  <2> QED
    BY <1>4, <1>5, <1>6, <2>1
<1>13. Range(list) \cap (Range(Append(t, curr)) \cup Range(rest)) = {}
  <2> SUFFICES ASSUME NEW x \in Range(list)
               PROVE  x \notin Range(t) /\ x # curr /\ x \notin Range(rest)
    BY <1>5
  <2>1. /\ x \in Id /\ curr \in Id /\ idChirp[x].parent_id = curr
        /\ x # root /\ x # curr
    BY <1>10, <1>11
  <2>2. curr \notin Range(t)
    BY <1>4, <1>6, <2>1
  <2>3. x \notin Range(t)
    <3> SUFFICES ASSUME NEW n \in DOMAIN t, t[n] = x PROVE FALSE
      BY DEF Range
    <3>1. CASE n = 1
      BY <1>5, <1>6, <2>1, <3>1, SentinelAssumption
    <3>2. CASE n > 1
      <4>1. PICK m \in 1 .. (n - 1) : t[m] = curr
        BY <1>6, <2>1, <3>2
      <4>2. m \in DOMAIN t
        BY <1>5
      <4> QED
        BY <2>2, <4>1, <4>2 DEF Range
    <3> QED
      BY <1>5, <3>1, <3>2
  <2>4. x \notin Range(rest)
    <3>1. CASE t = <<>>
      BY <1>7, <3>1
    <3>2. CASE t # <<>>
      BY <1>4, <1>6, <2>1, <2>2, <3>2
    <3> QED
      BY <3>1, <3>2
  <2> QED
    BY <2>1, <2>3, <2>4
<1>14. ReadInFlight(h)'
  <2>1. faults' = 0 => Range(Append(t, curr)) \cup Range(rest) \subseteq Id
    BY <1>1, <1>4, <1>5, <1>6
  <2>2. \A x \in Id : x \in Range(Append(t, curr)) => x \notin Range(rest)
    BY <1>4, <1>5, <1>6
  <2>3. Append(t, curr)[1] \in {root, NoId}
    BY <1>5, <1>6, <1>7
  <2>4. \A x \in (Range(rest) \cup Range(list)) \cap Id :
          idChirp[x] # Absent /\ idChirp[x].parent_id \in Range(Append(t, curr))
    BY <1>4, <1>5, <1>6, <1>10, <1>7
  <2>5. \A n \in 1 .. (Len(t) + 1) : n > 1 /\ Append(t, curr)[n] \in Id =>
          /\ idChirp[Append(t, curr)[n]] # Absent
          /\ \E m \in 1 .. (n - 1) :
               Append(t, curr)[m] = idChirp[Append(t, curr)[n]].parent_id
    <3> SUFFICES ASSUME NEW n \in 1 .. (Len(t) + 1), n > 1, Append(t, curr)[n] \in Id
                 PROVE  /\ idChirp[Append(t, curr)[n]] # Absent
                        /\ \E m \in 1 .. (n - 1) :
                             Append(t, curr)[m] = idChirp[Append(t, curr)[n]].parent_id
      OBVIOUS
    <3>1. CASE n \in 1 .. Len(t)
      BY <1>5, <1>6, <3>1
    <3>2. CASE n = Len(t) + 1
      <4>1. t # <<>> /\ Append(t, curr)[n] = curr /\ curr \in Id
        BY <1>5, <3>2
      <4>2. idChirp[curr] # Absent /\ idChirp[curr].parent_id \in Range(t)
        BY <1>4, <1>6, <4>1
      <4>3. PICK m \in 1 .. Len(t) : t[m] = idChirp[curr].parent_id
        BY <1>5, <4>2 DEF Range
      <4> QED
        BY <1>5, <3>2, <4>1, <4>2, <4>3
    <3> QED
      BY <1>5, <3>1, <3>2
  <2> QED
    BY <1>1, <1>5, <1>6, <1>12, <1>13, <2>1, <2>2, <2>3, <2>4, <2>5
       DEF ReadInFlight, Pending, root, list
<1>15. OrdersRead(R, h)'
  <2>1. \A x \in (Range(Append(t, curr)) \cup Range(rest) \cup Range(list)) \cap Id :
          x = root \/ <<root, x>> \in R
    BY <1>4, <1>5, <1>8, <1>11
  <2> QED
    BY <1>1, <2>1 DEF OrdersRead, Pending, root, list
<1> QED
  BY <1>14, <1>15

\* The next reply of the chirp in hand is queued.
LEMMA ReadChirpStep ==
  ASSUME TypeOK, TypeOK', NEW h \in Handler, ReadInFlight(h), ReadChirp(h),
         NEW R, OrdersRead(R, h)
  PROVE  ReadInFlight(h)' /\ OrdersRead(R, h)'
<1> DEFINE next == Head(replies[h])
           rest == Tail(replies[h])
           q == queue[h]
           B == Id \cup {NoId}
<1>1. PICK c \in {next, NoId} : FetchAnswers(next, c) /\ queue' = [queue EXCEPT ![h] = Append(q, c)]
  BY DEF ReadChirp
<1>2. /\ pc[h] = "ReadLoop" /\ pc'[h] = "ReadLoop" /\ req'[h] = req[h]
      /\ replies[h] # <<>> /\ thread'[h] = thread[h]
      /\ queue'[h] = Append(q, c) /\ replies'[h] = rest
      /\ UNCHANGED <<idChirp, idReply>>
      /\ faults' = 0 => faults = 0
  <2>1. faults' = 0 => faults = 0
    BY FaultsGrow DEF Handle, Read
  <2> QED
    BY <1>1, <2>1 DEF ReadChirp, At, store, TypeOK, HandlerTypeOK
<1>3. replies[h] \in Seq(Id) /\ q \in Seq(B)
  BY DEF TypeOK, HandlerTypeOK
<1>4. /\ next \in Id /\ rest \in Seq(Id)
      /\ Range(replies[h]) = {next} \cup Range(rest)
      /\ Distinct(replies[h]) => Distinct(rest) /\ next \notin Range(rest)
  BY <1>2, <1>3, PopFront
<1>5. c \in B /\ (c \in Id => c = next)
  BY <1>4, SentinelAssumption
<1>6. /\ Append(q, c) # <<>>
      /\ Range(Append(q, c)) = Range(q) \cup {c}
      /\ Distinct(q) /\ (c \in Id => c \notin Range(q)) => Distinct(Append(q, c))
  BY <1>3, <1>5, PushBack
<1>7. /\ idChirp[req[h].chirp_id] # Absent
      /\ faults = 0 => Range(thread[h]) \cup Range(q) \subseteq Id
      /\ Distinct(thread[h]) /\ Distinct(q) /\ Distinct(replies[h])
      /\ \A x \in Id : x \in Range(thread[h]) =>
           x \notin Range(q) /\ x \notin Range(replies[h])
      /\ \A x : x \in Range(q) => x \notin Range(replies[h])
      /\ thread[h] # <<>> /\ thread[h][1] \in {req[h].chirp_id, NoId}
      /\ \A x \in Id : x \in Range(q) \/ x \in Range(replies[h]) =>
           idChirp[x] # Absent /\ idChirp[x].parent_id \in Range(thread[h])
      /\ \A n \in DOMAIN thread[h] : n > 1 /\ thread[h][n] \in Id =>
           /\ idChirp[thread[h][n]] # Absent
           /\ \E m \in 1 .. (n - 1) : thread[h][m] = idChirp[thread[h][n]].parent_id
  BY <1>2 DEF ReadInFlight, Pending
<1>8. faults' = 0 => c \in Id
  <2>1. faults \in Nat
    BY BoundAssumption DEF TypeOK
  <2>2. idChirp[next] # Absent
    BY <1>4, <1>7
  <2> QED
    BY <1>1, <1>4, <2>1, <2>2 DEF FetchAnswers, Fault
<1> HIDE DEF next, rest, q, B
<1>9. ReadInFlight(h)'
  <2>1. faults' = 0 => Range(thread[h]) \cup Range(Append(q, c)) \subseteq Id
    BY <1>2, <1>6, <1>7, <1>8
  <2>2. Distinct(Append(q, c)) /\ Distinct(rest)
    BY <1>4, <1>5, <1>6, <1>7
  <2>3. Range(thread[h]) \cap (Range(Append(q, c)) \cup Range(rest)) \cap Id = {}
    BY <1>4, <1>5, <1>6, <1>7
  <2>4. NoId \notin Range(replies[h])
    BY <1>3, SentinelAssumption DEF Range
  <2>5. Range(Append(q, c)) \cap Range(rest) = {}
    BY <1>4, <1>5, <1>6, <1>7, <2>4
  <2>6. \A x \in (Range(Append(q, c)) \cup Range(rest)) \cap Id :
          idChirp[x] # Absent /\ idChirp[x].parent_id \in Range(thread[h])
    BY <1>4, <1>5, <1>6, <1>7
  <2> QED
    BY <1>2, <1>7, <2>1, <2>2, <2>3, <2>5, <2>6 DEF ReadInFlight, Pending
<1>10. OrdersRead(R, h)'
  <2>1. Pending(h)' \cap Id \subseteq Pending(h)
    BY <1>2, <1>4, <1>5, <1>6 DEF Pending, q
  <2> QED
    BY <1>2, <2>1 DEF OrdersRead
<1> QED
  BY <1>9, <1>10

\* The first chirp is fetched.
LEMMA ReadRootStep ==
  ASSUME TypeOK, TypeOK', NEW h \in Handler, ReadInFlight(h), ReadRoot(h), NEW R
  PROVE  ReadInFlight(h)' /\ OrdersRead(R, h)'
<1>1. PICK c \in {req[h].chirp_id, NoId} :
        FetchAnswers(req[h].chirp_id, c) /\ queue' = [queue EXCEPT ![h] = <<c>>]
  BY DEF ReadRoot
<1>2. /\ pc[h] = "ReadRoot" /\ pc'[h] = "ReadLoop" /\ req'[h] = req[h]
      /\ thread'[h] = <<>> /\ replies'[h] = <<>> /\ queue'[h] = <<c>>
      /\ idChirp[req[h].chirp_id] # Absent /\ UNCHANGED idChirp
  BY <1>1 DEF ReadRoot, At, Goto, store, ReadInFlight, TypeOK, HandlerTypeOK
<1>3. req[h].chirp_id \in Id
  BY <1>2 DEF TypeOK, LocalsOK, ReadSteps, ReadRequest
<1>4. faults' = 0 => c \in Id
  <2>1. faults \in Nat
    BY BoundAssumption DEF TypeOK
  <2> QED
    BY <1>1, <1>2, <1>3, <2>1 DEF FetchAnswers, Fault
<1>5. /\ DOMAIN <<c>> = {1} /\ <<c>>[1] = c
      /\ Range(<<c>>) = {c} /\ Range(<<>>) = {} /\ DOMAIN <<>> = {}
  <2>1. DOMAIN <<c>> = {1} /\ <<c>>[1] = c /\ DOMAIN <<>> = {}
    OBVIOUS
  <2> QED
    BY <2>1, EmptyList DEF Range
<1>6. Distinct(<<>>) /\ Distinct(<<c>>)
  BY <1>5 DEF Distinct
<1>7. ReadInFlight(h)'
  BY <1>1, <1>2, <1>4, <1>5, <1>6 DEF ReadInFlight, Pending
<1>8. OrdersRead(R, h)'
  BY <1>1, <1>2, <1>5, SentinelAssumption DEF OrdersRead, Pending
<1> QED
  BY <1>7, <1>8

\* A handler that answers, or has not come to its read, holds nothing of a thread.
LEMMA NoReadStep ==
  ASSUME TypeOK, NEW h \in Handler, pc'[h] # "ReadLoop",
         pc'[h] = "ReadRoot" => idChirp'[req'[h].chirp_id] # Absent,
         thread'[h] = <<>> /\ replies'[h] = <<>>, NEW R
  PROVE  ReadInFlight(h)' /\ OrdersRead(R, h)'
BY DEF ReadInFlight, OrdersRead

\* Whatever step h takes.
LEMMA ReadStepInv ==
  ASSUME TypeOK, TypeOK', ChirpInv, NEW h \in Handler, Handle(h), ReadInFlight(h),
         NEW R, OrdersReplies(R), OrdersRead(R, h)
  PROVE  ReadInFlight(h)' /\ OrdersRead(R, h)'
<1>1. CASE Register(h) \/ DoChirp(h) \/ Follow(h)
  <2>1. /\ pc[h] \notin ReadSteps /\ pc'[h] \notin ReadSteps
        /\ thread'[h] \in {thread[h], <<>>} /\ replies'[h] \in {replies[h], <<>>}
    BY <1>1, NoReadStill
  <2>2. thread[h] = <<>> /\ replies[h] = <<>>
    BY <2>1 DEF ReadInFlight, ReadSteps
  <2> QED
    BY <2>1, <2>2, NoReadStep DEF ReadSteps
<1>2. ASSUME NEW code, Answer(h, code) PROVE ReadInFlight(h)' /\ OrdersRead(R, h)'
  <2>1. pc'[h] = "idle" /\ thread'[h] = <<>> /\ replies'[h] = <<>>
    BY <1>2 DEF Answer, TypeOK, HandlerTypeOK
  <2> QED
    BY <2>1, NoReadStep
<1>3. CASE ReadHas(h)
  <2>1. CASE idChirp[req[h].chirp_id] # Absent /\ Continue(h, "ReadRoot") /\ UNCHANGED store
    <3>1. /\ pc'[h] = "ReadRoot" /\ req'[h] = req[h] /\ UNCHANGED idChirp
          /\ thread'[h] = <<>> /\ replies'[h] = <<>>
      BY <1>3, <2>1 DEF ReadHas, At, Continue, Goto, local, store, ReadInFlight, TypeOK, HandlerTypeOK
    <3> QED
      BY <2>1, <3>1, NoReadStep
  <2> QED
    BY <1>2, <1>3, <2>1 DEF ReadHas, HasThen, HasAnswers
<1> QED
  BY <1>1, <1>2, <1>3, ReadRootStep, ReadRepliesStep, ReadChirpStep
     DEF Handle, Read, ReadReturn

\* A step of a handler.
LEMMA TreeHandle ==
  ASSUME TypeOK, TypeOK', ChirpInv, TreeInv, NEW h \in Handler, Handle(h)
  PROVE  TreeInv'
<1>1. PICK R \in SUBSET (Id \X Id) : OrdersReplies(R) /\ \A g \in Handler : OrdersRead(R, g)
  BY DEF TreeInv, Ordered
<1>2. \A g \in Handler \ {h} : Still(g) /\ ReadStill(g)
  BY HandleStill
<1>3. \A i \in Id : /\ idChirp[i] # Absent => idChirp'[i] = idChirp[i]
                    /\ idReply[i] # Absent => idReply'[i] # Absent
  BY ThreadsStay
<1>4. faults' = 0 => faults = 0
  BY FaultsGrow
<1>5. ReadInFlight(h)' /\ OrdersRead(R, h)'
  BY <1>1, ReadStepInv DEF TreeInv
<1>6. \A g \in Handler : ReadInFlight(g)'
  BY <1>2, <1>3, <1>4, <1>5, ReadKept DEF TreeInv
<1>7. \E Q \in SUBSET (Id \X Id) : R \subseteq Q /\ OrdersReplies(Q)'
  <2>1. CASE ChirpParentGet(h)
    BY <1>1, <2>1, OrderGrows
  <2>2. CASE ~ChirpParentGet(h)
    <3>1. \A p, c \in Id : ReplyEdge(p, c)' => ReplyEdge(p, c)
      BY <2>2, EdgesStay
    <3> QED
      BY <1>1, <1>3, <3>1, OrderKept
  <2> QED
    BY <2>1, <2>2
<1>8. PICK Q \in SUBSET (Id \X Id) : R \subseteq Q /\ OrdersReplies(Q)'
  BY <1>7
<1>9. \A g \in Handler : OrdersRead(Q, g)'
  <2>1. OrdersRead(Q, h)'
    BY <1>5, <1>8 DEF OrdersRead
  <2>2. \A g \in Handler \ {h} : OrdersRead(Q, g)'
    BY <1>1, <1>2, <1>8, ReadOrderKept
  <2> QED
    BY <2>1, <2>2
<1> QED
  BY <1>6, <1>8, <1>9 DEF TreeInv, Ordered

\* A request is taken up.
LEMMA TreeReceive ==
  ASSUME TypeOK, TreeInv, NEW h \in Handler, NEW r, NEW l, Receive(h, r, l),
         l \notin {"ReadRoot", "ReadLoop", "ChirpParentPut"}
  PROVE  TreeInv'
<1>1. PICK R \in SUBSET (Id \X Id) : OrdersReplies(R) /\ \A g \in Handler : OrdersRead(R, g)
  BY DEF TreeInv, Ordered
<1>2. /\ pc[h] = "idle" /\ pc'[h] = l /\ req'[h] = r /\ ReadStill(h)
      /\ \A g \in Handler \ {h} : Still(g) /\ ReadStill(g)
      /\ UNCHANGED <<userId, userFollowed, idChirp, idReply, issued, faults, crashes>>
  BY ReceiveStill
<1>3. ReadInFlight(h)' /\ OrdersRead(R, h)'
  BY <1>2, NoReadStep DEF TreeInv, ReadInFlight, ReadStill
<1>4. \A g \in Handler : ReadInFlight(g)'
  BY <1>2, <1>3, ReadKept DEF TreeInv
<1>5. \A p, c \in Id : ReplyEdge(p, c)' => ReplyEdge(p, c)
  BY <1>2 DEF ReplyEdge, At, Still
<1>6. OrdersReplies(R)'
  BY <1>1, <1>2, <1>5, OrderKept
<1>7. \A g \in Handler : OrdersRead(R, g)'
  BY <1>1, <1>2, <1>3, ReadOrderKept
<1> QED
  BY <1>4, <1>6, <1>7 DEF TreeInv, Ordered

\* The service dies.
LEMMA TreeRestart ==
  ASSUME TypeOK, TreeInv, Restart
  PROVE  TreeInv'
<1>1. PICK R \in SUBSET (Id \X Id) : OrdersReplies(R)
  BY DEF TreeInv, Ordered
<1>2. /\ \A g \in Handler : pc'[g] = "idle" /\ thread'[g] = <<>> /\ replies'[g] = <<>>
      /\ UNCHANGED <<idChirp, idReply>>
  BY DEF Restart, store
<1>3. \A g \in Handler : ReadInFlight(g)' /\ OrdersRead(R, g)'
  BY <1>2, NoReadStep
<1>4. OrdersReplies(R)'
  <2>1. \A p, c \in Id : ReplyEdge(p, c)' => ReplyEdge(p, c)
    BY <1>2 DEF ReplyEdge, At
  <2> QED
    BY <1>1, <1>2, <2>1, OrderKept
<1> QED
  BY <1>3, <1>4 DEF TreeInv, Ordered

LEMMA TreeInit == Init => TreeInv
<1> SUFFICES ASSUME Init PROVE TreeInv
  OBVIOUS
<1>1. OrdersReplies({}) /\ \A h \in Handler : OrdersRead({}, h)
  BY DEF Init, OrdersReplies, OrdersRead, ReplyEdge, At
<1>2. \A h \in Handler : ReadInFlight(h)
  BY DEF Init, ReadInFlight
<1>3. {} \in SUBSET (Id \X Id)
  OBVIOUS
<1> QED
  BY <1>1, <1>2, <1>3 DEF TreeInv, Ordered

LEMMA TreeNext ==
  TypeOK /\ TypeOK' /\ ChirpInv /\ TreeInv /\ [Next]_vars => TreeInv'
<1> SUFFICES ASSUME TypeOK, TypeOK', ChirpInv, TreeInv, [Next]_vars PROVE TreeInv'
  OBVIOUS
<1>1. CASE UNCHANGED vars
  <2>1. PICK R \in SUBSET (Id \X Id) : OrdersReplies(R) /\ \A g \in Handler : OrdersRead(R, g)
    BY DEF TreeInv, Ordered
  <2>2. (\A g \in Handler : Still(g) /\ ReadStill(g)) /\ UNCHANGED <<idChirp, idReply, faults>>
    BY <1>1 DEF vars, store, local, Still, ReadStill
  <2>3. \A p, c \in Id : ReplyEdge(p, c)' => ReplyEdge(p, c)
    BY <2>2 DEF ReplyEdge, At, Still
  <2>4. OrdersReplies(R)' /\ \A g \in Handler : OrdersRead(R, g)'
    BY <2>1, <2>2, <2>3, OrderKept, ReadOrderKept
  <2>5. \A g \in Handler : ReadInFlight(g)'
    BY <2>2, ReadKept DEF TreeInv
  <2> QED
    BY <2>4, <2>5 DEF TreeInv, Ordered
<1>2. ASSUME NEW h \in Handler, Arrive(h) PROVE TreeInv'
  <2>1. \E r : \E l \in {"RegisterHas", "ChirpHas", "FollowHas", "ReadHas"} : Receive(h, r, l)
    BY <1>2, Zenon DEF Arrive, ReceiveRegister, ReceiveChirp, ReceiveFollow, ReceiveRead
  <2> QED
    BY <2>1, TreeReceive
<1> QED
  BY <1>1, <1>2, TreeHandle, TreeRestart DEF Next

\* In the state of a read, what is answered is a piece of a thread.
LEMMA TreeInvThread == TypeOK /\ TreeInv => ThreadIsATree
<1> SUFFICES ASSUME TypeOK, TreeInv, NEW h \in Handler, NEW n \in DOMAIN thread[h],
                    thread[h][n] \in Id \/ faults = 0
             PROVE  /\ thread[h][n] \in Id
                    /\ \A m \in 1 .. (n - 1) : thread[h][m] # thread[h][n]
                    /\ n > 1 => \E m \in 1 .. (n - 1) :
                                  thread[h][m] = idChirp[thread[h][n]].parent_id
  BY DEF ThreadIsATree
<1>1. ReadInFlight(h)
  BY DEF TreeInv
<1>2. pc[h] = "ReadLoop"
  BY <1>1 DEF ReadInFlight
<1>3. DOMAIN thread[h] = 1 .. Len(thread[h]) /\ Len(thread[h]) \in Nat
  BY DEF TypeOK, HandlerTypeOK
<1>4. thread[h][n] \in Id
  BY <1>1, <1>2 DEF ReadInFlight, Range
<1>5. \A m \in 1 .. (n - 1) : m \in DOMAIN thread[h] /\ m # n
  BY <1>3
<1> QED
  BY <1>1, <1>2, <1>4, <1>5 DEF ReadInFlight, Distinct

\* Whatever chirps are linked while a read walks a thread, whatever RPCs fail and
\* whenever the service dies: the read answers no chirp twice, and after the first
\* only replies to chirps it answered before (service.cc:158-171).
THEOREM ReadsCorrect ==
  ASSUME NoReissue
  PROVE  Spec => []ThreadIsATree
<1>1. Init => TypeOK /\ ChirpInv /\ TreeInv
  BY TypeInit, ChirpInit, TreeInit
<1>2. TypeOK /\ ChirpInv /\ TreeInv /\ [Next]_vars => (TypeOK /\ ChirpInv /\ TreeInv)'
  BY TypeNext, ChirpNext, TreeNext
<1>3. TypeOK /\ TreeInv => ThreadIsATree
  BY TreeInvThread
<1> QED
  BY <1>1, <1>2, <1>3, PTL DEF Spec

-----------------------------------------------------------------------------
(* What is answered.                                                        *)

\* Two steps write the users' latest chirps, two their lists.
LEMMA UsersUnchanged ==
  ASSUME NEW h \in Handler, Handle(h)
  PROVE  /\ ~RegisterIdPut(h) /\ ~ChirpUserPut(h) => UNCHANGED userId
         /\ ~RegisterFollowedPut(h) /\ ~FollowPut(h) => UNCHANGED userFollowed
<1>1. CASE Register(h)
  BY <1>1 DEF Register, RegisterHas, RegisterIdHas, RegisterIdPut, RegisterFollowedHas,
     RegisterFollowedPut, HasThen, store
<1>2. CASE DoChirp(h)
  BY <1>2 DEF DoChirp, ChirpHas, ChirpIdHas, ChirpIdPut, ChirpUserPut, ChirpParentHas,
     ChirpParentGet, ChirpParentPut, ChirpReplyPut, HasThen, store
<1>3. CASE Follow(h)
  BY <1>3 DEF Follow, FollowHas, FollowHasTo, FollowGet, FollowPut, HasThen, store
<1>4. CASE Read(h)
  BY <1>4 DEF Read, ReadHas, ReadRoot, ReadReplies, ReadChirp, ReadReturn, HasThen, store
<1> QED
  BY <1>1, <1>2, <1>3, <1>4 DEF Handle

LEMMA EmptyIsThere == <<>> # Absent
<1>1. <<>> \in Seq(Id)
  OBVIOUS
<1> QED
  BY <1>1, SentinelAssumption

\* Who is registered stays so.
LEMMA UsersStay ==
  ASSUME TypeOK, NEW h \in Handler, Handle(h), NEW u \in User
  PROVE  /\ userId[u] # Absent => userId'[u] # Absent
         /\ userFollowed[u] # Absent => userFollowed'[u] # Absent
<1>1. CASE RegisterIdPut(h)
  BY <1>1, SentinelAssumption DEF RegisterIdPut, Stored, TypeOK, StoreTypeOK
<1>2. CASE ChirpUserPut(h)
  BY <1>2, SentinelAssumption
     DEF ChirpUserPut, At, Stored, ChirpIdSteps, LocalsOK, TypeOK, StoreTypeOK
<1>3. CASE RegisterFollowedPut(h)
  BY <1>3, EmptyIsThere DEF RegisterFollowedPut, Stored, TypeOK, StoreTypeOK
<1>4. CASE FollowPut(h)
  <2>1. vec[h] # Absent
    BY <1>4, SentinelAssumption DEF FollowPut, At, TypeOK, LocalsOK
  <2> QED
    BY <1>4, <2>1 DEF FollowPut, Stored, TypeOK, StoreTypeOK
<1> QED
  BY <1>1, <1>2, <1>3, <1>4, UsersUnchanged

\* A name that is said to be registered, or to be taken, is.
LEMMA RegisterAnswer ==
  ASSUME TypeOK, TypeOK', FollowInv, NEW h \in Handler, Register(h), pc'[h] = "idle"
  PROVE  /\ req[h].username \in User
         /\ status'[h] \in {"OK", "ALREADY_EXISTS"} => userId'[req[h].username] # Absent
         /\ status'[h] = "OK" => /\ userFollowed'[req[h].username] # Absent
                                 /\ RegisterFollowedPut(h)
<1> DEFINE u == req[h].username
           Done == /\ status'[h] \in {"OK", "ALREADY_EXISTS"} => userId'[u] # Absent
                   /\ status'[h] = "OK" => userFollowed'[u] # Absent /\ RegisterFollowedPut(h)
<1> USE DEF At, TypeOK, HandlerTypeOK
<1>1. ASSUME NEW code, Answer(h, code) PROVE status'[h] = code
  BY <1>1 DEF Answer
<1>2. ASSUME NEW l, l # "idle", Continue(h, l) PROVE FALSE
  BY <1>2 DEF Continue, Goto
<1>3. req[h] \in RegisterRequest /\ u \in User
  BY DEF Register, RegisterHas, RegisterIdHas, RegisterIdPut, RegisterFollowedHas,
     RegisterFollowedPut, LocalsOK, RegisterSteps, RegisterRequest
<1>4. CASE RegisterHas(h)
  <2>1. Answer(h, "ALREADY_EXISTS") /\ userId[u] # Absent /\ UNCHANGED userId
    BY <1>2, <1>4 DEF RegisterHas, HasThen, HasAnswers, store
  <2> QED
    BY <1>1, <1>3, <2>1
<1>5. CASE RegisterIdHas(h)
  <2>1. Answer(h, "ALREADY_EXISTS") /\ userId[u] # Absent /\ UNCHANGED userId
    BY <1>2, <1>5 DEF RegisterIdHas, HasThen, HasAnswers, store
  <2> QED
    BY <1>1, <1>3, <2>1
<1>6. CASE RegisterIdPut(h)
  <2>1. Answer(h, "UNAVAILABLE")
    BY <1>2, <1>6 DEF RegisterIdPut
  <2> QED
    BY <1>1, <1>3, <2>1
<1>7. CASE RegisterFollowedHas(h)
  <2>1. Answer(h, "ALREADY_EXISTS")
    BY <1>2, <1>7 DEF RegisterFollowedHas, HasThen
  <2>2. userId[u] # Absent /\ UNCHANGED userId
    BY <1>7 DEF RegisterFollowedHas, HasThen, store, FollowInv, FollowInFlight
  <2> QED
    BY <1>1, <1>3, <2>1, <2>2
<1>8. CASE RegisterFollowedPut(h)
  <2>1. userId[u] # Absent /\ UNCHANGED userId
    BY <1>8 DEF RegisterFollowedPut, FollowInv, FollowInFlight
  <2>2. PICK applied \in BOOLEAN, ok \in BOOLEAN :
          /\ PutAnswers(applied, ok)
          /\ userFollowed' = Stored(applied, userFollowed, u, <<>>)
          /\ Answer(h, IF ok THEN "OK" ELSE "UNAVAILABLE")
    BY <1>8 DEF RegisterFollowedPut
  <2>3. status'[h] = "OK" => applied
    BY <1>1, <2>2 DEF PutAnswers
  <2>4. applied => userFollowed'[u] = <<>>
    BY <1>3, <2>2 DEF Stored, StoreTypeOK
  <2> QED
    BY <1>3, <1>8, <2>1, <2>3, <2>4, EmptyIsThere
<1> QED
  BY <1>3, <1>4, <1>5, <1>6, <1>7, <1>8 DEF Register

\* A chirp is answered OK by its last step, which puts its list.
LEMMA ChirpAnswer ==
  ASSUME TypeOK, TypeOK', ChirpInv, NEW h \in Handler, DoChirp(h), pc'[h] = "idle",
         status'[h] = "OK"
  PROVE  /\ ChirpReplyPut(h) /\ cid[h] \in Id
         /\ idChirp'[cid[h]] = TheChirp(h) /\ idReply'[cid[h]] = <<>>
<1> USE DEF At, TypeOK, HandlerTypeOK
<1>1. ASSUME NEW code, Answer(h, code) PROVE code = "OK"
  BY <1>1 DEF Answer
<1>2. ASSUME NEW l, l # "idle", Continue(h, l) PROVE FALSE
  BY <1>2 DEF Continue, Goto
<1>3. ChirpReplyPut(h)
  BY <1>1, <1>2 DEF DoChirp, ChirpHas, ChirpIdHas, ChirpIdPut, ChirpUserPut,
       ChirpParentHas, ChirpParentGet, ChirpParentPut, HasThen, Goto
<1>4. PICK applied \in BOOLEAN, ok \in BOOLEAN :
        /\ PutAnswers(applied, ok)
        /\ idReply' = Stored(applied, idReply, cid[h], <<>>)
        /\ Answer(h, IF ok THEN "OK" ELSE "ALREADY_EXISTS")
  BY <1>3 DEF ChirpReplyPut
<1>5. applied
  BY <1>1, <1>4 DEF PutAnswers
<1>6. cid[h] \in Id /\ idChirp[cid[h]] = TheChirp(h) /\ UNCHANGED idChirp
  BY <1>3 DEF ChirpReplyPut, ChirpInv, ChirpInFlight, ChirpStoredSteps, ChirpIdSteps, LocalsOK
<1> QED
  BY <1>3, <1>4, <1>5, <1>6 DEF Stored, StoreTypeOK

\* A read is answered OK where its loop ends.  If no RPC has failed, the first chirp is
\* the one asked for, and all of them are stored.
LEMMA ReadAnswer ==
  ASSUME TypeOK, TypeOK', NEW h \in Handler, ReadInFlight(h), Read(h), pc'[h] = "idle",
         status'[h] = "OK"
  PROVE  /\ ReadReturn(h) /\ pc[h] = "ReadLoop" /\ UNCHANGED idChirp
         /\ faults = 0 => /\ thread[h] # <<>> /\ thread[h][1] = req[h].chirp_id
                          /\ \A n \in DOMAIN thread[h] :
                               thread[h][n] \in Id /\ idChirp[thread[h][n]] # Absent
<1> USE DEF At, TypeOK, HandlerTypeOK
<1>1. ASSUME NEW code, Answer(h, code) PROVE code = "OK"
  BY <1>1 DEF Answer
<1>2. ASSUME NEW l, l # "idle", Continue(h, l) PROVE FALSE
  BY <1>2 DEF Continue, Goto
<1>3. ReadReturn(h)
  BY <1>1, <1>2 DEF Read, ReadHas, ReadRoot, ReadReplies, ReadChirp, HasThen, Goto
<1>4. pc[h] = "ReadLoop" /\ queue[h] = <<>> /\ UNCHANGED idChirp
  BY <1>3 DEF ReadReturn, store
<1>5. thread[h] # <<>>
  <2>1. \A x : <<x>> # <<>>
    OBVIOUS
  <2> QED
    BY <1>4, <2>1 DEF ReadInFlight
<1>6. DOMAIN thread[h] = 1 .. Len(thread[h]) /\ Len(thread[h]) \in Nat \ {0}
  BY <1>5
<1>7. ASSUME faults = 0
      PROVE  /\ thread[h][1] = req[h].chirp_id
             /\ \A n \in DOMAIN thread[h] :
                  thread[h][n] \in Id /\ idChirp[thread[h][n]] # Absent
  <2>1. \A n \in DOMAIN thread[h] : thread[h][n] \in Id
    BY <1>4, <1>7 DEF ReadInFlight, Range
  <2>2. thread[h][1] = req[h].chirp_id
    <3>1. 1 \in DOMAIN thread[h]
      BY <1>6
    <3>2. thread[h][1] \in Id /\ thread[h][1] \in {req[h].chirp_id, NoId}
      BY <1>4, <1>5, <2>1, <3>1 DEF ReadInFlight
    <3> QED
      BY <3>2, SentinelAssumption
  <2>3. \A n \in DOMAIN thread[h] : n = 1 \/ n > 1
    BY <1>6
  <2> QED
    BY <1>4, <2>1, <2>2, <2>3 DEF ReadInFlight
<1> QED
  BY <1>3, <1>4, <1>5, <1>7

-----------------------------------------------------------------------------
(* All of it.                                                              *)

\* What the service guarantees, however many requests it serves at a time.
ServiceInv == FollowInv /\ ChirpInv /\ TreeInv

LEMMA ServiceInit == Init => ServiceInv
BY FollowInit, ChirpInit, TreeInit DEF ServiceInv

\* A step of the service keeps its guarantees.
LEMMA ServiceNext ==
  ASSUME NoReissue, TypeOK, ServiceInv, [Next]_vars
  PROVE  ServiceInv'
<1>1. TypeOK'
  BY TypeNext
<1> QED
  BY <1>1, FollowNext, ChirpNext, TreeNext DEF ServiceInv

-----------------------------------------------------------------------------
(* One request at a time.                                                   *)

\* Nothing interleaves, and no RPC to the store fails.
Alone == (\A g, h \in Handler : g = h) /\ MaxFaults = 0

\* What a handler has seen in the store is still there when it acts on it: a key that
\* is missing, a list that it is about to store again with one more entry, the latest
\* chirp.  No reply to a chirp that a read has visited is left out.
AloneInFlight(h) ==
  LET user   == req[h].username
      parent == req[h].parent_id
  IN  /\ pc[h] = "RegisterIdPut" => userId[user] = Absent
      /\ pc[h] = "RegisterFollowedPut" => userFollowed[user] = Absent
      /\ pc[h] = "FollowPut" => vec[h] = Append(userFollowed[user], req[h].to_follow)
      /\ pc[h] = "ChirpParentPut" => vec[h] = Append(idReply[parent], cid[h])
      /\ pc[h] \in ChirpStoredSteps \ {"ChirpUserPut"} => userId[user] = cid[h]
      /\ pc[h] = "ChirpReplyPut" /\ ReplyKey(parent) # Absent =>
           cid[h] \in Range(idReply[parent])
      /\ pc[h] = "ReadLoop" =>
           \A i \in Range(thread[h]) :
             Range(Deparsed(ReplyKey(i))) \subseteq Range(thread[h]) \cup Pending(h)

\* A chirp gets its list before it is answered for, unless the service dies.
AllHaveLists ==
  \A i \in Id : idChirp[i] # Absent =>
    \/ idReply[i] # Absent
    \/ \E h \in Handler : pc[h] \in ChirpStoredSteps /\ cid[h] = i

AloneInv ==
  /\ FollowInv /\ ChirpInv /\ TreeInv
  /\ \A h \in Handler : AloneInFlight(h)
  /\ MaxCrashes = 0 => AllHaveLists

\* Without faults every RPC is answered, and no id is issued twice.
LEMMA NoFault ==
  ASSUME Alone, TypeOK
  PROVE  ~Fault /\ faults = 0 /\ NoReissue
<1>1. faults \in 0 .. 0
  BY DEF Alone, TypeOK
<1> QED
  BY <1>1 DEF Fault, Alone, NoReissue

\* Where nothing is about to be written, and no read goes on, there is nothing to keep.
AloneSteps == {"RegisterIdPut", "RegisterFollowedPut", "FollowPut", "ReadLoop"}
                \cup (ChirpStoredSteps \ {"ChirpUserPut"})

LEMMA AloneQuiet ==
  ASSUME NEW h \in Handler, pc'[h] \notin AloneSteps
  PROVE  AloneInFlight(h)'
BY DEF AloneSteps, AloneInFlight, ChirpStoredSteps, ChirpIdSteps

\* A handler that answers has nothing to keep; ...
LEMMA AloneAnswer ==
  ASSUME TypeOK, NEW h \in Handler, NEW code, Answer(h, code)
  PROVE  AloneInFlight(h)'
<1>1. pc'[h] = "idle"
  BY AnswerMoves
<1> QED
  BY <1>1, AloneQuiet DEF AloneSteps, ChirpStoredSteps, ChirpIdSteps

\* ... one that goes on somewhere else has nothing yet.
LEMMA AloneContinue ==
  ASSUME TypeOK, NEW h \in Handler, NEW l, l \notin AloneSteps, Continue(h, l)
  PROVE  AloneInFlight(h)'
<1>1. pc'[h] = l
  BY DEF Continue, Goto, TypeOK, HandlerTypeOK
<1> QED
  BY <1>1, AloneQuiet

\* The steps of each operation keep what the handler has seen.
LEMMA AloneRegister ==
  ASSUME Alone, TypeOK, NEW h \in Handler, Register(h)
  PROVE  AloneInFlight(h)'
<1> USE NoFault
<1>1. "RegisterIdHas" \notin AloneSteps /\ "RegisterFollowedHas" \notin AloneSteps
  BY DEF AloneSteps, ChirpStoredSteps, ChirpIdSteps
<1>2. CASE RegisterHas(h)
  BY <1>1, <1>2, AloneAnswer, AloneContinue DEF RegisterHas, HasThen
<1>3. CASE RegisterIdHas(h)
  <2>1. CASE Continue(h, "RegisterIdPut") /\ userId[req[h].username] = Absent
    <3>1. pc'[h] = "RegisterIdPut" /\ req'[h] = req[h]
      BY <2>1 DEF Continue, Goto, local, TypeOK, HandlerTypeOK
    <3>2. UNCHANGED userId
      BY <1>3 DEF RegisterIdHas, HasThen, store
    <3> QED
      BY <2>1, <3>1, <3>2 DEF AloneInFlight, ChirpStoredSteps, ChirpIdSteps
  <2> QED
    BY <1>3, <2>1, AloneAnswer DEF RegisterIdHas, HasThen, HasAnswers
<1>4. CASE RegisterIdPut(h)
  BY <1>1, <1>4, AloneAnswer, AloneContinue DEF RegisterIdPut
<1>5. CASE RegisterFollowedHas(h)
  <2>1. CASE Continue(h, "RegisterFollowedPut") /\ userFollowed[req[h].username] = Absent
    <3>1. pc'[h] = "RegisterFollowedPut" /\ req'[h] = req[h]
      BY <2>1 DEF Continue, Goto, local, TypeOK, HandlerTypeOK
    <3>2. UNCHANGED userFollowed
      BY <1>5 DEF RegisterFollowedHas, HasThen, store
    <3> QED
      BY <2>1, <3>1, <3>2 DEF AloneInFlight, ChirpStoredSteps, ChirpIdSteps
  <2> QED
    BY <1>5, <2>1, AloneAnswer DEF RegisterFollowedHas, HasThen, HasAnswers
<1>6. CASE RegisterFollowedPut(h)
  BY <1>6, AloneAnswer DEF RegisterFollowedPut
<1> QED
  BY <1>2, <1>3, <1>4, <1>5, <1>6 DEF Register

LEMMA AloneFollow ==
  ASSUME Alone, TypeOK, FollowInv, NEW h \in Handler, Follow(h)
  PROVE  AloneInFlight(h)'
<1> USE NoFault
<1>1. "FollowHasTo" \notin AloneSteps /\ "FollowGet" \notin AloneSteps
  BY DEF AloneSteps, ChirpStoredSteps, ChirpIdSteps
<1>2. CASE FollowHas(h) \/ FollowHasTo(h)
  BY <1>1, <1>2, AloneAnswer, AloneContinue DEF FollowHas, FollowHasTo, HasThen
<1>3. CASE FollowGet(h)
  <2>1. PICK list \in {<<>>, userFollowed[req[h].username]} :
          /\ GetAnswers(userFollowed[req[h].username], list)
          /\ \/ Answer(h, "ALREADY_EXISTS")
             \/ /\ vec' = [vec EXCEPT ![h] = Append(list, req[h].to_follow)]
                /\ Goto(h, "FollowPut") /\ UNCHANGED req
    BY <1>3 DEF FollowGet
  <2>2. userFollowed[req[h].username] # Absent
    BY <1>3 DEF FollowGet, At, FollowInv, FollowInFlight, FollowSteps
  <2>3. list = userFollowed[req[h].username]
    BY <2>1, <2>2 DEF GetAnswers, Deparsed
  <2>4. UNCHANGED userFollowed
    BY <1>3 DEF FollowGet, store
  <2>5. CASE /\ vec' = [vec EXCEPT ![h] = Append(list, req[h].to_follow)]
             /\ Goto(h, "FollowPut") /\ UNCHANGED req
    <3>1. /\ pc'[h] = "FollowPut" /\ req'[h] = req[h]
          /\ vec'[h] = Append(list, req[h].to_follow)
      BY <2>5 DEF Goto, TypeOK, HandlerTypeOK
    <3> QED
      BY <2>3, <2>4, <3>1 DEF AloneInFlight, ChirpStoredSteps, ChirpIdSteps
  <2> QED
    BY <2>1, <2>5, AloneAnswer
<1>4. CASE FollowPut(h)
  BY <1>4, AloneAnswer DEF FollowPut
<1> QED
  BY <1>2, <1>3, <1>4 DEF Follow

LEMMA AloneChirp ==
  ASSUME Alone, TypeOK, ChirpInv, NEW h \in Handler, AloneInFlight(h), DoChirp(h)
  PROVE  AloneInFlight(h)'
<1> DEFINE user   == req[h].username
           parent == req[h].parent_id
<1> USE NoFault
<1>1. /\ "ChirpIdHas" \notin AloneSteps /\ "ChirpIdPut" \notin AloneSteps
      /\ "ChirpUserPut" \notin AloneSteps
  BY DEF AloneSteps, ChirpStoredSteps, ChirpIdSteps
<1>2. ASSUME NEW l, Continue(h, l)
      PROVE  pc'[h] = l /\ req'[h] = req[h] /\ cid'[h] = cid[h] /\ vec'[h] = vec[h]
  BY <1>2 DEF Continue, Goto, local, TypeOK, HandlerTypeOK
<1>3. CASE ChirpHas(h)
  <2>1. CASE Goto(h, "ChirpIdHas")
    BY <1>1, <2>1, AloneQuiet DEF Goto, TypeOK, HandlerTypeOK
  <2> QED
    BY <1>3, <2>1, AloneAnswer DEF ChirpHas
<1>4. CASE ChirpIdHas(h) \/ ChirpIdPut(h)
  BY <1>1, <1>4, AloneAnswer, AloneContinue DEF ChirpIdHas, ChirpIdPut, HasThen
<1>5. CASE ChirpUserPut(h)
  <2>1. user \in User
    BY <1>5 DEF ChirpUserPut, At, TypeOK, LocalsOK, ChirpIdSteps, ChirpRequest
  <2>2. CASE Continue(h, "ChirpParentHas") /\ userId' = Stored(TRUE, userId, user, cid[h])
    <3>1. userId'[user] = cid[h]
      BY <2>1, <2>2 DEF Stored, TypeOK, StoreTypeOK
    <3>2. pc'[h] = "ChirpParentHas" /\ req'[h] = req[h] /\ cid'[h] = cid[h]
      BY <1>2, <2>2
    <3> QED
      BY <3>1, <3>2 DEF AloneInFlight
  <2> QED
    BY <1>5, <2>2, AloneAnswer DEF ChirpUserPut, PutAnswers
<1>6. CASE ChirpParentHas(h)
  <2>1. userId[user] = cid[h] /\ UNCHANGED <<userId, idReply>>
    BY <1>6 DEF ChirpParentHas, HasThen, store, At, AloneInFlight, ChirpStoredSteps, ChirpIdSteps
  <2>2. CASE Continue(h, "ChirpParentGet")
    BY <1>2, <2>1, <2>2 DEF AloneInFlight
  <2>3. CASE Continue(h, "ChirpReplyPut") /\ ReplyKey(parent) = Absent
    BY <1>2, <2>1, <2>3 DEF AloneInFlight, ReplyKey
  <2> QED
    BY <1>6, <2>2, <2>3 DEF ChirpParentHas, HasThen, HasAnswers
<1>7. CASE ChirpParentGet(h)
  <2>1. userId[user] = cid[h] /\ UNCHANGED <<userId, idReply>>
    BY <1>7 DEF ChirpParentGet, store, At, AloneInFlight, ChirpStoredSteps, ChirpIdSteps
  <2>2. idReply[parent] # Absent
    BY <1>7 DEF ChirpParentGet, At, ChirpInv, ChirpInFlight, ChirpParentSteps
  <2>3. PICK list \in {<<>>, idReply[parent]} :
          /\ GetAnswers(idReply[parent], list)
          /\ vec' = [vec EXCEPT ![h] = Append(list, cid[h])]
    BY <1>7 DEF ChirpParentGet
  <2>4. list = idReply[parent]
    BY <2>2, <2>3 DEF GetAnswers, Deparsed
  <2>5. /\ pc'[h] = "ChirpParentPut" /\ req'[h] = req[h] /\ cid'[h] = cid[h]
        /\ vec'[h] = Append(idReply[parent], cid[h])
    BY <1>7, <2>3, <2>4 DEF ChirpParentGet, Goto, TypeOK, HandlerTypeOK
  <2> QED
    BY <2>1, <2>5 DEF AloneInFlight
<1>8. CASE ChirpParentPut(h)
  <2>1. /\ userId[user] = cid[h] /\ vec[h] = Append(idReply[parent], cid[h])
        /\ UNCHANGED userId
    BY <1>8 DEF ChirpParentPut, At, AloneInFlight, ChirpStoredSteps, ChirpIdSteps
  <2>2. parent \in Id /\ cid[h] \in Id /\ idReply[parent] \in Seq(Id)
    BY <1>8 DEF ChirpParentPut, At, ChirpInv, ChirpInFlight, ChirpParentSteps, TypeOK,
       StoreTypeOK, LocalsOK, ChirpIdSteps
  <2>3. cid[h] \in Range(vec[h])
    BY <2>1, <2>2, PushBack
  <2>4. CASE Continue(h, "ChirpReplyPut") /\ idReply' = Stored(TRUE, idReply, parent, vec[h])
    <3>1. idReply'[parent] = vec[h]
      BY <2>2, <2>4 DEF Stored, TypeOK, StoreTypeOK
    <3>2. pc'[h] = "ChirpReplyPut" /\ req'[h] = req[h] /\ cid'[h] = cid[h]
      BY <1>2, <2>4
    <3> QED
      BY <2>1, <2>3, <3>1, <3>2 DEF AloneInFlight
  <2> QED
    BY <1>8, <2>4, AloneAnswer DEF ChirpParentPut, PutAnswers
<1>9. CASE ChirpReplyPut(h)
  BY <1>9, AloneAnswer DEF ChirpReplyPut
<1> QED
  BY <1>3, <1>4, <1>5, <1>6, <1>7, <1>8, <1>9 DEF DoChirp

LEMMA AloneRead ==
  ASSUME Alone, TypeOK, TreeInv, NEW h \in Handler, AloneInFlight(h), Read(h)
  PROVE  AloneInFlight(h)'
<1> DEFINE Whole == \A i \in Range(thread[h]) :
                      Range(Deparsed(ReplyKey(i))) \subseteq Range(thread[h]) \cup Pending(h)
<1> USE NoFault
<1>1. UNCHANGED idReply
  BY DEF Read, ReadHas, ReadRoot, ReadReplies, ReadChirp, ReadReturn, HasThen, store
<1>2. "ReadRoot" \notin AloneSteps
  BY DEF AloneSteps, ChirpStoredSteps, ChirpIdSteps
<1>3. ASSUME pc'[h] = "ReadLoop", Whole' PROVE AloneInFlight(h)'
  BY <1>3 DEF AloneInFlight, ChirpStoredSteps, ChirpIdSteps
<1>4. \A i : ReplyKey(i)' = ReplyKey(i)
  BY <1>1 DEF ReplyKey
<1>5. CASE ReadHas(h)
  BY <1>2, <1>5, AloneAnswer, AloneContinue DEF ReadHas, HasThen
<1>6. CASE ReadRoot(h)
  <2>1. thread[h] = <<>> /\ UNCHANGED thread /\ pc'[h] = "ReadLoop"
    BY <1>6 DEF ReadRoot, Goto, At, TreeInv, ReadInFlight, TypeOK, HandlerTypeOK
  <2>2. Range(thread'[h]) = {}
    BY <2>1, EmptyList
  <2> QED
    BY <1>3, <2>1, <2>2
<1>7. CASE ReadReplies(h)
  <2> DEFINE curr == Head(queue[h])
  <2>1. /\ pc[h] = "ReadLoop" /\ pc'[h] = "ReadLoop" /\ replies[h] = <<>>
        /\ queue[h] \in Seq(Id \cup {NoId}) /\ queue[h] # <<>>
        /\ thread[h] \in Seq(Id \cup {NoId})
        /\ thread'[h] = Append(thread[h], curr) /\ queue'[h] = Tail(queue[h])
    BY <1>7 DEF ReadReplies, At, TypeOK, HandlerTypeOK
  <2>2. replies'[h] = Deparsed(ReplyKey(curr))
    BY <1>7 DEF ReadReplies, GetAnswers, TypeOK, HandlerTypeOK
  <2>3. /\ curr \in Id \cup {NoId} /\ Range(queue[h]) = {curr} \cup Range(queue'[h])
    BY <2>1, PopFront
  <2>4. Range(thread'[h]) = Range(thread[h]) \cup {curr}
    BY <2>1, <2>3, PushBack
  <2>5. Whole
    BY <2>1 DEF AloneInFlight
  <2>6. Range(replies[h]) = {}
    BY <2>1, EmptyList
  <2>7. Range(thread[h]) \cup Pending(h) \subseteq Range(thread'[h]) \cup Pending(h)'
    BY <2>3, <2>4, <2>6 DEF Pending
  <2>8. Range(Deparsed(ReplyKey(curr))) \subseteq Pending(h)'
    BY <2>2 DEF Pending
  <2>9. ASSUME NEW i \in Range(thread'[h])
        PROVE  Range(Deparsed(ReplyKey(i))) \subseteq Range(thread'[h]) \cup Pending(h)'
    BY <2>4, <2>5, <2>7, <2>8, <2>9
  <2> QED
    BY <1>3, <1>4, <2>1, <2>9 DEF Deparsed
<1>8. CASE ReadChirp(h)
  <2> DEFINE next == Head(replies[h])
  <2>1. /\ pc[h] = "ReadLoop" /\ pc'[h] = "ReadLoop" /\ replies[h] # <<>>
        /\ replies[h] \in Seq(Id) /\ queue[h] \in Seq(Id \cup {NoId})
        /\ thread'[h] = thread[h] /\ replies'[h] = Tail(replies[h])
    BY <1>8 DEF ReadChirp, At, TypeOK, HandlerTypeOK
  <2>2. next \in Id /\ Range(replies[h]) = {next} \cup Range(replies'[h])
    BY <2>1, PopFront
  <2>3. idChirp[next] # Absent
    <3>1. thread[h] # <<>> /\ next \in Pending(h) \cap Id
      BY <2>1, <2>2 DEF TreeInv, ReadInFlight, Pending
    <3> QED
      BY <2>1, <3>1 DEF TreeInv, ReadInFlight
  <2>4. queue'[h] = Append(queue[h], next)
    BY <1>8, <2>3 DEF ReadChirp, FetchAnswers, TypeOK, HandlerTypeOK
  <2>5. Range(queue'[h]) = Range(queue[h]) \cup {next}
    BY <2>1, <2>2, <2>4, PushBack
  <2>6. Pending(h)' = Pending(h)
    BY <2>2, <2>5 DEF Pending
  <2>7. Whole
    BY <2>1 DEF AloneInFlight
  <2> QED
    BY <1>3, <1>4, <2>1, <2>6, <2>7 DEF Deparsed
<1>9. CASE ReadReturn(h)
  BY <1>9, AloneAnswer DEF ReadReturn
<1> QED
  BY <1>5, <1>6, <1>7, <1>8, <1>9 DEF Read

\* Until the service dies, the chirps that have no list are those that are being posted.
LEMMA ListsHandle ==
  ASSUME Alone, TypeOK, ChirpInv, AllHaveLists, NEW h \in Handler, Handle(h)
  PROVE  AllHaveLists'
<1> USE NoFault
<1> SUFFICES ASSUME NEW i \in Id, idChirp'[i] # Absent
             PROVE  \/ idReply'[i] # Absent
                    \/ \E g \in Handler : pc'[g] \in ChirpStoredSteps /\ cid'[g] = i
  BY DEF AllHaveLists
<1>1. ASSUME NEW l \in ChirpStoredSteps, Continue(h, l), cid[h] = i
      PROVE  \E g \in Handler : pc'[g] \in ChirpStoredSteps /\ cid'[g] = i
  BY <1>1 DEF Continue, Goto, local, TypeOK, HandlerTypeOK
<1>2. {"ChirpUserPut", "ChirpParentHas", "ChirpParentGet", "ChirpParentPut", "ChirpReplyPut"}
        = ChirpStoredSteps
  BY DEF ChirpStoredSteps, ChirpIdSteps
<1>3. CASE idChirp[i] = Absent
  <2>1. ChirpIdPut(h)
    BY <1>3, ThreadsUnchanged
  <2>2. idChirp' = Stored(TRUE, idChirp, cid[h], TheChirp(h)) /\ Continue(h, "ChirpUserPut")
    BY <2>1 DEF ChirpIdPut, PutAnswers
  <2>3. cid[h] = i
    BY <1>3, <2>2 DEF Stored, TypeOK, StoreTypeOK
  <2> QED
    BY <1>1, <1>2, <2>2, <2>3
<1>4. CASE idReply[i] # Absent
  BY <1>4, ThreadsStay
<1>5. ASSUME NEW g \in Handler \ {h}, pc[g] \in ChirpStoredSteps, cid[g] = i
      PROVE  pc'[g] \in ChirpStoredSteps /\ cid'[g] = i
  BY <1>5, HandleStill DEF Still
<1>6. CASE pc[h] \in ChirpStoredSteps /\ cid[h] = i
  <2>1. CASE ChirpUserPut(h)
    BY <1>1, <1>2, <1>6, <2>1 DEF ChirpUserPut, PutAnswers
  <2>2. CASE ChirpParentHas(h)
    BY <1>1, <1>2, <1>6, <2>2 DEF ChirpParentHas, HasThen
  <2>3. CASE ChirpParentGet(h)
    BY <1>2, <1>6, <2>3 DEF ChirpParentGet, Goto, TypeOK, HandlerTypeOK
  <2>4. CASE ChirpParentPut(h)
    BY <1>1, <1>2, <1>6, <2>4 DEF ChirpParentPut, PutAnswers
  <2>5. CASE ChirpReplyPut(h)
    <3>1. idReply' = Stored(TRUE, idReply, cid[h], <<>>)
      BY <2>5 DEF ChirpReplyPut, PutAnswers
    <3> QED
      BY <1>6, <3>1, EmptyIsThere DEF Stored, TypeOK, StoreTypeOK
  <2>6. ChirpUserPut(h) \/ ChirpParentHas(h) \/ ChirpParentGet(h) \/ ChirpParentPut(h)
          \/ ChirpReplyPut(h)
    <3> USE <1>2, <1>6 DEF At
    <3>1. ~Register(h)
      BY DEF Register, RegisterHas, RegisterIdHas, RegisterIdPut, RegisterFollowedHas,
             RegisterFollowedPut
    <3>2. ~Follow(h)
      BY DEF Follow, FollowHas, FollowHasTo, FollowGet, FollowPut
    <3>3. ~Read(h)
      BY DEF Read, ReadHas, ReadRoot, ReadReplies, ReadChirp, ReadReturn
    <3>4. ~ChirpHas(h) /\ ~ChirpIdHas(h) /\ ~ChirpIdPut(h)
      BY DEF ChirpHas, ChirpIdHas, ChirpIdPut
    <3> QED
      BY <3>1, <3>2, <3>3, <3>4 DEF Handle, DoChirp
  <2> QED
    BY <2>1, <2>2, <2>3, <2>4, <2>5, <2>6
<1> QED
  BY <1>3, <1>4, <1>5, <1>6 DEF AllHaveLists

\* Every step of a service that serves one request at a time.
LEMMA AloneNext ==
  ASSUME Alone, TypeOK, AloneInv, [Next]_vars
  PROVE  TypeOK' /\ AloneInv'
<1>1. ServiceInv' /\ TypeOK'
  BY NoFault, ServiceNext, TypeNext DEF AloneInv, ServiceInv
<1>2. CASE UNCHANGED vars
  <2>1. (\A h \in Handler : AloneInFlight(h)) => \A h \in Handler : AloneInFlight(h)'
    BY <1>2 DEF vars, store, local, AloneInFlight, ReplyKey, TheChirp, Deparsed, Pending
  <2>2. AllHaveLists => AllHaveLists'
    BY <1>2 DEF vars, store, local, AllHaveLists
  <2> QED
    BY <1>1, <2>1, <2>2 DEF AloneInv, ServiceInv
<1>3. ASSUME NEW h \in Handler, Arrive(h) PROVE AloneInv'
  <2>1. PICK r, l : /\ Receive(h, r, l)
                    /\ l \in {"RegisterHas", "ChirpHas", "FollowHas", "ReadHas"}
    BY <1>3 DEF Arrive, ReceiveRegister, ReceiveChirp, ReceiveFollow, ReceiveRead
  <2>2. /\ pc[h] = "idle" /\ pc'[h] = l /\ UNCHANGED <<idChirp, idReply>>
        /\ \A g \in Handler \ {h} : Still(g)
    BY <2>1, ReceiveStill
  <2>3. AloneInFlight(h)'
    BY <2>1, <2>2, AloneQuiet DEF AloneSteps, ChirpStoredSteps, ChirpIdSteps
  <2>4. AllHaveLists => AllHaveLists'
    BY <2>2 DEF AllHaveLists, Still, ChirpStoredSteps, ChirpIdSteps
  <2> QED
    BY <1>1, <2>3, <2>4 DEF AloneInv, ServiceInv, Alone
<1>4. ASSUME NEW h \in Handler, Handle(h) PROVE AloneInv'
  <2>1. AloneInFlight(h)'
    BY <1>4, AloneRegister, AloneChirp, AloneFollow, AloneRead DEF Handle, AloneInv
  <2>2. AllHaveLists => AllHaveLists'
    BY <1>4, ListsHandle DEF AloneInv
  <2> QED
    BY <1>1, <2>1, <2>2 DEF AloneInv, ServiceInv, Alone
<1>5. CASE Restart
  <2>1. MaxCrashes # 0
    BY <1>5 DEF Restart, TypeOK
  <2>2. \A h \in Handler : pc'[h] = "idle"
    BY <1>5 DEF Restart
  <2>3. \A h \in Handler : AloneInFlight(h)'
    BY <2>2, AloneQuiet DEF AloneSteps, ChirpStoredSteps, ChirpIdSteps
  <2> QED
    BY <1>1, <2>1, <2>3 DEF AloneInv, ServiceInv
<1> QED
  BY <1>1, <1>2, <1>3, <1>4, <1>5 DEF Next

LEMMA AloneInit == Init => TypeOK /\ AloneInv
<1> SUFFICES ASSUME Init PROVE AloneInv
  BY TypeInit
<1>1. \A h \in Handler : AloneInFlight(h)
  BY DEF Init, AloneInFlight, ChirpStoredSteps, ChirpIdSteps
<1>2. AllHaveLists
  BY DEF Init, AllHaveLists
<1> QED
  BY <1>1, <1>2, ServiceInit DEF AloneInv, ServiceInv

\* Two ways in which a list grows at its end: not at all, and by one entry.
LEMMA GrownSame ==
  ASSUME NEW S, NEW s \in Seq(S)
  PROVE  IsPrefix(s, s)
BY DEF IsPrefix

LEMMA GrownAtEnd ==
  ASSUME NEW S, NEW s \in Seq(S), NEW e \in S
  PROVE  IsPrefix(s, Append(s, e))
<1>1. Len(s) <= Len(Append(s, e)) /\ Len(s) \in Nat
  OBVIOUS
<1>2. SubSeq(s, 1, Len(s)) = s
  OBVIOUS
<1>3. SubSeq(Append(s, e), 1, Len(s)) = s
  OBVIOUS
<1> QED
  BY <1>1, <1>2, <1>3 DEF IsPrefix

\* Only the handlers write the store.
LEMMA StoreStep ==
  ASSUME [Next]_vars
  PROVE  UNCHANGED store \/ \E h \in Handler : Handle(h)
BY DEF Next, vars, Arrive, ReceiveRegister, ReceiveChirp, ReceiveFollow, ReceiveRead, Receive,
   Restart

\* An answer comes from the code of its own operation.
LEMMA AnswerStep ==
  ASSUME Alone, TypeOK, Next, NEW h \in Handler, NEW op, Answers(h, op, "OK")
  PROVE  /\ op = "register" => Register(h)
         /\ op = "chirp" => DoChirp(h)
         /\ op = "read" => Read(h)
<1> USE DEF At, TypeOK, LocalsOK
<1>1. pc'[h] = "idle" /\ status'[h] = "OK" /\ req[h].op = op
  BY DEF Answers
<1>2. ~Restart
  <2>1. Restart => status'[h] = "none"
    BY DEF Restart
  <2> QED
    BY <1>1, <2>1
<1>3. ~Arrive(h)
  <2>1. ASSUME NEW r, NEW l, Receive(h, r, l) PROVE pc'[h] = l
    BY <2>1, ReceiveStill
  <2> QED
    BY <1>1, <2>1 DEF Arrive, ReceiveRegister, ReceiveChirp, ReceiveFollow, ReceiveRead
<1>4. Handle(h)
  <2>1. PICK g \in Handler : Arrive(g) \/ Handle(g)
    BY <1>2 DEF Next
  <2>2. g = h
    BY DEF Alone
  <2> QED
    BY <1>3, <2>1, <2>2
<1>5. Register(h) => op = "register"
  BY <1>1 DEF Register, RegisterHas, RegisterIdHas, RegisterIdPut, RegisterFollowedHas,
     RegisterFollowedPut, RegisterSteps, RegisterRequest
<1>6. DoChirp(h) => op = "chirp"
  BY <1>1 DEF DoChirp, ChirpHas, ChirpIdHas, ChirpIdPut, ChirpUserPut, ChirpParentHas,
     ChirpParentGet, ChirpParentPut, ChirpReplyPut, ChirpIdSteps, ChirpRequest
<1>7. Follow(h) => op = "follow"
  BY <1>1 DEF Follow, FollowHas, FollowHasTo, FollowGet, FollowPut, FollowSteps, FollowRequest
<1>8. Read(h) => op = "read"
  BY <1>1 DEF Read, ReadHas, ReadRoot, ReadReplies, ReadChirp, ReadReturn, ReadSteps,
     ReadRequest
<1> QED
  BY <1>4, <1>5, <1>6, <1>7, <1>8 DEF Handle

\* The invariant of a service that serves one request at a time.
LEMMA AloneAlways ==
  ASSUME Alone
  PROVE  Spec => [](TypeOK /\ AloneInv)
<1>1. TypeOK /\ AloneInv /\ [Next]_vars => (TypeOK /\ AloneInv)'
  BY AloneNext
<1> QED
  BY <1>1, AloneInit, PTL DEF Spec

\* One request at a time, and no RPC to the store failing: a list of followed names
\* only grows at its end (service.cc:129-141), even when the service dies in between.
\* What follow read from the store is still there when it stores the list again.
THEOREM FollowedGrow ==
  ASSUME Alone
  PROVE  Spec => FollowedOnlyGrows
<1>1. ASSUME TypeOK, AloneInv, [Next]_vars, NEW u \in User
      PROVE  GrownFrom(userFollowed'[u], userFollowed[u])
  <2> DEFINE list == userFollowed[u]
  <2> SUFFICES ASSUME list # Absent PROVE userFollowed'[u] # Absent /\ IsPrefix(list, userFollowed'[u])
    BY DEF GrownFrom
  <2>1. list \in Seq(User)
    BY <1>1 DEF TypeOK, StoreTypeOK
  <2>2. CASE userFollowed'[u] = list
    BY <2>1, <2>2, GrownSame
  <2>3. ASSUME NEW h \in Handler, RegisterFollowedPut(h) PROVE userFollowed'[u] = list
    BY <1>1, <2>3 DEF AloneInv, AloneInFlight, RegisterFollowedPut, At, Stored, TypeOK,
       StoreTypeOK
  <2>4. ASSUME NEW h \in Handler, FollowPut(h), userFollowed'[u] # list
        PROVE  userFollowed'[u] # Absent /\ IsPrefix(list, userFollowed'[u])
    <3>1. PICK applied \in BOOLEAN : userFollowed' = Stored(applied, userFollowed, req[h].username, vec[h])
      BY <2>4 DEF FollowPut
    <3>2. u = req[h].username /\ userFollowed'[u] = vec[h]
      BY <1>1, <2>4, <3>1 DEF Stored, TypeOK, StoreTypeOK
    <3>3. vec[h] = Append(list, req[h].to_follow) /\ req[h].to_follow \in User
      BY <1>1, <2>4, <3>2 DEF FollowPut, At, AloneInv, AloneInFlight, TypeOK, LocalsOK,
         FollowSteps, FollowRequest
    <3>4. Append(list, req[h].to_follow) \in Seq(User)
      BY <2>1, <3>3
    <3> QED
      BY <2>1, <3>2, <3>3, <3>4, GrownAtEnd, SentinelAssumption
  <2> QED
    BY <1>1, <2>2, <2>3, <2>4, StoreStep, UsersUnchanged DEF store
<1>2. TypeOK /\ AloneInv /\ [Next]_vars
        => [\A u \in User : GrownFrom(userFollowed'[u], userFollowed[u])]_vars
  BY <1>1
<1> QED
  BY <1>2, AloneAlways, PTL DEF Spec, FollowedOnlyGrows

\* Likewise a list of replies (service.cc:98-102): no reply that was linked is lost.
THEOREM RepliesGrow ==
  ASSUME Alone
  PROVE  Spec => RepliesOnlyGrow
<1>1. ASSUME TypeOK, AloneInv, [Next]_vars, NEW i \in Id
      PROVE  GrownFrom(idReply'[i], idReply[i])
  <2> DEFINE list == idReply[i]
  <2> SUFFICES ASSUME list # Absent PROVE idReply'[i] # Absent /\ IsPrefix(list, idReply'[i])
    BY DEF GrownFrom
  <2>1. list \in Seq(Id)
    BY <1>1 DEF TypeOK, StoreTypeOK
  <2>2. CASE idReply'[i] = list
    BY <2>1, <2>2, GrownSame
  <2>3. ASSUME NEW h \in Handler, ChirpReplyPut(h) PROVE idReply'[i] = list
    BY <1>1, <2>3 DEF AloneInv, ChirpInv, ChirpInFlight, ChirpReplyPut, ChirpStoredSteps,
       ChirpIdSteps, At, Stored, TypeOK, StoreTypeOK
  <2>4. ASSUME NEW h \in Handler, ChirpParentPut(h), idReply'[i] # list
        PROVE  idReply'[i] # Absent /\ IsPrefix(list, idReply'[i])
    <3>1. PICK applied \in BOOLEAN : idReply' = Stored(applied, idReply, req[h].parent_id, vec[h])
      BY <2>4 DEF ChirpParentPut
    <3>2. i = req[h].parent_id /\ idReply'[i] = vec[h]
      BY <1>1, <2>4, <3>1 DEF Stored, TypeOK, StoreTypeOK
    <3>3. vec[h] = Append(list, cid[h]) /\ cid[h] \in Id
      BY <1>1, <2>4, <3>2 DEF ChirpParentPut, At, AloneInv, AloneInFlight, TypeOK, LocalsOK,
         ChirpIdSteps
    <3>4. Append(list, cid[h]) \in Seq(Id)
      BY <2>1, <3>3
    <3> QED
      BY <2>1, <3>2, <3>3, <3>4, GrownAtEnd, SentinelAssumption
  <2> QED
    BY <1>1, <2>2, <2>3, <2>4, StoreStep, ThreadsUnchanged DEF store
<1>2. TypeOK /\ AloneInv /\ [Next]_vars
        => [\A i \in Id : GrownFrom(idReply'[i], idReply[i])]_vars
  BY <1>1
<1> QED
  BY <1>2, AloneAlways, PTL DEF Spec, RepliesOnlyGrow

\* Likewise, nobody's latest chirp is forgotten: the key of a user is reset only by a
\* registration that has found it missing (service.cc:31-37).
THEOREM LatestKept ==
  ASSUME Alone
  PROVE  Spec => LatestNotForgotten
<1>1. ASSUME TypeOK, AloneInv, [Next]_vars, NEW u \in User, userId[u] \in Id
      PROVE  userId'[u] \in Id
  <2>1. userId[u] # Absent
    BY <1>1, SentinelAssumption
  <2>2. ASSUME NEW h \in Handler, RegisterIdPut(h) PROVE userId'[u] = userId[u]
    BY <1>1, <2>1, <2>2 DEF AloneInv, AloneInFlight, RegisterIdPut, At, Stored, TypeOK,
       StoreTypeOK
  <2>3. ASSUME NEW h \in Handler, ChirpUserPut(h) PROVE userId'[u] \in {userId[u], cid[h]}
    BY <1>1, <2>3 DEF ChirpUserPut, Stored, TypeOK, StoreTypeOK
  <2>4. ASSUME NEW h \in Handler, ChirpUserPut(h) PROVE cid[h] \in Id
    BY <1>1, <2>4 DEF ChirpUserPut, At, TypeOK, LocalsOK, ChirpIdSteps
  <2> QED
    BY <1>1, <2>2, <2>3, <2>4, StoreStep, UsersUnchanged DEF store
<1>2. TypeOK /\ AloneInv /\ [Next]_vars
        => [\A u \in User : userId[u] \in Id => userId'[u] \in Id]_vars
  BY <1>1
<1> QED
  BY <1>2, AloneAlways, PTL DEF Spec, LatestNotForgotten

\* Likewise, OK is answered only to the first who registers a name, as the comment at
\* service.cc:21-24 says.
THEOREM FirstRegisters ==
  ASSUME Alone
  PROVE  Spec => RegisterOkIsFirst
<1>1. ASSUME TypeOK, AloneInv, Next, NEW h \in Handler, Answers(h, "register", "OK")
      PROVE  userFollowed[req[h].username] = Absent
  <2>1. TypeOK' /\ Register(h)
    BY <1>1, TypeNext, AnswerStep
  <2>2. RegisterFollowedPut(h)
    BY <1>1, <2>1, RegisterAnswer DEF AloneInv, Answers
  <2> QED
    BY <1>1, <2>2 DEF RegisterFollowedPut, At, AloneInv, AloneInFlight
<1>2. TypeOK /\ AloneInv /\ [Next]_vars
        => [\A h \in Handler : Answers(h, "register", "OK") =>
              userFollowed[req[h].username] = Absent]_vars
  BY <1>1
<1> QED
  BY <1>2, AloneAlways, PTL DEF Spec, RegisterOkIsFirst

\* Likewise, a read that is answered OK begins with the chirp asked for and leaves out
\* no reply in the list of a chirp it contains (service.cc:144-172).
THEOREM ReadsWhole ==
  ASSUME Alone
  PROVE  Spec => ReadOkIsWhole
<1>1. ASSUME TypeOK, AloneInv, Next, NEW h \in Handler, Answers(h, "read", "OK")
      PROVE  /\ Head(thread[h]) = req[h].chirp_id
             /\ \A i \in Range(thread[h]) :
                  Range(Deparsed(ReplyKey(i))) \subseteq Range(thread[h])
  <2>1. TypeOK' /\ Read(h)
    BY <1>1, TypeNext, AnswerStep
  <2>2. /\ ReadReturn(h) /\ pc[h] = "ReadLoop"
        /\ thread[h] # <<>> /\ thread[h][1] = req[h].chirp_id
    BY <1>1, <2>1, NoFault, ReadAnswer DEF AloneInv, TreeInv, Answers
  <2>3. Head(thread[h]) = thread[h][1]
    BY <1>1, <2>2 DEF TypeOK, HandlerTypeOK
  <2>4. Pending(h) = {}
    BY <2>2, EmptyList DEF ReadReturn, Pending
  <2> QED
    BY <1>1, <2>2, <2>3, <2>4 DEF AloneInv, AloneInFlight
<1>2. TypeOK /\ AloneInv /\ [Next]_vars
        => [\A h \in Handler : Answers(h, "read", "OK") =>
              /\ Head(thread[h]) = req[h].chirp_id
              /\ \A i \in Range(thread[h]) :
                   Range(Deparsed(ReplyKey(i))) \subseteq Range(thread[h])]_vars
  BY <1>1
<1> QED
  BY <1>2, AloneAlways, PTL DEF Spec, ReadOkIsWhole

\* If moreover the service does not die, a chirp answered OK is stored, is its author's
\* latest, has a list of replies, and is in the list of its parent if that is stored
\* (service.cc:83-113).
THEOREM ChirpsLinked ==
  ASSUME Alone, MaxCrashes = 0
  PROVE  Spec => ChirpOkIsLinked
<1> DEFINE Linked(h) ==
      LET p == req[h].parent_id
      IN  /\ idChirp'[cid[h]] = TheChirp(h)
          /\ userId'[req[h].username] = cid[h]
          /\ idReply'[cid[h]] # Absent
          /\ p \in Id \ {cid[h]} /\ idChirp[p] # Absent
               => idReply'[p] # Absent /\ cid[h] \in Range(idReply'[p])
<1>1. ASSUME TypeOK, AloneInv, Next, NEW h \in Handler, Answers(h, "chirp", "OK")
      PROVE  Linked(h)
  <2> DEFINE p == req[h].parent_id
  <2>1. TypeOK' /\ DoChirp(h)
    BY <1>1, TypeNext, AnswerStep
  <2>2. /\ ChirpReplyPut(h) /\ cid[h] \in Id
        /\ idChirp'[cid[h]] = TheChirp(h) /\ idReply'[cid[h]] = <<>>
    BY <1>1, <2>1, ChirpAnswer DEF AloneInv, Answers
  <2>3. userId'[req[h].username] = cid[h]
    BY <1>1, <2>2 DEF ChirpReplyPut, At, AloneInv, AloneInFlight, ChirpStoredSteps, ChirpIdSteps
  <2>4. ASSUME p \in Id \ {cid[h]}, idChirp[p] # Absent
        PROVE  idReply'[p] # Absent /\ cid[h] \in Range(idReply'[p])
    <3>1. idReply[p] # Absent
      BY <1>1, <2>4 DEF AloneInv, AllHaveLists, Alone
    <3>2. cid[h] \in Range(idReply[p])
      BY <1>1, <2>2, <2>4, <3>1 DEF ChirpReplyPut, At, AloneInv, AloneInFlight, ReplyKey
    <3>3. idReply'[p] = idReply[p]
      BY <1>1, <2>2, <2>4 DEF ChirpReplyPut, Stored, TypeOK, StoreTypeOK
    <3> QED
      BY <3>1, <3>2, <3>3
  <2> QED
    BY <2>2, <2>3, <2>4, EmptyIsThere
<1>2. TypeOK /\ AloneInv /\ [Next]_vars
        => [\A h \in Handler : Answers(h, "chirp", "OK") => Linked(h)]_vars
  BY <1>1
<1> QED
  BY <1>2, AloneAlways, PTL DEF Spec, ChirpOkIsLinked
=============================================================================

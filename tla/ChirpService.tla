---------------------------- MODULE ChirpService ----------------------------
(***************************************************************************)
(* The chirp service layer (service/service.cc): the handlers registeruser, *)
(* chirp, follow and read of ServiceImpl, run by a pool of gRPC threads     *)
(* that share nothing but the key-value store and the id generator.         *)
(*                                                                          *)
(* One step of this specification is one RPC to the key-value store, or     *)
(* local work of a handler between two RPCs.  Has, GetValue and PutOrUpdate *)
(* of KeyValueStoreClient are one RPC each; its Put is two, a Has and then  *)
(* a put that overwrites.  Every RPC may fail (the store is another process *)
(* behind a socket): a failed Has looks like an absent key, a failed        *)
(* GetValue looks like an empty value, and a failed put has or has not      *)
(* taken effect.                                                            *)
(*                                                                          *)
(* The store holds four kinds of keys, one prefix each (service_helper.h):  *)
(*   userId[u]        "user_id: " u       the id of u's last chirp          *)
(*   userFollowed[u]  "user_followed: " u the names u follows               *)
(*   idChirp[i]       "id_chirp: " i      the chirp (its author and parent) *)
(*   idReply[i]       "id_reply: " i      the ids of the replies to i       *)
(***************************************************************************)
EXTENDS Naturals, FiniteSets, SequencesExt

CONSTANTS
  Handler,      \* the threads that serve requests
  User,         \* the user names
  Id,           \* the chirp ids the generator can hand out
  NoParent,     \* a parent id no chirp has ("-1", the command line's default)
  NoId,         \* the empty string: the id of a blank chirp
  Absent,       \* "this key is not in the store"
  Ops,          \* the kinds of requests that arrive
  MaxFaults,    \* bound: how many RPCs to the store fail
  MaxCrashes,   \* bound: how many times the service process dies
  SameSecond    \* may the process restart within the second it died in?

ASSUME SentinelAssumption ==
  /\ NoParent \notin Id /\ NoId \notin Id /\ NoParent # NoId
  /\ Absent \notin Id \cup {NoId, NoParent}
  /\ Absent \notin Seq(User) /\ Absent \notin Seq(Id)
  /\ Absent \notin [username : User, parent_id : Id \cup {NoParent}]

ASSUME OpsAssumption == Ops \subseteq {"register", "chirp", "follow", "read"}

ASSUME BoundAssumption ==
  MaxFaults \in Nat /\ MaxCrashes \in Nat /\ SameSecond \in BOOLEAN

VARIABLES
  userId, userFollowed, idChirp, idReply,  \* the store
  issued,     \* ids the generator of this process has handed out
  pc,         \* the next step of each handler
  req,        \* the request it serves
  cid,        \* chirp: the id it generated
  vec,        \* follow, chirp: the list it fetched and is about to store
  queue,      \* read: the chirps to visit
  replies,    \* read: the reply ids of the visited chirp still to be fetched
  thread,     \* read: the chirps answered so far
  status,     \* the status of its last answer
  faults, crashes

store == <<userId, userFollowed, idChirp, idReply>>
local == <<req, cid, vec, queue, replies, thread>>
vars == <<store, issued, pc, local, status, faults, crashes>>

-----------------------------------------------------------------------------
(* Data.                                                                   *)

Chirp == [username : User, parent_id : Id \cup {NoParent}]

RegisterRequest == [op : {"register"}, username : User]
ChirpRequest ==
  [op : {"chirp"}, username : User, parent_id : Id \cup {NoParent}]
FollowRequest == [op : {"follow"}, username : User, to_follow : User]
ReadRequest == [op : {"read"}, chirp_id : Id]
Request == RegisterRequest \cup ChirpRequest \cup FollowRequest \cup ReadRequest
NoRequest == [op |-> "none"]

\* The reply list stored under a parent id: no key for anything but an id.
ReplyKey(p) == IF p \in Id THEN idReply[p] ELSE Absent

-----------------------------------------------------------------------------
(* The store, seen through the client.                                     *)

Fault == faults < MaxFaults /\ faults' = faults + 1

\* (mutant) A Has that may miss a key that is there.
HasAnswersMisses(present, ok) == ok \in {present, FALSE} /\ UNCHANGED faults

\* Has: whether it says ok when the key is there or not.
HasAnswers(present, ok) ==
  \/ ok = present /\ UNCHANGED faults
  \/ ~ok /\ present /\ Fault

\* GetValue of a list: the status is ignored, so a failure and a missing key
\* both read as the empty string, which Deparser turns into the empty list.
Deparsed(value) == IF value = Absent THEN <<>> ELSE value

GetAnswers(value, list) ==
  \/ list = Deparsed(value) /\ UNCHANGED faults
  \/ list = <<>> /\ Fault

\* put: whether it took effect, and whether the client saw it succeed.
PutAnswers(applied, ok) ==
  \/ applied /\ ok /\ UNCHANGED faults
  \/ ~ok /\ Fault

Stored(applied, table, key, value) ==
  IF applied THEN [table EXCEPT ![key] = value] ELSE table

-----------------------------------------------------------------------------
(* Handlers.                                                               *)

At(h, label) == pc[h] = label
Goto(h, label) == pc' = [pc EXCEPT ![h] = label]

\* A handler returns: its locals are gone, its status is sent.
Answer(h, code) ==
  /\ pc' = [pc EXCEPT ![h] = "idle"]
  /\ status' = [status EXCEPT ![h] = code]
  /\ req' = [req EXCEPT ![h] = NoRequest]
  /\ cid' = [cid EXCEPT ![h] = NoId]
  /\ vec' = [vec EXCEPT ![h] = <<>>]
  /\ queue' = [queue EXCEPT ![h] = <<>>]
  /\ replies' = [replies EXCEPT ![h] = <<>>]
  /\ thread' = [thread EXCEPT ![h] = <<>>]

Continue(h, label) == Goto(h, label) /\ UNCHANGED <<local, status>>

\* client.Has, and what the handler does with its answer.
HasThen(present, Yes, No) ==
  /\ \E ok \in BOOLEAN : HasAnswers(present, ok) /\ IF ok THEN Yes ELSE No
  /\ UNCHANGED <<store, issued, crashes>>

Receive(h, r, label) ==
  /\ At(h, "idle")
  /\ r.op \in Ops
  /\ req' = [req EXCEPT ![h] = r]
  /\ Goto(h, label)
  /\ UNCHANGED <<store, issued, cid, vec, queue, replies, thread, status,
                 faults, crashes>>

-----------------------------------------------------------------------------
(* registeruser                                                            *)

ReceiveRegister(h) ==
  \E u \in User : Receive(h, [op |-> "register", username |-> u], "RegisterHas")

\* The user must not be registered yet.
RegisterHas(h) ==
  /\ At(h, "RegisterHas")
  /\ HasThen(userId[req[h].username] # Absent,
             Answer(h, "ALREADY_EXISTS"), Continue(h, "RegisterIdHas"))

\* client.Put(USER_ID + user, ""): its check ...
RegisterIdHas(h) ==
  /\ At(h, "RegisterIdHas")
  /\ HasThen(userId[req[h].username] # Absent,
             Answer(h, "ALREADY_EXISTS"), Continue(h, "RegisterIdPut"))

\* ... and its put.
RegisterIdPut(h) ==
  /\ At(h, "RegisterIdPut")
  /\ \E applied, ok \in BOOLEAN :
       /\ PutAnswers(applied, ok)
       /\ userId' = Stored(applied, userId, req[h].username, NoId)
       /\ IF ok THEN Continue(h, "RegisterFollowedHas") ELSE Answer(h, "UNAVAILABLE")
  /\ UNCHANGED <<userFollowed, idChirp, idReply, issued, crashes>>

\* client.Put(USER_FOLLOWED + user, "")
RegisterFollowedHas(h) ==
  /\ At(h, "RegisterFollowedHas")
  /\ HasThen(userFollowed[req[h].username] # Absent,
             Answer(h, "ALREADY_EXISTS"), Continue(h, "RegisterFollowedPut"))

RegisterFollowedPut(h) ==
  /\ At(h, "RegisterFollowedPut")
  /\ \E applied, ok \in BOOLEAN :
       /\ PutAnswers(applied, ok)
       /\ userFollowed' = Stored(applied, userFollowed, req[h].username, <<>>)
       /\ Answer(h, IF ok THEN "OK" ELSE "UNAVAILABLE")
  /\ UNCHANGED <<userId, idChirp, idReply, issued, crashes>>

-----------------------------------------------------------------------------
(* chirp                                                                   *)

\* Bound: a chirp is only sent while there is an id left for it.
IdsLeft == Cardinality({h \in Handler : At(h, "ChirpHas")})
             < Cardinality(Id \ issued)

\* The parent is whatever the client sends: it may name a chirp that does not
\* exist, or does not exist yet.
ReceiveChirp(h) ==
  /\ IdsLeft
  /\ \E u \in User, p \in Id \cup {NoParent} :
       Receive(h, [op |-> "chirp", username |-> u, parent_id |-> p], "ChirpHas")

\* (mutant) The author's latest chirp is set before the chirp is stored.
ChirpHasLatestFirst(h) ==
  /\ At(h, "ChirpHas")
  /\ \E ok \in BOOLEAN :
       /\ HasAnswers(userId[req[h].username] # Absent, ok)
       /\ IF ok
          THEN /\ \E i \in Id \ issued :
                    issued' = issued \cup {i} /\ cid' = [cid EXCEPT ![h] = i]
               /\ Goto(h, "ChirpUserPut")
               /\ UNCHANGED <<req, vec, queue, replies, thread, status>>
          ELSE Answer(h, "NOT_FOUND") /\ UNCHANGED issued
  /\ UNCHANGED <<store, crashes>>

\* The user must exist; the chirp gets an id this process has not used.
ChirpHas(h) ==
  /\ At(h, "ChirpHas")
  /\ \/ /\ HasAnswers(userId[req[h].username] # Absent, TRUE)
        /\ \E i \in Id \ issued :
             /\ issued' = issued \cup {i}
             /\ cid' = [cid EXCEPT ![h] = i]
        /\ Goto(h, "ChirpIdHas")
        /\ UNCHANGED <<req, vec, queue, replies, thread, status>>
     \/ /\ HasAnswers(userId[req[h].username] # Absent, FALSE)
        /\ Answer(h, "NOT_FOUND")
        /\ UNCHANGED issued
  /\ UNCHANGED <<store, crashes>>

\* client.Put(ID_CHIRP + id, chirp): "ID confliction!" if the id is taken.
ChirpIdHas(h) ==
  /\ At(h, "ChirpIdHas")
  /\ HasThen(idChirp[cid[h]] # Absent,
             Answer(h, "ALREADY_EXISTS"), Continue(h, "ChirpIdPut"))

TheChirp(h) == [username |-> req[h].username, parent_id |-> req[h].parent_id]

\* (mutant) The status of the put is not looked at.
ChirpIdPutUnchecked(h) ==
  /\ At(h, "ChirpIdPut")
  /\ \E applied, ok \in BOOLEAN :
       /\ PutAnswers(applied, ok)
       /\ idChirp' = Stored(applied, idChirp, cid[h], TheChirp(h))
  /\ Continue(h, "ChirpUserPut")
  /\ UNCHANGED <<userId, userFollowed, idReply, issued, crashes>>

ChirpIdPut(h) ==
  /\ At(h, "ChirpIdPut")
  /\ \E applied, ok \in BOOLEAN :
       /\ PutAnswers(applied, ok)
       /\ idChirp' = Stored(applied, idChirp, cid[h], TheChirp(h))
       /\ IF ok THEN Continue(h, "ChirpUserPut") ELSE Answer(h, "ALREADY_EXISTS")
  /\ UNCHANGED <<userId, userFollowed, idReply, issued, crashes>>

\* (mutant) The chirp's own list of replies is created before it is linked.
ChirpUserPutListFirst(h) ==
  /\ At(h, "ChirpUserPut")
  /\ userId' = [userId EXCEPT ![req[h].username] = cid[h]]
  /\ idReply' = [idReply EXCEPT ![cid[h]] = <<>>]
  /\ Continue(h, "ChirpParentHas")
  /\ UNCHANGED <<userFollowed, idChirp, issued, faults, crashes>>

\* The user's latest chirp.
ChirpUserPut(h) ==
  /\ At(h, "ChirpUserPut")
  /\ \E applied, ok \in BOOLEAN :
       /\ PutAnswers(applied, ok)
       /\ userId' = Stored(applied, userId, req[h].username, cid[h])
       /\ IF ok THEN Continue(h, "ChirpParentHas") ELSE Answer(h, "ALREADY_EXISTS")
  /\ UNCHANGED <<userFollowed, idChirp, idReply, issued, crashes>>

\* (mutants) The list is taken to be there; it is never looked for; it is
\* waited for.
ChirpParentGoesTo(h, l) ==
  /\ At(h, "ChirpParentHas")
  /\ Continue(h, l)
  /\ UNCHANGED <<store, issued, faults, crashes>>
ChirpParentAssumed(h) == ChirpParentGoesTo(h, "ChirpParentGet")
ChirpParentIgnored(h) == ChirpParentGoesTo(h, "ChirpReplyPut")
ChirpParentAwaited(h) ==
  ChirpParentGoesTo(h, IF ReplyKey(req[h].parent_id) = Absent
                       THEN "ChirpParentHas" ELSE "ChirpParentGet")

\* Does the parent have a list of replies?
ChirpParentHas(h) ==
  /\ At(h, "ChirpParentHas")
  /\ HasThen(ReplyKey(req[h].parent_id) # Absent,
             Continue(h, "ChirpParentGet"), Continue(h, "ChirpReplyPut"))

\* Fetch the parent's list and append this chirp ...
ChirpParentGet(h) ==
  /\ At(h, "ChirpParentGet")
  /\ \E list \in {<<>>, idReply[req[h].parent_id]} :
       /\ GetAnswers(idReply[req[h].parent_id], list)
       /\ vec' = [vec EXCEPT ![h] = Append(list, cid[h])]
  /\ Goto(h, "ChirpParentPut")
  /\ UNCHANGED <<store, issued, req, cid, queue, replies, thread, status, crashes>>

\* (mutant) The list is replaced, not extended.
ChirpParentPutReplaces(h) ==
  /\ At(h, "ChirpParentPut")
  /\ idReply' = [idReply EXCEPT ![req[h].parent_id] = <<cid[h]>>]
  /\ Continue(h, "ChirpReplyPut")
  /\ UNCHANGED <<userId, userFollowed, idChirp, issued, faults, crashes>>

\* ... and store it.
ChirpParentPut(h) ==
  /\ At(h, "ChirpParentPut")
  /\ \E applied, ok \in BOOLEAN :
       /\ PutAnswers(applied, ok)
       /\ idReply' = Stored(applied, idReply, req[h].parent_id, vec[h])
       /\ IF ok THEN Continue(h, "ChirpReplyPut") ELSE Answer(h, "ALREADY_EXISTS")
  /\ UNCHANGED <<userId, userFollowed, idChirp, issued, crashes>>

\* The chirp's own list of replies, empty, comes last.
ChirpReplyPut(h) ==
  /\ At(h, "ChirpReplyPut")
  /\ \E applied, ok \in BOOLEAN :
       /\ PutAnswers(applied, ok)
       /\ idReply' = Stored(applied, idReply, cid[h], <<>>)
       /\ Answer(h, IF ok THEN "OK" ELSE "ALREADY_EXISTS")
  /\ UNCHANGED <<userId, userFollowed, idChirp, issued, crashes>>

-----------------------------------------------------------------------------
(* follow                                                                  *)

ReceiveFollow(h) ==
  \E u, f \in User :
    Receive(h, [op |-> "follow", username |-> u, to_follow |-> f], "FollowHas")

\* Nobody follows themselves; the follower must exist ...
FollowHas(h) ==
  /\ At(h, "FollowHas")
  /\ \/ /\ req[h].username = req[h].to_follow
        /\ Answer(h, "NOT_FOUND")
        /\ UNCHANGED faults
        /\ UNCHANGED <<store, issued, crashes>>
     \/ /\ req[h].username # req[h].to_follow
        /\ HasThen(userFollowed[req[h].username] # Absent,
                   Continue(h, "FollowHasTo"), Answer(h, "NOT_FOUND"))

\* (mutant) The one followed need not exist.
FollowHasToUnchecked(h) ==
  /\ At(h, "FollowHasTo")
  /\ Continue(h, "FollowGet")
  /\ UNCHANGED <<store, issued, faults, crashes>>

\* ... and so must the one followed.
FollowHasTo(h) ==
  /\ At(h, "FollowHasTo")
  /\ HasThen(userFollowed[req[h].to_follow] # Absent,
             Continue(h, "FollowGet"), Answer(h, "NOT_FOUND"))

\* Fetch the list; a name already in it is an error, else it is appended.
FollowGet(h) ==
  /\ At(h, "FollowGet")
  /\ \E list \in {<<>>, userFollowed[req[h].username]} :
       /\ GetAnswers(userFollowed[req[h].username], list)
       /\ \/ /\ req[h].to_follow \in Range(list)
             /\ Answer(h, "ALREADY_EXISTS")
          \/ /\ req[h].to_follow \notin Range(list)
             /\ vec' = [vec EXCEPT ![h] = Append(list, req[h].to_follow)]
             /\ Goto(h, "FollowPut")
             /\ UNCHANGED <<req, cid, queue, replies, thread, status>>
  /\ UNCHANGED <<store, issued, crashes>>

\* (mutant) The list is replaced, not extended.
FollowPutReplaces(h) ==
  /\ At(h, "FollowPut")
  /\ userFollowed' = [userFollowed EXCEPT ![req[h].username] = <<req[h].to_follow>>]
  /\ Answer(h, "OK")
  /\ UNCHANGED <<userId, idChirp, idReply, issued, faults, crashes>>

\* The result of the put is not looked at.
FollowPut(h) ==
  /\ At(h, "FollowPut")
  /\ \E applied, ok \in BOOLEAN :
       /\ PutAnswers(applied, ok)
       /\ userFollowed' = Stored(applied, userFollowed, req[h].username, vec[h])
  /\ Answer(h, "OK")
  /\ UNCHANGED <<userId, idChirp, idReply, issued, crashes>>

-----------------------------------------------------------------------------
(* read: the thread of a chirp, breadth first                              *)

ReceiveRead(h) ==
  \E i \in Id : Receive(h, [op |-> "read", chirp_id |-> i], "ReadHas")

ReadHas(h) ==
  /\ At(h, "ReadHas")
  /\ HasThen(idChirp[req[h].chirp_id] # Absent,
             Continue(h, "ReadRoot"), Answer(h, "NOT_FOUND"))

\* GetIdChirp and StringToChirp: the chirp, or a blank one whose id is "".
FetchAnswers(i, c) ==
  \/ c = (IF idChirp[i] # Absent THEN i ELSE NoId) /\ UNCHANGED faults
  \/ c = NoId /\ Fault

ReadRoot(h) ==
  /\ At(h, "ReadRoot")
  /\ \E c \in {req[h].chirp_id, NoId} :
       /\ FetchAnswers(req[h].chirp_id, c)
       /\ queue' = [queue EXCEPT ![h] = <<c>>]
  /\ Goto(h, "ReadLoop")
  /\ UNCHANGED <<store, issued, req, cid, vec, replies, thread, status, crashes>>

\* (mutants) The queue is not popped; only the first reply is kept.
ReadVisit(h, rest, kept(_)) ==
  /\ At(h, "ReadLoop") /\ replies[h] = <<>> /\ queue[h] # <<>>
  /\ thread' = [thread EXCEPT ![h] = Append(@, Head(queue[h]))]
  /\ queue' = [queue EXCEPT ![h] = rest]
  /\ replies' = [replies EXCEPT ![h] = kept(Deparsed(ReplyKey(Head(queue[h]))))]
  /\ UNCHANGED <<store, issued, pc, req, cid, vec, status, faults, crashes>>
ReadRepliesNoPop(h) == ReadVisit(h, queue[h], LAMBDA list : list)
ReadRepliesFirst(h) ==
  ReadVisit(h, Tail(queue[h]), LAMBDA list : IF list = <<>> THEN list ELSE <<Head(list)>>)

\* Visit the chirp at the front of the queue and fetch the ids of its replies.
ReadReplies(h) ==
  /\ At(h, "ReadLoop") /\ replies[h] = <<>> /\ queue[h] # <<>>
  /\ LET curr == Head(queue[h])
     IN  /\ thread' = [thread EXCEPT ![h] = Append(@, curr)]
         /\ queue' = [queue EXCEPT ![h] = Tail(@)]
         /\ \E list \in {<<>>, Deparsed(ReplyKey(curr))} :
              /\ GetAnswers(ReplyKey(curr), list)
              /\ replies' = [replies EXCEPT ![h] = list]
  /\ UNCHANGED <<store, issued, pc, req, cid, vec, status, crashes>>

\* (mutant) It is queued in front of what is there.
ReadChirpInFront(h) ==
  /\ At(h, "ReadLoop") /\ replies[h] # <<>>
  /\ queue' = [queue EXCEPT ![h] = <<Head(replies[h])>> \o @]
  /\ replies' = [replies EXCEPT ![h] = Tail(@)]
  /\ UNCHANGED <<store, issued, pc, req, cid, vec, thread, status, faults, crashes>>

\* Fetch the next reply and queue it.
ReadChirp(h) ==
  /\ At(h, "ReadLoop") /\ replies[h] # <<>>
  /\ \E c \in {Head(replies[h]), NoId} :
       /\ FetchAnswers(Head(replies[h]), c)
       /\ queue' = [queue EXCEPT ![h] = Append(@, c)]
       /\ replies' = [replies EXCEPT ![h] = Tail(@)]
  /\ UNCHANGED <<store, issued, pc, req, cid, vec, thread, status, crashes>>

ReadReturn(h) ==
  /\ At(h, "ReadLoop") /\ replies[h] = <<>> /\ queue[h] = <<>>
  /\ Answer(h, "OK")
  /\ UNCHANGED <<store, issued, faults, crashes>>

-----------------------------------------------------------------------------
(* The service process dies and starts again: handlers in progress are gone *)
(* and their clients get no answer.  The generator starts over with the     *)
(* clock's second and sequence number 0, so within the same second it hands *)
(* out the same ids again.                                                  *)

Restart ==
  /\ crashes < MaxCrashes
  /\ crashes' = crashes + 1
  /\ pc' = [h \in Handler |-> "idle"]
  /\ status' = [h \in Handler |-> "none"]
  /\ req' = [h \in Handler |-> NoRequest]
  /\ cid' = [h \in Handler |-> NoId]
  /\ vec' = [h \in Handler |-> <<>>]
  /\ queue' = [h \in Handler |-> <<>>]
  /\ replies' = [h \in Handler |-> <<>>]
  /\ thread' = [h \in Handler |-> <<>>]
  /\ issued' \in {issued} \cup (IF SameSecond THEN {{}} ELSE {})
  /\ UNCHANGED <<store, faults>>

-----------------------------------------------------------------------------
Init ==
  /\ userId = [u \in User |-> Absent]
  /\ userFollowed = [u \in User |-> Absent]
  /\ idChirp = [i \in Id |-> Absent]
  /\ idReply = [i \in Id |-> Absent]
  /\ issued = {}
  /\ pc = [h \in Handler |-> "idle"]
  /\ req = [h \in Handler |-> NoRequest]
  /\ cid = [h \in Handler |-> NoId]
  /\ vec = [h \in Handler |-> <<>>]
  /\ queue = [h \in Handler |-> <<>>]
  /\ replies = [h \in Handler |-> <<>>]
  /\ thread = [h \in Handler |-> <<>>]
  /\ status = [h \in Handler |-> "none"]
  /\ faults = 0
  /\ crashes = 0

Register(h) == \/ RegisterHas(h) \/ RegisterIdHas(h) \/ RegisterIdPut(h)
               \/ RegisterFollowedHas(h) \/ RegisterFollowedPut(h)

DoChirp(h) == \/ ChirpHas(h) \/ ChirpIdHas(h) \/ ChirpIdPut(h) \/ ChirpUserPut(h)
              \/ ChirpParentHas(h) \/ ChirpParentGet(h) \/ ChirpParentPut(h)
              \/ ChirpReplyPut(h)

Follow(h) == FollowHas(h) \/ FollowHasTo(h) \/ FollowGet(h) \/ FollowPut(h)

Read(h) == \/ ReadHas(h) \/ ReadRoot(h) \/ ReadReplies(h) \/ ReadChirp(h)
           \/ ReadReturn(h)

\* A step of the code of a handler that serves a request.
Handle(h) == Register(h) \/ DoChirp(h) \/ Follow(h) \/ Read(h)

Arrive(h) == \/ ReceiveRegister(h) \/ ReceiveChirp(h)
             \/ ReceiveFollow(h) \/ ReceiveRead(h)

Next == (\E h \in Handler : Arrive(h) \/ Handle(h)) \/ Restart

Spec == Init /\ [][Next]_vars

-----------------------------------------------------------------------------
(* Properties.                                                             *)

RegisterSteps == {"RegisterHas", "RegisterIdHas", "RegisterIdPut",
                  "RegisterFollowedHas", "RegisterFollowedPut"}
\* The steps of chirp that follow the generation of an id, ...
ChirpIdSteps == {"ChirpIdHas", "ChirpIdPut", "ChirpUserPut", "ChirpParentHas",
                 "ChirpParentGet", "ChirpParentPut", "ChirpReplyPut"}
\* ... those that follow the put of the chirp, ...
ChirpStoredSteps == ChirpIdSteps \ {"ChirpIdHas", "ChirpIdPut"}
\* ... and those between the Has and the put of the parent's list.
ChirpParentSteps == {"ChirpParentGet", "ChirpParentPut"}
FollowSteps == {"FollowHas", "FollowHasTo", "FollowGet", "FollowPut"}
ReadSteps == {"ReadHas", "ReadRoot", "ReadLoop"}

Label == {"idle", "ChirpHas"} \cup RegisterSteps \cup ChirpIdSteps
           \cup FollowSteps \cup ReadSteps

\* The request and the locals that the next step of h needs.
LocalsOK(h) ==
  /\ pc[h] \in RegisterSteps => req[h] \in RegisterRequest
  /\ pc[h] \in {"ChirpHas"} \cup ChirpIdSteps => req[h] \in ChirpRequest
  /\ pc[h] \in FollowSteps => req[h] \in FollowRequest
  /\ pc[h] \in ReadSteps => req[h] \in ReadRequest
  /\ pc[h] \in ChirpIdSteps => cid[h] \in issued
  /\ pc[h] \in ChirpParentSteps => req[h].parent_id \in Id
  /\ pc[h] = "ChirpParentPut" => vec[h] \in Seq(Id)
  /\ pc[h] = "FollowPut" => vec[h] \in Seq(User)

StoreTypeOK ==
  /\ userId \in [User -> Id \cup {NoId, Absent}]
  /\ userFollowed \in [User -> Seq(User) \cup {Absent}]
  /\ idChirp \in [Id -> Chirp \cup {Absent}]
  /\ idReply \in [Id -> Seq(Id) \cup {Absent}]

HandlerTypeOK ==
  /\ pc \in [Handler -> Label]
  /\ req \in [Handler -> Request \cup {NoRequest}]
  /\ cid \in [Handler -> Id \cup {NoId}]
  /\ vec \in [Handler -> Seq(Id) \cup Seq(User)]
  /\ queue \in [Handler -> Seq(Id \cup {NoId})]
  /\ replies \in [Handler -> Seq(Id)]
  /\ thread \in [Handler -> Seq(Id \cup {NoId})]
  /\ status \in [Handler -> {"none", "OK", "ALREADY_EXISTS", "NOT_FOUND",
                             "UNAVAILABLE"}]

\* Every variable has its type, and every handler what its next step needs.
TypeOK ==
  /\ StoreTypeOK
  /\ HandlerTypeOK
  /\ \A h \in Handler : LocalsOK(h)
  /\ issued \subseteq Id
  /\ faults \in 0 .. MaxFaults
  /\ crashes \in 0 .. MaxCrashes

\* GetUserId gives monitor a chirp to send: the id stored for a user names a
\* chirp that is in the store and was written by that user (service.cc:92).
LatestIsOwnChirp ==
  \A u \in User : userId[u] \in Id =>
    idChirp[userId[u]] # Absent /\ idChirp[userId[u]].username = u

\* A reply list holds the ids of stored chirps that name its key as their
\* parent, each once, and the list's own chirp is stored (service.cc:96-112).
RepliesAreReplies ==
  \A p \in Id : idReply[p] # Absent =>
    /\ idChirp[p] # Absent
    /\ IsInjective(idReply[p])
    /\ \A i \in Range(idReply[p]) :
         idChirp[i] # Absent /\ idChirp[i].parent_id = p

\* A list of followed names holds users that have registered, never its owner
\* and nobody twice, and its owner has registered (service.cc:34-37, 120-141).
FollowedAreUsers ==
  \A u \in User : userFollowed[u] # Absent =>
    /\ userId[u] # Absent
    /\ IsInjective(userFollowed[u])
    /\ \A f \in Range(userFollowed[u]) : f # u /\ userFollowed[f] # Absent

\* c is, or is about to be, in the reply list of p.
ReplyEdge(p, c) ==
  \/ idReply[p] # Absent /\ c \in Range(idReply[p])
  \/ \E h \in Handler :
       At(h, "ChirpParentPut") /\ req[h].parent_id = p /\ c \in Range(vec[h])

\* The loop of read (service.cc:158) ends because the reply lists have no
\* cycle: every set of chirps has one that no other of them replies to.
\* Handlers that link to guessed ids or to each other's chirps cannot close
\* one, because a chirp's own list is created last (service.cc:105, 109).
ThreadsAcyclic ==
  \A S \in SUBSET Id : S # {} =>
    \E p \in S : \A c \in S : ~ReplyEdge(p, c)

\* What a read has answered so far is a piece of one thread: no chirp twice,
\* and after the first each is a reply to one answered before it, although
\* other handlers link replies between two of its fetches (service.cc:158-171).
ThreadIsATree ==
  \A h \in Handler :
    LET t == thread[h]
    IN  \A n \in DOMAIN t : t[n] \in Id \/ faults = 0 =>
          /\ t[n] \in Id
          /\ \A m \in 1 .. (n - 1) : t[m] # t[n]
          /\ n > 1 => \E m \in 1 .. (n - 1) : t[m] = idChirp[t[n]].parent_id

\* The id of a user's last chirp is never reset to none.
LatestNotForgotten ==
  [][\A u \in User : userId[u] \in Id => userId'[u] \in Id]_vars

\* Lists in the store only ever grow at their end: nobody follow or chirp
\* once recorded is dropped (service.cc:98-102, 129-141).
GrownFrom(new, old) == old # Absent => new # Absent /\ IsPrefix(old, new)

FollowedOnlyGrows ==
  [][\A u \in User : GrownFrom(userFollowed'[u], userFollowed[u])]_vars

RepliesOnlyGrow ==
  [][\A i \in Id : GrownFrom(idReply'[i], idReply[i])]_vars

Answers(h, op, code) == req[h].op = op /\ pc'[h] = "idle" /\ status'[h] = code

\* A chirp answered OK can be found: it is stored, it is its author's latest,
\* and if its parent is a chirp of the store, its parent's list has it.
ChirpOkIsLinked ==
  [][\A h \in Handler : Answers(h, "chirp", "OK") =>
       LET p == req[h].parent_id
       IN  /\ idChirp'[cid[h]] = TheChirp(h)
           /\ userId'[req[h].username] = cid[h]
           /\ idReply'[cid[h]] # Absent
           /\ p \in Id \ {cid[h]} /\ idChirp[p] # Absent
                => idReply'[p] # Absent /\ cid[h] \in Range(idReply'[p])]_vars

\* A registration is answered OK only to the first who asks for the name
\* (the comment at service.cc:21-24).
RegisterOkIsFirst ==
  [][\A h \in Handler : Answers(h, "register", "OK") =>
       userFollowed[req[h].username] = Absent]_vars

\* A read answered OK starts with the chirp asked for and leaves out none of
\* the replies in the list of any chirp it contains (service.cc:144-172).
ReadOkIsWhole ==
  [][\A h \in Handler : Answers(h, "read", "OK") =>
       /\ Head(thread[h]) = req[h].chirp_id
       /\ \A i \in Range(thread[h]) :
            Range(Deparsed(ReplyKey(i))) \subseteq Range(thread[h])]_vars
=============================================================================

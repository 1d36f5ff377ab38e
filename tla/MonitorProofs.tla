--------------------------- MODULE MonitorProofs ---------------------------
(***************************************************************************)
(* Proofs about Monitor: the types, and that a stream tells news in order,   *)
(* for any number of callers, users, chirps, follows and failing RPCs.      *)
(***************************************************************************)
EXTENDS Monitor, TLAPS

\* The latest chirp of a user is one of his.
LatestIsOwn == \A u \in User : userId[u] # None => chirps[userId[u]].username = u

\* The id in hand is of the one that is being looked at.
IdInHand(c) ==
  pc[c] = "fetch" =>
    /\ followed[c] # <<>>
    /\ id[c] # None => chirps[id[c]].username = Head(followed[c])

\* Who is in the list now is among those who have been in it since the call began, ...
ListIsListed(c) == \A n \in DOMAIN userFollowed[c] : userFollowed[c][n] \in listed[c]

\* ... and so is whoever a pass looks at, also if a handler of follow has put a list
\* without him since the pass began.
PassIsListed(c) == \A n \in DOMAIN followed[c] : followed[c][n] \in listed[c]

NothingYet(c) == pc[c] \in {"idle", "first"} => sent[c] = <<>> /\ followed[c] = <<>>

\* What has been sent is no newer than curr, which is no older than the call.
SentInOrder(c) ==
  /\ began[c] <= curr[c]
  /\ \A n \in DOMAIN sent[c] :
       /\ began[c] < Useconds(sent[c][n]) /\ Useconds(sent[c][n]) <= curr[c]
       /\ chirps[sent[c][n]].username \in listed[c]
       /\ \A m \in 1 .. (n - 1) : Useconds(sent[c][m]) < Useconds(sent[c][n])

Put == [username : Caller, list : Seq(User)]

StoreType ==
  /\ clock \in 1 .. MaxTime /\ faults \in 0 .. MaxFaults
  /\ chirps \in Seq(Chirp) /\ unpublished \subseteq DOMAIN chirps
  /\ userId \in [User -> {None} \cup DOMAIN chirps]
  /\ userFollowed \in [Caller -> Seq(User)] /\ extended \subseteq Put

Label == {"idle", "first", "pass", "look", "fetch"}

LocalType ==
  /\ followed \in [Caller -> Seq(User)] /\ listed \in [Caller -> SUBSET User]
  /\ pc \in [Caller -> Label]
  /\ curr \in [Caller -> Nat] /\ began \in [Caller -> Nat]
  /\ id \in [Caller -> {None} \cup DOMAIN chirps]
  /\ sent \in [Caller -> Seq(DOMAIN chirps)]

CallerInv(c) ==
  /\ IdInHand(c) /\ ListIsListed(c) /\ PassIsListed(c)
  /\ NothingYet(c) /\ SentInOrder(c)

MonitorInv ==
  /\ StoreType /\ LocalType /\ LatestIsOwn
  /\ \A c \in Caller : CallerInv(c)

-----------------------------------------------------------------------------
(* The other handlers and the clock: chirps stay, lists do not.             *)

ChirpsStay ==
  \A i \in DOMAIN chirps : i \in DOMAIN chirps' /\ chirps'[i] = chirps[i]

LEMMA UsecondsStays ==
  ASSUME ChirpsStay, NEW i \in DOMAIN chirps
  PROVE  Useconds(i)' = Useconds(i)
BY DEF ChirpsStay, Useconds

LEMMA UsecondsType ==
  ASSUME StoreType, NEW i
  PROVE  Useconds(i) \in Nat
<1>1. i \in DOMAIN chirps => chirps[i] \in Chirp
  BY DEF StoreType
<1>. QED  BY <1>1 DEF Chirp, Useconds

\* What a caller has seen stays true while others chirp and follow.
LEMMA OthersKeepCaller ==
  ASSUME MonitorInv, UNCHANGED local, ChirpsStay, NEW c \in Caller,
         listed[c] \subseteq listed'[c], ListIsListed(c)'
  PROVE  CallerInv(c)'
<1>0. UNCHANGED <<pc, curr, id, followed, began, sent>>
  BY DEF local
<1>1. /\ IdInHand(c) /\ PassIsListed(c) /\ NothingYet(c) /\ SentInOrder(c)
      /\ id[c] \in {None} \cup DOMAIN chirps /\ sent[c] \in Seq(DOMAIN chirps)
  BY DEF MonitorInv, CallerInv, LocalType
<1>2. \A n \in DOMAIN sent[c] : sent[c][n] \in DOMAIN chirps
  BY <1>1
<1>3. IdInHand(c)'
  BY <1>0, <1>1 DEF IdInHand, ChirpsStay
<1>4. PassIsListed(c)'
  BY <1>0, <1>1 DEF PassIsListed
<1>5. NothingYet(c)'
  BY <1>0, <1>1 DEF NothingYet
<1>6. \A n \in DOMAIN sent[c] : /\ Useconds(sent[c][n])' = Useconds(sent[c][n])
                                /\ chirps'[sent[c][n]] = chirps[sent[c][n]]
  BY <1>0, <1>2, UsecondsStays DEF ChirpsStay
<1>7. SentInOrder(c)'
  <2>0. \A n \in DOMAIN sent[c] : chirps[sent[c][n]].username \in listed'[c]
    BY <1>1 DEF SentInOrder
  <2>1. \A n \in DOMAIN sent[c] : \A m \in 1 .. (n - 1) : m \in DOMAIN sent[c]
    BY <1>1
  <2>. QED  BY <1>0, <1>1, <1>6, <2>0, <2>1 DEF SentInOrder
<1>. QED  BY <1>3, <1>4, <1>5, <1>7 DEF CallerInv

LEMMA ListsUnchanged ==
  ASSUME MonitorInv, UNCHANGED <<userFollowed, listed>>, NEW c \in Caller
  PROVE  listed[c] \subseteq listed'[c] /\ ListIsListed(c)'
BY DEF MonitorInv, CallerInv, ListIsListed

\* A list that is put may lack names, but it adds none that are not listed by then.
LEMMA ListPut ==
  ASSUME MonitorInv, NEW d \in Caller, NEW list \in Seq(User), PutFollowed(d, list)
  PROVE  /\ userFollowed' \in [Caller -> Seq(User)] /\ listed' \in [Caller -> SUBSET User]
         /\ \A c \in Caller : listed[c] \subseteq listed'[c] /\ ListIsListed(c)'
<1>1. userFollowed \in [Caller -> Seq(User)] /\ listed \in [Caller -> SUBSET User]
  BY DEF MonitorInv, StoreType, LocalType
<1>2. \A n \in DOMAIN list : list[n] \in Range(list) /\ list[n] \in User
  BY DEF Range
<1>3. Range(list) \subseteq User
  BY <1>2 DEF Range
<1>4. /\ userFollowed' = [userFollowed EXCEPT ![d] = list]
      /\ listed' = [listed EXCEPT ![d] = listed[d] \cup Range(list)]
  BY DEF PutFollowed
<1>5. userFollowed' \in [Caller -> Seq(User)] /\ listed' \in [Caller -> SUBSET User]
  BY <1>1, <1>3, <1>4
<1>6. ASSUME NEW c \in Caller PROVE listed[c] \subseteq listed'[c] /\ ListIsListed(c)'
  <2>1. ListIsListed(c)
    BY DEF MonitorInv, CallerInv
  <2>2. CASE c = d
    <3>1. userFollowed'[c] = list /\ listed'[c] = listed[c] \cup Range(list)
      BY <1>1, <1>4, <2>2
    <3>. QED  BY <1>2, <3>1 DEF ListIsListed
  <2>3. CASE c # d
    <3>1. userFollowed'[c] = userFollowed[c] /\ listed'[c] = listed[c]
      BY <1>1, <1>4, <2>3
    <3>. QED  BY <2>1, <3>1 DEF ListIsListed
  <2>. QED  BY <2>2, <2>3
<1>. QED  BY <1>5, <1>6

LEMMA SeqOfMore ==
  ASSUME NEW S, NEW T, S \subseteq T, NEW s \in Seq(S)
  PROVE  s \in Seq(T)
OBVIOUS

LEMMA TickStep == ASSUME MonitorInv, Tick  PROVE MonitorInv'
<1>1. /\ UNCHANGED <<chirps, unpublished, userId, userFollowed, extended, listed, faults>>
      /\ UNCHANGED local /\ clock < MaxTime /\ clock' = clock + 1
  BY DEF Tick, store
<1>2. ChirpsStay
  BY <1>1 DEF ChirpsStay
<1>3. \A c \in Caller : CallerInv(c)'
  BY <1>1, <1>2, ListsUnchanged, OthersKeepCaller
<1>4. StoreType'
  BY <1>1, MonitorBoundsAssumption DEF MonitorInv, StoreType
<1>5. LocalType' /\ LatestIsOwn'
  BY <1>1 DEF MonitorInv, LocalType, LatestIsOwn, local
<1>. QED  BY <1>3, <1>4, <1>5 DEF MonitorInv

LEMMA MakeStep == ASSUME MonitorInv, NEW u \in User, Make(u)  PROVE MonitorInv'
<1> DEFINE new == [username |-> u, useconds |-> clock]
<1>0. /\ chirps \in Seq(Chirp) /\ clock \in Nat /\ unpublished \subseteq DOMAIN chirps
      /\ userId \in [User -> {None} \cup DOMAIN chirps] /\ faults \in 0 .. MaxFaults
      /\ clock \in 1 .. MaxTime /\ userFollowed \in [Caller -> Seq(User)]
      /\ extended \subseteq Put
  BY MonitorBoundsAssumption DEF MonitorInv, StoreType
<1>1. /\ UNCHANGED <<clock, userId, userFollowed, extended, listed, faults>>
      /\ UNCHANGED local /\ chirps' = Append(chirps, new)
      /\ unpublished' = unpublished \cup {Len(chirps) + 1}
  BY DEF Make
<1>2. new \in Chirp
  BY <1>0 DEF Chirp
<1> HIDE DEF new
<1>3. chirps' \in Seq(Chirp) /\ DOMAIN chirps' = 1 .. (Len(chirps) + 1) /\ Len(chirps) \in Nat
  BY <1>0, <1>1, <1>2
<1>4. ChirpsStay
  BY <1>0, <1>1, <1>2 DEF ChirpsStay
<1>5. \A c \in Caller : CallerInv(c)'
  BY <1>1, <1>4, ListsUnchanged, OthersKeepCaller
<1>6. DOMAIN chirps \subseteq DOMAIN chirps' /\ Len(chirps) + 1 \in DOMAIN chirps'
  BY <1>3, <1>4 DEF ChirpsStay
<1>7. StoreType'
  BY <1>0, <1>1, <1>3, <1>6 DEF StoreType
<1>8. LocalType'
  <2>1. /\ UNCHANGED <<pc, curr, id, followed, began, listed, sent>>
        /\ followed \in [Caller -> Seq(User)] /\ pc \in [Caller -> Label]
        /\ listed \in [Caller -> SUBSET User]
        /\ curr \in [Caller -> Nat] /\ began \in [Caller -> Nat]
        /\ id \in [Caller -> {None} \cup DOMAIN chirps] /\ sent \in [Caller -> Seq(DOMAIN chirps)]
    BY <1>1 DEF MonitorInv, LocalType, local
  <2>2. \A c \in Caller : sent[c] \in Seq(DOMAIN chirps')
    BY <1>6, <2>1, SeqOfMore
  <2>3. sent' \in [Caller -> Seq(DOMAIN chirps')]
    BY <2>1, <2>2
  <2>4. id' \in [Caller -> {None} \cup DOMAIN chirps']
    BY <1>6, <2>1
  <2>. QED  BY <2>1, <2>3, <2>4 DEF LocalType
<1>9. LatestIsOwn'
  BY <1>0, <1>1, <1>4 DEF MonitorInv, LatestIsOwn, ChirpsStay
<1>. QED  BY <1>5, <1>7, <1>8, <1>9 DEF MonitorInv

LEMMA PublishStep == ASSUME MonitorInv, NEW i \in unpublished, Publish(i)  PROVE MonitorInv'
<1>1. /\ UNCHANGED <<clock, chirps, userFollowed, extended, listed, faults>>
      /\ UNCHANGED local
      /\ unpublished' = unpublished \ {i}
      /\ userId' = [userId EXCEPT ![chirps[i].username] = i]
  BY DEF Publish
<1>2. ChirpsStay
  BY <1>1 DEF ChirpsStay
<1>3. \A c \in Caller : CallerInv(c)'
  BY <1>1, <1>2, ListsUnchanged, OthersKeepCaller
<1>4. i \in DOMAIN chirps /\ chirps[i].username \in User
  <2>1. i \in DOMAIN chirps /\ chirps[i] \in Chirp
    BY DEF MonitorInv, StoreType
  <2>. QED  BY <2>1 DEF Chirp
<1>5. StoreType'
  BY <1>1, <1>4 DEF MonitorInv, StoreType
<1>6. LocalType'
  BY <1>1 DEF MonitorInv, LocalType, local
<1>7. LatestIsOwn'
  BY <1>1, <1>4 DEF MonitorInv, LatestIsOwn, StoreType
<1>. QED  BY <1>3, <1>5, <1>6, <1>7 DEF MonitorInv

LEMMA RegisterIdPutStep ==
  ASSUME MonitorInv, NEW u \in User, RegisterIdPut(u)
  PROVE  MonitorInv'
<1>1. /\ UNCHANGED <<clock, chirps, unpublished, userFollowed, extended, listed, faults>>
      /\ UNCHANGED local /\ userId' = [userId EXCEPT ![u] = None]
  BY DEF RegisterIdPut
<1>2. ChirpsStay
  BY <1>1 DEF ChirpsStay
<1>3. \A c \in Caller : CallerInv(c)'
  BY <1>1, <1>2, ListsUnchanged, OthersKeepCaller
<1>4. StoreType'
  BY <1>1 DEF MonitorInv, StoreType
<1>5. LocalType' /\ LatestIsOwn'
  BY <1>1 DEF MonitorInv, LocalType, LatestIsOwn, StoreType, local
<1>. QED  BY <1>3, <1>4, <1>5 DEF MonitorInv

\* What follow and registeruser do to the lists leaves the chirps, the clock and the
\* callers alone.
LEMMA FollowSteps ==
  ASSUME MonitorInv, UNCHANGED <<clock, chirps, unpublished, userId, local>>,
         extended' \subseteq Put, faults' \in 0 .. MaxFaults,
         \/ UNCHANGED <<userFollowed, listed>>
         \/ \E c \in Caller, list \in Seq(User) : PutFollowed(c, list)
  PROVE  MonitorInv'
<1>1. ChirpsStay
  BY DEF ChirpsStay
<1>2. /\ userFollowed' \in [Caller -> Seq(User)] /\ listed' \in [Caller -> SUBSET User]
      /\ \A c \in Caller : listed[c] \subseteq listed'[c] /\ ListIsListed(c)'
  <2>1. CASE UNCHANGED <<userFollowed, listed>>
    BY <2>1, ListsUnchanged DEF MonitorInv, StoreType, LocalType
  <2>2. CASE \E c \in Caller, list \in Seq(User) : PutFollowed(c, list)
    BY <2>2, ListPut
  <2>. QED  BY <2>1, <2>2
<1>3. \A c \in Caller : CallerInv(c)'
  BY <1>1, <1>2, OthersKeepCaller
<1>4. StoreType'
  BY <1>2 DEF MonitorInv, StoreType
<1>5. LocalType' /\ LatestIsOwn'
  BY <1>2 DEF MonitorInv, LocalType, LatestIsOwn, local
<1>. QED  BY <1>3, <1>4, <1>5 DEF MonitorInv

LEMMA AnswersType ==
  ASSUME StoreType, NEW v, NEW w, NEW nothing, Answers(v, w, nothing)
  PROVE  faults' \in 0 .. MaxFaults
BY MonitorBoundsAssumption DEF StoreType, Answers, Fault

LEMMA FollowGetStep ==
  ASSUME MonitorInv, NEW c \in Caller, NEW u \in User, FollowGet(c, u)
  PROVE  MonitorInv'
<1>1. PICK list \in {userFollowed[c], <<>>} :
        /\ Answers(list, userFollowed[c], <<>>)
        /\ extended' = extended \cup {[username |-> c, list |-> Append(list, u)]}
  BY DEF FollowGet
<1>2. list \in Seq(User) /\ extended \subseteq Put
  <2>1. userFollowed[c] \in Seq(User) /\ extended \subseteq Put
    BY DEF MonitorInv, StoreType
  <2>2. CASE list = userFollowed[c]
    BY <2>1, <2>2
  <2>3. CASE list = <<>>
    BY <2>1, <2>3
  <2>4. list = userFollowed[c] \/ list = <<>>
    BY <1>1
  <2>. QED  BY <2>2, <2>3, <2>4
<1>3. [username |-> c, list |-> Append(list, u)] \in Put
  BY <1>2 DEF Put
<1>4. faults' \in 0 .. MaxFaults
  BY <1>1, AnswersType DEF MonitorInv
<1>5. UNCHANGED <<clock, chirps, unpublished, userId, local, userFollowed, listed>>
  BY DEF FollowGet, store
<1>. QED  BY <1>1, <1>2, <1>3, <1>4, <1>5, FollowSteps

LEMMA FollowPutStep ==
  ASSUME MonitorInv, NEW put \in extended, FollowPut(put)
  PROVE  MonitorInv'
<1>1. extended \subseteq Put /\ faults \in 0 .. MaxFaults
  BY DEF MonitorInv, StoreType
<1>2. put.username \in Caller /\ put.list \in Seq(User) /\ extended' \subseteq Put
  BY <1>1 DEF FollowPut, Put
<1>3. faults' \in 0 .. MaxFaults
  BY <1>1, MonitorBoundsAssumption DEF FollowPut, Fault
<1>4. /\ UNCHANGED <<clock, chirps, unpublished, userId, local>>
      /\ PutFollowed(put.username, put.list) \/ UNCHANGED <<userFollowed, listed>>
  BY DEF FollowPut
<1>. QED  BY <1>2, <1>3, <1>4, FollowSteps

LEMMA RegisterFollowedPutStep ==
  ASSUME MonitorInv, NEW c \in Caller, RegisterFollowedPut(c)
  PROVE  MonitorInv'
<1>1. /\ UNCHANGED <<clock, chirps, unpublished, userId, extended, local, faults>>
      /\ PutFollowed(c, <<>>)
  BY DEF RegisterFollowedPut
<1>2. extended' \subseteq Put /\ faults' \in 0 .. MaxFaults /\ <<>> \in Seq(User)
  BY <1>1 DEF MonitorInv, StoreType
<1>. QED  BY <1>1, <1>2, FollowSteps

-----------------------------------------------------------------------------
(* monitor                                                                 *)

\* A step of one caller leaves the store and the other callers alone.
OnlyOf(c) ==
  /\ UNCHANGED <<clock, store, extended>> /\ faults' \in 0 .. MaxFaults
  /\ \A d \in Caller \ {c} :
       /\ pc'[d] = pc[d] /\ curr'[d] = curr[d] /\ id'[d] = id[d] /\ sent'[d] = sent[d]
       /\ followed'[d] = followed[d] /\ began'[d] = began[d] /\ listed'[d] = listed[d]

LEMMA OneCaller ==
  ASSUME MonitorInv, NEW c \in Caller, OnlyOf(c), LocalType', CallerInv(c)'
  PROVE  MonitorInv'
<1>1. UNCHANGED <<clock, chirps, unpublished, userId, userFollowed, extended>>
  BY DEF OnlyOf, store
<1>2. StoreType' /\ LatestIsOwn'
  BY <1>1 DEF MonitorInv, StoreType, LatestIsOwn, OnlyOf
<1>3. ASSUME NEW d \in Caller \ {c}  PROVE CallerInv(d)'
  BY <1>1, <1>3
     DEF MonitorInv, CallerInv, IdInHand, ListIsListed, PassIsListed, NothingYet,
         SentInOrder, Useconds, OnlyOf
<1>. QED  BY <1>2, <1>3 DEF MonitorInv

LEMMA LocalFacts ==
  ASSUME LocalType
  PROVE  /\ pc = [c \in Caller |-> pc[c]] /\ followed \in [Caller -> Seq(User)]
         /\ pc \in [Caller -> Label] /\ curr \in [Caller -> Nat] /\ began \in [Caller -> Nat]
         /\ id \in [Caller -> {None} \cup DOMAIN chirps] /\ sent \in [Caller -> Seq(DOMAIN chirps)]
         /\ listed \in [Caller -> SUBSET User]
BY DEF LocalType

LEMMA CallStep == ASSUME MonitorInv, NEW c \in Caller, Call(c)  PROVE MonitorInv'
<1>0. LocalType /\ CallerInv(c) /\ StoreType
  BY DEF MonitorInv
<1>1. /\ UNCHANGED <<clock, store, extended, faults, id, followed, sent>> /\ pc[c] = "idle"
      /\ pc' = [pc EXCEPT ![c] = "first"]
      /\ curr' = [curr EXCEPT ![c] = clock] /\ began' = [began EXCEPT ![c] = clock]
      /\ listed' = [listed EXCEPT ![c] = Range(userFollowed[c])]
  BY DEF Call, Goto
<1>2. OnlyOf(c)
  BY <1>0, <1>1, LocalFacts DEF OnlyOf, StoreType
<1>3. clock \in Nat /\ chirps' = chirps /\ userFollowed' = userFollowed
  BY <1>0, <1>1, MonitorBoundsAssumption DEF StoreType, store
<1>4. /\ \A n \in DOMAIN userFollowed[c] : userFollowed[c][n] \in Range(userFollowed[c])
      /\ Range(userFollowed[c]) \subseteq User
  BY <1>0 DEF StoreType, Range
<1>5. LocalType'
  BY <1>0, <1>1, <1>3, <1>4, LocalFacts DEF LocalType, Label
<1>6. /\ sent'[c] = <<>> /\ followed'[c] = <<>> /\ listed'[c] = Range(userFollowed[c])
      /\ began'[c] = clock /\ curr'[c] = clock /\ pc'[c] = "first"
  BY <1>0, <1>1, LocalFacts DEF CallerInv, NothingYet
<1>7. CallerInv(c)'
  BY <1>0, <1>1, <1>3, <1>4, <1>6
     DEF CallerInv, IdInHand, ListIsListed, PassIsListed, NothingYet, SentInOrder
<1>. QED  BY <1>2, <1>5, <1>7, OneCaller

LEMMA FirstFollowedStep ==
  ASSUME MonitorInv, NEW c \in Caller, FirstFollowed(c)  PROVE MonitorInv'
<1>0. LocalType /\ CallerInv(c) /\ StoreType
  BY DEF MonitorInv
<1>1. PICK list : /\ Answers(list, userFollowed[c], <<>>)
                  /\ Goto(c, "first", IF list = <<>> THEN "idle" ELSE "pass")
  BY DEF FirstFollowed
<1>2. /\ UNCHANGED <<clock, store, extended, listed, curr, id, followed, began, sent>>
      /\ pc[c] = "first" /\ pc'[c] \in {"idle", "pass"}
      /\ pc' = [pc EXCEPT ![c] = pc'[c]] /\ faults' \in 0 .. MaxFaults
  BY <1>0, <1>1, LocalFacts, AnswersType DEF FirstFollowed, Goto
<1>3. OnlyOf(c)
  BY <1>2, <1>0, LocalFacts DEF OnlyOf
<1>4. chirps' = chirps /\ userFollowed' = userFollowed
  BY <1>2 DEF store
<1>5. LocalType'
  BY <1>0, <1>2, <1>4, LocalFacts DEF LocalType, Label
<1>6. CallerInv(c)'
  BY <1>0, <1>2, <1>4
     DEF CallerInv, IdInHand, ListIsListed, PassIsListed, NothingYet, SentInOrder, Useconds
<1>. QED  BY <1>3, <1>5, <1>6, OneCaller

LEMMA GetUserFollowedStep ==
  ASSUME MonitorInv, NEW c \in Caller, GetUserFollowed(c)  PROVE MonitorInv'
<1>0. LocalType /\ CallerInv(c) /\ StoreType
  BY DEF MonitorInv
<1>1. PICK list \in {userFollowed[c], <<>>} :
             /\ Answers(list, userFollowed[c], <<>>)
             /\ followed' = [followed EXCEPT ![c] = list]
  BY DEF GetUserFollowed
<1>2. /\ UNCHANGED <<clock, store, extended, listed, curr, id, began, sent>>
      /\ pc[c] = "pass" /\ pc' = [pc EXCEPT ![c] = "look"] /\ faults' \in 0 .. MaxFaults
  BY <1>0, <1>1, AnswersType DEF GetUserFollowed, Goto
<1>3. OnlyOf(c)
  BY <1>1, <1>2, <1>0, LocalFacts DEF OnlyOf
<1>4. chirps' = chirps /\ userFollowed' = userFollowed
  BY <1>2 DEF store
<1>5. list \in Seq(User) /\ \A n \in DOMAIN list : list[n] \in listed[c]
  <2>1. userFollowed[c] \in Seq(User)
    BY <1>0 DEF StoreType
  <2>2. CASE list = userFollowed[c]
    <3>1. \A n \in DOMAIN userFollowed[c] : userFollowed[c][n] \in listed[c]
      BY <1>0 DEF CallerInv, ListIsListed
    <3>. QED  BY <2>1, <2>2, <3>1
  <2>3. CASE list = <<>>
    <3>1. list \in Seq(User) /\ DOMAIN list = {}
      BY <2>3
    <3>. QED  BY <3>1
  <2>4. list = userFollowed[c] \/ list = <<>>
    BY <1>1
  <2>. QED  BY <2>2, <2>3, <2>4
<1>6. LocalType'
  BY <1>0, <1>1, <1>2, <1>4, <1>5, LocalFacts DEF LocalType, Label
<1>7. pc'[c] = "look" /\ followed'[c] = list
  BY <1>0, <1>1, <1>2, LocalFacts
<1>8. CallerInv(c)'
  BY <1>0, <1>2, <1>4, <1>5, <1>7
     DEF CallerInv, IdInHand, ListIsListed, PassIsListed, NothingYet, SentInOrder, Useconds
<1>. QED  BY <1>3, <1>6, <1>8, OneCaller

LEMMA GetUserIdStep ==
  ASSUME MonitorInv, NEW c \in Caller, GetUserId(c)  PROVE MonitorInv'
<1>0. LocalType /\ CallerInv(c) /\ StoreType /\ LatestIsOwn
  BY DEF MonitorInv
<1>1. followed[c] # <<>> /\ Head(followed[c]) \in User
  BY <1>0, LocalFacts DEF GetUserId
<1> DEFINE u == Head(followed[c])
<1>2. PICK i \in {userId[u], None} :
             /\ Answers(i, userId[u], None) /\ id' = [id EXCEPT ![c] = i]
  BY DEF GetUserId
<1>3. /\ UNCHANGED <<clock, store, extended, listed, curr, followed, began, sent>>
      /\ pc[c] = "look" /\ pc' = [pc EXCEPT ![c] = "fetch"] /\ faults' \in 0 .. MaxFaults
  BY <1>0, <1>2, AnswersType DEF GetUserId, Goto
<1>4. OnlyOf(c)
  BY <1>2, <1>3, <1>0, LocalFacts DEF OnlyOf
<1>5. chirps' = chirps /\ userFollowed' = userFollowed
  BY <1>3 DEF store
<1>6. i \in {None} \cup DOMAIN chirps /\ (i # None => chirps[i].username = u)
  BY <1>0, <1>1 DEF StoreType, LatestIsOwn
<1>7. LocalType'
  BY <1>0, <1>2, <1>3, <1>5, <1>6, LocalFacts DEF LocalType, Label
<1>8. id'[c] = i /\ followed'[c] = followed[c] /\ pc'[c] = "fetch"
  BY <1>0, <1>2, <1>3, LocalFacts
<1>9. CallerInv(c)'
  BY <1>0, <1>1, <1>3, <1>5, <1>6, <1>8
     DEF CallerInv, IdInHand, ListIsListed, PassIsListed, NothingYet, SentInOrder, Useconds
<1>. QED  BY <1>4, <1>7, <1>9, OneCaller

LEMMA EndOfPassStep ==
  ASSUME MonitorInv, NEW c \in Caller, EndOfPass(c)  PROVE MonitorInv'
<1>0. LocalType /\ CallerInv(c) /\ StoreType
  BY DEF MonitorInv
<1>1. /\ UNCHANGED <<clock, store, extended, listed, curr, id, followed, began, sent, faults>>
      /\ pc[c] = "look" /\ pc' = [pc EXCEPT ![c] = "pass"]
  BY DEF EndOfPass, Goto
<1>2. OnlyOf(c)
  BY <1>0, <1>1, LocalFacts DEF OnlyOf, StoreType
<1>3. chirps' = chirps /\ userFollowed' = userFollowed /\ pc'[c] = "pass"
  BY <1>0, <1>1, LocalFacts DEF store
<1>4. LocalType'
  BY <1>0, <1>1, <1>3, LocalFacts DEF LocalType, Label
<1>5. CallerInv(c)'
  BY <1>0, <1>1, <1>3
     DEF CallerInv, IdInHand, ListIsListed, PassIsListed, NothingYet, SentInOrder, Useconds
<1>. QED  BY <1>2, <1>4, <1>5, OneCaller

LEMMA GetIdChirpStep ==
  ASSUME MonitorInv, NEW c \in Caller, GetIdChirp(c)  PROVE MonitorInv'
<1>0. LocalType /\ CallerInv(c) /\ StoreType
  BY DEF MonitorInv
<1>1. PICK i \in {id[c], None} :
        /\ Answers(i, id[c], None)
        /\ \/ Fresher(c, i) /\ Write(c, i)
           \/ ~Fresher(c, i) /\ UNCHANGED <<curr, sent>>
  BY DEF GetIdChirp
<1>2. /\ UNCHANGED <<clock, store, extended, listed, began>> /\ faults' \in 0 .. MaxFaults
      /\ pc[c] = "fetch" /\ pc' = [pc EXCEPT ![c] = "look"]
      /\ followed' = [followed EXCEPT ![c] = Tail(@)] /\ id' = [id EXCEPT ![c] = None]
  BY <1>0, <1>1, AnswersType DEF GetIdChirp, Goto
<1>3. chirps' = chirps /\ userFollowed' = userFollowed
  BY <1>2 DEF store
<1>4. OnlyOf(c)
  BY <1>0, <1>1, <1>2, LocalFacts DEF OnlyOf, Write
<1>5. /\ followed[c] # <<>> /\ followed[c] \in Seq(User)
      /\ \A n \in DOMAIN followed[c] : followed[c][n] \in listed[c]
  BY <1>0, <1>2, LocalFacts DEF CallerInv, IdInHand, PassIsListed
<1>6. /\ pc'[c] = "look" /\ followed'[c] = Tail(followed[c]) /\ followed' \in [Caller -> Seq(User)]
      /\ began'[c] = began[c] /\ listed'[c] = listed[c] /\ pc' \in [Caller -> Label]
      /\ id' \in [Caller -> {None} \cup DOMAIN chirps]
  BY <1>0, <1>2, <1>5, LocalFacts DEF Label
<1>7. (IdInHand(c) /\ ListIsListed(c) /\ PassIsListed(c) /\ NothingYet(c))'
  <2>1. \A n \in DOMAIN Tail(followed[c]) : /\ n + 1 \in DOMAIN followed[c]
                                            /\ Tail(followed[c])[n] = followed[c][n + 1]
    BY <1>5
  <2>. QED  BY <1>0, <1>3, <1>5, <1>6, <2>1
          DEF CallerInv, IdInHand, ListIsListed, PassIsListed, NothingYet
<1>8. CASE ~Fresher(c, i) /\ UNCHANGED <<curr, sent>>
  <2>1. LocalType'
    BY <1>0, <1>2, <1>3, <1>6, <1>8, LocalFacts DEF LocalType
  <2>2. SentInOrder(c)'
    BY <1>0, <1>3, <1>6, <1>8 DEF CallerInv, SentInOrder, Useconds
  <2>. QED  BY <1>4, <1>7, <2>1, <2>2, OneCaller DEF CallerInv
<1>9. CASE Fresher(c, i) /\ Write(c, i)
  <2>1. /\ sent' = [sent EXCEPT ![c] = Append(@, i)] /\ curr' = [curr EXCEPT ![c] = Useconds(i)]
        /\ Useconds(i) > curr[c] /\ Useconds(i) \in Nat
    BY <1>0, <1>9, UsecondsType DEF Fresher, Write
  <2>2. i \in DOMAIN chirps
    BY <1>0, <2>1, LocalFacts DEF Useconds
  <2>3. i # None
    BY <1>0, <2>2 DEF StoreType, None
  <2>4. chirps[i].username \in listed[c]
    <3>1. Head(followed[c]) = followed[c][1] /\ 1 \in DOMAIN followed[c]
      BY <1>5
    <3>2. chirps[i].username = Head(followed[c])
      BY <1>0, <1>1, <1>2, <2>3 DEF CallerInv, IdInHand
    <3>. QED  BY <1>5, <3>1, <3>2
  <2>5. sent[c] \in Seq(DOMAIN chirps) /\ curr[c] \in Nat /\ began[c] \in Nat
    BY <1>0, LocalFacts
  <2>6. Append(sent[c], i) \in Seq(DOMAIN chirps)
    BY <2>2, <2>5
  <2>7. sent' \in [Caller -> Seq(DOMAIN chirps)] /\ curr' \in [Caller -> Nat]
    BY <1>0, <2>1, <2>6, LocalFacts
  <2>8. LocalType'
    BY <1>0, <1>2, <1>3, <1>6, <2>7, LocalFacts DEF LocalType
  <2>9. SentInOrder(c)'
    <3>1. sent'[c] = Append(sent[c], i) /\ curr'[c] = Useconds(i)
      BY <1>0, <2>1, LocalFacts
    <3>2. \A n \in DOMAIN sent'[c] :
            \/ n \in DOMAIN sent[c] /\ sent'[c][n] = sent[c][n]
            \/ n = Len(sent[c]) + 1 /\ sent'[c][n] = i
      BY <2>5, <3>1
    <3>3. \A n \in DOMAIN sent[c] :
            Useconds(sent[c][n]) \in Nat /\ \A m \in 1 .. (n - 1) : m \in DOMAIN sent[c]
      BY <1>0, <2>5, UsecondsType
    <3>4. \A j : Useconds(j)' = Useconds(j)
      BY <1>3 DEF Useconds
    <3>5. began[c] <= curr[c]
      BY <1>0 DEF CallerInv, SentInOrder
    <3>6. ASSUME NEW n \in DOMAIN sent'[c]
          PROVE  /\ began[c] < Useconds(sent'[c][n]) /\ Useconds(sent'[c][n]) <= Useconds(i)
                 /\ chirps[sent'[c][n]].username \in listed[c]
                 /\ \A m \in 1 .. (n - 1) : Useconds(sent'[c][m]) < Useconds(sent'[c][n])
      <4>1. CASE n \in DOMAIN sent[c] /\ sent'[c][n] = sent[c][n]
        <5>1. \A m \in 1 .. (n - 1) : sent'[c][m] = sent[c][m]
          BY <2>5, <3>1, <4>1
        <5>2. /\ began[c] < Useconds(sent[c][n]) /\ Useconds(sent[c][n]) <= curr[c]
              /\ chirps[sent[c][n]].username \in listed[c]
              /\ \A m \in 1 .. (n - 1) : Useconds(sent[c][m]) < Useconds(sent[c][n])
          BY <1>0, <4>1 DEF CallerInv, SentInOrder
        <5>. QED  BY <2>1, <2>5, <3>3, <4>1, <5>1, <5>2
      <4>2. CASE n = Len(sent[c]) + 1 /\ sent'[c][n] = i
        <5>1. \A m \in 1 .. (n - 1) : m \in DOMAIN sent[c] /\ sent'[c][m] = sent[c][m]
          BY <2>5, <3>1, <4>2
        <5>2. \A m \in 1 .. (n - 1) :
                Useconds(sent[c][m]) <= curr[c] /\ Useconds(sent[c][m]) \in Nat
          BY <1>0, <3>3, <5>1 DEF CallerInv, SentInOrder
        <5>3. began[c] < Useconds(i) /\ Useconds(i) <= Useconds(i)
          BY <2>1, <2>5, <3>5
        <5>4. \A m \in 1 .. (n - 1) : Useconds(sent[c][m]) < Useconds(i)
          BY <2>1, <2>5, <5>2
        <5>5. \A m \in 1 .. (n - 1) : Useconds(sent'[c][m]) < Useconds(i)
          BY <5>1, <5>4
        <5>. QED  BY <2>4, <4>2, <5>3, <5>5
      <4>. QED  BY <3>2, <4>1, <4>2
    <3>. QED  BY <1>3, <1>6, <2>1, <2>5, <3>1, <3>4, <3>5, <3>6 DEF SentInOrder
  <2>. QED  BY <1>4, <1>7, <2>8, <2>9, OneCaller DEF CallerInv
<1>. QED  BY <1>1, <1>8, <1>9

-----------------------------------------------------------------------------
(* The theorems.                                                           *)

LEMMA MonitorInit == Init => MonitorInv
<1>. SUFFICES ASSUME Init  PROVE MonitorInv
  OBVIOUS
<1>1. StoreType
  BY MonitorBoundsAssumption DEF Init, StoreType, None
<1>2. LocalType
  BY DEF Init, LocalType, Label, None
<1>3. LatestIsOwn
  BY DEF Init, LatestIsOwn
<1>4. \A c \in Caller : CallerInv(c)
  BY DEF Init, CallerInv, IdInHand, ListIsListed, PassIsListed, NothingYet, SentInOrder
<1>. QED  BY <1>1, <1>2, <1>3, <1>4 DEF MonitorInv

LEMMA MonitorStep == MonitorInv /\ [Next]_vars => MonitorInv'
<1>. SUFFICES ASSUME MonitorInv, [Next]_vars  PROVE MonitorInv'
  OBVIOUS
<1>1. CASE \E c \in Caller : Call(c) \/ monitor(c) \/ RegisterFollowedPut(c)
  BY <1>1, CallStep, FirstFollowedStep, GetUserFollowedStep, GetUserIdStep, GetIdChirpStep,
     EndOfPassStep, RegisterFollowedPutStep DEF monitor
<1>2. CASE \/ \E u \in User : Make(u) \/ RegisterIdPut(u)
           \/ \E i \in unpublished : Publish(i)
           \/ Tick
  BY <1>2, MakeStep, RegisterIdPutStep, PublishStep, TickStep
<1>3. CASE UNCHANGED vars
  BY <1>3, FollowSteps DEF MonitorInv, StoreType, vars, store
<1>4. CASE follow
  BY <1>4, FollowGetStep, FollowPutStep DEF follow
<1>. QED  BY <1>1, <1>2, <1>3, <1>4 DEF Next

\* Every variable keeps its type, for any number of callers, users and chirps.
THEOREM TypeCorrect == Spec => []TypeOK
<1>1. MonitorInv => TypeOK
  BY DEF MonitorInv, StoreType, LocalType, Label, Put, TypeOK, CallerInv, IdInHand
<1>. QED  BY <1>1, MonitorInit, MonitorStep, PTL DEF Spec

\* A stream tells of chirps made since the call began by those whom the user has
\* followed since, each once and in the order of their times, whatever is made and
\* published, whichever RPC fails, and however handlers of follow and registeruser put
\* over each other's lists meanwhile (service.cc:34-36, 128-141).
THEOREM StreamInOrder == Spec => []StreamIsNews
<1>1. MonitorInv => StreamIsNews
  <2>. SUFFICES ASSUME MonitorInv, NEW c \in Caller, NEW n \in DOMAIN sent[c]
                PROVE  /\ Useconds(sent[c][n]) > began[c]
                       /\ chirps[sent[c][n]].username \in listed[c]
                       /\ \A m \in 1 .. (n - 1) : Useconds(sent[c][m]) < Useconds(sent[c][n])
    BY DEF StreamIsNews
  <2>1. Useconds(sent[c][n]) \in Nat /\ began[c] \in Nat
    BY UsecondsType, LocalFacts DEF MonitorInv
  <2>. QED  BY <2>1 DEF MonitorInv, CallerInv, SentInOrder
<1>. QED  BY <1>1, MonitorInit, MonitorStep, PTL DEF Spec
=============================================================================

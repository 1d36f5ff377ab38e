------------------------------ MODULE Monitor ------------------------------
(***************************************************************************)
(* The streaming RPC monitor of the service (service/service.cc:188-234), as *)
(* the server runs it: nothing in it calls OpenBuffer or SetNumMonitorLoop,  *)
(* so that the handler polls for ever and never waits for a buffer.         *)
(* MonitorHandOver has the rest.                                            *)
(*                                                                         *)
(* A caller polls the store: it fetches the list of those it follows, sleeps, *)
(* and fetches for each the id of the last chirp and then that chirp, an RPC  *)
(* each.  Of the store, only what these RPCs read is kept: chirps are numbered *)
(* as they are made, and one is made (its time is taken) before it can be     *)
(* fetched as its author's latest.  Handlers of follow fetch a list and put it *)
(* back, so that names are lost from it; late registrations empty it, and    *)
(* make the store forget a latest chirp.                                    *)
(***************************************************************************)
EXTENDS Integers, FiniteSets, SequencesExt

CONSTANTS
  Caller,       \* the handlers of monitor
  User,
  MaxTime,      \* bound: the clock stops here
  MaxChirps,    \* bound: chirps that are made
  MaxFollows,   \* bound: different lists that handlers of follow are about to put
  MaxFaults     \* bound: RPCs that fail

ASSUME MonitorBoundsAssumption ==
  /\ MaxTime \in Nat \ {0} /\ MaxChirps \in Nat
  /\ MaxFollows \in Nat /\ MaxFaults \in Nat

VARIABLES
  clock,
  chirps,         \* every chirp made: [username, useconds]
  unpublished,    \* those that are not their author's latest yet, but may be
  userId,         \* each user's latest, or None
  userFollowed,   \* the list of those whom the user of each caller follows
  extended,       \* the lists that handlers of follow are about to put, and whose
  pc, curr, id,   \* the local variables of each caller: the time of the last chirp
  followed,       \* sent, the id fetched, and who is still to be looked at
  began,          \* when its call began, and (a history variable) who has been in
  listed,         \* its user's list since
  sent,           \* what it has written to its stream
  faults

store == <<chirps, unpublished, userId, userFollowed>>
local == <<pc, curr, id, followed, began, sent>>
vars == <<clock, store, extended, listed, local, faults>>

None == 0
Chirp == [username : User, useconds : Nat]

\* The chirp parsed from an empty string has no time.
Useconds(i) == IF i \in DOMAIN chirps THEN chirps[i].useconds ELSE 0

Fault == faults < MaxFaults /\ faults' = faults + 1

\* GetValue: what is stored, or, as after a failure, nothing.
Answers(value, stored, nothing) ==
  \/ value = stored /\ UNCHANGED faults
  \/ value = nothing /\ Fault

-----------------------------------------------------------------------------
(* The other handlers and the clock.                                       *)

Tick ==
  /\ clock < MaxTime /\ clock' = clock + 1
  /\ UNCHANGED <<store, extended, listed, local, faults>>

\* chirp asks the generator for the time, ...
Make(u) ==
  /\ Len(chirps) < MaxChirps
  /\ chirps' = Append(chirps, [username |-> u, useconds |-> clock])
  /\ unpublished' = unpublished \cup {Len(chirps) + 1}
  /\ UNCHANGED <<clock, userId, userFollowed, extended, listed, local, faults>>

\* ... and stores the chirp and, in a later RPC, its id as its author's latest.
Publish(i) ==
  /\ unpublished' = unpublished \ {i}
  /\ userId' = [userId EXCEPT ![chirps[i].username] = i]
  /\ UNCHANGED <<clock, chirps, userFollowed, extended, listed, local, faults>>

\* follow fetches the list, which reads as empty after a failure, and extends it, ...
FollowGet(c, u) ==
  /\ \E list \in {userFollowed[c], <<>>} :
       /\ Answers(list, userFollowed[c], <<>>)
       /\ u \notin Range(list)
       /\ extended' = extended \cup {[username |-> c, list |-> Append(list, u)]}
  /\ Cardinality(extended') <= MaxFollows
  /\ UNCHANGED <<clock, store, listed, local>>

PutFollowed(c, list) ==
  /\ userFollowed' = [userFollowed EXCEPT ![c] = list]
  /\ listed' = [listed EXCEPT ![c] = @ \cup Range(list)]

\* ... and puts it, over whatever is there by now.  A put that fails may have been done,
\* and another handler may be about to put the same.
FollowPut(put) ==
  /\ extended' \in {extended, extended \ {put}}
  /\ \/ PutFollowed(put.username, put.list) /\ (Fault \/ UNCHANGED faults)
     \/ UNCHANGED <<userFollowed, listed>> /\ Fault
  /\ UNCHANGED <<clock, chirps, unpublished, userId, local>>

\* A registration that did not find the name, because another was still at work, puts its
\* empty id and its empty list late.
RegisterIdPut(u) ==
  /\ userId' = [userId EXCEPT ![u] = None]
  /\ UNCHANGED <<clock, chirps, unpublished, userFollowed, extended, listed, local, faults>>

RegisterFollowedPut(c) ==
  /\ PutFollowed(c, <<>>)
  /\ UNCHANGED <<clock, chirps, unpublished, userId, extended, local, faults>>

-----------------------------------------------------------------------------
(* monitor                                                                 *)

Goto(c, from, to) == pc[c] = from /\ pc' = [pc EXCEPT ![c] = to]

Call(c) ==
  /\ Goto(c, "idle", "first")
  /\ curr' = [curr EXCEPT ![c] = clock]
  /\ began' = [began EXCEPT ![c] = clock]
  /\ listed' = [listed EXCEPT ![c] = Range(userFollowed[c])]
  /\ UNCHANGED <<clock, store, id, followed, sent, extended, faults>>

\* Who follows nobody is answered OK at once.
FirstFollowed(c) ==
  /\ \E list \in {userFollowed[c], <<>>} :
       /\ Answers(list, userFollowed[c], <<>>)
       /\ Goto(c, "first", IF list = <<>> THEN "idle" ELSE "pass")
  /\ UNCHANGED <<clock, store, curr, id, followed, began, sent, extended, listed>>

\* One pass over those followed, before it a sleep.
GetUserFollowed(c) ==
  /\ Goto(c, "pass", "look")
  /\ \E list \in {userFollowed[c], <<>>} :
       /\ Answers(list, userFollowed[c], <<>>)
       /\ followed' = [followed EXCEPT ![c] = list]
  /\ UNCHANGED <<clock, store, curr, id, began, sent, extended, listed>>

\* (mutant) The next one followed is moved on to before the chirp is fetched.
GetUserIdMovesOn(c) ==
  /\ Goto(c, "look", "fetch")
  /\ followed[c] # <<>>
  /\ followed' = [followed EXCEPT ![c] = Tail(@)]
  /\ \E i \in {userId[Head(followed[c])], None} :
       /\ Answers(i, userId[Head(followed[c])], None)
       /\ id' = [id EXCEPT ![c] = i]
  /\ UNCHANGED <<clock, store, curr, began, sent, extended, listed>>

GetUserId(c) ==
  /\ Goto(c, "look", "fetch")
  /\ followed[c] # <<>>
  /\ \E i \in {userId[Head(followed[c])], None} :
       /\ Answers(i, userId[Head(followed[c])], None)
       /\ id' = [id EXCEPT ![c] = i]
  /\ UNCHANGED <<clock, store, curr, followed, began, sent, extended, listed>>

\* (mutant) A chirp as old as the last one sent is sent.
FresherOrEqual(c, i) == Useconds(i) >= curr[c]

Fresher(c, i) == Useconds(i) > curr[c]

\* (mutant) The time of the write is kept instead of the chirp's.
WriteKeepsClock(c, i) ==
  /\ sent' = [sent EXCEPT ![c] = Append(@, i)]
  /\ curr' = [curr EXCEPT ![c] = clock]

Write(c, i) ==
  /\ sent' = [sent EXCEPT ![c] = Append(@, i)]
  /\ curr' = [curr EXCEPT ![c] = Useconds(i)]

GetIdChirp(c) ==
  /\ Goto(c, "fetch", "look")
  /\ followed' = [followed EXCEPT ![c] = Tail(@)]
  /\ id' = [id EXCEPT ![c] = None]
  /\ \E i \in {id[c], None} :
       /\ Answers(i, id[c], None)
       /\ \/ Fresher(c, i) /\ Write(c, i)
          \/ ~Fresher(c, i) /\ UNCHANGED <<curr, sent>>
  /\ UNCHANGED <<clock, store, began, extended, listed>>

EndOfPass(c) ==
  /\ Goto(c, "look", "pass")
  /\ followed[c] = <<>>
  /\ UNCHANGED <<clock, store, curr, id, followed, began, sent, extended, listed, faults>>

-----------------------------------------------------------------------------
Init ==
  /\ clock = 1
  /\ chirps = <<>> /\ unpublished = {} /\ userId = [u \in User |-> None]
  /\ userFollowed = [c \in Caller |-> <<>>] /\ listed = [c \in Caller |-> {}]
  /\ extended = {}
  /\ pc = [c \in Caller |-> "idle"]
  /\ curr = [c \in Caller |-> 0] /\ id = [c \in Caller |-> None]
  /\ followed = [c \in Caller |-> <<>>] /\ began = [c \in Caller |-> 0]
  /\ sent = [c \in Caller |-> <<>>]
  /\ faults = 0

monitor(c) == \/ FirstFollowed(c) \/ GetUserFollowed(c) \/ GetUserId(c)
              \/ GetIdChirp(c) \/ EndOfPass(c)

follow == \/ \E c \in Caller, u \in User : FollowGet(c, u)
          \/ \E put \in extended : FollowPut(put)

Next == \/ \E c \in Caller : Call(c) \/ monitor(c) \/ RegisterFollowedPut(c)
        \/ follow
        \/ \E u \in User : Make(u) \/ RegisterIdPut(u)
        \/ \E i \in unpublished : Publish(i)
        \/ Tick

Spec == Init /\ [][Next]_vars

\* The thread of a caller runs, and its RPCs complete or fail.
FairSpec == Spec /\ \A c \in Caller : WF_vars(monitor(c))

-----------------------------------------------------------------------------
(* Properties.                                                             *)

TypeOK ==
  /\ clock \in 1 .. MaxTime /\ faults \in 0 .. MaxFaults
  /\ chirps \in Seq(Chirp) /\ unpublished \subseteq DOMAIN chirps
  /\ userId \in [User -> {None} \cup DOMAIN chirps]
  /\ userFollowed \in [Caller -> Seq(User)] /\ followed \in [Caller -> Seq(User)]
  /\ extended \subseteq [username : Caller, list : Seq(User)]
  /\ listed \in [Caller -> SUBSET User]
  /\ pc \in [Caller -> {"idle", "first", "pass", "look", "fetch"}]
  /\ curr \in [Caller -> Nat] /\ began \in [Caller -> Nat]
  /\ id \in [Caller -> {None} \cup DOMAIN chirps]
  /\ sent \in [Caller -> Seq(DOMAIN chirps)]
  /\ \A c \in Caller : pc[c] = "fetch" => followed[c] # <<>>

\* A stream tells of chirps made since its call began, each once and in the order of
\* their times, although an author's latest chirp may go back to an older one and the
\* ids are fetched one after the other; and only of those whom its user has followed
\* since, although two handlers of follow may take names out of the list again.
StreamIsNews ==
  \A c \in Caller : \A n \in DOMAIN sent[c] :
    /\ Useconds(sent[c][n]) > began[c]
    /\ chirps[sent[c][n]].username \in listed[c]
    /\ \A m \in 1 .. (n - 1) : Useconds(sent[c][m]) < Useconds(sent[c][n])

\* A chirp that stays the latest of one who stays followed, and is newer than all that
\* has been sent, is sent in the end, or one as new is, even if an RPC fails now and
\* then.
IsLatest(i) == \E u \in User : userId[u] = i
InReach(c, i) == IsLatest(i) /\ chirps[i].username \in Range(userFollowed[c])

Watching(c) == pc[c] \in {"pass", "look", "fetch"}
Unseen(c, i) == Watching(c) /\ InReach(c, i) /\ Fresher(c, i)

NewsArrives ==
  \A c \in Caller : \A i \in 1 .. MaxChirps :
    Unseen(c, i) ~> \/ \E n \in DOMAIN sent[c] : Useconds(i) <= Useconds(sent[c][n])
                    \/ ~InReach(c, i)

\* "monitor all follow people's chirp" (service.cc:175): a chirp that the caller could
\* see, and can go on seeing, is sent in the end.
EveryChirpIsSent ==
  \A c \in Caller : \A i \in 1 .. MaxChirps :
    Unseen(c, i) ~> i \in Range(sent[c]) \/ ~InReach(c, i)
=============================================================================

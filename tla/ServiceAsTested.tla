-------------------------- MODULE ServiceAsTested --------------------------
(***************************************************************************)
(* The chirp service against the service that the unit tests test.  As long  *)
(* as one request is served at a time, and the store neither fails nor       *)
(* restarts, the many RPCs of a handler of ServiceImpl add up to the one     *)
(* step that FakeService takes, with the same answer.                       *)
(*                                                                         *)
(* A handler's work becomes visible in pieces, FakeService's all at once.    *)
(* A history variable keeps what there was when the last request was        *)
(* answered; no step reads it.                                              *)
(***************************************************************************)
EXTENDS ChirpService, TLC

CONSTANTS Newline   \* as in Parser

VARIABLES
  seen,    \* the store, as it was at the last answer
  order,   \* the ids of the chirps that were answered, in their order
  told     \* the last answer: a status, and the chirps in it

(* The store as FakeService keeps it: names and ids are strings of one letter, *)
(* a list is a string, and all keys are in one table.                        *)

String(x) == <<x>>
StringOrEmpty(x) == IF x = NoId THEN <<>> ELSE String(x)
ListString(list) == FlattenSeq([n \in DOMAIN list |-> <<list[n], Newline>>])

ChirpOf(i, c) ==
  [id |-> String(i), username |-> String(c.username), parent_id |-> String(c.parent_id)]

Present(table) == {k \in DOMAIN table : table[k] # Absent}

Keyed(prefix, values) ==
  [key \in {<<prefix, String(k)>> : k \in DOMAIN values} |-> values[key[2][1]]]

TableOf(user, followed, chirp, reply) ==
  Keyed("user_id: ", [u \in Present(user) |-> StringOrEmpty(user[u])])
    @@ Keyed("user_followed: ", [u \in Present(followed) |-> ListString(followed[u])])
    @@ Keyed("id_chirp: ", [i \in Present(chirp) |-> ChirpOf(i, chirp[i])])
    @@ Keyed("id_reply: ", [i \in Present(reply) |-> ListString(reply[i])])

\* What h answers.  Two answers differ, and the unit test knows only one of them: to
\* follow someone twice is an error here (service.cc:137) and OK there
\* (unittest_service.cc:163-164).
Told(h) ==
  [status |-> IF req[h].op = "follow" /\ status'[h] = "ALREADY_EXISTS" THEN "OK"
              ELSE status'[h],
   chirps |-> CASE pc[h] = "ChirpReplyPut" -> <<ChirpOf(cid[h], TheChirp(h))>>
                [] pc[h] = "ReadLoop" -> [n \in DOMAIN thread[h] |->
                                            ChirpOf(thread[h][n], idChirp[thread[h][n]])]
                [] OTHER -> <<>>]

Answered(h) == pc[h] # "idle" /\ pc'[h] = "idle"

HInit == /\ Init
         /\ seen = store
         /\ order = <<>>
         /\ told = [status |-> "none", chirps |-> <<>>]

HNext ==
  /\ Next
  /\ IF \E h \in Handler : Answered(h)
     THEN \E h \in Handler :
            /\ Answered(h)
            /\ seen' = store'
            /\ told' = Told(h)
            /\ order' = IF cid[h] = NoId THEN order ELSE Append(order, String(cid[h]))
     ELSE UNCHANGED <<seen, order, told>>

HSpec == HInit /\ [][HNext]_<<vars, seen, order, told>>

-----------------------------------------------------------------------------
(* Properties.                                                             *)

Strings(S) == {String(x) : x \in S}

\* One request at a time, the service does what the unit tests test: every step is a
\* stutter of FakeService, except that an answer is one whole request there.
Tested == INSTANCE FakeService
            WITH Name <- Strings(User), Id <- Strings(Id),
                 DefaultReply <- String(NoParent), MaxFollowed <- Cardinality(User),
                 table_ <- TableOf(seen[1], seen[2], seen[3], seen[4]),
                 issued <- order, reply <- told
AsTested == Tested!Spec
=============================================================================

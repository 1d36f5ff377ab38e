---------------------------- MODULE FakeService ----------------------------
(***************************************************************************)
(* The service that the unit tests test (service/service_string.cc): the     *)
(* operations of the chirp service without RPCs, on a hash table of its own.  *)
(* The tests make one request at a time, so a request is one step here, with *)
(* all the calls to the table that it makes.                                *)
(*                                                                         *)
(* That makes it the specification of the service proper, as long as that    *)
(* serves one request at a time: see ServiceAsTested.                       *)
(***************************************************************************)
EXTENDS Parser

CONSTANTS
  Name,           \* the user names, ...
  Id,             \* the chirp ids that the generator hands out, ...
  DefaultReply,   \* and "-1", which is none of them: strings all
  MaxFollowed     \* bound: names in a list of followed names

ASSUME StringsAssumption ==
  /\ <<>> \notin Id /\ DefaultReply \notin Id
  /\ \A i \in Id : Plain(i)
  /\ \A string \in Name \cup Id : string \in Seq(Range(string))

\* An id is an integer of 64 bits, printed (utils/unique_id.cc:19-30).
ASSUME IdsAssumption == IsFiniteSet(Id)

VARIABLES
  table_,   \* the hash table of UnitTestKVClient
  issued,   \* the ids handed out, in their order
  reply     \* the answer: a status, and the chirps in it

vars == <<table_, issued, reply>>

-----------------------------------------------------------------------------
(* Keys, and UnitTestKVClient.                                             *)

USER_ID(name) == <<"user_id: ", name>>
USER_FOLLOWED(name) == <<"user_followed: ", name>>
ID_CHIRP(id) == <<"id_chirp: ", id>>
ID_REPLY(id) == <<"id_reply: ", id>>

Has(t, key) == key \in DOMAIN t

\* A missing key must not be read (cchash.h:58); the code leaves open what it reads
\* then, and the empty string is what libstdc++ makes of it.
GetValue(t, key) == IF Has(t, key) THEN t[key] ELSE <<>>

AddOrUpdate(t, key, value) ==
  [k \in DOMAIN t \cup {key} |-> IF k = key THEN value ELSE t[k]]
Add(t, key, value) == IF Has(t, key) THEN t ELSE AddOrUpdate(t, key, value)

\* Put answers whether the key was new; PutOrUpdate always succeeds.
PutAnswer(t, key) == ~Has(t, key)
Put(t, key, value) == Add(t, key, value)
PutOrUpdate(t, key, value) == AddOrUpdate(t, key, value)

GetUserFollowed(t, name) == Deparser(GetValue(t, USER_FOLLOWED(name)))
GetIdReply(t, id) == Deparser(GetValue(t, ID_REPLY(id)))

\* A chirp is kept as a string that can be parsed back; text and time are left out.
\* The empty string is parsed as a blank chirp.
Chirp == [id : Id, username : Name, parent_id : Id \cup {DefaultReply}]
BlankChirp == [id |-> <<>>, username |-> <<>>, parent_id |-> <<>>]
GetIdChirp(t, id) == IF Has(t, ID_CHIRP(id)) THEN t[ID_CHIRP(id)] ELSE BlankChirp

Answer(code, chirps) == reply' = [status |-> code, chirps |-> chirps]

-----------------------------------------------------------------------------
(* registeruser                                                            *)

registeruser(name) ==
  LET named == Put(table_, USER_ID(name), <<>>)
  IN  /\ \/ /\ Has(table_, USER_ID(name))
            /\ Answer("ALREADY_EXISTS", <<>>)
            /\ UNCHANGED table_
         \/ /\ ~Has(table_, USER_ID(name))
            /\ table_' = Put(named, USER_FOLLOWED(name), <<>>)
            /\ Answer(IF PutAnswer(named, USER_FOLLOWED(name)) THEN "OK" ELSE "NOT_FOUND",
                      <<>>)
      /\ UNCHANGED issued

-----------------------------------------------------------------------------
(* chirp                                                                   *)

\* (mutant) The parent's list is replaced.
LinkedAlone(t, parent, id) ==
  IF Has(t, ID_REPLY(parent))
  THEN PutOrUpdate(t, ID_REPLY(parent), Parser(<<id>>))
  ELSE t

\* The parent's list gets the new id, if there is such a list.
Linked(t, parent, id) ==
  IF Has(t, ID_REPLY(parent))
  THEN PutOrUpdate(t, ID_REPLY(parent), Parser(Append(GetIdReply(t, parent), id)))
  ELSE t

\* (mutants) The chirp's own list is created before the chirp is linked; it is
\* created for replies only.
ListedFirst(t, parent, id) ==
  Linked(PutOrUpdate(t, ID_REPLY(id), <<>>), parent, id)
ListedIfLinked(t, parent, id) ==
  IF Has(t, ID_REPLY(parent))
  THEN PutOrUpdate(Linked(t, parent, id), ID_REPLY(id), <<>>)
  ELSE t

\* Its own list, empty, comes last.
Listed(t, parent, id) == PutOrUpdate(Linked(t, parent, id), ID_REPLY(id), <<>>)

\* The author must exist.  The parent is whatever the request says.
chirp(name, parent) ==
  \/ /\ ~Has(table_, USER_ID(name))
     /\ Answer("NOT_FOUND", <<>>)
     /\ UNCHANGED <<table_, issued>>
  \/ /\ Has(table_, USER_ID(name))
     /\ \E id \in Id \ Range(issued) :
          LET new    == [id |-> id, username |-> name, parent_id |-> parent]
              stored == Put(table_, ID_CHIRP(id), new)
              latest == PutOrUpdate(stored, USER_ID(name), id)
          IN  /\ issued' = Append(issued, id)
              /\ IF PutAnswer(table_, ID_CHIRP(id))
                 THEN /\ table_' = Listed(latest, parent, id)
                      /\ Answer("OK", <<new>>)
                 ELSE UNCHANGED table_ /\ Answer("ALREADY_EXISTS", <<new>>)

-----------------------------------------------------------------------------
(* follow                                                                  *)

\* Two names, both registered.
MayFollow(name, to_follow) ==
  /\ name # to_follow
  /\ Has(table_, USER_FOLLOWED(name)) /\ Has(table_, USER_FOLLOWED(to_follow))

\* (mutant) The name is appended whether it is there or not.
FollowedTwice(list, to_follow) == Append(list, to_follow)

\* A name that is in the list is not appended again, ...
Followed(list, to_follow) ==
  IF to_follow \in Range(list) THEN list ELSE Append(list, to_follow)

\* ... and the list is stored and OK answered all the same.
follow(name, to_follow) ==
  /\ \/ /\ ~MayFollow(name, to_follow)
        /\ Answer("NOT_FOUND", <<>>)
        /\ UNCHANGED table_
     \/ LET list == Followed(GetUserFollowed(table_, name), to_follow)
        IN  /\ MayFollow(name, to_follow)
            /\ Len(list) <= MaxFollowed
            /\ table_' = PutOrUpdate(table_, USER_FOLLOWED(name), Parser(list))
            /\ Answer("OK", <<>>)
  /\ UNCHANGED issued

-----------------------------------------------------------------------------
(* read                                                                    *)

\* (mutant) The replies go before what is queued.
VisitedInDepth(t, visit) ==
  LET curr    == Head(visit.queue)
      ids     == GetIdReply(t, curr.id)
      replies == [n \in DOMAIN ids |-> GetIdChirp(t, ids[n])]
  IN  [chirps |-> Append(visit.chirps, curr), queue |-> replies \o Tail(visit.queue)]

\* The chirp at the front of the queue is answered, and its replies are queued.
Visited(t, visit) ==
  LET curr    == Head(visit.queue)
      ids     == GetIdReply(t, curr.id)
      replies == [n \in DOMAIN ids |-> GetIdChirp(t, ids[n])]
  IN  [chirps |-> Append(visit.chirps, curr), queue |-> Tail(visit.queue) \o replies]

\* The loop of read, n times round.
ReadLoop(t, id, rounds) ==
  LET loop[n \in 0..rounds] ==
        IF n = 0 THEN [chirps |-> <<>>, queue |-> <<GetIdChirp(t, id)>>]
        ELSE LET visit == loop[n - 1]
             IN  IF visit.queue = <<>> THEN visit ELSE Visited(t, visit)
  IN  loop[rounds]

\* (mutant) A chirp that is not there is read like any other.
readUnchecked(id) ==
  LET visit == ReadLoop(table_, id, Cardinality(Id))
  IN  visit.queue = <<>> /\ Answer("OK", visit.chirps) /\ UNCHANGED <<table_, issued>>

\* The loop ends: no more chirps than ids were ever stored.
read(id) ==
  /\ \/ /\ ~Has(table_, ID_CHIRP(id))
        /\ Answer("NOT_FOUND", <<>>)
     \/ LET visit == ReadLoop(table_, id, Cardinality(Id))
        IN  /\ Has(table_, ID_CHIRP(id))
            /\ visit.queue = <<>>
            /\ Answer("OK", visit.chirps)
  /\ UNCHANGED <<table_, issued>>

-----------------------------------------------------------------------------
NoAnswer == [status |-> "none", chirps |-> <<>>]

Init == /\ table_ = <<>>
        /\ issued = <<>>
        /\ reply = NoAnswer

Next ==
  \/ \E name \in Name : registeruser(name)
  \/ \E name \in Name, parent \in Id \cup {DefaultReply} : chirp(name, parent)
  \/ \E name, to_follow \in Name : follow(name, to_follow)
  \/ \E id \in Id : read(id)

Spec == Init /\ [][Next]_vars

-----------------------------------------------------------------------------
(* Properties.                                                             *)

Registered == {name \in Name : Has(table_, USER_FOLLOWED(name))}
Stored == {id \in Id : Has(table_, ID_CHIRP(id))}

\* A user's value is the id of a chirp or empty, a list is a string, and a reply
\* has a status.
TypeOK ==
  /\ \A name \in Name : Has(table_, USER_ID(name)) =>
       GetValue(table_, USER_ID(name)) \in Id \cup {<<>>}
  /\ \A id \in Stored : table_[ID_CHIRP(id)] \in Chirp
  /\ IsInjective(issued) /\ Range(issued) \subseteq Id
  /\ reply.status \in {"none", "OK", "NOT_FOUND", "ALREADY_EXISTS"}
  /\ \A n \in DOMAIN reply.chirps : reply.chirps[n] \in Chirp

\* read asks the table for nothing that is not in it, which is what GetValue
\* requires of its callers (utils/cchash.h:58) and read does not check: a chirp has
\* a list of replies, and the ids in a list, once taken apart, are those of chirps.
ReadsWhatIsThere ==
  \A id \in Stored : /\ Has(table_, ID_REPLY(id))
                     /\ Range(GetIdReply(table_, id)) \subseteq Stored

\* The loop of read ends (service_string.cc:154), though a request to chirp may
\* name as its parent a chirp that is not there yet, or the very chirp it makes.
ReadEnds ==
  \A id \in Stored : ReadLoop(table_, id, Cardinality(Id)).queue = <<>>

\* Followed lists hold registered names other than the owner's, each once, as
\* long as no name has a newline in it.  A name that has one comes back in pieces
\* (utils/parser.h:14), but every piece is a line of a name that was followed.
Lines(name) == Range(Deparser(Parser(<<name>>)))

FollowedAreUsers ==
  \A name \in Registered :
    LET list == GetUserFollowed(table_, name)
    IN  /\ Range(list) \subseteq UNION {Lines(other) : other \in Registered \ {name}}
        /\ (\A other \in Registered : Plain(other)) =>
             IsInjective(list) /\ Range(list) \subseteq Registered \ {name}

\* The chirps posted in answer to the chirp id, or to one of the thread before them.
Thread(t, order, id) ==
  LET thread[n \in 0 .. Len(order)] ==
        IF n = 0 THEN {}
        ELSE LET next == order[n]
             IN  IF next = id \/ GetIdChirp(t, next).parent_id \in thread[n - 1]
                 THEN thread[n - 1] \cup {next} ELSE thread[n - 1]
  IN  thread[Len(order)]

\* What read answers is the whole thread of the first chirp in it, each chirp once,
\* level by level and in the order of posting (service_string.cc:151): the parents
\* come in the order of the answer, and the children of one parent in that of issued.
Position(list, x) == CHOOSE n \in DOMAIN list : list[n] = x

ReadIsThread ==
  [][reply'.status = "OK" /\ reply'.chirps # <<>> =>
       LET ids    == [n \in DOMAIN reply'.chirps |-> reply'.chirps[n].id]
           Parent(n) == Position(ids, reply'.chirps[n].parent_id)
       IN  /\ IsInjective(ids) /\ Range(ids) = Thread(table_', issued', ids[1])
           /\ \A m, n \in 2 .. Len(ids) : m < n =>
                \/ Parent(m) < Parent(n)
                \/ /\ Parent(m) = Parent(n)
                   /\ Position(issued', ids[m]) < Position(issued', ids[n])]_vars
=============================================================================

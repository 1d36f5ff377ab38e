# Chirp in TLA+

Chirp is a small Twitter: a command line client (`src/command`) talks over gRPC
to a service layer (`src/service`, port 50002), which keeps everything in an
in-memory key-value store behind another gRPC server (`src/kvstore`, port
50000). Both servers run their handlers on a pool of threads, and the service
layer reaches the store only through separate RPCs, so the interesting questions
are about what happens between two RPCs of one handler. This directory holds
TLA+ models of the parts that decide that, the TLC configurations that check
them on small instances, and TLAPS proofs of the main invariants.

## 1. The system

| part | source | state | operations | hard behaviour |
|---|---|---|---|---|
| hash table | `kvstore/utils/cchash.h` | 19 buckets, each a list of pairs under a `std::shared_mutex` | `GetValue` (two forms), `Add`, `Has`, `AddOrUpdate`, `DeleteKey` | many threads, readers and writers of one bucket |
| store server | `kvstore/kvstore.cc`, `kvstore/utils/kvhelper.cc` | the table | RPCs `put`, `get` (a stream), `deletekey` | `get` and `deletekey` touch the table twice, under two locks |
| store client | `service/utils/kvstore_client.cc` | none | `Has`, `GetValue`, `GetValues`, `PutOrUpdate`, `Put`, `Delete` | `Put` is two RPCs; failures are folded into answers |
| service | `service/service.cc` | none of its own: four kinds of keys in the store; the id generator | RPCs `registeruser`, `chirp`, `follow`, `read` | check-then-act and read-modify-write across RPCs; partial failure; crash between RPCs |
| monitor | `service/service.cc` 188-258 | `monitor_flag_`, `exit_flag_`, `monitor_refresh_times_`, mutex, condition variable, per call the time of the last chirp sent | RPC `monitor`, `MonitorBuffer` thread | polling misses events; flags shared by all callers; missed wake-ups; termination |
| id generator | `service/utils/unique_id.cc` | `sequence_`, `time_`, mutex | `operator()`, `GetId` | sequence wraps, clock, restart, `time_` written outside the mutex |
| list conversion | `service/utils/parser.h` | none | `Parser`, `Deparser` | what an element with a newline becomes |
| test service | `service/service_string.cc`, `service/utils/kvstore_string.cc`, `service/utils/cchash.h` | a local table | the service's operations without RPC | a missing key is read unchecked; its monitor hands over through the buffer thread |
| command line | `command/command.cc`, `command/utils/command_helper.cc` | flags | a process per command: one request, or two for a reply | the service changes, or dies, between the two requests; a handler goes on when the command has gone |

Interactions: command line -> service (one RPC per operation); service -> store
(1 to n RPCs per handler); handlers of the service with each other only through
the store and through the members of `ServiceImpl` (id generator, monitor
flags); store handlers with each other only through the table.

What makes each part correct:

* table: every operation looks atomic; a key is in one bucket, once; an iterator
  is used only while the bucket cannot change under it;
* store: a `get` answered OK carries the stored value, a `put` or `deletekey` is
  one atomic change, or the comments in `kvstore.h` are wrong;
* service: the four kinds of keys stay consistent with each other (latest chirp,
  chirp, reply list, followed list), what is answered OK has happened, what was
  stored is not lost, `read` ends and answers one thread;
* monitor: each new chirp of a followed user is sent, once, in order; the buffer
  thread receives each, and both end;
* generator: no id twice, the time of a chirp is the time it was made;
* lists: what comes out of the store is what went in, or at least lines of it;
* test service: it reads only what is there, and what the tests find out about it
  holds of the service that runs;
* command line: what it reports has happened, a reply has a parent, it ends.

The hazards found on the way are listed in `PROJECT.json`, at their lines, with
the properties that watch them.

## 2. Plan

1. `ChirpService`: the handlers of the service over an atomic store. *(done)*
2. `ChirpServiceProofs`: its invariants, proved. *(done)*
3. `MapCalls`, `AtomicMap`, `ConcurrentHashTable`: the table implements an atomic
   map; checked, then proved in `ConcurrentHashTableProofs`. *(done)*
4. `StoreCalls`, `AtomicStore`, `KeyValueStore`: server and client over an atomic
   table, and the sense in which one client call is one atomic step of
   `ChirpService`; checked, then proved in `KeyValueStoreProofs`. *(done)*
5. `IdGenerator`: uniqueness of ids, the race on `time_`; uniqueness proved in
   `IdGeneratorProofs`. *(done)*
6. `Monitor`, `MonitorHandOver`: the polling loop and the hand-over to the buffer.
   *(done)*
7. `MonitorProofs`, `MonitorHandOverProofs`: the stream's order and the buffer's
   step, for every number of callers. *(done)*
8. `Parser`, `FakeService`: what `Deparser(Parser(list))` is, for names that hold
   newlines too, and the test service over it; `ServiceAsTested`: one request at a
   time, the service proper implements the test service; the test service proved in
   `FakeServiceProofs`. *(done)*
9. `Command`: the requests that one command line sends, beside other clients, with
   connections that break; proved in `CommandProofs`. *(done)*
10. Theorems about one request at a time, about what a read answers, and about what a
    command reports. *(done)*
11. *(next)* `AsTested` as a theorem: a step of one handler is a step of `FakeService`
    or none, which needs the lists of both services related through `Parser`
    (`PlainList`, `AppendedLines`) and `read` of the one, RPC by RPC, to `ReadLoop` of
    the other.
12. `ChirpService` over the puts of `AtomicStore` that take effect late, and over a
    store that dies.

How the modules hang together:

    AtomicMap  <=implements=  ConcurrentHashTable
        | (the table that handlers touch)
    AtomicStore  <=implements=  KeyValueStore        IdGenerator
        | (the RPCs that handlers make)                  | (new ids)
    ChirpService .......................................'
        |       |       '-- ServiceAsTested  =implements=>  FakeService
        |       |                                             | (lists as strings)
        |    Command (its clients)                          Parser
        | (chirps, latest ids, followed lists)
    Monitor  -- (chirps found) -->  MonitorHandOver

## 3. ChirpService

One step is one RPC to the store, or the local work between two RPCs.

| TLA+ | code |
|---|---|
| `userId[u]`, `userFollowed[u]`, `idChirp[i]`, `idReply[i]` | the value under `USER_ID + u`, `USER_FOLLOWED + u`, `ID_CHIRP + i`, `ID_REPLY + i`, or `Absent` |
| `Handler`, `pc[h]`, `req[h]` | a thread of the pool, where it is in its handler, the request it serves |
| `cid[h]`, `vec[h]` | the new chirp's id; the list fetched, extended, about to be put back |
| `queue[h]`, `replies[h]`, `thread[h]` | `read`: the BFS queue, the replies of the chirp visited still to be fetched, the answer so far |
| `status[h]` | the status of the last answer |
| `issued` | the ids this process has handed out |
| `faults`, `crashes` | counters behind the two bounds |

A list value is modelled as a sequence. That is what `Parser` and `Deparser` make
of it as long as no element holds a newline; names in `User` are such names, and
ids are decimal numbers. A missing key, an empty value and a failed `GetValue`
all read as the empty list, as they do in the code. A chirp is reduced to its
author and parent, the fields the other keys must agree with. `NoParent` is a
parent id no chirp has (the command line sends "-1"); any id may be sent as a
parent, also one that is handed out only later.

An RPC fails at most `MaxFaults` times: a failed `Has` reads as "not there", a
failed `GetValue` as empty, a failed put has or has not been applied.
`Restart` kills the service process between any two RPCs; the store, another
process, keeps its data. The generator restarts too: with `SameSecond` it may hand
out the same ids again.

### Runs

| run | instance | shows |
|---|---|---|
| `Service_faults` | 2 threads, 2 users, 2 ids, every operation, 1 fault, 1 crash | `TypeOK`, `FollowedAreUsers`, `LatestIsOwnChirp`, `RepliesAreReplies`, `ThreadsAcyclic`, `ThreadIsATree` |
| `Service_sequential` | 1 thread, 3 users, 3 ids, every operation, no fault | what the handlers promise when nothing interleaves: `FollowedOnlyGrows`, `RepliesOnlyGrow`, `ChirpOkIsLinked`, `LatestNotForgotten`, `RegisterOkIsFirst`, `ReadOkIsWhole`; and `AsTested` (section 8) |
| `Service_register_twice` | 2 threads that register | a second thread breaks `RegisterOkIsFirst` (a violation) |

Two threads are enough for every race between two handlers. Two ids give a
chirp and a reply, which is what a lost latest chirp, an unlinked reply and a
cycle of two need; the three ids of the sequential run add a second reply or a
reply to the reply; three users let a list hold two names. The larger instances
are what the proofs are for.

`View` leaves out `status`, which no step reads. `Symmetry` permutes threads,
users and ids. That handlers end is a matter of liveness, and is checked with the
commands that wait for them (section 10).

### Proofs

`ChirpServiceProofs` proves, for every number of threads, users, ids, faults and
crashes:

* `TypeCorrect`: `Spec => []TypeOK`.
* `FollowedCorrect`: `Spec => []FollowedAreUsers`. The invariant is not inductive:
  between its check and its put, a handler relies on what it has seen. `FollowInv`
  adds what holds at each step of `registeruser` and `follow` (the one followed
  exists, the list about to be put back is itself well-formed). Keys are never
  deleted, so what was seen stays true.
* `ThreadsCorrect`, with its parts `LatestCorrect` and `RepliesCorrect`:
  `Spec => [](LatestIsOwnChirp /\ RepliesAreReplies /\ ThreadsAcyclic)`, assuming
  `NoReissue`, that is `~SameSecond \/ MaxFaults = 0`. `ChirpInv` says that
  two handlers never hold the same new id, that a chirp whose own reply list does
  not exist yet is in nobody's list and about to be in none but its parent's, and
  that the edges in the store and in flight have no cycle: an edge is only added
  from a chirp that has a list to one that has none yet, which is why the order of
  the last two puts matters.
* `ReadsCorrect`: `Spec => []ThreadIsATree`, under the same assumption. That the
  links have no cycle at any one time is not enough, because a read sees them at
  many times: a list may shrink when another handler's put is overwritten, and a
  link that a handler was about to make is gone when the service dies. `TreeInv` says
  that there is one strict order of the ids that every link follows, that nothing
  comes after a chirp without a list, and that all a read has fetched or still holds
  comes after the chirp it was asked for. The order is not a variable; the invariant
  says that there is one, and a step that links a reply extends it. With it, a chirp
  is in the answer, the queue and the replies in hand of a read once at most.

The assumption (`NoReissue`) is needed by the argument, not a convenience: with ids
handed out again, "the id is new" rests on the check before the put, and a failing
check lets a second chirp take the place of the first. `Service_faults` has RPCs that
fail and therefore no restart within the second; ids handed out again are covered by
the theorems alone, where no RPC fails.

Six theorems are about what the handlers promise when nothing interleaves. `Alone`
says that there is one thread, and that RPCs to the store do not fail; users, ids and
the restarts of the service are still any number. It is what `Service_sequential`
runs, and every one of the six is false without it. They say what the handlers are
for, and cannot catch what a second thread, a failing RPC or a death does to them;
`Service_faults` says how far that can go (`FollowedAreUsers` for a half-done
registration and a lost name, `RepliesAreReplies` for a lost reply and one never
linked, `ThreadIsATree` for a read that misses a chirp), and `NewsArrives` (section 7)
what a stream is promised when a latest chirp has been forgotten.

| theorem | property |
|---|---|
| `FollowedGrow`, `RepliesGrow` | `FollowedOnlyGrows`, `RepliesOnlyGrow`: what is put back is what was fetched with one entry more, and what was fetched is still there |
| `LatestKept` | `LatestNotForgotten`: `registeruser` puts an empty id only where there is none |
| `FirstRegisters` | `RegisterOkIsFirst` |
| `ReadsWhole` | `ReadOkIsWhole` |
| `ChirpsLinked` | `ChirpOkIsLinked`, if the service does not die (`MaxCrashes = 0`) |

`AloneInv` adds to the three invariants above that what a handler has seen in the
store is still so when it acts on it (`AloneInFlight`), and that the replies to all a
read has visited are in its answer or its queue. `ChirpsLinked` needs `AllHaveLists`
besides: a chirp whose handler died before its last put never gets a list, and a
reply to it is answered OK and not linked. The service dies in no step of
`Service_sequential` either.

## 4. ConcurrentHashTable, AtomicMap, MapCalls

`MapCalls` is the interface of `cchash.h` (lines 21-39): the calls, what each
returns, what each makes of the map. `AtomicMap` is the abstract specification: a
call takes effect in one step between its invocation and its return.
`ConcurrentHashTable` is the code: `data[b]` is the list of a bucket, `readers[b]`
and `writer[b]` its `shared_mutex`, and each operation is four steps: lock (shared
or unique), `FindEntry` (`iter[t]` is the iterator), use of the iterator, unlock.
Threads interleave between the steps.

`Linearizable` says that it implements `AtomicMap`, with `map` the lookup in the
buckets and `result` what the operation has computed. `GetValue(key)` on a
missing key dereferences `end()`, which is undefined; libstdc++ then reads the
zeroed bytes of the mutex that lies behind the list's head, an empty string, and
that is `Blank`.

| run | instance | shows |
|---|---|---|
| `Table_linearizable` | 3 threads, 2 keys in one of 3 buckets, 2 values, every operation | `TypeOK`, `OneEntryPerKey`, `IteratorIsFresh`, `Linearizable` |

Three threads let two readers meet a writer, or two writers race for the same
missing key while a third reads; the keys share a bucket because buckets share
nothing. The 19 buckets and `std::hash` are constants; the proofs hold for all.

Proved in `ConcurrentHashTableProofs`: `TableConsistent` (the three invariants,
`TypeCorrect` and `IteratorStaysFresh` being two of them)
and `Linearizability` (`Spec => Linearizable`). The inductive invariant `TableInv`
adds that a thread between lock and unlock holds its bucket, that a writer holds
it alone, and that the iterator in hand is the position of the key's entry. The
lemmas about `FindEntry`, push, overwrite and erase say what each does to every
lookup in the bucket.

## 5. KeyValueStore, AtomicStore, StoreCalls

`KeyValueStore` is the client (`kvstore_client.cc`) and the server (`kvstore.cc`,
`kvhelper.cc`) over an atomic table, which section 4 justifies.

| TLA+ | code |
|---|---|
| `database_` | the table, a member of the server |
| `rpc[h]`, `step[h]`, `replyval[h]` | the request a server thread serves, its next touch of the table, what `get` has read |
| `call[c]`, `pc[c]`, `answer[c]` | the function a client thread is in, which RPC of it is out, the status and value that came back |
| `Put`, `GetRead` `GetHas`, `DeleteMissing` `DeleteHas` `Delete` | `put`; `get`: `GetValue`, then `Has`; `deletekey`: `Has`, then `DeleteKey` |
| `Fail`, `Restart` | an RPC fails, its handler goes on without a caller; the process dies with its data |

`AtomicStore` is what a client may think: each call takes effect at once, or
fails; a put that failed may take effect later (`late`), and all may be lost when
the store dies. `Atomic` says that `KeyValueStore` implements it. `GetValue`
takes effect where its handler reads the table, every other call with its answer.
It holds for `Has`, `GetValue` and `PutOrUpdate` however calls interleave, although
`get` touches the table twice: `GetValue` returns the value and drops the status,
`Has` the reverse. It does not hold for two clients that `Put` or `Delete` the
same key; those are atomic for one client at a time only. `GetValues` gets its
first value only, because the handler of `get` returns after one key.

| run | instance | shows |
|---|---|---|
| `Store_shared` | 3 clients, 1 key, 3 values, every function, 2 faults, 1 restart | `TypeOK`, `Atomic` |

The constraint `Alone` says for which calls `Atomic` is asked: `Has`, `GetValue` and
`PutOrUpdate` in any company, `Put`, `Delete` and `GetValues` only while no other
call is in progress and no handler is still at work for a call that was given up,
and `Put`, which is two RPCs, only when no more RPCs fail. A `GetValues` asks for two
keys (the same one twice here), of which it gets one value.

One key is enough for what clients do to each other, since keys share nothing
above the table; three clients let a late put meet a get and another put.

Proved in `KeyValueStoreProofs`: `TypeCorrect`, and `StoreIsAtomic` under `Shared`
(the calls are `Has`, `GetValue`, `PutOrUpdate`). `StoreInv` adds that a client has
at most one RPC out, that a handler serves what its client waits for, and that a
`get` that will find its key missing has read `Blank`.

`ChirpService` makes only these three calls and `Put`, which it takes as two, so
that its atomic RPCs are what `StoreIsAtomic` gives it. What `ChirpService` does
not take over is a failed put that takes effect late, and the death of the store;
this is step 12 of the plan.

## 6. IdGenerator

Each load and store of `time_` is a step (`ReadSeconds`, `StoreSeconds`, ...,
`CopyUseconds`), `GetId` under the mutex is one. A 64-bit field does not tear on the
platforms that the Makefile builds for; which thread's store a copy sees is left
open. The clock moves between any two steps. `IdOf` is the code's arithmetic,
its operator precedence included: `machine_code & 0x3FF << 12` is
`machine_code & (0x3FF << 12)`, and what remains of the code are the ten bits
above the lowest twelve, so that the default 300 counts as 0.

| run | instance | shows |
|---|---|---|
| `Id_unique` | 2 processes (2 threads and 1), sequence of 2, 2 readings to a second, 1 restart, not within the second | `TypeOK`, `IdsUnique`, `TimeIsOwnIfAlone` |
| `Id_time_race` | 2 threads of one process | one thread returns the time of the other: `TimeIsOwn` violated |

A sequence of two wraps with the second id of a second, and the codes of the two
processes differ above the lowest bits. `CHECK_DEADLOCK FALSE`: the clock has a
last reading, and the calls an upper bound.

Proved in `IdGeneratorProofs`: `TypeCorrect`, and `IdsNeverRepeat` under `Granted`:
no more than `SequenceSize` (4096) ids in a second, no restart within the second,
codes that differ in the bits that are kept. Nothing in the code ensures the
three; the theorem says that they are all it needs. `IdsAreMade` is the
inductive invariant: every id was made in some second up to this one, and one of
this second has a sequence number among the last `count` (`Recent`, which goes
round); the next number is not among them as long as `count` is below the size.
The digits of an id are unique (`IdOfInjective`). `TimeCorrectIfAlone`
(`Spec => []TimeIsOwnIfAlone`) needs no such grants: `TimeInv` follows a clock
reading from the thread's hand into `time_` and on into the pair, and says at each
step that it lies between the call and now.

## 7. Monitor

`Monitor` is the handler as the server runs it: the loop never ends and no
buffer is open. A step is an RPC; `curr`, `id` and `followed` are the locals,
`sent` what has been written to the stream. The rest of the service is reduced to
what it does to the two keys that the loop reads:

| TLA+ | code |
|---|---|
| `Make`, `Publish` | `chirp`: a chirp gets its time; its id becomes its author's latest, in any order |
| `FollowGet`, `FollowPut` | `follow`: the list is fetched (nothing, if that fails) and extended; it is put, over whatever is there by then. A put that fails may have been done |
| `RegisterIdPut`, `RegisterFollowedPut` | `registeruser` that passed its check before the name was there, and puts an empty id and an empty list late |

A handler of `follow` between its fetch and its put is nothing but the list it is
about to put, so that `extended` is the set of such lists: two handlers may lose
each other's names, a failed fetch loses all earlier ones, and a late registration
empties the list. Since names come and go, `listed` remembers who has been in the
list since the call began; no step reads it. Checks that a name exists are left out,
so that more may happen here than in the code.

| run | instance | shows |
|---|---|---|
| `Monitor_stream` | 1 caller, 2 users, 2 chirps, 2 lists about to be put, 3 clock readings, 1 fault | `TypeOK`, `StreamIsNews`, `NewsArrives` |
| `Monitor_missed` | 1 caller, 2 users, 2 chirps, 1 list about to be put, no fault | `EveryChirpIsSent` violated |

`StreamIsNews`: only chirps made since the call began, by those who have been
followed since, each once, in the order of their times. By those who are followed
still would be false: a name may be lost after its chirp has been sent.
`NewsArrives`: a chirp that is the latest of one followed and newer than all sent is
sent, or one as new is, or it goes out of reach (`InReach`): a newer one is its
author's latest, it is forgotten, or its author drops out of the list. More does not
hold: `curr` is one time for all followed, and only latest chirps are looked at. In
the trace of `EveryChirpIsSent` both chirps stay in reach for good.

Callers do not affect each other here, so one is enough. Two chirps are enough for
one to hide another, two lists about to be put for one to overwrite the other.
`Bound` of `MCMonitor` takes away what shows nothing new: chirps made before the call
(a call that begins later finds them as old as it would find none, `curr` being its
clock), clock readings that tell no two chirps apart, the choice of the user who
chirps first, and handlers of `follow` at work while a latest chirp is forgotten
(ids and lists have no key in common). The proofs have none of these bounds.

Fairness: weak, of each caller's own steps. It is a thread that runs, and its
RPCs complete or fail. Nothing is assumed of those who chirp, follow or register.

Proved in `MonitorProofs`: `TypeCorrect`, and `StreamInOrder`
(`Spec => []StreamIsNews`), for any callers, users, chirps, follows and faults. The
property speaks of what was sent only; `MonitorInv` adds what makes the next
write right: `curr` is no older than the call and than anything sent, the id in
hand is that of a chirp of the one looked at, those in the list and those still to
be looked at have been listed since the call began, a latest id is its user's own,
and a call that has not entered its loop has sent nothing. A chirp's time never
changes once it has an id, which is why what was in order stays in order; a list that
is put takes nobody out of `listed` and adds to it whom it holds (`ListPut`), which is
why what was sent stays by one who has been followed.

## 8. Parser, FakeService and ServiceAsTested

`Parser` is `parser.h`: a string is a sequence of characters, `Parser` puts a
newline after each element, `Deparser` is the loop of `std::getline`, which
delivers what is left after the last newline unless that is nothing.

`FakeService` is the service of the unit tests, `service_string.cc`, on the table
`table_` of `UnitTestKVClient`. Nothing runs beside a request in the tests, so a
request is one action here, composed of the calls it makes to the table in their
order: each call is an operator from table to table (`Put`, `PutOrUpdate`), and
`chirp` is `Put`, `PutOrUpdate` of the latest id, `Linked`, `Listed`. Lists are kept
as strings. `Name` may hold names with newlines, `issued` are the generated ids in
their order, `reply` is the last answer. A request to chirp may name any parent,
one that does not exist yet included, and even the id that the chirp will get.

`ServiceAsTested` compares the two services. `ServiceImpl` does in many RPCs what
`FakeService` does in one step, so a history (`seen`: the store at the last answer;
`order`: the ids answered; `told`: the last answer) is added to `ChirpService` that no
step reads; `AsTested` is `FakeService`'s specification with these in place of its
variables. It says that the unit tests, which test `FakeService` only, speak of the
service that runs: with one thread, as long as the store does not fail. Two answers
differ, and the mapping says so: to follow the same name twice (section 11).

| run | instance | shows |
|---|---|---|
| `Fake_service` | the names "a", "b" and "a\nb", 4 ids | `TypeOK`, `ReadsWhatIsThere`, `ReadEnds`, `FollowedAreUsers`, `ReadIsThread` |
| `Service_sequential` | 1 thread, 3 users, 3 ids (section 3) | `AsTested` |

`FollowedAreUsers` holds for plain names; a name with a newline comes back in
pieces, each a line of a name that was followed. That is the only consequence,
because nothing else is a list of names. `ReadIsThread` says what `read` answers, to
the order: level by level, the replies to one chirp in the order of posting. Four
ids give a chirp with two replies, one of which has a reply, so that levels and the
order within a level both matter; two give a reply that comes before its parent.

`Bound` keeps what does not meet apart: in `Fake_service`, not more than one chirp
once somebody follows, and not more than two with more than one author; in
`Service_sequential`, no third chirp once somebody follows. Lists of names and
threads of chirps have no key in common, and no step of one reads the other.
`MaxFollowed` bounds a list that grows for ever when a name with a newline is
followed again and again. `Symmetry` is over ids, whose order is that of `issued`,
a choice of the model.

Proved in `FakeServiceProofs`: all five properties of `Fake_service`, for any names,
with newlines or without, any ids and any number of requests: `TypeCorrect`,
`ReadsAreThere` (`Spec => []ReadsWhatIsThere`), `ReadsEnd` (`Spec => []ReadEnds`),
`FollowsCorrect` (`Spec => []FollowedAreUsers`) and `ReadIsWholeThread`
(`Spec => ReadIsThread`). They rest on two assumptions of the modules.
`StringsAssumption`: names and ids are strings, an id is not empty, has no newline
in it, and is not "-1". `IdsAssumption`: there are finitely many ids, because an id is
an integer of 64 bits; without it `read` need not end.

* The loops of `Parser`, `std::getline` and `read` are recursive functions. What they
  compute is shown without an induction rule: if a claim about the rounds of a loop
  failed, there would be a first round at which it fails (`Least`, from the
  well-foundedness of the naturals), and `UpTo` says so for the rounds up to the
  last. `Recursion` says that such a function is what its equation says.
* `PlainList`: what `Deparser` makes of a string to which `Parser` has put plain
  strings is these strings. `AppendedLines`: what it makes of a list to which `Parser`
  has put one more element, of whatever characters, is the lines of the list and then
  those of the element.
* `TableInv` is the inductive invariant. A chirp, and nothing else, has a list of
  replies, and the list holds those who name it as their parent and came later
  (`Answers`), in the order of posting. That they came later is what excludes cycles,
  and it holds because `chirp` looks for the parent's list before it makes the
  chirp's own: a chirp that names itself, or one to come, is in no list.
* `InLevels` is the invariant of `read`'s loop: what is answered and queued is a
  sequence without repetition, whose first k chirps have been visited, with all
  their answers in the order of their parents. No repetition and finitely many ids
  bound the rounds; when the queue is empty, the sequence is the thread (`ThreadIs`).

`AsTested` is only model-checked so far.

## 9. MonitorHandOver

The mutex `monitor_mutex_` (who holds it), the condition variable (`asleep`), the
members `monitor_flag_`, `exit_flag_`, `monitor_refresh_times_`, and a program
counter for each caller and for the thread of `MonitorBuffer`. A wait is a check
under the mutex (`MonitorSleep`, `BufferSleep` if it fails) and, when woken, a new
lock and a new check; a thread may wake without cause (`SpuriousWakeup`, bounded
by `MaxSpurious`). What is done under the mutex is split where the code touches
shared data twice (the reply, then the flag; the buffer, then the flag). The
module covers both copies of the code: in `FakeService` (`service_string.cc`)
monitor always waits, and writes the reply that the buffer reads; in `ServiceImpl`
(`service.cc`) it waits if `buff_mode_` is set and writes a reply of its own, so
that the buffer's chirps are all blank. `Init` takes any of these, any loop count
up to `MaxLoops` or none (-1), and any of the callers.

| run | instance | shows |
|---|---|---|
| `Monitor_hand_over` | 2 callers, 2 chirps, 2 loops, 1 spurious wake-up | `TypeOK`, `InStep`, `EndTogether`, `SentArrives` |

`InStep` holds for any callers: the buffer is at most one chirp behind, and
`monitor_flag_` says when. The liveness properties are about a lone caller, and
that is not modesty: with two callers and three chirps there is a state in which
both callers and the buffer sleep for ever, because `notify_one` woke the other
caller; the first to end makes the others endless (`monitor_refresh_times_ = -1`);
and one who follows nobody returns without telling the buffer. The last chirp
before the end may be lost, because the buffer looks at `exit_flag_` first.
`CHECK_DEADLOCK FALSE`: callers and buffer come to their ends.

Fairness: weak, of each thread's own steps. It is enough although a mutex
need not be fair: a lone caller's loops and chirps are finite, so that it does not
lock again and again while the buffer waits for the mutex. A thread that sleeps is
not assumed to wake unless it is notified.

Proved in `MonitorHandOverProofs`: `TypeCorrect`, and `BufferInStep`
(`Spec => []InStep`), for any callers, loops, chirps and spurious wake-ups, in
both services. `HandOverInv` adds that a thread holds `monitor_mutex_` exactly
while it is between lock and unlock, that a pass is begun with a loop left and
goes to the lock with a chirp in hand, and that what was streamed is what the
buffer has, and one reply more as long as `monitor_flag_` is set or about to be.

## 10. Command

`Command` composes `ChirpService` with its clients. A command is a process that
lives for one command line.

| TLA+ | code |
|---|---|
| `Flags`, `CommandHandler`, `CommandLine`, `Asked` | the flags, the switch over which of them are given, and the request made of them |
| `task[c]`, `call[c]`, `state[c]`, `answer[c]` | what `c` was started for; its RPC, about to be sent or awaited; status and chirps that came back |
| `Start` | `main` up to the first RPC |
| `Call`, `Serve` | the stub's blocking call: a thread of the service takes the request; its last step answers |
| `PostReply` | `ChirpPost` with a parent: `read` was OK, now `chirp` |
| `Exit` | what was answered is printed (`Printed`), the process ends |
| `from[h]` | the command that waits for what `h` does, if one still does |
| `Lose` | a connection breaks: the command gets UNAVAILABLE, the handler goes on |
| `ServiceRestart` | the service dies with all its handlers |
| `Others` | requests of clients other than the command |

| run | instance | shows |
|---|---|---|
| `Service_commands` | 1 command at a time, 2 threads, 1 user, 2 ids, 1 broken connection or restart, others chirp | `CTypeOK`, `ReplyHasParent`, `ReportedIsDone`, `EveryCommandEnds` |

One command after another beside a thread that serves others, or goes on for a
command that has gone, is what interleaving there can be with two threads. Others
may chirp with any parent, also with the one the command has yet to create; two ids
are enough for the command's reply to race with the chirp it replies to.
`IdToSpare` bounds the requests that need ids to the ids there are. No RPC to the
store fails here (`Service_faults` does that).

`View` leaves out `status`, the last answer of a handler: no step's guard reads it, nor
does a property, `answer` being what the command got, so that states that differ in
it only have the same successors, and the same fairness.

Fairness, for `EveryCommandEnds`: weak, of each handler's steps (a runnable thread
runs, an RPC to the store completes or fails; neither client sets a deadline, so a
store that hangs hangs its callers), and strong, of the command's own. Strong is
needed because others keep the threads busy: gRPC queues calls in the order of
their arrival, so that a call that finds a thread free again and again gets one.
With it the run checks that the handlers end, `read`'s loop over a tree that grows
meanwhile included.

Proved in `CommandProofs`, for any number of commands, threads, users, ids, faults,
broken connections and restarts: `CommandTypeCorrect` (`CTypeOK`: the types, and who
serves whom) and `RepliesHaveParents` (`CSpec => []ReplyHasParent`). The invariant
`CommandInv` adds that only who waits has an answer, that the parent of a reply is
the chirp that was read first and is there once that read is OK, and that a
handler goes on reading only from a chirp that is there. Chirps are never
deleted, so the parent stays, however long the command takes between its calls.

`ReportsCorrect` (`CSpec => []ReportedIsDone`, assuming `NoReissue`) is about what the
command prints. `ReportInv` says of each answer that it is true of the store
(`Reported`). When the handler answers, that follows from the service's own
invariants (`ServiceInv`), which say what it has put or seen before its last step. From
then on it follows from `StoreKeeps`: whatever other handlers do, a key that is there
stays, and a chirp is not overwritten, so that what was true when the service
answered is true when the command prints it.

## 11. Where the code does not do what a comment or a test says

Shown by a run: `Service_register_twice`, `Id_time_race`, `Monitor_missed`
(`PROJECT.json`, "findings"). Others, met while modelling:

* a follow or a reply is lost when two threads extend the same list
  (`service.cc` 98-104, 128-141);
* `follow` is answered OK although its put failed (141);
* `read` is answered OK when a fetch failed, with less than the thread (162);
* `put` overwrites (`kvstore.cc` 34), where `kvstore.h` 22 says otherwise;
* two deletes of one key may both succeed (`kvhelper.cc` 18), and two `Put`s of one
  key (`kvstore_client.cc` 55);
* `get` reads a missing key's value before it asks whether it is there
  (`kvstore.cc` 46), and with a put in between answers OK with an empty value;
* `GetValues` returns the first value only (`kvstore_client.h` 25);
* more than 4096 ids in a second repeat, and the machine code is dropped
  (`unique_id.cc` 25-27);
* the last chirp before monitor's end may not reach the buffer
  (`service_string.cc` 237), where `unittest_service.cc` 228 expects every one;
* to follow the same name twice is OK in the service that is tested
  (`unittest_service.cc` 163-164) and ALREADY_EXISTS in the one that runs
  (`service.cc` 137);
* a reply is answered OK and never linked if its parent has no list yet
  (`service_string.cc` 92, `service.cc` 96), since neither asks whether the parent is
  there; only the command line does, and `-reply=-1` passes it by
  (`command.cc` 52);
* the guard of `registeruser` against an empty name is never reached from the
  command line, where an empty flag is a flag not given;
* "Return the posted chirp" (`command.h` 23): a command that fails prints a blank
  chirp all the same (`command.cc` 58-66);
* a name with a newline is registered, and becomes several in a list of names
  (`parser.h` 14).

## 12. Not modelled, not proved

gRPC and protobuf themselves; text, formatting and logging; the unit tests (they
were read for what they promise); `UnitTestKVClient::Delete`, which nothing calls;
how the command prints, and its loop over the stream of `-monitor`, which adds nothing
to the stream; `src/command/command_helper.h`, an old copy of the one in `utils/`
that nothing includes; a client of monitor that goes away, and flow control of its
stream (`Write` returns in the model); a system clock that is set back; in
`ChirpService`, a failed put that takes effect late and a store that dies (both are
in `AtomicStore`).

Every invariant and every safety property that a passing run checks is a theorem
too, except `AsTested`. Where a theorem has an assumption (`NoReissue`, `Alone`,
`Shared`, `Granted`), the section of its module says which and why; the runs include
instances that meet them. Only model-checked are

* the liveness properties (`EveryCommandEnds`, `NewsArrives`, `EndTogether`,
  `SentArrives`), which need fairness and ENABLED and are out of the prover's reach;
* `AsTested`, the refinement of `FakeService` by `ChirpService`: a step of the plan.

The library's rules of induction cannot be used with the provers at hand, because
they take an operator as their parameter; section 8 says what the proofs do instead.

----------------------------- MODULE StoreCalls -----------------------------
(***************************************************************************)
(* The functions of KeyValueStoreClient, through which the service uses the *)
(* key-value store: what service/utils/kvstore_client.h:25-38 promises of  *)
(* them, GetValues excepted.                                               *)
(***************************************************************************)
EXTENDS MapCalls, Naturals, Sequences

HasOrGetOrDelete == [op : {"Has", "GetValue", "Delete"}, key : Key]
PutOfPair == [op : {"PutOrUpdate", "Put"}, key : Key, value : Value]
SingleCall == HasOrGetOrDelete \cup PutOfPair

\* GetValues asks for several keys, one after the other, in one RPC.
GetValuesCall == [op : {"GetValues"}, keys : Seq(Key) \ {<<>>}]
StoreCall == SingleCall \cup GetValuesCall

\* The value of the first key only: the one promise that is not as documented,
\* since no part of the store even tries to keep that one ("Requests each key").
FirstOf(m, keys) ==
  [n \in DOMAIN keys |-> IF n = 1 /\ Present(m, keys[n]) THEN m[keys[n]] ELSE Blank]

\* What a call promises to return, and to make of the store's map.
Promised(m, c) ==
  CASE c.op = "GetValue"        -> IF Present(m, c.key) THEN m[c.key] ELSE Blank
    [] c.op \in {"Has", "Delete"} -> Present(m, c.key)
    [] c.op = "Put"             -> ~Present(m, c.key)
    [] c.op = "PutOrUpdate"     -> TRUE
    [] c.op = "GetValues"       -> FirstOf(m, c.keys)

Left(m, c) ==
  CASE c.op = "Put" /\ ~Present(m, c.key) -> [m EXCEPT ![c.key] = c.value]
    [] c.op = "PutOrUpdate"               -> [m EXCEPT ![c.key] = c.value]
    [] c.op = "Delete"                    -> [m EXCEPT ![c.key] = NoValue]
    [] OTHER                              -> m

\* What a call returns when an RPC of it fails.
Failed(c) ==
  CASE c.op = "GetValue"  -> Blank
    [] c.op = "GetValues" -> [n \in DOMAIN c.keys |-> Blank]
    [] OTHER              -> FALSE
=============================================================================

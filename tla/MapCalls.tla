------------------------------ MODULE MapCalls ------------------------------
(***************************************************************************)
(* The operations of ConcurrentHashTable (kvstore/utils/cchash.h) as its    *)
(* interface documents them (lines 21-39): what a call returns and what it  *)
(* makes of the map.                                                        *)
(***************************************************************************)

CONSTANTS
  Key, Value,
  Blank,     \* the value read through an iterator to no entry
  NoValue,   \* "this key is not in the map"
  Void       \* the result of a call that returns nothing

GetValueCall == [op : {"GetValue"}, key : Key]
HasCall == [op : {"Has"}, key : Key]
DeleteKeyCall == [op : {"DeleteKey"}, key : Key]
GetValueOrCall == [op : {"GetValueOr"}, key : Key, default : Value]
AddCall == [op : {"Add"}, key : Key, value : Value]
AddOrUpdateCall == [op : {"AddOrUpdate"}, key : Key, value : Value]
Call == GetValueCall \cup HasCall \cup DeleteKeyCall \cup GetValueOrCall
          \cup AddCall \cup AddOrUpdateCall
NoCall == [op |-> "none"]

Result == Value \cup BOOLEAN \cup {Void}

ASSUME BlankAssumption == Blank \in Value
ASSUME NoValueAssumption == NoValue \notin Value

Present(m, k) == m[k] # NoValue

\* What a call returns, and what it makes of the map.
Output(m, c) ==
  CASE c.op = "Has"        -> Present(m, c.key)
    [] c.op = "GetValue"   -> IF Present(m, c.key) THEN m[c.key] ELSE Blank
    [] c.op = "GetValueOr" -> IF Present(m, c.key) THEN m[c.key] ELSE c.default
    [] c.op = "Add"        -> ~Present(m, c.key)
    [] OTHER               -> Void

Updated(m, c) ==
  CASE c.op = "Add" /\ ~Present(m, c.key) -> [m EXCEPT ![c.key] = c.value]
    [] c.op = "AddOrUpdate"               -> [m EXCEPT ![c.key] = c.value]
    [] c.op = "DeleteKey"                 -> [m EXCEPT ![c.key] = NoValue]
    [] OTHER                              -> m
=============================================================================

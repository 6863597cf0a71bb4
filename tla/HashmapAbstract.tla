--------------------------- MODULE HashmapAbstract ---------------------------
(***************************************************************************)
(* What a table promises to the rest of the engine: a finite map.  This is *)
(* the meaning of Hashmap (hashmap.hpp) as its callers in func_table.hpp   *)
(* use it: map[key] = value, map.erase(key), map.find(key), map.clear().   *)
(*                                                                         *)
(* A call may take effect at any step before it returns, but only in the   *)
(* way that was requested, and it has taken effect when it returns.        *)
(***************************************************************************)
CONSTANTS Key, Value,
          Absent          \* the answer of a find that ends at end()

VARIABLES dict,           \* the value each key is mapped to, or Absent
          req,            \* the call being executed
          ret             \* what the last find answered

NoRequest == [op |-> "none", key |-> Absent, val |-> Absent]

Request ==
    [op : {"put", "insert"}, key : Key, val : Value]
      \cup [op : {"erase", "find"}, key : Key, val : {Absent}]
      \cup {[NoRequest EXCEPT !.op = "copy"]}

\* What a call makes of a map.  Making it twice is the same as once.
Put(d) == [d EXCEPT ![req.key] = req.val]

\* insert keeps the value of a key that is there
Insert(d) == [d EXCEPT ![req.key] = IF @ = Absent THEN req.val ELSE @]

Erase(d) == [d EXCEPT ![req.key] = Absent]

Effect(d) == CASE req.op = "put"    -> Put(d)
               [] req.op = "insert" -> Insert(d)
               [] req.op = "erase"  -> Erase(d)
               [] OTHER             -> d

AbstractInit ==
    /\ dict = [k \in Key |-> Absent]
    /\ req = NoRequest
    /\ ret = Absent

AbstractCall ==
    /\ req = NoRequest
    /\ req' \in Request
    /\ UNCHANGED <<dict, ret>>

AbstractEffect ==
    /\ req # NoRequest
    /\ dict' = Effect(dict)
    /\ UNCHANGED <<req, ret>>

AbstractReturn ==
    /\ req # NoRequest
    /\ dict' = Effect(dict)
    /\ ret' = IF req.op = "find" THEN dict[req.key] ELSE ret
    /\ req' = NoRequest

AbstractClear ==
    /\ req = NoRequest
    /\ dict' = [k \in Key |-> Absent]
    /\ UNCHANGED <<req, ret>>

AbstractNext == AbstractCall \/ AbstractEffect \/ AbstractReturn \/ AbstractClear

AbstractSpec == AbstractInit /\ [][AbstractNext]_<<dict, req, ret>>
==============================================================================

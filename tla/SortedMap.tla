----------------------------- MODULE SortedMap -----------------------------
(***************************************************************************)
(* What class table promises ("Ordering follows std::map"): a fixed set of *)
(* keys in a strict order, a cursor on one of them or past the end, and    *)
(* one request at a time that moves the cursor.                            *)
(***************************************************************************)
CONSTANTS Less(_, _),   \* the order of the keys
          NoRequest     \* no call is in progress

VARIABLES keys,     \* the elements of the table
          request,  \* [op, target] of the call in progress, or NoRequest
          cursor    \* the keys the client's iterator is on: {k}, or {} for end()

(* The least key of a set, and the greatest, as a set of at most one key.  *)
Least(S) == {k \in S : \A l \in S : l = k \/ Less(k, l)}
Greatest(S) == {k \in S : \A l \in S : l = k \/ Less(l, k)}

(* A target is a set too: {} is a query outside the key space of the       *)
(* table, which finds nothing.                                             *)
NotBelow(t) == {k \in keys : k = t \/ Less(t, k)}
Above(t) == {k \in keys : Less(t, k)}
NotAbove(t) == {k \in keys : k = t \/ Less(k, t)}
Below(t) == {k \in keys : Less(k, t)}

Found(r) ==
    CASE r.op = "find"        -> UNION {keys \cap {t} : t \in r.target}
      [] r.op = "lower_bound" -> UNION {Least(NotBelow(t)) : t \in r.target}
      [] r.op = "upper_bound" -> UNION {Least(Above(t)) : t \in r.target}
      [] r.op = "floor"       -> UNION {Greatest(NotAbove(t)) : t \in r.target}
      [] r.op = "begin"       -> Least(keys)
      [] r.op = "next"        -> UNION {Least(Above(k)) : k \in cursor}
      [] r.op = "prev"        -> IF cursor = {} THEN Greatest(keys)
                                 ELSE UNION {Greatest(Below(k)) : k \in cursor}

Init ==
    /\ request = NoRequest
    /\ cursor = Least(keys)

(* ++ and -- move the client's cursor; the other calls make a new one.     *)
Call ==
    /\ request = NoRequest
    /\ request' # NoRequest
    /\ cursor' = IF request'.op \in {"next", "prev"} THEN cursor ELSE {}
    /\ UNCHANGED keys

Return ==
    /\ request # NoRequest
    /\ cursor' = Found(request)
    /\ request' = NoRequest
    /\ UNCHANGED keys

Next == Call \/ Return

vars == <<keys, request, cursor>>

Spec == Init /\ [][Next]_vars
============================================================================

---------------------------- MODULE CommittedMap ----------------------------
(***************************************************************************)
(* What the library promises from end to end: a client commits keys, opens *)
(* the table once, and from then on has an ordered map of exactly the keys *)
(* it committed.                                                           *)
(***************************************************************************)
CONSTANTS Less(_, _), NoRequest   \* see SortedMap

VARIABLES open,     \* the client has the table
          keys,     \* what has been committed
          request, cursor         \* see SortedMap

Map == INSTANCE SortedMap

vars == <<open, keys, request, cursor>>

Init ==
    /\ open = FALSE
    /\ keys = {}
    /\ request = NoRequest
    /\ cursor = {}

Commit ==
    /\ ~open
    /\ \E k \in keys' : keys' = keys \cup {k}
    /\ UNCHANGED <<open, request, cursor>>

(* The client starts at the first key.                                     *)
Open ==
    /\ ~open
    /\ open' = TRUE
    /\ cursor' = Map!Least(keys)
    /\ UNCHANGED <<keys, request>>

Lookup == open /\ Map!Next /\ UNCHANGED open

Next == Commit \/ Open \/ Lookup

Spec == Init /\ [][Next]_vars
=============================================================================

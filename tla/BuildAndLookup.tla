--------------------------- MODULE BuildAndLookup ---------------------------
(***************************************************************************)
(* The library from end to end: a build, try_open of the file it wrote,    *)
(* and the lookups and the iterator on the table that was opened.          *)
(***************************************************************************)
EXTENDS BuildAndOpen

CONSTANTS Queries, Ops   \* see TableLookup

ASSUME LibraryAssumption ==
    /\ Ops \subseteq {"find", "lower_bound", "upper_bound", "floor",
                      "begin", "next", "prev"}
    /\ \A q \in Queries :
          \/ q.form = "key" /\ q.key \in Word
          \/ q.form = "parts" /\ q.partition \in Word /\ q.value \in Word
          \/ q.form = "bytes" /\ q.partition \in Word /\ q.bytes \in Seq(Byte)

VARIABLES call, pc, lo, len, at_slot, at_index, it   \* see TableLookup

Table == INSTANCE TableLookup WITH
    Images <- {}, img <- image[1], slot <- at_slot, index <- at_index

lookup_vars == <<call, pc, lo, len, at_slot, at_index, it>>
library_vars == <<all_vars, lookup_vars>>

(* Until it has a table, the client has no iterator.                       *)
LibraryInit ==
    /\ BuildInit
    /\ call = Table!NoCall
    /\ pc = "closed"
    /\ lo = 0 /\ len = 0
    /\ at_slot = 0 /\ at_index = 0
    /\ it = Table!At(0, 0)

Building == BuildNext /\ UNCHANGED lookup_vars

(* The client starts at begin() of the table try_open returned.            *)
Begins ==
    /\ status = "ok"
    /\ pc = "closed"
    /\ pc' = "idle"
    /\ it' = Table!Begin(image[1])
    /\ UNCHANGED <<all_vars, call, lo, len, at_slot, at_index>>

Looking ==
    /\ pc # "closed"
    /\ UNCHANGED all_vars
    /\ Table!Next

LibraryNext == Building \/ Begins \/ Looking

LibrarySpec == LibraryInit /\ [][LibraryNext]_library_vars

----------------------------------------------------------------------------
(* The keys the client has committed.                                      *)
CommittedKeys == {log[n].key : n \in DOMAIN log}

Committed == INSTANCE CommittedMap WITH
    Less <- KeyLess,
    NoRequest <- Table!NoCall,
    open <- pc # "closed",
    keys <- CommittedKeys,
    request <- call,
    cursor <- IF pc # "closed" /\ it.slot < image[1].dir_count
              THEN {KeyAt(image[1], it.slot, it.index)} ELSE {}

(* Whatever is committed is what is found: each lookup on the opened table *)
(* lands on the element an ordered map of the committed keys would give,   *)
(* after staging, sort, trimming, directory, file and opening.             *)
IsCommittedMap == Committed!Spec
=============================================================================

---------------------------- MODULE TableLookup ----------------------------
(***************************************************************************)
(* The lookups and the iterator of class table, on an image that has been  *)
(* attached.  One call runs at a time; every loop of the code (the binary  *)
(* search of the directory, the binary search of a partition, normalize,   *)
(* the walk back of floor, retreat) takes one step per iteration.          *)
(***************************************************************************)
EXTENDS Image

CONSTANTS Images,    \* the images the table may be attached to
          Queries,   \* what the client passes to a lookup
          Ops        \* the lookups it calls

(* A query is [form, ...]: "key" with a key, "parts" with a partition and  *)
(* an integer address, "bytes" with a partition and an address as bytes.   *)
ASSUME LookupAssumption ==
    /\ \A img \in Images : WellFormed(img)
    /\ Ops \subseteq {"find", "lower_bound", "upper_bound", "floor",
                      "begin", "next", "prev"}
    /\ \A q \in Queries :
          \/ q.form = "key" /\ q.key \in Word
          \/ q.form = "parts" /\ q.partition \in Word /\ q.value \in Word
          \/ q.form = "bytes" /\ q.partition \in Word /\ q.bytes \in Seq(Byte)

VARIABLES img,    \* the attached image
          call,   \* the call in progress: [op, target], or NoCall
          pc,     \* where it is
          lo, len,      \* the variables of the binary search that is running
          slot, index,  \* the position the call is working on
          it      \* the client's iterator, [slot, index]

vars == <<img, call, pc, lo, len, slot, index, it>>

NoCall == [op |-> "none", target |-> {}]
End(m) == [slot |-> m.dir_count, index |-> 0]
At(s, i) == [slot |-> s, index |-> i]

(* The target of a query: the coordinates the search runs on, or {} where  *)
(* the entry point returns end() without searching.  The key forms need a  *)
(* key mapping, the integer forms a narrow image, and a byte form exactly  *)
(* address_width bytes, read as an integer on a narrow image.              *)
Target(m, q) ==
    CASE q.form = "key" ->
            IF has_key_mapping(m) /\ narrow_address(m)
            THEN {NarrowKey(partition_of(m.address_span, q.key),
                            address_of(m.address_span, q.key))}
            ELSE {}
      [] q.form = "parts" ->
            IF narrow_address(m) THEN {NarrowKey(q.partition, q.value)} ELSE {}
      [] q.form = "bytes" ->
            IF Len(q.bytes) # m.address_width THEN {}
            ELSE IF narrow_address(m)
                 THEN {NarrowKey(q.partition, load_uint(q.bytes))}
                 ELSE {WideKey(q.partition, q.bytes)}

(* The one key a running search looks for.                                 *)
Sought == CHOOSE k \in call.target : TRUE

----------------------------------------------------------------------------
(* make_iterator(0, 0) positions begin() by normalizing.                   *)
FirstSlots(m) == {s \in 0..(m.dir_count - 1) : slot_count(m, s) # 0}
Begin(m) == IF FirstSlots(m) = {} THEN End(m) ELSE At(Min(FirstSlots(m)), 0)

Init ==
    /\ img \in Images
    /\ call = NoCall
    /\ pc = "idle"
    /\ lo = 0 /\ len = 0
    /\ slot = 0 /\ index = 0
    /\ it = Begin(img)

(* A call returns the iterator r.                                          *)
Return(r) ==
    /\ it' = r
    /\ pc' = "idle"
    /\ call' = NoCall
    /\ lo' = 0 /\ len' = 0 /\ slot' = 0 /\ index' = 0
    /\ UNCHANGED img

Goto(label) == pc' = label /\ UNCHANGED <<img, call, it>>

(* Enter a loop over positions at (s, i).                                  *)
Walk(label, s, i) ==
    /\ Goto(label)
    /\ slot' = s /\ index' = i
    /\ lo' = 0 /\ len' = 0

(* slot_lower_bound and slot_floor start with a binary search of the       *)
(* directory, unless it is dense: then the slot is the partition, capped   *)
(* (slot_floor's cap is one lower: it works on the slot after its answer). *)
(* The result is a new iterator; until the call returns it counts as end().*)
Ask(op, q) ==
    LET t == Target(img, q)
        p == (CHOOSE k \in t : TRUE).partition
        n == img.dir_count
        direct == IF op = "floor" THEN (IF p < n THEN p + 1 ELSE n)
                                  ELSE (IF p < n THEN p ELSE n)
    IN  /\ pc = "idle"
        /\ call' = [op |-> op, target |-> t]
        /\ pc' = IF t = {} THEN "end" ELSE "directory"
        /\ lo' = IF t # {} /\ img.dense THEN direct ELSE 0
        /\ len' = IF t = {} \/ img.dense THEN 0 ELSE n
        /\ it' = End(img)
        /\ UNCHANGED <<img, slot, index>>

(* begin(), ++it and --it.  The client does not decrement begin().         *)
AskBegin ==
    /\ pc = "idle"
    /\ call' = [op |-> "begin", target |-> {}]
    /\ pc' = "normalize"
    /\ slot' = 0 /\ index' = 0
    /\ it' = End(img)
    /\ UNCHANGED <<img, lo, len>>

AskNext ==
    /\ pc = "idle"
    /\ call' = [op |-> "next", target |-> {}]
    /\ pc' = "normalize"
    /\ slot' = it.slot /\ index' = it.index + 1
    /\ UNCHANGED <<img, lo, len, it>>

AskPrev ==
    /\ pc = "idle"
    /\ it # Begin(img)
    /\ call' = [op |-> "prev", target |-> {}]
    /\ pc' = "retreat"
    /\ slot' = it.slot /\ index' = it.index
    /\ UNCHANGED <<img, lo, len, it>>

(* The early `return end()` of the entry points.                           *)
ReturnEnd == pc = "end" /\ Return(End(img))

----------------------------------------------------------------------------
(* One iteration of a binary search: go right when `right` holds of the    *)
(* middle, else keep the left half.                                        *)
Mid == lo + len \div 2

(* Mutant: the left half keeps the middle, and a half of one is halved     *)
(* for ever.                                                               *)
Bisect_stuck(right) ==
    /\ IF right THEN lo' = Mid + 1 /\ len' = len - (len \div 2 + 1)
                ELSE lo' = lo /\ len' = (len + 1) \div 2
    /\ UNCHANGED <<img, call, pc, slot, index, it>>

(* Mutant: the middle stays in the right half.                             *)
Bisect_lax(right) ==
    /\ IF right THEN lo' = Mid + 1 /\ len' = len - len \div 2
                ELSE lo' = lo /\ len' = len \div 2
    /\ UNCHANGED <<img, call, pc, slot, index, it>>

Bisect(right) ==
    /\ IF right THEN lo' = Mid + 1 /\ len' = len - (len \div 2 + 1)
                ELSE lo' = lo /\ len' = len \div 2
    /\ UNCHANGED <<img, call, pc, slot, index, it>>

(* slot_floor looks for the first slot above the partition, the others for *)
(* the first not below it.                                                 *)
SlotGoesRight(s) ==
    IF call.op = "floor" THEN slot_partition(img, s) <= Sought.partition
                         ELSE slot_partition(img, s) < Sought.partition

DirectoryStep ==
    /\ pc = "directory" /\ len > 0
    /\ Bisect(SlotGoesRight(Mid))

(* The comparison of search_lower_narrow, search_upper_narrow and          *)
(* search_wide at record i of the slot, `above` choosing the upper bound.  *)
RecordGoesRight(s, i, above) ==
    LET d == img.dir[s]
        n == probe_narrow(d, Sought.value)
        w == probe_wide(img, d, Sought.bytes)
    IN  IF narrow_address(img)
        THEN IF above THEN ~(n.value < d.records[i].value)
                      ELSE d.records[i].value < Plus(n.value, IF n.tail THEN 1 ELSE 0)
        ELSE IF above \/ w.tail THEN LexLeq(d.records[i].bytes, w.bytes)
                                ELSE LexLess(d.records[i].bytes, w.bytes)

(* A wide query with something above the stored stretch is past every      *)
(* record, and is not searched for.                                        *)
PastAll(s) == ~narrow_address(img) /\ probe_wide(img, img.dir[s], Sought.bytes).head

HasTail(s) ==
    IF narrow_address(img) THEN probe_narrow(img.dir[s], Sought.value).tail
                           ELSE probe_wide(img, img.dir[s], Sought.bytes).tail

SearchSlot(s) ==
    /\ Goto("records")
    /\ slot' = s /\ index' = 0
    /\ IF PastAll(s) THEN lo' = slot_count(img, s) /\ len' = 0
                     ELSE lo' = 0 /\ len' = slot_count(img, s)

(* floor_before: the walk of floor_at_or_before starts one slot down.      *)
FloorBefore(s) == IF s = 0 THEN Return(End(img)) ELSE Walk("floor", s - 1, 0)

(* lower_bound_parts and upper_bound_parts after slot_lower_bound.         *)
BoundSlotFound ==
    /\ pc = "directory" /\ len = 0
    /\ call.op \in {"lower_bound", "upper_bound"}
    /\ IF lo < img.dir_count /\ slot_partition(img, lo) = Sought.partition
       THEN SearchSlot(lo)
       ELSE Walk("normalize", lo, 0)

(* find_parts after slot_lower_bound.                                      *)
FindSlotFound ==
    /\ pc = "directory" /\ len = 0
    /\ call.op = "find"
    /\ IF /\ lo < img.dir_count
          /\ slot_partition(img, lo) = Sought.partition
          /\ slot_count(img, lo) # 0
          /\ ~PastAll(lo) /\ ~HasTail(lo)
       THEN SearchSlot(lo)
       ELSE Return(End(img))

(* floor_parts after slot_floor: lo is the slot after the answer.          *)
FloorSlotFound ==
    /\ pc = "directory" /\ len = 0
    /\ call.op = "floor"
    /\ IF lo = 0 THEN Return(End(img))
       ELSE IF slot_partition(img, lo - 1) = Sought.partition
       THEN IF slot_count(img, lo - 1) # 0
            THEN SearchSlot(lo - 1)
            ELSE FloorBefore(lo - 1)
       ELSE Walk("floor", lo - 1, 0)

----------------------------------------------------------------------------
RecordsStep ==
    /\ pc = "records" /\ len > 0
    /\ Bisect(RecordGoesRight(slot, Mid, call.op \in {"upper_bound", "floor"}))

(* Mutant: the bound is returned without normalize.                        *)
BoundRecordFound_raw ==
    /\ pc = "records" /\ len = 0
    /\ call.op \in {"lower_bound", "upper_bound"}
    /\ Return(At(slot, lo))

BoundRecordFound ==
    /\ pc = "records" /\ len = 0
    /\ call.op \in {"lower_bound", "upper_bound"}
    /\ Walk("normalize", slot, lo)

(* find compares the stored stretch of the record it landed on.            *)
StoredMatches(s, i) ==
    LET d == img.dir[s]
    IN  IF narrow_address(img)
        THEN d.records[i].value = probe_narrow(d, Sought.value).value
        ELSE d.records[i].bytes = probe_wide(img, d, Sought.bytes).bytes

FindRecordFound ==
    /\ pc = "records" /\ len = 0
    /\ call.op = "find"
    /\ IF lo < slot_count(img, slot) /\ StoredMatches(slot, lo)
       THEN Return(At(slot, lo))
       ELSE Return(End(img))

FloorRecordFound ==
    /\ pc = "records" /\ len = 0
    /\ call.op = "floor"
    /\ IF lo # 0 THEN Return(At(slot, lo - 1)) ELSE FloorBefore(slot)

----------------------------------------------------------------------------
(* normalize: skip to the next slot that has a record at or after here.    *)
NormalizeStep ==
    /\ pc = "normalize"
    /\ slot < img.dir_count /\ index >= slot_count(img, slot)
    /\ Walk("normalize", slot + 1, 0)

NormalizeDone ==
    /\ pc = "normalize"
    /\ \/ slot >= img.dir_count /\ Return(End(img))
       \/ /\ slot < img.dir_count /\ index < slot_count(img, slot)
          /\ Return(At(slot, index))

(* floor_at_or_before: the tail of the nearest slot that is not empty.     *)
FloorStep ==
    /\ pc = "floor"
    /\ \/ slot_count(img, slot) # 0 /\ Return(At(slot, slot_count(img, slot) - 1))
       \/ slot_count(img, slot) = 0 /\ FloorBefore(slot)

(* retreat: within the slot, or to the tail of an earlier one.             *)
RetreatStep ==
    /\ pc = "retreat"
    /\ IF index > 0 THEN Return(At(slot, index - 1))
       ELSE IF slot = 0 THEN Return(At(0, 0))
       ELSE IF slot_count(img, slot - 1) # 0
       THEN Return(At(slot - 1, slot_count(img, slot - 1) - 1))
       ELSE Walk("retreat", slot - 1, 0)

----------------------------------------------------------------------------
Asks ==
    \/ \E op \in Ops \ {"begin", "next", "prev"}, q \in Queries : Ask(op, q)
    \/ "begin" \in Ops /\ AskBegin
    \/ "next" \in Ops /\ AskNext
    \/ "prev" \in Ops /\ AskPrev

Steps ==
    \/ ReturnEnd
    \/ DirectoryStep
    \/ BoundSlotFound \/ FindSlotFound \/ FloorSlotFound
    \/ RecordsStep
    \/ BoundRecordFound \/ FindRecordFound \/ FloorRecordFound
    \/ NormalizeStep \/ NormalizeDone
    \/ FloorStep
    \/ RetreatStep

Next == Asks \/ Steps

(* A lookup is straight-line code between its loops: once called, it keeps *)
(* running.  Nothing forces the client to call.                            *)
Spec == Init /\ [][Next]_vars /\ WF_vars(Steps)

----------------------------------------------------------------------------
(* Type correctness, with the bounds that keep every read of the directory *)
(* and of the records inside the image: the middle of a running search and *)
(* the slot of a running walk exist.                                       *)
TypeOK ==
    /\ WellFormed(img)
    /\ pc \in {"idle", "end", "directory", "records", "normalize", "floor", "retreat"}
    /\ lo \in Nat /\ len \in Nat
    /\ slot \in 0..img.dir_count /\ index \in Nat
    /\ it \in [slot : 0..img.dir_count, index : Nat]
    /\ pc = "directory" => lo + len <= img.dir_count
    /\ pc = "records" => slot < img.dir_count /\ lo + len <= slot_count(img, slot)
    /\ pc = "floor" => slot < img.dir_count

(* An iterator a lookup hands out is on an element or is exactly end(),    *)
(* the one representation that operator== compares with.                   *)
IteratorValid ==
    \/ it = End(img)
    \/ it.slot < img.dir_count /\ it.index < slot_count(img, it.slot)

Map == INSTANCE SortedMap WITH
    Less <- KeyLess,
    NoRequest <- NoCall,
    keys <- Contents(img),
    request <- call,
    cursor <- IF it.slot < img.dir_count THEN {KeyAt(img, it.slot, it.index)} ELSE {}

(* The table is an ordered map: find, lower_bound, upper_bound, floor,     *)
(* begin, ++ and -- land on the element std::map would give.               *)
IsOrderedMap == Map!Spec

(* Every call returns: each loop of a lookup comes to its end.             *)
CallsReturn == (call # NoCall) ~> (call = NoCall)
============================================================================

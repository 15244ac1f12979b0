-------------------------- MODULE TableLookupProofs --------------------------
(***************************************************************************)
(* The lookups of class table, for every set of well formed images, of any *)
(* size, and every query, in three parts.                                  *)
(*                                                                         *)
(* Every read is inside the image, and every iterator is on an element or  *)
(* is end().  TypeOK and IteratorValid are not inductive as they stand.    *)
(* Retreating from an iterator decrements its index, or walks down over    *)
(* empty slots and must find a record before it runs out of slots:         *)
(* RetreatFinds says that it will.                                         *)
(*                                                                         *)
(* The records of an image are in the order of their keys, and a trimmed   *)
(* probe compares as the full key does.                                    *)
(*                                                                         *)
(* The lookups are those of an ordered map: each call gives the element    *)
(* std::map would give (module SortedMap).  The loops have invariants      *)
(* (LoopInv): a binary search keeps the places that go right before its    *)
(* window and the others after it; a walk keeps the elements it is looking *)
(* for on one side of its position.  Each step of a lookup keeps them, and *)
(* is the call or the return of the map, or changes nothing the client     *)
(* sees.                                                                   *)
(***************************************************************************)
EXTENDS TableLookup, WordLemmas

RetreatFinds ==
    pc = "retreat" =>
        IF index > 0 THEN slot < img.dir_count /\ index < slot_count(img, slot)
                     ELSE \E s \in 0..(slot - 1) : slot_count(img, s) # 0

IInv == TypeOK /\ IteratorValid /\ RetreatFinds

----------------------------------------------------------------------------
(* What the proofs need of a well formed image: its sizes are naturals.    *)
LEMMA Sizes ==
    ASSUME NEW m, WellFormed(m)
    PROVE  /\ m.dir_count \in Nat
           /\ \A s \in 0..(m.dir_count - 1) : slot_count(m, s) \in Nat
BY DEF WellFormed, slot_count

(* begin() is on the first record of the first slot that has one.          *)
LEMMA BeginIsFirst ==
    ASSUME NEW m, WellFormed(m)
    PROVE  \/ Begin(m) = End(m) /\ \A s \in 0..(m.dir_count - 1) : slot_count(m, s) = 0
           \/ \E s \in 0..(m.dir_count - 1) :
                 /\ Begin(m) = At(s, 0)
                 /\ slot_count(m, s) # 0
                 /\ \A r \in 0..(s - 1) : slot_count(m, r) = 0
<1>1. CASE FirstSlots(m) = {}
  BY <1>1 DEF FirstSlots, Begin
<1>2. CASE FirstSlots(m) # {}
  <2>1. FirstSlots(m) \in SUBSET Nat
    BY Sizes DEF FirstSlots
  <2> DEFINE s == Min(FirstSlots(m))
  <2>2. s \in FirstSlots(m) /\ \A y \in FirstSlots(m) : s <= y
    BY <2>1, <1>2, MinOfNats
  <2>3. s \in 0..(m.dir_count - 1) /\ slot_count(m, s) # 0
    BY <2>2 DEF FirstSlots
  <2>4. \A r \in 0..(s - 1) : slot_count(m, r) = 0
    BY <2>2, <2>3, Sizes DEF FirstSlots
  <2> QED
    BY <2>3, <2>4, <1>2 DEF Begin
<1> QED
  BY <1>1, <1>2

(* Words are natural numbers.                                              *)
LEMMA WordsAreNat == WordSize \in Nat /\ Word \subseteq Nat
BY WordAssumption DEF Word, WordSize

(* The partition a search looks for is a natural number.                   *)
LEMMA TargetPartition ==
    ASSUME NEW m, WellFormed(m), NEW q \in Queries, NEW k \in Target(m, q)
    PROVE  k.partition \in Nat
<1>1. CASE q.form = "key"
  <2>1. has_key_mapping(m) /\ k = NarrowKey(partition_of(m.address_span, q.key),
                                            address_of(m.address_span, q.key))
    BY <1>1 DEF Target
  <2>2. q.key \in Nat
    BY <1>1, LookupAssumption, WordsAreNat
  <2>3. m.address_span \in Nat \ {0}
    <3>1. m.address_span \in 0..WordSize
      BY Zenon DEF WellFormed
    <3> QED
      BY <2>1, <3>1, WordsAreNat DEF has_key_mapping
  <2>4. q.key \div m.address_span \in Nat
    BY <2>2, <2>3
  <2> QED
    BY <2>1, <2>4 DEF NarrowKey, partition_of
<1>2. CASE q.form = "parts"
  BY <1>2, LookupAssumption, WordsAreNat DEF Target, NarrowKey
<1>3. CASE q.form = "bytes"
  BY <1>3, LookupAssumption, WordsAreNat DEF Target, NarrowKey, WideKey
<1> QED
  BY <1>1, <1>2, <1>3, LookupAssumption

----------------------------------------------------------------------------
(* A table just attached, with the iterator on begin().                    *)
Fresh ==
    /\ WellFormed(img)
    /\ call = NoCall
    /\ pc = "idle"
    /\ lo = 0 /\ len = 0
    /\ slot = 0 /\ index = 0
    /\ it = Begin(img)

(* That is how a table starts.                                             *)
LEMMA InitFresh == Init => Fresh
BY LookupAssumption DEF Init, Fresh

(* Then the invariant holds.                                               *)
LEMMA FreshIInv == Fresh => IInv
<1> SUFFICES ASSUME Fresh PROVE IInv
  OBVIOUS
<1>1. WellFormed(img)
  BY DEF Fresh
<1>2. img.dir_count \in Nat /\ \A s \in 0..(img.dir_count - 1) : slot_count(img, s) \in Nat
  BY <1>1, Sizes
<1>3. it = End(img) \/ \E s \in 0..(img.dir_count - 1) : it = At(s, 0) /\ slot_count(img, s) # 0
  BY <1>1, BeginIsFirst DEF Fresh
<1>4. TypeOK
  BY <1>1, <1>2, <1>3 DEF Fresh, TypeOK, End, At
<1>5. IteratorValid
  BY <1>2, <1>3 DEF IteratorValid, At
<1> QED
  BY <1>4, <1>5 DEF IInv, RetreatFinds, Fresh

----------------------------------------------------------------------------
(* The ways a step ends: it returns an iterator, enters a loop that walks  *)
(* the slots, halves a search, or starts to search a slot.                 *)
Handable(r) ==
    /\ r \in [slot : 0..img.dir_count, index : Nat]
    /\ r = End(img) \/ (r.slot < img.dir_count /\ r.index < slot_count(img, r.slot))

(* end() may be returned.                                                  *)
LEMMA EndHandable ==
    ASSUME TypeOK PROVE Handable(End(img))
BY Sizes DEF TypeOK, Handable, End

(* An iterator on a record that exists may be returned.                    *)
LEMMA RecordHandable ==
    ASSUME TypeOK, NEW s \in 0..(img.dir_count - 1), NEW i \in Nat, i < slot_count(img, s)
    PROVE  Handable(At(s, i))
BY Sizes DEF TypeOK, Handable, At

(* Returning such an iterator.                                             *)
LEMMA ReturnIInv ==
    ASSUME IInv, NEW r, Handable(r), Return(r) PROVE IInv'
<1>1. TypeOK'
  BY Sizes DEF IInv, TypeOK, Return, Handable
<1>2. IteratorValid' /\ RetreatFinds'
  BY DEF Return, Handable, IteratorValid, RetreatFinds
<1> QED
  BY <1>1, <1>2 DEF IInv

(* Entering or continuing normalize or the walk back of floor.             *)
LEMMA WalkIInv ==
    ASSUME IInv, NEW label \in {"normalize", "floor"},
           NEW s \in 0..img.dir_count, NEW i \in Nat,
           label = "floor" => s < img.dir_count,
           Walk(label, s, i)
    PROVE  IInv'
<1>1. TypeOK'
  BY DEF IInv, TypeOK, Walk, Goto
<1>2. IteratorValid' /\ RetreatFinds'
  BY DEF IInv, Walk, Goto, IteratorValid, RetreatFinds
<1> QED
  BY <1>1, <1>2 DEF IInv

(* Starting the search of a slot.                                          *)
LEMMA SearchSlotIInv ==
    ASSUME IInv, NEW s \in 0..(img.dir_count - 1), SearchSlot(s) PROVE IInv'
<1>1. img.dir_count \in Nat /\ slot_count(img, s) \in Nat
  BY Sizes DEF IInv, TypeOK
<1>2. TypeOK'
  BY <1>1 DEF IInv, TypeOK, SearchSlot, Goto
<1>3. IteratorValid' /\ RetreatFinds'
  BY DEF IInv, SearchSlot, Goto, IteratorValid, RetreatFinds
<1> QED
  BY <1>2, <1>3 DEF IInv

(* floor_before: the walk back starts on the slot below, if there is one.  *)
LEMMA FloorBeforeIInv ==
    ASSUME IInv, NEW s \in 0..(img.dir_count - 1), FloorBefore(s) PROVE IInv'
<1>1. img.dir_count \in Nat
  BY Sizes DEF IInv, TypeOK
<1>2. CASE s = 0
  BY <1>2, EndHandable, ReturnIInv DEF IInv, FloorBefore
<1>3. CASE s # 0
  <2>1. Walk("floor", s - 1, 0) /\ s - 1 \in 0..img.dir_count /\ s - 1 < img.dir_count
    BY <1>1, <1>3 DEF FloorBefore
  <2> QED
    BY <2>1, WalkIInv
<1> QED
  BY <1>2, <1>3

(* One iteration of a binary search over n places stays inside them.       *)
LEMMA BisectStays ==
    ASSUME NEW n \in Nat, NEW right, lo \in Nat, len \in Nat, len > 0, lo + len <= n,
           Bisect(right)
    PROVE  lo' \in Nat /\ len' \in Nat /\ lo' + len' <= n
BY DEF Bisect, Mid

(* Calls: the search of the directory starts within it, and a decrement    *)
(* has an element to find, because the client's iterator is not begin().   *)
LEMMA AskIInv ==
    ASSUME IInv, NEW op, NEW q \in Queries, Ask(op, q) PROVE IInv'
<1> DEFINE t == Target(img, q)
<1>1. img.dir_count \in Nat
  BY Sizes DEF IInv, TypeOK
<1>2. CASE t = {}
  <2>1. lo' = 0 /\ len' = 0 /\ pc' = "end" /\ it' = End(img)
    BY <1>2 DEF Ask
  <2>2. UNCHANGED <<img, slot, index>>
    BY DEF Ask
  <2> QED
    BY <1>1, <2>1, <2>2 DEF IInv, TypeOK, IteratorValid, RetreatFinds, End
<1>3. CASE t # {}
  <2> DEFINE p == (CHOOSE k \in t : TRUE).partition
  <2>1. p \in Nat
    BY <1>3, TargetPartition DEF IInv, TypeOK
  <2>2. /\ pc' = "directory" /\ it' = End(img)
        /\ UNCHANGED <<img, slot, index>>
    BY <1>3 DEF Ask
  <2>3. lo' \in Nat /\ len' \in Nat /\ lo' + len' <= img.dir_count
    <3>1. CASE img.dense
      BY <1>1, <1>3, <2>1, <3>1 DEF Ask
    <3>2. CASE ~img.dense
      BY <1>1, <1>3, <3>2 DEF Ask
    <3> QED
      BY <3>1, <3>2
  <2> QED
    BY <1>1, <2>2, <2>3 DEF IInv, TypeOK, IteratorValid, RetreatFinds, End
<1> QED
  BY <1>2, <1>3

(* begin().                                                                *)
LEMMA AskBeginIInv == ASSUME IInv, AskBegin PROVE IInv'
BY Sizes DEF IInv, TypeOK, IteratorValid, RetreatFinds, AskBegin, End

(* ++.                                                                     *)
LEMMA AskNextIInv == ASSUME IInv, AskNext PROVE IInv'
BY DEF IInv, TypeOK, IteratorValid, RetreatFinds, AskNext

(* --: RetreatFinds holds at the start.                                    *)
LEMMA AskPrevIInv == ASSUME IInv, AskPrev PROVE IInv'
<1>1. WellFormed(img) /\ it # Begin(img)
  BY DEF IInv, TypeOK, AskPrev
<1>2. img.dir_count \in Nat /\ \A s \in 0..(img.dir_count - 1) : slot_count(img, s) \in Nat
  BY <1>1, Sizes
<1>3. TypeOK' /\ IteratorValid'
  BY DEF IInv, TypeOK, IteratorValid, AskPrev
<1>4. /\ slot' = it.slot /\ index' = it.index /\ img' = img
      /\ it.slot \in 0..img.dir_count /\ it.index \in Nat
  BY DEF IInv, TypeOK, AskPrev
<1>5. ASSUME it.index = 0 PROVE \E s \in 0..(it.slot - 1) : slot_count(img, s) # 0
  <2>1. it \in [slot : 0..img.dir_count, index : Nat]
    BY DEF IInv, TypeOK
  <2>2. it = End(img) \/ (it.slot < img.dir_count /\ slot_count(img, it.slot) # 0)
    BY <1>2, <1>5, <2>1 DEF IInv, IteratorValid
  <2>3. PICK s \in 0..(img.dir_count - 1) :
           /\ Begin(img) = At(s, 0)
           /\ slot_count(img, s) # 0
           /\ \A r \in 0..(s - 1) : slot_count(img, r) = 0
    BY <1>1, <1>2, <2>1, <2>2, BeginIsFirst
  <2>4. it # At(s, 0)
    BY <1>1, <2>3
  <2>5. it.slot # s
    BY <1>5, <2>1, <2>4 DEF At
  <2>6. s < it.slot
    BY <1>2, <2>1, <2>2, <2>3, <2>5 DEF End
  <2> QED
    BY <1>2, <2>1, <2>3, <2>6
<1>6. RetreatFinds'
  BY <1>2, <1>4, <1>5 DEF RetreatFinds, IInv, IteratorValid, End
<1> QED
  BY <1>3, <1>6 DEF IInv

(* The two binary searches.                                                *)
LEMMA BisectIInv ==
    ASSUME IInv, NEW right, len > 0, Bisect(right),
           pc = "directory" \/ pc = "records"
    PROVE  IInv'
<1>1. /\ img.dir_count \in Nat /\ lo \in Nat /\ len \in Nat
      /\ \A s \in 0..(img.dir_count - 1) : slot_count(img, s) \in Nat
      /\ slot \in 0..img.dir_count
  BY Sizes DEF IInv, TypeOK
<1>2. UNCHANGED <<img, call, pc, slot, index, it>>
  BY DEF Bisect
<1>3. CASE pc = "directory"
  <2>1. lo' \in Nat /\ len' \in Nat /\ lo' + len' <= img.dir_count
    BY <1>1, <1>3, BisectStays DEF IInv, TypeOK
  <2> QED
    BY <1>2, <1>3, <2>1 DEF IInv, TypeOK, IteratorValid, RetreatFinds
<1>4. CASE pc = "records"
  <2>1. slot_count(img, slot) \in Nat /\ lo + len <= slot_count(img, slot)
    BY <1>1, <1>4 DEF IInv, TypeOK
  <2>2. lo' \in Nat /\ len' \in Nat /\ lo' + len' <= slot_count(img, slot)
    BY <1>1, <2>1, BisectStays
  <2> QED
    BY <1>2, <1>4, <2>2 DEF IInv, TypeOK, IteratorValid, RetreatFinds
<1> QED
  BY <1>3, <1>4

(* After the search of the directory.                                      *)
LEMMA SlotFoundIInv ==
    ASSUME IInv, BoundSlotFound \/ FindSlotFound \/ FloorSlotFound PROVE IInv'
<1>1. /\ img.dir_count \in Nat /\ lo \in Nat /\ TypeOK
      /\ pc = "directory" => lo + len <= img.dir_count
  BY Sizes DEF IInv, TypeOK
<1>2. CASE BoundSlotFound
  <2>1. lo \in 0..img.dir_count
    BY <1>1, <1>2 DEF BoundSlotFound
  <2>2. CASE SearchSlot(lo) /\ lo < img.dir_count
    BY <1>1, <2>1, <2>2, SearchSlotIInv
  <2>3. CASE Walk("normalize", lo, 0)
    BY <2>1, <2>3, WalkIInv
  <2> QED
    BY <1>2, <2>2, <2>3 DEF BoundSlotFound
<1>3. CASE FindSlotFound
  <2>1. CASE SearchSlot(lo) /\ lo < img.dir_count
    BY <1>1, <2>1, SearchSlotIInv
  <2>2. CASE Return(End(img))
    BY <1>1, <2>2, EndHandable, ReturnIInv
  <2> QED
    BY <1>3, <2>1, <2>2 DEF FindSlotFound
<1>4. CASE FloorSlotFound
  <2>1. CASE lo = 0
    <3>1. Return(End(img))
      BY <1>4, <2>1 DEF FloorSlotFound
    <3> QED
      BY <1>1, <3>1, EndHandable, ReturnIInv
  <2>2. CASE lo # 0
    <3>1. lo - 1 \in 0..(img.dir_count - 1)
      BY <1>1, <1>4, <2>2 DEF FloorSlotFound
    <3>2. CASE SearchSlot(lo - 1)
      BY <3>1, <3>2, SearchSlotIInv
    <3>3. CASE FloorBefore(lo - 1)
      BY <3>1, <3>3, FloorBeforeIInv
    <3>4. CASE Walk("floor", lo - 1, 0)
      <4>1. lo - 1 \in 0..img.dir_count /\ lo - 1 < img.dir_count
        BY <1>1, <3>1
      <4> QED
        BY <3>4, <4>1, WalkIInv
    <3> QED
      BY <1>4, <2>2, <3>2, <3>3, <3>4 DEF FloorSlotFound
  <2> QED
    BY <2>1, <2>2
<1> QED
  BY <1>2, <1>3, <1>4

(* After the search of a slot.                                             *)
LEMMA RecordFoundIInv ==
    ASSUME IInv, BoundRecordFound \/ FindRecordFound \/ FloorRecordFound PROVE IInv'
<1>1. /\ len = 0 /\ lo \in Nat /\ TypeOK
      /\ img.dir_count \in Nat /\ slot \in 0..(img.dir_count - 1)
      /\ lo <= slot_count(img, slot) /\ slot_count(img, slot) \in Nat
  BY Sizes DEF IInv, TypeOK, BoundRecordFound, FindRecordFound, FloorRecordFound
<1>2. CASE BoundRecordFound
  <2>1. Walk("normalize", slot, lo) /\ slot \in 0..img.dir_count
    BY <1>1, <1>2 DEF BoundRecordFound
  <2> QED
    BY <1>1, <2>1, WalkIInv
<1>3. CASE FindRecordFound
  <2>1. CASE lo < slot_count(img, slot) /\ Return(At(slot, lo))
    BY <1>1, <2>1, RecordHandable, ReturnIInv
  <2>2. CASE Return(End(img))
    BY <1>1, <2>2, EndHandable, ReturnIInv
  <2> QED
    BY <1>3, <2>1, <2>2 DEF FindRecordFound
<1>4. CASE FloorRecordFound
  <2>1. CASE lo # 0
    <3>1. lo - 1 \in Nat /\ lo - 1 < slot_count(img, slot) /\ Return(At(slot, lo - 1))
      BY <1>1, <1>4, <2>1 DEF FloorRecordFound
    <3> QED
      BY <1>1, <3>1, RecordHandable, ReturnIInv
  <2>2. CASE lo = 0
    BY <1>1, <1>4, <2>2, FloorBeforeIInv DEF FloorRecordFound
  <2> QED
    BY <2>1, <2>2
<1> QED
  BY <1>2, <1>3, <1>4

(* The walks over the slots.                                               *)
LEMMA NormalizeIInv ==
    ASSUME IInv, NormalizeStep \/ NormalizeDone PROVE IInv'
<1>1. img.dir_count \in Nat /\ slot \in 0..img.dir_count /\ index \in Nat /\ TypeOK
  BY Sizes DEF IInv, TypeOK
<1>2. CASE NormalizeStep
  <2>1. slot + 1 \in 0..img.dir_count /\ Walk("normalize", slot + 1, 0)
    BY <1>1, <1>2 DEF NormalizeStep
  <2> QED
    BY <2>1, WalkIInv
<1>3. CASE NormalizeDone
  <2>1. CASE Return(End(img))
    BY <1>1, <2>1, EndHandable, ReturnIInv
  <2>2. CASE slot < img.dir_count /\ index < slot_count(img, slot) /\ Return(At(slot, index))
    BY <1>1, <2>2, RecordHandable, ReturnIInv
  <2> QED
    BY <1>3, <2>1, <2>2 DEF NormalizeDone
<1> QED
  BY <1>2, <1>3

(* The walk back of floor.                                                 *)
LEMMA FloorIInv ==
    ASSUME IInv, FloorStep PROVE IInv'
<1>1. /\ slot \in 0..(img.dir_count - 1) /\ slot_count(img, slot) \in Nat /\ TypeOK
  BY Sizes DEF IInv, TypeOK, FloorStep
<1>2. CASE slot_count(img, slot) # 0
  <2>1. Return(At(slot, slot_count(img, slot) - 1))
    BY <1>2 DEF FloorStep
  <2>2. /\ slot_count(img, slot) - 1 \in Nat
        /\ slot_count(img, slot) - 1 < slot_count(img, slot)
    BY <1>1, <1>2
  <2> QED
    BY <1>1, <2>1, <2>2, RecordHandable, ReturnIInv
<1>3. CASE slot_count(img, slot) = 0
  BY <1>1, <1>3, FloorBeforeIInv DEF FloorStep
<1> QED
  BY <1>2, <1>3

(* This is where RetreatFinds is needed.  A walk back that is on slot 0    *)
(* with index 0 would return At(0, 0), which need not be an element.       *)
LEMMA RetreatIInv ==
    ASSUME IInv, RetreatStep PROVE IInv'
<1>1. /\ img.dir_count \in Nat /\ slot \in 0..img.dir_count /\ index \in Nat /\ TypeOK
      /\ \A s \in 0..(img.dir_count - 1) : slot_count(img, s) \in Nat
  BY Sizes DEF IInv, TypeOK
<1>2. CASE index > 0
  <2>1. Return(At(slot, index - 1))
    BY <1>2 DEF RetreatStep
  <2>2. slot < img.dir_count /\ index < slot_count(img, slot)
    BY <1>2 DEF IInv, RetreatFinds, RetreatStep
  <2>3. /\ slot \in 0..(img.dir_count - 1)
        /\ index - 1 \in Nat /\ index - 1 < slot_count(img, slot)
    BY <1>1, <1>2, <2>2
  <2> QED
    BY <1>1, <2>1, <2>3, RecordHandable, ReturnIInv
<1>3. CASE index = 0
  <2>1. PICK s \in 0..(slot - 1) : slot_count(img, s) # 0
    BY <1>3 DEF IInv, RetreatFinds, RetreatStep
  <2>2. slot # 0 /\ slot - 1 \in 0..(img.dir_count - 1)
    BY <1>1, <2>1
  <2>3. CASE slot_count(img, slot - 1) # 0
    <3>1. Return(At(slot - 1, slot_count(img, slot - 1) - 1))
      BY <1>3, <2>2, <2>3 DEF RetreatStep
    <3>2. /\ slot_count(img, slot - 1) - 1 \in Nat
          /\ slot_count(img, slot - 1) - 1 < slot_count(img, slot - 1)
      BY <1>1, <2>2, <2>3
    <3> QED
      BY <1>1, <2>2, <3>1, <3>2, RecordHandable, ReturnIInv
  <2>4. CASE slot_count(img, slot - 1) = 0
    <3>1. Walk("retreat", slot - 1, 0)
      BY <1>3, <2>2, <2>4 DEF RetreatStep
    <3>2. s \in 0..(slot - 1 - 1)
      BY <1>1, <2>1, <2>4
    <3>3. TypeOK' /\ IteratorValid'
      BY <1>1, <2>2, <3>1 DEF TypeOK, IInv, IteratorValid, Walk, Goto
    <3>4. RetreatFinds'
      BY <2>1, <3>1, <3>2 DEF RetreatFinds, Walk, Goto
    <3> QED
      BY <3>3, <3>4 DEF IInv
  <2> QED
    BY <2>3, <2>4
<1> QED
  BY <1>1, <1>2, <1>3

----------------------------------------------------------------------------
(* Every step preserves the invariant.                                     *)
LEMMA NextIInv == IInv /\ [Next]_vars => IInv'
<1> SUFFICES ASSUME IInv, [Next]_vars PROVE IInv'
  OBVIOUS
<1>1. CASE Asks
  BY <1>1, AskIInv, AskBeginIInv, AskNextIInv, AskPrevIInv DEF Asks
<1>2. CASE ReturnEnd
  BY <1>2, EndHandable, ReturnIInv DEF IInv, ReturnEnd
<1>3. CASE DirectoryStep \/ RecordsStep
  BY <1>3, BisectIInv DEF DirectoryStep, RecordsStep
<1>4. CASE BoundSlotFound \/ FindSlotFound \/ FloorSlotFound
  BY <1>4, SlotFoundIInv
<1>5. CASE BoundRecordFound \/ FindRecordFound \/ FloorRecordFound
  BY <1>5, RecordFoundIInv
<1>6. CASE NormalizeStep \/ NormalizeDone
  BY <1>6, NormalizeIInv
<1>7. CASE FloorStep
  BY <1>7, FloorIInv
<1>8. CASE RetreatStep
  BY <1>8, RetreatIInv
<1>9. CASE UNCHANGED vars
  BY <1>9 DEF vars, IInv, TypeOK, IteratorValid, RetreatFinds
<1> QED
  BY <1>1, <1>2, <1>3, <1>4, <1>5, <1>6, <1>7, <1>8, <1>9 DEF Next, Steps

(* No lookup reads a slot or a record that is not in the image: the middle *)
(* of both binary searches, the slot of every walk and the index of the    *)
(* client's iterator are within their counts (slot_lower_bound,            *)
(* slot_floor, search_lower_narrow, search_upper_narrow, search_wide,      *)
(* normalize, retreat and floor_at_or_before).                             *)
THEOREM LookupsStayInside == Spec => []TypeOK
<1>1. IInv => TypeOK
  BY DEF IInv
<1> QED
  BY <1>1, InitFresh, FreshIInv, NextIInv, PTL DEF Spec

(* Every iterator a lookup, ++ or -- returns is on a record, or is the one *)
(* end() that operator== recognises.                                       *)
THEOREM IteratorsAreValid == Spec => []IteratorValid
<1>1. IInv => IteratorValid
  BY DEF IInv
<1> QED
  BY <1>1, InitFresh, FreshIInv, NextIInv, PTL DEF Spec

----------------------------------------------------------------------------
(* The order of the records of an image, narrow or wide, trimmed or not,   *)
(* dense or sparse.  The keys of the records increase with their positions *)
(* (KeysIncrease), and the comparisons the code makes on the stored        *)
(* stretch of a record and a reduced query, probe_narrow and probe_wide,   *)
(* decide the order of the full keys (Probe).                              *)

(* The keys of a narrow image have no bytes, those of a wide one have the  *)
(* value 0 and as many bytes as the address field.                         *)
StringWidth(m) == IF narrow_address(m) THEN 0 ELSE m.address_width
Keys(m) == KeySpace(StringWidth(m))
Targets(m) == {k \in Keys(m) : k.value \in Word /\ (~narrow_address(m) => k.value = 0)}

(* A record of the image, and the order of the records in it.              *)
HasRecord(m, s, i) == s \in 0..(m.dir_count - 1) /\ i \in 0..(slot_count(m, s) - 1)
Precedes(s, i, t, j) == s < t \/ (s = t /\ i < j)

----------------------------------------------------------------------------
(* A well formed image, one fact at a time.                                *)
LEMMA SlotFacts ==
    ASSUME NEW m, WellFormed(m), NEW s \in 0..(m.dir_count - 1)
    PROVE  /\ m.dir_count \in Nat /\ m.address_width \in Nat
           /\ slot_partition(m, s) \in Nat /\ slot_count(m, s) \in Nat
           /\ m.dir[s].width \in Nat /\ m.dir[s].skip \in Nat
           /\ m.dir[s].skip + m.dir[s].width <= m.address_width
           /\ \A t \in 0..(m.dir_count - 1) :
                 s < t => slot_partition(m, s) < slot_partition(m, t)
<1>1. slot_partition(m, s) \in Nat
  BY DEF WellFormed, slot_partition
<1> QED
  BY <1>1 DEF WellFormed, slot_count

(* The stored integers of a slot fit its width and increase.               *)
LEMMA NarrowRecord ==
    ASSUME NEW m, WellFormed(m), narrow_address(m), NEW s, NEW i, HasRecord(m, s, i)
    PROVE  /\ m.dir[s].records[i].value \in 0..(Weight[m.dir[s].width] - 1)
           /\ \A j \in 0..(slot_count(m, s) - 1) : i < j =>
                 m.dir[s].records[i].value < m.dir[s].records[j].value
BY DEF WellFormed, slot_count, HasRecord

(* The stored strings of a slot have its width and increase.               *)
LEMMA WideRecord ==
    ASSUME NEW m, WellFormed(m), ~narrow_address(m), NEW s, NEW i, HasRecord(m, s, i)
    PROVE  /\ m.dir[s].records[i].bytes \in [1..m.dir[s].width -> Byte]
           /\ \A j \in 0..(slot_count(m, s) - 1) : i < j =>
                 LexLess(m.dir[s].records[i].bytes, m.dir[s].records[j].bytes)
<1>1. /\ DOMAIN m.dir[s].records[i].bytes = 1..m.dir[s].width
      /\ m.dir[s].records[i].bytes \in Seq(Byte)
  BY DEF WellFormed, slot_count, HasRecord
<1>2. \A b \in Seq(Byte) : b \in [DOMAIN b -> Byte]
  OBVIOUS
<1>3. m.dir[s].records[i].bytes \in [1..m.dir[s].width -> Byte]
  BY <1>1, <1>2
<1> QED
  BY <1>3 DEF WellFormed, slot_count, HasRecord

(* The bytes a slot does not store are zero: on a narrow image the address *)
(* is the stored integer times the weight of the trimmed bytes.            *)
LEMMA NarrowAddress ==
    ASSUME NEW m, WellFormed(m), narrow_address(m), NEW s, NEW i, HasRecord(m, s, i)
    PROVE  /\ address_at(m, s, i) \in Nat
           /\ m.dir[s].skip < WordBytes =>
                 address_at(m, s, i) = m.dir[s].records[i].value * Weight[m.dir[s].skip]
           /\ m.dir[s].skip >= WordBytes =>
                 address_at(m, s, i) = 0 /\ m.dir[s].records[i].value = 0
<1> DEFINE d == m.dir[s]
           v == d.records[i].value
<1>1. /\ d.skip \in Nat /\ d.width \in Nat /\ d.skip + d.width <= WordBytes
      /\ WordBytes \in Nat
  BY SlotFacts, WeightNat DEF HasRecord, narrow_address
<1>2. v \in Nat /\ v < Weight[d.width] /\ Weight[d.width] \in Nat
  BY <1>1, NarrowRecord, WeightNat
<1>3. CASE d.skip >= WordBytes
  <2>1. d.width = 0 /\ Weight[0] = 1
    BY <1>1, <1>3, WeightNat
  <2>2. v = 0
    BY <1>2, <2>1
  <2>3. address_at(m, s, i) = 0
    BY <1>3 DEF address_at
  <2> QED
    BY <1>1, <1>3, <2>2, <2>3
<1>4. CASE d.skip < WordBytes
  <2>1. Weight[d.width + d.skip] = Weight[d.width] * Weight[d.skip]
    BY <1>1, WeightSum
  <2>2. Weight[d.width + d.skip] <= WordSize
    BY <1>1, WeightMonotone DEF WordSize
  <2>3. Weight[d.skip] \in Nat /\ Weight[d.skip] > 0 /\ Weight[d.width + d.skip] \in Nat
    BY <1>1, WeightNat
  <2>4. v * Weight[d.skip] < Weight[d.width] * Weight[d.skip] /\ v * Weight[d.skip] \in Nat
    BY <1>2, <2>3, TimesMonotone
  <2>5. v * Weight[d.skip] < WordSize
    BY <2>1, <2>2, <2>3, <2>4, WeightNat
  <2>6. (v * Weight[d.skip]) % WordSize = v * Weight[d.skip]
    BY <2>4, <2>5, WeightNat
  <2>7. address_at(m, s, i) = (v * Weight[d.skip]) % WordSize
    BY <1>1, <1>4 DEF address_at
  <2> QED
    BY <1>1, <1>4, <2>4, <2>6, <2>7
<1> QED
  BY <1>1, <1>3, <1>4

(* A wide address is the stored string between zeros.                      *)
LEMMA WideAddress ==
    ASSUME NEW m, WellFormed(m), ~narrow_address(m), NEW s, NEW i, HasRecord(m, s, i)
    PROVE  /\ address_into_at(m, s, i) \in [1..m.address_width -> Byte]
           /\ \A b \in 1..m.address_width : address_into_at(m, s, i)[b] =
                 IF b - m.dir[s].skip \in 1..m.dir[s].width
                 THEN m.dir[s].records[i].bytes[b - m.dir[s].skip] ELSE 0
<1>1. 0 \in Byte
  BY WordAssumption DEF Byte
<1> QED
  BY <1>1, WideRecord DEF address_into_at

(* Every record has a key, and the keys increase in the order of the image.*)
LEMMA KeyAtType ==
    ASSUME NEW m, WellFormed(m), NEW s, NEW i, HasRecord(m, s, i)
    PROVE  KeyAt(m, s, i) \in Keys(m) /\ KeyAt(m, s, i).partition = slot_partition(m, s)
<1>1. slot_partition(m, s) \in Nat
  BY SlotFacts DEF HasRecord
<1>2. CASE narrow_address(m)
  <2>1. <<>> \in [1..0 -> Byte]
    OBVIOUS
  <2> QED
    BY <1>1, <1>2, <2>1, NarrowAddress DEF KeyAt, NarrowKey, Keys, KeySpace, StringWidth
<1>3. CASE ~narrow_address(m)
  BY <1>1, <1>3, WideAddress DEF KeyAt, WideKey, Keys, KeySpace, StringWidth
<1> QED
  BY <1>2, <1>3

(* A record before another has the smaller key.                            *)
LEMMA KeysIncrease ==
    ASSUME NEW m, WellFormed(m), NEW s, NEW i, HasRecord(m, s, i),
           NEW t, NEW j, HasRecord(m, t, j), Precedes(s, i, t, j)
    PROVE  KeyLess(KeyAt(m, s, i), KeyAt(m, t, j))
<1>1. CASE s < t
  <2>1. slot_partition(m, s) < slot_partition(m, t)
    BY <1>1, SlotFacts DEF HasRecord
  <2> QED
    BY <2>1, KeyAtType DEF KeyLess
<1>2. CASE s = t /\ i < j /\ narrow_address(m)
  <2> DEFINE d == m.dir[s]
             v == d.records[i].value
             w == d.records[j].value
  <2>1. v < w /\ v \in Nat /\ w \in Nat /\ w < Weight[d.width]
    <3>1. d.width \in 0..WordBytes
      BY <1>2, SlotFacts, WeightNat DEF HasRecord, narrow_address
    <3> QED
      BY <1>2, <3>1, NarrowRecord, WeightNat DEF HasRecord
  <2>2. d.skip < WordBytes /\ d.skip \in Nat
    <3>1. d.skip \in Nat /\ ~(d.skip >= WordBytes)
      BY <1>2, <2>1, NarrowAddress, SlotFacts DEF HasRecord
    <3> QED
      BY <3>1, WeightNat
  <2>3. v * Weight[d.skip] < w * Weight[d.skip]
    BY <2>1, <2>2, TimesMonotone, WeightNat
  <2>4. address_at(m, s, i) < address_at(m, t, j)
    BY <1>2, <2>2, <2>3, NarrowAddress
  <2> QED
    BY <1>2, <2>4 DEF KeyAt, NarrowKey, KeyLess
<1>3. CASE s = t /\ i < j /\ ~narrow_address(m)
  <2> DEFINE d == m.dir[s]
             a == d.records[i].bytes
             b == d.records[j].bytes
             x == address_into_at(m, s, i)
             y == address_into_at(m, s, j)
  <2>1. /\ a \in [1..d.width -> Byte] /\ b \in [1..d.width -> Byte] /\ LexLess(a, b)
        /\ d.width \in Nat /\ d.skip \in Nat /\ d.skip + d.width <= m.address_width
        /\ m.address_width \in Nat
    BY <1>3, WideRecord, SlotFacts DEF HasRecord
  <2>2. PICK p \in 1..d.width : a[p] < b[p] /\ \A q \in 1..(p - 1) : a[q] = b[q]
    BY <2>1, StringLength DEF LexLess
  <2>3. /\ x \in [1..m.address_width -> Byte] /\ y \in [1..m.address_width -> Byte]
        /\ \A e \in 1..m.address_width :
              /\ x[e] = IF e - d.skip \in 1..d.width THEN a[e - d.skip] ELSE 0
              /\ y[e] = IF e - d.skip \in 1..d.width THEN b[e - d.skip] ELSE 0
    BY <1>3, WideAddress
  <2> HIDE DEF x, y, a, b
  <2>4. p + d.skip \in 1..m.address_width /\ (p + d.skip) - d.skip = p
    BY <2>1, SMTT(20)
  <2>5. x[p + d.skip] < y[p + d.skip]
    BY <2>2, <2>3, <2>4
  <2>6. \A e \in 1..((p + d.skip) - 1) : x[e] = y[e]
    <3> SUFFICES ASSUME NEW e \in 1..((p + d.skip) - 1) PROVE x[e] = y[e]
      OBVIOUS
    <3>1. e \in 1..m.address_width /\ (e - d.skip \in 1..d.width => e - d.skip \in 1..(p - 1))
      BY <2>1, <2>4, SMTT(20)
    <3> QED
      BY <2>2, <2>3, <3>1
  <2>7. LexLess(x, y)
    BY <2>1, <2>3, <2>4, <2>5, <2>6, StringLength DEF LexLess
  <2> QED
    BY <1>3, <2>7 DEF KeyAt, WideKey, KeyLess, x, y
<1> QED
  BY <1>1, <1>2, <1>3 DEF Precedes


(* What a query that reaches the search looks for is a key of the space.   *)
LEMMA TargetSpace ==
    ASSUME NEW m, WellFormed(m), NEW q \in Queries, NEW k \in Target(m, q)
    PROVE  k \in Targets(m)
<1>1. k.partition \in Nat
  BY TargetPartition
<1>2. <<>> \in [1..0 -> Byte]
  OBVIOUS
<1>3. m.address_width \in Nat /\ WordSize \in Nat /\ WordSize > 0
  BY WeightNat DEF WellFormed
<1>4. CASE q.form = "key"
  <2>1. /\ has_key_mapping(m) /\ narrow_address(m)
        /\ k = NarrowKey(partition_of(m.address_span, q.key), address_of(m.address_span, q.key))
    BY <1>4 DEF Target
  <2>2. q.key \in Nat
    BY <1>4, LookupAssumption, WordsAreNat
  <2>3. m.address_span \in Nat /\ m.address_span > 0 /\ m.address_span <= WordSize
    <3>1. m.address_span \in 0..WordSize
      BY Zenon DEF WellFormed
    <3> QED
      BY <2>1, <3>1, <1>3 DEF has_key_mapping
  <2> DEFINE span == m.address_span
             v == q.key % span
  <2> HIDE DEF span
  <2>4. v \in 0..(span - 1)
    BY <2>2, <2>3 DEF span
  <2>5. v \in Word /\ v \in Nat
    BY <1>3, <2>3, <2>4 DEF Word, span
  <2>6. k.value = v /\ k.bytes = <<>>
    BY <2>1 DEF NarrowKey, address_of, span
  <2> HIDE DEF v
  <2>7. k = [partition |-> k.partition, value |-> v, bytes |-> <<>>]
    BY <2>1, <2>6 DEF NarrowKey
  <2> QED
    BY <1>1, <1>2, <2>1, <2>5, <2>6, <2>7 DEF Targets, Keys, KeySpace, StringWidth
<1>5. CASE q.form = "parts"
  <2>1. narrow_address(m) /\ k = NarrowKey(q.partition, q.value) /\ q.value \in Word
    BY <1>5, LookupAssumption DEF Target
  <2> QED
    BY <1>1, <1>2, <2>1, WordsAreNat DEF Targets, Keys, KeySpace, StringWidth, NarrowKey
<1>6. CASE q.form = "bytes"
  <2>0. q.bytes \in Seq(Byte) /\ Len(q.bytes) = m.address_width
    BY <1>6, LookupAssumption DEF Target
  <2>1. q.bytes \in [1..m.address_width -> Byte]
    <3>1. \A b \in Seq(Byte) : b \in [1..Len(b) -> Byte]
      OBVIOUS
    <3> QED
      BY <2>0, <3>1
  <2>2. CASE narrow_address(m)
    <3>1. k = NarrowKey(q.partition, load_uint(q.bytes))
      BY <1>6, <2>0, <2>2 DEF Target
    <3>2. load_uint(q.bytes) \in Nat /\ load_uint(q.bytes) < Weight[m.address_width]
      BY <1>3, <2>1, <2>2, LoadBound DEF narrow_address
    <3>3. Weight[m.address_width] <= WordSize
      BY <1>3, <2>2, WeightMonotone, WeightNat DEF narrow_address, WordSize
    <3>4. Weight[m.address_width] \in Nat
      BY <1>3, <2>2, WeightNat DEF narrow_address
    <3> DEFINE v == load_uint(q.bytes)
    <3> HIDE DEF v
    <3>5. v \in Word /\ v \in Nat
      BY <1>3, <3>2, <3>3, <3>4 DEF Word, v
    <3>6. k.value = v /\ k.bytes = <<>> /\ k = [partition |-> k.partition, value |-> v, bytes |-> <<>>]
      BY <3>1 DEF NarrowKey, v
    <3> QED
      BY <1>1, <1>2, <2>2, <3>5, <3>6 DEF Targets, Keys, KeySpace, StringWidth
  <2>3. CASE ~narrow_address(m)
    <3>1. k = WideKey(q.partition, q.bytes)
      BY <1>6, <2>0, <2>3 DEF Target
    <3>2. 0 \in Word
      BY <1>3 DEF Word
    <3> QED
      BY <1>1, <2>1, <2>3, <3>1, <3>2 DEF Targets, Keys, KeySpace, StringWidth, WideKey
  <2> QED
    BY <2>2, <2>3
<1> QED
  BY <1>4, <1>5, <1>6, LookupAssumption

----------------------------------------------------------------------------
(* A multiple of w below, at or above x, by the quotient of x.             *)
LEMMA Quotient ==
    ASSUME NEW x \in Nat, NEW w \in Nat, w > 0, NEW r \in Nat
    PROVE  /\ x \div w \in Nat /\ x % w \in Nat
           /\ r <= x \div w <=> r * w <= x
           /\ r < (x \div w) + (IF x % w # 0 THEN 1 ELSE 0) <=> r * w < x
           /\ x % w = 0 => (r = x \div w <=> r * w = x)
           /\ x % w # 0 => r * w # x
           /\ x % w # 0 => (x \div w) + 1 <= x
<1> DEFINE n == x \div w
           t == x % w
<1>1. n \in Nat /\ t \in Nat /\ t < w /\ x = n * w + t
  OBVIOUS
<1> HIDE DEF n, t
<1>2. r * w \in Nat /\ n * w \in Nat
  BY <1>1
<1>3. ASSUME r <= n PROVE r * w <= n * w
  BY <1>1, <1>3, TimesAtLeast
<1>4. ASSUME n < r PROVE n * w + w <= r * w
  <2>1. (n + 1) * w <= r * w
    BY <1>1, <1>4, TimesAtLeast
  <2> QED
    BY <1>1, <2>1
<1>5. ASSUME r < n PROVE r * w < n * w
  BY <1>1, <1>5, TimesMonotone
<1>6. n <= n * w
  <2>1. 1 * n <= w * n
    BY <1>1, TimesAtLeast
  <2> QED
    BY <1>1, <2>1
<1>7. r <= n <=> r * w <= x
  BY <1>1, <1>2, <1>3, <1>4
<1>8. r < n + (IF t # 0 THEN 1 ELSE 0) <=> r * w < x
  BY <1>1, <1>2, <1>3, <1>4, <1>5
<1>9. t = 0 => (r = n <=> r * w = x)
  BY <1>1, <1>2, <1>4, <1>5
<1>10. t # 0 => r * w # x
  BY <1>1, <1>2, <1>3, <1>4
<1>11. t # 0 => n + 1 <= x
  BY <1>1, <1>2, <1>6
<1> QED
  BY <1>1, <1>7, <1>8, <1>9, <1>10, <1>11 DEF n, t

(* Strings that agree on a range of positions, are zero there, or have a   *)
(* given stretch.                                                          *)
AgreeOn(x, y, f, l) == \A e \in f..l : x[e] = y[e]
ZeroOn(x, f, l) == \A e \in f..l : x[e] = 0
HasStretch(x, skip, w, a) == \A e \in 1..w : x[skip + e] = a[e]

(* Strings that agree everywhere are the same.                             *)
LEMMA SameString ==
    ASSUME NEW n \in Nat, NEW x \in [1..n -> Byte], NEW y \in [1..n -> Byte],
           AgreeOn(x, y, 1, n)
    PROVE  x = y
BY DEF AgreeOn

(* Strings that agree up to a stretch are ordered like the stretch, when   *)
(* the stretches differ.                                                   *)
LEMMA StretchOrder ==
    ASSUME NEW n \in Nat, NEW x \in [1..n -> Byte], NEW y \in [1..n -> Byte],
           NEW w \in Nat, NEW a \in [1..w -> Byte], NEW b \in [1..w -> Byte],
           NEW skip \in Nat, skip + w <= n,
           AgreeOn(x, y, 1, skip), HasStretch(x, skip, w, a), HasStretch(y, skip, w, b),
           LexLess(a, b)
    PROVE  LexLess(x, y)
<1>1. PICK p \in 1..w : a[p] < b[p] /\ \A q \in 1..(p - 1) : a[q] = b[q]
  BY StringLength DEF LexLess
<1>2. skip + p \in 1..n /\ x[skip + p] < y[skip + p]
  BY <1>1 DEF HasStretch
<1>3. ASSUME NEW e \in 1..((skip + p) - 1) PROVE x[e] = y[e]
  <2>1. CASE e <= skip
    BY <2>1, <1>3 DEF AgreeOn
  <2>2. CASE e > skip
    <3>1. e - skip \in 1..(p - 1) /\ e - skip \in 1..w /\ skip + (e - skip) = e
      BY <2>2, <1>1, <1>3
    <3> QED
      BY <1>1, <3>1 DEF HasStretch
  <2> QED
    BY <2>1, <2>2
<1> QED
  BY <1>2, <1>3, StringLength DEF LexLess

(* A string that is zero where another first is not, and equal before, is  *)
(* below it.                                                               *)
LEMMA ZerosBelow ==
    ASSUME NEW n \in Nat, NEW x \in [1..n -> Byte], NEW y \in [1..n -> Byte],
           NEW f \in 1..n, NEW l \in 0..n,
           AgreeOn(x, y, 1, f - 1), ZeroOn(x, f, l), ~ZeroOn(y, f, l)
    PROVE  LexLess(x, y)
<1> DEFINE D == {e \in f..l : y[e] # 0}
<1>1. D \in SUBSET Nat /\ D # {}
  BY DEF ZeroOn
<1>2. Min(D) \in D /\ \A e \in D : Min(D) <= e
  BY <1>1, MinOfNats
<1> DEFINE p == Min(D)
<1> HIDE DEF p
<1>3. p \in f..l /\ p \in 1..n /\ y[p] # 0
  BY <1>2 DEF p
<1>4. x[p] < y[p]
  BY <1>3 DEF Byte, ZeroOn
<1>5. ASSUME NEW e \in 1..(p - 1) PROVE x[e] = y[e]
  <2>1. CASE e < f
    BY <2>1, <1>3, <1>5 DEF AgreeOn
  <2>2. CASE e >= f
    <3>1. e \in f..l /\ e \notin D
      BY <2>2, <1>2, <1>3, <1>5 DEF p
    <3> QED
      BY <3>1 DEF ZeroOn
  <2> QED
    BY <2>1, <2>2, <1>3
<1> QED
  BY <1>3, <1>4, <1>5, StringLength DEF LexLess


(* The comparisons of a search, made on the stored stretch of a record and *)
(* the reduced query, are comparisons of the record's key with the key     *)
(* sought.  It is sought in the slot of its own partition.                 *)
SoughtIn(s, i) ==
    /\ WellFormed(img) /\ HasRecord(img, s, i)
    /\ Sought \in Targets(img) /\ Sought.partition = slot_partition(img, s)

(* On a narrow image, where the query is a quotient and a remainder.       *)
LEMMA NarrowProbe ==
    ASSUME NEW s, NEW i, SoughtIn(s, i), narrow_address(img)
    PROVE  /\ RecordGoesRight(s, i, FALSE) <=> KeyLess(KeyAt(img, s, i), Sought)
           /\ RecordGoesRight(s, i, TRUE) <=> ~KeyLess(Sought, KeyAt(img, s, i))
           /\ ~HasTail(s) => (StoredMatches(s, i) <=> KeyAt(img, s, i) = Sought)
           /\ HasTail(s) => KeyAt(img, s, i) # Sought
<1> DEFINE d == img.dir[s]
           r == d.records[i].value
           x == Sought.value
           n == probe_narrow(d, x).value
           t == IF probe_narrow(d, x).tail THEN 1 ELSE 0
           a == address_at(img, s, i)
<1>1. /\ x \in Nat /\ x < WordSize /\ WordSize \in Nat /\ WordSize > 1
      /\ d.skip \in Nat /\ d.width \in Nat /\ WordBytes \in Nat
  <2>1. x \in Word
    BY DEF SoughtIn, Targets
  <2>2. WordSize \in Nat /\ WordBytes \in Nat /\ WordBytes > 0 /\ Weight[0] = 1
    BY WeightNat
  <2>3. Weight[0] < Weight[WordBytes]
    BY <2>2, WeightMonotone
  <2>4. d.skip \in Nat /\ d.width \in Nat
    BY SlotFacts DEF SoughtIn, HasRecord
  <2> QED
    BY <2>1, <2>2, <2>3, <2>4 DEF Word, WordSize
<1>2. /\ r \in Nat /\ a \in Nat
      /\ d.skip < WordBytes => a = r * Weight[d.skip]
      /\ d.skip >= WordBytes => a = 0 /\ r = 0
  <2>1. r \in 0..(Weight[d.width] - 1)
    BY NarrowRecord DEF SoughtIn
  <2> QED
    BY <2>1, NarrowAddress DEF SoughtIn
<1>3. /\ n \in Nat /\ t \in {0, 1} /\ n + t < WordSize
      /\ r <= n <=> a <= x
      /\ r < n + t <=> a < x
      /\ t = 0 => (r = n <=> a = x)
      /\ t = 1 => a # x
  <2>1. CASE d.skip >= WordBytes
    <3>1. n = 0 /\ t = IF x # 0 THEN 1 ELSE 0
      BY <2>1 DEF probe_narrow
    <3> HIDE DEF n, t, r, x, a, d
    <3> QED
      BY <1>1, <1>2, <2>1, <3>1
  <2>2. CASE d.skip < WordBytes
    <3> DEFINE w == Weight[d.skip]
    <3>1. w \in Nat /\ w > 0
      BY <1>1, <2>2, WeightNat
    <3>2. n = x \div w /\ t = IF x % w # 0 THEN 1 ELSE 0
      <4>1. ~(d.skip >= WordBytes)
        BY <1>1, <2>2
      <4>2. n = x \div w /\ (probe_narrow(d, x).tail <=> x % w # 0)
        BY <4>1, Zenon DEF probe_narrow
      <4> QED
        BY <4>2
    <3>3. a = r * w
      BY <1>2, <2>2
    <3> HIDE DEF n, t, r, x, a, w, d
    <3>4. /\ x \div w \in Nat /\ x % w \in Nat
          /\ r <= x \div w <=> r * w <= x
          /\ r < (x \div w) + (IF x % w # 0 THEN 1 ELSE 0) <=> r * w < x
          /\ x % w = 0 => (r = x \div w <=> r * w = x)
          /\ x % w # 0 => r * w # x
          /\ x % w # 0 => (x \div w) + 1 <= x
      BY <1>1, <1>2, <3>1, Quotient
    <3>5. x \div w <= x
      <4>1. (x \div w) * 1 <= (x \div w) * w
        BY <3>1, <3>4, TimesAtLeast
      <4>2. (x \div w) * w <= x
        BY <1>1, <3>1, <3>4, Quotient
      <4>3. (x \div w) * w \in Nat
        BY <3>1, <3>4
      <4> QED
        BY <1>1, <3>4, <4>1, <4>2, <4>3
    <3> QED
      BY <1>1, <3>2, <3>3, <3>4, <3>5
  <2> QED
    BY <1>1, <2>1, <2>2
<1>4. Plus(n, t) = n + t
  <2> HIDE DEF n, t
  <2>1. n + t \in 0..(WordSize - 1)
    BY <1>1, <1>3
  <2> QED
    BY <1>1, <1>3, <2>1 DEF Plus
<1>5. /\ RecordGoesRight(s, i, FALSE) <=> r < Plus(n, t)
      /\ RecordGoesRight(s, i, TRUE) <=> ~(n < r)
      /\ HasTail(s) <=> t = 1
      /\ StoredMatches(s, i) <=> r = n
  <2>1. /\ RecordGoesRight(s, i, FALSE) <=> r < Plus(n, t)
        /\ RecordGoesRight(s, i, TRUE) <=> ~(n < r)
        /\ HasTail(s) <=> probe_narrow(d, x).tail
        /\ StoredMatches(s, i) <=> r = n
    BY Zenon DEF RecordGoesRight, HasTail, StoredMatches
  <2>2. probe_narrow(d, x).tail <=> t = 1
    OBVIOUS
  <2> HIDE DEF t, n, r
  <2> QED
    BY <2>1, <2>2
<1>6. /\ KeyAt(img, s, i) = NarrowKey(slot_partition(img, s), a)
      /\ Sought = NarrowKey(slot_partition(img, s), x)
      /\ slot_partition(img, s) \in Nat
  <2>1. Sought \in KeySpace(0) /\ Sought.partition = slot_partition(img, s)
    BY DEF SoughtIn, Targets, Keys, StringWidth
  <2>2. Sought.bytes = <<>>
    BY <2>1 DEF KeySpace
  <2>3. Sought = [partition |-> Sought.partition, value |-> Sought.value, bytes |-> Sought.bytes]
    BY <2>1 DEF KeySpace
  <2>4. slot_partition(img, s) \in Nat
    BY SlotFacts DEF SoughtIn, HasRecord
  <2> QED
    BY <2>1, <2>2, <2>3, <2>4 DEF KeyAt, NarrowKey
<1>7. /\ KeyLess(KeyAt(img, s, i), Sought) <=> a < x
      /\ KeyLess(Sought, KeyAt(img, s, i)) <=> x < a
      /\ KeyAt(img, s, i) = Sought <=> a = x
  <2> DEFINE p == slot_partition(img, s)
  <2> HIDE DEF p, a, x
  <2>1. ~LexLess(<<>>, <<>>)
    BY DEF LexLess
  <2>2. p \in Nat /\ KeyAt(img, s, i) = NarrowKey(p, a) /\ Sought = NarrowKey(p, x)
    BY <1>6 DEF p
  <2> QED
    BY <1>1, <1>2, <2>1, <2>2 DEF KeyLess, NarrowKey
<1> HIDE DEF n, t, r, x, a, d
<1>8. /\ r < Plus(n, t) <=> a < x
      /\ ~(n < r) <=> ~(x < a)
      /\ ~(t = 1) => (r = n <=> a = x)
      /\ t = 1 => a # x
  BY <1>1, <1>2, <1>3, <1>4
<1> QED
  BY <1>5, <1>7, <1>8, Zenon

(* On a wide image, where the query has a head, a stretch and a tail.      *)
LEMMA WideProbe ==
    ASSUME NEW s, NEW i, SoughtIn(s, i), ~narrow_address(img)
    PROVE  /\ PastAll(s) => KeyLess(KeyAt(img, s, i), Sought)
           /\ ~PastAll(s) =>
                 /\ RecordGoesRight(s, i, FALSE) <=> KeyLess(KeyAt(img, s, i), Sought)
                 /\ RecordGoesRight(s, i, TRUE) <=> ~KeyLess(Sought, KeyAt(img, s, i))
                 /\ ~HasTail(s) => (StoredMatches(s, i) <=> KeyAt(img, s, i) = Sought)
                 /\ HasTail(s) => KeyAt(img, s, i) # Sought
<1> DEFINE d == img.dir[s]
           n == img.address_width
           x == address_into_at(img, s, i)
           y == Sought.bytes
           a == d.records[i].bytes
           b == probe_wide(img, d, y).bytes
           head == probe_wide(img, d, y).head
           tail == probe_wide(img, d, y).tail
           skip == d.skip
           w == d.width
<1>1. /\ n \in Nat /\ skip \in Nat /\ w \in Nat /\ skip + w <= n
      /\ slot_partition(img, s) \in Nat
  BY SlotFacts DEF SoughtIn, HasRecord
<1>2. /\ a \in [1..w -> Byte]
      /\ x \in [1..n -> Byte]
      /\ \A e \in 1..n : x[e] = IF e - skip \in 1..w THEN a[e - skip] ELSE 0
  <2>1. a \in [1..w -> Byte]
    BY WideRecord DEF SoughtIn
  <2>2. x \in [1..n -> Byte]
    BY WideAddress DEF SoughtIn
  <2>3. \A e \in 1..n : x[e] = IF e - skip \in 1..w THEN a[e - skip] ELSE 0
    BY WideAddress DEF SoughtIn
  <2> QED
    BY <2>1, <2>2, <2>3
<1>3. /\ Sought = [partition |-> slot_partition(img, s), value |-> 0, bytes |-> y]
      /\ y \in [1..n -> Byte]
  BY DEF SoughtIn, Targets, Keys, KeySpace, StringWidth
<1>4. /\ b = [e \in 1..w |-> y[skip + e]]
      /\ head <=> ~ZeroOn(y, 1, skip)
      /\ tail <=> ~ZeroOn(y, skip + w + 1, n)
  BY Zenon DEF probe_wide, ZeroOn
<1>5. /\ PastAll(s) <=> head
      /\ HasTail(s) <=> tail
      /\ StoredMatches(s, i) <=> a = b
      /\ RecordGoesRight(s, i, TRUE) <=> LexLeq(a, b)
      /\ RecordGoesRight(s, i, FALSE) <=> IF tail THEN LexLeq(a, b) ELSE LexLess(a, b)
  BY Zenon DEF PastAll, HasTail, StoredMatches, RecordGoesRight
<1>6. KeyAt(img, s, i) = [partition |-> slot_partition(img, s), value |-> 0, bytes |-> x]
  BY DEF KeyAt, WideKey
<1> HIDE DEF d, n, x, y, a, b, head, tail, skip, w
<1>7. b \in [1..w -> Byte]
  BY <1>1, <1>3, <1>4
<1>8. /\ ZeroOn(x, 1, skip) /\ ZeroOn(x, skip + w + 1, n)
      /\ HasStretch(x, skip, w, a) /\ HasStretch(y, skip, w, b)
  <2>1. ASSUME NEW e \in 1..skip PROVE x[e] = 0
    BY <1>1, <1>2
  <2>2. ASSUME NEW e \in 1..w PROVE x[skip + e] = a[e] /\ y[skip + e] = b[e]
    <3>1. skip + e \in 1..n /\ (skip + e) - skip = e
      BY <1>1
    <3> QED
      BY <1>2, <1>4, <3>1
  <2>3. ASSUME NEW e \in (skip + w + 1)..n PROVE x[e] = 0
    BY <1>1, <1>2
  <2> QED
    BY <2>1, <2>2, <2>3 DEF ZeroOn, HasStretch
<1>9. head => LexLess(x, y)
  <2> SUFFICES ASSUME head PROVE LexLess(x, y)
    OBVIOUS
  <2>1. 1 \in 1..n /\ skip \in 0..n /\ ~ZeroOn(y, 1, skip)
    BY <1>1, <1>4 DEF ZeroOn
  <2>2. AgreeOn(x, y, 1, 1 - 1)
    BY DEF AgreeOn
  <2> QED
    BY <1>1, <1>2, <1>3, <1>8, <2>1, <2>2, ZerosBelow
<1>10. ASSUME ~head
       PROVE  /\ LexLess(a, b) => LexLess(x, y)
              /\ LexLess(b, a) => LexLess(y, x)
              /\ a = b /\ tail => LexLess(x, y)
              /\ a = b /\ ~tail => x = y
  <2>1. AgreeOn(x, y, 1, skip)
    BY <1>4, <1>8, <1>10 DEF AgreeOn, ZeroOn
  <2>2. LexLess(a, b) => LexLess(x, y)
    BY <1>1, <1>2, <1>3, <1>7, <1>8, <2>1, StretchOrder
  <2>3. LexLess(b, a) => LexLess(y, x)
    <3>1. AgreeOn(y, x, 1, skip)
      BY <2>1 DEF AgreeOn
    <3> QED
      BY <1>1, <1>2, <1>3, <1>7, <1>8, <3>1, StretchOrder
  <2>4. ASSUME a = b, NEW e \in 1..(skip + w) PROVE x[e] = y[e]
    <3>1. CASE e \in 1..skip
      BY <2>1, <3>1 DEF AgreeOn
    <3>2. CASE e > skip
      <4>1. e - skip \in 1..w /\ skip + (e - skip) = e
        BY <1>1, <3>2
      <4> QED
        BY <1>8, <2>4, <4>1 DEF HasStretch
    <3> QED
      BY <1>1, <3>1, <3>2
  <2>5. a = b /\ tail => LexLess(x, y)
    <3> SUFFICES ASSUME a = b, tail PROVE LexLess(x, y)
      OBVIOUS
    <3> DEFINE f == skip + w + 1
    <3>1. ~ZeroOn(y, f, n) /\ ZeroOn(x, f, n)
      BY <1>4, <1>8
    <3>2. f \in 1..n /\ n \in 0..n
      BY <1>1, <3>1 DEF ZeroOn
    <3>3. f - 1 = skip + w
      BY <1>1
    <3>4. AgreeOn(x, y, 1, f - 1)
      BY <2>4, <3>3 DEF AgreeOn
    <3> HIDE DEF f
    <3> QED
      BY <1>1, <1>2, <1>3, <3>1, <3>2, <3>4, ZerosBelow
  <2>6. a = b /\ ~tail => x = y
    <3> SUFFICES ASSUME a = b, ~tail PROVE x = y
      OBVIOUS
    <3>1. ASSUME NEW e \in 1..n PROVE x[e] = y[e]
      <4>1. CASE e \in 1..(skip + w)
        BY <2>4, <4>1
      <4>2. CASE e \in (skip + w + 1)..n
        BY <1>4, <1>8, <4>2 DEF ZeroOn
      <4> QED
        BY <1>1, <4>1, <4>2
    <3>2. x \in [1..n -> Byte] /\ y \in [1..n -> Byte]
      BY <1>2, <1>3
    <3> QED
      BY <1>1, <3>1, <3>2, SameString DEF AgreeOn
  <2> QED
    BY <2>2, <2>3, <2>5, <2>6
<1>11. /\ a = b \/ LexLess(a, b) \/ LexLess(b, a)
       /\ ~LexLess(x, x) /\ ~(LexLess(a, b) /\ LexLess(b, a))
       /\ ~(LexLess(x, y) /\ LexLess(y, x))
       /\ ~LexLess(a, a)
  BY <1>1, <1>2, <1>3, <1>7, LexTotal, LexIrreflexive, LexTransitive
<1>12. /\ KeyLess(KeyAt(img, s, i), Sought) <=> LexLess(x, y)
       /\ KeyLess(Sought, KeyAt(img, s, i)) <=> LexLess(y, x)
       /\ KeyAt(img, s, i) = Sought <=> x = y
  BY <1>1, <1>3, <1>6 DEF KeyLess
<1> QED
  BY <1>5, <1>9, <1>10, <1>11, <1>12, Zenon DEF LexLeq


(* On every image.                                                         *)
LEMMA Probe ==
    ASSUME NEW s, NEW i, SoughtIn(s, i)
    PROVE  /\ PastAll(s) => KeyLess(KeyAt(img, s, i), Sought)
           /\ ~PastAll(s) =>
                 /\ RecordGoesRight(s, i, FALSE) <=> KeyLess(KeyAt(img, s, i), Sought)
                 /\ RecordGoesRight(s, i, TRUE) <=> ~KeyLess(Sought, KeyAt(img, s, i))
                 /\ ~HasTail(s) => (StoredMatches(s, i) <=> KeyAt(img, s, i) = Sought)
                 /\ HasTail(s) => KeyAt(img, s, i) # Sought
BY NarrowProbe, WideProbe, Zenon DEF PastAll

----------------------------------------------------------------------------
(* The elements of the table are the keys of its records, in the order of  *)
(* their positions.                                                        *)
LEMMA ContentsAreRecords ==
    ASSUME NEW m, NEW k
    PROVE  k \in Contents(m) <=> \E s, i : HasRecord(m, s, i) /\ k = KeyAt(m, s, i)
<1> DEFINE Own(s) == {KeyAt(m, s, i) : i \in 0..(slot_count(m, s) - 1)}
<1>1. k \in Contents(m) <=> \E s \in 0..(m.dir_count - 1) : k \in Own(s)
  BY DEF Contents
<1>2. ASSUME NEW s PROVE k \in Own(s) <=> \E i \in 0..(slot_count(m, s) - 1) : k = KeyAt(m, s, i)
  OBVIOUS
<1> QED
  BY <1>1, <1>2 DEF HasRecord

(* Records are ordered as their keys, and no two have the same.            *)
LEMMA PositionOrder ==
    ASSUME NEW m, WellFormed(m), NEW s, NEW i, HasRecord(m, s, i),
           NEW t, NEW j, HasRecord(m, t, j)
    PROVE  /\ KeyLess(KeyAt(m, s, i), KeyAt(m, t, j)) <=> Precedes(s, i, t, j)
           /\ KeyAt(m, s, i) = KeyAt(m, t, j) <=> s = t /\ i = j
<1>1. /\ s \in Int /\ t \in Int /\ i \in Int /\ j \in Int
  BY SlotFacts DEF HasRecord
<1>2. \/ Precedes(s, i, t, j) \/ Precedes(t, j, s, i) \/ (s = t /\ i = j)
  BY <1>1 DEF Precedes
<1>3. ~Precedes(s, i, s, i) /\ ~(Precedes(s, i, t, j) /\ Precedes(t, j, s, i))
  BY <1>1 DEF Precedes
<1>4. StringWidth(m) \in Nat
  BY DEF StringWidth, WellFormed
<1>5. KeyAt(m, s, i) \in KeySpace(StringWidth(m)) /\ KeyAt(m, t, j) \in KeySpace(StringWidth(m))
  BY KeyAtType DEF Keys
<1>6. /\ Precedes(s, i, t, j) => KeyLess(KeyAt(m, s, i), KeyAt(m, t, j))
      /\ Precedes(t, j, s, i) => KeyLess(KeyAt(m, t, j), KeyAt(m, s, i))
  BY KeysIncrease
<1>7. /\ ~KeyLess(KeyAt(m, s, i), KeyAt(m, s, i))
      /\ ~(KeyLess(KeyAt(m, s, i), KeyAt(m, t, j)) /\ KeyLess(KeyAt(m, t, j), KeyAt(m, s, i)))
  BY <1>4, <1>5, KeyOrder
<1> QED
  BY <1>2, <1>3, <1>6, <1>7

(* The least of a set of elements is the one no element of it precedes.    *)
LEMMA LeastAt ==
    ASSUME NEW m, WellFormed(m), NEW s, NEW i, HasRecord(m, s, i),
           NEW S \in SUBSET Contents(m), KeyAt(m, s, i) \in S,
           \A t, j : HasRecord(m, t, j) /\ Precedes(t, j, s, i) => KeyAt(m, t, j) \notin S
    PROVE  Map!Least(S) = {KeyAt(m, s, i)}
<1>1. ASSUME NEW l \in S PROVE l = KeyAt(m, s, i) \/ KeyLess(KeyAt(m, s, i), l)
  <2>1. PICK t, j : HasRecord(m, t, j) /\ l = KeyAt(m, t, j)
    BY ContentsAreRecords
  <2>2. ~Precedes(t, j, s, i)
    BY <2>1
  <2>3. Precedes(s, i, t, j) \/ (s = t /\ i = j)
    BY <2>1, <2>2, SlotFacts DEF HasRecord, Precedes
  <2> QED
    BY <2>1, <2>3, PositionOrder
<1>2. ASSUME NEW l \in S, \A k \in S : k = l \/ KeyLess(l, k) PROVE l = KeyAt(m, s, i)
  <2>1. PICK t, j : HasRecord(m, t, j) /\ l = KeyAt(m, t, j)
    BY ContentsAreRecords
  <2>2. KeyAt(m, s, i) = l \/ KeyLess(l, KeyAt(m, s, i))
    BY <1>2
  <2> QED
    BY <2>1, <2>2, PositionOrder
<1> QED
  BY <1>1, <1>2 DEF Map!Least

(* The greatest of a set of elements is the one that precedes none of it.  *)
LEMMA GreatestAt ==
    ASSUME NEW m, WellFormed(m), NEW s, NEW i, HasRecord(m, s, i),
           NEW S \in SUBSET Contents(m), KeyAt(m, s, i) \in S,
           \A t, j : HasRecord(m, t, j) /\ Precedes(s, i, t, j) => KeyAt(m, t, j) \notin S
    PROVE  Map!Greatest(S) = {KeyAt(m, s, i)}
<1>1. ASSUME NEW l \in S PROVE l = KeyAt(m, s, i) \/ KeyLess(l, KeyAt(m, s, i))
  <2>1. PICK t, j : HasRecord(m, t, j) /\ l = KeyAt(m, t, j)
    BY ContentsAreRecords
  <2>2. ~Precedes(s, i, t, j)
    BY <2>1
  <2>3. Precedes(t, j, s, i) \/ (s = t /\ i = j)
    BY <2>1, <2>2, SlotFacts DEF HasRecord, Precedes
  <2> QED
    BY <2>1, <2>3, PositionOrder
<1>2. ASSUME NEW l \in S, \A k \in S : k = l \/ KeyLess(k, l) PROVE l = KeyAt(m, s, i)
  <2>1. PICK t, j : HasRecord(m, t, j) /\ l = KeyAt(m, t, j)
    BY ContentsAreRecords
  <2>2. KeyAt(m, s, i) = l \/ KeyLess(KeyAt(m, s, i), l)
    BY <1>2
  <2> QED
    BY <2>1, <2>2, PositionOrder
<1> QED
  BY <1>1, <1>2 DEF Map!Greatest

(* Nothing has no least element, and no greatest.                          *)
LEMMA NoneExtreme == Map!Least({}) = {} /\ Map!Greatest({}) = {}
BY DEF Map!Least, Map!Greatest

(* A record below or above the partition sought, and the key sought.       *)
LEMMA OtherPartition ==
    ASSUME NEW m, WellFormed(m), NEW s, NEW i, HasRecord(m, s, i), NEW k \in Targets(m)
    PROVE  /\ slot_partition(m, s) < k.partition => KeyLess(KeyAt(m, s, i), k)
           /\ k.partition < slot_partition(m, s) => KeyLess(k, KeyAt(m, s, i))
           /\ slot_partition(m, s) # k.partition => KeyAt(m, s, i) # k
           /\ KeyAt(m, s, i) = k \/ KeyLess(KeyAt(m, s, i), k) \/ KeyLess(k, KeyAt(m, s, i))
           /\ ~KeyLess(k, k)
           /\ ~(KeyLess(KeyAt(m, s, i), k) /\ KeyLess(k, KeyAt(m, s, i)))
<1>1. StringWidth(m) \in Nat
  BY DEF StringWidth, WellFormed
<1>2. KeyAt(m, s, i) \in KeySpace(StringWidth(m)) /\ k \in KeySpace(StringWidth(m))
  BY KeyAtType DEF Keys, Targets
<1>3. KeyAt(m, s, i).partition = slot_partition(m, s)
  BY KeyAtType
<1> QED
  BY <1>1, <1>2, <1>3, KeyOrder DEF KeyLess

----------------------------------------------------------------------------
(* What a call is looking for, as a condition on the elements: the calls   *)
(* that go up answer with the least element of Up, those that go down with *)
(* the greatest of Down.                                                   *)
UpOps == {"lower_bound", "upper_bound", "begin", "next"}
DownOps == {"floor", "prev"}
SearchOps == {"find", "lower_bound", "upper_bound", "floor"}

Cursor == IF it.slot < img.dir_count THEN {KeyAt(img, it.slot, it.index)} ELSE {}

Up(k) ==
    CASE call.op = "lower_bound" -> k = Sought \/ KeyLess(Sought, k)
      [] call.op = "upper_bound" -> KeyLess(Sought, k)
      [] call.op = "begin"       -> TRUE
      [] call.op = "next"        -> \E c \in Cursor : KeyLess(c, k)

Down(k) ==
    CASE call.op = "floor" -> k = Sought \/ KeyLess(k, Sought)
      [] call.op = "prev"  -> Cursor = {} \/ \E c \in Cursor : KeyLess(k, c)

(* The comparison that moves the search of a slot to the right.            *)
Right(k) ==
    IF call.op \in {"upper_bound", "floor"} THEN ~KeyLess(Sought, k) ELSE KeyLess(k, Sought)

(* The records that are still candidates: those from a position on, those  *)
(* before it, those of the window of a binary search.                      *)
UpFrom(s, i) ==
    \A t \in 0..(img.dir_count - 1) : \A j \in 0..(slot_count(img, t) - 1) :
        Up(KeyAt(img, t, j)) <=> ~Precedes(t, j, s, i)

DownBefore(s, i) ==
    \A t \in 0..(img.dir_count - 1) : \A j \in 0..(slot_count(img, t) - 1) :
        Down(KeyAt(img, t, j)) <=> Precedes(t, j, s, i)

SlotsSplit(l, n) ==
    \A s \in 0..(img.dir_count - 1) :
        /\ s < l => SlotGoesRight(s)
        /\ s >= l + n => ~SlotGoesRight(s)

RecordsSplit(s, l, n) ==
    \A i \in 0..(slot_count(img, s) - 1) :
        /\ i < l => Right(KeyAt(img, s, i))
        /\ i >= l + n => ~Right(KeyAt(img, s, i))

(* Which calls can be where.                                               *)
CallShape ==
    /\ call = NoCall <=> pc = "idle"
    /\ pc = "end" => call.op \in SearchOps /\ call.target = {}
    /\ pc \in {"directory", "records"} => call.op \in SearchOps
    /\ pc = "normalize" => call.op \in UpOps
    /\ pc = "floor" => call.op = "floor"
    /\ pc = "retreat" => call.op = "prev"
    /\ pc # "end" /\ call.op \in SearchOps => call.target = {Sought} /\ Sought \in Targets(img)

(* The loop invariants of the lookups.                                     *)
LoopInv ==
    /\ pc = "directory" => SlotsSplit(lo, len)
    /\ pc = "records" =>
          /\ slot_partition(img, slot) = Sought.partition
          /\ RecordsSplit(slot, lo, len)
          /\ PastAll(slot) => len = 0
          /\ call.op = "find" => ~PastAll(slot) /\ ~HasTail(slot)
    /\ pc = "normalize" => UpFrom(slot, index)
    /\ pc = "floor" => DownBefore(slot + 1, 0)
    /\ pc = "retreat" => DownBefore(slot, index)

SearchInv == IInv /\ CallShape /\ LoopInv


(* What SearchInv says of the image and the iterator.                      *)
LEMMA Basics ==
    ASSUME IInv
    PROVE  /\ WellFormed(img) /\ img.dir_count \in Nat
           /\ \A s \in 0..(img.dir_count - 1) : slot_count(img, s) \in Nat
           /\ lo \in Nat /\ len \in Nat /\ slot \in Nat /\ index \in Nat
           /\ slot <= img.dir_count
           /\ it.slot \in Nat /\ it.index \in Nat /\ it.slot <= img.dir_count
           /\ it = End(img) \/ HasRecord(img, it.slot, it.index)
<1>1. WellFormed(img)
  BY DEF IInv, TypeOK
<1>2. img.dir_count \in Nat /\ \A s \in 0..(img.dir_count - 1) : slot_count(img, s) \in Nat
  BY <1>1, Sizes
<1>3. lo \in Nat /\ len \in Nat /\ slot \in Nat /\ index \in Nat /\ slot <= img.dir_count
  BY <1>2 DEF IInv, TypeOK
<1>4. it.slot \in Nat /\ it.index \in Nat /\ it.slot <= img.dir_count
  BY <1>2 DEF IInv, TypeOK
<1>5. it = End(img) \/ (it.slot < img.dir_count /\ it.index < slot_count(img, it.slot))
  BY DEF IInv, IteratorValid
<1>6. it = End(img) \/ HasRecord(img, it.slot, it.index)
  BY <1>2, <1>4, <1>5 DEF HasRecord
<1> QED
  BY <1>1, <1>2, <1>3, <1>4, <1>6

(* The answer the map would give to the call in progress.                  *)
LEMMA FoundUp ==
    ASSUME SearchInv, pc \notin {"idle", "end"}, call.op \in UpOps
    PROVE  Map!Found(call) = Map!Least({k \in Contents(img) : Up(k)})
<1> DEFINE S == {k \in Contents(img) : Up(k)}
<1>1. call.op \in SearchOps => call.target = {Sought}
  BY DEF SearchInv, CallShape
<1>2. CASE call.op = "lower_bound"
  <2>1. S = Map!NotBelow(Sought)
    BY <1>2 DEF Up, Map!NotBelow
  <2>2. Map!Found(call) = UNION {Map!Least(Map!NotBelow(t)) : t \in {Sought}}
    BY <1>1, <1>2 DEF Map!Found, SearchOps
  <2> QED
    BY <2>1, <2>2
<1>3. CASE call.op = "upper_bound"
  <2>1. S = Map!Above(Sought)
    BY <1>3 DEF Up, Map!Above
  <2>2. Map!Found(call) = UNION {Map!Least(Map!Above(t)) : t \in {Sought}}
    BY <1>1, <1>3 DEF Map!Found, SearchOps
  <2> QED
    BY <2>1, <2>2
<1>4. CASE call.op = "begin"
  <2>1. S = Contents(img)
    BY <1>4 DEF Up
  <2>2. Map!Found(call) = Map!Least(Contents(img))
    BY <1>4 DEF Map!Found
  <2> QED
    BY <2>1, <2>2
<1>5. CASE call.op = "next"
  <2>1. Map!Found(call) = UNION {Map!Least(Map!Above(k)) : k \in Cursor}
    BY <1>5 DEF Map!Found, Cursor
  <2>2. CASE Cursor = {}
    <3>1. S = {}
      BY <1>5, <2>2 DEF Up
    <3> QED
      BY <2>1, <2>2, <3>1, NoneExtreme
  <2>3. CASE Cursor # {}
    <3>1. PICK c : Cursor = {c}
      BY <2>3 DEF Cursor
    <3>2. S = Map!Above(c)
      BY <1>5, <3>1 DEF Up, Map!Above
    <3> QED
      BY <2>1, <3>1, <3>2
  <2> QED
    BY <2>2, <2>3
<1> QED
  BY <1>2, <1>3, <1>4, <1>5 DEF UpOps

(* The answers of floor and --.                                            *)
LEMMA FoundDown ==
    ASSUME SearchInv, pc \notin {"idle", "end"}, call.op \in DownOps
    PROVE  Map!Found(call) = Map!Greatest({k \in Contents(img) : Down(k)})
<1> DEFINE S == {k \in Contents(img) : Down(k)}
<1>1. call.op \in SearchOps => call.target = {Sought}
  BY DEF SearchInv, CallShape
<1>2. CASE call.op = "floor"
  <2>1. S = Map!NotAbove(Sought)
    BY <1>2 DEF Down, Map!NotAbove
  <2>2. Map!Found(call) = UNION {Map!Greatest(Map!NotAbove(t)) : t \in {Sought}}
    BY <1>1, <1>2 DEF Map!Found, SearchOps
  <2> QED
    BY <2>1, <2>2
<1>3. CASE call.op = "prev"
  <2>1. Map!Found(call) = IF Cursor = {} THEN Map!Greatest(Contents(img))
                          ELSE UNION {Map!Greatest(Map!Below(k)) : k \in Cursor}
    BY <1>3 DEF Map!Found, Cursor
  <2>2. CASE Cursor = {}
    <3>1. S = Contents(img)
      BY <1>3, <2>2 DEF Down
    <3> QED
      BY <2>1, <2>2, <3>1
  <2>3. CASE Cursor # {}
    <3>1. PICK c : Cursor = {c}
      BY <2>3 DEF Cursor
    <3>2. S = Map!Below(c)
      BY <1>3, <2>3, <3>1 DEF Down, Map!Below
    <3> QED
      BY <2>1, <2>3, <3>1, <3>2
  <2> QED
    BY <2>2, <2>3
<1> QED
  BY <1>2, <1>3 DEF DownOps

(* The answer of find.                                                     *)
LEMMA FoundFind ==
    ASSUME SearchInv, pc \notin {"idle", "end"}, call.op = "find"
    PROVE  Map!Found(call) = Contents(img) \cap {Sought}
<1>1. call.target = {Sought}
  BY DEF SearchInv, CallShape, SearchOps
<1>2. Map!Found(call) = UNION {Contents(img) \cap {t} : t \in {Sought}}
  BY <1>1 DEF Map!Found
<1> QED
  BY <1>2

(* The answer to a query outside the key space.                            *)
LEMMA FoundNothing ==
    ASSUME SearchInv, pc = "end"
    PROVE  Map!Found(call) = {}
<1>1. call.op \in SearchOps /\ call.target = {}
  BY DEF SearchInv, CallShape
<1> QED
  BY <1>1 DEF Map!Found, SearchOps

----------------------------------------------------------------------------
(* The candidates from a position on: their least element is the record at *)
(* the position, if there is one.                                          *)
LEMMA UpFromHere ==
    ASSUME IInv, NEW s, NEW i, HasRecord(img, s, i), UpFrom(s, i)
    PROVE  Map!Least({k \in Contents(img) : Up(k)}) = {KeyAt(img, s, i)}
<1> DEFINE S == {k \in Contents(img) : Up(k)}
<1>1. WellFormed(img)
  BY Basics
<1>2. KeyAt(img, s, i) \in Contents(img)
  BY ContentsAreRecords
<1>3. ~Precedes(s, i, s, i)
  BY SlotFacts, <1>1 DEF Precedes, HasRecord
<1>4. KeyAt(img, s, i) \in S
  BY <1>2, <1>3 DEF UpFrom, HasRecord
<1>5. ASSUME NEW t, NEW j, HasRecord(img, t, j), Precedes(t, j, s, i)
      PROVE  KeyAt(img, t, j) \notin S
  BY <1>5 DEF UpFrom, HasRecord
<1> QED
  BY <1>1, <1>4, <1>5, LeastAt

(* No candidate is left from the end on.                                   *)
LEMMA UpFromEnd ==
    ASSUME IInv, NEW i, UpFrom(img.dir_count, i)
    PROVE  Map!Least({k \in Contents(img) : Up(k)}) = {}
<1>1. ASSUME NEW k \in Contents(img), Up(k) PROVE FALSE
  <2>1. PICK t, j : HasRecord(img, t, j) /\ k = KeyAt(img, t, j)
    BY ContentsAreRecords
  <2>2. Precedes(t, j, img.dir_count, i)
    BY <2>1, Basics DEF HasRecord, Precedes
  <2> QED
    BY <1>1, <2>1, <2>2 DEF UpFrom, HasRecord
<1>2. {k \in Contents(img) : Up(k)} = {}
  BY <1>1
<1> QED
  BY <1>2, NoneExtreme

(* A position after the records of a slot is the start of the next slot.   *)
LEMMA UpFromSkip ==
    ASSUME IInv, NEW s \in Nat, NEW i \in Nat, UpFrom(s, i),
           s < img.dir_count => i >= slot_count(img, s)
    PROVE  UpFrom(s + 1, 0)
<1> SUFFICES ASSUME NEW t \in 0..(img.dir_count - 1), NEW j \in 0..(slot_count(img, t) - 1)
             PROVE  Precedes(t, j, s, i) <=> Precedes(t, j, s + 1, 0)
  BY DEF UpFrom
<1>1. img.dir_count \in Nat /\ slot_count(img, t) \in Nat
  BY Basics
<1>2. t = s => j < i
  BY <1>1
<1> QED
  BY <1>1, <1>2 DEF Precedes

(* The candidates before a position: their greatest element is the record  *)
(* before it, if there is one.                                             *)
LEMMA DownBeforeHere ==
    ASSUME IInv, NEW s, NEW i, HasRecord(img, s, i), DownBefore(s, i + 1)
    PROVE  Map!Greatest({k \in Contents(img) : Down(k)}) = {KeyAt(img, s, i)}
<1> DEFINE S == {k \in Contents(img) : Down(k)}
<1>1. WellFormed(img)
  BY Basics
<1>2. KeyAt(img, s, i) \in Contents(img)
  BY ContentsAreRecords
<1>3. s \in Int /\ i \in Int
  BY SlotFacts, <1>1 DEF HasRecord
<1>4. KeyAt(img, s, i) \in S
  BY <1>2, <1>3 DEF DownBefore, HasRecord, Precedes
<1>5. ASSUME NEW t, NEW j, HasRecord(img, t, j), Precedes(s, i, t, j)
      PROVE  KeyAt(img, t, j) \notin S
  <2>1. t \in Int /\ j \in Int
    BY SlotFacts, <1>1, <1>5 DEF HasRecord
  <2>2. ~Precedes(t, j, s, i + 1)
    BY <1>3, <1>5, <2>1 DEF Precedes
  <2> QED
    BY <1>5, <2>2 DEF DownBefore, HasRecord
<1> QED
  BY <1>1, <1>4, <1>5, GreatestAt

(* No candidate is left before the first slot.                             *)
LEMMA DownBeforeStart ==
    ASSUME IInv, DownBefore(0, 0)
    PROVE  Map!Greatest({k \in Contents(img) : Down(k)}) = {}
<1>1. ASSUME NEW k \in Contents(img), Down(k) PROVE FALSE
  <2>1. PICK t, j : HasRecord(img, t, j) /\ k = KeyAt(img, t, j)
    BY ContentsAreRecords
  <2>2. ~Precedes(t, j, 0, 0)
    BY <2>1, Basics DEF HasRecord, Precedes
  <2> QED
    BY <1>1, <2>1, <2>2 DEF DownBefore, HasRecord
<1>2. {k \in Contents(img) : Down(k)} = {}
  BY <1>1
<1> QED
  BY <1>2, NoneExtreme

(* The start of a slot is the position after the records of the one below. *)
LEMMA DownBeforeSkip ==
    ASSUME IInv, NEW s \in 0..(img.dir_count - 1), DownBefore(s + 1, 0)
    PROVE  DownBefore(s, slot_count(img, s))
<1> SUFFICES ASSUME NEW t \in 0..(img.dir_count - 1), NEW j \in 0..(slot_count(img, t) - 1)
             PROVE  Precedes(t, j, s + 1, 0) <=> Precedes(t, j, s, slot_count(img, s))
  BY DEF DownBefore
<1>1. img.dir_count \in Nat /\ slot_count(img, t) \in Nat /\ slot_count(img, s) \in Nat
  BY Basics
<1> QED
  BY <1>1 DEF Precedes


----------------------------------------------------------------------------
(* The steps inside a call change nothing the client sees, and keep what   *)
(* the call is looking for.                                                *)
LEMMA CallGoesOn ==
    ASSUME UNCHANGED <<img, call, it>>
    PROVE  UNCHANGED Map!vars /\ Sought' = Sought /\ Cursor' = Cursor
BY DEF Map!vars, Sought, Cursor

(* A step inside a call keeps the candidates from a position on.           *)
LEMMA SameUp ==
    ASSUME UNCHANGED <<img, call, it>>, NEW s, NEW i, UpFrom(s, i), slot' = s, index' = i
    PROVE  UpFrom(slot, index)'
BY CallGoesOn DEF UpFrom, Up

(* A step inside a call keeps the candidates before a position.            *)
LEMMA SameDown ==
    ASSUME UNCHANGED <<img, call, it>>, NEW s, NEW i, DownBefore(s, i), slot' = s, index' = i
    PROVE  DownBefore(slot, index)'
BY CallGoesOn DEF DownBefore, Down

(* The call answers with the iterator r: it is the answer of the map, and  *)
(* no call is in progress any more.                                        *)
CursorAt(r) == IF r.slot < img.dir_count THEN {KeyAt(img, r.slot, r.index)} ELSE {}

(* Returning the answer of the map is the return of the map.               *)
LEMMA Answers ==
    ASSUME SearchInv, pc # "idle", NEW r, Return(r), CursorAt(r) = Map!Found(call)
    PROVE  Map!Next /\ CallShape' /\ LoopInv'
<1>1. call # NoCall /\ call' = NoCall /\ img' = img /\ it' = r /\ pc' = "idle"
  BY DEF SearchInv, CallShape, Return
<1>2. Map!Return
  BY <1>1 DEF Map!Return, CursorAt
<1>3. CallShape'
  BY <1>1 DEF CallShape, NoCall, SearchOps
<1> QED
  BY <1>1, <1>2, <1>3 DEF Map!Next, LoopInv

(* Entering or continuing the upward walk.                                 *)
LEMMA ToNormalize ==
    ASSUME SearchInv, call.op \in UpOps, pc \notin {"idle", "end"},
           NEW s, NEW i, UpFrom(s, i), Walk("normalize", s, i)
    PROVE  UNCHANGED Map!vars /\ CallShape' /\ LoopInv'
<1>1. UNCHANGED <<img, call, it>> /\ pc' = "normalize" /\ slot' = s /\ index' = i
  BY DEF Walk, Goto
<1>2. CallShape'
  BY <1>1, CallGoesOn DEF SearchInv, CallShape
<1>3. UpFrom(slot, index)'
  BY <1>1, SameUp
<1> QED
  BY <1>1, <1>2, <1>3, CallGoesOn DEF LoopInv


(* A step of the table that keeps the invariant and is a step of the map,  *)
(* or none.                                                                *)
Implements == CallShape' /\ LoopInv' /\ [Map!Next]_(Map!vars)

(* end() is on no element.                                                 *)
LEMMA EndIsNowhere == ASSUME IInv PROVE CursorAt(End(img)) = {}
BY Basics DEF CursorAt, End

(* The upward walk over the slots.                                         *)
LEMMA NormalizeImplements ==
    ASSUME SearchInv, NormalizeStep \/ NormalizeDone PROVE Implements
<1>1. /\ IInv /\ call.op \in UpOps /\ UpFrom(slot, index)
      /\ pc = "normalize" /\ pc \notin {"idle", "end"}
  BY DEF SearchInv, CallShape, LoopInv, NormalizeStep, NormalizeDone
<1>2. CASE NormalizeStep
  <2>1. /\ slot \in Nat /\ index \in Nat /\ index >= slot_count(img, slot)
        /\ Walk("normalize", slot + 1, 0)
    BY <1>1, <1>2, Basics DEF NormalizeStep
  <2>2. UpFrom(slot + 1, 0)
    BY <1>1, <2>1, UpFromSkip
  <2> QED
    BY <1>1, <2>1, <2>2, ToNormalize DEF Implements
<1>3. CASE slot >= img.dir_count /\ Return(End(img))
  <2>1. slot = img.dir_count
    BY <1>1, <1>3, Basics
  <2>2. Map!Least({k \in Contents(img) : Up(k)}) = {}
    BY <1>1, <2>1, UpFromEnd
  <2>3. CursorAt(End(img)) = Map!Found(call)
    BY <1>1, <2>2, FoundUp, EndIsNowhere
  <2> QED
    BY <1>1, <1>3, <2>3, Answers DEF Implements
<1>4. CASE slot < img.dir_count /\ index < slot_count(img, slot) /\ Return(At(slot, index))
  <2>1. HasRecord(img, slot, index)
    BY <1>1, <1>4, Basics DEF HasRecord
  <2>2. Map!Least({k \in Contents(img) : Up(k)}) = {KeyAt(img, slot, index)}
    BY <1>1, <2>1, UpFromHere
  <2>3. CursorAt(At(slot, index)) = Map!Found(call)
    BY <1>1, <1>4, <2>2, FoundUp DEF CursorAt, At
  <2> QED
    BY <1>1, <1>4, <2>3, Answers DEF Implements
<1> QED
  BY <1>2, <1>3, <1>4 DEF NormalizeDone, NormalizeStep

(* The candidates before a position end with a record just before it.      *)
LEMMA AnswerBefore ==
    ASSUME SearchInv, pc \notin {"idle", "end"}, call.op \in DownOps,
           NEW s \in 0..(img.dir_count - 1), NEW i \in 0..(slot_count(img, s) - 1),
           DownBefore(s, i + 1), Return(At(s, i))
    PROVE  Implements
<1>1. IInv /\ HasRecord(img, s, i)
  BY DEF SearchInv, HasRecord
<1>2. Map!Greatest({k \in Contents(img) : Down(k)}) = {KeyAt(img, s, i)}
  BY <1>1, DownBeforeHere
<1>3. s < img.dir_count
  BY <1>1, Basics
<1>4. CursorAt(At(s, i)) = Map!Found(call)
  BY <1>2, <1>3, FoundDown DEF CursorAt, At
<1> QED
  BY <1>4, Answers DEF Implements

(* The walk of floor: down from the start of a slot.                       *)
LEMMA ToFloor ==
    ASSUME SearchInv, call.op = "floor", pc \notin {"idle", "end"},
           NEW s, DownBefore(s + 1, 0), Walk("floor", s, 0)
    PROVE  Implements
<1>1. UNCHANGED <<img, call, it>> /\ pc' = "floor" /\ slot' = s
  BY DEF Walk, Goto
<1>2. CallShape'
  BY <1>1, CallGoesOn DEF SearchInv, CallShape
<1>3. DownBefore(slot + 1, 0)'
  BY <1>1, CallGoesOn, ZenonT(30) DEF DownBefore, Down
<1> QED
  BY <1>1, <1>2, <1>3, CallGoesOn DEF LoopInv, Implements

(* floor_before: nothing in this slot or above is a candidate.             *)
LEMMA FloorBeforeImplements ==
    ASSUME SearchInv, call.op = "floor", pc \notin {"idle", "end"},
           NEW s \in 0..(img.dir_count - 1), DownBefore(s, 0), FloorBefore(s)
    PROVE  Implements
<1>1. IInv /\ img.dir_count \in Nat
  BY Basics DEF SearchInv
<1>2. CASE s = 0
  <2>1. Map!Greatest({k \in Contents(img) : Down(k)}) = {}
    BY <1>1, <1>2, DownBeforeStart
  <2>2. CursorAt(End(img)) = Map!Found(call)
    BY <1>1, <2>1, FoundDown, EndIsNowhere DEF DownOps
  <2>3. Return(End(img))
    BY <1>2 DEF FloorBefore
  <2> QED
    BY <2>2, <2>3, Answers DEF Implements
<1>3. CASE s # 0
  <2>1. Walk("floor", s - 1, 0) /\ (s - 1) + 1 = s
    BY <1>1, <1>3 DEF FloorBefore
  <2> DEFINE r == s - 1
  <2>2. DownBefore(r + 1, 0) /\ Walk("floor", r, 0)
    BY <2>1
  <2> HIDE DEF r
  <2> QED
    BY <2>2, ToFloor
<1> QED
  BY <1>2, <1>3

(* One step of the walk of floor.                                          *)
LEMMA FloorImplements ==
    ASSUME SearchInv, FloorStep PROVE Implements
<1>1. /\ IInv /\ call.op = "floor" /\ DownBefore(slot + 1, 0)
      /\ pc = "floor" /\ pc \notin {"idle", "end"}
      /\ slot \in 0..(img.dir_count - 1) /\ slot_count(img, slot) \in Nat
  <2>1. IInv /\ call.op = "floor" /\ DownBefore(slot + 1, 0) /\ pc = "floor" /\ slot < img.dir_count
    BY DEF SearchInv, IInv, TypeOK, CallShape, LoopInv, FloorStep
  <2> QED
    BY <2>1, Basics
<1>2. DownBefore(slot, slot_count(img, slot))
  BY <1>1, DownBeforeSkip
<1>3. CASE slot_count(img, slot) # 0
  <2> DEFINE i == slot_count(img, slot) - 1
  <2>1. i \in 0..(slot_count(img, slot) - 1) /\ i + 1 = slot_count(img, slot)
    BY <1>1, <1>3
  <2>2. Return(At(slot, i))
    BY <1>3 DEF FloorStep
  <2>3. DownBefore(slot, i + 1)
    BY <1>2, <2>1
  <2> HIDE DEF i
  <2> QED
    BY <1>1, <2>1, <2>2, <2>3, AnswerBefore DEF DownOps
<1>4. CASE slot_count(img, slot) = 0
  BY <1>1, <1>2, <1>4, FloorBeforeImplements DEF FloorStep
<1> QED
  BY <1>3, <1>4

(* One step of retreat; RetreatFinds keeps it from running off the image.  *)
LEMMA RetreatImplements ==
    ASSUME SearchInv, RetreatStep PROVE Implements
<1>1. /\ IInv /\ call.op \in DownOps /\ DownBefore(slot, index)
      /\ pc = "retreat" /\ pc \notin {"idle", "end"} /\ call.op = "prev"
      /\ RetreatFinds
  BY DEF SearchInv, IInv, CallShape, LoopInv, RetreatStep, DownOps
<1>2. /\ img.dir_count \in Nat /\ slot \in Nat /\ index \in Nat /\ slot <= img.dir_count
      /\ \A s \in 0..(img.dir_count - 1) : slot_count(img, s) \in Nat
  BY <1>1, Basics
<1>3. CASE index > 0
  <2> DEFINE i == index - 1
  <2>1. slot < img.dir_count /\ index < slot_count(img, slot)
    BY <1>1, <1>3 DEF RetreatFinds
  <2>2. slot \in 0..(img.dir_count - 1) /\ i \in 0..(slot_count(img, slot) - 1) /\ i + 1 = index
    BY <1>2, <1>3, <2>1
  <2>3. Return(At(slot, i)) /\ DownBefore(slot, i + 1)
    BY <1>1, <1>3, <2>2 DEF RetreatStep
  <2> HIDE DEF i
  <2> QED
    BY <1>1, <2>2, <2>3, AnswerBefore
<1>4. CASE index = 0
  <2>1. PICK s \in 0..(slot - 1) : slot_count(img, s) # 0
    BY <1>1, <1>2, <1>4 DEF RetreatFinds
  <2> DEFINE r == slot - 1
             n == slot_count(img, r)
  <2>2. slot # 0 /\ r \in 0..(img.dir_count - 1) /\ r + 1 = slot /\ n \in Nat
    BY <1>2, <2>1
  <2>3. DownBefore(r + 1, 0)
    BY <1>1, <1>4, <2>2
  <2>4. DownBefore(r, n)
    <3> HIDE DEF r
    <3> QED
      BY <1>1, <2>2, <2>3, DownBeforeSkip
  <2>5. CASE n # 0
    <3> DEFINE i == n - 1
    <3>1. i \in 0..(n - 1) /\ i + 1 = n
      BY <2>2, <2>5
    <3>2. Return(At(r, i)) /\ DownBefore(r, i + 1)
      BY <1>4, <2>2, <2>4, <2>5, <3>1 DEF RetreatStep
    <3> HIDE DEF i, r
    <3> QED
      BY <1>1, <2>2, <3>1, <3>2, AnswerBefore
  <2>6. CASE n = 0
    <3>1. Walk("retreat", r, 0)
      BY <1>2, <1>4, <2>2, <2>6 DEF RetreatStep
    <3>2. UNCHANGED <<img, call, it>> /\ pc' = "retreat" /\ slot' = r /\ index' = 0
      BY <3>1 DEF Walk, Goto
    <3>3. CallShape'
      BY <3>2, <1>1, CallGoesOn DEF SearchInv, CallShape
    <3>4. DownBefore(slot, index)'
      BY <2>4, <2>6, <3>2, SameDown
    <3> QED
      BY <3>2, <3>3, <3>4, CallGoesOn DEF LoopInv, Implements
  <2> QED
    BY <2>5, <2>6
<1> QED
  BY <1>2, <1>3, <1>4


(* A running search knows what it looks for.                               *)
LEMMA Searching ==
    ASSUME SearchInv, pc \in {"directory", "records"}
    PROVE  /\ IInv /\ pc \notin {"idle", "end"}
           /\ call.op \in SearchOps
           /\ Sought \in Targets(img)
           /\ Sought.partition \in Nat
           /\ \A s \in 0..(img.dir_count - 1) : slot_partition(img, s) \in Nat
<1>1. IInv /\ call.op \in SearchOps /\ Sought \in Targets(img) /\ pc \notin {"idle", "end"}
  BY DEF SearchInv, CallShape
<1>2. Sought.partition \in Nat
  BY <1>1 DEF Targets, Keys, KeySpace
<1>3. \A s \in 0..(img.dir_count - 1) : slot_partition(img, s) \in Nat
  BY <1>1, Basics, SlotFacts
<1> QED
  BY <1>1, <1>2, <1>3

(* Where one place of a search goes right, so do the places before it.     *)
LEMMA SlotsMonotone ==
    ASSUME SearchInv, pc = "directory",
           NEW s \in 0..(img.dir_count - 1), NEW t \in 0..(img.dir_count - 1),
           s <= t, SlotGoesRight(t)
    PROVE  SlotGoesRight(s)
<1>1. WellFormed(img) /\ img.dir_count \in Nat
  BY Basics DEF SearchInv
<1>2. /\ slot_partition(img, s) \in Nat /\ slot_partition(img, t) \in Nat
      /\ Sought.partition \in Nat
  BY Searching
<1>3. s < t => slot_partition(img, s) < slot_partition(img, t)
  BY <1>1, SlotFacts
<1>4. s = t \/ s < t
  BY <1>1
<1> QED
  BY <1>2, <1>3, <1>4 DEF SlotGoesRight

(* The same in the records of a slot.                                      *)
LEMMA RecordsMonotone ==
    ASSUME SearchInv, pc = "records", NEW s, NEW i, NEW j,
           HasRecord(img, s, i), HasRecord(img, s, j), i <= j, Right(KeyAt(img, s, j))
    PROVE  Right(KeyAt(img, s, i))
<1> DEFINE k == KeyAt(img, s, i)
           l == KeyAt(img, s, j)
<1>1. WellFormed(img) /\ Sought \in Targets(img)
  BY Basics, Searching DEF SearchInv
<1>2. StringWidth(img) \in Nat
  BY <1>1 DEF StringWidth, WellFormed
<1>3. /\ k \in KeySpace(StringWidth(img)) /\ l \in KeySpace(StringWidth(img))
      /\ Sought \in KeySpace(StringWidth(img))
  BY <1>1, KeyAtType DEF Keys, Targets
<1>4. i = j \/ (i < j /\ Precedes(s, i, s, j))
  BY <1>1, SlotFacts DEF HasRecord, Precedes
<1>5. k = l \/ KeyLess(k, l)
  BY <1>1, <1>4, KeysIncrease
<1> HIDE DEF k, l
<1>6. /\ KeyLess(k, l) /\ KeyLess(l, Sought) => KeyLess(k, Sought)
      /\ KeyLess(Sought, k) /\ KeyLess(k, l) => KeyLess(Sought, l)
  BY <1>2, <1>3, KeyOrder
<1>7. Right(l)
  BY DEF l
<1>8. Right(k)
  BY <1>5, <1>6, <1>7 DEF Right
<1> QED
  BY <1>8 DEF k

(* The middle of a window is in it.                                        *)
LEMMA MidInside ==
    ASSUME lo \in Nat, len \in Nat, len > 0
    PROVE  /\ Mid \in Nat /\ lo <= Mid /\ Mid < lo + len
           /\ len \div 2 \in Nat /\ lo + len \div 2 = Mid
           /\ (Mid + 1) + (len - (len \div 2 + 1)) = lo + len
BY DEF Mid

(* The search of the directory.                                            *)
LEMMA DirectoryImplements ==
    ASSUME SearchInv, DirectoryStep PROVE Implements
<1>1. /\ pc = "directory" /\ len > 0 /\ Bisect(SlotGoesRight(Mid))
      /\ SlotsSplit(lo, len)
  BY DEF DirectoryStep, SearchInv, LoopInv
<1>2. /\ img.dir_count \in Nat /\ lo \in Nat /\ len \in Nat /\ lo + len <= img.dir_count
  BY <1>1, Basics DEF SearchInv, IInv, TypeOK
<1>3. /\ Mid \in 0..(img.dir_count - 1) /\ lo <= Mid
      /\ lo + len \div 2 = Mid
      /\ (Mid + 1) + (len - (len \div 2 + 1)) = lo + len
      /\ len \div 2 \in Nat
  BY <1>1, <1>2, MidInside
<1>4. UNCHANGED <<img, call, pc, slot, index, it>>
  BY <1>1 DEF Bisect
<1>5. ASSUME NEW s \in 0..(img.dir_count - 1)
      PROVE  (s < lo' => SlotGoesRight(s)) /\ (s >= lo' + len' => ~SlotGoesRight(s))
  <2>1. CASE SlotGoesRight(Mid)
    <3>1. lo' = Mid + 1 /\ lo' + len' = lo + len
      BY <1>1, <1>3, <2>1 DEF Bisect
    <3>2. s < lo' => s <= Mid
      BY <1>3, <3>1
    <3> QED
      BY <1>1, <1>3, <2>1, <3>1, <3>2, SlotsMonotone DEF SlotsSplit
  <2>2. CASE ~SlotGoesRight(Mid)
    <3>1. lo' = lo /\ lo' + len' = Mid
      BY <1>1, <1>3, <2>2 DEF Bisect
    <3>2. s >= lo' + len' => Mid <= s
      BY <1>3, <3>1
    <3> QED
      BY <1>1, <1>3, <2>2, <3>1, <3>2, SlotsMonotone DEF SlotsSplit
  <2> QED
    BY <2>1, <2>2
<1>6. SlotsSplit(lo, len)'
  BY <1>4, <1>5, CallGoesOn DEF SlotsSplit, SlotGoesRight
<1>7. CallShape'
  BY <1>4, CallGoesOn DEF SearchInv, CallShape
<1> QED
  BY <1>1, <1>4, <1>6, <1>7, CallGoesOn DEF LoopInv, Implements

(* The search of a slot.                                                   *)
LEMMA RecordsImplements ==
    ASSUME SearchInv, RecordsStep PROVE Implements
<1> DEFINE goes == RecordGoesRight(slot, Mid, call.op \in {"upper_bound", "floor"})
<1>1. /\ pc = "records" /\ len > 0 /\ Bisect(goes)
      /\ RecordsSplit(slot, lo, len)
      /\ slot_partition(img, slot) = Sought.partition
      /\ ~PastAll(slot)
      /\ call.op = "find" => ~PastAll(slot) /\ ~HasTail(slot)
  BY DEF RecordsStep, SearchInv, LoopInv
<1>2. /\ WellFormed(img) /\ img.dir_count \in Nat /\ lo \in Nat /\ len \in Nat
      /\ slot \in 0..(img.dir_count - 1)
      /\ slot_count(img, slot) \in Nat /\ lo + len <= slot_count(img, slot)
  BY <1>1, Basics DEF SearchInv, IInv, TypeOK
<1>3. /\ Mid \in 0..(slot_count(img, slot) - 1) /\ lo <= Mid
      /\ lo + len \div 2 = Mid
      /\ (Mid + 1) + (len - (len \div 2 + 1)) = lo + len
      /\ len \div 2 \in Nat
  BY <1>1, <1>2, MidInside
<1>4. UNCHANGED <<img, call, pc, slot, index, it>>
  BY <1>1 DEF Bisect
<1>5. SoughtIn(slot, Mid)
  BY <1>1, <1>2, <1>3, Searching DEF SoughtIn, HasRecord
<1>6. goes <=> Right(KeyAt(img, slot, Mid))
  <2>1. CASE call.op \in {"upper_bound", "floor"}
    <3>1. goes = RecordGoesRight(slot, Mid, TRUE)
      BY <2>1
    <3> QED
      BY <1>1, <1>5, <2>1, <3>1, Probe, Zenon DEF Right
  <2>2. CASE call.op \notin {"upper_bound", "floor"}
    <3>0. (call.op \in {"upper_bound", "floor"}) = FALSE
      BY <2>2
    <3>1. goes = RecordGoesRight(slot, Mid, FALSE)
      BY <3>0
    <3> QED
      BY <1>1, <1>5, <2>2, <3>1, Probe, Zenon DEF Right
  <2> QED
    BY <2>1, <2>2
<1> HIDE DEF goes
<1>7. ASSUME NEW i \in 0..(slot_count(img, slot) - 1)
      PROVE  /\ i < lo' => Right(KeyAt(img, slot, i))
             /\ i >= lo' + len' => ~Right(KeyAt(img, slot, i))
  <2>0. HasRecord(img, slot, i) /\ HasRecord(img, slot, Mid)
    BY <1>2, <1>3, <1>7 DEF HasRecord
  <2>1. CASE goes
    <3>1. lo' = Mid + 1 /\ lo' + len' = lo + len
      BY <1>1, <1>3, <2>1 DEF Bisect
    <3>2. i < lo' => i <= Mid
      BY <1>3, <3>1
    <3> QED
      BY <1>1, <1>6, <2>0, <2>1, <3>1, <3>2, RecordsMonotone DEF RecordsSplit
  <2>2. CASE ~goes
    <3>1. lo' = lo /\ lo' + len' = Mid
      BY <1>1, <1>3, <2>2 DEF Bisect
    <3>2. i >= lo' + len' => Mid <= i
      BY <1>3, <3>1
    <3> QED
      BY <1>1, <1>6, <2>0, <2>2, <3>1, <3>2, RecordsMonotone DEF RecordsSplit
  <2> QED
    BY <2>1, <2>2
<1>8. RecordsSplit(slot, lo, len)'
  BY <1>4, <1>7, CallGoesOn DEF RecordsSplit, Right
<1>9. CallShape'
  BY <1>4, CallGoesOn DEF SearchInv, CallShape
<1>10. /\ (slot_partition(img, slot) = Sought.partition)'
       /\ ~PastAll(slot)' /\ (HasTail(slot)' <=> HasTail(slot))
  BY <1>1, <1>4, CallGoesOn DEF PastAll, HasTail
<1> QED
  BY <1>1, <1>4, <1>8, <1>9, <1>10, CallGoesOn DEF LoopInv, Implements

(* A slot of the partition sought is searched as a whole.                  *)
LEMMA SearchSlotImplements ==
    ASSUME SearchInv, pc = "directory", NEW s \in 0..(img.dir_count - 1),
           slot_partition(img, s) = Sought.partition,
           call.op = "find" => ~PastAll(s) /\ ~HasTail(s),
           SearchSlot(s)
    PROVE  Implements
<1>1. /\ WellFormed(img) /\ slot_count(img, s) \in Nat
      /\ Sought \in Targets(img) /\ call.op \in SearchOps
  BY Basics, Searching DEF SearchInv
<1>2. UNCHANGED <<img, call, it>> /\ pc' = "records" /\ slot' = s
  BY DEF SearchSlot, Goto
<1>3. /\ PastAll(s) => len' = 0
      /\ \A i \in 0..(slot_count(img, s) - 1) :
            /\ i < lo' => Right(KeyAt(img, s, i))
            /\ i >= lo' + len' => ~Right(KeyAt(img, s, i))
  <2>1. CASE PastAll(s)
    <3>1. lo' = slot_count(img, s) /\ len' = 0
      BY <2>1 DEF SearchSlot
    <3>2. ASSUME NEW i \in 0..(slot_count(img, s) - 1) PROVE Right(KeyAt(img, s, i))
      <4>1. HasRecord(img, s, i)
        BY <3>2 DEF HasRecord
      <4>2. SoughtIn(s, i)
        BY <1>1, <4>1 DEF SoughtIn
      <4>3. KeyLess(KeyAt(img, s, i), Sought)
        BY <2>1, <4>2, Probe
      <4> QED
        BY <1>1, <4>1, <4>3, OtherPartition DEF Right
    <3>3. ASSUME NEW i \in 0..(slot_count(img, s) - 1) PROVE ~(i >= lo' + len')
      BY <1>1, <3>1
    <3> QED
      BY <3>1, <3>2, <3>3
  <2>2. CASE ~PastAll(s)
    <3>1. lo' = 0 /\ len' = slot_count(img, s)
      BY <2>2 DEF SearchSlot
    <3>2. ASSUME NEW i \in 0..(slot_count(img, s) - 1)
          PROVE  ~(i < lo') /\ ~(i >= lo' + len')
      BY <1>1, <3>1
    <3> QED
      BY <2>2, <3>2
  <2> QED
    BY <2>1, <2>2
<1>4. RecordsSplit(slot, lo, len)'
  BY <1>2, <1>3, CallGoesOn DEF RecordsSplit, Right
<1>5. /\ (slot_partition(img, slot) = Sought.partition)'
      /\ PastAll(slot)' => len' = 0
      /\ (call.op = "find")' => ~PastAll(slot)' /\ ~HasTail(slot)'
  BY <1>2, <1>3, CallGoesOn DEF PastAll, HasTail
<1>6. CallShape'
  BY <1>1, <1>2, CallGoesOn DEF SearchInv, CallShape
<1> QED
  BY <1>2, <1>4, <1>5, <1>6, CallGoesOn DEF LoopInv, Implements


(* After the search of the directory: the slots of smaller partitions are  *)
(* those before lo, or those of partitions up to the one sought.           *)
LEMMA BoundSlotImplements ==
    ASSUME SearchInv, BoundSlotFound PROVE Implements
<1>1. /\ pc = "directory" /\ pc \notin {"idle", "end"} /\ len = 0
      /\ call.op \in {"lower_bound", "upper_bound"} /\ call.op \in UpOps
      /\ SlotsSplit(lo, len) /\ IInv
  BY DEF BoundSlotFound, SearchInv, LoopInv, UpOps
<1>2. /\ WellFormed(img) /\ img.dir_count \in Nat /\ lo \in Nat /\ lo <= img.dir_count
  BY <1>1, Basics DEF SearchInv, IInv, TypeOK
<1>3. CASE lo < img.dir_count /\ slot_partition(img, lo) = Sought.partition
  <2>1. SearchSlot(lo) /\ lo \in 0..(img.dir_count - 1) /\ call.op # "find"
    BY <1>1, <1>2, <1>3 DEF BoundSlotFound
  <2> QED
    BY <1>1, <1>3, <2>1, SearchSlotImplements
<1>4. CASE ~(lo < img.dir_count /\ slot_partition(img, lo) = Sought.partition)
  <2>1. Walk("normalize", lo, 0)
    BY <1>4 DEF BoundSlotFound
  <2>2. ASSUME NEW t \in 0..(img.dir_count - 1), NEW j \in 0..(slot_count(img, t) - 1)
        PROVE  Up(KeyAt(img, t, j)) <=> ~Precedes(t, j, lo, 0)
    <3>1. HasRecord(img, t, j) /\ slot_count(img, t) \in Nat
      BY <1>1, <2>2, Basics DEF HasRecord
    <3>2. /\ Sought \in Targets(img) /\ Sought.partition \in Nat
          /\ slot_partition(img, t) \in Nat
      BY <1>1, Searching
    <3>3. CASE t < lo
      <4>1. slot_partition(img, t) < Sought.partition
        BY <1>1, <3>3 DEF SlotsSplit, SlotGoesRight
      <4>2. ~Up(KeyAt(img, t, j))
        BY <1>1, <1>2, <3>1, <3>2, <4>1, OtherPartition DEF Up
      <4> QED
        BY <3>3, <4>2 DEF Precedes
    <3>4. CASE t >= lo
      <4>1. ~(slot_partition(img, t) < Sought.partition)
        BY <1>1, <1>2, <3>4 DEF SlotsSplit, SlotGoesRight
      <4>2. slot_partition(img, t) # Sought.partition
        <5>1. CASE t = lo
          BY <1>2, <1>4, <5>1
        <5>2. CASE t # lo
          <6>1. lo \in 0..(img.dir_count - 1) /\ lo < t
            BY <1>2, <3>4, <5>2
          <6>2. ~(slot_partition(img, lo) < Sought.partition)
            BY <1>1, <1>2, <6>1 DEF SlotsSplit, SlotGoesRight
          <6>3. slot_partition(img, lo) < slot_partition(img, t) /\ slot_partition(img, lo) \in Nat
            BY <1>2, <6>1, SlotFacts
          <6> QED
            BY <3>2, <6>2, <6>3
        <5> QED
          BY <5>1, <5>2
      <4>3. KeyLess(Sought, KeyAt(img, t, j))
        BY <1>2, <3>1, <3>2, <4>1, <4>2, OtherPartition
      <4>4. Up(KeyAt(img, t, j))
        BY <1>1, <4>3, Zenon DEF Up
      <4> QED
        BY <1>2, <3>1, <3>4, <4>4 DEF Precedes
    <3> QED
      BY <1>2, <3>3, <3>4
  <2>3. UpFrom(lo, 0)
    BY <2>2 DEF UpFrom
  <2> QED
    BY <1>1, <2>1, <2>3, ToNormalize DEF Implements
<1> QED
  BY <1>3, <1>4

(* The bounds after the search of a slot: the candidates start at lo.      *)
LEMMA BoundRecordImplements ==
    ASSUME SearchInv, BoundRecordFound PROVE Implements
<1>1. /\ pc = "records" /\ pc \notin {"idle", "end"} /\ len = 0
      /\ call.op \in {"lower_bound", "upper_bound"} /\ call.op \in UpOps
      /\ RecordsSplit(slot, lo, len) /\ IInv
      /\ slot_partition(img, slot) = Sought.partition
      /\ Walk("normalize", slot, lo)
  BY DEF BoundRecordFound, SearchInv, LoopInv, UpOps
<1>2. /\ WellFormed(img) /\ img.dir_count \in Nat /\ lo \in Nat
      /\ slot \in 0..(img.dir_count - 1)
  BY <1>1, Basics DEF SearchInv, IInv, TypeOK
<1>3. ASSUME NEW t \in 0..(img.dir_count - 1), NEW j \in 0..(slot_count(img, t) - 1)
      PROVE  Up(KeyAt(img, t, j)) <=> ~Precedes(t, j, slot, lo)
  <2>1. HasRecord(img, t, j) /\ slot_count(img, t) \in Nat
    BY <1>1, <1>3, Basics DEF HasRecord
  <2>2. /\ Sought \in Targets(img) /\ Sought.partition \in Nat
        /\ slot_partition(img, t) \in Nat
    BY <1>1, Searching
  <2>3. CASE t = slot
    <3>1. j < lo <=> Right(KeyAt(img, t, j))
      BY <1>1, <1>2, <2>1, <2>3 DEF RecordsSplit
    <3>2. Up(KeyAt(img, t, j)) <=> ~Right(KeyAt(img, t, j))
      BY <1>1, <1>2, <2>1, <2>2, OtherPartition DEF Up, Right
    <3> QED
      BY <1>2, <2>3, <3>1, <3>2 DEF Precedes
  <2>4. CASE t < slot
    <3>1. slot_partition(img, t) < Sought.partition
      BY <1>1, <1>2, <2>4, SlotFacts
    <3> QED
      BY <1>1, <1>2, <2>1, <2>2, <2>4, <3>1, OtherPartition DEF Up, Precedes
  <2>5. CASE slot < t
    <3>1. Sought.partition < slot_partition(img, t)
      BY <1>1, <1>2, <2>5, SlotFacts
    <3>2. KeyLess(Sought, KeyAt(img, t, j))
      BY <1>2, <2>1, <2>2, <3>1, OtherPartition
    <3>3. Up(KeyAt(img, t, j))
      BY <1>1, <3>2, Zenon DEF Up
    <3>4. ~Precedes(t, j, slot, lo)
      BY <1>2, <2>1, <2>5 DEF Precedes
    <3> QED
      BY <3>3, <3>4
  <2> QED
    BY <1>2, <2>3, <2>4, <2>5
<1>4. UpFrom(slot, lo)
  BY <1>3 DEF UpFrom
<1> QED
  BY <1>1, <1>4, ToNormalize DEF Implements

(* find: no other slot can hold the key sought.                            *)
LEMMA FindSlotImplements ==
    ASSUME SearchInv, FindSlotFound PROVE Implements
<1>1. /\ pc = "directory" /\ pc \notin {"idle", "end"} /\ len = 0
      /\ call.op = "find" /\ SlotsSplit(lo, len) /\ IInv
  BY DEF FindSlotFound, SearchInv, LoopInv
<1>2. /\ WellFormed(img) /\ img.dir_count \in Nat /\ lo \in Nat /\ lo <= img.dir_count
      /\ Sought \in Targets(img) /\ Sought.partition \in Nat
  BY <1>1, Basics, Searching DEF SearchInv, IInv, TypeOK
<1> DEFINE found == /\ lo < img.dir_count
                    /\ slot_partition(img, lo) = Sought.partition
                    /\ slot_count(img, lo) # 0
                    /\ ~PastAll(lo) /\ ~HasTail(lo)
<1>3. CASE found
  <2>1. SearchSlot(lo) /\ lo \in 0..(img.dir_count - 1)
    BY <1>1, <1>2, <1>3 DEF FindSlotFound
  <2> QED
    BY <1>1, <1>3, <2>1, SearchSlotImplements
<1>4. CASE ~found
  <2>1. Return(End(img))
    BY <1>4 DEF FindSlotFound
  <2>2. ASSUME NEW t, NEW j, HasRecord(img, t, j), KeyAt(img, t, j) = Sought PROVE FALSE
    <3>1. /\ slot_partition(img, t) = Sought.partition /\ t \in 0..(img.dir_count - 1)
          /\ slot_count(img, t) \in Nat /\ slot_count(img, t) # 0
      BY <1>1, <1>2, <2>2, Basics, OtherPartition DEF HasRecord
    <3>2. ~(t < lo)
      BY <1>1, <1>2, <3>1 DEF SlotsSplit, SlotGoesRight
    <3>3. lo < img.dir_count /\ lo <= t /\ lo \in 0..(img.dir_count - 1)
      BY <1>2, <3>1, <3>2
    <3>4. ~(slot_partition(img, lo) < Sought.partition) /\ slot_partition(img, lo) \in Nat
      BY <1>1, <1>2, <3>3, Searching DEF SlotsSplit, SlotGoesRight
    <3>5. lo < t => slot_partition(img, lo) < slot_partition(img, t)
      BY <1>2, <3>1, <3>3, SlotFacts
    <3>6. t = lo
      BY <1>2, <3>1, <3>3, <3>4, <3>5
    <3>7. SoughtIn(t, j)
      BY <1>2, <2>2, <3>1 DEF SoughtIn
    <3>8. ~PastAll(t) /\ ~HasTail(t)
      BY <1>2, <2>2, <3>7, Probe, OtherPartition
    <3> QED
      BY <1>4, <3>1, <3>3, <3>6, <3>8
  <2>3. Contents(img) \cap {Sought} = {}
    BY <2>2, ContentsAreRecords
  <2>4. CursorAt(End(img)) = Map!Found(call)
    BY <1>1, <2>3, FoundFind, EndIsNowhere
  <2> QED
    BY <1>1, <2>1, <2>4, Answers DEF Implements
<1> QED
  BY <1>3, <1>4

(* find after the search of a slot: only the record at lo can match.       *)
LEMMA FindRecordImplements ==
    ASSUME SearchInv, FindRecordFound PROVE Implements
<1>1. /\ pc = "records" /\ pc \notin {"idle", "end"} /\ len = 0
      /\ call.op = "find" /\ RecordsSplit(slot, lo, len) /\ IInv
      /\ slot_partition(img, slot) = Sought.partition
      /\ ~PastAll(slot) /\ ~HasTail(slot)
  BY DEF FindRecordFound, SearchInv, LoopInv
<1>2. /\ WellFormed(img) /\ img.dir_count \in Nat /\ lo \in Nat
      /\ slot \in 0..(img.dir_count - 1) /\ slot_count(img, slot) \in Nat
      /\ Sought \in Targets(img)
  BY <1>1, Basics, Searching DEF SearchInv, IInv, TypeOK
<1>3. CASE lo < slot_count(img, slot) /\ StoredMatches(slot, lo)
  <2>1. Return(At(slot, lo)) /\ HasRecord(img, slot, lo)
    BY <1>2, <1>3 DEF FindRecordFound, HasRecord
  <2>2. SoughtIn(slot, lo)
    BY <1>1, <1>2, <2>1 DEF SoughtIn
  <2>3. KeyAt(img, slot, lo) = Sought
    BY <1>1, <1>3, <2>2, Probe
  <2>4. Contents(img) \cap {Sought} = {KeyAt(img, slot, lo)}
    BY <2>1, <2>3, ContentsAreRecords
  <2>5. CursorAt(At(slot, lo)) = Map!Found(call)
    BY <1>1, <1>2, <2>4, FoundFind DEF CursorAt, At
  <2> QED
    BY <1>1, <2>1, <2>5, Answers DEF Implements
<1>4. CASE ~(lo < slot_count(img, slot) /\ StoredMatches(slot, lo))
  <2>1. Return(End(img))
    BY <1>4 DEF FindRecordFound
  <2>2. ASSUME NEW t, NEW j, HasRecord(img, t, j), KeyAt(img, t, j) = Sought PROVE FALSE
    <3>1. /\ slot_partition(img, t) = Sought.partition /\ t \in 0..(img.dir_count - 1)
      BY <1>1, <1>2, <2>2, OtherPartition DEF HasRecord
    <3>2. t = slot
      <4>1. /\ slot_partition(img, t) \in Nat
            /\ t < slot => slot_partition(img, t) < slot_partition(img, slot)
            /\ slot < t => slot_partition(img, slot) < slot_partition(img, t)
        BY <1>2, <3>1, SlotFacts
      <4> QED
        BY <1>1, <1>2, <3>1, <4>1
    <3>3. j \in 0..(slot_count(img, slot) - 1) /\ HasRecord(img, slot, j)
      BY <2>2, <3>2 DEF HasRecord
    <3>4. ~Right(KeyAt(img, slot, j))
      BY <1>1, <1>2, <2>2, <3>2, OtherPartition DEF Right
    <3>5. lo <= j
      BY <1>1, <1>2, <3>3, <3>4 DEF RecordsSplit
    <3>6. lo < slot_count(img, slot) /\ lo \in 0..(slot_count(img, slot) - 1)
      BY <1>2, <3>3, <3>5
    <3>7. HasRecord(img, slot, lo)
      BY <1>2, <3>6 DEF HasRecord
    <3>8. CASE lo = j
      <4>1. SoughtIn(slot, lo)
        BY <1>1, <1>2, <3>7 DEF SoughtIn
      <4>2. StoredMatches(slot, lo)
        BY <1>1, <2>2, <3>2, <3>8, <4>1, Probe
      <4> QED
        BY <1>4, <3>6, <4>2
    <3>9. CASE lo < j
      <4>1. KeyLess(KeyAt(img, slot, lo), Sought)
        BY <1>2, <2>2, <3>2, <3>3, <3>7, <3>9, KeysIncrease DEF Precedes
      <4>2. ~Right(KeyAt(img, slot, lo))
        BY <1>1, <1>2, <3>6 DEF RecordsSplit
      <4> QED
        BY <1>1, <4>1, <4>2 DEF Right
    <3> QED
      BY <1>2, <3>3, <3>5, <3>8, <3>9
  <2>3. Contents(img) \cap {Sought} = {}
    BY <2>2, ContentsAreRecords
  <2>4. CursorAt(End(img)) = Map!Found(call)
    BY <1>1, <2>3, FoundFind, EndIsNowhere
  <2> QED
    BY <1>1, <2>1, <2>4, Answers DEF Implements
<1> QED
  BY <1>3, <1>4

(* floor: the candidates are before the slot lo, and in the slot of the    *)
(* partition sought before the record lo.                                  *)
LEMMA FloorSlotImplements ==
    ASSUME SearchInv, FloorSlotFound PROVE Implements
<1>1. /\ pc = "directory" /\ pc \notin {"idle", "end"} /\ len = 0
      /\ call.op = "floor" /\ SlotsSplit(lo, len) /\ IInv
  BY DEF FloorSlotFound, SearchInv, LoopInv
<1>2. /\ WellFormed(img) /\ img.dir_count \in Nat /\ lo \in Nat /\ lo <= img.dir_count
      /\ Sought \in Targets(img) /\ Sought.partition \in Nat
  BY <1>1, Basics, Searching DEF SearchInv, IInv, TypeOK
<1>3. ASSUME NEW l \in 0..lo, 
             \A t \in 0..(img.dir_count - 1) :
                 /\ t < l => slot_partition(img, t) < Sought.partition
                 /\ t >= l => \/ slot_partition(img, t) > Sought.partition
                              \/ slot_count(img, t) = 0
      PROVE  DownBefore(l, 0)
  <2> SUFFICES ASSUME NEW t \in 0..(img.dir_count - 1), NEW j \in 0..(slot_count(img, t) - 1)
               PROVE  Down(KeyAt(img, t, j)) <=> Precedes(t, j, l, 0)
    BY DEF DownBefore
  <2>1. HasRecord(img, t, j) /\ slot_count(img, t) \in Nat /\ slot_count(img, t) # 0
    BY <1>1, Basics DEF HasRecord
  <2>2. slot_partition(img, t) \in Nat
    BY <1>1, Searching
  <2>3. CASE t < l
    BY <1>1, <1>2, <1>3, <2>1, <2>2, <2>3, OtherPartition DEF Down, Precedes
  <2>4. CASE t >= l
    BY <1>1, <1>2, <1>3, <2>1, <2>2, <2>4, OtherPartition DEF Down, Precedes
  <2> QED
    BY <1>2, <2>3, <2>4
<1>4. CASE lo = 0
  <2>1. Return(End(img))
    BY <1>4 DEF FloorSlotFound
  <2>2. ASSUME NEW t \in 0..(img.dir_count - 1) PROVE slot_partition(img, t) > Sought.partition
    BY <1>1, <1>2, <1>4, Searching DEF SlotsSplit, SlotGoesRight
  <2>3. DownBefore(0, 0)
    BY <1>2, <1>3, <2>2
  <2>4. CursorAt(End(img)) = Map!Found(call)
    BY <1>1, <2>3, DownBeforeStart, FoundDown, EndIsNowhere DEF DownOps
  <2> QED
    BY <1>1, <2>1, <2>4, Answers DEF Implements
<1>5. CASE lo # 0
  <2> DEFINE s == lo - 1
  <2>1. s \in 0..(img.dir_count - 1) /\ s + 1 = lo /\ s \in 0..lo /\ lo \in 0..lo
    BY <1>2, <1>5
  <2>2. CASE slot_partition(img, s) = Sought.partition /\ slot_count(img, s) # 0
    <3>1. SearchSlot(s)
      BY <1>5, <2>2 DEF FloorSlotFound
    <3> HIDE DEF s
    <3> QED
      BY <1>1, <2>1, <2>2, <3>1, SearchSlotImplements
  <2>3. CASE slot_partition(img, s) = Sought.partition /\ slot_count(img, s) = 0
    <3>1. FloorBefore(s)
      BY <1>5, <2>3 DEF FloorSlotFound
    <3> HIDE DEF s
    <3>2. ASSUME NEW t \in 0..(img.dir_count - 1)
          PROVE  /\ t < s => slot_partition(img, t) < Sought.partition
                 /\ t >= s => \/ slot_partition(img, t) > Sought.partition
                              \/ slot_count(img, t) = 0
      <4>1. t < s => slot_partition(img, t) < slot_partition(img, s)
        BY <1>2, <2>1, SlotFacts
      <4>2. t >= lo => slot_partition(img, t) > Sought.partition
        BY <1>1, <1>2, Searching DEF SlotsSplit, SlotGoesRight
      <4> QED
        BY <1>2, <2>1, <2>3, <4>1, <4>2
    <3>3. DownBefore(s, 0)
      BY <1>3, <2>1, <3>2
    <3> QED
      BY <1>1, <2>1, <3>1, <3>3, FloorBeforeImplements
  <2>4. CASE slot_partition(img, s) # Sought.partition
    <3>1. Walk("floor", s, 0)
      BY <1>5, <2>4 DEF FloorSlotFound
    <3> HIDE DEF s
    <3>2. slot_partition(img, s) < Sought.partition
      <4>1. slot_partition(img, s) <= Sought.partition /\ slot_partition(img, s) \in Nat
        BY <1>1, <1>2, <2>1, Searching DEF SlotsSplit, SlotGoesRight
      <4> QED
        BY <1>2, <2>4, <4>1
    <3>3. ASSUME NEW t \in 0..(img.dir_count - 1)
          PROVE  /\ t < lo => slot_partition(img, t) < Sought.partition
                 /\ t >= lo => \/ slot_partition(img, t) > Sought.partition
                               \/ slot_count(img, t) = 0
      <4>1. /\ t < s => slot_partition(img, t) < slot_partition(img, s)
            /\ slot_partition(img, t) \in Nat /\ slot_partition(img, s) \in Nat
        BY <1>2, <2>1, SlotFacts
      <4>2. t >= lo => slot_partition(img, t) > Sought.partition
        BY <1>1, <1>2, Searching DEF SlotsSplit, SlotGoesRight
      <4>3. t < lo => t < s \/ t = s
        BY <1>2, <2>1
      <4> QED
        BY <1>2, <2>1, <3>2, <4>1, <4>2, <4>3
    <3>4. DownBefore(s + 1, 0)
      BY <1>3, <2>1, <3>3
    <3> QED
      BY <1>1, <3>1, <3>4, ToFloor
  <2> QED
    BY <2>2, <2>3, <2>4
<1> QED
  BY <1>4, <1>5

(* floor after the search of a slot: the candidates end before lo.         *)
LEMMA FloorRecordImplements ==
    ASSUME SearchInv, FloorRecordFound PROVE Implements
<1>1. /\ pc = "records" /\ pc \notin {"idle", "end"} /\ len = 0
      /\ call.op = "floor" /\ RecordsSplit(slot, lo, len) /\ IInv
      /\ slot_partition(img, slot) = Sought.partition
  BY DEF FloorRecordFound, SearchInv, LoopInv
<1>2. /\ WellFormed(img) /\ img.dir_count \in Nat /\ lo \in Nat
      /\ slot \in 0..(img.dir_count - 1) /\ slot_count(img, slot) \in Nat
      /\ lo <= slot_count(img, slot)
      /\ Sought \in Targets(img)
  BY <1>1, Basics, Searching DEF SearchInv, IInv, TypeOK
<1>3. ASSUME NEW t \in 0..(img.dir_count - 1), NEW j \in 0..(slot_count(img, t) - 1)
      PROVE  Down(KeyAt(img, t, j)) <=> Precedes(t, j, slot, lo)
  <2>1. HasRecord(img, t, j) /\ slot_count(img, t) \in Nat
    BY <1>1, <1>3, Basics DEF HasRecord
  <2>2. slot_partition(img, t) \in Nat
    BY <1>1, Searching
  <2>3. CASE t = slot
    <3>1. j < lo <=> Right(KeyAt(img, t, j))
      BY <1>1, <1>2, <2>1, <2>3 DEF RecordsSplit
    <3>2. Down(KeyAt(img, t, j)) <=> Right(KeyAt(img, t, j))
      BY <1>1, <1>2, <2>1, <2>2, OtherPartition DEF Down, Right
    <3> QED
      BY <1>2, <2>3, <3>1, <3>2 DEF Precedes
  <2>4. CASE t < slot
    <3>1. slot_partition(img, t) < Sought.partition
      BY <1>1, <1>2, <2>4, SlotFacts
    <3> QED
      BY <1>1, <1>2, <2>1, <2>2, <2>4, <3>1, OtherPartition DEF Down, Precedes
  <2>5. CASE slot < t
    <3>1. Sought.partition < slot_partition(img, t)
      BY <1>1, <1>2, <2>5, SlotFacts
    <3> QED
      BY <1>1, <1>2, <2>1, <2>2, <2>5, <3>1, OtherPartition DEF Down, Precedes
  <2> QED
    BY <1>2, <2>3, <2>4, <2>5
<1>4. DownBefore(slot, lo)
  BY <1>3 DEF DownBefore
<1>5. CASE lo # 0
  <2> DEFINE i == lo - 1
  <2>1. i \in 0..(slot_count(img, slot) - 1) /\ i + 1 = lo
    BY <1>2, <1>5
  <2>2. Return(At(slot, i)) /\ DownBefore(slot, i + 1)
    BY <1>4, <1>5, <2>1 DEF FloorRecordFound
  <2> HIDE DEF i
  <2> QED
    BY <1>1, <1>2, <2>1, <2>2, AnswerBefore DEF DownOps
<1>6. CASE lo = 0
  BY <1>1, <1>2, <1>4, <1>6, FloorBeforeImplements DEF FloorRecordFound
<1> QED
  BY <1>5, <1>6


----------------------------------------------------------------------------
(* The calls.                                                              *)
LEMMA OneTarget ==
    ASSUME NEW m, NEW q \in Queries PROVE Target(m, q) = {} \/ \E k : Target(m, q) = {k}
<1>1. CASE q.form = "key"
  BY <1>1 DEF Target
<1>2. CASE q.form = "parts"
  BY <1>2 DEF Target
<1>3. CASE q.form = "bytes"
  BY <1>3 DEF Target
<1> QED
  BY <1>1, <1>2, <1>3, LookupAssumption

(* A search starts with every slot in its window, or none if dense.        *)
LEMMA AskImplements ==
    ASSUME SearchInv, NEW op \in SearchOps, NEW q \in Queries, Ask(op, q) PROVE Implements
<1> DEFINE t == Target(img, q)
<1>1. /\ pc = "idle" /\ call = NoCall /\ IInv /\ img' = img
      /\ WellFormed(img) /\ img.dir_count \in Nat
  BY Basics DEF SearchInv, CallShape, Ask
<1>2. call' = [op |-> op, target |-> t] /\ it' = End(img)
  BY DEF Ask
<1>3. call'.op = op /\ call'.target = t /\ op \notin {"none", "begin", "next", "prev"}
  BY <1>2 DEF SearchOps
<1>4. Map!Next
  <2>1. call' # NoCall
    BY <1>3 DEF NoCall
  <2>2. ~(it'.slot < img'.dir_count)
    BY <1>1, <1>2 DEF End
  <2> QED
    BY <1>1, <1>3, <2>1, <2>2 DEF Map!Next, Map!Call
<1>5. CASE t = {}
  <2>1. pc' = "end"
    BY <1>5 DEF Ask
  <2>2. CallShape'
    BY <1>3, <1>5, <2>1 DEF CallShape, NoCall
  <2>3. LoopInv'
    BY <2>1 DEF LoopInv
  <2> QED
    BY <1>4, <2>2, <2>3 DEF Implements
<1>6. CASE t # {}
  <2>1. PICK k : t = {k}
    BY <1>6, OneTarget
  <2>2. k \in Targets(img)
    BY <1>1, <2>1, TargetSpace
  <2>3. Sought' = k /\ (CHOOSE c \in t : TRUE) = k
    BY <1>3, <2>1 DEF Sought
  <2>4. pc' = "directory"
    BY <1>6 DEF Ask
  <2>5. CallShape'
    BY <1>1, <1>3, <2>1, <2>2, <2>3, <2>4 DEF CallShape, NoCall
  <2> DEFINE p == k.partition
             n == img.dir_count
  <2>6. p \in Nat
    BY <2>2 DEF Targets, Keys, KeySpace
  <2>7. ASSUME NEW s \in 0..(n - 1)
        PROVE  (s < lo' => SlotGoesRight(s)') /\ (s >= lo' + len' => ~SlotGoesRight(s)')
    <3>1. CASE img.dense
      <4>1. /\ lo' = IF op = "floor" THEN (IF p < n THEN p + 1 ELSE n) ELSE (IF p < n THEN p ELSE n)
            /\ len' = 0
        <5> DEFINE c == (CHOOSE x \in t : TRUE).partition
        <5>1. lo' = IF op = "floor" THEN (IF c < n THEN c + 1 ELSE n) ELSE (IF c < n THEN c ELSE n)
          BY <1>6, <3>1 DEF Ask
        <5>2. len' = 0
          BY <1>6, <3>1 DEF Ask
        <5>3. c = p
          BY <2>3
        <5> HIDE DEF c
        <5> QED
          BY <5>1, <5>2, <5>3
      <4>2. slot_partition(img, s) = s
        BY <3>1 DEF slot_partition
      <4>3. SlotGoesRight(s)' <=> IF op = "floor" THEN s <= p ELSE s < p
        BY <1>1, <1>3, <2>3, <4>2 DEF SlotGoesRight
      <4> QED
        BY <1>1, <2>6, <4>1, <4>3
    <3>2. CASE ~img.dense
      <4>1. lo' = 0 /\ len' = n
        BY <1>6, <3>2 DEF Ask
      <4> QED
        BY <1>1, <4>1
    <3> QED
      BY <3>1, <3>2
  <2>8. SlotsSplit(lo, len)'
    BY <1>1, <2>7 DEF SlotsSplit
  <2> QED
    BY <1>4, <2>4, <2>5, <2>8 DEF Implements, LoopInv
<1> QED
  BY <1>5, <1>6

(* begin() walks up from the first position.                               *)
LEMMA AskBeginImplements ==
    ASSUME SearchInv, AskBegin PROVE Implements
<1>1. /\ pc = "idle" /\ call = NoCall /\ IInv /\ img' = img
      /\ WellFormed(img) /\ img.dir_count \in Nat
      /\ call' = [op |-> "begin", target |-> {}] /\ pc' = "normalize"
      /\ slot' = 0 /\ index' = 0 /\ it' = End(img)
  BY Basics DEF SearchInv, CallShape, AskBegin
<1>2. call'.op = "begin" /\ call' # NoCall
  BY <1>1 DEF NoCall
<1>3. Map!Next
  <2>1. ~(it'.slot < img'.dir_count)
    BY <1>1 DEF End
  <2> QED
    BY <1>1, <1>2, <2>1 DEF Map!Next, Map!Call
<1>4. UpFrom(slot, index)'
  <2>1. ASSUME NEW t \in 0..(img.dir_count - 1), NEW j \in 0..(slot_count(img, t) - 1)
        PROVE  ~Precedes(t, j, 0, 0)
    BY <1>1, <2>1, Basics DEF Precedes
  <2> QED
    BY <1>1, <1>2, <2>1 DEF UpFrom, Up
<1>5. CallShape'
  BY <1>1, <1>2 DEF CallShape, UpOps, SearchOps
<1> QED
  BY <1>1, <1>3, <1>4, <1>5 DEF Implements, LoopInv

(* The position of the client's iterator, between the keys up to it and    *)
(* those above it.                                                         *)
LEMMA CursorSplits ==
    ASSUME IInv, NEW t, NEW j, HasRecord(img, t, j)
    PROVE  /\ (\E c \in Cursor : KeyLess(c, KeyAt(img, t, j)))
                 <=> ~Precedes(t, j, it.slot, it.index + 1)
           /\ (Cursor = {} \/ \E c \in Cursor : KeyLess(KeyAt(img, t, j), c))
                 <=> Precedes(t, j, it.slot, it.index)
<1>1. /\ WellFormed(img) /\ img.dir_count \in Nat
      /\ it.slot \in Nat /\ it.index \in Nat
      /\ it = End(img) \/ HasRecord(img, it.slot, it.index)
  BY Basics
<1>2. t \in Nat /\ j \in Nat /\ t < img.dir_count
  BY <1>1, Basics DEF HasRecord
<1>3. CASE it = End(img)
  <2>1. Cursor = {} /\ it.slot = img.dir_count
    BY <1>1, <1>3 DEF Cursor, End
  <2> QED
    BY <1>1, <1>2, <2>1 DEF Precedes
<1>4. CASE HasRecord(img, it.slot, it.index)
  <2>1. Cursor = {KeyAt(img, it.slot, it.index)}
    BY <1>1, <1>4 DEF Cursor, HasRecord
  <2>2. /\ KeyLess(KeyAt(img, it.slot, it.index), KeyAt(img, t, j))
              <=> Precedes(it.slot, it.index, t, j)
        /\ KeyLess(KeyAt(img, t, j), KeyAt(img, it.slot, it.index))
              <=> Precedes(t, j, it.slot, it.index)
    BY <1>1, <1>4, PositionOrder
  <2>3. Precedes(it.slot, it.index, t, j) <=> ~Precedes(t, j, it.slot, it.index + 1)
    BY <1>1, <1>2 DEF Precedes
  <2> QED
    BY <2>1, <2>2, <2>3
<1> QED
  BY <1>1, <1>3, <1>4

(* ++ walks up from the position after the iterator.                       *)
LEMMA AskNextImplements ==
    ASSUME SearchInv, AskNext PROVE Implements
<1>1. /\ pc = "idle" /\ call = NoCall /\ IInv /\ img' = img /\ it' = it
      /\ call' = [op |-> "next", target |-> {}] /\ pc' = "normalize"
      /\ slot' = it.slot /\ index' = it.index + 1
  BY DEF SearchInv, CallShape, AskNext
<1>2. call'.op = "next" /\ call' # NoCall
  BY <1>1 DEF NoCall
<1>3. Map!Next
  BY <1>1, <1>2 DEF Map!Next, Map!Call
<1>4. Cursor' = Cursor
  BY <1>1 DEF Cursor
<1>5. UpFrom(slot, index)'
  BY <1>1, <1>2, <1>4, CursorSplits DEF UpFrom, Up, HasRecord
<1>6. CallShape'
  BY <1>1, <1>2 DEF CallShape, UpOps, SearchOps
<1> QED
  BY <1>1, <1>3, <1>5, <1>6 DEF Implements, LoopInv

(* -- walks down from the iterator.                                        *)
LEMMA AskPrevImplements ==
    ASSUME SearchInv, AskPrev PROVE Implements
<1>1. /\ pc = "idle" /\ call = NoCall /\ IInv /\ img' = img /\ it' = it
      /\ call' = [op |-> "prev", target |-> {}] /\ pc' = "retreat"
      /\ slot' = it.slot /\ index' = it.index
  BY DEF SearchInv, CallShape, AskPrev
<1>2. call'.op = "prev" /\ call' # NoCall
  BY <1>1 DEF NoCall
<1>3. Map!Next
  BY <1>1, <1>2 DEF Map!Next, Map!Call
<1>4. Cursor' = Cursor
  BY <1>1 DEF Cursor
<1>5. DownBefore(slot, index)'
  BY <1>1, <1>2, <1>4, CursorSplits DEF DownBefore, Down, HasRecord
<1>6. CallShape'
  BY <1>1, <1>2 DEF CallShape, SearchOps
<1> QED
  BY <1>1, <1>3, <1>5, <1>6 DEF Implements, LoopInv

(* A query outside the key space returns end().                            *)
LEMMA ReturnEndImplements ==
    ASSUME SearchInv, ReturnEnd PROVE Implements
<1>1. IInv /\ pc = "end" /\ Return(End(img))
  BY DEF SearchInv, ReturnEnd
<1>2. CursorAt(End(img)) = Map!Found(call)
  BY <1>1, FoundNothing, EndIsNowhere
<1> QED
  BY <1>1, <1>2, Answers DEF Implements

----------------------------------------------------------------------------
(* A table just attached is a map with the cursor on its least key.        *)
LEMMA FreshImplements == Fresh => SearchInv /\ Map!Init
<1> SUFFICES ASSUME Fresh PROVE SearchInv /\ Map!Init
  OBVIOUS
<1>1. IInv /\ call = NoCall /\ pc = "idle" /\ it = Begin(img) /\ WellFormed(img)
  BY FreshIInv DEF Fresh, IInv, TypeOK
<1>2. SearchInv
  BY <1>1 DEF SearchInv, CallShape, LoopInv, NoCall, SearchOps
<1>3. CASE /\ Begin(img) = End(img)
           /\ \A s \in 0..(img.dir_count - 1) : slot_count(img, s) = 0
  <2>1. Contents(img) = {}
    <3>1. ASSUME NEW k \in Contents(img) PROVE FALSE
      <4>1. PICK s, i : HasRecord(img, s, i)
        BY ContentsAreRecords
      <4> QED
        BY <1>3, <4>1 DEF HasRecord
    <3> QED
      BY <3>1
  <2>2. CursorAt(it) = {}
    BY <1>1, <1>3, EndIsNowhere
  <2> QED
    BY <1>1, <1>2, <2>1, <2>2, NoneExtreme DEF Map!Init, CursorAt
<1>4. ASSUME NEW s \in 0..(img.dir_count - 1),
             Begin(img) = At(s, 0), slot_count(img, s) # 0,
             \A r \in 0..(s - 1) : slot_count(img, r) = 0
      PROVE  SearchInv /\ Map!Init
  <2>1. /\ img.dir_count \in Nat /\ slot_count(img, s) \in Nat
    BY <1>1, Basics
  <2>2. HasRecord(img, s, 0)
    BY <1>4, <2>1 DEF HasRecord
  <2>3. KeyAt(img, s, 0) \in Contents(img)
    BY <2>2, ContentsAreRecords
  <2>4. ASSUME NEW t, NEW j, HasRecord(img, t, j), Precedes(t, j, s, 0) PROVE FALSE
    <3>1. slot_count(img, t) # 0 /\ t \in 0..(img.dir_count - 1) /\ j \in Nat
      BY <1>1, <2>4, Basics DEF HasRecord
    <3> QED
      BY <1>4, <2>1, <2>4, <3>1 DEF Precedes
  <2>5. Map!Least(Contents(img)) = {KeyAt(img, s, 0)}
    BY <1>1, <2>2, <2>3, <2>4, LeastAt
  <2>6. it.slot = s /\ it.index = 0 /\ s < img.dir_count
    BY <1>1, <1>4, <2>1 DEF At
  <2> QED
    BY <1>1, <1>2, <2>5, <2>6 DEF Map!Init
<1> QED
  BY <1>1, <1>2, <1>3, <1>4, BeginIsFirst

(* Every step keeps the invariant, and is a step of the map or none.       *)
LEMMA NextImplements == SearchInv /\ [Next]_vars => SearchInv' /\ [Map!Next]_(Map!vars)
<1> SUFFICES ASSUME SearchInv, [Next]_vars PROVE SearchInv' /\ [Map!Next]_(Map!vars)
  OBVIOUS
<1>0. IInv'
  BY NextIInv DEF SearchInv
<1>1. ASSUME Asks PROVE Implements
  <2>1. ASSUME NEW op \in Ops \ {"begin", "next", "prev"}, NEW q \in Queries, Ask(op, q)
        PROVE  Implements
    <3>1. op \in SearchOps
      BY LookupAssumption DEF SearchOps
    <3> QED
      BY <2>1, <3>1, AskImplements
  <2> QED
    BY <1>1, <2>1, AskBeginImplements, AskNextImplements, AskPrevImplements DEF Asks
<1>2. ASSUME UNCHANGED vars PROVE Implements
  <2>1. UNCHANGED <<img, call, pc, lo, len, slot, index, it>>
    BY <1>2 DEF vars
  <2>2. Sought' = Sought /\ Cursor' = Cursor /\ UNCHANGED Map!vars
    BY <2>1, CallGoesOn
  <2>3. CallShape'
    BY <2>1, <2>2 DEF SearchInv, CallShape
  <2>4. LoopInv'
    <3>1. SlotsSplit(lo, len) => SlotsSplit(lo, len)'
      BY <2>1, <2>2 DEF SlotsSplit, SlotGoesRight
    <3>2. RecordsSplit(slot, lo, len) => RecordsSplit(slot, lo, len)'
      BY <2>1, <2>2 DEF RecordsSplit, Right
    <3>3. (PastAll(slot)' <=> PastAll(slot)) /\ (HasTail(slot)' <=> HasTail(slot))
      BY <2>1, <2>2 DEF PastAll, HasTail
    <3>4. UpFrom(slot, index) => UpFrom(slot, index)'
      BY <2>1, SameUp
    <3>5. DownBefore(slot, index) => DownBefore(slot, index)'
      BY <2>1, SameDown
    <3>6. DownBefore(slot + 1, 0) => DownBefore(slot + 1, 0)'
      BY <2>1, <2>2 DEF DownBefore, Down
    <3> QED
      BY <2>1, <2>2, <3>1, <3>2, <3>3, <3>4, <3>5, <3>6 DEF SearchInv, LoopInv
  <2> QED
    BY <2>2, <2>3, <2>4 DEF Implements
<1>3. ASSUME Steps PROVE Implements
  BY <1>3, ReturnEndImplements, DirectoryImplements, BoundSlotImplements, FindSlotImplements,
     FloorSlotImplements, RecordsImplements, BoundRecordImplements, FindRecordImplements,
     FloorRecordImplements, NormalizeImplements, FloorImplements, RetreatImplements DEF Steps
<1>4. Implements
  BY <1>1, <1>2, <1>3 DEF Next
<1> QED
  BY <1>0, <1>4 DEF Implements, SearchInv

(* Every lookup of every well formed image gives the element std::map      *)
(* would give: find, lower_bound, upper_bound, floor, begin, ++ and --.    *)
THEOREM LookupsImplementMap == Spec => IsOrderedMap
<1>1. Spec => Map!Init /\ [][Map!Next]_(Map!vars)
  BY InitFresh, FreshImplements, NextImplements, PTL DEF Spec
<1> QED
  BY <1>1 DEF IsOrderedMap, Map!Spec
=============================================================================

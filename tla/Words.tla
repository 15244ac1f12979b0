------------------------------- MODULE Words -------------------------------
(***************************************************************************)
(* The fixed-width integers of detail/bits.hpp and the two address         *)
(* representations built on them.                                          *)
(*                                                                         *)
(* The sizes of the machine are parameters, because nothing in the library *)
(* depends on a byte having 256 values or a word 8 bytes: ByteBase is 256  *)
(* in the code, WordBytes is 8, Weight[k] is 2^(8k) and NaturalWidths is   *)
(* {1, 2, 4, 8}.  Every arithmetic operation keeps the width of the code.  *)
(***************************************************************************)
EXTENDS Integers, Sequences, FiniteSetsExt

CONSTANTS ByteBase,       \* number of values of a byte
          WordBytes,      \* bytes of a std::uint64_t
          Weight,         \* Weight[k] is the weight of byte k of a word
          NaturalWidths   \* the widths that width_for may return

ASSUME WordAssumption ==
    /\ ByteBase \in Nat \ {0, 1}
    /\ WordBytes \in Nat \ {0}
    /\ Weight \in [0..WordBytes -> Nat \ {0}]
    /\ Weight[0] = 1
    /\ \A k \in 0..(WordBytes - 1) : Weight[k + 1] = ByteBase * Weight[k]
    /\ NaturalWidths \subseteq 1..WordBytes
    /\ {1, WordBytes} \subseteq NaturalWidths

Byte == 0..(ByteBase - 1)

WordSize == Weight[WordBytes]

Word == 0..(WordSize - 1)

(* Byte b of a word, counted from the least significant one.               *)
Digit(v, b) == (v \div Weight[b]) % ByteBase

(* Unsigned subtraction and addition of std::uint64_t.                     *)
Minus(a, b) == (a - b) % WordSize
Plus(a, b) == (a + b) % WordSize

(* static_cast<std::int64_t>(a) < static_cast<std::int64_t>(b)             *)
Signed(a) == IF 2 * a < WordSize THEN a ELSE a - WordSize
SignedLess(a, b) == Signed(a) < Signed(b)

(* What load_uint finds where store_uint put v: the low width bytes of v.  *)
store_uint(width, v) == v % Weight[width]

(* The integer load_uint makes of a byte string no longer than a word:     *)
(* little endian, zero extended.                                           *)
load_uint(bytes) == MapThenSumSet(LAMBDA b : bytes[b] * Weight[b - 1], DOMAIN bytes)

exact_width_for(v) ==
    Min({w \in 1..WordBytes : w = WordBytes \/ v \div Weight[w] = 0})

width_for(v) ==
    Min({w \in NaturalWidths : w = WordBytes \/ v <= Weight[w] - 1})

(* std::memcmp(a, b, n) < 0 and <= 0 for byte strings of the same length.  *)
LexLess(a, b) ==
    \E i \in 1..Len(a) : a[i] < b[i] /\ \A j \in 1..(i - 1) : a[j] = b[j]
LexLeq(a, b) == a = b \/ LexLess(a, b)

----------------------------------------------------------------------------
(* A key is the pair of ordering coordinates of a record.  As in the code, *)
(* where lookups take (partition, value, bytes), an address that fits a    *)
(* word is `value` with no bytes, and a wider one is `bytes` with value 0. *)
NarrowKey(p, v) == [partition |-> p, value |-> v, bytes |-> <<>>]
WideKey(p, b) == [partition |-> p, value |-> 0, bytes |-> b]

(* The order std::map would use on (partition, address).                   *)
KeyLess(k, l) ==
    \/ k.partition < l.partition
    \/ /\ k.partition = l.partition
       /\ \/ k.value < l.value
          \/ k.value = l.value /\ LexLess(k.bytes, l.bytes)
============================================================================

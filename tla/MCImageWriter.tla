--------------------------- MODULE MCImageWriter ---------------------------
(* Small instances of ImageWriter: whole builds of a few records.           *)
EXTENDS ImageWriter, TLC

Powers2 == [k \in 0..WordBytes |-> 2^k]
Powers3 == [k \in 0..WordBytes |-> 3^k]
Powers4 == [k \in 0..WordBytes |-> 4^k]

SmallSizes == [header |-> 1, footer |-> WordBytes, schema_header |-> 1, field_desc |-> 1,
               dict_entry |-> 1, alignment |-> 2, f32 |-> 1, f64 |-> WordBytes,
               uint8 |-> 8, uint16 |-> 8, name |-> 1]

(* Eight-bit fields that just miss the width of the addresses.               *)
TightSizes == [SmallSizes EXCEPT !.uint8 = 4]

TextBytes == "a" :> 1 @@ "b" :> 2 @@ "" :> 0

CONSTANTS h1, h2

NoKeys == {}
Half == <<1, 2>>
NoRaw == [f \in 0..1 |-> 0]

(* Trimming on and off, both layouts, each with a small or a large ceiling. *)
Plain == [remap |-> FALSE, trim |-> TRUE, align |-> FALSE, interning |-> "always",
          max_dense_slots |-> 16]
AllOptions == {Plain,
               [Plain EXCEPT !.interning = "never", !.max_dense_slots = 2],
               [Plain EXCEPT !.trim = FALSE, !.max_dense_slots = 2],
               [Plain EXCEPT !.trim = FALSE, !.interning = "never"]}
RemapOptions == [remap : {TRUE}, trim : {TRUE}, align : {FALSE},
                 interning : {"always", "automatic"}, max_dense_slots : {16}]

WideOptions == {[Plain EXCEPT !.interning = "automatic"],
                [Plain EXCEPT !.interning = "automatic", !.trim = FALSE, !.align = TRUE]}
PlainOptions == [remap : {FALSE}, trim : BOOLEAN, align : {FALSE}, interning : {"automatic"},
                max_dense_slots : {16}]

(* One unsigned field.                                                      *)
UintOnly == 0 :> "uint"
UintValues == 0 :> {1, 3}

(* A text field; a signed field whose values straddle zero.                 *)
TextOnly == 0 :> "text"
TextValues == 0 :> {"", "a", "b"}
SintOnly == 0 :> "sint"
SignedValues == 0 :> {1, 3}

SplitSmall == {<<0, 3>>, <<2, 0>>, <<2, 12>>}

(* The last partition of the word.                                          *)
SplitLast == {<<0, 1>>, <<WordSize - 1, 1>>}

(* Byte addresses no wider than a word.                                     *)
ShortWide == {<<0, <<0, 1>> >>, <<0, <<1, 0>> >>}
LastOptions == [remap : {FALSE}, trim : {TRUE}, align : {FALSE}, interning : {"automatic"},
                max_dense_slots : {2}]

(* Byte addresses longer than a word of two or of three bytes.              *)
WideSmall == {<<0, <<0, 1, 0>> >>, <<1, <<0, 0, 0>> >>, <<1, <<1, 0, 0>> >>}
WideLong == {<<k[1], k[2] \o <<0>> >> : k \in WideSmall}

(* A signed field whose range just exceeds a byte, and a bytes field of a   *)
(* width that is no power of two.                                           *)
SintAndBytes == 0 :> "sint" @@ 1 :> "bytes"
SintAndBytesValues == 0 :> {62, 2} @@ 1 :> {}
BytesOfThree == 0 :> 0 @@ 1 :> 3
============================================================================

--------------------------- MODULE MCTableBuilder ---------------------------
(* Small instances of TableBuilder: bytes of two values, words of two bytes. *)
EXTENDS TableBuilder, TLC

Powers2 == [k \in 0..WordBytes |-> 2^k]

UintOnly == 0 :> "uint"
NoRaw == [f \in 0..1 |-> 0]
NoTexts == [v \in {} |-> 0]

CONSTANTS h1, h2
HandleSymmetry == Permutations(Handles)

NoValues == 0 :> {}

NoKeys == {}
Split == {<<0, 1>>, <<0, 2>>, <<1, 0>>}
Wide3 == {<<0, <<0, 0, 1>> >>, <<0, <<0, 1, 0>> >>, <<1, <<0, 0, 0>> >>,
          <<0, <<1>> >>, <<0, <<>> >>}
Half == <<1, 2>>
============================================================================

-------------------------- MODULE MCBuildAndLookup --------------------------
(* Builds of each of the three key worlds, opened and searched.             *)
EXTENDS MCImageWriter, BuildAndLookup

(* Two partitions with a gap, and addresses that trim at either end.        *)
SplitFew == {<<0, 4>>, <<2, 0>>, <<2, 12>>}
WideFew == {<<0, <<0, 1, 0, 0>> >>, <<2, <<0, 0, 0, 0>> >>, <<2, <<1, 0, 0, 0>> >>}
(* The values of the records are not looked at.                             *)
NoValues == 0 :> {}

LookupOptions == {Plain, [Plain EXCEPT !.trim = FALSE, !.max_dense_slots = 2]}

(* What is there, what lies between, and what is past the end; a query in   *)
(* the form of another world finds nothing.                                 *)
FewQueries ==
    {[form |-> "key", key |-> k] : k \in {1, 5, 9}}
      \cup {[form |-> "parts", partition |-> k[1], value |-> k[2]] :
               k \in {<<0, 4>>, <<0, 5>>, <<1, 0>>, <<2, 0>>, <<2, 4>>, <<3, 0>>}}
      \cup {[form |-> "bytes", partition |-> k[1], bytes |-> k[2]] :
               k \in {<<0, <<0, 1, 0, 0>> >>, <<1, <<0, 0, 0, 0>> >>, <<2, <<0, 0, 0, 0>> >>,
                      <<2, <<0, 1, 0, 1>> >>, <<2, <<1, 0, 0, 1>> >>, <<2, <<3>> >>}}
=============================================================================

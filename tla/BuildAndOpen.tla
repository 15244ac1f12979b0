---------------------------- MODULE BuildAndOpen ----------------------------
(***************************************************************************)
(* A build followed by table::try_open of the file it wrote: what          *)
(* write_image puts in the directory, the schema, the dictionaries and the *)
(* footer against what the reader demands of them.                         *)
(***************************************************************************)
EXTENDS ImageWriter

VARIABLES opc, item, previous, floor, total, status   \* see TableOpen

Open == INSTANCE TableOpen WITH Files <- {}, file <- file[1], i <- item

opening_vars == <<opc, item, previous, floor, total, status>>
all_vars == <<vars, opening_vars>>

BuildInit == Init /\ Open!OpenInit

Build == Next /\ UNCHANGED opening_vars

(* The client maps the finished file and opens it.                         *)
Opening ==
    /\ wpc = "written"
    /\ UNCHANGED vars
    /\ Open!Next

BuildNext == Build \/ Opening

(* finish and try_open are calls in progress: each keeps running.          *)
Calls == (Writing /\ UNCHANGED opening_vars) \/ Opening

BuildSpec == BuildInit /\ [][BuildNext]_all_vars /\ WF_all_vars(Calls)

----------------------------------------------------------------------------
(* A file that finish has written is never rejected: every offset, width   *)
(* and size that choose_layout and write_image derive passes the check     *)
(* that try_open makes of it (table.hpp:126-279, schema.hpp:187-285).      *)
WrittenOpens == status \in {"open", "ok"}

(* The table a client opens is one the lookups may assume, and every slot  *)
(* decodes to the place and the stride its records were written with: the  *)
(* widths chosen for the packed directory hold every entry.                *)
ImageWellFormed ==
    status = "ok" =>
        /\ \A s \in DOMAIN file[1].slots :
              LET d == dir_slot(file[1], s) IN d.count # 0 => BlockFound(file[1], d)
        /\ WellFormed(image[1])

(* The element at (s, i) is a record as it was committed.                  *)
Holds(m, s, i, entry) ==
    /\ KeyAt(m, s, i) = entry.key
    /\ has_key_mapping(m) => key_at(m, s, i) = pack(entry.key.partition, entry.key.value)
    /\ \A f \in DOMAIN entry.written :
          ReadBack(m, s, i, f) = Some(entry.written[f])

(* Every committed record is in the opened table once, under the key the   *)
(* client gave, and every field it set reads back as it was set: through   *)
(* the bias, the width, the trimmed address, the remap table and the dense *)
(* or sparse directory.  There are no other records: a slot with too many  *)
(* has a place too many.                                                   *)
RoundTrip ==
    status = "ok" =>
        LET m == image[1]
            places == {p \in (0..(m.dir_count - 1)) \X (0..Len(log)) :
                          p[2] < slot_count(m, p[1])}
        IN  /\ Cardinality(places) = Len(log)
            /\ \A n \in 1..Len(log) : \E p \in places : Holds(m, p[1], p[2], log[n])

(* Every finish that goes on to the layout ends, in a throw or in a file   *)
(* the reader accepts.                                                     *)
BuildOpens == (stage = "layout") ~> (wpc = "thrown" \/ status = "ok")
=============================================================================

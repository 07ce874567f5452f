------------------------------ MODULE SessionMC ------------------------------
(* The values of Session's constants for TLC. *)
EXTENDS Session

StoredWhole == [n \in Names |-> n]

Down == {<<"a">>}

(* Writing breaks off between the tables, or in the root directory behind  *)
(* its own two entries.                                                    *)
SomeBreaks == {Fat2At(Root), CellAt(Root, 2)}

(* Text in every cell, a file entry in every cell: all lead to block 26,   *)
(* or to the root.                                                         *)
Garbage ==
  {[fat1 |-> [b \in Block |-> 26], fat2 |-> [b \in Block |-> 0],
    disk |-> [b \in Block |-> [s \in Slot |-> Garbled]]],
   [fat1 |-> [b \in Block |-> Root], fat2 |-> [b \in Block |-> END],
    disk |-> [b \in Block |-> [s \in Slot |-> [name |-> "f", attr |-> {"DATA"}, use |-> TRUE,
                                             s_block |-> Root, len |-> -1]]]]}
=============================================================================

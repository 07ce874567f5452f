------------------------------ MODULE FileTree ------------------------------
(***************************************************************************)
(* What exam5/File_System promises its user: a tree of named directories   *)
(* and files, and a place in it that commands apply to.  There are no      *)
(* blocks, no tables and no copies.                                        *)
(*                                                                         *)
(* A path is the sequence of steps from the root, a step the kind and the  *)
(* name of what it leads to: a directory and a file may have one name.     *)
(***************************************************************************)
EXTENDS Naturals, SequencesExt, TLC

CONSTANTS
  Steps,      \* what an entry may be: kind ("dir" or "file") and name
  Chunks      \* the pieces of text that a file may be extended by at once

VARIABLES
  tree,       \* of every path there is, its flags and its text
  here        \* the directory or file that is open

vars == <<here, tree>>

RootPath == <<>>
Empty    == [flags |-> {}, text |-> <<>>]

Init == tree = (RootPath :> Empty) /\ here = RootPath

InDirectory == here = RootPath \/ Last(here)[1] = "dir"

Below(p) == {q \in DOMAIN tree : IsPrefix(p, q)}

(* Nothing there has the kind and the name. *)
Make(s) ==
  /\ InDirectory
  /\ UNCHANGED here
  /\ Append(here, s) \notin DOMAIN tree
  /\ tree' = tree @@ (Append(here, s) :> Empty)

(* With all that is below. *)
Delete(s) ==
  /\ InDirectory
  /\ UNCHANGED here
  /\ Append(here, s) \in DOMAIN tree
  /\ tree' = Restrict(tree, DOMAIN tree \ Below(Append(here, s)))

Flag(s) ==
  /\ InDirectory
  /\ UNCHANGED here
  /\ Append(here, s) \in DOMAIN tree
  /\ \E f \in {"R", "HIDE"} :
       \/ tree' = [tree EXCEPT ![Append(here, s)].flags = @ \cup {f}]
       \/ tree' = [tree EXCEPT ![Append(here, s)].flags = @ \ {f}]

Enter(s) ==
  /\ InDirectory
  /\ here' = Append(here, s)
  /\ here' \in DOMAIN tree
  /\ UNCHANGED tree

Leave ==
  /\ here # RootPath
  /\ here' = Front(here)
  /\ UNCHANGED tree

MayWrite == "R" \notin tree[here].flags

Rewrite ==
  /\ ~InDirectory
  /\ UNCHANGED here
  /\ MayWrite
  /\ tree' = [tree EXCEPT ![here].text = <<>>]

(* When the disk is full the piece is lost, as a whole.                    *)
Extend(piece) ==
  /\ ~InDirectory
  /\ UNCHANGED here
  /\ MayWrite
  /\ tree' = [tree EXCEPT ![here].text = @ \o piece]

Format == tree' = (RootPath :> Empty) /\ here' = RootPath

(* A command may be refused, for what it asks or for want of room.         *)
Refuse == UNCHANGED vars

Next ==
  \/ Refuse
  \/ Leave \/ \E s \in Steps : Enter(s)
  \/ Rewrite \/ \E piece \in Chunks : Extend(piece)
  \/ \E s \in Steps : Make(s) \/ Delete(s) \/ Flag(s)
  \/ Format

Spec == Init /\ [][Next]_vars
=============================================================================

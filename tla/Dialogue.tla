------------------------------ MODULE Dialogue ------------------------------
(***************************************************************************)
(* What exam4/4/msgqueue.c promises: its two threads talk in turn.  One    *)
(* says a word and nothing more until the other has heard it; "end" is the *)
(* last word, and is answered.                                             *)
(***************************************************************************)
CONSTANTS Words, EndWord

VARIABLES
  turn,     \* "say", "hear" or "answer": what is to happen next; "over" at last
  spoken    \* the word said last

vars == <<turn, spoken>>

Init == turn = "say" /\ spoken = EndWord

Say ==
  /\ turn = "say"
  /\ spoken' \in Words
  /\ turn' = "hear"

(* The word heard is the word said. *)
Hear ==
  /\ turn = "hear"
  /\ turn' = IF spoken = EndWord THEN "answer" ELSE "say"
  /\ UNCHANGED spoken

Answer ==
  /\ turn = "answer"
  /\ turn' = "over"
  /\ UNCHANGED spoken

Next == Say \/ Hear \/ Answer

Spec == Init /\ [][Next]_vars
=============================================================================

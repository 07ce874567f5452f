------------------------------ MODULE TextEntry ------------------------------
(***************************************************************************)
(* exam5/File_System/main.cpp: how my_write takes what the user types,     *)
(* character by character, and hands it to do_write in blocks.             *)
(*                                                                         *)
(* tmp holds the character and a second one, the character that followed   *)
(* the last '#'; both are appended as one string, which has no end of its  *)
(* own once there is a second one.  What lies behind tmp is then appended  *)
(* too: Behind.                                                            *)
(***************************************************************************)
EXTENDS Naturals, Sequences

CONSTANTS
  VD_BLOCK_SIZE,   \* characters in a block
  Chars,           \* the characters that are typed, among them '#' and '&'
  Behind,          \* what may lie behind tmp
  MaxTyped         \* bound: characters typed

NoChar == "none"

ASSUME EntryAssumption ==
  /\ VD_BLOCK_SIZE \in Nat \ {0}
  /\ {"#", "&"} \subseteq Chars /\ NoChar \notin Chars
  /\ MaxTyped \in Nat

VARIABLES
  typed,     \* what the user has typed
  hash,      \* a '#' was read, and the next character was not
  tmp1,      \* the second character of tmp, NoChar for '\0'
  textTmp,   \* the text in the buffer
  len,       \* how long my_write takes it to be
  wrote,     \* what do_write was given
  entry      \* "reading", "done" or "overrun": textTmp is full

entryVars == <<typed, hash, tmp1, textTmp, len, wrote, entry>>

EntryInit ==
  /\ typed = <<>> /\ hash = FALSE /\ tmp1 = NoChar
  /\ textTmp = <<>> /\ len = 0 /\ wrote = <<>> /\ entry = "reading"

\* mutant: the block is written when it is more than full
FullLate == len > VD_BLOCK_SIZE

Full == len >= VD_BLOCK_SIZE

(* strcat(textTmp, tmp), after do_write has emptied a full buffer. *)
Append_tmp(c0, c1, behind) ==
  LET kept == IF Full THEN <<>> ELSE textTmp
      tmp  == IF c1 = NoChar THEN <<c0>> ELSE <<c0, c1>> \o behind
  IN  /\ wrote' = IF Full THEN wrote \o SubSeq(textTmp, 1, VD_BLOCK_SIZE) ELSE wrote
      /\ IF Len(kept \o tmp) > VD_BLOCK_SIZE
           THEN entry' = "overrun" /\ textTmp' = kept /\ UNCHANGED len
           ELSE /\ textTmp' = kept \o tmp
                /\ len' = (IF Full THEN len - VD_BLOCK_SIZE ELSE len) + 1
                /\ UNCHANGED entry

Types(c) == /\ entry = "reading" /\ Len(typed) < MaxTyped
            /\ typed' = Append(typed, c)

Hash ==
  /\ Types("#") /\ ~hash
  /\ hash' = TRUE
  /\ UNCHANGED <<tmp1, textTmp, len, wrote, entry>>

EndMark ==
  /\ Types("&") /\ hash
  /\ wrote' = wrote \o textTmp
  /\ entry' = "done"
  /\ UNCHANGED <<hash, tmp1, textTmp, len>>

NotTheMark(c) ==
  /\ Types(c) /\ hash /\ c # "&"
  /\ hash' = FALSE
  /\ tmp1' = c
  /\ \E behind \in Behind : Append_tmp("#", c, behind)

Other(c) ==
  /\ Types(c) /\ ~hash /\ c # "#"
  /\ \E behind \in Behind : Append_tmp(c, tmp1, behind)
  /\ UNCHANGED <<hash, tmp1>>

EntryNext == Hash \/ EndMark \/ \E c \in Chars : NotTheMark(c) \/ Other(c)

EntrySpec == EntryInit /\ [][EntryNext]_entryVars
-----------------------------------------------------------------------------
(* A text without '#' is written as it was typed, up to the mark, whatever *)
(* its length and however it falls into blocks; and the buffer holds it.   *)
TextWhole ==
  tmp1 = NoChar =>
    /\ entry # "overrun"
    /\ LET text == IF hash THEN SubSeq(typed, 1, Len(typed) - (IF entry = "done" THEN 2 ELSE 1))
                           ELSE typed
       IN  text = IF entry = "done" THEN wrote ELSE wrote \o textTmp

(* The text ends at the first '&' that follows an odd number of '#' in a   *)
(* row, and nowhere else: so "#&" ends it, as the comment on line 1120     *)
(* says, but not behind another '#', which takes the second one with it.   *)
HashesAt(i) == LET before == {k \in 0 .. i - 1 : k = 0 \/ typed[k] # "#"}
               IN  i - 1 - CHOOSE k \in before : \A m \in before : m <= k

MarksEnd(i) == typed[i] = "&" /\ HashesAt(i) % 2 = 1

EndsAtMark ==
  entry # "overrun" =>
    \A i \in DOMAIN typed : MarksEnd(i) <=> entry = "done" /\ i = Len(typed)

(* What was typed up to the mark is what is written.                       *)
EntryIsWritten == TextWhole /\ EndsAtMark
=============================================================================

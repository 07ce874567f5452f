--------------------------------- MODULE Fat ---------------------------------
(***************************************************************************)
(* The file allocation table of exam5/File_System/main.cpp: fat1[b] is the *)
(* block after b in its file, END in the last block, FREE in a free one.   *)
(* The operators take the table as an argument and return its next value.  *)
(* Entries below the root directory's are set to END when the disk is      *)
(* formatted and never looked at again; they are left out.                 *)
(***************************************************************************)
EXTENDS Integers, FiniteSetsExt

CONSTANT VD_BLOCK_NUM     \* number of blocks of the virtual disk (1024)

END  == 65535
FREE == 65534
BLOCK_INDEX_ROOT_DIR == 5

ASSUME BlockNumAssumption == VD_BLOCK_NUM \in 6 .. FREE

Block == BLOCK_INDEX_ROOT_DIR .. VD_BLOCK_NUM - 1
FatValue == 0 .. END      \* an unsigned short

(***************************************************************************)
(* The table my_format writes: the root directory's block ends its chain,  *)
(* every other block is free.                                              *)
(***************************************************************************)
FormattedFatSigned ==      \* mutant: -1 and -2, as the comment at struct FAT has it
  [b \in Block |-> IF b = BLOCK_INDEX_ROOT_DIR THEN -1 ELSE -2]

FormattedFat == [b \in Block |-> IF b = BLOCK_INDEX_ROOT_DIR THEN END ELSE FREE]

(***************************************************************************)
(* First fit.  The "== END" under the loop compares and assigns nothing,   *)
(* so the table is the caller's to update.                                 *)
(***************************************************************************)
getNextVhdBlockNotEnd(fat) ==      \* mutant: takes any block that does not end a chain
  LET free == {b \in Block : fat[b] # END}
  IN  IF free = {} THEN END ELSE Min(free)

getNextVhdBlockWeak(fat) ==      \* mutant: takes the last block of a chain as well
  LET free == {b \in Block : fat[b] \in {END, FREE}}
  IN  IF free = {} THEN END ELSE Min(free)

getNextVhdBlock(fat) ==
  LET free == {b \in Block : fat[b] = FREE}
  IN  IF free = {} THEN END ELSE Min(free)

(***************************************************************************)
(* The members of U reachable from x along the pairs of R: the least set   *)
(* that holds x and is closed under R.  Stated as an intersection, not by  *)
(* recursion, so that the least-set property is available to proofs.       *)
(***************************************************************************)
Reachable(x, R, U) ==
  {y \in U : \A S \in SUBSET U :
     x \in S /\ (\A p \in R : p[1] \in S => p[2] \in S) => y \in S}

(* The blocks a walk from b visits before it meets END. *)
FatChain(fat, b) ==
  Reachable(b, {<<c, fat[c]>> : c \in {c \in Block : fat[c] \in Block}}, Block)

(***************************************************************************)
(* The tail loop of do_write: from the last block written on, every link   *)
(* becomes END.                                                            *)
(***************************************************************************)
EndChainAt(fat, b) ==
  [c \in Block |-> IF c \in FatChain(fat, b) THEN END ELSE fat[c]]

(***************************************************************************)
(* The walks of n links from b; at most one, none if the chain is shorter. *)
(***************************************************************************)
Walks(fat, b, n) ==
  {w \in [0 .. n -> Block] :
     w[0] = b /\ \A k \in 0 .. n - 1 : fat[w[k]] = w[k + 1]}
==============================================================================

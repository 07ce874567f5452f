---------------------------- MODULE FileSystemInv ----------------------------
(***************************************************************************)
(* What FileSystem promises.  An entry is a place <<block, slot>> of an    *)
(* FCB in use in a directory that can be reached from the root.            *)
(***************************************************************************)
EXTENDS FileSystem

Root == BLOCK_INDEX_ROOT_DIR

At(e) == disk[e[1]][e[2]]

(* The blocks of the directories of the tree. *)
Dirs ==
  LET sub(b) == {s \in EntrySlot : /\ disk[b][s] \notin Texts
                                   /\ disk[b][s].use /\ judgeDir(disk[b][s])}
      edges  == UNION {{<<b, disk[b][s].s_block>> : s \in sub(b)} : b \in Block}
  IN  Reachable(Root, edges, Block)

Entries == UNION {{b} \X UsedSlots(disk[b]) : b \in Dirs}

DirEntries  == {e \in Entries : judgeDir(At(e))}
FileEntries == {e \in Entries : ~judgeDir(At(e))}

(* The blocks that belong to an entry. *)
BlocksOf(e) ==
  IF judgeDir(At(e)) THEN {At(e).s_block} ELSE FatChain(fat1, At(e).s_block)

Allocated == {b \in Block : fat1[b] # FREE}

(* Blocks in use that belong to nothing: no command can free them.         *)
Orphans == (Allocated \ {Root}) \ UNION {BlocksOf(e) : e \in Entries}

(* The text of the file of this FCB, as my_read prints it; nothing when it *)
(* gives up.                                                               *)
Content(fcb) ==
  LET W == Walks(fat1, fcb.s_block, fcb.len \div FCB_NUM)
      w == CHOOSE v \in W : TRUE
  IN  IF W = {} THEN <<>>
      ELSE [i \in 0 .. fcb.len - 1 |-> disk[w[i \div FCB_NUM]][i % FCB_NUM]]

(* The place on the disk that open entry i is a copy of.                   *)
PlaceOf(i) == <<oft[i].pdfBlockNo, oft[i].fdEntryNo>>

OpenIdx == {i \in OftIdx : oft[i].isUse}

(* The place of the open file, none when a directory is current.           *)
OpenFile == IF judgeDir(cur.fcb) THEN {} ELSE {PlaceOf(currOftIndex)}
-----------------------------------------------------------------------------
TypeOK ==
  /\ mode \in {"cmd", "text", "cd"}
  /\ fat1 \in [Block -> FatValue]
  /\ fat2 \in [Block -> FatValue]
  /\ disk \in [Block -> [Slot -> Cell]]
  /\ oft \in [OftIdx -> Oft]
  /\ currOftIndex \in OftIdx
  /\ cd \in Cd

(* Every command leaves the backup table equal to the table: each of the   *)
(* five places that change fat1 copies it, and do_write, which can give up *)
(* half way, has changed nothing of it when it does.                       *)
FatsAgree == fat2 = fat1

(* An open entry is an up-to-date copy of an FCB in use on the disk,       *)
(* although lengths are kept in both and changed in both by hand: what     *)
(* my_close writes back never undoes a change made on the disk.            *)
OftCoherent ==
  \A i \in OpenIdx : At(PlaceOf(i)) = oft[i].fcb /\ oft[i].fcb.use

(* The open entries are the path from the root to the current one: each    *)
(* has its parent open, where findParentOft looks for it, and the dirName  *)
(* that the prompt shows, and a failed my_cd returns to, is its path.      *)
ParentOpen ==
  /\ Cardinality(OpenIdx) = Len(cur.dirName)
  /\ \A i \in OpenIdx : Len(oft[i].dirName) <= Len(cur.dirName)
  /\ \A i \in OpenIdx \ {0} :
       LET p == findParentOft(i)
       IN  /\ p \in OpenIdx \ {i}
           /\ judgeDir(oft[p].fcb)
           /\ \E n \in Names : /\ Stored[n] = oft[i].fcb.name
                               /\ oft[i].dirName = Append(oft[p].dirName, n)

(* The length of a directory is the number of its entries: the unbounded   *)
(* search loops stop at its last entry, inside its block.                  *)
LenCountsEntries ==
  \A e \in DirEntries \cup {<<Root, 0>>} :
    At(e).len = Cardinality(UsedSlots(disk[At(e).s_block]))

(* Four loops look a name up, and they neither stop at the same place in   *)
(* their body nor agree on whether an unused slot can match.  They find    *)
(* the same entry all the same, and the fifth, my_ls, lists just these:    *)
(* the slots a recycled block still holds names in are never reached.      *)
SearchesAgree ==
  \A e \in DirEntries \cup {<<Root, 0>>}, n \in Names, isdir \in BOOLEAN :
    LET cells == disk[At(e).s_block]
        used  == FirstOf({s \in UsedSlots(cells) : fileNameMatch(cells[s], n, isdir)})
    IN  /\ findFileAtDir(cells, At(e).len, n, isdir) = used
        /\ getIndexOfFcb(cells, At(e).len, n, isdir) = used
        /\ isdir => IndexOfSubdir(cells, At(e).len, n) = used
        /\ Listed(cells, At(e).len, TRUE) = UsedSlots(cells)

(* A directory has one entry of a name and kind at most.                   *)
UniqueNames ==
  \A e, f \in Entries :
    (e[1] = f[1] /\ At(e).name = At(f).name /\ judgeDir(At(e)) = judgeDir(At(f))) => e = f

(* A directory is what its FCB says, and every search sees the same of it. *)
DirectoriesSound == LenCountsEntries /\ SearchesAgree /\ UniqueNames

(* No block belongs to two entries or to an entry and the root, and every  *)
(* block of an entry is allocated, its chain ended by END.                 *)
BlocksDisjoint ==
  /\ \A e, f \in Entries : e # f => BlocksOf(e) \cap BlocksOf(f) = {}
  /\ \A e \in Entries :
       /\ BlocksOf(e) \subseteq Allocated \ {Root}
       /\ \E b \in BlocksOf(e) : fat1[b] = END

(* my_read never gives up on a file ("无法读取内容") and do_write never     *)
(* runs off the chain ("读写指针异常"): the chain has the block that the     *)
(* length, and the position, lie in, even when that block is still empty.  *)
ChainCoversLength ==
  /\ \A e \in FileEntries :
       At(e).len >= 0 /\ Walks(fat1, At(e).s_block, At(e).len \div FCB_NUM) # {}
  /\ mode = "text" => BlockAt(fat1, cur.fcb.s_block, cur.filePtr \div FCB_NUM) # END

(* A failed my_cd typed in a directory ends where it was typed.            *)
CdReturns ==
  (mode = "cd" /\ cd.depth > 0 /\ cd.homeIsDir) =>
     /\ cd.depth = 1
     /\ cd.path = <<>> => cur.dirName = cd.home

(* Typed in a file it may fail a second time, and then not a third: the    *)
(* recursion of my_cd is at most two deep.                                 *)
CdDepth == cd.depth <= 2

(* A failed my_cd is undone: it lands where it began, and soon.            *)
CdLands == CdReturns /\ CdDepth

(* Blocks are lost by do_write only: after any other step, rm and rmdir of *)
(* a tree included, every block taken still belongs to an entry, or has    *)
(* been lost before.                                                       *)
OnlyWritingOrphans == [][mode # "text" => Orphans' \subseteq Orphans]_vars

(* No step changes what another file holds: where an entry stays, its text *)
(* stays, unless it is the open file's.                                    *)
OthersUntouched ==
  [][\A e \in FileEntries \ OpenFile :
       (e \in FileEntries' /\ At(e)'.s_block = At(e).s_block)
         => Content(At(e))' = Content(At(e))]_vars

(* While text is typed, the file only grows at its end: the part of it     *)
(* that is there stays, whatever chunk the disk runs out in.               *)
TextIsAppended ==
  [][mode = "text" =>
       LET old == Content(cur.fcb)
           new == Content(cur.fcb)'
       IN  /\ DOMAIN old \subseteq DOMAIN new
           /\ \A i \in DOMAIN old : new[i] = old[i]]_vars

(* my_cd comes to an end: neither the loop that closes entries down to the *)
(* root nor the calls of my_cd by itself go on for ever.                   *)
CdEnds == mode = "cd" ~> mode = "cmd"
-----------------------------------------------------------------------------
(* What the source's comments say and the code does not do.               *)

(* "Clear the blocks after it" (main.cpp:507): no block is taken and lost. *)
NoBlockLost == mode = "cmd" => Orphans = {}

(* "Open a data file in the current directory" (main.cpp:1142): whatever   *)
(* is opened lies in a directory.                                          *)
OpenedInDirectory ==
  \A i \in OpenIdx : \E p \in OpenIdx : /\ oft[p].fcb.s_block = oft[i].pdfBlockNo
                                        /\ judgeDir(oft[p].fcb)
=============================================================================

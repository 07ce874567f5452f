----------------------------- MODULE FileSystem -----------------------------
(***************************************************************************)
(* exam5/File_System/main.cpp: a FAT file system in one process, on a      *)
(* virtual disk held in memory.  The variables are the program's globals   *)
(* and the two tables at the front of the disk; an action is a command of  *)
(* the prompt that changes something, or one pass of the loops of my_cd    *)
(* and my_write.  What a command refuses changes nothing and has no action.*)
(*                                                                         *)
(* The disk is memory without types: a block is FCB_NUM cells of           *)
(* sizeof(fcb) bytes, and a cell holds either the bytes of an FCB or the   *)
(* user's text.  Lengths and read/write positions count cells.             *)
(***************************************************************************)
EXTENDS Fat, Sequences

CONSTANTS
  FCB_NUM,         \* VD_BLOCK_SIZE / sizeof(fcb): cells in a block (32)
  OFT_MAX_LEN,     \* entries of the open file table (10)
  DirNames,        \* the names the user gives directories
  FileNames,       \* the names the user gives files, extension included
  Stored,          \* what the 8 + 3 bytes of an FCB keep of a name
  Text,            \* the cells of text the user types
  Garbled,         \* a cell of text that a stray write went through
  Rests,           \* cells in my_write's buffer when the user ends the text
  CtrlArgs,        \* the control arguments the user gives my_ctrl
  CdPaths,         \* the arguments of my_cd, cut at the backslashes
  StrayBlock,      \* the block in which fat1[END] lies (128)
  OpenInsideFile   \* whether the user types my_open while a file is open

NOT_FOUND == -1
Slot   == 0 .. FCB_NUM - 1
OftIdx == 0 .. OFT_MAX_LEN - 1
Names  == DirNames \cup FileNames
Kept   == {Stored[n] : n \in Names} \cup {"", ".", ".."}
Component == Names \cup {"root", ".", ".."}
AttrFlag  == {"R", "HIDE", "ROOTDIR", "DIR", "DATA"}

Fcb == [name : Kept, attr : SUBSET AttrFlag, use : BOOLEAN,
        s_block : 0 .. VD_BLOCK_NUM - 1, len : Int]
Texts == Text \cup {Garbled}
Cell  == Fcb \cup Texts
Oft == [fcb : Fcb, filePtr : Int, isUpate : BOOLEAN,
        pdfBlockNo : 0 .. VD_BLOCK_NUM - 1, fdEntryNo : Slot,
        dirName : Seq(Component), isUse : BOOLEAN]
Cd == [path : Seq(Component), dirname : Seq(Component), depth : Nat,
       home : Seq(Component), homeIsDir : BOOLEAN]

ASSUME SizeAssumption ==
  /\ FCB_NUM \in Nat /\ FCB_NUM >= 3
  /\ OFT_MAX_LEN \in Nat \ {0}
ASSUME NameAssumption ==
  /\ Names \subseteq STRING \ {"", ".", ".."}
  /\ Stored \in [Names -> STRING \ {"", ".", ".."}]
  /\ CdPaths \subseteq Seq(Component)
ASSUME TextAssumption == Texts \cap Fcb = {}
ASSUME UseAssumption ==
  /\ Rests \subseteq 0 .. FCB_NUM
  /\ CtrlArgs \subseteq 0 .. 3
  /\ StrayBlock \in Nat
  /\ OpenInsideFile \in BOOLEAN

VARIABLES
  mode,          \* "cmd": at the prompt; "text": in my_write's loop; "cd": in my_cd's
  fat1, fat2,    \* the allocation table and its backup
  disk,          \* the blocks from the root directory's on
  oft,           \* OftList
  currOftIndex,  \* the open file or directory the commands apply to
  cd             \* locals of the running my_cd, and where it started

vars == <<mode, fat1, fat2, disk, oft, currOftIndex, cd>>
-----------------------------------------------------------------------------
(* File control blocks and cells. *)

BlankFcb == [name |-> "", attr |-> {}, use |-> FALSE, s_block |-> 0, len |-> 0]

initFcb(name, attr, block) ==
  [name |-> name, attr |-> attr, use |-> TRUE, s_block |-> block, len |-> 0]

judgeDir(fcb) == "DATA" \notin fcb.attr

(* Text in the byte where an FCB has "use" is not zero. *)
InUse(cell) == cell \in Texts \/ cell.use

fileNameMatch(cell, name, isdir) ==
  cell \notin Texts /\ cell.name = name /\ judgeDir(cell) = isdir

AddLen(cell, n) ==
  IF cell \in Texts THEN cell ELSE [cell EXCEPT !.len = @ + n]

LenOf(cell) == IF cell \in Texts THEN 0 ELSE cell.len

(* use = FALSE: the other bytes stay what they were. *)
MarkUnused(cell) ==
  IF cell \in Texts THEN BlankFcb ELSE [cell EXCEPT !.use = FALSE]

(***************************************************************************)
(* Directories.  The search loops count the entries they expect, one more  *)
(* for each unused slot they pass: slot s is visited when fewer than len   *)
(* used slots precede it.                                                  *)
(***************************************************************************)
EntrySlot == 2 .. FCB_NUM - 1

UsedSlots(cells) == {s \in EntrySlot : InUse(cells[s])}

ScannedTooFar(cells, len) ==      \* mutant: one entry too many
  {s \in EntrySlot : Cardinality({r \in UsedSlots(cells) : r < s}) <= len}

Scanned(cells, len) ==
  {s \in EntrySlot : Cardinality({r \in UsedSlots(cells) : r < s}) < len}

FirstOf(S) == IF S = {} THEN NOT_FOUND ELSE Min(S)

getNextFcb(cells) == FirstOf(EntrySlot \ UsedSlots(cells))

(* The loop of createfile and findFileAtDir: it compares before it looks   *)
(* at "use".                                                               *)
findFileAtDir(cells, len, name, isdir) ==
  FirstOf({s \in Scanned(cells, len) : fileNameMatch(cells[s], name, isdir)})

(* The loop of my_open and my_ctrl: it passes over unused slots first.     *)
getIndexOfFcb(cells, len, name, isdir) ==
  FirstOf({s \in Scanned(cells, len) :
             InUse(cells[s]) /\ fileNameMatch(cells[s], name, isdir)})

(* The loop of open_curpath, which starts at "." and "..".                 *)
IndexOfSubdir(cells, len, name) ==
  FirstOf({s \in {0, 1} \cup Scanned(cells, len) :
             InUse(cells[s]) /\ fileNameMatch(cells[s], name, TRUE)})

(* The entries my_ls shows; it changes nothing, a directory's position     *)
(* being 0 already.                                                        *)
Listed(cells, len, isall) ==
  {s \in Scanned(cells, len) : /\ cells[s] \notin Texts /\ cells[s].use
                               /\ "HIDE" \notin cells[s].attr \/ isall}
-----------------------------------------------------------------------------
(* The open file table. *)

BlankOft == [fcb |-> BlankFcb, filePtr |-> 0, isUpate |-> FALSE, pdfBlockNo |-> 0,
             fdEntryNo |-> 0, dirName |-> <<>>, isUse |-> FALSE]

cur == oft[currOftIndex]

(* The block of the current entry.  No FCB in use leads to the tables in   *)
(* the blocks below the root's; were one to, it would find them empty.     *)
curDir == IF cur.fcb.s_block \in Block THEN disk[cur.fcb.s_block]
          ELSE [s \in Slot |-> BlankFcb]

getNextOft == FirstOf({i \in OftIdx : ~oft[i].isUse})

findParentOft(i) == FirstOf({j \in OftIdx : oft[j].fcb.s_block = oft[i].pdfBlockNo})

OpenedUnnamed(s, name) ==      \* mutant: the name is not appended to the path
  [fcb |-> curDir[s], filePtr |-> 0, isUpate |-> FALSE,
   pdfBlockNo |-> cur.fcb.s_block, fdEntryNo |-> s,
   dirName |-> cur.dirName, isUse |-> TRUE]

(* The table entry of slot s of the current directory, opened as name.     *)
OpenedEntry(s, name) ==
  [fcb |-> curDir[s], filePtr |-> 0, isUpate |-> FALSE,
   pdfBlockNo |-> cur.fcb.s_block, fdEntryNo |-> s,
   dirName |-> Append(cur.dirName, name), isUse |-> TRUE]

(***************************************************************************)
(* my_close: an updated file's FCB goes back to its parent's block.  The   *)
(* parent must be open: when it is not, my_close does nothing and          *)
(* currOftIndex may become -1.  ParentOpen says that it always is.         *)
(***************************************************************************)
my_close ==
  LET parent == findParentOft(currOftIndex)
  IN  /\ parent # NOT_FOUND
      /\ disk' = IF cur.isUpate
                 THEN [disk EXCEPT ![oft[parent].fcb.s_block][cur.fdEntryNo] = cur.fcb]
                 ELSE disk
      /\ oft' = [oft EXCEPT ![currOftIndex] = BlankOft]
      /\ currOftIndex' = parent
-----------------------------------------------------------------------------
(* Creating. *)

(***************************************************************************)
(* The disk after initFileFCB.  A new directory's block gets "." and "..", *)
(* and its other slots are marked unused, whatever they hold.  The code    *)
(* also adds to the length in the "." of the parent: that is the length of *)
(* the root when the parent is the root, and is never read otherwise.      *)
(***************************************************************************)
initFileFCB(d, parent, slot, block, name, isdir) ==
  LET attr   == IF ~isdir THEN {"DATA"}
                ELSE IF block = parent THEN {"ROOTDIR"} ELSE {"DIR"}
      entry  == [d EXCEPT ![parent][slot] = initFcb(name, attr, block)]
      counted == IF parent = BLOCK_INDEX_ROOT_DIR
                 THEN [entry EXCEPT ![parent][0] = AddLen(@, 1)] ELSE entry
  IN  IF ~isdir THEN counted
      ELSE [counted EXCEPT ![block] =
              [s \in Slot |-> CASE s = 0 -> initFcb(".", attr, block)
                                [] s = 1 -> initFcb("..", attr, parent)
                                [] OTHER -> MarkUnused(@[s])]]

AddToOpenOnly(d, f, n) == d      \* mutant: the length on the disk is forgotten

(* The directory's length in the FCB that its parent keeps of it.          *)
AddToEntry(d, f, n) == [d EXCEPT ![f.pdfBlockNo][f.fdEntryNo] = AddLen(@, n)]

createfile(name, isdir) ==
  LET slot  == getNextFcb(curDir)
      block == getNextVhdBlock(fat1)
      made  == initFileFCB(disk, cur.fcb.s_block, slot, block, Stored[name], isdir)
  IN  /\ mode = "cmd"
      /\ judgeDir(cur.fcb)
      /\ findFileAtDir(curDir, cur.fcb.len, name, isdir) = NOT_FOUND
      /\ slot # NOT_FOUND
      /\ block # END
      /\ fat1' = [fat1 EXCEPT ![block] = END]
      /\ fat2' = fat1'
      /\ disk' = IF cur.pdfBlockNo # cur.fcb.s_block THEN AddToEntry(made, cur, 1) ELSE made
      /\ oft' = [oft EXCEPT ![currOftIndex].fcb.len = @ + 1, ![currOftIndex].filePtr = 0]
      /\ UNCHANGED <<mode, currOftIndex, cd>>
-----------------------------------------------------------------------------
(* Deleting. *)

(* The FCBs met in directory p[1] when it is scanned by the length p[2].   *)
Children(p) ==
  {disk[p[1]][s] : s \in Scanned(disk[p[1]], p[2]) \cap UsedSlots(disk[p[1]])} \ Texts

(***************************************************************************)
(* The directories deleteDirAtFat descends into from fcb, each with the    *)
(* length it is scanned by.                                                *)
(***************************************************************************)
Subtree(fcb) ==
  LET key(f)  == <<f.s_block, f.len>>
      subs(S) == {key(f) : f \in {g \in S : judgeDir(g) /\ g.s_block \in Block}}
      dirs    == subs({disk[b][s] : b \in Block, s \in Slot} \ Texts)
  IN  Reachable(key(fcb), UNION {{p} \X subs(Children(p)) : p \in dirs}, dirs)

(* The data files that go with fcb: those deleteFileAtFat is called for.   *)
FilesOf(fcb) ==
  IF judgeDir(fcb)
  THEN {f \in UNION {Children(p) : p \in Subtree(fcb)} : ~judgeDir(f)}
  ELSE {fcb}

FreedFirst(fcb) ==      \* mutant: the chains are not followed
  {f.s_block : f \in FilesOf(fcb)}
    \cup (IF judgeDir(fcb) THEN {p[1] : p \in Subtree(fcb)} ELSE {})

FreedBlocks(fcb) ==
  (UNION {FatChain(fat1, f.s_block) : f \in FilesOf(fcb)})
    \cup (IF judgeDir(fcb) THEN {p[1] : p \in Subtree(fcb)} ELSE {})

(***************************************************************************)
(* deleteFileAtFat also stores FREE at fat1[END], past the table: the last *)
(* two bytes of StrayBlock, which are text or the high half of a length    *)
(* (in bytes; in cells, what is above 2048).                               *)
(***************************************************************************)
WithLastBytesFree(cell) ==
  IF cell \in Texts THEN Garbled ELSE [cell EXCEPT !.len = (@ % 2048) + FREE * 2048]

StrayFree(d) ==
  IF StrayBlock \notin Block THEN d
  ELSE [d EXCEPT ![StrayBlock][FCB_NUM - 1] = WithLastBytesFree(@)]

deleteFile(name, isdir) ==
  LET slot    == findFileAtDir(curDir, cur.fcb.len, name, isdir)
      target  == curDir[slot]
      blanked(d) == [d EXCEPT ![cur.fcb.s_block][slot] = BlankFcb]
  IN  /\ mode = "cmd"
      /\ judgeDir(cur.fcb)
      /\ slot # NOT_FOUND
      /\ fat1' = [b \in Block |-> IF b \in FreedBlocks(target) THEN FREE ELSE fat1[b]]
      /\ fat2' = fat1'
      /\ disk' = AddToEntry(blanked(IF FilesOf(target) = {} THEN disk ELSE StrayFree(disk)),
                            cur, -1)
      /\ oft' = [oft EXCEPT ![currOftIndex].fcb.len = @ - 1, ![currOftIndex].filePtr = 0]
      /\ UNCHANGED <<mode, currOftIndex, cd>>

(* my_read rewinds the file; so does a my_rm or my_rmdir that is refused   *)
(* because a file is open.                                                 *)
Rewind ==
  /\ mode = "cmd"
  /\ ~judgeDir(cur.fcb)
  /\ oft' = [oft EXCEPT ![currOftIndex].filePtr = 0]
  /\ UNCHANGED <<mode, fat1, fat2, disk, currOftIndex, cd>>
-----------------------------------------------------------------------------
(* Attributes, opening, closing, formatting. *)

(* A name typed without extension is a directory's and can only be hidden. *)
my_ctrl(name, isdir, i) ==
  LET slot == getIndexOfFcb(curDir, cur.fcb.len, name, isdir)
      new(attr) == CASE i = 0 -> attr \ {"R"}
                     [] i = 1 -> attr \cup {"R"}
                     [] i = 2 -> attr \cup {"HIDE"}
                     [] i = 3 -> attr \ {"HIDE"}
  IN  /\ mode = "cmd"
      /\ judgeDir(cur.fcb)
      /\ isdir => i = 2
      /\ slot # NOT_FOUND
      /\ disk' = [disk EXCEPT ![cur.fcb.s_block][slot].attr = new(@)]
      /\ UNCHANGED <<mode, fat1, fat2, oft, currOftIndex, cd>>

(* my_open does not ask whether the current entry is a directory.          *)
my_open(name) ==
  LET slot == getIndexOfFcb(curDir, cur.fcb.len, name, FALSE)
  IN  /\ mode = "cmd"
      /\ judgeDir(cur.fcb) \/ OpenInsideFile
      /\ slot # NOT_FOUND
      /\ getNextOft # NOT_FOUND
      /\ oft' = [oft EXCEPT ![getNextOft] = OpenedEntry(slot, name)]
      /\ currOftIndex' = getNextOft
      /\ UNCHANGED <<mode, fat1, fat2, disk, cd>>

Close ==
  /\ mode = "cmd"
  /\ ~judgeDir(cur.fcb)
  /\ my_close
  /\ UNCHANGED <<mode, fat1, fat2, cd>>

rootEmpty(d) ==      \* mutant: the root's length is not read from the disk
  [fcb |-> [d[BLOCK_INDEX_ROOT_DIR][0] EXCEPT !.len = 0], filePtr |-> 0,
   isUpate |-> FALSE, pdfBlockNo |-> BLOCK_INDEX_ROOT_DIR, fdEntryNo |-> 0,
   dirName |-> <<"root">>, isUse |-> TRUE]

(* The table entry of the root, which both my_format and initsys make.     *)
RootOft(d) ==
  [fcb |-> d[BLOCK_INDEX_ROOT_DIR][0], filePtr |-> 0, isUpate |-> FALSE,
   pdfBlockNo |-> BLOCK_INDEX_ROOT_DIR, fdEntryNo |-> 0,
   dirName |-> <<"root">>, isUse |-> TRUE]

OnlyRootOpen(d) == [i \in OftIdx |-> IF i = 0 THEN RootOft(d) ELSE BlankOft]

(* The FCB of the root that initFileFCB writes first, in slot 0, is        *)
(* overwritten by the root's own ".".                                      *)
FormattedDisk(d) ==
  initFileFCB(d, BLOCK_INDEX_ROOT_DIR, 0, BLOCK_INDEX_ROOT_DIR, "", TRUE)

formatOneFat ==      \* mutant: the backup is not made
  /\ mode = "cmd"
  /\ fat1' = FormattedFat
  /\ disk' = FormattedDisk(disk)
  /\ oft' = OnlyRootOpen(disk')
  /\ currOftIndex' = 0
  /\ UNCHANGED <<mode, fat2, cd>>

my_format ==
  /\ mode = "cmd"
  /\ fat1' = FormattedFat
  /\ fat2' = fat1'
  /\ disk' = FormattedDisk(disk)
  /\ oft' = OnlyRootOpen(disk')
  /\ currOftIndex' = 0
  /\ UNCHANGED <<mode, cd>>
-----------------------------------------------------------------------------
(* Writing. *)

appendPastEnd(rewrite) ==      \* mutant: appends one cell too far
  /\ oft' = [oft EXCEPT ![currOftIndex].filePtr = IF rewrite THEN 0 ELSE cur.fcb.len + 1,
                        ![currOftIndex].fcb.len = IF rewrite THEN 0 ELSE @]
  /\ disk' = IF rewrite
             THEN [disk EXCEPT ![cur.pdfBlockNo][cur.fdEntryNo] = AddLen(@, -LenOf(@))]
             ELSE disk

appendInPlace(rewrite) ==      \* mutant: appends wherever the file was left
  /\ oft' = [oft EXCEPT ![currOftIndex].filePtr = IF rewrite THEN 0 ELSE @,
                        ![currOftIndex].fcb.len = IF rewrite THEN 0 ELSE @]
  /\ disk' = IF rewrite
             THEN [disk EXCEPT ![cur.pdfBlockNo][cur.fdEntryNo] = AddLen(@, -LenOf(@))]
             ELSE disk

(* writePreProcess, for the two ways to write: rewrite and append.         *)
writePreProcess(rewrite) ==
  /\ oft' = [oft EXCEPT ![currOftIndex].filePtr = IF rewrite THEN 0 ELSE cur.fcb.len,
                        ![currOftIndex].fcb.len = IF rewrite THEN 0 ELSE @]
  /\ disk' = IF rewrite
             THEN [disk EXCEPT ![cur.pdfBlockNo][cur.fdEntryNo] = AddLen(@, -LenOf(@))]
             ELSE disk

writeAny(rewrite) ==      \* mutant: the read-only flag is not looked at
  /\ mode = "cmd"
  /\ ~judgeDir(cur.fcb)
  /\ writePreProcess(rewrite)
  /\ mode' = "text"
  /\ UNCHANGED <<fat1, fat2, currOftIndex, cd>>

my_write(rewrite) ==
  /\ mode = "cmd"
  /\ ~judgeDir(cur.fcb)
  /\ "R" \notin cur.fcb.attr
  /\ writePreProcess(rewrite)
  /\ mode' = "text"
  /\ UNCHANGED <<fat1, fat2, currOftIndex, cd>>

(* The block n links after b; END when the chain is shorter.               *)
BlockAt(fat, b, n) ==
  LET W == Walks(fat, b, n) IN IF W = {} THEN END ELSE (CHOOSE w \in W : TRUE)[n]

(* Cells lo to hi of block b become t. *)
PutCells(d, b, lo, hi, t) ==
  [d EXCEPT ![b] = [s \in Slot |-> IF s \in lo .. hi THEN t ELSE @[s]]]

(***************************************************************************)
(* do_write puts n <= FCB_NUM cells of text t at the file's position.  It  *)
(* goes on to the next block as soon as one is full, and takes a new one   *)
(* from the table if there is none; a call crosses into at most one block. *)
(* Then it cuts the chain after the last block it came to.                 *)
(* When no block is left it returns with a part of the text on the disk    *)
(* and everything else as it was, and nobody looks at what it returns.     *)
(***************************************************************************)
do_write(t, n) ==
  LET first   == BlockAt(fat1, cur.fcb.s_block, cur.filePtr \div FCB_NUM)
      offset  == cur.filePtr % FCB_NUM
      crosses == offset + n >= FCB_NUM
      grows   == crosses /\ fat1[first] = END
      last    == IF ~crosses THEN first
                 ELSE IF grows THEN getNextVhdBlock(fat1) ELSE fat1[first]
      head    == PutCells(disk, first, offset, offset + n - 1, t)
      linked  == IF grows THEN [fat1 EXCEPT ![first] = last, ![last] = END] ELSE fat1
  IN  CASE first = END ->
             [ok |-> FALSE, fat1 |-> fat1, fat2 |-> fat2, disk |-> disk, file |-> cur]
        [] first # END /\ last = END ->
             [ok |-> FALSE, fat1 |-> fat1, fat2 |-> fat2, disk |-> head, file |-> cur]
        [] first # END /\ last # END ->
             [ok |-> TRUE,
              fat1 |-> EndChainAt(linked, last),
              fat2 |-> EndChainAt(linked, last),
              disk |-> AddToEntry(IF crosses THEN PutCells(head, last, 0, offset + n - FCB_NUM - 1, t)
                                  ELSE head,
                                  cur, n),
              file |-> [cur EXCEPT !.filePtr = @ + n, !.fcb.len = @ + n]]

(* A full buffer, while the user types on. *)
WriteBuffer(t) ==
  LET w == do_write(t, FCB_NUM)
  IN  /\ mode = "text"
      /\ fat1' = w.fat1
      /\ fat2' = w.fat2
      /\ disk' = w.disk
      /\ oft' = [oft EXCEPT ![currOftIndex] = w.file]
      /\ UNCHANGED <<mode, currOftIndex, cd>>

(* The rest of the buffer, after the user has typed the end mark.          *)
WriteRest(t, n) ==
  LET w == do_write(t, n)
  IN  /\ mode = "text"
      /\ fat1' = w.fat1
      /\ fat2' = w.fat2
      /\ disk' = w.disk
      /\ oft' = [oft EXCEPT ![currOftIndex] = [w.file EXCEPT !.isUpate = TRUE]]
      /\ mode' = "cmd"
      /\ UNCHANGED <<currOftIndex, cd>>
-----------------------------------------------------------------------------
(* Changing directory. *)

NoCd == [path |-> <<>>, dirname |-> <<>>, depth |-> 0, home |-> <<>>, homeIsDir |-> FALSE]

my_cd(pathname) ==
  /\ mode = "cmd"
  /\ mode' = "cd"
  /\ cd' = [path |-> pathname, dirname |-> cur.dirName, depth |-> 0,
            home |-> cur.dirName, homeIsDir |-> judgeDir(cur.fcb)]
  /\ UNCHANGED <<fat1, fat2, disk, oft, currOftIndex>>

(* my_cd at the component c of its path: the step is A, then the next one. *)
AtComponent(c) == mode = "cd" /\ cd.path # <<>> /\ Head(cd.path) = c
SameComponent == UNCHANGED cd      \* mutant: strtok is not called again
NextComponent == cd' = [cd EXCEPT !.path = Tail(@)]

(* "root" closes entries until only the root is open, then is ".".         *)
CdCloseToRoot ==
  /\ AtComponent("root")
  /\ currOftIndex # 0
  /\ my_close
  /\ UNCHANGED <<mode, fat1, fat2, cd>>

(* What open_curpath is called with. *)
dirname == IF Head(cd.path) = "root" THEN "." ELSE Head(cd.path)

(* open_curpath is called, in a directory. *)
InDir ==
  /\ mode = "cd"
  /\ cd.path # <<>>
  /\ Head(cd.path) = "root" => currOftIndex = 0
  /\ judgeDir(cur.fcb)

Subdir == IndexOfSubdir(curDir, cur.fcb.len, dirname)
SubdirName == IF Subdir = NOT_FOUND THEN "" ELSE curDir[Subdir].name

(* "." anywhere and ".." in the root: nothing to do. *)
CdStay ==
  /\ InDir
  /\ SubdirName = "." \/ (SubdirName = ".." /\ currOftIndex = 0)
  /\ NextComponent
  /\ UNCHANGED <<mode, fat1, fat2, disk, oft, currOftIndex>>

CdUp ==
  /\ InDir
  /\ SubdirName = ".."
  /\ currOftIndex # 0
  /\ my_close
  /\ NextComponent
  /\ UNCHANGED <<mode, fat1, fat2>>

CdDown ==
  /\ InDir
  /\ SubdirName \notin {"", ".", ".."}
  /\ getNextOft # NOT_FOUND
  /\ oft' = [oft EXCEPT ![getNextOft] = OpenedEntry(Subdir, dirname)]
  /\ currOftIndex' = getNextOft
  /\ NextComponent
  /\ UNCHANGED <<mode, fat1, fat2, disk>>

retryHere ==      \* mutant: restores the directory the path failed in
  /\ InDir
  /\ SubdirName = "" \/ (SubdirName \notin {".", ".."} /\ getNextOft = NOT_FOUND)
  /\ cd' = [cd EXCEPT !.path = cur.dirName, !.dirname = cur.dirName, !.depth = @ + 1]
  /\ UNCHANGED <<mode, fat1, fat2, disk, oft, currOftIndex>>

(* No such directory, or the table is full: my_cd calls itself with the    *)
(* name of the entry it was called in.                                     *)
CdRetry ==
  /\ InDir
  /\ SubdirName = "" \/ (SubdirName \notin {".", ".."} /\ getNextOft = NOT_FOUND)
  /\ cd' = [cd EXCEPT !.path = cd.dirname, !.dirname = cur.dirName, !.depth = @ + 1]
  /\ UNCHANGED <<mode, fat1, fat2, disk, oft, currOftIndex>>

(* The path is used up, or a data file is open: back to the prompt.        *)
CdEnd ==
  /\ mode = "cd"
  /\ \/ cd.path = <<>>
     \/ cd.path # <<>> /\ Head(cd.path) # "root" /\ ~judgeDir(cur.fcb)
  /\ mode' = "cmd"
  /\ cd' = NoCd
  /\ UNCHANGED <<fat1, fat2, disk, oft, currOftIndex>>

CdStep == CdCloseToRoot \/ CdStay \/ CdUp \/ CdDown \/ CdRetry \/ CdEnd
-----------------------------------------------------------------------------
(***************************************************************************)
(* initsys on a machine without an image: memory fresh from malloc, which  *)
(* for a block of this size is zero, and my_format.                        *)
(***************************************************************************)
Init ==
  /\ mode = "cmd"
  /\ fat1 = FormattedFat
  /\ fat2 = FormattedFat
  /\ disk = FormattedDisk([b \in Block |-> [s \in Slot |-> BlankFcb]])
  /\ oft = OnlyRootOpen(disk)
  /\ currOftIndex = 0
  /\ cd = NoCd

Create ==
  \/ \E n \in DirNames : createfile(n, TRUE)
  \/ \E n \in FileNames : createfile(n, FALSE)

Delete ==
  \/ \E n \in DirNames : deleteFile(n, TRUE)
  \/ \E n \in FileNames : deleteFile(n, FALSE)

Ctrl ==
  \E i \in CtrlArgs :
    \/ \E n \in DirNames : my_ctrl(n, TRUE, i)
    \/ \E n \in FileNames : my_ctrl(n, FALSE, i)

Open   == \E n \in FileNames : my_open(n)
Write  == \E rewrite \in BOOLEAN : my_write(rewrite)
Buffer == \E t \in Text : WriteBuffer(t)
Rest   == \E t \in Text, n \in Rests : WriteRest(t, n)
ChangeDir == \E p \in CdPaths : my_cd(p)

Next ==
  \/ Create \/ Delete \/ Ctrl \/ Open \/ Close \/ Rewind \/ my_format
  \/ Write \/ Buffer \/ Rest
  \/ ChangeDir \/ CdStep

Spec == Init /\ [][Next]_vars

(* A running command goes on to its end; the user may type nothing.        *)
FairSpec == Spec /\ WF_vars(CdStep)
=============================================================================

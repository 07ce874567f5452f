-------------------------- MODULE FileSystemProofs --------------------------
(* Theorems about FileSystem, for every disk, table, and set of names.     *)
EXTENDS FileSystemInv, WellFoundedInduction, TLAPS

(* A set of numbers that is not empty has its least element.               *)
LEMMA MinInSet ==
  ASSUME NEW S \in SUBSET Nat, S # {}
  PROVE  Min(S) \in S /\ \A y \in S : Min(S) =< y
<1> DEFINE Less == OpToRel(<, Nat)
<1>1. ASSUME NEW x \in Nat, NEW y \in Nat, y < x PROVE <<y, x>> \in Less
  BY <1>1, SMT DEF OpToRel
<1>2. \E x \in S : \A y \in S : <<y, x>> \notin Less
  BY NatLessThanWellFounded, WFMin, Zenon
<1> HIDE DEF Less
<1>3. PICK x \in S : \A y \in S : <<y, x>> \notin Less
  BY <1>2
<1>4. ASSUME NEW y \in S, y < x PROVE FALSE
  <2>1. x \in Nat /\ y \in Nat
    OBVIOUS
  <2>2. <<y, x>> \in Less
    BY <1>1, <1>4, <2>1, Zenon
  <2> QED
    BY <1>3, <2>2, Zenon
<1>5. \A y \in S : x =< y
  BY <1>4
<1> QED
  BY <1>5 DEF Min

(* What the search loops return is a place they looked at, or NOT_FOUND.   *)
LEMMA FirstOfInSet ==
  ASSUME NEW S \in SUBSET Nat, FirstOf(S) # NOT_FOUND
  PROVE  FirstOf(S) \in S /\ \A y \in S : FirstOf(S) =< y
BY MinInSet DEF FirstOf

LEMMA FirstOfNone ==
  ASSUME NEW S \in SUBSET Nat, FirstOf(S) = NOT_FOUND
  PROVE  S = {}
BY MinInSet DEF FirstOf, NOT_FOUND

(* The number of blocks, without the interval it is taken from.            *)
LEMMA BlockNum == VD_BLOCK_NUM \in Int /\ 6 <= VD_BLOCK_NUM /\ VD_BLOCK_NUM <= 65534
<1>1. FREE \in Int
  BY DEF FREE
<1>2. VD_BLOCK_NUM \in Int /\ 6 <= VD_BLOCK_NUM /\ VD_BLOCK_NUM <= FREE
  BY <1>1, BlockNumAssumption
<1> QED
  BY <1>2 DEF FREE

LEMMA BlockIsNumber == Block \subseteq Nat
BY BlockNum DEF Block, BLOCK_INDEX_ROOT_DIR

(* The first free block is a block, and it is free. *)
LEMMA NextBlockIsFree ==
  ASSUME NEW fat, getNextVhdBlock(fat) # END
  PROVE  /\ getNextVhdBlock(fat) \in Block
         /\ fat[getNextVhdBlock(fat)] = FREE
<1> DEFINE free == {b \in Block : fat[b] = FREE}
<1>1. free \in SUBSET Nat
  BY BlockIsNumber
<1>2. free # {}
  BY DEF getNextVhdBlock
<1>3. Min(free) \in free
  BY <1>1, <1>2, MinInSet
<1> QED
  BY <1>2, <1>3 DEF getNextVhdBlock
-----------------------------------------------------------------------------
(* The types of the operators that the actions are made of.                *)

Memory == [Block -> [Slot -> Cell]]

LEMMA BlankTypes ==
  /\ BlankFcb \in Fcb
  /\ BlankOft \in Oft
  /\ NoCd \in Cd
<1>1. 0 \in 0 .. VD_BLOCK_NUM - 1 /\ 0 \in Slot
  BY BlockNum, SizeAssumption DEF Slot
<1>2. BlankFcb \in Fcb
  BY <1>1 DEF BlankFcb, Fcb, Kept
<1>3. <<>> \in Seq(Component)
  OBVIOUS
<1> QED
  BY <1>1, <1>2, <1>3 DEF BlankOft, Oft, NoCd, Cd

LEMMA FcbOps ==
  ASSUME NEW c \in Fcb, NEW n \in Int
  PROVE  /\ [c EXCEPT !.len = @ + n] \in Fcb
         /\ [c EXCEPT !.use = FALSE] \in Fcb
         /\ c.len \in Int
<1>1. [c EXCEPT !.len = @ + n] \in Fcb
  BY DEF Fcb
<1>2. [c EXCEPT !.use = FALSE] \in Fcb
  BY DEF Fcb
<1> QED
  BY <1>1, <1>2 DEF Fcb

LEMMA CellOps ==
  ASSUME NEW c \in Cell, NEW n \in Int
  PROVE  /\ AddLen(c, n) \in Cell
         /\ MarkUnused(c) \in Cell
         /\ LenOf(c) \in Int
<1>1. CASE c \in Texts
  BY <1>1, BlankTypes DEF AddLen, MarkUnused, LenOf, Cell
<1>2. CASE c \notin Texts
  <2>1. c \in Fcb
    BY <1>2 DEF Cell
  <2> QED
    BY <1>2, <2>1, FcbOps DEF AddLen, MarkUnused, LenOf, Cell
<1> QED
  BY <1>1, <1>2

LEMMA InitFcbType ==
  ASSUME NEW name \in Kept, NEW attr \in SUBSET AttrFlag, NEW b \in 0 .. VD_BLOCK_NUM - 1
  PROVE  initFcb(name, attr, b) \in Fcb
BY DEF initFcb, Fcb

LEMMA BlockInRange == Block \subseteq 0 .. VD_BLOCK_NUM - 1 /\ BLOCK_INDEX_ROOT_DIR \in Block
BY BlockNum DEF Block, BLOCK_INDEX_ROOT_DIR

LEMMA BlockIsFatValue == Block \subseteq FatValue /\ END \in FatValue /\ FREE \in FatValue
<1>1. ASSUME NEW b \in Block PROVE b \in FatValue
  <2>1. VD_BLOCK_NUM \in Int /\ VD_BLOCK_NUM <= 65534
    BY BlockNum
  <2>2. b \in Int /\ 5 <= b /\ b <= VD_BLOCK_NUM - 1
    BY <2>1 DEF Block, BLOCK_INDEX_ROOT_DIR
  <2>3. 0 <= b /\ b <= END /\ END \in Int
    BY <2>1, <2>2 DEF END
  <2> QED
    BY <2>2, <2>3 DEF FatValue
<1>2. END \in FatValue /\ FREE \in FatValue
  BY DEF FatValue, END, FREE
<1> QED
  BY <1>1, <1>2

(* A store into one cell. *)
LEMMA StoreType ==
  ASSUME NEW d \in Memory, NEW b, NEW s, NEW c \in Cell
  PROVE  [d EXCEPT ![b][s] = c] \in Memory
BY DEF Memory

LEMMA AddToEntryType ==
  ASSUME NEW d \in Memory, NEW f, NEW n \in Int
  PROVE  AddToEntry(d, f, n) \in Memory
<1>1. CASE f.pdfBlockNo \in Block /\ f.fdEntryNo \in Slot
  <2>1. AddLen(d[f.pdfBlockNo][f.fdEntryNo], n) \in Cell
    BY <1>1, CellOps DEF Memory
  <2> QED
    BY <2>1, StoreType DEF AddToEntry
<1>2. CASE f.pdfBlockNo \notin Block
  BY <1>2 DEF AddToEntry, Memory
<1>3. CASE f.pdfBlockNo \in Block /\ f.fdEntryNo \notin Slot
  BY <1>3 DEF AddToEntry, Memory
<1> QED
  BY <1>1, <1>2, <1>3

LEMMA InitFileType ==
  ASSUME NEW d \in Memory, NEW parent \in 0 .. VD_BLOCK_NUM - 1, NEW slot,
         NEW block \in Block, NEW name \in Kept, NEW isdir \in BOOLEAN
  PROVE  initFileFCB(d, parent, slot, block, name, isdir) \in Memory
<1> DEFINE attr  == IF ~isdir THEN {"DATA"}
                    ELSE IF block = parent THEN {"ROOTDIR"} ELSE {"DIR"}
           entry == [d EXCEPT ![parent][slot] = initFcb(name, attr, block)]
           counted == IF parent = BLOCK_INDEX_ROOT_DIR
                      THEN [entry EXCEPT ![parent][0] = AddLen(@, 1)] ELSE entry
           cells == [s \in Slot |-> CASE s = 0 -> initFcb(".", attr, block)
                                      [] s = 1 -> initFcb("..", attr, parent)
                                      [] OTHER -> MarkUnused(counted[block][s])]
<1>1. attr \in SUBSET AttrFlag /\ block \in 0 .. VD_BLOCK_NUM - 1
  BY BlockInRange DEF AttrFlag
<1> HIDE DEF attr
<1>2. initFcb(name, attr, block) \in Cell
  BY <1>1, InitFcbType DEF Cell
<1>3. entry \in Memory
  BY <1>2, StoreType
<1> HIDE DEF entry
<1>4. counted \in Memory
  <2>1. ASSUME parent = BLOCK_INDEX_ROOT_DIR PROVE [entry EXCEPT ![parent][0] = AddLen(@, 1)] \in Memory
    <3>1. entry[parent][0] \in Cell
      BY <1>3, <2>1, BlockInRange, SizeAssumption DEF Memory, Slot
    <3>2. AddLen(entry[parent][0], 1) \in Cell
      BY <3>1, CellOps, 1 \in Int
    <3> QED
      BY <1>3, <3>2, StoreType
  <2> QED
    BY <1>3, <2>1
<1> HIDE DEF counted
<1>5. cells \in [Slot -> Cell]
  <2>1. initFcb(".", attr, block) \in Cell /\ initFcb("..", attr, parent) \in Cell
    BY <1>1, InitFcbType DEF Cell, Kept
  <2>2. ASSUME NEW s \in Slot PROVE MarkUnused(counted[block][s]) \in Cell
    BY <1>4, CellOps DEF Memory
  <2> QED
    BY <2>1, <2>2
<1>6. [counted EXCEPT ![block] = cells] \in Memory
  BY <1>4, <1>5 DEF Memory
<1> QED
  BY <1>4, <1>6 DEF initFileFCB, attr, entry, counted
-----------------------------------------------------------------------------
(* What the searches return. *)

LEMMA SlotsAreNumbers ==
  /\ Slot \subseteq Nat
  /\ EntrySlot \subseteq Slot
  /\ {0, 1} \subseteq Slot
  /\ OftIdx \subseteq Nat
  /\ 0 \in OftIdx
BY SizeAssumption DEF Slot, EntrySlot, OftIdx

LEMMA FindType ==
  ASSUME NEW cells, NEW len, NEW name, NEW isdir,
         findFileAtDir(cells, len, name, isdir) # NOT_FOUND
  PROVE  findFileAtDir(cells, len, name, isdir) \in Slot
BY FirstOfInSet, SlotsAreNumbers DEF findFileAtDir, Scanned

LEMMA IndexType ==
  ASSUME NEW cells, NEW len, NEW name, NEW isdir,
         getIndexOfFcb(cells, len, name, isdir) # NOT_FOUND
  PROVE  /\ getIndexOfFcb(cells, len, name, isdir) \in Slot
         /\ cells[getIndexOfFcb(cells, len, name, isdir)] \notin Texts
<1> DEFINE S == {s \in Scanned(cells, len) :
                   InUse(cells[s]) /\ fileNameMatch(cells[s], name, isdir)}
<1>1. S \in SUBSET Nat
  BY SlotsAreNumbers DEF Scanned
<1>2. FirstOf(S) \in S
  BY <1>1, FirstOfInSet DEF getIndexOfFcb
<1> QED
  BY <1>2, SlotsAreNumbers DEF getIndexOfFcb, Scanned, fileNameMatch

LEMMA SubdirType ==
  ASSUME NEW cells, NEW len, NEW name, IndexOfSubdir(cells, len, name) # NOT_FOUND
  PROVE  /\ IndexOfSubdir(cells, len, name) \in Slot
         /\ cells[IndexOfSubdir(cells, len, name)] \notin Texts
<1> DEFINE S == {s \in {0, 1} \cup Scanned(cells, len) :
                   InUse(cells[s]) /\ fileNameMatch(cells[s], name, TRUE)}
<1>1. S \in SUBSET Nat
  BY SlotsAreNumbers DEF Scanned
<1>2. FirstOf(S) \in S
  BY <1>1, FirstOfInSet DEF IndexOfSubdir
<1> QED
  BY <1>2, SlotsAreNumbers DEF IndexOfSubdir, Scanned, fileNameMatch

LEMMA NextOftType ==
  ASSUME getNextOft # NOT_FOUND PROVE getNextOft \in OftIdx
BY FirstOfInSet, SlotsAreNumbers DEF getNextOft

LEMMA ParentType ==
  ASSUME NEW i, findParentOft(i) # NOT_FOUND PROVE findParentOft(i) \in OftIdx
BY FirstOfInSet, SlotsAreNumbers DEF findParentOft

LEMMA CurType ==
  ASSUME TypeOK
  PROVE  /\ cur \in Oft
         /\ curDir \in [Slot -> Cell]
<1>1. cur \in Oft
  BY DEF TypeOK, cur
<1>2. CASE cur.fcb.s_block \in Block
  BY <1>1, <1>2 DEF TypeOK, curDir
<1>3. CASE cur.fcb.s_block \notin Block
  BY <1>1, <1>3, BlankTypes DEF curDir, Cell
<1> QED
  BY <1>1, <1>2, <1>3

LEMMA OpenedType ==
  ASSUME TypeOK, NEW s \in Slot, curDir[s] \notin Texts, NEW name \in Component
  PROVE  OpenedEntry(s, name) \in Oft
<1>1. curDir[s] \in Fcb
  BY CurType DEF Cell
<1>2. /\ cur.fcb.s_block \in 0 .. VD_BLOCK_NUM - 1
      /\ Append(cur.dirName, name) \in Seq(Component)
  BY CurType DEF Oft, Fcb
<1> QED
  BY <1>1, <1>2 DEF OpenedEntry, Oft
-----------------------------------------------------------------------------
(* Each action keeps the types. *)

(* The current entry's length and position, changed. *)
LEMMA CurStoreType ==
  ASSUME TypeOK, NEW len \in Int, NEW ptr \in Int
  PROVE  [oft EXCEPT ![currOftIndex].fcb.len = len, ![currOftIndex].filePtr = ptr]
           \in [OftIdx -> Oft]
<1>1. cur \in Oft
  BY CurType
<1>2. [cur.fcb EXCEPT !.len = len] \in Fcb
  BY <1>1 DEF Oft, Fcb
<1>3. [cur EXCEPT !.fcb = [cur.fcb EXCEPT !.len = len], !.filePtr = ptr] \in Oft
  BY <1>1, <1>2 DEF Oft
<1> QED
  BY <1>3 DEF TypeOK, cur

LEMMA CreateType ==
  ASSUME TypeOK, NEW name \in Names, NEW isdir \in BOOLEAN, createfile(name, isdir)
  PROVE  TypeOK'
<1> DEFINE slot  == getNextFcb(curDir)
           block == getNextVhdBlock(fat1)
           made  == initFileFCB(disk, cur.fcb.s_block, slot, block, Stored[name], isdir)
<1>1. block \in Block
  BY NextBlockIsFree DEF createfile
<1>2. cur \in Oft /\ cur.fcb.s_block \in 0 .. VD_BLOCK_NUM - 1 /\ cur.fcb.len \in Int
  BY CurType DEF Oft, Fcb
<1>3. Stored[name] \in Kept
  BY DEF Kept
<1>4. disk \in Memory
  BY DEF TypeOK, Memory
<1>5. made \in Memory
  BY <1>1, <1>2, <1>3, <1>4, InitFileType
<1>6. AddToEntry(made, cur, 1) \in Memory
  BY <1>5, AddToEntryType
<1>7. disk' \in Memory
  BY <1>5, <1>6 DEF createfile
<1>8. fat1' \in [Block -> FatValue] /\ fat2' \in [Block -> FatValue]
  <2>1. fat1' = [fat1 EXCEPT ![block] = END] /\ fat2' = fat1'
    BY DEF createfile
  <2>2. END \in FatValue
    BY DEF END, FatValue
  <2> QED
    BY <2>1, <2>2 DEF TypeOK
<1>9. oft' \in [OftIdx -> Oft]
  <2>1. cur.fcb.len + 1 \in Int
    BY <1>2
  <2>2. [oft EXCEPT ![currOftIndex].fcb.len = cur.fcb.len + 1, ![currOftIndex].filePtr = 0]
          \in [OftIdx -> Oft]
    BY <2>1, CurStoreType, 0 \in Int
  <2> QED
    BY <2>2 DEF createfile, cur
<1> QED
  BY <1>7, <1>8, <1>9 DEF createfile, TypeOK, Memory

(* The store behind the table leaves the cells of the disk cells.          *)
LEMMA StrayFreeType ==
  ASSUME NEW d \in Memory
  PROVE  StrayFree(d) \in Memory
<1>1. CASE StrayBlock \notin Block
  BY <1>1 DEF StrayFree
<1>2. CASE StrayBlock \in Block
  <2> DEFINE c == d[StrayBlock][FCB_NUM - 1]
  <2>1. c \in Cell
    BY <1>2, SizeAssumption DEF Memory, Slot
  <2>2. ASSUME c \in Fcb PROVE [c EXCEPT !.len = (@ % 2048) + FREE * 2048] \in Fcb
    <3>1. (c.len % 2048) + FREE * 2048 \in Int
      BY <2>2 DEF Fcb, FREE
    <3> QED
      BY <2>2, <3>1 DEF Fcb
  <2>3. WithLastBytesFree(c) \in Cell
    BY <2>1, <2>2 DEF WithLastBytesFree, Cell, Texts
  <2>4. [d EXCEPT ![StrayBlock][FCB_NUM - 1] = WithLastBytesFree(c)] \in Memory
    BY <2>3, StoreType
  <2> QED
    BY <1>2, <2>4 DEF StrayFree
<1> QED
  BY <1>1, <1>2

LEMMA DeleteType ==
  ASSUME TypeOK, NEW name, NEW isdir, deleteFile(name, isdir)
  PROVE  TypeOK'
<1> DEFINE slot   == findFileAtDir(curDir, cur.fcb.len, name, isdir)
           target == curDir[slot]
           before == IF FilesOf(target) = {} THEN disk ELSE StrayFree(disk)
           blank  == [before EXCEPT ![cur.fcb.s_block][slot] = BlankFcb]
<1>1. disk \in Memory
  BY DEF TypeOK, Memory
<1>2. StrayFree(disk) \in Memory
  BY <1>1, StrayFreeType
<1>3. before \in Memory
  BY <1>1, <1>2
<1>4. blank \in Memory
  BY <1>3, BlankTypes, StoreType DEF Cell
<1> HIDE DEF before
<1>5. AddToEntry(blank, cur, -1) \in Memory
  BY <1>4, AddToEntryType, -1 \in Int
<1>6. disk' \in Memory
  BY <1>5 DEF deleteFile, before
<1>7. fat1' \in [Block -> FatValue] /\ fat2' \in [Block -> FatValue]
  <2>1. FREE \in FatValue
    BY DEF FREE, FatValue, END
  <2> QED
    BY <2>1 DEF deleteFile, TypeOK
<1>8. oft' \in [OftIdx -> Oft]
  <2>1. cur.fcb.len - 1 \in Int
    BY CurType DEF Oft, Fcb
  <2>2. [oft EXCEPT ![currOftIndex].fcb.len = cur.fcb.len - 1, ![currOftIndex].filePtr = 0]
          \in [OftIdx -> Oft]
    BY <2>1, CurStoreType, 0 \in Int
  <2> QED
    BY <2>2 DEF deleteFile, cur
<1> QED
  BY <1>6, <1>7, <1>8 DEF deleteFile, TypeOK, Memory

LEMMA RewindType ==
  ASSUME TypeOK, Rewind PROVE TypeOK'
<1>1. [cur EXCEPT !.filePtr = 0] \in Oft
  BY CurType, 0 \in Int DEF Oft
<1>2. oft' \in [OftIdx -> Oft]
  BY <1>1 DEF Rewind, TypeOK, cur
<1> QED
  BY <1>2 DEF Rewind, TypeOK

LEMMA CtrlType ==
  ASSUME TypeOK, NEW name, NEW isdir, NEW i \in CtrlArgs, my_ctrl(name, isdir, i)
  PROVE  TypeOK'
<1> DEFINE slot == getIndexOfFcb(curDir, cur.fcb.len, name, isdir)
           b    == cur.fcb.s_block
           new(attr) == CASE i = 0 -> attr \ {"R"}
                          [] i = 1 -> attr \cup {"R"}
                          [] i = 2 -> attr \cup {"HIDE"}
                          [] i = 3 -> attr \ {"HIDE"}
           c == disk[b][slot]
<1>1. disk \in Memory
  BY DEF TypeOK, Memory
<1>2. slot \in Slot /\ curDir[slot] \notin Texts
  BY IndexType DEF my_ctrl
<1>3. ASSUME NEW attr \in SUBSET AttrFlag PROVE new(attr) \in SUBSET AttrFlag
  <2>1. i = 0 \/ i = 1 \/ i = 2 \/ i = 3
    BY UseAssumption
  <2> QED
    BY <2>1 DEF AttrFlag
<1>4. disk' = [disk EXCEPT ![b][slot].attr = new(@)]
  BY DEF my_ctrl
<1> HIDE DEF slot, new
<1>5. disk' \in Memory
  <2>1. CASE b \in Block
    <3>1. c \in Fcb
      BY <1>1, <1>2, <2>1 DEF curDir, Memory, Cell
    <3>2. new(c.attr) \in SUBSET AttrFlag
      BY <1>3, <3>1 DEF Fcb
    <3>3. [c EXCEPT !.attr = new(c.attr)] \in Cell
      BY <3>1, <3>2 DEF Fcb, Cell
    <3>4. [disk EXCEPT ![b][slot] = [c EXCEPT !.attr = new(c.attr)]] \in Memory
      BY <1>1, <3>3, StoreType
    <3> QED
      BY <1>4, <3>4
  <2>2. CASE b \notin Block
    BY <1>1, <1>4, <2>2 DEF Memory
  <2> QED
    BY <2>1, <2>2
<1> QED
  BY <1>5 DEF my_ctrl, TypeOK, Memory

(* One more entry of the table in use. *)
LEMMA OpenType ==
  ASSUME TypeOK, NEW s \in Slot, curDir[s] \notin Texts, NEW name \in Component,
         getNextOft # NOT_FOUND
  PROVE  [oft EXCEPT ![getNextOft] = OpenedEntry(s, name)] \in [OftIdx -> Oft]
BY OpenedType, NextOftType DEF TypeOK

LEMMA OpenFileType ==
  ASSUME TypeOK, NEW name \in FileNames, my_open(name)
  PROVE  TypeOK'
<1> DEFINE slot == getIndexOfFcb(curDir, cur.fcb.len, name, FALSE)
<1>1. slot \in Slot /\ curDir[slot] \notin Texts
  BY IndexType DEF my_open
<1>2. name \in Component
  BY DEF Component, Names
<1>3. getNextOft # NOT_FOUND /\ getNextOft \in OftIdx
  BY NextOftType DEF my_open
<1> HIDE DEF slot
<1>4. [oft EXCEPT ![getNextOft] = OpenedEntry(slot, name)] \in [OftIdx -> Oft]
  BY <1>1, <1>2, <1>3, OpenType
<1>5. oft' \in [OftIdx -> Oft] /\ currOftIndex' \in OftIdx
  BY <1>3, <1>4 DEF my_open, slot
<1> QED
  BY <1>5 DEF my_open, TypeOK

LEMMA MyCloseType ==
  ASSUME TypeOK, my_close
  PROVE  /\ disk' \in Memory
         /\ oft' \in [OftIdx -> Oft]
         /\ currOftIndex' \in OftIdx
<1> DEFINE parent == findParentOft(currOftIndex)
<1>1. parent \in OftIdx
  BY ParentType DEF my_close
<1>2. disk \in Memory
  BY DEF TypeOK, Memory
<1>3. cur.fcb \in Cell
  BY CurType DEF Oft, Cell
<1>4. [disk EXCEPT ![oft[parent].fcb.s_block][cur.fdEntryNo] = cur.fcb] \in Memory
  BY <1>2, <1>3, StoreType
<1>5. disk' \in Memory
  BY <1>2, <1>4 DEF my_close
<1>6. oft' \in [OftIdx -> Oft]
  BY BlankTypes DEF my_close, TypeOK
<1> QED
  BY <1>1, <1>5, <1>6 DEF my_close

LEMMA CloseType ==
  ASSUME TypeOK, Close PROVE TypeOK'
<1>1. my_close
  BY DEF Close
<1> QED
  BY <1>1, MyCloseType DEF Close, TypeOK, Memory

(* The table with nothing but the root open, *)
LEMMA RootOpenType ==
  ASSUME NEW d \in Memory, d[BLOCK_INDEX_ROOT_DIR][0] \in Fcb
  PROVE  OnlyRootOpen(d) \in [OftIdx -> Oft]
<1>1. RootOft(d) \in Oft
  <2>1. <<"root">> \in Seq(Component)
    BY DEF Component
  <2> QED
    BY <2>1, BlockInRange, SlotsAreNumbers DEF RootOft, Oft
<1> QED
  BY <1>1, BlankTypes DEF OnlyRootOpen

(* and the formatted disk, with this table. *)
LEMMA FormattedTypes ==
  ASSUME NEW d \in Memory
  PROVE  /\ FormattedFat \in [Block -> FatValue]
         /\ FormattedDisk(d) \in Memory
         /\ OnlyRootOpen(FormattedDisk(d)) \in [OftIdx -> Oft]
<1> DEFINE new == FormattedDisk(d)
           root == new[BLOCK_INDEX_ROOT_DIR][0]
<1>1. FormattedFat \in [Block -> FatValue]
  BY DEF FormattedFat, FatValue, END, FREE
<1>2. new \in Memory
  <2>1. "" \in Kept
    BY DEF Kept
  <2> QED
    BY <2>1, BlockInRange, InitFileType DEF FormattedDisk
<1>3. root \in Fcb
  <2>1. /\ BLOCK_INDEX_ROOT_DIR \in Block /\ BLOCK_INDEX_ROOT_DIR \in 0 .. VD_BLOCK_NUM - 1
        /\ 0 \in Slot
    BY BlockInRange, SlotsAreNumbers
  <2> DEFINE entry == [d EXCEPT ![BLOCK_INDEX_ROOT_DIR][0] =
                                   initFcb("", {"ROOTDIR"}, BLOCK_INDEX_ROOT_DIR)]
             counted == [entry EXCEPT ![BLOCK_INDEX_ROOT_DIR][0] = AddLen(@, 1)]
  <2>2. DOMAIN counted = Block
    BY DEF Memory
  <2>3. root = initFcb(".", {"ROOTDIR"}, BLOCK_INDEX_ROOT_DIR)
    <3>1. new = [counted EXCEPT ![BLOCK_INDEX_ROOT_DIR] =
                   [s \in Slot |-> CASE s = 0 -> initFcb(".", {"ROOTDIR"}, BLOCK_INDEX_ROOT_DIR)
                                     [] s = 1 -> initFcb("..", {"ROOTDIR"}, BLOCK_INDEX_ROOT_DIR)
                                     [] OTHER -> MarkUnused(@[s])]]
      BY DEF FormattedDisk, initFileFCB
    <3> HIDE DEF counted, new
    <3> QED
      BY <2>1, <2>2, <3>1
  <2> QED
    BY <2>1, <2>3, InitFcbType DEF Kept, AttrFlag
<1> HIDE DEF new, root
<1>5. OnlyRootOpen(new) \in [OftIdx -> Oft]
  BY <1>2, <1>3, RootOpenType DEF root
<1> QED
  BY <1>1, <1>2, <1>5 DEF new

LEMMA FormatType ==
  ASSUME TypeOK, my_format PROVE TypeOK'
<1>1. disk \in Memory
  BY DEF TypeOK, Memory
<1>2. /\ fat1' = FormattedFat /\ fat2' = FormattedFat
      /\ disk' = FormattedDisk(disk) /\ oft' = OnlyRootOpen(FormattedDisk(disk))
      /\ currOftIndex' = 0 /\ mode' = mode /\ cd' = cd
  BY DEF my_format
<1> QED
  BY <1>1, <1>2, FormattedTypes, SlotsAreNumbers DEF TypeOK, Memory

LEMMA InitType == Init => TypeOK
<1> SUFFICES ASSUME Init PROVE TypeOK
  OBVIOUS
<1> DEFINE zero == [b \in Block |-> [s \in Slot |-> BlankFcb]]
<1>1. zero \in Memory
  BY BlankTypes DEF Memory, Cell
<1>2. /\ fat1 = FormattedFat /\ fat2 = FormattedFat
      /\ disk = FormattedDisk(zero) /\ oft = OnlyRootOpen(FormattedDisk(zero))
      /\ currOftIndex = 0 /\ mode = "cmd" /\ cd = NoCd
  BY DEF Init
<1> HIDE DEF zero
<1> QED
  BY <1>1, <1>2, FormattedTypes, SlotsAreNumbers, BlankTypes DEF TypeOK, Memory

LEMMA WriteType ==
  ASSUME TypeOK, NEW rewrite \in BOOLEAN, my_write(rewrite)
  PROVE  TypeOK'
<1> DEFINE b == cur.pdfBlockNo
           s == cur.fdEntryNo
<1>1. disk \in Memory
  BY DEF TypeOK, Memory
<1>2. cur \in Oft /\ cur.fcb \in Fcb /\ cur.fcb.len \in Int /\ b \in 0 .. VD_BLOCK_NUM - 1 /\ s \in Slot
  BY CurType DEF Oft, Fcb
<1>3. disk' \in Memory
  <2>1. CASE ~rewrite
    BY <1>1, <2>1 DEF my_write, writePreProcess
  <2>2. CASE rewrite /\ b \in Block
    <3>1. disk[b][s] \in Cell
      BY <1>1, <1>2, <2>2 DEF Memory
    <3>2. -LenOf(disk[b][s]) \in Int
      BY <3>1, CellOps, 0 \in Int
    <3>3. AddLen(disk[b][s], -LenOf(disk[b][s])) \in Cell
      BY <3>1, <3>2, CellOps
    <3>4. [disk EXCEPT ![b][s] = AddLen(disk[b][s], -LenOf(disk[b][s]))] \in Memory
      BY <1>1, <3>3, StoreType
    <3> QED
      BY <2>2, <3>4 DEF my_write, writePreProcess
  <2>3. CASE rewrite /\ b \notin Block
    <3>1. disk' = [disk EXCEPT ![b][s] = AddLen(@, -LenOf(@))]
      BY <2>3 DEF my_write, writePreProcess
    <3> QED
      BY <1>1, <2>3, <3>1 DEF Memory
  <2> QED
    BY <2>1, <2>2, <2>3
<1>4. oft' \in [OftIdx -> Oft]
  <2> DEFINE len == IF rewrite THEN 0 ELSE cur.fcb.len
             ptr == IF rewrite THEN 0 ELSE cur.fcb.len
  <2>1. len \in Int /\ ptr \in Int
    BY <1>2
  <2>2. oft' = [oft EXCEPT ![currOftIndex].fcb.len = len, ![currOftIndex].filePtr = ptr]
    <3>1. oft' = [oft EXCEPT ![currOftIndex].filePtr = ptr,
                             ![currOftIndex].fcb.len = IF rewrite THEN 0 ELSE @]
      BY DEF my_write, writePreProcess
    <3>2. oft' = [oft EXCEPT ![currOftIndex].filePtr = ptr, ![currOftIndex].fcb.len = len]
      BY <3>1 DEF cur, TypeOK, Oft
    <3> HIDE DEF len, ptr
    <3> QED
      BY <3>2, <1>2 DEF cur, TypeOK, Oft
  <2> HIDE DEF len, ptr
  <2> QED
    BY <2>1, <2>2, CurStoreType
<1> QED
  BY <1>3, <1>4 DEF my_write, TypeOK, Memory

(* What do_write returns is typed, whether it succeeds or gives up.        *)
LEMMA PutCellsType ==
  ASSUME NEW d \in Memory, NEW b, NEW lo, NEW hi, NEW t \in Cell
  PROVE  PutCells(d, b, lo, hi, t) \in Memory
<1>1. CASE b \in Block
  <2>1. [s \in Slot |-> IF s \in lo .. hi THEN t ELSE d[b][s]] \in [Slot -> Cell]
    BY <1>1 DEF Memory
  <2> QED
    BY <2>1 DEF PutCells, Memory
<1>2. CASE b \notin Block
  BY <1>2 DEF PutCells, Memory
<1> QED
  BY <1>1, <1>2

LEMMA DoWriteType ==
  ASSUME TypeOK, NEW t \in Text, NEW n \in Int
  PROVE  /\ do_write(t, n).fat1 \in [Block -> FatValue]
         /\ do_write(t, n).fat2 \in [Block -> FatValue]
         /\ do_write(t, n).disk \in Memory
         /\ do_write(t, n).file \in Oft
<1> DEFINE first   == BlockAt(fat1, cur.fcb.s_block, cur.filePtr \div FCB_NUM)
           offset  == cur.filePtr % FCB_NUM
           crosses == offset + n >= FCB_NUM
           grows   == crosses /\ fat1[first] = END
           last    == IF ~crosses THEN first
                      ELSE IF grows THEN getNextVhdBlock(fat1) ELSE fat1[first]
           head    == PutCells(disk, first, offset, offset + n - 1, t)
           linked  == IF grows THEN [fat1 EXCEPT ![first] = last, ![last] = END] ELSE fat1
           over    == IF crosses THEN PutCells(head, last, 0, offset + n - FCB_NUM - 1, t)
                      ELSE head
           file    == [cur EXCEPT !.filePtr = @ + n, !.fcb.len = @ + n]
<1>1. disk \in Memory /\ t \in Cell /\ cur \in Oft
  BY CurType DEF TypeOK, Memory, Cell, Texts
<1>2. head \in Memory
  BY <1>1, PutCellsType
<1> HIDE DEF head
<1>3. over \in Memory
  BY <1>1, <1>2, PutCellsType
<1> HIDE DEF over
<1>4. AddToEntry(over, cur, n) \in Memory
  BY <1>3, AddToEntryType
<1>5. ASSUME last # END PROVE linked \in [Block -> FatValue]
  <2>1. CASE grows
    <3>1. last \in Block
      BY <1>5, <2>1, NextBlockIsFree
    <3> HIDE DEF last, first
    <3>2. last \in FatValue /\ END \in FatValue
      BY <3>1, BlockIsFatValue, Zenon
    <3> QED
      BY <2>1, <3>2 DEF TypeOK
  <2>2. CASE ~grows
    BY <2>2 DEF TypeOK
  <2> QED
    BY <2>1, <2>2
<1>6. ASSUME last # END PROVE EndChainAt(linked, last) \in [Block -> FatValue]
  <2> HIDE DEF linked, last
  <2>1. END \in FatValue
    BY DEF FatValue, END
  <2> QED
    BY <1>5, <1>6, <2>1 DEF EndChainAt
<1>7. file \in Oft
  <2>1. cur.fcb \in Fcb /\ cur.fcb.len + n \in Int /\ cur.filePtr + n \in Int
    BY <1>1 DEF Oft, Fcb
  <2>2. [cur.fcb EXCEPT !.len = cur.fcb.len + n] \in Fcb
    BY <2>1, FcbOps
  <2>3. [cur EXCEPT !.fcb = [cur.fcb EXCEPT !.len = cur.fcb.len + n], !.filePtr = cur.filePtr + n] \in Oft
    BY <1>1, <2>1, <2>2 DEF Oft
  <2>4. file = [cur EXCEPT !.fcb = [cur.fcb EXCEPT !.len = cur.fcb.len + n], !.filePtr = cur.filePtr + n]
    BY <1>1 DEF Oft
  <2> QED
    BY <2>3, <2>4
<1>8. do_write(t, n) =
        CASE first = END ->
               [ok |-> FALSE, fat1 |-> fat1, fat2 |-> fat2, disk |-> disk, file |-> cur]
          [] first # END /\ last = END ->
               [ok |-> FALSE, fat1 |-> fat1, fat2 |-> fat2, disk |-> head, file |-> cur]
          [] first # END /\ last # END ->
               [ok |-> TRUE, fat1 |-> EndChainAt(linked, last), fat2 |-> EndChainAt(linked, last),
                disk |-> AddToEntry(over, cur, n), file |-> file]
  BY DEF do_write, head, over
<1> HIDE DEF first, last, linked, file
<1>9. fat1 \in [Block -> FatValue] /\ fat2 \in [Block -> FatValue]
  BY DEF TypeOK
<1>10. CASE first = END
  BY <1>1, <1>8, <1>9, <1>10
<1>11. CASE first # END /\ last = END
  BY <1>1, <1>2, <1>8, <1>9, <1>11
<1>12. CASE first # END /\ last # END
  BY <1>4, <1>6, <1>7, <1>8, <1>12
<1> QED
  BY <1>10, <1>11, <1>12

LEMMA BufferType ==
  ASSUME TypeOK, NEW t \in Text, WriteBuffer(t) PROVE TypeOK'
<1> DEFINE w == do_write(t, FCB_NUM)
<1>1. /\ w.fat1 \in [Block -> FatValue] /\ w.fat2 \in [Block -> FatValue]
      /\ w.disk \in Memory /\ w.file \in Oft
  BY DoWriteType, SizeAssumption
<1>2. /\ fat1' = w.fat1 /\ fat2' = w.fat2 /\ disk' = w.disk
      /\ oft' = [oft EXCEPT ![currOftIndex] = w.file]
      /\ mode' = mode /\ currOftIndex' = currOftIndex /\ cd' = cd
  BY DEF WriteBuffer
<1> HIDE DEF w
<1> QED
  BY <1>1, <1>2 DEF TypeOK, Memory

LEMMA RestType ==
  ASSUME TypeOK, NEW t \in Text, NEW n \in Rests, WriteRest(t, n) PROVE TypeOK'
<1> DEFINE w == do_write(t, n)
           file == [w.file EXCEPT !.isUpate = TRUE]
<1>1. n \in Int
  BY UseAssumption, SizeAssumption
<1>2. /\ w.fat1 \in [Block -> FatValue] /\ w.fat2 \in [Block -> FatValue]
      /\ w.disk \in Memory /\ w.file \in Oft
  BY <1>1, DoWriteType
<1>3. /\ fat1' = w.fat1 /\ fat2' = w.fat2 /\ disk' = w.disk
      /\ oft' = [oft EXCEPT ![currOftIndex] = file]
      /\ mode' = "cmd" /\ currOftIndex' = currOftIndex /\ cd' = cd
  BY DEF WriteRest
<1> HIDE DEF w
<1>4. file \in Oft
  BY <1>2 DEF Oft
<1> QED
  BY <1>2, <1>3, <1>4 DEF TypeOK, Memory

(* The locals of my_cd, at every step of it. *)
LEMMA ChangeDirType ==
  ASSUME TypeOK, NEW p \in CdPaths, my_cd(p) PROVE TypeOK'
<1>1. p \in Seq(Component)
  BY NameAssumption
<1>2. cur.dirName \in Seq(Component)
  BY CurType DEF Oft
<1>3. cd' \in Cd
  BY <1>1, <1>2 DEF my_cd, Cd, judgeDir
<1> QED
  BY <1>3 DEF my_cd, TypeOK

LEMMA NextComponentType ==
  ASSUME TypeOK, cd.path # <<>>, NextComponent PROVE cd' \in Cd
<1>1. cd \in Cd /\ cd.path \in Seq(Component)
  BY DEF TypeOK, Cd
<1>2. Tail(cd.path) \in Seq(Component)
  BY <1>1
<1> QED
  BY <1>1, <1>2 DEF NextComponent, Cd

LEMMA CdStepType ==
  ASSUME TypeOK, CdStep PROVE TypeOK'
<1>1. CASE CdCloseToRoot
  <2>1. my_close
    BY <1>1 DEF CdCloseToRoot
  <2> QED
    BY <1>1, <2>1, MyCloseType DEF CdCloseToRoot, TypeOK, Memory
<1>2. CASE CdStay
  <2>1. cd' \in Cd
    BY <1>2, NextComponentType DEF CdStay, InDir
  <2> QED
    BY <1>2, <2>1 DEF CdStay, TypeOK
<1>3. CASE CdUp
  <2>1. my_close
    BY <1>3 DEF CdUp
  <2>2. cd' \in Cd
    BY <1>3, NextComponentType DEF CdUp, InDir
  <2> QED
    BY <1>3, <2>1, <2>2, MyCloseType DEF CdUp, TypeOK, Memory
<1>4. CASE CdDown
  <2>1. cd' \in Cd
    BY <1>4, NextComponentType DEF CdDown, InDir
  <2>2. Subdir # NOT_FOUND
    BY <1>4 DEF CdDown, SubdirName
  <2>3. Subdir \in Slot /\ curDir[Subdir] \notin Texts
    BY <2>2, SubdirType DEF Subdir
  <2>4. dirname \in Component
    <3>1. cd.path \in Seq(Component) /\ cd.path # <<>>
      BY <1>4 DEF CdDown, InDir, TypeOK, Cd
    <3>2. Head(cd.path) \in Component
      BY <3>1
    <3> QED
      BY <3>2 DEF dirname, Component
  <2>5. getNextOft # NOT_FOUND /\ getNextOft \in OftIdx
    BY <1>4, NextOftType DEF CdDown
  <2>6. [oft EXCEPT ![getNextOft] = OpenedEntry(Subdir, dirname)] \in [OftIdx -> Oft]
    BY <2>3, <2>4, <2>5, OpenType
  <2>7. oft' \in [OftIdx -> Oft] /\ currOftIndex' \in OftIdx
    BY <1>4, <2>5, <2>6 DEF CdDown
  <2> QED
    BY <1>4, <2>1, <2>7 DEF CdDown, TypeOK
<1>5. CASE CdRetry
  <2>1. cd \in Cd /\ cd.dirname \in Seq(Component) /\ cd.depth \in Nat
    BY DEF TypeOK, Cd
  <2>2. cur.dirName \in Seq(Component)
    BY CurType DEF Oft
  <2>3. cd' = [cd EXCEPT !.path = cd.dirname, !.dirname = cur.dirName, !.depth = cd.depth + 1]
    BY <1>5 DEF CdRetry
  <2>4. cd.depth + 1 \in Nat
    BY <2>1
  <2>5. cd' \in Cd
    BY <2>1, <2>2, <2>3, <2>4 DEF Cd
  <2> QED
    BY <1>5, <2>5 DEF CdRetry, TypeOK
<1>6. CASE CdEnd
  BY <1>6, BlankTypes DEF CdEnd, TypeOK
<1> QED
  BY <1>1, <1>2, <1>3, <1>4, <1>5, <1>6 DEF CdStep
-----------------------------------------------------------------------------
(* TypeOK is inductive. *)
LEMMA NextType ==
  ASSUME TypeOK, [Next]_vars PROVE TypeOK'
<1>1. CASE Create
  BY <1>1, CreateType DEF Create, Names
<1>2. CASE Delete
  BY <1>2, DeleteType DEF Delete
<1>3. CASE Ctrl
  BY <1>3, CtrlType DEF Ctrl
<1>4. CASE Open
  BY <1>4, OpenFileType DEF Open
<1>5. CASE Close
  BY <1>5, CloseType
<1>6. CASE Rewind
  BY <1>6, RewindType
<1>7. CASE my_format
  BY <1>7, FormatType
<1>8. CASE Write
  BY <1>8, WriteType DEF Write
<1>9. CASE Buffer
  BY <1>9, BufferType DEF Buffer
<1>10. CASE Rest
  BY <1>10, RestType DEF Rest
<1>11. CASE ChangeDir
  BY <1>11, ChangeDirType DEF ChangeDir
<1>12. CASE CdStep
  BY <1>12, CdStepType
<1>13. CASE UNCHANGED vars
  BY <1>13 DEF vars, TypeOK
<1> QED
  BY <1>1, <1>2, <1>3, <1>4, <1>5, <1>6, <1>7, <1>8, <1>9, <1>10, <1>11, <1>12, <1>13 DEF Next

(* Every value the program keeps is one that its tables, entries and cells *)
(* can hold, on every disk: no index leaves the open file table, no link   *)
(* leaves the range of an unsigned short, no search returns a slot outside *)
(* its block that a command goes on to use.                                *)
THEOREM TypeCorrect == Spec => []TypeOK
<1>1. Init => TypeOK
  BY InitType
<1>2. TypeOK /\ [Next]_vars => TypeOK'
  BY NextType
<1> QED
  BY <1>1, <1>2, PTL DEF Spec
-----------------------------------------------------------------------------
(* do_write hands back the two tables equal if it was given them equal:    *)
(* when it gives up it has stored in neither.                              *)
LEMMA DoWriteFats ==
  ASSUME FatsAgree, NEW t, NEW n
  PROVE  do_write(t, n).fat2 = do_write(t, n).fat1
<1> DEFINE first   == BlockAt(fat1, cur.fcb.s_block, cur.filePtr \div FCB_NUM)
           offset  == cur.filePtr % FCB_NUM
           crosses == offset + n >= FCB_NUM
           grows   == crosses /\ fat1[first] = END
           last    == IF ~crosses THEN first
                      ELSE IF grows THEN getNextVhdBlock(fat1) ELSE fat1[first]
           head    == PutCells(disk, first, offset, offset + n - 1, t)
           linked  == IF grows THEN [fat1 EXCEPT ![first] = last, ![last] = END] ELSE fat1
           over    == IF crosses THEN PutCells(head, last, 0, offset + n - FCB_NUM - 1, t)
                      ELSE head
           file    == [cur EXCEPT !.filePtr = @ + n, !.fcb.len = @ + n]
<1>1. do_write(t, n) =
        CASE first = END ->
               [ok |-> FALSE, fat1 |-> fat1, fat2 |-> fat2, disk |-> disk, file |-> cur]
          [] first # END /\ last = END ->
               [ok |-> FALSE, fat1 |-> fat1, fat2 |-> fat2, disk |-> head, file |-> cur]
          [] first # END /\ last # END ->
               [ok |-> TRUE, fat1 |-> EndChainAt(linked, last), fat2 |-> EndChainAt(linked, last),
                disk |-> AddToEntry(over, cur, n), file |-> file]
  BY DEF do_write
<1> HIDE DEF first, last, head, linked, over, file
<1>2. first = END \/ (first # END /\ last = END) \/ (first # END /\ last # END)
  OBVIOUS
<1> QED
  BY <1>1, <1>2 DEF FatsAgree

(* Every command that makes a table makes its backup. *)
LEMMA NextFatsAgree ==
  ASSUME FatsAgree, [Next]_vars PROVE FatsAgree'
<1>1. CASE Create
  BY <1>1 DEF Create, createfile, FatsAgree
<1>2. CASE Delete
  BY <1>2 DEF Delete, deleteFile, FatsAgree
<1>3. CASE Ctrl \/ Open \/ Close \/ Rewind
  BY <1>3 DEF Ctrl, my_ctrl, Open, my_open, Close, Rewind, FatsAgree
<1>4. CASE my_format
  BY <1>4 DEF my_format, FatsAgree
<1>5. CASE Write
  BY <1>5 DEF Write, my_write, FatsAgree
<1>6. CASE Buffer
  <2>1. PICK t \in Text : WriteBuffer(t)
    BY <1>6 DEF Buffer
  <2>2. do_write(t, FCB_NUM).fat2 = do_write(t, FCB_NUM).fat1
    BY DoWriteFats
  <2> QED
    BY <2>1, <2>2 DEF WriteBuffer, FatsAgree
<1>7. CASE Rest
  <2>1. PICK t \in Text, n \in Rests : WriteRest(t, n)
    BY <1>7 DEF Rest
  <2>2. do_write(t, n).fat2 = do_write(t, n).fat1
    BY DoWriteFats
  <2> QED
    BY <2>1, <2>2 DEF WriteRest, FatsAgree
<1>8. CASE ChangeDir \/ CdStep
  BY <1>8 DEF ChangeDir, my_cd, CdStep, CdCloseToRoot, CdStay, CdUp, CdDown,
                    CdRetry, CdEnd, FatsAgree
<1>9. CASE UNCHANGED vars
  BY <1>9 DEF vars, FatsAgree
<1> QED
  BY <1>1, <1>2, <1>3, <1>4, <1>5, <1>6, <1>7, <1>8, <1>9 DEF Next

(* The backup table is the table after every command, whatever it met.     *)
THEOREM FatsAgreeAlways == Spec => []FatsAgree
<1>1. Init => FatsAgree
  BY DEF Init, FatsAgree
<1>2. FatsAgree /\ [Next]_vars => FatsAgree'
  BY NextFatsAgree
<1> QED
  BY <1>1, <1>2, PTL DEF Spec
=============================================================================

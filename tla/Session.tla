------------------------------- MODULE Session -------------------------------
(***************************************************************************)
(* main and initsys of exam5/File_System/main.cpp around the commands of   *)
(* FileSystem: the virtual disk lives in memory and is written to a file   *)
(* of the machine, the image, by my_format and by my_exit_sys only.        *)
(*                                                                         *)
(* saveVdFile empties the image when it opens it, and nobody looks at what *)
(* fwrite returns: the process may be killed, or the machine's disk be     *)
(* full, when a part of the image is written.  Nor does anybody look at    *)
(* what fread returns: such a torn image is read as far as it goes, into   *)
(* memory that malloc gave out as zeros.  Both are opened as text files:   *)
(* the conversion of line ends is undone when the image is read, but where *)
(* a text file ends at a byte 26 (Visual Studio's library), so does the    *)
(* reading.                                                                *)
(*                                                                         *)
(* While no process runs the variables of FileSystem mean nothing and have *)
(* the values of its Init.  Of a process on a disk that is not intact only *)
(* the disk means something: what the commands do there is not modelled,   *)
(* they may leave anything of Spoilt.                                      *)
(***************************************************************************)
EXTENDS FileSystemInv

(***************************************************************************)
(* The image holds the boot block, the two tables and the blocks, in this  *)
(* order; a place in it is counted in table entries and cells from the     *)
(* table's entry of the root on, and Size is the place behind its end.     *)
(***************************************************************************)
Blocks == VD_BLOCK_NUM - BLOCK_INDEX_ROOT_DIR
Fat1At(b) == b - BLOCK_INDEX_ROOT_DIR
Fat2At(b) == Blocks + b - BLOCK_INDEX_ROOT_DIR
CellAt(b, s) == 2 * Blocks + (b - BLOCK_INDEX_ROOT_DIR) * FCB_NUM + s
Size == 2 * Blocks + Blocks * FCB_NUM

VD == [fat1 : [Block -> FatValue], fat2 : [Block -> FatValue],
       disk : [Block -> [Slot -> Cell]]]

CONSTANTS
  TextMode,     \* whether a text file ends at a byte 26
  Breaks,       \* bound: the places where writing may break off
  Spoilt,       \* bound: what commands may leave of a disk that is not intact
  MaxSaves      \* bound: how often the image is written

ASSUME SessionAssumption ==
  /\ TextMode \in BOOLEAN
  /\ Breaks \subseteq 0 .. Size
  /\ Spoilt \subseteq VD
  /\ MaxSaves \in Nat

VARIABLES
  pc,      \* "off": no process; "run": at work; "exit": my_exit_sys closes entries;
           \* "save", "last": saveVdFile has emptied the image, to go on or to exit
  image,   \* the file: whether it is there, what is in it, zeros behind its end,
           \* and (no part of the file) whether that is an intact disk
  intact,  \* history: the disk was formatted, or restored whole from an intact image
  saves    \* how often saveVdFile was called

sessionVars == <<pc, image, intact, saves>>
allVars == <<vars, sessionVars>>

memory == [fat1 |-> fat1, fat2 |-> fat2, disk |-> disk]

(* The part of vd before place n, and zeros.                               *)
Cut(vd, n) ==
  [fat1 |-> [b \in Block |-> IF Fat1At(b) < n THEN vd.fat1[b] ELSE 0],
   fat2 |-> [b \in Block |-> IF Fat2At(b) < n THEN vd.fat2[b] ELSE 0],
   disk |-> [b \in Block |-> [s \in Slot |-> IF CellAt(b, s) < n THEN vd.disk[b][s]
                                                              ELSE BlankFcb]]]

(* The image when the memory up to place n has come to it.                 *)
SavedTo(n) ==
  [there |-> TRUE, vd |-> Cut(memory, n), intact |-> intact /\ Cut(memory, n) = memory]

Has26(link) == link % 256 = 26 \/ link \div 256 = 26

(* Where reading vd may end.  A link with a byte 26 always ends it.  The   *)
(* boot block holds an address, and any cell that is not blank holds bytes *)
(* of dates, lengths or text that the model does not have.                 *)
ReadEnds(vd) ==
  LET links == {Fat1At(b) : b \in {c \in Block : Has26(vd.fat1[c])}}
                 \cup {Fat2At(b) : b \in {c \in Block : Has26(vd.fat2[c])}}
      cells == {CellAt(e[1], e[2]) : e \in {p \in Block \X Slot : vd.disk[p[1]][p[2]] # BlankFcb}}
  IN  IF TextMode
      THEN {n \in {0, Size} \cup links \cup cells : \A l \in links : n <= l}
      ELSE {Size}

(* The values of FileSystem's Init. *)
Fresh ==
  /\ mode' = "cmd"
  /\ fat1' = FormattedFat
  /\ fat2' = FormattedFat
  /\ disk' = FormattedDisk([b \in Block |-> [s \in Slot |-> BlankFcb]])
  /\ oft' = OnlyRootOpen(disk')
  /\ currOftIndex' = 0
  /\ cd' = NoCd
  /\ intact' = TRUE

(* saveVdFile, first half: fopen with "w".                                 *)
EmptyImage ==
  /\ saves < MaxSaves
  /\ saves' = saves + 1
  /\ image' = [there |-> TRUE, vd |-> Cut(memory, 0), intact |-> FALSE]

SessionInit ==
  /\ Init
  /\ pc = "off"
  /\ image = [there |-> FALSE, vd |-> Cut(memory, 0), intact |-> FALSE]
  /\ intact = TRUE
  /\ saves = 0

(* initsys without an image: my_format on a fresh disk. *)
StartNew ==
  /\ pc = "off"
  /\ ~image.there
  /\ EmptyImage
  /\ pc' = "save"
  /\ UNCHANGED <<vars, intact>>

(* initsys with an image: as much as fread finds in it is the disk, and    *)
(* zeros.  Only the root is open.                                          *)
StartRestored ==
  /\ pc = "off"
  /\ image.there
  /\ mode' = "cmd"
  /\ \E n \in ReadEnds(image.vd) :
       LET found == Cut(image.vd, n)
       IN  /\ fat1' = found.fat1
           /\ fat2' = found.fat2
           /\ disk' = found.disk
           /\ intact' = (image.intact /\ found = image.vd)
  /\ oft' = OnlyRootOpen(disk')
  /\ currOftIndex' = 0
  /\ cd' = NoCd
  /\ pc' = "run"
  /\ UNCHANGED <<image, saves>>

Command ==
  /\ pc = "run"
  /\ intact
  /\ Create \/ Delete \/ Ctrl \/ Open \/ Close \/ Rewind
       \/ Write \/ Buffer \/ Rest \/ ChangeDir \/ CdStep
  /\ UNCHANGED sessionVars

(* Commands on a disk that is not intact.                                  *)
Spoil ==
  /\ pc = "run"
  /\ ~intact
  /\ \E vd \in Spoilt : fat1' = vd.fat1 /\ fat2' = vd.fat2 /\ disk' = vd.disk
  /\ UNCHANGED <<mode, oft, currOftIndex, cd, sessionVars>>

(* my_format asks nothing of the disk it finds.                            *)
Format ==
  /\ pc = "run"
  /\ my_format
  /\ EmptyImage
  /\ intact' = TRUE
  /\ pc' = "save"

my_exit_sys ==
  /\ pc = "run"
  /\ mode = "cmd"
  /\ saves < MaxSaves
  /\ pc' = "exit"
  /\ UNCHANGED <<vars, image, intact, saves>>

exitStuck ==      \* mutant: my_close returns early
  /\ pc = "exit"
  /\ currOftIndex # 0
  /\ UNCHANGED allVars

ExitClose ==
  /\ pc = "exit"
  /\ currOftIndex # 0
  /\ my_close
  /\ UNCHANGED <<mode, fat1, fat2, cd, sessionVars>>

ExitSave ==
  /\ pc = "exit"
  /\ currOftIndex = 0
  /\ EmptyImage
  /\ pc' = "last"
  /\ UNCHANGED <<vars, intact>>

(* saveVdFile, second half: fwrite, of all or of a part, and fclose.       *)
FillImage ==
  /\ pc \in {"save", "last"}
  /\ \E n \in Breaks \cup {Size} : image' = SavedTo(n)
  /\ IF pc = "save"
     THEN pc' = "run" /\ UNCHANGED <<vars, intact>>
     ELSE pc' = "off" /\ Fresh
  /\ UNCHANGED saves

(* The process is killed, in fwrite as well. *)
Killed ==
  /\ pc # "off"
  /\ pc' = "off"
  /\ IF pc \in {"save", "last"}
     THEN \E n \in {0} \cup Breaks : image' = SavedTo(n)
     ELSE UNCHANGED image
  /\ Fresh
  /\ UNCHANGED saves

Exiting == ExitClose \/ ExitSave \/ (pc = "last" /\ FillImage)

SessionNext ==
  \/ StartNew \/ StartRestored
  \/ Command \/ Spoil \/ Format
  \/ my_exit_sys \/ ExitClose \/ ExitSave \/ FillImage
  \/ Killed

SessionSpec == SessionInit /\ [][SessionNext]_allVars

(* The process goes on unless it is killed. *)
SessionFair == SessionSpec /\ WF_allVars(Exiting)
-----------------------------------------------------------------------------
(* A process works on a sound disk, tables, lengths, chains and the new    *)
(* open file table fitting together, unless it was started from an image   *)
(* that was not written, or not read, to its end.  Such a one is sound     *)
(* again after my_format, whatever is on its disk by then; and the others  *)
(* are sound whatever tree they were saved with, and whatever was torn in  *)
(* the image before.                                                       *)
RestoredSound ==
  (pc = "run" /\ intact) =>
     FatsAgree /\ OftCoherent /\ LenCountsEntries /\ BlocksDisjoint /\ ChainCoversLength

(* my_exit_sys ends: its loop closes the open entries one by one.          *)
ExitEnds == (pc = "exit" /\ intact) ~> pc = "off"

(* "Read the file, restore the system" (main.cpp:1327): a start never      *)
(* finds an image it restores in part or not at all.                       *)
ImageRestorable == pc # "off" => intact
=============================================================================

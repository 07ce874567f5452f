--------------------------- MODULE SessionProofs ---------------------------
(***************************************************************************)
(* Theorems about Session, for a disk of any size, any number of saves,    *)
(* and whatever places writing breaks off at: what a process works on is   *)
(* sound if it was read from an image that was written whole, or formatted *)
(* by the process.                                                         *)
(***************************************************************************)
EXTENDS Session, DiskProofs

(* Two tables and a disk that fit together, as in an image that is intact. *)
Restorable(vd) ==
  /\ vd.fat1 \in [Block -> FatValue] /\ vd.fat2 = vd.fat1 /\ vd.disk \in Memory
  /\ LinksSound(vd.fat1)
  /\ \E D \in SUBSET Block : TreeSound(vd.fat1, vd.disk, D)

(* The invariant.  The disk is made of cells, and so is what is on it in   *)
(* the image, torn or not: my_format needs no more.  An intact disk is     *)
(* sound, if only because no process runs, and an intact image restorable; *)
(* a process that exits has finished what it was told to do, and one on a  *)
(* disk that is not intact has begun nothing and opened nothing.           *)
SessionInv ==
  /\ disk \in Memory /\ image.vd.disk \in Memory
  /\ intact => FsInv /\ FatsAgree
  /\ image.intact => Restorable(image.vd)
  /\ pc = "exit" /\ intact => mode = "cmd"
  /\ ~intact => mode = "cmd" /\ cd = NoCd /\ currOftIndex = 0

-----------------------------------------------------------------------------
(* A process that has just begun, or none, has what Init says. *)
LEMMA InitSound == Init => FsInv /\ FatsAgree
<1>1. Init => FatsAgree
  BY DEF Init, FatsAgree
<1>2. Init => FsInv
  BY InitType, InitHolds, RootIsBlock DEF FsInv
<1> QED
  BY <1>1, <1>2

LEMMA FreshSound ==
  ASSUME Fresh PROVE FsInv' /\ FatsAgree'
<1>1. Init'
  BY DEF Fresh, Init
<1>2. Init' => FsInv' /\ FatsAgree'
  BY InitSound, PTL
<1> QED
  BY <1>1, <1>2

(* Commands, and my_format. *)
LEMMA NextSound ==
  ASSUME GoodUse, StrayMisses, FsInv, FatsAgree, [Next]_vars
  PROVE  FsInv' /\ FatsAgree'
<1>1. FsInv'
  BY NextFsInv
<1>2. FatsAgree'
  BY NextFatsAgree
<1> QED
  BY <1>1, <1>2

(* A part of a disk is made of cells, too. *)
LEMMA CutIsMemory ==
  ASSUME NEW vd, vd.disk \in Memory, NEW n
  PROVE  Cut(vd, n).disk \in Memory
<1>1. BlankFcb \in Cell
  BY BlankTypes DEF Cell
<1> QED
  BY <1>1 DEF Cut, Memory

(* What is saved whole can be restored, *)
LEMMA SavedIsRestorable ==
  ASSUME NEW n, SessionInv
  PROVE  /\ SavedTo(n).vd.disk \in Memory
         /\ SavedTo(n).intact => Restorable(SavedTo(n).vd)
<1>1. memory.disk \in Memory
  BY DEF SessionInv, memory
<1>2. SavedTo(n).vd = Cut(memory, n)
  BY DEF SavedTo
<1>3. ASSUME SavedTo(n).intact PROVE Restorable(memory) /\ Cut(memory, n) = memory
  <2>1. intact /\ Cut(memory, n) = memory
    BY <1>3 DEF SavedTo
  <2> QED
    BY <2>1 DEF SessionInv, FsInv, FatsAgree, Holds, TypeOK, Memory, Restorable, memory
<1> QED
  BY <1>1, <1>2, <1>3, CutIsMemory

(* and what is restored, with the root open, is sound.                     *)
LEMMA RestoredHolds ==
  ASSUME NEW vd, Restorable(vd),
         fat1' = vd.fat1, fat2' = vd.fat2, disk' = vd.disk, oft' = OnlyRootOpen(vd.disk),
         currOftIndex' = 0, mode' = "cmd", cd' = NoCd
  PROVE  FsInv' /\ FatsAgree'
<1>1. PICK D \in SUBSET Block : TreeSound(vd.fat1, vd.disk, D)
  BY DEF Restorable
<1>2. vd.disk \in Memory /\ vd.disk[Root][0] \in Fcb
  BY <1>1, SlotsAreNumbers DEF Restorable, TreeSound, DirBlock
<1>3. OnlyRootOpen(vd.disk) \in [OftIdx -> Oft]
  BY <1>2, RootOpenType DEF Root
<1>4. TypeOK'
  BY <1>2, <1>3, SlotsAreNumbers, BlankTypes DEF Restorable, TypeOK, Memory
<1>5. Holds(D)'
  BY <1>1, RootPath DEF Holds, TextSound, Restorable
<1> QED
  BY <1>1, <1>4, <1>5 DEF FsInv, FatsAgree, Restorable

(* my_format makes a sound disk of any. *)
LEMMA FormatRepairs ==
  ASSUME SessionInv, Format PROVE FsInv' /\ FatsAgree' /\ disk' \in Memory
<1>1. /\ fat1' = FormattedFat /\ fat2' = FormattedFat
      /\ disk' = FormattedDisk(disk) /\ oft' = OnlyRootOpen(FormattedDisk(disk))
      /\ currOftIndex' = 0 /\ mode' = "cmd" /\ cd' = cd
  BY DEF Format, my_format
<1>2. disk \in Memory /\ cd \in Cd
  BY BlankTypes DEF SessionInv, FsInv, TypeOK
<1>3. TypeOK'
  BY <1>1, <1>2, FormattedTypes, SlotsAreNumbers DEF TypeOK, Memory
<1>4. Holds({Root})'
  BY <1>1, <1>2, FormattedTree, FormattedFatIs DEF Holds, TextSound
<1> QED
  BY <1>1, <1>3, <1>4, RootIsBlock DEF FsInv, FatsAgree, TypeOK, Memory

(* One entry closed on the way out. *)
LEMMA ExitCloseSound ==
  ASSUME SessionInv, ExitClose PROVE intact /\ FsInv' /\ FatsAgree'
<1>0. intact
  BY DEF ExitClose, SessionInv
<1>1. /\ my_close /\ currOftIndex # 0 /\ mode' = "cmd"
      /\ fat1' = fat1 /\ fat2' = fat2 /\ cd' = cd
  BY <1>0 DEF ExitClose, SessionInv
<1>2. TypeOK /\ TypeOK'
  BY <1>0, <1>1, MyCloseType DEF SessionInv, FsInv, TypeOK, Memory
<1>3. PICK D \in SUBSET Block : Holds(D)
  BY <1>0 DEF SessionInv, FsInv
<1>4. Holds(D)'
  BY <1>1, <1>2, <1>3, CloseHolds
<1> QED
  BY <1>0, <1>1, <1>2, <1>3, <1>4 DEF FsInv, FatsAgree, SessionInv

(* A sound disk is made of cells. *)
LEMMA SoundIsMemory == FsInv => disk \in Memory
BY DEF FsInv, TypeOK, Memory

LEMMA InitSession == SessionInit => SessionInv
<1> SUFFICES ASSUME SessionInit PROVE SessionInv
  OBVIOUS
<1>1. FsInv /\ FatsAgree /\ intact /\ pc = "off" /\ ~image.intact
  BY InitSound DEF SessionInit
<1>2. disk \in Memory /\ image.vd = Cut(memory, 0)
  BY <1>1, SoundIsMemory DEF SessionInit
<1>3. image.vd.disk \in Memory
  BY <1>2, CutIsMemory DEF memory
<1> QED
  BY <1>1, <1>2, <1>3 DEF SessionInv

LEMMA NextSession ==
  ASSUME GoodUse, intact => StrayMisses, SessionInv, [SessionNext]_allVars
  PROVE  SessionInv'
<1>1. /\ disk \in Memory /\ image.vd.disk \in Memory
      /\ intact => FsInv /\ FatsAgree
      /\ image.intact => Restorable(image.vd)
      /\ pc = "exit" /\ intact => mode = "cmd"
      /\ ~intact => mode = "cmd" /\ cd = NoCd /\ currOftIndex = 0
  BY DEF SessionInv
<1>2. ASSUME FsInv', FatsAgree', intact' = TRUE, image'.vd.disk \in Memory,
             image'.intact => Restorable(image'.vd), pc' = "exit" => mode' = "cmd"
      PROVE  SessionInv'
  <2>1. FsInv' => disk' \in Memory
    BY DEF FsInv, TypeOK, Memory
  <2> QED
    BY <1>2, <2>1 DEF SessionInv
<1>3. ASSUME UNCHANGED <<vars, intact>>, image'.vd.disk \in Memory,
             image'.intact => Restorable(image'.vd), pc' = "exit" => mode = "cmd"
      PROVE  SessionInv'
  <2>1. /\ disk' = disk /\ mode' = mode /\ cd' = cd /\ currOftIndex' = currOftIndex
        /\ intact' = intact /\ UNCHANGED vars
    BY <1>3 DEF vars
  <2>2. intact => FsInv' /\ FatsAgree'
    BY <1>1, <2>1, NextSound
  <2> QED
    BY <1>1, <1>3, <2>1, <2>2 DEF SessionInv
<1>4. ASSUME EmptyImage
      PROVE  image'.vd.disk \in Memory /\ ~image'.intact
  <2>1. image'.vd = Cut(memory, 0) /\ ~image'.intact
    BY <1>4 DEF EmptyImage
  <2> QED
    BY <1>1, <2>1, CutIsMemory DEF memory
<1>5. CASE StartNew \/ ExitSave
  <2>1. EmptyImage /\ UNCHANGED <<vars, intact>> /\ pc' # "exit"
    BY <1>5 DEF StartNew, ExitSave
  <2> QED
    BY <1>3, <1>4, <2>1
<1>6. CASE StartRestored
  <2>1. PICK n \in ReadEnds(image.vd) :
          /\ fat1' = Cut(image.vd, n).fat1 /\ fat2' = Cut(image.vd, n).fat2
          /\ disk' = Cut(image.vd, n).disk
          /\ intact' = (image.intact /\ Cut(image.vd, n) = image.vd)
    BY <1>6 DEF StartRestored
  <2>2. /\ oft' = OnlyRootOpen(disk') /\ currOftIndex' = 0 /\ mode' = "cmd" /\ cd' = NoCd
        /\ pc' # "exit" /\ image' = image
    BY <1>6 DEF StartRestored
  <2>3. disk' \in Memory
    BY <1>1, <2>1, CutIsMemory
  <2>4. ASSUME intact' PROVE FsInv' /\ FatsAgree'
    <3>1. /\ Restorable(image.vd) /\ fat1' = image.vd.fat1 /\ fat2' = image.vd.fat2
          /\ disk' = image.vd.disk /\ oft' = OnlyRootOpen(image.vd.disk)
      BY <1>1, <2>1, <2>2, <2>4
    <3> QED
      BY <2>2, <3>1, RestoredHolds
  <2> QED
    BY <1>1, <2>2, <2>3, <2>4 DEF SessionInv
<1>7. CASE Command
  <2>1. [Next]_vars /\ UNCHANGED sessionVars /\ pc = "run" /\ intact
    BY <1>7 DEF Command, Next
  <2>2. FsInv' /\ FatsAgree'
    BY <1>1, <2>1, NextSound
  <2>3. image' = image /\ pc' = "run" /\ intact' = intact
    BY <2>1 DEF sessionVars
  <2>4. FsInv' => disk' \in Memory
    BY DEF FsInv, TypeOK, Memory
  <2> QED
    BY <1>1, <2>1, <2>2, <2>3, <2>4 DEF SessionInv
<1>8. CASE Spoil
  <2>1. /\ ~intact /\ intact' = intact /\ image' = image
        /\ mode' = mode /\ cd' = cd /\ currOftIndex' = currOftIndex
    BY <1>8 DEF Spoil, sessionVars
  <2>2. disk' \in Memory
    BY <1>8, SessionAssumption DEF Spoil, VD, Memory
  <2> QED
    BY <1>1, <2>1, <2>2 DEF SessionInv
<1>9. CASE Format
  <2>1. EmptyImage /\ intact' = TRUE /\ pc' = "save"
    BY <1>9 DEF Format
  <2> QED
    BY <1>2, <1>4, <1>9, <2>1, FormatRepairs
<1>10. CASE my_exit_sys
  <2>1. UNCHANGED <<vars, intact>> /\ image' = image /\ mode = "cmd"
    BY <1>10 DEF my_exit_sys
  <2> QED
    BY <1>1, <1>3, <2>1
<1>11. CASE ExitClose
  <2>1. /\ intact /\ FsInv' /\ FatsAgree'
    BY <1>11, ExitCloseSound
  <2>2. /\ mode' = mode /\ image' = image /\ pc' = "exit" /\ pc = "exit"
        /\ intact' = intact
    BY <1>11 DEF ExitClose, sessionVars
  <2>3. FsInv' => disk' \in Memory
    BY DEF FsInv, TypeOK, Memory
  <2> QED
    BY <1>1, <2>1, <2>2, <2>3 DEF SessionInv
<1>12. CASE FillImage
  <2>1. PICK n : image' = SavedTo(n)
    BY <1>12 DEF FillImage
  <2>2. /\ image'.vd.disk \in Memory
        /\ image'.intact => Restorable(image'.vd)
    BY <2>1, SavedIsRestorable
  <2>3. CASE pc = "save"
    BY <1>3, <1>12, <2>2, <2>3 DEF FillImage
  <2>4. CASE pc # "save"
    <3>1. Fresh /\ pc' = "off" /\ intact' = TRUE
      BY <1>12, <2>4 DEF FillImage, Fresh
    <3> QED
      BY <1>2, <2>2, <3>1, FreshSound
  <2> QED
    BY <2>3, <2>4
<1>13. CASE Killed
  <2>1. Fresh /\ pc' = "off" /\ intact' = TRUE
    BY <1>13 DEF Killed, Fresh
  <2>2. image' = image \/ \E n : image' = SavedTo(n)
    BY <1>13 DEF Killed
  <2>3. /\ image'.vd.disk \in Memory
        /\ image'.intact => Restorable(image'.vd)
    BY <1>1, <2>2, SavedIsRestorable
  <2> QED
    BY <1>2, <2>1, <2>3, FreshSound
<1>14. CASE UNCHANGED allVars
  <2>1. UNCHANGED <<vars, intact>> /\ image' = image /\ pc' = pc
    BY <1>14 DEF allVars, sessionVars
  <2>2. CASE intact \/ pc # "exit"
    BY <1>1, <1>3, <2>1, <2>2
  <2>3. CASE ~intact
    BY <1>1, <1>3, <2>1, <2>3
  <2> QED
    BY <2>2, <2>3
<1> QED
  BY <1>5, <1>6, <1>7, <1>8, <1>9, <1>10, <1>11, <1>12, <1>13, <1>14 DEF SessionNext

-----------------------------------------------------------------------------
(* Memory and image through starts, saves that break off anywhere, exits   *)
(* and kills: what counts as intact is sound, in memory and in the image.  *)
(* It holds for every set Breaks and every set Spoilt.                     *)
THEOREM SessionInvAlways ==
  ASSUME GoodUse
  PROVE  SessionSpec /\ [](intact => StrayMisses) => []SessionInv
<1>1. SessionInit => SessionInv
  BY InitSession
<1>2. SessionInv /\ (intact => StrayMisses) /\ [SessionNext]_allVars => SessionInv'
  BY NextSession
<1> QED
  BY <1>1, <1>2, PTL DEF SessionSpec

(* A process works on a sound disk, unless it was started from an image    *)
(* that was not written, or not read, to its end, and then from my_format  *)
(* on: of a torn image and of garbage my_format makes a sound disk, and    *)
(* nothing torn before shows in what is saved after it.                    *)
THEOREM RestoredStaysSound ==
  ASSUME GoodUse
  PROVE  SessionSpec /\ [](intact => StrayMisses) => []RestoredSound
<1>1. SessionInv => RestoredSound
  BY FsInvMeans DEF SessionInv, RestoredSound, DirectoriesSound
<1> QED
  BY <1>1, SessionInvAlways, PTL
=============================================================================

----------------------------- MODULE BlkDriver -----------------------------
(***************************************************************************)
(* exam3/exam3-2/blk_dev.c: a disk in memory of Total sectors, and the     *)
(* request queue through which the kernel reads and writes it.  The queue  *)
(* calls the driver with its lock held, so that requests are added only    *)
(* between two runs of do_my_blk_request.                                  *)
(*                                                                         *)
(* A request is a sequence of bios that follow each other on the disk; a   *)
(* bio is cut in segments, each in a page of its own.  A cut is a sequence *)
(* of bios, and a bio the sequence of the sectors, counted from the        *)
(* request's first, at which its segments end.                             *)
(***************************************************************************)
EXTENDS Integers, Sequences, SequencesExt

CONSTANTS
  Total,         \* TOTAL_SIZE, in sectors
  Cuts,          \* how requests are cut
  MaxReqs,       \* bound: requests in all
  MaxBlkLoads    \* bound: how often the module is loaded

ASSUME TotalAssumption == Total \in Nat \ {0}
ASSUME CutsAssumption ==
  /\ Cuts \subseteq Seq(Seq(Nat \ {0}) \ {<<>>}) \ {<<>>}
  /\ \A c \in Cuts : \A a, b \in DOMAIN c : \A i \in DOMAIN c[a], j \in DOMAIN c[b] :
       a < b \/ (a = b /\ i < j) => c[a][i] < c[b][j]
ASSUME BlkBounds == MaxReqs \in Nat /\ MaxBlkLoads \in Nat

JunkSector == <<-1, 0>>  \* what vmalloc returns
Foreign    == <<-2, 0>>  \* what lies in memory behind a segment

Sectors == 0 .. Total - 1

VARIABLES
  blkStep,   \* how many steps of ramvhd_init and ramvhd_exit are done
  blkHeld,   \* what the module holds, and "live" while the disk is known
  blkLoads,  \* how often it was loaded
  capacity,  \* of the gendisk, in sectors
  open,      \* whether somebody has the disk open
  made,      \* how many requests there have been
  queue,     \* the requests not fetched yet
  cur,       \* the request fetched, or None
  bio, seg,  \* where in it the driver is
  blkPos,    \* pos: the sector it has come to
  data,      \* what the pages of a read hold: a value for each of its sectors
  disk,      \* myramblock_buf
  asked,     \* what the disk holds when every request is carried out whole
  even,      \* whether all bios so far were cut in segments of one size
  lost       \* whether a request was fetched and left

blkModule == <<blkStep, blkHeld, blkLoads, capacity>>
blkWalk   == <<bio, seg, blkPos, data>>
blkVars   == <<blkModule, open, made, queue, cur, blkWalk, disk, asked, even, lost>>

None == [type |-> "none"]

BlkInit ==
  /\ blkStep = 0 /\ blkHeld = {} /\ blkLoads = 0 /\ capacity = 0
  /\ open = FALSE /\ made = 0 /\ queue = <<>> /\ cur = None
  /\ bio = 1 /\ seg = 1 /\ blkPos = 0 /\ data = <<>>
  /\ disk = [s \in Sectors |-> JunkSector]
  /\ asked = disk
  /\ even = TRUE /\ lost = FALSE
-----------------------------------------------------------------------------
(* ramvhd_init and ramvhd_exit. *)

BlkInitSteps == <<"memory", "major", "disk", "queue", "live", "capacity">>

\* mutant: the memory goes before the queue that works on it
ExitMemoryFirst == <<"live", "disk", "major", "memory", "queue">>

BlkExitSteps == <<"live", "disk", "major", "queue", "memory">>

(* The labels fall through: all that the steps before had taken.           *)
BlkRollBack(i) == {BlkInitSteps[j] : j \in 1 .. i - 1}

(* set_capacity before add_disk, and after. *)
Capacity(s) == IF s = "capacity" THEN Total ELSE 0

Fallible == {"memory", "major", "disk", "queue"}

ramvhd_init ==
  /\ blkStep < Len(BlkInitSteps)
  /\ blkStep = 0 => blkLoads < MaxBlkLoads
  /\ blkLoads' = IF blkStep = 0 THEN blkLoads + 1 ELSE blkLoads
  /\ LET s == BlkInitSteps[blkStep + 1]
     IN  \/ /\ blkStep' = blkStep + 1
            /\ blkHeld' = blkHeld \cup ({s} \ {"capacity"})
            /\ capacity' = Capacity(s)
         \/ /\ s \in Fallible
            /\ blkStep' = 0
            /\ blkHeld' = blkHeld \ BlkRollBack(blkStep + 1)
            /\ UNCHANGED capacity
  /\ disk' = [s \in Sectors |-> JunkSector]
  /\ asked' = disk'
  /\ UNCHANGED <<open, made, queue, cur, blkWalk, even, lost>>

(* Not while the disk is open: the module owns the operations. *)
ramvhd_exit ==
  /\ blkStep >= Len(BlkInitSteps) /\ ~open
  /\ LET e == blkStep - Len(BlkInitSteps) + 1
     IN  /\ blkHeld' = blkHeld \ {BlkExitSteps[e]}
         /\ blkStep' = IF e = Len(BlkExitSteps) THEN 0 ELSE blkStep + 1
  /\ capacity' = 0
  /\ UNCHANGED <<blkLoads, open, made, queue, cur, blkWalk, disk, asked, even, lost>>
-----------------------------------------------------------------------------
(* The block layer. *)

my_blk_open ==
  /\ "live" \in blkHeld /\ ~open
  /\ open' = TRUE
  /\ UNCHANGED <<blkModule, made, queue, cur, blkWalk, disk, asked, even, lost>>

(* Whoever closes the disk last waits for its requests. *)
my_blk_release ==
  /\ open /\ queue = <<>> /\ cur = None /\ ~lost
  /\ open' = FALSE
  /\ UNCHANGED <<blkModule, made, queue, cur, blkWalk, disk, asked, even, lost>>

LengthOf(r) == Last(Last(r.bios))

(* Each sector of a write has a value of its own. *)
Word(r, k) == <<r.val, k>>

Transfers ==
  [type : {"fs"}, write : BOOLEAN, sector : Sectors, val : {made}, bios : Cuts]

(* Where bio b begins, in sectors of the request. *)
StartOf(bios, b) == IF b = 1 THEN 0 ELSE Last(bios[b - 1])

(* The segments of each bio have one size. *)
EvenCut(bios) ==
  \A b \in DOMAIN bios : \A i \in 2 .. Len(bios[b]) :
    bios[b][i] - bios[b][i - 1] = bios[b][1] - StartOf(bios, b)

(* A request that is no transfer, or one inside the capacity: the kernel   *)
(* refuses others. *)
Submit ==
  /\ open /\ cur = None /\ made < MaxReqs
  /\ \/ queue' = Append(queue, [type |-> "other"]) /\ UNCHANGED even
     \/ \E r \in Transfers : /\ r.sector + LengthOf(r) <= capacity
                             /\ queue' = Append(queue, r)
                             /\ even' = (even /\ EvenCut(r.bios))
  /\ made' = made + 1
  /\ UNCHANGED <<blkModule, open, cur, blkWalk, disk, asked, lost>>
-----------------------------------------------------------------------------
(* do_my_blk_request. *)

Fetch ==
  /\ cur = None /\ queue # <<>>
  /\ cur' = Head(queue)
  /\ queue' = Tail(queue)
  /\ bio' = 1 /\ seg' = 1
  /\ blkPos' = IF cur'.type = "fs" THEN cur'.sector ELSE 0
  /\ data' = IF cur'.type = "fs" THEN [k \in 1 .. LengthOf(cur') |-> JunkSector] ELSE <<>>
  /\ UNCHANGED <<blkModule, open, made, disk, asked, even, lost>>

(* The first sector, within the request, of this bio and of this segment.  *)
BioStart == StartOf(cur.bios, bio)
SegStart == IF seg = 1 THEN BioStart ELSE cur.bios[bio][seg - 1]

(* bio_cur_bytes: always the size of the first segment. *)
CurSize == cur.bios[bio][1] - BioStart

OutOfRange == blkPos + CurSize > Total

(* What the pages hold from the start of the segment on, as far as it goes. *)
InSegment(i) == SegStart + i < cur.bios[bio][seg]
PageWord(i)  == IF InSegment(i) THEN Word(cur, SegStart + i) ELSE Foreign

CopyWrite ==
  /\ disk' = [s \in Sectors |->
                IF s \in blkPos .. blkPos + CurSize - 1 THEN PageWord(s - blkPos) ELSE disk[s]]
  /\ UNCHANGED data

CopyRead ==
  /\ data' = [k \in DOMAIN data |->
                LET i == k - 1 - SegStart
                IN  IF i \in 0 .. CurSize - 1 /\ InSegment(i) THEN disk[blkPos + i] ELSE data[k]]
  /\ UNCHANGED disk

\* mutant: the position is not moved on
AdvanceStays ==
  IF seg < Len(cur.bios[bio]) THEN seg' = seg + 1 /\ UNCHANGED <<blkPos, bio>>
  ELSE /\ seg' = 1 /\ bio' = bio + 1
       /\ blkPos' = cur.sector + Last(cur.bios[bio])

(* The next segment; the next bio starts where the block layer says.       *)
Advance ==
  IF seg < Len(cur.bios[bio]) THEN seg' = seg + 1 /\ blkPos' = blkPos + CurSize /\ UNCHANGED bio
  ELSE /\ seg' = 1 /\ bio' = bio + 1
       /\ blkPos' = cur.sector + Last(cur.bios[bio])

Transfer ==
  /\ cur.type = "fs" /\ bio <= Len(cur.bios)
  /\ ~OutOfRange
  /\ IF cur.write THEN CopyWrite ELSE CopyRead
  /\ Advance
  /\ UNCHANGED <<blkModule, open, made, queue, cur, asked, even, lost>>

RequestEnded == cur.type # "none" /\ (cur.type = "fs" => bio > Len(cur.bios))

(* Carried out, or ended with an error when it is no transfer. *)
End ==
  /\ RequestEnded
  /\ asked' = IF cur.type = "fs" /\ cur.write
                THEN [s \in Sectors |->
                        IF s \in cur.sector .. cur.sector + LengthOf(cur) - 1
                          THEN Word(cur, s - cur.sector) ELSE asked[s]]
                ELSE asked
  /\ cur' = None
  /\ bio' = 1 /\ seg' = 1 /\ blkPos' = 0 /\ data' = <<>>
  /\ UNCHANGED <<blkModule, open, made, queue, disk, even, lost>>

(* Out of range: the driver returns with the request fetched.              *)
Leave ==
  /\ cur.type = "fs" /\ bio <= Len(cur.bios)
  /\ OutOfRange
  /\ lost' = TRUE
  /\ cur' = None
  /\ bio' = 1 /\ seg' = 1 /\ blkPos' = 0 /\ data' = <<>>
  /\ UNCHANGED <<blkModule, open, made, queue, disk, asked, even>>

do_my_blk_request == Fetch \/ Transfer \/ End \/ Leave

BlkNext ==
  \/ ramvhd_init \/ ramvhd_exit \/ my_blk_open \/ my_blk_release
  \/ Submit \/ do_my_blk_request

BlkSpec == BlkInit /\ [][BlkNext]_blkVars

(* The kernel runs the queue. *)
BlkFair == BlkSpec /\ WF_blkVars(do_my_blk_request)
-----------------------------------------------------------------------------
(* A module that failed to load or is unloaded holds nothing; a queue can  *)
(* run, so it has its memory; a disk that can be opened has everything.    *)
NothingMissing ==
  /\ blkStep = 0 => blkHeld = {}
  /\ "queue" \in blkHeld => "memory" \in blkHeld
  /\ "live" \in blkHeld => {"memory", "major", "disk", "queue"} \subseteq blkHeld

(* Cut evenly, a read that ends delivers, sector by sector, what the       *)
(* requests before it have written, however they and it were cut.          *)
ReadsLastWritten ==
  even /\ RequestEnded /\ cur.type = "fs" =>
    (~cur.write => \A k \in DOMAIN data : data[k] = asked[cur.sector + k - 1])

(* Cut evenly, the disk holds between two requests what was asked of it    *)
(* and nothing else: no request changes the sectors of another.            *)
OnlyRequested == even /\ cur = None => disk = asked

(* Cut evenly, requests transfer exactly the sectors they are for.         *)
TransfersExact == ReadsLastWritten /\ OnlyRequested

(* The queue runs empty, however the requests are cut, and a request the   *)
(* kernel let pass is left, fetched and never ended, only when one was cut *)
(* unevenly: cut evenly, none is out of the driver's range.                *)
Requested   == queue # <<>> \/ cur # None
AllDone     == queue = <<>> /\ cur = None /\ (even => ~lost)
RequestsEnd == Requested ~> AllDone

(* The comment on line 62: size is how much data is wanted.                *)
SizeIsWanted == cur = None /\ ~lost => disk = asked
=============================================================================

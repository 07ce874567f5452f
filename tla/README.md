# HDU-OS-Experiment: specifications in TLA+

The repository holds the programs of an operating systems course: a FAT file
system in one process, three small programs on inter-process communication, two
Linux drivers, a system call and two modules that print process lists. This
project specifies the ones with logic of their own, checks them with TLC and
proves theorems about them with TLAPS. Paths below are relative to `src/`.

## 1. The system

The programs are independent: they share no code and no data. Inside each, the
parts interact as follows.

| Component | State | Operations | What is hard | What makes it correct |
|---|---|---|---|---|
| **File system** (`exam5/File_System/main.cpp`), FAT | `fat1`, `fat2`: next block, END or FREE, per block | allocate, link, cut, free | full disk half way; blocks forgotten or freed twice; index END behind the table | tables equal; chains disjoint, long enough and ended; no block lost |
| — directories | blocks of 32-byte FCBs, entry 0 and 1 are "." and ".." | create, find, delete, length counting, rmdir of a tree | four search loops without a bound of their own; stale slots of recycled blocks; names cut at 8 + 3 characters | a length counts its entries; the searches agree; names unique |
| — open file table | `OftList`, `currOftIndex` | open, close, cd | copies of FCBs that the disk's change under; table full; parent must be open; cd undone by calling itself | copies agree with the disk; open entries are a path; cd returns and ends |
| — contents | data blocks | write (rewrite, append), read | chunks that fill a block exactly; disk full; read-only flag kept twice | nobody else's text changes; the own text only grows |
| — session | `VDPtr`, the image file | start, format, exit, save | killed while saving; a disk written or read in part, unnoticed | what is restored whole is sound, and what was not is after formatting; exit ends |
| **Message queue** (`exam4/4/msgqueue.c`) | a System V queue, semaphores `send`, `rec`, `point`, two threads | send words, receive, answer "end" | one message type and one semaphore for two purposes; a queue that outlives its process and is shared by key | turns; no deadlock; ends; queue never full |
| **Shared memory chat** (`exam4/5`) | shared memory, named semaphores, two processes | say, answer, unlink | order of start; names and values left by a killed process | each reads what the other wrote; nothing left over |
| **Pipe** (`exam4/3/pipe.c`) | a pipe, three children | write a message each, read three times | fork failing; children still running when the parent ends; lines buffered across a fork | every message read and shown once; it ends |
| **Character driver** (`exam3/exam3-1`) | 512 bytes, a position per open file | llseek, read, write, init, exit | no lock, one file shared by two processes; limits; roll-back of a failed init | stays inside the 512 bytes; reads what was written |
| **Block driver** (`exam3/exam3-2`) | the disk's memory, request queue | transfer requests, init, exit | a request out of range; segments of unequal size; roll-back and order of exit | every request ended; only its range changes |
| **Priorities** (`exam1/sys.c`: `mysetnice`, `setpriority`, `getpriority`, `prlimit64`) | nice values, limits | read or set, for a process, a group, a user | refusals half way through a group; calls that interleave; results that look like errors | a value is earned; the result tells what was done |
| **Ids** (`exam1/sys.c`: `setuid` and seven others) | real, effective, saved, file system ids | set | sequences of calls | root given up never comes back |
| **Process groups** (`exam1/sys.c`: `setpgid`, `setsid`) | group and session of each process | move, begin | groups that outlive their founders | groups nest in sessions |
| **Process lists** (`exam2`) | none of their own | walk the kernel's lists | no lock; a walk that starts at a member | complete when nothing changes; ends |
| **Shell** (`exam4/2`) | none of its own | fork and wait | — | — |

Calls inside the file system: `main` → `initsys`, then per line `excuteCmd` →
`my_*`; these → `createfile`, `deleteFile`, `do_write`, `open_curpath`,
`my_close` → FAT, directory and table helpers. All of it runs in one thread;
what interleaves is the order of the commands, the loops that run between two
of them, and the death of the process.

## 2. The modules

| Module | Models |
|---|---|
| `Fat` | the allocation table as a function; operators that take a table and return what the code makes of it |
| `FileSystem` | EXTENDS `Fat`: globals and disk as variables, one action per command of the prompt or per pass of a loop of `my_cd` and `my_write` |
| `FileSystemInv` | EXTENDS `FileSystem`: its properties |
| `FileTree` | abstract specification: a tree of names, flags and texts, and a place in it |
| `FileSystemTree` | EXTENDS `FileSystemInv`: the refinement mapping, by which the commands implement `FileTree` |
| `FileSystemMC` | the constants' values for TLC |
| `FileSystemProofs` | theorems about `FileSystem`: its types and its two tables |
| `DiskProofs` | EXTENDS `FileSystemProofs`: theorems about blocks, directories and open files |
| `TextEntry` | the loop of `my_write` that takes what is typed, character by character |
| `FcbDates` | the dates in FCBs, packed in 16 bits, on the disk and in the open copy |
| `Session`, `SessionMC` | EXTENDS `FileSystemInv`: starting, saving, exiting and being killed, around the commands of `FileSystem` |
| `SessionProofs` | EXTENDS `DiskProofs`: theorems about `Session` |
| `Dialogue` | abstract specification: two that talk in turn |
| `MsgQueue`, `MsgQueueMC` | `msgqueue.c`, one action per call of a thread; implements `Dialogue` |
| `MsgQueueProofs` | theorems about `MsgQueue` |
| `ShmChat` | `exam4/5`, one action per call of a process |
| `ShmChatProofs` | theorems about `ShmChat` |
| `PipeFork` | `pipe.c`, one action per call of a process |
| `CharDriver` | `c_driver.c` with `usertest.c` and other users of the device |
| `BlkDriver`, `BlkDriverMC` | `blk_dev.c` under the kernel's request queue |
| `DriverProofs` | theorems about `CharDriver` and `BlkDriver` |
| `Ids`, `Creds` | what the id calls of `sys.c` make of four ids (operators); a process that makes them |
| `Priority` | EXTENDS `Ids`: `mysetnice` and what it is made of and depends on |
| `ProcGroups` | `setpgid` and `setsid` among processes that come and go |
| `SysProofs` | theorems about `Creds`, `ProcGroups` and `Priority` |
| `TaskList` | `first.c` and `second.c`, link by link |
| `ProgramProofs` | theorems about `FcbDates`, `TextEntry`, `PipeFork` and `TaskList` |
| `Parts`, `PartsMC` | EXTENDS `CharDriver`, `BlkDriver`, `Creds`, `ProcGroups`, `Priority`, `TaskList`, `PipeFork`, `TextEntry` and `FcbDates`, which stand for themselves: one of them runs |

### FileSystem and the code

- **Disk.** A block is `FCB_NUM` cells of the size of an FCB (32 cells of 32
  bytes in the code). A cell is an FCB or a piece of text: the program casts
  blocks freely, and reads text as FCBs in some orders of commands. Lengths and
  positions count cells. A piece of text never looks like an FCB in use with a
  name the user types.
- **Names.** A name is a value, with its extension; `Stored` says what an FCB
  keeps of it. Commands the code refuses because of the shape of the name
  (a directory with an extension, a file without) have no action: they change
  nothing.
- **Table.** `oft` and `currOftIndex` are the globals of the same names. The
  `dirName` string is the sequence of its components.
- **Directories.** `Scanned` is the set of slots a search loop visits, given
  the length it believes in; each loop is then the first slot of that set with
  what the loop tests, in the loop's order.
- **my_rmdir.** `deleteDirAtFat` is the set of chains it frees (`FreedBlocks`).
  The recursion changes nothing but `fat1`, and, once a file is met, the word
  at `fat1[END]` (`StrayFree`); what it reads of the tree is read before.
- **my_write.** Mode "text": each full buffer is one `WriteBuffer`, the rest at
  the end mark one `WriteRest`. `do_write` gives up where the code does, and
  leaves behind what the code leaves.
- **my_cd.** Mode "cd": one step per component of the path, per entry closed on
  the way to the root, and per recursive call. The only pending work of a
  recursive call is a return, so a depth replaces the stack.
- **my_close.** When the parent is not open the code does nothing, or leaves
  `currOftIndex` at -1; the action requires a parent. `ParentOpen` shows that
  there always is one.
- **my_ls.** `Listed` is the set of slots whose entries it prints.
- **Left out:** what `my_read` and `help` print; splitting the command line; buffers that a long name or line overruns; the length in "."
  of directories other than the root, which is never read; the table entries
  of the blocks below the root's.

### Session

`pc` is where `main` is. The image is written in two steps: `fopen` with "w"
empties it (`EmptyImage`), `fwrite` and `fclose` fill it (`FillImage`), and
nobody looks at what they return.

- **Torn images.** Writing may break off: the machine's disk is full
  (`FillImage` with a place of `Breaks`) and the process goes on, or it is
  killed (`Killed`). The image then holds what comes before that place in the
  order of the disk, first table, second table, cells. `Cut` is this part, with
  zeros behind it: that is what `fread` makes of it in the memory `initsys` has
  from `malloc`. (Zeros, because a block of this size comes fresh from the
  system; `Init` of `FileSystem` relies on it as well. A debug build of Visual
  Studio fills it with 0xCD instead.) Places are counted in table entries and
  cells; one inside of an entry or cell leaves a part of it, and what `Session`
  says of a torn image holds of this too.
- **Text mode.** The file is opened with "w" and "r". In Visual Studio's
  library, which the program's README names, line ends are doubled on the way
  out and undone on the way in, so this changes nothing of what is read back; but
  reading ends at a byte 26. With `TextMode`, `ReadEnds` lists where: always at
  a link with such a byte (a link to block 26 is one), possibly in the boot
  block, which holds an address, and at every cell that is not blank, as dates,
  lengths and text are bytes the model does not have. Without, as under Linux,
  the whole file is read.
- **intact** is history: the disk in memory was formatted, or is what an intact
  process had saved, all of it. `image.intact` is its value for the image. A
  part that happens to be everything (zeros are all that is missing) counts.
- **On a disk that is not intact** the commands are not modelled: they may loop,
  crash (`Killed`) or leave anything (`Spoil`, which puts one of `Spoilt` on the
  disk). `my_format`, starting, saving and exiting are.
- Two processes on one image at a time, and a machine that goes down with
  written blocks still in memory, are left out.

### FileTree

The mapping reads the tree off the disk: directories by their blocks, text by
following chains. The place, `Here`, is read off the `dirName` string that the
prompt shows, which the code keeps apart from the blocks. `FileTree` names what
a user may rely on: an entry is created empty and under a new name, removed
with all below it and nothing else, a text grows only at its end, only in the
open file and not when it is read-only, and `cd` goes one step at a time to
what exists. A command may always be refused (`Refuse`); the code refuses for
want of blocks, slots or entries of the open file table.

### MsgQueue

`sPc` and `rPc` name the call that comes next. Either the program is `alone`
with its queue, as on its first run; or the queue holds some of `Leftovers`,
and another run may remove it at any time. Failing calls end the process
(`Fail`), as `exit(1)` does.

### ShmChat

Both programs are straight lines of calls: `SenderMain` and `ReceiverMain` list
them, `pc` counts those made. A semaphore or a segment is an object with a
number, apart from its name: `sem_unlink` and `IPC_RMID` remove the name only,
and processes go on with what they have open. That matters because the user may
start either program again while the last partner is still on its way out
(`early`), and because processes may be killed anywhere (`killed`): `trouble`
records both and decides which properties apply. With neither, the exchange is
in order, nothing is left over and both end. With one of them the next pair may
hang, but the memory stays exclusive. With both, a turn left in an old
semaphore meets a new one, and it does not.

### TextEntry and FcbDates

`tmp` in `my_write` is a string of two characters with no room for the end
mark once it holds a second one: what lies behind it in memory is appended as
well, some text of `Behind`. After that the buffer may overrun, and the model
stops (`"overrun"`).

In `FcbDates` the clock goes on between any two stamps. `truth` remembers the
moments a stamp may rightly show. A day that begins between the two halves of a
stamp is among the moments; a clock that is set back to another day is not
(`ClockAssumption`).

### PipeFork

`stdout` is a terminal, or a file: then a process keeps its lines until it
exits, and `fork` copies them. A read without a message and without a writer
shows the buffer as it was, `"junk"`.

### CharDriver and BlkDriver

A module is loaded and unloaded step by step, each step of loading may fail,
and what it holds is a set. In `CharDriver` a call fetches the position, copies
byte by byte and stores the position, in separate steps; two processes may
share an open file. The kernel keeps a module while its file operations are in
use, since both set `.owner`.

In `BlkDriver` a request is cut in bios and a bio in segments. A member of
`Cuts` is one way to do so: a sequence of bios, each the sequence of the
positions in the request at which its segments end. One step of `do_my_blk_request` transfers one segment. `asked` is the
disk as it would be if every request were carried out exactly.

### Ids, Creds, Priority, ProcGroups

The calls are those of `exam1/sys.c`. What decides in them and is not in the
repository (`can_nice`, `security_task_fix_setuid`, fork, exec, exit) is
modelled as the callers use it and marked external. In `Priority` each task a
call visits is one step, and setting its value another; the calls of several
tasks interleave. `lowest` is the best value each task was ever entitled to.
The result of `mysetnice` is modelled with its `EFAULT`, which is positive.

### TaskList

A list is a ring of links, with the heads in it. `DelRcu` leaves the link that
was taken out as it is, `DelInit` makes a ring of it: that is why a walk of all
tasks comes back and a walk of children may not.

### Parts

The nine programs share no variable and call none of each other's operators:
what one of them may do does not depend on another. An instance in which one
runs and the others stay as they begin therefore shows of each what an instance
of its own would, and the properties of all are checked by one run. `PartsEnd`
joins the liveness property of each: `CatEnds`, `RequestsEnd`, `WalksEnd`,
`PipeEnds`.

## 3. What is checked

| Run | Instance | Shows |
|---|---|---|
| `fs_contents` | 2 free blocks of 4 cells, a directory, 2 files, 2 kinds of text, rests of 0 and 3 cells, attributes set and cleared | `FatsAgree`, `BlocksDisjoint`, `ChainCoversLength`, `OftCoherent`, `OthersUntouched`, `TextIsAppended` |
| `fs_tree` | 2 free blocks of 4 cells, a directory and a file name, `cd` up and down, table of 3 | `ImplementsTree`: the program refines `FileTree` |
| `fs_cd` | 2 free blocks of 4 cells, six paths, 2 directories and a file with the name of one of them, table of 3 | `TypeOK`, `ParentOpen`, `DirectoriesSound`, `CdLands`, `OnlyWritingOrphans`, `CdEnds` |
| `session_restart` | the file system with 2 free blocks, 2 saves, text mode, writing that breaks off between the tables or in the root directory, two disks full of garbage | `RestoredSound`: what is restored from an image written and read to its end is sound, and so is what `my_format` makes of any other disk; `ExitEnds` |
| `msg` | 3 words, one of them "over"; alone, or with up to 2 messages left over and removal | `NeverFails`, `QueueBounded`, `EndHeard`, `TalksInTurn`, `Terminates`, no deadlock when alone |
| `shm_chat` | one word, any number of starts, kills and restarts | `ExclusiveUse`, `AnswerIsHeard`, `NothingLeft`, `CallsSucceed`, `BothEnd` |
| `parts` | character device of 5 bytes; disk of 3 sectors, 3 requests; 3 user and 2 group ids; 4 processes in groups; 2 tasks with 2 nice values and 3 calls; 4 tasks in lists, 5 changes; blocks of 3 characters, 7 typed; 5 moments | `StaysInside`, `HoldsWhatIsUsed`, `ReadsWhatIsThere`; `NothingMissing`, `TransfersExact`; `PrivilegeSound`, `IdsNeverGrow`; `GroupsNest`; `NiceIsEarned`, `CallsTell`; `CalmIsComplete`; `NothingUnread`; `EntryIsWritten`; `DatesAreTrue`; `PartsEnd` |

The runs that find a disagreement are listed below.

**Bounds.** The hard cases are limits: the disk, a directory and the open file
table full, a text that fills a block exactly, a block that comes back with old
entries in it. Every instance is small enough that these happen after few
commands: two free blocks already allow chains, trees, reuse and exhaustion.
Nothing is bounded by a constraint. In the file system only `MaxSaves` bounds a
counter, the number of times the image is written. `Breaks` are two places where
writing breaks off (that nothing is written at all is always possible): tables
that disagree, and a root directory without its entries. `Spoilt` are a disk of
text, with links to block 26, and one with a file entry in each cell. In `parts`:
`MaxCharLoads` and `MaxBlkLoads` (loads of a module: what a failed or complete
load leaves is the state before the first, so one is enough),
`MaxCharCalls` (calls of the process that makes any; the other two make as many
as they need), `MaxReqs` (three: two writes that could overlap and a read),
`MaxPrioCalls` (three: two that set and one that changes a limit or ids under
them), `MaxChanges` (five: two tasks that begin, two that end, and one between),
`MaxTyped` (two blocks, and a mark that begins a third). A limit of 1 entitles
to the worse of the two nice values only, a limit of 2 to both; one task is a
set-user-ID program of root with a hard limit of 1, the other an ordinary one
with a hard limit of 2.
The positions `StrayBlock = 128` and the disk size keep the code's proportion
in that a small disk does not reach the stray store; `fs_stray` puts it inside.
`OpenInsideFile` is FALSE in the passing runs, because after `my_open` inside a
file nothing holds; `fs_open_inside` shows why. Texts are interchangeable in
`fs_contents`, hence the symmetry; no liveness is checked with it.
`ReadsLastWritten` and `OnlyRequested` are for bios cut in equal segments;
`blk_unequal` shows what becomes of others. `RequestsEnd` is for all: the queue
runs empty, and a request is left, fetched and never ended, only after one was
cut unevenly. `WalksEnd` is for walks that the changes of a list meanwhile have
not thrown off it: it says that standing at a task that ended, or having lost
one's own place, are the only ways to go round for ever.

**Fairness.** `CdEnds`: a running `my_cd` goes on (`WF_vars(CdStep)`); the
prompt owes nothing. `ExitEnds`: the process goes on while it exits, unless it
is killed, which the property counts as an end; the disk is intact. `Terminates`: each thread is
scheduled; the user need not type. `BothEnd`: each process is scheduled; a user
who does not type is one of the ends it allows. `PartsEnd`: processes that have
entered a call or a walk are scheduled and the kernel runs the request queue;
nobody need open, load, type or fork. The scheduler owes weak fairness to every
runnable process, and no more is assumed.

**Each property has a mutant** beside the definition it changes, marked
`mutant` in the modules: a plausible slip in the code that the property finds.

### Disagreements found

| Run | What the code says of itself | What it does |
|---|---|---|
| `fs_leak` | main.cpp:507 "clear the blocks after it" | a shorter rewrite cuts the chain and loses the blocks |
| `fs_stray` | main.cpp:738 "delete the given block number on the FAT" | also stores FREE behind the table, in block 128 |
| `fs_open_inside` | main.cpp:1142 "open a data file in the current directory" | opens cells of a file's text as entries |
| `session_lost` | main.cpp:1327 "read the file, restore the system" | killed while saving, the next process starts on a part of a disk, or on zeros |
| `blk_unequal` | blk_dev.c:62 "the amount of data that is wanted" | takes the size of the bio's first segment for each: a write stores what lies behind a smaller one |

More were met while modelling and have no run. `createfile` compares the
whole name typed with the eight characters an FCB keeps (main.cpp:653), so a
longer name is never found again and can be created twice; `Stored` models the
cut, and the runs use names that fit. And `my_ctrl` accepts only argument 2 for
a name without extension (main.cpp:899), so a hidden directory stays hidden,
although the prompt at main.cpp:1522 offers to show it again. `my_write` takes
"#x" for two characters and appends what lies behind `tmp` to them, and "##&"
does not end a text, although main.cpp:1120 calls the mark "#&"
(`TextEntry!EndsAtMark` states what does); at the end of the input it does not
end at all. Dates from 2028 on wrap. `second.c` prints one line too many, for
the head of the list of siblings, which lies in the parent (`CalmIsComplete`),
reads lists that change without a lock, goes round for ever at a task that ended
meanwhile, and follows NULL for a number without a process. `pipe.c`, redirected to a file, reports a failed fork once more for
each later child.

## 4. What is proved

Every theorem is for all values of the constants that satisfy the named
assumptions of the modules, so for disks, devices, groups and texts of any size
and for any number of processes the module allows. Each inductive invariant was
checked with TLC on a small instance before it was proved.

**File system** (`FileSystemProofs`)

- `TypeCorrect`: `Spec => []TypeOK`. `TypeOK` is inductive by
  itself. The proof is one lemma per action; under them lie lemmas on the
  searches (what `FirstOf` returns is a slot it looked at: this needs that a
  non-empty set of numbers has a least element, proved by well-foundedness),
  on stores into cells, and on what `do_write` returns in each of its exits.
- `FatsAgreeAlways`: `Spec => []FatsAgree`, inductive by
  itself; the step that needs work is `do_write` with its early returns.

**File system, blocks and directories** (`DiskProofs`)

- `FsInvAlways`: `Spec /\ []StrayMisses => []FsInv`, the inductive invariant.
  `FsInv` describes table and disk by a set D of directories: `LinksSound` (the
  links of the table lead from block to block, never two to the same and never
  to a free one), `DirBlock` (what the cells of a directory are), `EntrySound`
  (a directory's length counts its entries; a file has a chain that begins
  nowhere else and is as long as its length needs), `TreeSound` (D is closed
  under entries; no two entries are of one block or, in one directory, of one
  name), `PathSound` (the open entries are copies of entries of the disk, a path
  from the root) and `TextSound` (text is typed at the end of a file). `FsInv`
  says that such a D exists, not that it is the set `Dirs` of directories that
  can be reached: `Dirs` is a least fixed point, and how a command changes it is
  hard to say, while each command makes a D that is plain to see. `createfile`
  adds the block of a new directory; `deleteFile` takes away those that hang
  from the entry (`SubtreeIs`: what `deleteDirAtFat` comes to belongs to no other
  entry); all others leave D as it is. After each step `DirsHold` turns to `Dirs`.
- `BlocksNeverShared`, `ChainsCoverLengths`, `TableIsCoherent`, `PathIsOpen` and
  `DirectoriesStaySound` follow. The first needs that chains end, which is proved
  without induction: the links of a chain are injective and miss its first
  block, so on a finite chain they do not all stay in it (`ChainEnds`).
- `TextOnlyGrows`: `do_write` fills the cells behind the position it starts at,
  in the last block or in free ones it links to it, so the walk that finds the
  old text passes through cells and links that stay (`DoWriteKeeps`,
  `DoWriteAppends`). Without `FsInv` this is not so: the position could lie in
  the middle, or the chain lead through another's blocks.
- `CdAlwaysLands` from `FsInv` and `CdInv`. `Trail` says that a path leads from
  the root through directories of the disk and fits the table; while `my_cd`
  tries a path, `home` has such a trail (`Leads`), and once it has failed it is
  on the way along it (`OnWay`), so its next name is found and there is an
  entry to open it in: it cannot fail again. `NoRoot` is the part that is easy
  to miss: a directory may be called "root", but `my_cd` never enters it, so
  that the name, where it begins the way back, stands for the root.
- `OnlyWritingLoses`, from `FsInv` before and after the step. Each command is
  shown to keep an entry with the blocks it has, or to free them with it
  (`KeepsBlocks`), and to keep every directory that a kept path leads to
  (`DirsStay`). For `rm` and `rmdir` this is the other half of `SubtreeIs`:
  what an entry takes with it and what `deleteDirAtFat` comes to are the same
  blocks (`GoesWith`, `FreedIs`), in a tree of any depth. `do_write` is
  excepted, since it does lose blocks (`fs_leak`).
- `OthersStayUntouched`: a file that is not open keeps length, walk and cells
  (`KeepsFiles`), as `do_write` stores only into the open file's chain and free
  blocks, and chains are apart (`DoWriteElsewhere`). Its hypothesis is more than
  `StrayMisses`: `StrayUnused`, that the block behind the table belongs to no
  directory and to no file. `fs_stray` violates this very property without it.
- Two hypotheses, because without them the properties are false of the code.
  `GoodUse`: `my_open` is typed in directories only (what happens otherwise is
  shown by `fs_open_inside`), and no name is cut to 8 + 3 characters (a cut name
  is not found by `createfile` and can be made twice). `StrayMisses`: the block
  that `deleteDirAtFat` stores into, behind the table, is at no time a directory
  (`fs_stray`); a file there may lose text, and no other property is disturbed.
  `SmallDisk`: a disk that ends before this block needs no such hypothesis, and
  that is the case in the passing runs, which satisfy `GoodUse` as well.

**Session** (`SessionProofs`)

- `RestoredStaysSound` from `SessionInv` (`SessionInvAlways`), under the same two
  hypotheses while the disk is intact, for all sets `Breaks` and `Spoilt` and in
  both modes. An intact disk satisfies `FsInv`; an intact image holds a table and
  a disk that fit together (`Restorable`), with some set of directories of its
  own; of every other disk, in memory or in an image, the invariant says that it
  is made of cells, and this is all that `my_format` needs (`FormatRepairs`):
  it writes both tables and marks every slot of the root, whatever it finds.
  What is saved whole from an intact disk is restorable (`SavedIsRestorable`),
  and what is restored whole, with nothing but the root open, satisfies `FsInv`
  again (`RestoredHolds`), whatever happened to the process that saved it.
- Nothing is proved of a process on a disk restored in part before it formats
  it, and nothing holds of it: `session_lost` shows how one comes about.

**Message queue** (`MsgQueueProofs`)

- `NoThreadFails` and `ThreadsTalkInTurn`, for a queue of its own (`alone`):
  neither is inductive, because what a thread finds in the queue
  depends on where the other is and on the semaphores. The strengthening `IInv`
  follows two tokens: one goes round from `rec` through the sender to `send`
  and the receiver, with the message; the other comes up with the answer, and
  goes through `point`, the sender and `send` a second time. From `IInv`, each
  call maps to a step of `Dialogue` or to none. `alone` is a variable that no
  step changes, the invariant is `alone => IInv`, and so are the two properties.
- `QueueStaysBounded` and `EndIsHeard`, for a queue that others use as well.
  What is in the queue is then arbitrary, so the invariant may not speak of it:
  `CountInv` counts tokens in semaphores and places of the threads only, and
  `Bounded` compares the length with what was left over and with the tokens
  whose message is not taken yet. A removal empties the queue, and is the
  reason that this is an inequality.

**Shared memory** (`ShmChatProofs`)

- `UseStaysExclusive`, `AnswersAreHeard`, `NothingIsLeft`, `CallsAlwaysSucceed`,
  from one invariant, `ShmInv`. Its parts differ in what they presuppose.
  `SenderHolds` holds of every use: the sender lets go of what it removes
  before it removes it, so what it has open is what the names stand for.
  `NotKilled` and `NotEarly` are two different reasons for which there is one
  turn at most. If nobody was killed, a receiver that still has an old
  semaphore open will find nothing in it. If nobody was started too early, a
  receiver has open what the sender has. `InOrder`, with neither, adds where
  each may be while the other is at a given place, which is what says whose
  word is in the memory. The proof goes call by call.

**Character driver** (`DriverProofs`)

- `CopiesStayInside` and `ModuleHoldsWhatIsUsed`, from `CharInv`: a call that
  runs has fetched a position and cut its count so that both stay within the
  device (`CallSound`), whatever happens to the shared position since; what the
  module holds is a function of its step but for the roll-back; who is in a
  call has the device open and so keeps the module.
- `WrittenIsRead`, for the test program while it is alone with the device: the
  invariant `TestInv` says how far each of its calls has come and what of the
  memory is `Hello` by then. `HelloAssumption` gives its text the length that
  the test presupposes.

**Block driver** (`DriverProofs`)

- `ModuleHoldsItsParts`, from `BlkModuleInv`: what is held is a function of the
  step of loading or unloading.
- `RequestsAreExact`, from `BlkInv`, which adds `RequestInv`: in the middle of a
  request, the part of its sectors before `blkPos` is as asked and the rest as
  before (`SoFar`), if segments are cut evenly (`EvenRequests`); and where the
  driver is in its bios and segments determines `blkPos` (`Placed`).
  `CutsAssumption` is what the block layer guarantees of its lists: no bio and
  no segment is empty, and segments follow each other.

**Calls of `sys.c`** (`SysProofs`)

- `PrivilegeIsSound` from `CredInv`: capabilities follow the ids, the file system
  id is root only for one who could be root, and who gave root up has none of
  the four ids and no capability left. `IdsNeverGrowAlways` is the action
  property: without capabilities no call brings in an id that was not there.
- `GroupsNestAlways` from `GroupInv`, which adds `NamedInSession`: a living
  process whose number is the name of a group is in the session of that group.
  Without it, a process that makes a group of its own number could find members
  of another session in it.
- `NiceStaysEarned` and `CallsTellAlways` from `PrioInv`. `Entitled`: the best
  (least) value a task was ever entitled to is above neither its nice value nor
  what its hard limit grants. `CheckedIsEarned`: between the check of a task and its
  `set_user_nice` other calls may change limits and ids; the value is earned
  nevertheless. `LoopsTell`: what the loop's `error` says of the tasks it has
  met. `LimitAssumption` has soft limits not above hard ones at the start,
  which `do_prlimit` keeps; `NoTaskAssumption` is about the encoding of "none".

**Small programs** (`ProgramProofs`)

- `DatesAreTrueAlways` from `DateInv`: what `my_close` would write is as true as
  what the disk shows, although one write stamps the two at different moments.
  `ClockAssumption` orders the dates an entry shows.
- `EntryIsWrittenAlways` from `EntryInv`: `hash` is the parity of the run of '#'
  that was read last (`HashIsOdd`), which is what ties the flag of `my_write` to
  the definition of an end mark; the buffer then holds what was typed.
- `NothingUnreadAlways` from `PipeInv`: every line is printed, or kept by a
  process that will print it, as often as the program's places say, also when a
  fork copied the buffer; each message is in the pipe or was read once; and the
  parent's reads are accounted for by what they returned.

- `CalmStaysComplete` from `ListInv`. That links form one ring is said without
  counting and without induction (`Ring`): no link leads out, no two lead to the
  same, and no part but the whole is closed under links. Adding and taking out
  keep this (`LinkAdded`, `LinkTaken`), so every task that lives is in the ring
  of all and in its parent's. The links a walk has `Passed` are those from its
  head on; when it is back at its head they are closed, hence all. Where the
  parent ends first the model has nothing to say: its tasks end after their
  children.

**Only model-checked.** The refinement of `FileTree`: `TheTree` finds paths by
recursion over directories, and that such a function exists and is unique needs
induction over data. Liveness (`CdEnds`, `ExitEnds`, `Terminates`, `BothEnd`,
`PartsEnd`) is beyond the prover and stays with TLC.

## 5. Plan

Done, in this order: `Fat`, `FileSystem` and its properties, `Session`, the
first two theorems, `MsgQueue` with `Dialogue` and their theorems, `ShmChat`,
`FileTree` and the refinement, the drivers, the calls of `sys.c`, the lists,
the pipe, text entry and dates; then the theorems about all of these. Next:

1. The steps of the refinement that need no recursion: that each command changes
   the entries of one directory, or one text, as `FileTree` has it, from
   `KeepsBlocks` and `KeepsFiles`.
2. `ImplementsTree` itself, if paths can be given without recursion, as the
   sequences of entries that lead from the root (as `Trail` does for `my_cd`).

## 6. Not modelled

- The shell of `exam4/2`: it forks a command that prints a line and waits.
- The rest of `exam1/sys.c` and `unistd.h`: Linux 4.12's own file with the calls
  that have nothing to do with `mysetnice` (reboot, uname, times, prctl, ...),
  and the table of system call numbers.
- `exam3/exam3-2/reference`: the example the driver follows, not built.
- Undefined behaviour of string functions on names and lines that overrun their
  buffers.
- The commands on a disk that was restored in part; errors of the machine's own
  file system other than that the image is not written to its end.
- User namespaces, threads and other limits than that of nice values in
  `sys.c`; a process's number of processes (`set_user`).
- Build files and scripts.

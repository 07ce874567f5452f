----------------------------- MODULE CharDriver -----------------------------
(***************************************************************************)
(* exam3/exam3-1: c_driver.c, a character device of MemLen bytes, and      *)
(* two processes that use it: usertest.c ("test") or one that reads until  *)
(* read returns 0 ("cat"), and one that makes any calls ("any"), on a file *)
(* of its own or on the one that "cat" has opened.                         *)
(*                                                                         *)
(* The kernel fetches the position of the file, calls the driver, and      *)
(* stores the position the driver leaves; no lock is held meanwhile, and   *)
(* none while the bytes are copied.                                        *)
(***************************************************************************)
EXTENDS Integers, Sequences, FiniteSetsExt

CONSTANTS
  MemLen,         \* len: the size of the device's memory
  Hello,          \* what usertest writes
  MaxCharCalls,   \* bound: the calls "any" makes
  MaxCharLoads    \* bound: how often the module is loaded

Procs == {"test", "cat", "any"}

Zero     == "0"      \* a byte that memset has cleared
JunkByte == "junk"   \* a byte as kmalloc returns it

ASSUME MemAssumption   == MemLen \in Nat \ {0}
ASSUME HelloAssumption == Hello \in Seq(STRING \ {JunkByte}) /\ Len(Hello) \in 4 .. MemLen
ASSUME CharBounds == MaxCharCalls \in Nat /\ MaxCharLoads \in Nat

VARIABLES
  charStep,   \* how many of CharInitSteps are done, or Exiting
  charHeld,   \* what the module holds: a subset of {"region", "memory", "cdev"}
  charLoads,  \* how often it was loaded
  mem,        \* my_dev->mem
  pos,        \* f_pos of each file
  shared,     \* whether "any" uses the file of "cat"
  writes,     \* whether "any" writes
  state,      \* of each process: "new", "open" or "closed"
  callNo,     \* how many calls each has made on the open file
  charCall,   \* the call each is in
  ret,        \* what its last call returned
  got         \* what its last read delivered

charModule == <<charStep, charHeld, charLoads>>
procVars   == <<state, callNo, charCall, ret, got>>
charVars   == <<charModule, mem, pos, shared, writes, procVars>>

NoCall == [op |-> "none"]

FileOf(p) == IF p = "any" /\ shared THEN "cat" ELSE p

CharInit ==
  /\ charStep = 0 /\ charHeld = {} /\ charLoads = 0
  /\ mem = [b \in 0 .. MemLen - 1 |-> JunkByte]
  /\ pos = [p \in Procs |-> 0]
  /\ shared \in BOOLEAN /\ writes \in BOOLEAN
  /\ state \in {[p \in Procs |-> IF p = q THEN "closed" ELSE "new"] : q \in {"test", "cat"}}
  /\ callNo = [p \in Procs |-> 0]
  /\ charCall = [p \in Procs |-> NoCall]
  /\ ret = [p \in Procs |-> 1]
  /\ got = [p \in Procs |-> <<>>]
-----------------------------------------------------------------------------
(* Loading and unloading. *)

\* mutant: the device is there before its memory is cleared
CharInitClearsLast == <<"region", "memory", "cdev", "clear">>

CharInitSteps == <<"region", "memory", "clear", "cdev">>

(* What is given back when this step fails; clearing does not fail.        *)
CharRollBack(s) ==
  CASE s = "cdev" -> {"memory", "region"} [] s = "memory" -> {"region"} [] OTHER -> {}

char_dev_init ==
  /\ charStep \in 0 .. Len(CharInitSteps) - 1
  /\ charStep = 0 => charLoads < MaxCharLoads
  /\ charLoads' = IF charStep = 0 THEN charLoads + 1 ELSE charLoads
  /\ LET s == CharInitSteps[charStep + 1]
     IN  \/ /\ charStep' = charStep + 1
            /\ charHeld' = charHeld \cup ({s} \ {"clear"})
            /\ mem' = CASE s = "memory" -> [b \in DOMAIN mem |-> JunkByte]
                        [] s = "clear"  -> [b \in DOMAIN mem |-> Zero]
                        [] OTHER        -> mem
         \/ /\ s # "clear"
            /\ charStep' = 0
            /\ charHeld' = charHeld \ CharRollBack(s)
            /\ UNCHANGED mem
  /\ UNCHANGED <<pos, shared, writes, procVars>>

\* mutant: no owner, so the module is not kept while its files are open
NotInUse == FALSE

(* The owner of the operations is the module: it stays while a file is     *)
(* open, and opens no more when it goes.                                   *)
InUse == \E p \in Procs : state[p] = "open"

Exiting == Len(CharInitSteps) + 1

char_dev_exit ==
  /\ \/ /\ charStep = Len(CharInitSteps) /\ ~InUse
        /\ charStep' = Exiting
        /\ charHeld' = charHeld \ {"cdev"}
     \/ /\ charStep = Exiting /\ "memory" \in charHeld
        /\ charHeld' = charHeld \ {"memory"}
        /\ UNCHANGED charStep
     \/ /\ charStep = Exiting /\ "memory" \notin charHeld
        /\ charHeld' = charHeld \ {"region"}
        /\ charStep' = 0
  /\ UNCHANGED <<charLoads, mem, pos, shared, writes, procVars>>
-----------------------------------------------------------------------------
(* Calls on the device. *)

(* usertest does not ask whether open succeeded: then every call fails.    *)
char_dev_open(p) ==
  /\ state[p] = "new"
  /\ p = "any" /\ shared => state["cat"] = "open"
  /\ state' = [state EXCEPT ![p] = IF "cdev" \in charHeld THEN "open" ELSE "closed"]
  /\ UNCHANGED <<charModule, mem, pos, shared, writes, callNo, charCall, ret, got>>

char_dev_release(p) ==
  /\ state[p] = "open" /\ charCall[p] = NoCall
  /\ state' = [state EXCEPT ![p] = "closed"]
  /\ UNCHANGED <<charModule, mem, pos, shared, writes, callNo, charCall, ret, got>>

CharEnter(p, c) ==
  /\ charCall' = [charCall EXCEPT ![p] = c]
  /\ UNCHANGED <<charModule, mem, pos, shared, writes, state, callNo, ret>>

(* The call ends; the counter serves programs of a bounded length only.    *)
CharReturn(p, r) ==
  /\ ret' = [ret EXCEPT ![p] = r]
  /\ charCall' = [charCall EXCEPT ![p] = NoCall]
  /\ callNo' = IF p = "cat" THEN callNo ELSE [callNo EXCEPT ![p] = @ + 1]
  /\ UNCHANGED <<charModule, shared, writes, state>>

char_dev_ioctl(p) == CharReturn(p, 0) /\ UNCHANGED <<mem, pos, got>>

NewPosValid(newpos) == newpos >= 0 /\ newpos <= MemLen

NewPos(p, offset, way) ==
  CASE way = 0 -> offset
    [] way = 1 -> pos[FileOf(p)] + offset
    [] way = 2 -> MemLen + offset
    [] OTHER   -> 0

(* The position is read here and stored by Finish.                         *)
char_dev_llseek(p, offset, way) ==
  LET newpos == NewPos(p, offset, way)
  IN  \/ /\ NewPosValid(newpos)
         /\ CharEnter(p, [op |-> "seek", off |-> newpos, n |-> 0, i |-> 0, data |-> <<>>])
         /\ UNCHANGED got
      \/ /\ ~NewPosValid(newpos)
         /\ CharReturn(p, -1)
         /\ UNCHANGED <<mem, pos, got>>

Length(count, off) == Min({count, MemLen - off})

char_dev_read(p, count) ==
  LET off == pos[FileOf(p)]
  IN  /\ CharEnter(p, [op |-> "read", off |-> off, n |-> Length(count, off), i |-> 0,
                       data |-> <<>>])
      /\ got' = [got EXCEPT ![p] = <<>>]

char_dev_write(p, bytes) ==
  LET off == pos[FileOf(p)]
  IN  /\ CharEnter(p, [op |-> "write", off |-> off, n |-> Length(Len(bytes), off), i |-> 0,
                       data |-> bytes])
      /\ UNCHANGED got

(* copy_to_user and copy_from_user, byte by byte. *)
Copy(p) ==
  LET c == charCall[p]
  IN  /\ c # NoCall /\ c.i < c.n
      /\ charCall' = [charCall EXCEPT ![p].i = @ + 1]
      /\ IF c.op = "read"
           THEN got' = [got EXCEPT ![p] = Append(@, mem[c.off + c.i])] /\ UNCHANGED mem
           ELSE mem' = [mem EXCEPT ![c.off + c.i] = c.data[c.i + 1]] /\ UNCHANGED got
      /\ UNCHANGED <<charModule, pos, shared, writes, state, callNo, ret>>

(* The user's buffer cannot be reached any further. *)
Fault(p) ==
  /\ p = "any" /\ charCall[p] # NoCall /\ charCall[p].i < charCall[p].n
  /\ CharReturn(p, -1)
  /\ UNCHANGED <<mem, pos, got>>

\* mutant: the position is moved from where it is now
FinishMoves(p) ==
  LET c == charCall[p]
  IN  /\ c # NoCall /\ c.i = c.n
      /\ pos' = [pos EXCEPT ![FileOf(p)] = IF c.op = "seek" THEN c.off ELSE @ + c.n]
      /\ CharReturn(p, IF c.op = "seek" THEN c.off ELSE c.n)
      /\ UNCHANGED <<mem, got>>

(* *offp += length, and the kernel stores it: whatever f_pos is by now.    *)
Finish(p) ==
  LET c == charCall[p]
  IN  /\ c # NoCall /\ c.i = c.n
      /\ pos' = [pos EXCEPT ![FileOf(p)] = c.off + c.n]
      /\ CharReturn(p, IF c.op = "seek" THEN c.off ELSE c.n)
      /\ UNCHANGED <<mem, got>>
-----------------------------------------------------------------------------
(* The programs. *)

test_main ==
  LET p == "test"
  IN  CASE callNo[p] \in {0, 1} -> char_dev_ioctl(p)
        [] callNo[p] = 2        -> char_dev_write(p, Hello)
        [] callNo[p] = 3        -> char_dev_llseek(p, 0, 0)
        [] callNo[p] \in {4, 5} -> char_dev_read(p, 2)
        [] OTHER                -> char_dev_release(p)

cat_main == IF ret["cat"] > 0 THEN char_dev_read("cat", 2) ELSE char_dev_release("cat")

AnySeeks == {<<1, 0>>, <<MemLen + 1, 0>>, <<-1, 1>>, <<1, 1>>, <<0, 2>>, <<1, 2>>, <<1, 3>>}

any_main ==
  \/ /\ callNo["any"] < MaxCharCalls
     /\ \/ \E s \in AnySeeks : char_dev_llseek("any", s[1], s[2])
        \/ \E count \in {1, MemLen} : char_dev_read("any", count)
        \/ writes /\ char_dev_write("any", <<"x", "y">>)
  \/ char_dev_release("any")

Main(p) ==
  /\ state[p] = "open" /\ charCall[p] = NoCall
  /\ CASE p = "test" -> test_main [] p = "cat" -> cat_main [] p = "any" -> any_main

CharProceed(p) == Main(p) \/ Copy(p) \/ Finish(p)

CharNext ==
  \/ char_dev_init \/ char_dev_exit
  \/ \E p \in Procs : char_dev_open(p) \/ CharProceed(p) \/ Fault(p)

CharSpec == CharInit /\ [][CharNext]_charVars

(* Processes are scheduled; nobody need load, unload or open.              *)
CharFair == CharSpec /\ \A p \in Procs : WF_charVars(CharProceed(p))
-----------------------------------------------------------------------------
(* However calls on one file interleave, the driver stays inside its       *)
(* memory: what is left at a position fetched is never negative.           *)
StaysInside ==
  /\ \A p \in Procs : pos[p] \in 0 .. MemLen
  /\ \A p \in Procs : charCall[p] # NoCall => charCall[p].off + charCall[p].n <= MemLen

(* No call runs without the memory, no open file outlives the module, and  *)
(* a module that failed to load or is unloaded holds nothing.              *)
HoldsWhatIsUsed ==
  /\ \A p \in Procs : state[p] = "open" => {"memory", "cdev"} \subseteq charHeld
  /\ charStep = 0 => charHeld = {}

(* Nobody is shown what kmalloc left in the memory.                        *)
ReadsNoJunk == \A p \in Procs : \A i \in DOMAIN got[p] : got[p][i] # JunkByte

(* usertest reads back what it has written, two bytes at a time, unless    *)
(* another process writes.                                                 *)
TestReadsBack ==
  state["test"] = "open" /\ charCall["test"] = NoCall /\ ~writes =>
    CASE callNo["test"] = 3 -> ret["test"] = Len(Hello)
      [] callNo["test"] = 4 -> ret["test"] = 0
      [] callNo["test"] = 5 -> got["test"] = SubSeq(Hello, 1, 2)
      [] callNo["test"] = 6 -> got["test"] = SubSeq(Hello, 3, 4)
      [] OTHER              -> TRUE

(* What is read is what was written, never what kmalloc left.              *)
ReadsWhatIsThere == ReadsNoJunk /\ TestReadsBack

(* One that reads on a file of its own comes to the end of the device.     *)
CatReads == state["cat"] = "open" /\ ~shared
CatEnds  == CatReads ~> state["cat"] = "closed"
=============================================================================

---------------------------- MODULE DriverProofs ----------------------------
(***************************************************************************)
(* Theorems about the two drivers.                                         *)
(*                                                                         *)
(* CharDriver, for a device of any size, any text, any number of calls and *)
(* loads: the module holds what its step says, calls stay inside its       *)
(* memory, and usertest reads back what it wrote.                          *)
(*                                                                         *)
(* BlkDriver, for a disk of any size and requests cut in any way: the      *)
(* module holds what is in use of it, and requests cut evenly transfer     *)
(* exactly the sectors they are for.                                       *)
(***************************************************************************)
EXTENDS CharDriver, BlkDriver, TLAPS

-----------------------------------------------------------------------------
(* CharDriver. *)

(* The bytes that are cleared or written. *)
Byte == {Zero, "x", "y"} \cup {Hello[i] : i \in DOMAIN Hello}

Call == [op : {"read", "write", "seek"}, off : 0 .. MemLen, n : 0 .. MemLen, i : 0 .. MemLen,
         data : Seq(Byte)]

(* A call that runs: it copies n bytes at off, i of them so far.           *)
CallSound(c) ==
  /\ c.off + c.n =< MemLen /\ c.i =< c.n
  /\ c.op = "write" => c.n =< Len(c.data)
  /\ c.op = "seek" => c.n = 0

CharTypes ==
  /\ charStep \in 0 .. 5
  /\ mem \in [0 .. MemLen - 1 -> Byte \cup {JunkByte}]
  /\ pos \in [Procs -> 0 .. MemLen]
  /\ shared \in BOOLEAN /\ writes \in BOOLEAN
  /\ state \in [Procs -> {"new", "open", "closed"}]
  /\ callNo \in [Procs -> Nat]
  /\ charCall \in [Procs -> Call \cup {NoCall}]
  /\ \A p \in Procs : charCall[p] # NoCall => CallSound(charCall[p])
  /\ ret \in [Procs -> Int]
  /\ got \in [Procs -> Seq(Byte)]

(* What the module holds after each step of loading and of unloading.      *)
HeldByStep ==
  /\ charHeld = CASE charStep = 0        -> {}
                  [] charStep = 1        -> {"region"}
                  [] charStep \in {2, 3} -> {"region", "memory"}
                  [] charStep = 4        -> {"region", "memory", "cdev"}
                  [] charStep = 5        -> charHeld \cap {"region", "memory"}
  /\ \A p \in Procs : state[p] = "open" => charStep = 4

(* Who is in a call has an open file, and then the memory is cleared.      *)
CallsSound ==
  /\ \A p \in Procs : charCall[p] # NoCall => state[p] = "open"
  /\ charStep \in {3, 4} => \A b \in 0 .. MemLen - 1 : mem[b] # JunkByte

CharInv == CharTypes /\ HeldByStep /\ CallsSound
-----------------------------------------------------------------------------
LEMMA MinOfPair ==
  ASSUME NEW a \in Int, NEW b \in Int
  PROVE  Min({a, b}) = IF a =< b THEN a ELSE b
<1> DEFINE least == IF a =< b THEN a ELSE b
<1>1. least \in {a, b} /\ \A y \in {a, b} : least =< y
  OBVIOUS
<1>2. Min({a, b}) \in {a, b} /\ \A y \in {a, b} : Min({a, b}) =< y
  BY <1>1, Zenon DEF Min
<1> QED
  BY <1>1, <1>2

LEMMA BytesAreNotJunk ==
  /\ JunkByte \notin Byte
  /\ Hello \in Seq(Byte)
  /\ <<"x", "y">> \in Seq(Byte)
<1>1. \A i \in DOMAIN Hello : Hello[i] # JunkByte /\ Hello[i] \in Byte
  BY HelloAssumption DEF Byte
<1>2. Hello \in [1 .. Len(Hello) -> Byte] /\ Len(Hello) \in Nat
  BY <1>1, HelloAssumption
<1>3. Hello \in Seq(Byte)
  BY <1>2
<1>4. "x" \in Byte /\ "y" \in Byte
  BY DEF Byte
<1>5. <<"x", "y">> \in Seq(Byte)
  BY <1>4
<1>6. JunkByte \notin {Zero, "x", "y"}
  BY DEF JunkByte, Zero
<1> QED
  BY <1>1, <1>3, <1>5, <1>6 DEF Byte

(* What is left at a position of the device is never exceeded.             *)
LEMMA LengthFits ==
  ASSUME NEW count \in Nat, NEW off \in 0 .. MemLen
  PROVE  /\ Length(count, off) \in 0 .. MemLen
         /\ off + Length(count, off) =< MemLen
         /\ Length(count, off) =< count
         /\ count =< MemLen - off => Length(count, off) = count
BY MinOfPair, MemAssumption DEF Length

LEMMA FileIsOne ==
  ASSUME NEW p \in Procs
  PROVE  FileOf(p) \in Procs /\ (p = "test" => FileOf(p) = "test")
BY DEF FileOf, Procs

LEMMA EnterInv ==
  ASSUME CharInv, NEW p \in Procs, state[p] = "open",
         NEW c \in Call, CallSound(c), CharEnter(p, c),
         got' = got \/ got' = [got EXCEPT ![p] = <<>>]
  PROVE  CharInv'
<1> USE DEF CharInv, CharEnter, charModule
<1>1. CharTypes'
  <2>1. charCall' \in [Procs -> Call \cup {NoCall}]
    BY DEF CharTypes
  <2>2. ASSUME NEW q \in Procs, charCall'[q] # NoCall PROVE CallSound(charCall'[q])
    BY <2>2 DEF CharTypes
  <2>3. got' \in [Procs -> Seq(Byte)]
    <3>1. got \in [Procs -> Seq(Byte)] /\ <<>> \in Seq(Byte)
      BY DEF CharTypes
    <3> QED
      BY <3>1
  <2> QED
    BY <2>1, <2>2, <2>3 DEF CharTypes
<1>2. HeldByStep'
  BY DEF HeldByStep
<1>3. CallsSound'
  BY DEF CallsSound, CharTypes
<1> QED
  BY <1>1, <1>2, <1>3

LEMMA ReturnInv ==
  ASSUME CharInv, NEW p \in Procs, NEW r \in Int, CharReturn(p, r),
         UNCHANGED <<mem, got>>, pos' \in [Procs -> 0 .. MemLen]
  PROVE  CharInv'
<1> USE DEF CharInv, CharReturn, charModule
<1>1. CharTypes'
  <2>1. charCall' \in [Procs -> Call \cup {NoCall}]
    BY DEF CharTypes
  <2>2. ASSUME NEW q \in Procs, charCall'[q] # NoCall PROVE CallSound(charCall'[q])
    BY <2>2 DEF CharTypes
  <2>3. ret' \in [Procs -> Int] /\ callNo' \in [Procs -> Nat]
    BY DEF CharTypes
  <2> QED
    BY <2>1, <2>2, <2>3 DEF CharTypes
<1>2. HeldByStep'
  BY DEF HeldByStep
<1>3. CallsSound'
  BY DEF CallsSound, CharTypes
<1> QED
  BY <1>1, <1>2, <1>3

LEMMA InitCharInv == CharInit => CharInv
<1> SUFFICES ASSUME CharInit PROVE CharInv
  OBVIOUS
<1>1. mem \in [0 .. MemLen - 1 -> Byte \cup {JunkByte}]
  BY DEF CharInit
<1>2. state \in [Procs -> {"new", "open", "closed"}]
  BY DEF CharInit
<1>3. got \in [Procs -> Seq(Byte)]
  <2>1. <<>> \in Seq(Byte)
    OBVIOUS
  <2> QED
    BY <2>1 DEF CharInit
<1>4. /\ charCall \in [Procs -> Call \cup {NoCall}]
      /\ \A p \in Procs : charCall[p] = NoCall /\ state[p] # "open"
  BY DEF CharInit
<1>5. CharTypes
  BY <1>1, <1>2, <1>3, <1>4, MemAssumption DEF CharInit, CharTypes
<1> QED
  BY <1>4, <1>5 DEF CharInit, CharInv, HeldByStep, CallsSound

LEMMA LoadInv ==
  ASSUME CharInv, char_dev_init PROVE CharInv'
<1> USE DEF CharInv, procVars
<1>1. charStep \in 0 .. 3 /\ charStep' \in {0, charStep + 1}
  BY DEF char_dev_init, CharInitSteps, CharTypes
<1>2. mem' \in [0 .. MemLen - 1 -> Byte \cup {JunkByte}]
  <2>1. \A z \in Byte \cup {JunkByte} : [b \in DOMAIN mem |-> z] \in [0 .. MemLen - 1 -> Byte \cup {JunkByte}]
    BY DEF CharTypes
  <2>2. Zero \in Byte
    BY DEF Byte
  <2>3. \/ mem' = mem
        \/ mem' = [b \in DOMAIN mem |-> JunkByte]
        \/ mem' = [b \in DOMAIN mem |-> Zero]
    BY DEF char_dev_init
  <2> QED
    BY <2>1, <2>2, <2>3 DEF CharTypes
<1>3. CharTypes'
  BY <1>1, <1>2 DEF char_dev_init, CharTypes
<1>4. \A p \in Procs : state[p] # "open"
  BY <1>1 DEF HeldByStep
<1>5. HeldByStep'
  <2>1. CASE charStep = 0
    BY <2>1, <1>4 DEF char_dev_init, HeldByStep, CharInitSteps, CharRollBack
  <2>2. CASE charStep = 1
    BY <2>2, <1>4 DEF char_dev_init, HeldByStep, CharInitSteps, CharRollBack
  <2>3. CASE charStep = 2
    BY <2>3, <1>4 DEF char_dev_init, HeldByStep, CharInitSteps, CharRollBack
  <2>4. CASE charStep = 3
    BY <2>4, <1>4 DEF char_dev_init, HeldByStep, CharInitSteps, CharRollBack
  <2> QED
    BY <1>1, <2>1, <2>2, <2>3, <2>4
<1>6. CallsSound'
  <2>1. CASE charStep = 2
    BY <2>1, <1>4 DEF char_dev_init, CallsSound, CharInitSteps, Zero, JunkByte, CharTypes
  <2>2. CASE charStep = 3
    BY <2>2, <1>4 DEF char_dev_init, CallsSound, CharInitSteps
  <2>3. CASE charStep \in {0, 1}
    BY <2>3, <1>4, <1>1 DEF char_dev_init, CallsSound
  <2> QED
    BY <1>1, <2>1, <2>2, <2>3
<1> QED
  BY <1>3, <1>5, <1>6

LEMMA UnloadInv ==
  ASSUME CharInv, char_dev_exit PROVE CharInv'
<1> USE DEF CharInv, procVars
<1>1. charStep \in {4, 5} /\ charStep' \in {0, 5}
  BY DEF char_dev_exit, CharInitSteps, CharTypes, Exiting
<1>2. CharTypes'
  BY <1>1 DEF char_dev_exit, CharTypes
<1>3. \A p \in Procs : state[p] # "open"
  BY <1>1 DEF HeldByStep, char_dev_exit, InUse, CharInitSteps, Exiting
<1>4. HeldByStep'
  BY <1>1, <1>3 DEF HeldByStep, char_dev_exit, CharInitSteps, Exiting
<1>5. CallsSound'
  BY <1>1, <1>3 DEF CallsSound, char_dev_exit
<1> QED
  BY <1>2, <1>4, <1>5

LEMMA OpenInv ==
  ASSUME CharInv, NEW p \in Procs, char_dev_open(p) \/ char_dev_release(p) PROVE CharInv'
<1> USE DEF CharInv, char_dev_open, char_dev_release, charModule
<1>1. CharTypes'
  BY DEF CharTypes
<1>2. HeldByStep'
  <2>1. ASSUME "cdev" \in charHeld PROVE charStep = 4
    <3>1. charStep \in 0 .. 5
      BY DEF CharTypes
    <3>2. charStep # 5
      BY <2>1 DEF HeldByStep
    <3> QED
      BY <2>1, <3>1, <3>2 DEF HeldByStep
  <2>2. ASSUME NEW q \in Procs, state'[q] = "open" PROVE charStep = 4
    BY <2>1, <2>2 DEF HeldByStep, CharTypes
  <2> QED
    BY <2>2 DEF HeldByStep
<1>3. CallsSound'
  BY DEF CallsSound, CharTypes
<1> QED
  BY <1>1, <1>2, <1>3

LEMMA SeekInv ==
  ASSUME CharInv, NEW p \in Procs, state[p] = "open", NEW offset \in Int, NEW way \in Int,
         char_dev_llseek(p, offset, way)
  PROVE  CharInv'
<1> DEFINE newpos == NewPos(p, offset, way)
<1>1. newpos \in Int
  BY FileIsOne, MemAssumption DEF NewPos, CharInv, CharTypes
<1>2. CASE NewPosValid(newpos) /\ CharEnter(p, [op |-> "seek", off |-> newpos, n |-> 0, i |-> 0,
                                               data |-> <<>>]) /\ UNCHANGED got
  <2> DEFINE c == [op |-> "seek", off |-> newpos, n |-> 0, i |-> 0, data |-> <<>>]
  <2>1. c \in Call /\ CallSound(c)
    BY <1>1, <1>2, MemAssumption DEF NewPosValid, Call, CallSound
  <2> QED
    BY <1>2, <2>1, EnterInv
<1>3. CASE CharReturn(p, -1) /\ UNCHANGED <<mem, pos, got>>
  <2>1. pos' \in [Procs -> 0 .. MemLen] /\ -1 \in Int
    BY <1>3 DEF CharInv, CharTypes
  <2> QED
    BY <1>3, <2>1, ReturnInv
<1> QED
  BY <1>2, <1>3 DEF char_dev_llseek

LEMMA ReadInv ==
  ASSUME CharInv, NEW p \in Procs, state[p] = "open", NEW count \in Nat, char_dev_read(p, count)
  PROVE  CharInv'
<1> DEFINE off == pos[FileOf(p)]
           c == [op |-> "read", off |-> off, n |-> Length(count, off), i |-> 0, data |-> <<>>]
<1>1. off \in 0 .. MemLen
  BY FileIsOne DEF CharInv, CharTypes
<1>2. /\ Length(count, off) \in 0 .. MemLen
      /\ off + Length(count, off) =< MemLen
  BY <1>1, LengthFits
<1>3. 0 \in 0 .. MemLen /\ <<>> \in Seq(Byte)
  BY MemAssumption
<1>4. c \in Call /\ CallSound(c)
  BY <1>1, <1>2, <1>3 DEF Call, CallSound
<1> QED
  BY <1>4, EnterInv DEF char_dev_read

LEMMA WriteInv ==
  ASSUME CharInv, NEW p \in Procs, state[p] = "open", NEW bytes \in Seq(Byte),
         char_dev_write(p, bytes)
  PROVE  CharInv'
<1> DEFINE off == pos[FileOf(p)]
           c == [op |-> "write", off |-> off, n |-> Length(Len(bytes), off), i |-> 0,
                 data |-> bytes]
<1>1. off \in 0 .. MemLen
  BY FileIsOne DEF CharInv, CharTypes
<1>2. /\ Length(Len(bytes), off) \in 0 .. MemLen
      /\ off + Length(Len(bytes), off) =< MemLen
      /\ Length(Len(bytes), off) =< Len(bytes)
  <2>1. Len(bytes) \in Nat
    OBVIOUS
  <2> QED
    BY <1>1, <2>1, LengthFits
<1>3. 0 \in 0 .. MemLen
  BY MemAssumption
<1>4. c \in Call /\ CallSound(c)
  BY <1>1, <1>2, <1>3 DEF Call, CallSound
<1> QED
  BY <1>4, EnterInv DEF char_dev_write

LEMMA FinishInv ==
  ASSUME CharInv, NEW p \in Procs, Finish(p)
  PROVE  CharInv'
<1> DEFINE c == charCall[p]
<1>1. c \in Call /\ CallSound(c)
  BY DEF CharInv, CharTypes, Finish
<1>2. c.off + c.n \in 0 .. MemLen /\ c.off \in Int /\ c.n \in Int
  BY <1>1, MemAssumption DEF Call, CallSound
<1>3. pos' \in [Procs -> 0 .. MemLen]
  BY <1>2, FileIsOne DEF Finish, CharInv, CharTypes
<1> DEFINE r == IF c.op = "seek" THEN c.off ELSE c.n
<1>4. CharReturn(p, r) /\ r \in Int /\ UNCHANGED <<mem, got>>
  BY <1>2 DEF Finish
<1> QED
  BY <1>3, <1>4, ReturnInv

LEMMA CopyInv ==
  ASSUME CharInv, NEW p \in Procs, Copy(p)
  PROVE  CharInv'
<1> DEFINE c == charCall[p]
           d == [c EXCEPT !.i = @ + 1]
           b == c.off + c.i
<1> USE DEF CharInv
<1>1. c \in Call /\ CallSound(c) /\ c # NoCall /\ c.i < c.n
  BY DEF CharTypes, Copy
<1>2. d \in Call /\ CallSound(d)
  BY <1>1, MemAssumption DEF Call, CallSound
<1>3. /\ charCall' \in [Procs -> Call \cup {NoCall}]
      /\ charCall' = [charCall EXCEPT ![p] = d]
  BY <1>2 DEF Copy, CharTypes
<1>4. ASSUME NEW q \in Procs, charCall'[q] # NoCall PROVE CallSound(charCall'[q])
  BY <1>2, <1>3, <1>4 DEF CharTypes
<1>5. charStep = 4 /\ state[p] = "open"
  BY <1>1 DEF HeldByStep, CallsSound
<1>6. b \in 0 .. MemLen - 1
  BY <1>1, MemAssumption DEF Call, CallSound
<1>7. mem[b] \in Byte
  BY <1>5, <1>6 DEF CharTypes, CallsSound
<1>8. got' \in [Procs -> Seq(Byte)]
  <2>1. got \in [Procs -> Seq(Byte)] /\ Append(got[p], mem[b]) \in Seq(Byte)
    BY <1>7 DEF CharTypes
  <2> QED
    BY <2>1 DEF Copy
<1>9. c.op # "read" => c.data[c.i + 1] \in Byte
  BY <1>1, MemAssumption DEF Call, CallSound
<1>10. mem' = mem \/ \E z \in Byte : mem' = [mem EXCEPT ![b] = z]
  BY <1>9 DEF Copy
<1>11. /\ mem' \in [0 .. MemLen - 1 -> Byte \cup {JunkByte}]
       /\ \A a \in 0 .. MemLen - 1 : mem'[a] # JunkByte
  BY <1>5, <1>6, <1>10, BytesAreNotJunk DEF CharTypes, CallsSound
<1>12. UNCHANGED <<charModule, pos, shared, writes, state, callNo, ret>>
  BY DEF Copy
<1>13. CharTypes'
  BY <1>3, <1>4, <1>8, <1>11, <1>12 DEF CharTypes, charModule
<1>14. HeldByStep'
  BY <1>12 DEF HeldByStep, charModule
<1>15. CallsSound'
  BY <1>1, <1>3, <1>5, <1>11, <1>12 DEF CallsSound, CharTypes
<1> QED
  BY <1>13, <1>14, <1>15

LEMMA FaultInv ==
  ASSUME CharInv, NEW p \in Procs, Fault(p)
  PROVE  CharInv'
<1>1. pos \in [Procs -> 0 .. MemLen] /\ -1 \in Int
  BY DEF CharInv, CharTypes
<1>2. CharReturn(p, -1) /\ UNCHANGED <<mem, pos, got>>
  BY DEF Fault
<1> QED
  BY <1>1, <1>2, ReturnInv

(* What the programs do between their calls. *)
LEMMA MainInv ==
  ASSUME CharInv, NEW p \in Procs, Main(p)
  PROVE  CharInv'
<1>1. state[p] = "open" /\ charCall[p] = NoCall
  BY DEF Main
<1>2. ASSUME char_dev_ioctl(p) PROVE CharInv'
  BY <1>2, ReturnInv DEF char_dev_ioctl, CharInv, CharTypes
<1>3. CASE p = "test"
  <2>1. \/ char_dev_ioctl(p) \/ char_dev_write(p, Hello) \/ char_dev_llseek(p, 0, 0)
        \/ char_dev_read(p, 2) \/ char_dev_release(p)
    BY <1>3 DEF Main, test_main
  <2> QED
    <3>1. CASE char_dev_write(p, Hello)
      BY <1>1, <3>1, BytesAreNotJunk, WriteInv
    <3>2. CASE char_dev_llseek(p, 0, 0)
      BY <1>1, <3>2, SeekInv
    <3>3. CASE char_dev_read(p, 2)
      BY <1>1, <3>3, ReadInv
    <3> QED
      BY <1>2, <2>1, <3>1, <3>2, <3>3, OpenInv
<1>4. CASE p = "cat"
  BY <1>1, <1>4, ReadInv, OpenInv DEF Main, cat_main
<1>5. CASE p = "any"
  <2>1. ASSUME NEW s \in AnySeeks PROVE s[1] \in Int /\ s[2] \in Int
    BY MemAssumption DEF AnySeeks
  <2>2. {1, MemLen} \subseteq Nat
    BY MemAssumption
  <2> QED
    BY <1>1, <1>5, <2>1, <2>2, BytesAreNotJunk, WriteInv, SeekInv, ReadInv, OpenInv
       DEF Main, any_main
<1> QED
  BY <1>3, <1>4, <1>5 DEF Procs

LEMMA NextCharInv == CharInv /\ [CharNext]_charVars => CharInv'
<1> SUFFICES ASSUME CharInv, [CharNext]_charVars PROVE CharInv'
  OBVIOUS
<1>1. CASE char_dev_init
  BY <1>1, LoadInv
<1>2. CASE char_dev_exit
  BY <1>2, UnloadInv
<1>3. ASSUME NEW p \in Procs, char_dev_open(p) PROVE CharInv'
  BY <1>3, OpenInv
<1>4. ASSUME NEW p \in Procs, CharProceed(p) PROVE CharInv'
  BY <1>4, MainInv, CopyInv, FinishInv DEF CharProceed
<1>5. ASSUME NEW p \in Procs, Fault(p) PROVE CharInv'
  BY <1>5, FaultInv
<1>6. CASE UNCHANGED charVars
  BY <1>6 DEF CharInv, CharTypes, HeldByStep, CallsSound, charVars, charModule, procVars
<1> QED
  BY <1>1, <1>2, <1>3, <1>4, <1>5, <1>6 DEF CharNext

LEMMA CharInvAlways == CharSpec => []CharInv
BY InitCharInv, NextCharInv, PTL DEF CharSpec

(* However the calls of three processes on two files or three interleave,  *)
(* positions and copies stay inside the device, of any size.               *)
THEOREM CopiesStayInside == CharSpec => []StaysInside
<1>1. CharInv => StaysInside
  BY DEF CharInv, CharTypes, CallSound, StaysInside
<1> QED
  BY <1>1, CharInvAlways, PTL

(* Calls run only while the module holds its memory; a load that failed    *)
(* half way has given back what it took, in whatever order steps fail.     *)
THEOREM ModuleHoldsWhatIsUsed == CharSpec => []HoldsWhatIsUsed
<1>1. CharInv => HoldsWhatIsUsed
  BY DEF CharInv, HeldByStep, HoldsWhatIsUsed
<1> QED
  BY <1>1, CharInvAlways, PTL
-----------------------------------------------------------------------------
(* usertest, with nobody else writing. *)

TestCall == charCall["test"]
TestGot  == got["test"]

(* It has i bytes of its text in hand, from off on. *)
GotPart(off, i) ==
  Len(TestGot) = i /\ \A k \in 1 .. i : TestGot[k] = Hello[off + k]

(* The first n bytes of the device are its text's. *)
Written(n) == \A k \in 0 .. n - 1 : mem[k] = Hello[k + 1]

Writing ==
  /\ TestCall.op = "write" /\ TestCall.off = 0 /\ TestCall.n = Len(Hello)
  /\ TestCall.data = Hello /\ Written(TestCall.i)
Rewinding    == TestCall.op = "seek" /\ TestCall.off = 0
Reading(off) ==
  TestCall.op = "read" /\ TestCall.off = off /\ TestCall.n = 2 /\ GotPart(off, TestCall.i)

InCall == TestCall # NoCall

TestSteps ==
  LET n == callNo["test"]
      at == pos["test"]
  IN  /\ n =< 6
      /\ n =< 1 => at = 0 /\ ~InCall
      /\ n = 2  => at = 0 /\ (InCall => Writing)
      /\ n >= 3 => Written(Len(Hello))
      /\ n = 3  => at = Len(Hello) /\ (IF InCall THEN Rewinding ELSE ret["test"] = Len(Hello))
      /\ n = 4  => at = 0 /\ (IF InCall THEN Reading(0) ELSE ret["test"] = 0)
      /\ n = 5  => at = 2 /\ (IF InCall THEN Reading(2) ELSE GotPart(0, 2))
      /\ n = 6  => ~InCall /\ GotPart(2, 2)

TestInv ==
  ~writes =>
    /\ \A p \in Procs \ {"test"} : charCall[p] # NoCall => charCall[p].op # "write"
    /\ state["test"] = "new" => callNo["test"] = 0 /\ pos["test"] = 0
    /\ state["test"] = "open" => TestSteps

TestVars == <<pos["test"], state["test"], callNo["test"], TestCall, ret["test"], TestGot>>

(* What others do leaves it alone.                                         *)
LEMMA OthersTest ==
  ASSUME TestInv, UNCHANGED <<writes, TestVars>>, state["test"] = "open" => mem' = mem,
         \A p \in Procs \ {"test"} :
           ~writes /\ charCall'[p] # NoCall => charCall'[p].op # "write"
  PROVE  TestInv'
BY DEF TestInv, TestVars, TestSteps, InCall, TestCall, TestGot, GotPart, Written, Writing,
       Rewinding, Reading

LEMMA LoadTest ==
  ASSUME CharInv, TestInv, char_dev_init \/ char_dev_exit
  PROVE  TestInv'
<1>1. UNCHANGED <<pos, shared, writes, procVars>>
  BY DEF char_dev_init, char_dev_exit
<1>2. state["test"] = "open" => mem' = mem
  BY DEF char_dev_init, char_dev_exit, CharInv, HeldByStep, CharInitSteps, Procs
<1> QED
  BY <1>1, <1>2, OthersTest DEF TestVars, TestCall, TestGot, TestInv, procVars

LEMMA OtherProceedTest ==
  ASSUME CharInv, TestInv, NEW p \in Procs, p # "test",
         char_dev_open(p) \/ CharProceed(p) \/ Fault(p)
  PROVE  TestInv'
<1> DEFINE Calm == UNCHANGED <<writes, TestVars>>
           NoWrite == ~writes /\ charCall'[p] # NoCall => charCall'[p].op # "write"
<1>1. "test" \in Procs /\ FileOf(p) \in Procs /\ FileOf(p) # "test"
  BY DEF Procs, FileOf
<1>2. /\ pos \in [Procs -> 0 .. MemLen] /\ state \in [Procs -> {"new", "open", "closed"}]
      /\ callNo \in [Procs -> Nat] /\ charCall \in [Procs -> Call \cup {NoCall}]
      /\ ret \in [Procs -> Int] /\ got \in [Procs -> Seq(Byte)]
  BY DEF CharInv, CharTypes
<1>3. ASSUME Calm, NoWrite, \A q \in Procs \ {p} : charCall'[q] = charCall[q],
             ~writes => mem' = mem
      PROVE  TestInv'
  BY <1>3, OthersTest DEF TestInv
<1>4. ASSUME NEW c, CharEnter(p, c), got' = got \/ got' = [got EXCEPT ![p] = <<>>],
             c.op # "write" \/ writes
      PROVE  TestInv'
  <2>1. Calm
    BY <1>1, <1>2, <1>4 DEF CharEnter, TestVars, TestCall, TestGot
  <2>2. NoWrite /\ \A q \in Procs \ {p} : charCall'[q] = charCall[q]
    BY <1>2, <1>4 DEF CharEnter
  <2> QED
    BY <1>3, <1>4, <2>1, <2>2 DEF CharEnter
<1>5. ASSUME NEW r, CharReturn(p, r), UNCHANGED <<mem, got>>,
             pos' = pos \/ \E x : pos' = [pos EXCEPT ![FileOf(p)] = x]
      PROVE  TestInv'
  <2>1. Calm
    BY <1>1, <1>2, <1>5 DEF CharReturn, TestVars, TestCall, TestGot
  <2>2. NoWrite /\ \A q \in Procs \ {p} : charCall'[q] = charCall[q]
    BY <1>2, <1>5 DEF CharReturn
  <2> QED
    BY <1>3, <1>5, <2>1, <2>2 DEF CharReturn
<1>6. CASE char_dev_open(p) \/ char_dev_release(p)
  <2>1. Calm
    BY <1>1, <1>2, <1>6 DEF char_dev_open, char_dev_release, TestVars, TestCall, TestGot
  <2> QED
    BY <1>3, <1>6, <2>1 DEF char_dev_open, char_dev_release, TestInv
<1>7. CASE Copy(p)
  <2>1. charCall[p] \in Call /\ CallSound(charCall[p]) /\ charCall[p] # NoCall
        /\ charCall[p].i < charCall[p].n
    BY <1>7 DEF Copy, CharInv, CharTypes
  <2>2. ~writes => charCall[p].op = "read"
    BY <1>7, <2>1 DEF TestInv, Call, CallSound
  <2>3. Calm
    BY <1>1, <1>2, <1>7 DEF Copy, TestVars, TestCall, TestGot
  <2>4. NoWrite /\ \A q \in Procs \ {p} : charCall'[q] = charCall[q]
    BY <1>2, <1>7, <2>1, <2>2 DEF Copy, Call
  <2> QED
    BY <1>3, <1>7, <2>2, <2>3, <2>4 DEF Copy
<1>8. CASE Finish(p)
  BY <1>5, <1>8 DEF Finish
<1>9. CASE Fault(p)
  BY <1>5, <1>9 DEF Fault
<1>10. ASSUME NEW offset, NEW way, char_dev_llseek(p, offset, way) PROVE TestInv'
  BY <1>4, <1>5, <1>10 DEF char_dev_llseek
<1>11. ASSUME NEW count, char_dev_read(p, count) PROVE TestInv'
  BY <1>4, <1>11 DEF char_dev_read
<1>12. ASSUME NEW bytes, char_dev_write(p, bytes), writes PROVE TestInv'
  BY <1>4, <1>12 DEF char_dev_write
<1>13. CASE Main(p)
  <2>1. CASE p = "cat"
    BY <1>6, <1>11, <1>13, <2>1 DEF Main, cat_main
  <2>2. CASE p = "any"
    BY <1>6, <1>10, <1>11, <1>12, <1>13, <2>2 DEF Main, any_main
  <2> QED
    BY <2>1, <2>2 DEF Procs
<1> QED
  BY <1>6, <1>7, <1>8, <1>9, <1>13 DEF CharProceed

(* What usertest itself does. *)
LEMMA TestOpenTest ==
  ASSUME CharInv, TestInv, char_dev_open("test")
  PROVE  TestInv'
<1>1. "test" \in Procs
  BY DEF Procs
<1>2. state["test"] = "new" /\ charCall["test"] = NoCall
  BY <1>1 DEF char_dev_open, CharInv, CallsSound
<1>3. ~writes => callNo["test"] = 0 /\ pos["test"] = 0
  BY <1>2 DEF TestInv
<1> QED
  BY <1>1, <1>2, <1>3 DEF char_dev_open, TestInv, TestSteps, InCall, TestCall, CharInv, CharTypes

LEMMA TestMainTest ==
  ASSUME CharInv, TestInv, Main("test")
  PROVE  TestInv'
<1> DEFINE n == callNo["test"]
<1>1. "test" \in Procs /\ FileOf("test") = "test"
  BY DEF Procs, FileOf
<1>2. state["test"] = "open" /\ charCall["test"] = NoCall /\ ~InCall
  BY DEF Main, InCall, TestCall
<1>3. /\ pos \in [Procs -> 0 .. MemLen] /\ state \in [Procs -> {"new", "open", "closed"}]
      /\ callNo \in [Procs -> Nat] /\ charCall \in [Procs -> Call \cup {NoCall}]
      /\ ret \in [Procs -> Int] /\ got \in [Procs -> Seq(Byte)]
      /\ MemLen \in Nat /\ Hello \in Seq(STRING \ {JunkByte}) /\ Len(Hello) \in 4 .. MemLen
  BY MemAssumption, HelloAssumption DEF CharInv, CharTypes
<1>4. CASE writes
  <2>1. test_main
    BY DEF Main
  <2>2. writes' = writes
    BY <2>1 DEF test_main, char_dev_ioctl, char_dev_write, char_dev_llseek, char_dev_read,
                char_dev_release, CharEnter, CharReturn
  <2> QED
    BY <1>4, <2>2 DEF TestInv
<1>5. CASE ~writes
  <2>1. TestSteps /\ n \in 0 .. 6 /\ test_main
    <3>1. TestSteps
      BY <1>2, <1>5 DEF TestInv
    <3>2. n \in 0 .. 6
      BY <1>1, <1>3, <3>1 DEF TestSteps
    <3>3. test_main
      BY DEF Main
    <3> QED
      BY <3>1, <3>2, <3>3
  <2>2. ASSUME ~writes', TestSteps', state'["test"] = "open",
               \A q \in Procs \ {"test"} : charCall'[q] = charCall[q]
        PROVE  TestInv'
    BY <1>5, <2>2 DEF TestInv
  <2>3. CASE n \in {0, 1}
    <3>1. char_dev_ioctl("test")
      BY <2>1, <2>3 DEF test_main
    <3>2. TestSteps'
      BY <1>1, <1>2, <1>3, <2>1, <2>3, <3>1
         DEF char_dev_ioctl, CharReturn, TestSteps, InCall, TestCall
    <3> QED
      BY <1>1, <1>2, <1>3, <1>5, <2>2, <3>1, <3>2 DEF char_dev_ioctl, CharReturn
  <2>4. CASE n = 2
    <3>1. char_dev_write("test", Hello)
      BY <2>1, <2>4 DEF test_main
    <3>2. pos["test"] = 0 /\ Length(Len(Hello), 0) = Len(Hello)
      BY <1>3, <2>1, <2>4, LengthFits DEF TestSteps
    <3>3. TestSteps'
      BY <1>1, <1>2, <1>3, <2>1, <2>4, <3>1, <3>2
         DEF char_dev_write, CharEnter, TestSteps, InCall, TestCall, Writing, Written
    <3> QED
      BY <1>1, <1>2, <1>3, <1>5, <2>2, <3>1, <3>3 DEF char_dev_write, CharEnter
  <2>5. CASE n = 3
    <3>1. char_dev_llseek("test", 0, 0)
      BY <2>1, <2>5 DEF test_main
    <3>2. NewPos("test", 0, 0) = 0 /\ NewPosValid(0)
      BY <1>3 DEF NewPos, NewPosValid
    <3>3. CharEnter("test", [op |-> "seek", off |-> 0, n |-> 0, i |-> 0, data |-> <<>>])
      BY <3>1, <3>2 DEF char_dev_llseek
    <3>4. TestSteps'
      BY <1>1, <1>2, <1>3, <2>1, <2>5, <3>3
         DEF CharEnter, TestSteps, InCall, TestCall, Rewinding, Written
    <3> QED
      BY <1>1, <1>2, <1>3, <1>5, <2>2, <3>3, <3>4 DEF CharEnter
  <2>6. CASE n \in {4, 5}
    <3>1. char_dev_read("test", 2)
      BY <2>1, <2>6 DEF test_main
    <3> DEFINE at == pos["test"]
               c == [op |-> "read", off |-> at, n |-> 2, i |-> 0, data |-> <<>>]
    <3>2. at \in 0 .. MemLen /\ 2 =< MemLen - at
          /\ (n = 4 => at = 0) /\ (n = 5 => at = 2) /\ Written(Len(Hello))
      BY <1>1, <1>3, <2>1, <2>6 DEF TestSteps
    <3>3. Length(2, at) = 2
      BY <3>2, LengthFits
    <3>4. CharEnter("test", c) /\ got' = [got EXCEPT !["test"] = <<>>]
      BY <1>1, <3>1, <3>3 DEF char_dev_read
    <3>5. /\ TestCall' = c /\ c # NoCall /\ TestGot' = <<>>
          /\ UNCHANGED <<pos, writes, state, callNo, mem>>
          /\ \A q \in Procs \ {"test"} : charCall'[q] = charCall[q]
      BY <1>1, <1>3, <3>4 DEF CharEnter, TestCall, TestGot, NoCall
    <3> HIDE DEF c
    <3>6. InCall' /\ GotPart(at, 0)' /\ Written(Len(Hello))'
      BY <3>2, <3>5 DEF InCall, GotPart, Written
    <3>7. Reading(at)'
      BY <3>5, <3>6 DEF Reading, GotPart, c
    <3>8. TestSteps'
      BY <2>6, <3>2, <3>5, <3>6, <3>7 DEF TestSteps
    <3> QED
      BY <1>2, <1>5, <2>2, <3>5, <3>8
  <2>7. CASE n = 6
    <3>1. char_dev_release("test")
      BY <2>1, <2>7 DEF test_main
    <3> QED
      BY <1>1, <1>3, <1>5, <3>1 DEF char_dev_release, TestInv
  <2> QED
    BY <2>1, <2>3, <2>4, <2>5, <2>6, <2>7
<1> QED
  BY <1>4, <1>5

LEMMA TestCopyTest ==
  ASSUME CharInv, TestInv, Copy("test")
  PROVE  TestInv'
<1> DEFINE n == callNo["test"]
           c == charCall["test"]
<1>1. "test" \in Procs
  BY DEF Procs
<1>2. /\ charCall \in [Procs -> Call \cup {NoCall}] /\ got \in [Procs -> Seq(Byte)]
      /\ mem \in [0 .. MemLen - 1 -> Byte \cup {JunkByte}] /\ callNo \in [Procs -> Nat]
      /\ MemLen \in Nat /\ Hello \in Seq(STRING \ {JunkByte}) /\ Len(Hello) \in 4 .. MemLen
  BY MemAssumption, HelloAssumption DEF CharInv, CharTypes
<1>3. /\ c # NoCall /\ c \in Call /\ CallSound(c) /\ c.i < c.n /\ state["test"] = "open"
      /\ TestCall = c /\ InCall
  BY <1>1 DEF Copy, CharInv, CharTypes, CallsSound, InCall, TestCall
<1>4. /\ UNCHANGED <<pos, writes, state, callNo, ret>>
      /\ \A q \in Procs \ {"test"} : charCall'[q] = charCall[q]
      /\ TestCall' = [c EXCEPT !.i = @ + 1]
  BY <1>1, <1>2 DEF Copy, TestCall
<1>5. /\ TestCall'.i = c.i + 1 /\ TestCall'.op = c.op /\ TestCall'.off = c.off
      /\ TestCall'.n = c.n /\ TestCall'.data = c.data /\ InCall'
      /\ c.i \in Nat /\ c.n \in Nat /\ c.off \in Nat
  <2>1. c.i \in Nat /\ c.n \in Nat /\ c.off \in Nat
    BY <1>3 DEF Call
  <2>2. InCall'
    BY <1>3, <1>4 DEF InCall, Call, NoCall
  <2> QED
    BY <1>3, <1>4, <2>1, <2>2 DEF Call
<1>6. ASSUME ~writes PROVE TestSteps'
  <2>1. TestSteps
    BY <1>3, <1>6 DEF TestInv
  <2>2. n \in {2, 3, 4, 5}
    BY <1>1, <1>2, <1>3, <2>1 DEF TestSteps
  <2>3. CASE n = 2
    <3>1. Writing
      BY <1>3, <2>1, <2>3 DEF TestSteps
    <3>2. mem' = [mem EXCEPT ![c.i] = Hello[c.i + 1]]
      BY <1>3, <1>5, <3>1 DEF Writing, Copy
    <3>3. Written(c.i)
      BY <1>3, <3>1 DEF Writing
    <3>4. c.i \in 0 .. MemLen - 1
      BY <1>2, <1>3, <1>5, <3>1 DEF Writing
    <3>5. ASSUME NEW k \in 0 .. c.i PROVE mem'[k] = Hello[k + 1]
      <4>1. CASE k = c.i
        BY <1>2, <3>2, <3>4, <4>1
      <4>2. CASE k \in 0 .. c.i - 1
        BY <1>2, <3>2, <3>3, <3>4, <4>2 DEF Written
      <4> QED
        BY <1>5, <4>1, <4>2
    <3>6. Written(TestCall.i)'
      BY <1>5, <3>5 DEF Written
    <3>7. Writing'
      BY <1>3, <1>5, <3>1, <3>6 DEF Writing
    <3> QED
      BY <1>4, <1>5, <2>1, <2>3, <3>7 DEF TestSteps
  <2>4. CASE n = 3
    BY <1>3, <1>5, <2>1, <2>4 DEF TestSteps, Rewinding, CallSound
  <2>5. CASE n \in {4, 5}
    <3> DEFINE off == IF n = 4 THEN 0 ELSE 2
    <3>1. Reading(off) /\ Written(Len(Hello))
      BY <1>3, <2>1, <2>5 DEF TestSteps
    <3>2. UNCHANGED mem /\ got' = [got EXCEPT !["test"] = Append(@, mem[c.off + c.i])]
      BY <1>3, <3>1 DEF Reading, Copy
    <3>3. c.off = off /\ c.i \in 0 .. 1 /\ mem[off + c.i] = Hello[off + c.i + 1]
      <4>1. c.off = off /\ c.i \in 0 .. 1
        BY <1>3, <1>5, <3>1 DEF Reading
      <4>2. off + c.i \in 0 .. Len(Hello) - 1
        BY <1>2, <2>5, <4>1
      <4> QED
        BY <3>1, <4>1, <4>2 DEF Written
    <3>4. /\ TestGot' = Append(TestGot, Hello[off + (c.i + 1)]) /\ TestGot \in Seq(Byte)
          /\ GotPart(off, c.i)
      <4>1. TestGot \in Seq(Byte) /\ TestGot' = Append(TestGot, Hello[off + c.i + 1])
        BY <1>1, <1>2, <3>2, <3>3 DEF TestGot
      <4>2. off + c.i + 1 = off + (c.i + 1)
        BY <3>3
      <4>3. GotPart(off, c.i)
        BY <1>3, <3>1 DEF Reading
      <4> QED
        BY <4>1, <4>2, <4>3
    <3> HIDE DEF off
    <3>5. Len(TestGot') = c.i + 1 /\ \A k \in 1 .. c.i + 1 : TestGot'[k] = Hello[off + k]
      BY <1>5, <3>4 DEF GotPart
    <3>6. TestCall'.op = "read" /\ TestCall'.off = off /\ TestCall'.n = 2
      BY <1>3, <1>5, <3>1, <3>3 DEF Reading
    <3> USE DEF off
    <3>7. n = 4 => Reading(0)'
      BY <1>5, <3>5, <3>6 DEF Reading, GotPart
    <3>8. n = 5 => Reading(2)'
      BY <1>5, <3>5, <3>6 DEF Reading, GotPart
    <3>9. Written(Len(Hello))'
      BY <3>1, <3>2 DEF Written
    <3> QED
      BY <1>4, <1>5, <2>1, <2>5, <3>7, <3>8, <3>9 DEF TestSteps
  <2> QED
    BY <2>2, <2>3, <2>4, <2>5
<1> QED
  BY <1>3, <1>4, <1>6 DEF TestInv

LEMMA TestFinishTest ==
  ASSUME CharInv, TestInv, Finish("test")
  PROVE  TestInv'
<1> DEFINE n == callNo["test"]
           c == charCall["test"]
<1>1. "test" \in Procs /\ FileOf("test") = "test"
  BY DEF Procs, FileOf
<1>2. /\ pos \in [Procs -> 0 .. MemLen] /\ charCall \in [Procs -> Call \cup {NoCall}]
      /\ callNo \in [Procs -> Nat] /\ ret \in [Procs -> Int]
      /\ Len(Hello) \in 4 .. MemLen /\ MemLen \in Nat
  BY MemAssumption, HelloAssumption DEF CharInv, CharTypes
<1>3. /\ c # NoCall /\ c \in Call /\ CallSound(c) /\ c.i = c.n /\ state["test"] = "open"
      /\ TestCall = c /\ InCall
  BY <1>1 DEF Finish, CharInv, CharTypes, CallsSound, InCall, TestCall
<1>4. /\ UNCHANGED <<mem, writes, state, got>>
      /\ \A q \in Procs \ {"test"} : charCall'[q] = charCall[q]
      /\ TestCall' = NoCall /\ callNo'["test"] = n + 1
      /\ pos'["test"] = c.off + c.n
      /\ ret'["test"] = IF c.op = "seek" THEN c.off ELSE c.n
  BY <1>1, <1>2 DEF Finish, CharReturn, TestCall
<1>5. ~InCall' /\ n \in Nat
  BY <1>1, <1>2, <1>4 DEF InCall
<1>6. ASSUME ~writes PROVE TestSteps'
  <2>1. TestSteps
    BY <1>3, <1>6 DEF TestInv
  <2>2. n \in {2, 3, 4, 5}
    BY <1>3, <1>5, <2>1 DEF TestSteps
  <2>3. CASE n = 2
    <3>1. Writing
      BY <1>3, <2>1, <2>3 DEF TestSteps
    <3>2. c.op = "write" /\ c.off = 0 /\ c.n = Len(Hello) /\ Written(Len(Hello))
      BY <1>3, <3>1 DEF Writing
    <3>3. Written(Len(Hello))'
      BY <1>4, <3>2 DEF Written
    <3> QED
      BY <1>2, <1>4, <1>5, <2>3, <3>2, <3>3 DEF TestSteps
  <2>4. CASE n \in {3, 4, 5}
    <3>1. Written(Len(Hello))'
      <4>1. Written(Len(Hello))
        BY <1>5, <2>1, <2>4 DEF TestSteps
      <4> QED
        BY <1>4, <4>1 DEF Written
    <3>2. n = 3 => Rewinding /\ c.off = 0 /\ c.n = 0
      BY <1>3, <2>1 DEF TestSteps, Rewinding, CallSound
    <3>3. n = 4 => Reading(0)
      BY <1>3, <2>1 DEF TestSteps
    <3>4. n = 5 => Reading(2)
      BY <1>3, <2>1 DEF TestSteps
    <3>5. CASE n = 3
      BY <1>3, <1>4, <1>5, <3>1, <3>2, <3>5 DEF TestSteps, Rewinding
    <3>6. CASE n = 4
      <4>1. c.op = "read" /\ c.off = 0 /\ c.n = 2 /\ GotPart(0, 2)
        BY <1>3, <3>3, <3>6 DEF Reading
      <4>2. GotPart(0, 2)'
        BY <1>4, <4>1 DEF GotPart, TestGot
      <4> QED
        BY <1>4, <1>5, <3>1, <3>6, <4>1, <4>2 DEF TestSteps
    <3>7. CASE n = 5
      <4>1. c.op = "read" /\ c.off = 2 /\ c.n = 2 /\ GotPart(2, 2)
        BY <1>3, <3>4, <3>7 DEF Reading
      <4>2. GotPart(2, 2)'
        BY <1>4, <4>1 DEF GotPart, TestGot
      <4> QED
        BY <1>4, <1>5, <3>1, <3>7, <4>1, <4>2 DEF TestSteps
    <3> QED
      BY <2>4, <3>5, <3>6, <3>7
  <2> QED
    BY <2>2, <2>3, <2>4
<1> QED
  BY <1>3, <1>4, <1>6 DEF TestInv

LEMMA NextTestInv == CharInv /\ TestInv /\ [CharNext]_charVars => TestInv'
<1> SUFFICES ASSUME CharInv, TestInv, [CharNext]_charVars PROVE TestInv'
  OBVIOUS
<1>1. CASE char_dev_init \/ char_dev_exit
  BY <1>1, LoadTest
<1>2. ASSUME NEW p \in Procs, char_dev_open(p) \/ CharProceed(p) \/ Fault(p) PROVE TestInv'
  <2>1. CASE p # "test"
    BY <1>2, <2>1, OtherProceedTest
  <2>2. CASE p = "test"
    BY <1>2, <2>2, TestOpenTest, TestMainTest, TestCopyTest, TestFinishTest
       DEF CharProceed, Fault
  <2> QED
    BY <2>1, <2>2
<1>3. CASE UNCHANGED charVars
  BY <1>3, OthersTest DEF charVars, procVars, TestVars, TestCall, TestGot, TestInv
<1> QED
  BY <1>1, <1>2, <1>3 DEF CharNext

LEMMA InitTestInv == CharInit => TestInv
BY DEF CharInit, TestInv, Procs

LEMMA GotIsPart ==
  ASSUME CharInv, NEW off \in {0, 2}, GotPart(off, 2)
  PROVE  TestGot = SubSeq(Hello, off + 1, off + 2)
<1>1. TestGot \in Seq(Byte)
  BY DEF CharInv, CharTypes, TestGot, Procs
<1>2. Hello \in Seq(STRING \ {JunkByte}) /\ Len(Hello) >= 4
  BY HelloAssumption, MemAssumption
<1>3. /\ Len(SubSeq(Hello, off + 1, off + 2)) = 2
      /\ \A k \in 1 .. 2 : SubSeq(Hello, off + 1, off + 2)[k] = Hello[off + k]
      /\ SubSeq(Hello, off + 1, off + 2) \in Seq(STRING \ {JunkByte})
  BY <1>2
<1> QED
  BY <1>1, <1>3 DEF GotPart

(* What a process has read was never the memory's junk, and usertest, with *)
(* nobody else writing, reads back its own text in two pieces.             *)
THEOREM WrittenIsRead == CharSpec => []ReadsWhatIsThere
<1>1. CharInv => ReadsNoJunk
  BY BytesAreNotJunk DEF CharInv, CharTypes, ReadsNoJunk
<1>2. CharInv /\ TestInv => TestReadsBack
  <2> SUFFICES ASSUME CharInv, TestInv, state["test"] = "open", TestCall = NoCall, ~writes
               PROVE  TestReadsBack
    BY DEF TestReadsBack, TestCall
  <2>1. TestSteps /\ ~InCall
    BY DEF TestInv, InCall
  <2>2. callNo["test"] = 5 => TestGot = SubSeq(Hello, 1, 2)
    BY <2>1, GotIsPart DEF TestSteps
  <2>3. callNo["test"] = 6 => TestGot = SubSeq(Hello, 3, 4)
    BY <2>1, GotIsPart DEF TestSteps
  <2> QED
    BY <2>1, <2>2, <2>3 DEF TestReadsBack, TestSteps, TestGot
<1>3. CharInv /\ TestInv => ReadsWhatIsThere
  BY <1>1, <1>2 DEF ReadsWhatIsThere
<1> QED
  BY <1>3, InitCharInv, InitTestInv, NextCharInv, NextTestInv, PTL DEF CharSpec

-----------------------------------------------------------------------------
(* BlkDriver. *)

Words == Int \X Int

Transfer0 ==
  [type : {"fs"}, write : BOOLEAN, sector : Sectors, val : Nat, bios : Cuts]

Requests ==
  {[type |-> "other"]} \cup {r \in Transfer0 : r.sector + LengthOf(r) <= Total}

(* What the module holds after each step of ramvhd_init and ramvhd_exit.   *)
HeldAfter(n) ==
  CASE n = 0 -> {}
    [] n = 1 -> {"memory"}
    [] n = 2 -> {"memory", "major"}
    [] n = 3 -> {"memory", "major", "disk"}
    [] n = 4 -> {"memory", "major", "disk", "queue"}
    [] n = 5 -> {"memory", "major", "disk", "queue", "live"}
    [] n = 6 -> {"memory", "major", "disk", "queue", "live"}
    [] n = 7 -> {"memory", "major", "disk", "queue"}
    [] n = 8 -> {"memory", "major", "queue"}
    [] n = 9 -> {"memory", "queue"}
    [] n = 10 -> {"memory"}

BlkModuleInv ==
  /\ blkStep \in 0 .. 10
  /\ blkHeld = HeldAfter(blkStep)
  /\ capacity = IF blkStep = 6 THEN Total ELSE 0
  /\ open \in BOOLEAN
  /\ open => blkStep \in {5, 6}

BlkTypes ==
  /\ made \in Nat
  /\ queue \in Seq(Requests)
  /\ cur \in Requests \cup {None}
  /\ blkPos \in Nat
  /\ disk \in [Sectors -> Words]
  /\ asked \in [Sectors -> Words]
  /\ even \in BOOLEAN
  /\ lost \in BOOLEAN

(* A disk with requests stays open, so that the module stays, and          *)
(* transfers come after the capacity is set: the memory is not new then.   *)
BusyIsOpen ==
  /\ queue # <<>> \/ cur # None \/ lost => open
  /\ cur.type = "fs" => blkStep = 6
  /\ \A i \in DOMAIN queue : queue[i].type = "fs" => blkStep = 6

EvenRequests ==
  even => /\ ~lost
          /\ cur.type = "fs" => EvenCut(cur.bios)
          /\ \A i \in DOMAIN queue : queue[i].type = "fs" => EvenCut(queue[i].bios)

SegStartOf(c, b, i) == IF i = 1 THEN StartOf(c, b) ELSE c[b][i - 1]

(* The driver is inside the request, and knows how far it has come.        *)
Placed ==
  cur.type = "fs" =>
    /\ bio \in 1 .. Len(cur.bios) + 1
    /\ bio <= Len(cur.bios) => seg \in 1 .. Len(cur.bios[bio])
    /\ data \in [1 .. LengthOf(cur) -> Words]
    /\ even /\ bio <= Len(cur.bios) =>
         blkPos = cur.sector + SegStartOf(cur.bios, bio, seg)

(* The sectors of the request that are transferred. *)
Done ==
  IF bio <= Len(cur.bios) THEN SegStartOf(cur.bios, bio, seg) ELSE LengthOf(cur)

(* The sectors of r up to the n-th hold what r writes, the others what     *)
(* they are to hold before r.                                              *)
Partly(r, n) ==
  [s \in Sectors |-> IF s \in r.sector .. r.sector + n - 1 THEN Word(r, s - r.sector)
                     ELSE asked[s]]

SoFar ==
  even =>
    /\ ~(cur.type = "fs" /\ cur.write) => disk = asked
    /\ cur.type = "fs" /\ cur.write => disk = Partly(cur, Done)
    /\ cur.type = "fs" /\ ~cur.write =>
         \A k \in 1 .. Done : data[k] = asked[cur.sector + k - 1]

RequestInv == BlkTypes /\ BusyIsOpen /\ EvenRequests /\ Placed /\ SoFar

BlkInv == BlkModuleInv /\ RequestInv
-----------------------------------------------------------------------------
(* The cut of a request. *)

LEMMA CutFacts ==
  ASSUME NEW c \in Cuts
  PROVE  /\ Len(c) \in Nat \ {0}
         /\ DOMAIN c = 1 .. Len(c)
         /\ \A b \in 1 .. Len(c) :
              /\ Len(c[b]) \in Nat \ {0}
              /\ DOMAIN c[b] = 1 .. Len(c[b])
              /\ \A i \in 1 .. Len(c[b]) : c[b][i] \in Nat \ {0}
<1>1. c \in Seq(Seq(Nat \ {0}) \ {<<>>}) /\ c # <<>>
  BY CutsAssumption
<1>2. ASSUME NEW b \in 1 .. Len(c)
      PROVE  c[b] \in Seq(Nat \ {0}) /\ c[b] # <<>>
  BY <1>1
<1> QED
  BY <1>1, <1>2

LEMMA CutGrows ==
  ASSUME NEW c \in Cuts, NEW a \in 1 .. Len(c), NEW b \in 1 .. Len(c),
         NEW i \in 1 .. Len(c[a]), NEW j \in 1 .. Len(c[b]),
         a < b \/ (a = b /\ i < j)
  PROVE  c[a][i] < c[b][j]
BY CutFacts, CutsAssumption

(* A segment has its place inside the request, and begins where the one    *)
(* before it ends.                                                         *)
LEMMA SegmentBounds ==
  ASSUME NEW c \in Cuts, NEW b \in 1 .. Len(c), NEW i \in 1 .. Len(c[b])
  PROVE  /\ StartOf(c, b) \in Nat
         /\ SegStartOf(c, b, i) \in Nat
         /\ c[b][i] \in Nat
         /\ SegStartOf(c, b, i) < c[b][i]
         /\ Last(Last(c)) \in Nat
         /\ c[b][i] =< Last(Last(c))
         /\ c[b][1] \in Nat
         /\ StartOf(c, b) < c[b][1]
<1>1. ASSUME b # 1
      PROVE  /\ b - 1 \in 1 .. Len(c) /\ Len(c[b - 1]) \in 1 .. Len(c[b - 1])
             /\ StartOf(c, b) = c[b - 1][Len(c[b - 1])]
  BY <1>1, CutFacts DEF StartOf, Last
<1>2. ASSUME NEW j \in 1 .. Len(c[b])
      PROVE  StartOf(c, b) \in Nat /\ c[b][j] \in Nat /\ StartOf(c, b) < c[b][j]
  <2>1. c[b][j] \in Nat \ {0}
    BY CutFacts
  <2>2. CASE b = 1
    BY <2>1, <2>2 DEF StartOf
  <2>3. CASE b # 1
    <3>1. c[b - 1][Len(c[b - 1])] < c[b][j]
      <4>1. b - 1 < b
        BY CutFacts
      <4> QED
        BY <1>1, <2>3, <4>1, CutGrows
    <3> QED
      BY <2>1, <2>3, <3>1, <1>1, CutFacts
  <2> QED
    BY <2>2, <2>3
<1>3. 1 \in 1 .. Len(c[b])
  BY CutFacts
<1>4. SegStartOf(c, b, i) \in Nat /\ SegStartOf(c, b, i) < c[b][i]
  <2>1. CASE i = 1
    BY <1>2, <2>1 DEF SegStartOf
  <2>2. CASE i # 1
    <3>1. i - 1 \in 1 .. Len(c[b])
      BY <2>2, CutFacts
    <3>2. c[b][i - 1] < c[b][i]
      BY <3>1, CutGrows
    <3> QED
      BY <2>2, <3>1, <3>2, CutFacts DEF SegStartOf
  <2> QED
    BY <2>1, <2>2
<1>5. /\ Len(c) \in 1 .. Len(c) /\ Len(c[Len(c)]) \in 1 .. Len(c[Len(c)])
      /\ Last(Last(c)) = c[Len(c)][Len(c[Len(c)])]
  BY CutFacts DEF Last
<1>6. Last(Last(c)) \in Nat /\ c[b][i] =< Last(Last(c))
  <2>1. CASE b < Len(c) \/ i < Len(c[b])
    <3>1. c[b][i] < c[Len(c)][Len(c[Len(c)])]
      BY <1>5, <2>1, CutGrows, CutFacts
    <3>2. c[b][i] \in Nat /\ c[Len(c)][Len(c[Len(c)])] \in Nat
      BY <1>5, CutFacts
    <3> QED
      BY <3>1, <3>2, <1>5
  <2>2. CASE b = Len(c) /\ i = Len(c[b])
    BY <1>5, <2>2, CutFacts
  <2> QED
    BY <2>1, <2>2, CutFacts
<1> QED
  BY <1>2, <1>3, <1>4, <1>6

LEMMA EvenSegment ==
  ASSUME NEW c \in Cuts, EvenCut(c), NEW b \in 1 .. Len(c), NEW i \in 1 .. Len(c[b])
  PROVE  c[b][i] - SegStartOf(c, b, i) = c[b][1] - StartOf(c, b)
BY CutFacts DEF EvenCut, SegStartOf
-----------------------------------------------------------------------------
(* Requests. *)

LEMMA RequestKinds ==
  /\ None.type = "none"
  /\ \A r \in Requests : /\ r # None
                         /\ r.type \in {"other", "fs"}
                         /\ r.type = "fs" => /\ r \in Transfer0
                                             /\ r.sector + LengthOf(r) =< Total
BY DEF None, Requests, Transfer0

LEMMA LengthIsNat ==
  ASSUME NEW r \in Transfer0
  PROVE  LengthOf(r) \in Nat \ {0} /\ r.sector \in Nat /\ r.bios \in Cuts
<1>1. r.bios \in Cuts /\ r.sector \in Nat
  BY TotalAssumption DEF Transfer0, Sectors
<1>2. Len(r.bios) \in 1 .. Len(r.bios) /\ 1 \in 1 .. Len(r.bios[Len(r.bios)])
  BY <1>1, CutFacts
<1> QED
  BY <1>1, <1>2, SegmentBounds DEF LengthOf

(* What is transferred lies inside the request. *)
LEMMA DoneInside ==
  ASSUME BlkTypes, Placed, cur.type = "fs"
  PROVE  Done \in 0 .. LengthOf(cur)
<1>1. cur \in Transfer0
  BY RequestKinds DEF BlkTypes
<1>2. cur.bios \in Cuts /\ LengthOf(cur) \in Nat
  BY <1>1, LengthIsNat
<1>3. CASE bio =< Len(cur.bios)
  <2>1. bio \in 1 .. Len(cur.bios) /\ seg \in 1 .. Len(cur.bios[bio])
    BY <1>2, <1>3, CutFacts DEF Placed
  <2> QED
    BY <1>2, <1>3, <2>1, SegmentBounds DEF Done, LengthOf
<1>4. CASE ~(bio =< Len(cur.bios))
  BY <1>2, <1>4 DEF Done
<1> QED
  BY <1>3, <1>4

LEMMA PartlyTyped ==
  ASSUME BlkTypes, NEW r \in Transfer0, NEW n \in Int
  PROVE  Partly(r, n) \in [Sectors -> Words]
BY DEF Partly, BlkTypes, Words, Word, Transfer0, Sectors

LEMMA NonePartly ==
  ASSUME BlkTypes, NEW r \in Transfer0
  PROVE  Partly(r, 0) = asked
BY DEF Partly, BlkTypes, Transfer0, Sectors
-----------------------------------------------------------------------------
(* The module. *)

LEMMA ModuleStarts == BlkInit => BlkModuleInv
<1> SUFFICES ASSUME BlkInit PROVE BlkModuleInv
  OBVIOUS
<1>1. blkStep = 0 /\ blkHeld = {} /\ capacity = 0 /\ open = FALSE
  BY DEF BlkInit
<1>2. HeldAfter(blkStep) = {}
  BY <1>1 DEF HeldAfter
<1>3. blkStep \in 0 .. 10 /\ (capacity = IF blkStep = 6 THEN Total ELSE 0)
  BY <1>1
<1>4. open \in BOOLEAN /\ (open => blkStep \in {5, 6})
  BY <1>1
<1> QED
  BY <1>1, <1>2, <1>3, <1>4 DEF BlkModuleInv

LEMMA InitStepNamed ==
  /\ Len(BlkInitSteps) = 6
  /\ BlkInitSteps[1] = "memory" /\ BlkInitSteps[2] = "major" /\ BlkInitSteps[3] = "disk"
  /\ BlkInitSteps[4] = "queue" /\ BlkInitSteps[5] = "live" /\ BlkInitSteps[6] = "capacity"
BY DEF BlkInitSteps

LEMMA ExitStepNamed ==
  /\ Len(BlkExitSteps) = 5
  /\ BlkExitSteps[1] = "live" /\ BlkExitSteps[2] = "disk" /\ BlkExitSteps[3] = "major"
  /\ BlkExitSteps[4] = "queue" /\ BlkExitSteps[5] = "memory"
BY DEF BlkExitSteps

LEMMA RollBackFreesAll ==
  ASSUME NEW n \in 0 .. 3
  PROVE  HeldAfter(n) \ BlkRollBack(n + 1) = {}
<1>1. \A j \in 1 .. n : BlkInitSteps[j] \in BlkRollBack(n + 1)
  BY DEF BlkRollBack
<1>2. CASE n = 0
  BY <1>2 DEF HeldAfter
<1>3. CASE n = 1
  <2>1. "memory" \in BlkRollBack(n + 1)
    BY <1>1, <1>3, InitStepNamed
  <2> QED
    BY <1>3, <2>1 DEF HeldAfter
<1>4. CASE n = 2
  <2>1. "memory" \in BlkRollBack(n + 1) /\ "major" \in BlkRollBack(n + 1)
    BY <1>1, <1>4, InitStepNamed
  <2> QED
    BY <1>4, <2>1 DEF HeldAfter
<1>5. CASE n = 3
  <2>1. {"memory", "major", "disk"} \subseteq BlkRollBack(n + 1)
    BY <1>1, <1>5, InitStepNamed
  <2> QED
    BY <1>5, <2>1 DEF HeldAfter
<1> QED
  BY <1>2, <1>3, <1>4, <1>5

LEMMA InitKeepsModule ==
  ASSUME BlkModuleInv, ramvhd_init
  PROVE  BlkModuleInv'
<1> DEFINE s == BlkInitSteps[blkStep + 1]
<1>1. blkStep \in 0 .. 5 /\ blkHeld = HeldAfter(blkStep) /\ capacity = 0
  BY InitStepNamed DEF BlkModuleInv, ramvhd_init
<1>2. open \in BOOLEAN /\ open' = open /\ (open => blkStep = 5)
  BY <1>1 DEF BlkModuleInv, ramvhd_init
<1>3. CASE /\ blkStep' = blkStep + 1
           /\ blkHeld' = blkHeld \cup ({s} \ {"capacity"})
           /\ capacity' = Capacity(s)
  <2>1. blkHeld' = HeldAfter(blkStep')
    <3>1. blkStep \in {0, 1, 2, 3, 4, 5}
      BY <1>1
    <3> QED
      BY <1>1, <1>3, <3>1, InitStepNamed DEF HeldAfter
  <2>2. capacity' = IF blkStep' = 6 THEN Total ELSE 0
    <3>1. blkStep \in {0, 1, 2, 3, 4, 5}
      BY <1>1
    <3> QED
      BY <1>1, <1>3, <3>1, InitStepNamed DEF Capacity
  <2> QED
    BY <1>1, <1>2, <1>3, <2>1, <2>2 DEF BlkModuleInv
<1>4. CASE /\ s \in Fallible
           /\ blkStep' = 0
           /\ blkHeld' = blkHeld \ BlkRollBack(blkStep + 1)
           /\ UNCHANGED capacity
  <2>1. blkStep \in 0 .. 3
    <3>1. blkStep # 4 /\ blkStep # 5
      BY <1>4, InitStepNamed DEF Fallible
    <3> QED
      BY <1>1, <3>1
  <2>2. blkHeld' = {} /\ HeldAfter(0) = {}
    BY <1>1, <1>4, <2>1, RollBackFreesAll DEF HeldAfter
  <2> QED
    BY <1>1, <1>2, <1>4, <2>1, <2>2 DEF BlkModuleInv
<1> QED
  BY <1>3, <1>4 DEF ramvhd_init

LEMMA ExitKeepsModule ==
  ASSUME BlkModuleInv, ramvhd_exit
  PROVE  BlkModuleInv'
<1> DEFINE e == blkStep - 5
<1>1. blkStep \in 6 .. 10 /\ blkHeld = HeldAfter(blkStep) /\ capacity' = 0
  BY InitStepNamed DEF BlkModuleInv, ramvhd_exit
<1>2. open' = FALSE
  BY DEF ramvhd_exit, BlkModuleInv
<1>3. /\ blkHeld' = blkHeld \ {BlkExitSteps[e]}
      /\ blkStep' = IF e = 5 THEN 0 ELSE blkStep + 1
  BY <1>1, InitStepNamed, ExitStepNamed DEF ramvhd_exit
<1>4. blkStep' \in 0 .. 10 /\ blkStep' # 6 /\ blkHeld' = HeldAfter(blkStep')
  <2>1. CASE blkStep = 6
    BY <1>1, <1>3, <2>1, ExitStepNamed DEF HeldAfter
  <2>2. CASE blkStep = 7
    BY <1>1, <1>3, <2>2, ExitStepNamed DEF HeldAfter
  <2>3. CASE blkStep = 8
    BY <1>1, <1>3, <2>3, ExitStepNamed DEF HeldAfter
  <2>4. CASE blkStep = 9
    BY <1>1, <1>3, <2>4, ExitStepNamed DEF HeldAfter
  <2>5. CASE blkStep = 10
    BY <1>1, <1>3, <2>5, ExitStepNamed DEF HeldAfter
  <2> QED
    BY <1>1, <2>1, <2>2, <2>3, <2>4, <2>5
<1> QED
  BY <1>1, <1>2, <1>4 DEF BlkModuleInv

(* A disk that is open is live, and no other step touches the module. *)
LEMMA OthersKeepModule ==
  ASSUME BlkModuleInv, UNCHANGED blkModule,
         open' = open \/ my_blk_open \/ my_blk_release
  PROVE  BlkModuleInv'
<1>1. ASSUME "live" \in blkHeld PROVE blkStep \in {5, 6}
  BY <1>1 DEF BlkModuleInv, HeldAfter
<1>2. open' \in BOOLEAN /\ (open' => blkStep \in {5, 6})
  <2>1. CASE open' = open
    BY <2>1 DEF BlkModuleInv
  <2>2. CASE my_blk_open
    BY <1>1, <2>2 DEF my_blk_open
  <2>3. CASE my_blk_release
    BY <2>3 DEF my_blk_release
  <2> QED
    BY <2>1, <2>2, <2>3
<1> QED
  BY <1>2 DEF BlkModuleInv, blkModule
-----------------------------------------------------------------------------
(* The requests. *)

LEMMA RequestsStart == BlkInit => RequestInv
<1> SUFFICES ASSUME BlkInit PROVE RequestInv
  OBVIOUS
<1>1. cur.type # "fs" /\ cur \in Requests \cup {None}
  BY RequestKinds DEF BlkInit
<1>2. BlkTypes
  <2>1. queue \in Seq(Requests)
    <3>1. <<>> \in Seq(Requests)
      OBVIOUS
    <3> QED
      BY <3>1 DEF BlkInit
  <2>2. disk \in [Sectors -> Words] /\ asked \in [Sectors -> Words]
    <3>1. [s \in Sectors |-> JunkSector] \in [Sectors -> Words]
      BY DEF JunkSector, Words
    <3>2. disk = [s \in Sectors |-> JunkSector] /\ asked = disk
      BY Zenon DEF BlkInit
    <3> QED
      BY <3>1, <3>2
  <2>3. made \in Nat /\ blkPos \in Nat /\ even \in BOOLEAN /\ lost \in BOOLEAN
    BY DEF BlkInit
  <2> QED
    BY <1>1, <2>1, <2>2, <2>3 DEF BlkTypes
<1>3. queue = <<>> /\ cur = None /\ lost = FALSE /\ DOMAIN queue = {}
  BY DEF BlkInit
<1>4. BusyIsOpen /\ EvenRequests /\ Placed
  BY <1>1, <1>3 DEF BusyIsOpen, EvenRequests, Placed
<1>5. SoFar
  BY <1>1 DEF SoFar, BlkInit
<1> QED
  BY <1>2, <1>4, <1>5 DEF RequestInv

LEMMA InitKeepsRequests ==
  ASSUME BlkModuleInv, RequestInv, ramvhd_init
  PROVE  RequestInv'
<1>1. blkStep # 6
  BY InitStepNamed DEF BlkModuleInv, ramvhd_init
<1>2. cur.type # "fs" /\ \A i \in DOMAIN queue : queue[i].type # "fs"
  BY <1>1 DEF RequestInv, BusyIsOpen
<1>3. UNCHANGED <<open, made, queue, cur, blkPos, even, lost>>
  BY DEF ramvhd_init, blkWalk
<1>4. BlkTypes'
  <2>1. disk' \in [Sectors -> Words] /\ asked' = disk'
    BY DEF ramvhd_init, JunkSector, Words
  <2> QED
    BY <1>3, <2>1 DEF RequestInv, BlkTypes
<1>5. BusyIsOpen' /\ EvenRequests' /\ Placed'
  BY <1>2, <1>3 DEF RequestInv, BusyIsOpen, EvenRequests, Placed
<1>6. SoFar'
  BY <1>2, <1>3 DEF SoFar, ramvhd_init
<1> QED
  BY <1>4, <1>5, <1>6 DEF RequestInv

LEMMA ExitKeepsRequests ==
  ASSUME RequestInv, ramvhd_exit
  PROVE  RequestInv'
<1>1. queue = <<>> /\ cur = None /\ ~lost /\ DOMAIN queue = {}
  BY DEF RequestInv, BusyIsOpen, ramvhd_exit
<1>2. UNCHANGED <<open, made, queue, cur, blkPos, disk, asked, even, lost>>
  BY DEF ramvhd_exit, blkWalk
<1>3. cur.type # "fs"
  BY <1>1, RequestKinds
<1>4. BlkTypes'
  BY <1>2 DEF RequestInv, BlkTypes
<1>5. BusyIsOpen' /\ EvenRequests' /\ Placed'
  BY <1>1, <1>2, <1>3 DEF RequestInv, BusyIsOpen, EvenRequests, Placed
<1>6. SoFar'
  BY <1>2, <1>3 DEF RequestInv, SoFar
<1> QED
  BY <1>4, <1>5, <1>6 DEF RequestInv

(* Opening and closing the disk, and steps of nobody. *)
LEMMA OpeningKeepsRequests ==
  ASSUME RequestInv, my_blk_open \/ my_blk_release \/ UNCHANGED blkVars
  PROVE  RequestInv'
<1>1. UNCHANGED <<blkStep, made, queue, cur, bio, seg, blkPos, data, disk, asked, even, lost>>
  BY DEF my_blk_open, my_blk_release, blkVars, blkModule, blkWalk
<1>2. queue # <<>> \/ cur # None \/ lost => open'
  BY DEF my_blk_open, my_blk_release, blkVars, RequestInv, BusyIsOpen
<1>3. BlkTypes'
  BY <1>1 DEF RequestInv, BlkTypes
<1>4. BusyIsOpen'
  BY <1>1, <1>2 DEF RequestInv, BusyIsOpen
<1>5. EvenRequests' /\ Placed'
  BY <1>1 DEF RequestInv, EvenRequests, Placed
<1>6. Done' = Done
  BY <1>1 DEF Done
<1>7. \A r, n : Partly(r, n)' = Partly(r, n)
  BY <1>1 DEF Partly, Word
<1>8. SoFar'
  BY <1>1, <1>6, <1>7 DEF RequestInv, SoFar
<1> QED
  BY <1>3, <1>4, <1>5, <1>8 DEF RequestInv

LEMMA SubmitKeepsRequests ==
  ASSUME BlkModuleInv, RequestInv, Submit
  PROVE  RequestInv'
<1>1. /\ open /\ cur = None /\ made' = made + 1 /\ cur' = None
      /\ UNCHANGED <<blkStep, open, cur, blkPos, disk, asked, lost>>
  BY DEF Submit, blkModule, blkWalk
<1>2. cur'.type # "fs"
  BY <1>1, RequestKinds
<1>3. PICK r \in Requests :
        /\ queue' = Append(queue, r)
        /\ r.type = "fs" => blkStep = 6
        /\ even' \in BOOLEAN
        /\ even' => even /\ (r.type = "fs" => EvenCut(r.bios))
  <2>1. CASE queue' = Append(queue, [type |-> "other"]) /\ UNCHANGED even
    <3>1. [type |-> "other"] \in Requests
      BY DEF Requests
    <3>2. even \in BOOLEAN
      BY DEF RequestInv, BlkTypes
    <3> QED
      BY <2>1, <3>1, <3>2
  <2>2. ASSUME NEW r \in Transfers, r.sector + LengthOf(r) =< capacity,
               queue' = Append(queue, r), even' = (even /\ EvenCut(r.bios))
        PROVE  /\ r \in Requests /\ blkStep = 6
               /\ even' \in BOOLEAN /\ (even' => even /\ EvenCut(r.bios))
    <3>1. r \in Transfer0
      BY <2>2 DEF Transfers, Transfer0, RequestInv, BlkTypes
    <3>2. LengthOf(r) \in Nat \ {0} /\ r.sector \in Nat
      BY <3>1, LengthIsNat
    <3>3. blkStep = 6 /\ capacity = Total
      BY <2>2, <3>2 DEF BlkModuleInv
    <3>4. r \in Requests
      BY <2>2, <3>1, <3>3 DEF Requests
    <3>5. even' \in BOOLEAN
      BY <2>2
    <3> QED
      BY <2>2, <3>3, <3>4, <3>5
  <2>3. \/ queue' = Append(queue, [type |-> "other"]) /\ UNCHANGED even
        \/ \E r \in Transfers : /\ r.sector + LengthOf(r) =< capacity
                                /\ queue' = Append(queue, r)
                                /\ even' = (even /\ EvenCut(r.bios))
    BY DEF Submit
  <2> QED
    BY <2>1, <2>2, <2>3
<1>4. queue \in Seq(Requests)
  BY DEF RequestInv, BlkTypes
<1>5. queue' \in Seq(Requests)
  BY <1>3, <1>4
<1>6. \A i \in DOMAIN queue' : (i \in DOMAIN queue /\ queue'[i] = queue[i]) \/ queue'[i] = r
  BY <1>3, <1>4
<1>7. BlkTypes'
  <2>1. made' \in Nat /\ cur' \in Requests \cup {None}
    BY <1>1 DEF RequestInv, BlkTypes
  <2> QED
    BY <1>1, <1>3, <1>5, <2>1 DEF RequestInv, BlkTypes
<1>8. BusyIsOpen'
  <2>1. \A i \in DOMAIN queue' : queue'[i].type = "fs" => blkStep' = 6
    BY <1>1, <1>3, <1>6 DEF RequestInv, BusyIsOpen
  <2> QED
    BY <1>1, <1>2, <2>1 DEF BusyIsOpen
<1>9. EvenRequests'
  <2>1. even' => \A i \in DOMAIN queue' : queue'[i].type = "fs" => EvenCut(queue'[i].bios)
    BY <1>3, <1>6 DEF RequestInv, EvenRequests
  <2>2. even' => ~lost'
    BY <1>1, <1>3 DEF RequestInv, EvenRequests
  <2> QED
    BY <1>2, <2>1, <2>2 DEF EvenRequests
<1>10. Placed'
  BY <1>2 DEF Placed
<1>11. SoFar'
  BY <1>1, <1>2, <1>3, RequestKinds DEF RequestInv, SoFar
<1> QED
  BY <1>7, <1>8, <1>9, <1>10, <1>11 DEF RequestInv

LEMMA FetchKeepsRequests ==
  ASSUME RequestInv, Fetch
  PROVE  RequestInv'
<1>1. queue \in Seq(Requests) /\ queue # <<>> /\ cur = None
  BY DEF RequestInv, BlkTypes, Fetch
<1>2. /\ cur' = queue[1] /\ cur' \in Requests /\ 1 \in DOMAIN queue
      /\ queue' \in Seq(Requests)
      /\ \A i \in DOMAIN queue' : i + 1 \in DOMAIN queue /\ queue'[i] = queue[i + 1]
  BY <1>1 DEF Fetch
<1>3. /\ UNCHANGED <<blkStep, open, made, disk, asked, even, lost>>
      /\ bio' = 1 /\ seg' = 1
      /\ blkPos' = IF cur'.type = "fs" THEN cur'.sector ELSE 0
      /\ data' = IF cur'.type = "fs" THEN [k \in 1 .. LengthOf(cur') |-> JunkSector] ELSE <<>>
  BY DEF Fetch, blkModule
<1>4. ASSUME cur'.type = "fs"
      PROVE  /\ cur' \in Transfer0 /\ cur'.sector \in Nat /\ cur'.bios \in Cuts
             /\ LengthOf(cur') \in Nat
  <2>1. cur' \in Transfer0
    BY <1>2, <1>4, RequestKinds
  <2> QED
    BY <2>1, LengthIsNat
<1>5. BlkTypes'
  <2>1. blkPos' \in Nat
    BY <1>3, <1>4
  <2> QED
    BY <1>2, <1>3, <2>1 DEF RequestInv, BlkTypes
<1>6. BusyIsOpen' /\ EvenRequests'
  BY <1>1, <1>2, <1>3 DEF RequestInv, BusyIsOpen, EvenRequests
<1>7. ASSUME cur'.type = "fs"
      PROVE  /\ 1 \in 1 .. Len(cur'.bios) /\ 1 \in 1 .. Len(cur'.bios[1])
             /\ SegStartOf(cur'.bios, 1, 1) = 0
  BY <1>4, <1>7, CutFacts DEF SegStartOf, StartOf
<1>8. Placed'
  <2> SUFFICES ASSUME cur'.type = "fs"
               PROVE  /\ bio' \in 1 .. Len(cur'.bios) + 1
                      /\ seg' \in 1 .. Len(cur'.bios[bio'])
                      /\ data' \in [1 .. LengthOf(cur') -> Words]
                      /\ blkPos' = cur'.sector + SegStartOf(cur'.bios, bio', seg')
    BY DEF Placed, LengthOf, SegStartOf, StartOf, Last
  <2>1. data' \in [1 .. LengthOf(cur') -> Words]
    BY <1>3 DEF JunkSector, Words
  <2>2. Len(cur'.bios) \in Nat
    BY <1>4, CutFacts
  <2> QED
    BY <1>3, <1>4, <1>7, <2>1, <2>2
<1>9. cur'.type = "fs" => Done' = 0
  BY <1>3, <1>7 DEF Done, LengthOf, SegStartOf, StartOf, Last
<1>10. SoFar'
  <2>1. even' => disk' = asked'
    BY <1>1, <1>3, RequestKinds DEF RequestInv, SoFar
  <2>2. cur'.type = "fs" => Partly(cur, Done)' = asked'
    <3>1. asked' \in [Sectors -> Words]
      BY <1>5 DEF BlkTypes
    <3> QED
      BY <1>4, <1>9, <3>1 DEF Partly, Sectors
  <2> QED
    BY <1>9, <2>1, <2>2 DEF SoFar
<1> QED
  BY <1>5, <1>6, <1>8, <1>10 DEF RequestInv

(* The driver moves on by one segment. *)
LEMMA AdvanceMoves ==
  ASSUME RequestInv, Transfer
  PROVE  /\ bio' \in 1 .. Len(cur.bios) + 1
         /\ bio' =< Len(cur.bios) => seg' \in 1 .. Len(cur.bios[bio'])
         /\ blkPos' \in Nat
         /\ Done' = cur.bios[bio][seg]
         /\ even => blkPos' = cur.sector + cur.bios[bio][seg]
<1> DEFINE c == cur.bios
<1>1. /\ cur.type = "fs" /\ cur' = cur
      /\ cur \in Transfer0 /\ cur.sector \in Nat /\ c \in Cuts
      /\ bio \in 1 .. Len(c) /\ seg \in 1 .. Len(c[bio])
  <2>1. cur.type = "fs" /\ cur' = cur /\ bio =< Len(c)
    BY DEF Transfer
  <2>2. cur \in Transfer0
    BY <2>1, RequestKinds DEF RequestInv, BlkTypes
  <2>3. cur.sector \in Nat /\ c \in Cuts
    BY <2>2, LengthIsNat
  <2> QED
    BY <2>1, <2>2, <2>3, CutFacts DEF RequestInv, Placed
<1>2. /\ Len(c) \in Nat /\ Len(c[bio]) \in Nat /\ blkPos \in Nat
      /\ c[bio][seg] \in Nat /\ c[bio][1] \in Nat /\ StartOf(c, bio) \in Nat
      /\ SegStartOf(c, bio, seg) \in Nat
  BY <1>1, CutFacts, SegmentBounds DEF RequestInv, BlkTypes
<1>3. CASE seg < Len(c[bio])
  <2>1. bio' = bio /\ seg' = seg + 1 /\ blkPos' = blkPos + (c[bio][1] - StartOf(c, bio))
    BY <1>3 DEF Transfer, Advance, CurSize, BioStart
  <2>2. SegStartOf(c, bio, seg + 1) = c[bio][seg]
    BY <1>1, <1>2 DEF SegStartOf
  <2>3. Done' = c[bio][seg]
    BY <1>1, <1>2, <2>1, <2>2 DEF Done, SegStartOf, StartOf, Last
  <2>4. even => blkPos' = cur.sector + c[bio][seg]
    <3> SUFFICES ASSUME even PROVE blkPos' = cur.sector + c[bio][seg]
      OBVIOUS
    <3>1. c[bio][seg] - SegStartOf(c, bio, seg) = c[bio][1] - StartOf(c, bio)
      BY <1>1, EvenSegment DEF RequestInv, EvenRequests
    <3>2. blkPos = cur.sector + SegStartOf(c, bio, seg)
      BY <1>1, <1>2 DEF RequestInv, Placed
    <3>3. blkPos' = (cur.sector + SegStartOf(c, bio, seg)) + (c[bio][seg] - SegStartOf(c, bio, seg))
      BY <2>1, <3>1, <3>2
    <3>4. \A n, a, b \in Nat : (n + a) + (b - a) = n + b
      OBVIOUS
    <3>5. cur.sector \in Nat /\ SegStartOf(c, bio, seg) \in Nat /\ c[bio][seg] \in Nat
      BY <1>1, <1>2
    <3> HIDE DEF c
    <3> QED
      BY <3>3, <3>4, <3>5
  <2>5. bio' \in 1 .. Len(c) + 1 /\ seg' \in 1 .. Len(c[bio'])
    <3>1. seg + 1 \in 1 .. Len(c[bio]) /\ bio \in 1 .. Len(c) + 1
      BY <1>1, <1>2, <1>3
    <3> QED
      BY <2>1, <3>1
  <2>6. blkPos' \in Nat
    <3>1. \A p, a, b \in Nat : b < a => p + (a - b) \in Nat
      OBVIOUS
    <3> QED
      BY <1>1, <1>2, <2>1, <3>1, SegmentBounds
  <2> QED
    BY <2>3, <2>4, <2>5, <2>6
<1>4. CASE ~(seg < Len(c[bio]))
  <2>1. seg = Len(c[bio]) /\ Last(c[bio]) = c[bio][seg]
    BY <1>1, <1>2, <1>4 DEF Last
  <2>2. bio' = bio + 1 /\ seg' = 1 /\ blkPos' = cur.sector + c[bio][seg]
    BY <1>4, <2>1 DEF Transfer, Advance
  <2>3. bio' =< Len(c) => 1 \in 1 .. Len(c[bio']) /\ SegStartOf(c, bio', 1) = c[bio][seg]
    BY <1>1, <1>2, <2>1, <2>2, CutFacts DEF SegStartOf, StartOf
  <2>4. ~(bio' =< Len(c)) => LengthOf(cur) = c[bio][seg]
    <3>1. ~(bio' =< Len(c)) => bio = Len(c)
      BY <1>1, <1>2, <2>2
    <3> QED
      BY <2>1, <3>1 DEF LengthOf, Last
  <2>5. Done' = c[bio][seg]
    BY <1>1, <2>2, <2>3, <2>4 DEF Done, LengthOf, SegStartOf, StartOf, Last
  <2>6. blkPos' \in Nat
    <3>1. \A n, a \in Nat : n + a \in Nat
      OBVIOUS
    <3> QED
      BY <1>1, <1>2, <2>2, <3>1
  <2>7. bio' \in 1 .. Len(c) + 1
    BY <1>1, <1>2, <2>2
  <2>8. bio' =< Len(c) => seg' \in 1 .. Len(c[bio'])
    BY <2>2, <2>3
  <2> QED
    BY <2>2, <2>5, <2>6, <2>7, <2>8
<1> QED
  BY <1>3, <1>4

(* What is read or written stays in the pages, or on the disk.             *)
LEMMA CopyTyped ==
  ASSUME RequestInv, Transfer
  PROVE  disk' \in [Sectors -> Words] /\ data' \in [1 .. LengthOf(cur) -> Words]
<1> DEFINE c == cur.bios
<1>1. /\ cur \in Transfer0 /\ c \in Cuts /\ blkPos \in Nat
      /\ bio \in 1 .. Len(c) /\ seg \in 1 .. Len(c[bio])
  <2>1. cur.type = "fs" /\ bio =< Len(c)
    BY DEF Transfer
  <2>2. cur \in Transfer0
    BY <2>1, RequestKinds DEF RequestInv, BlkTypes
  <2>3. c \in Cuts
    BY <2>2, LengthIsNat
  <2> QED
    BY <2>1, <2>2, <2>3, CutFacts DEF RequestInv, Placed, BlkTypes
<1>2. disk \in [Sectors -> Words] /\ data \in [1 .. LengthOf(cur) -> Words]
  BY DEF Transfer, RequestInv, BlkTypes, Placed
<1>3. SegStart = SegStartOf(c, bio, seg) /\ SegStart \in Nat /\ cur.val \in Nat
  <2>1. SegStart = SegStartOf(c, bio, seg)
    BY DEF SegStart, BioStart, SegStartOf
  <2> QED
    BY <1>1, <2>1, SegmentBounds DEF Transfer0
<1>4. CASE cur.write
  <2>1. disk' = [s \in Sectors |->
                   IF s \in blkPos .. blkPos + CurSize - 1 THEN PageWord(s - blkPos) ELSE disk[s]]
        /\ data' = data
    BY <1>4 DEF Transfer, CopyWrite
  <2>2. ASSUME NEW s \in Sectors PROVE PageWord(s - blkPos) \in Words
    <3>1. SegStart + (s - blkPos) \in Int
      BY <1>1, <1>3 DEF Sectors
    <3>2. Word(cur, SegStart + (s - blkPos)) \in Words /\ Foreign \in Words
      BY <1>3, <3>1 DEF Word, Foreign, Words
    <3> QED
      BY <3>2 DEF PageWord
  <2> QED
    BY <1>2, <2>1, <2>2
<1>5. CASE ~cur.write
  <2>1. data' = [k \in DOMAIN data |->
                   LET i == k - 1 - SegStart
                   IN  IF i \in 0 .. CurSize - 1 /\ InSegment(i) THEN disk[blkPos + i] ELSE data[k]]
        /\ disk' = disk
    BY <1>5 DEF Transfer, CopyRead
  <2>2. CurSize \in Int /\ blkPos + CurSize =< Total
    <3>1. c[bio][1] \in Nat /\ StartOf(c, bio) \in Nat
      BY <1>1, SegmentBounds
    <3>2. CurSize \in Int
      BY <3>1 DEF CurSize, BioStart
    <3> QED
      BY <1>1, <3>2, TotalAssumption DEF Transfer, OutOfRange
  <2>3. ASSUME NEW i \in 0 .. CurSize - 1 PROVE disk[blkPos + i] \in Words
    BY <1>1, <1>2, <2>2, TotalAssumption DEF Sectors
  <2>4. ASSUME NEW k \in 1 .. LengthOf(cur) PROVE data'[k] \in Words
    <3> DEFINE i == k - 1 - SegStart
    <3>1. data'[k] = IF i \in 0 .. CurSize - 1 /\ InSegment(i) THEN disk[blkPos + i] ELSE data[k]
      BY <1>2, <2>1
    <3>2. data[k] \in Words
      BY <1>2
    <3> HIDE DEF i
    <3> QED
      BY <2>3, <3>1, <3>2
  <2> QED
    BY <1>2, <2>1, <2>4
<1> QED
  BY <1>4, <1>5

LEMMA TransferKeepsRequests ==
  ASSUME RequestInv, Transfer
  PROVE  RequestInv'
<1> DEFINE c == cur.bios
           n == c[bio][seg]
<1>1. /\ cur.type = "fs" /\ cur \in Transfer0 /\ c \in Cuts /\ cur.sector \in Nat
      /\ bio \in 1 .. Len(c) /\ seg \in 1 .. Len(c[bio])
  <2>1. cur.type = "fs" /\ bio =< Len(c)
    BY DEF Transfer
  <2>2. cur \in Transfer0
    BY <2>1, RequestKinds DEF RequestInv, BlkTypes
  <2>3. c \in Cuts /\ cur.sector \in Nat
    BY <2>2, LengthIsNat
  <2> QED
    BY <2>1, <2>2, <2>3, CutFacts DEF RequestInv, Placed, BlkTypes
<1>2. UNCHANGED <<blkStep, open, made, queue, cur, asked, even, lost>>
  BY DEF Transfer, blkModule
<1>3. BlkTypes'
  BY <1>2, AdvanceMoves, CopyTyped DEF RequestInv, BlkTypes
<1>4. BusyIsOpen' /\ EvenRequests'
  BY <1>2 DEF RequestInv, BusyIsOpen, EvenRequests
<1>5. bio' =< Len(c) => Done' = SegStartOf(c, bio', seg')
  BY <1>2 DEF Done, SegStartOf, StartOf, Last
<1>6. Placed'
  <2>1. /\ bio' \in 1 .. Len(c) + 1
        /\ bio' =< Len(c) => seg' \in 1 .. Len(c[bio'])
        /\ data' \in [1 .. LengthOf(cur) -> Words]
        /\ even /\ bio' =< Len(c) => blkPos' = cur.sector + SegStartOf(c, bio', seg')
    BY <1>5, AdvanceMoves, CopyTyped
  <2> QED
    BY <1>2, <2>1 DEF Placed, LengthOf, SegStartOf, StartOf, Last
<1>7. ASSUME even
      PROVE  /\ CurSize = n - SegStart /\ blkPos = cur.sector + SegStart
             /\ SegStart = Done /\ SegStart \in Nat /\ n \in Nat /\ SegStart < n
             /\ n =< LengthOf(cur)
  <2>1. SegStart = SegStartOf(c, bio, seg) /\ CurSize = c[bio][1] - StartOf(c, bio)
    BY DEF SegStart, BioStart, SegStartOf, CurSize
  <2>2. CurSize = n - SegStart
    BY <1>1, <1>7, <2>1, EvenSegment DEF RequestInv, EvenRequests
  <2>3. bio =< Len(c)
    BY <1>1, CutFacts
  <2>4. blkPos = cur.sector + SegStart /\ SegStart = Done
    BY <1>1, <1>7, <2>1, <2>3 DEF RequestInv, Placed, Done
  <2> QED
    BY <1>1, <2>1, <2>2, <2>4, SegmentBounds DEF LengthOf
<1>8. ASSUME even, cur.write
      PROVE  disk' = Partly(cur, n)
  <2>1. disk' = [s \in Sectors |->
                   IF s \in blkPos .. blkPos + CurSize - 1 THEN PageWord(s - blkPos) ELSE disk[s]]
    BY <1>8 DEF Transfer, CopyWrite
  <2>2. disk = Partly(cur, SegStart)
    BY <1>1, <1>7, <1>8 DEF RequestInv, SoFar
  <2>3. ASSUME NEW s \in Sectors PROVE disk'[s] = Partly(cur, n)[s]
    <3>0. s \in Int /\ cur.sector \in Nat /\ SegStart \in Nat /\ n \in Nat /\ SegStart < n
      BY <1>1, <1>7, <1>8 DEF Sectors
    <3>1. CASE s < cur.sector + SegStart
      <4>1. s \notin blkPos .. blkPos + CurSize - 1
        BY <1>7, <1>8, <3>0, <3>1
      <4>2. disk'[s] = Partly(cur, SegStart)[s]
        BY <2>1, <2>2, <4>1
      <4> QED
        BY <3>0, <3>1, <4>2 DEF Partly
    <3>2. CASE s >= cur.sector + SegStart /\ s < cur.sector + n
      <4>1. s \in blkPos .. blkPos + CurSize - 1 /\ SegStart + (s - blkPos) = s - cur.sector
        BY <1>7, <1>8, <3>0, <3>2
      <4>2. PageWord(s - blkPos) = Word(cur, s - cur.sector)
        BY <3>0, <3>2, <4>1 DEF PageWord, InSegment
      <4>3. disk'[s] = Word(cur, s - cur.sector)
        BY <2>1, <4>1, <4>2
      <4> QED
        BY <3>0, <3>2, <4>3 DEF Partly
    <3>3. CASE s >= cur.sector + n
      <4>1. s \notin blkPos .. blkPos + CurSize - 1
        BY <1>7, <1>8, <3>0, <3>3
      <4>2. disk'[s] = Partly(cur, SegStart)[s]
        BY <2>1, <2>2, <4>1
      <4> QED
        BY <3>0, <3>3, <4>2 DEF Partly
    <3> QED
      BY <3>0, <3>1, <3>2, <3>3
  <2> HIDE DEF n
  <2> QED
    BY <2>1, <2>3 DEF Partly
<1>9. ASSUME even, ~cur.write
      PROVE  \A k \in 1 .. n : data'[k] = asked[cur.sector + k - 1]
  <2>1. data' = [k \in DOMAIN data |->
                   LET i == k - 1 - SegStart
                   IN  IF i \in 0 .. CurSize - 1 /\ InSegment(i) THEN disk[blkPos + i] ELSE data[k]]
    BY <1>9 DEF Transfer, CopyRead
  <2>2. DOMAIN data = 1 .. LengthOf(cur) /\ LengthOf(cur) \in Nat
    BY <1>1, LengthIsNat DEF RequestInv, Placed
  <2>3. disk = asked /\ \A k \in 1 .. SegStart : data[k] = asked[cur.sector + k - 1]
    BY <1>1, <1>7, <1>9 DEF RequestInv, SoFar
  <2>4. ASSUME NEW k \in 1 .. n PROVE data'[k] = asked[cur.sector + k - 1]
    <3>0. k \in Int /\ cur.sector \in Nat /\ SegStart \in Nat /\ n \in Nat /\ SegStart < n
      BY <1>1, <1>7, <1>9
    <3>1. data'[k] = IF k - 1 - SegStart \in 0 .. CurSize - 1 /\ InSegment(k - 1 - SegStart)
                       THEN disk[blkPos + (k - 1 - SegStart)] ELSE data[k]
      BY <1>7, <1>9, <2>1, <2>2, <3>0
    <3>2. CASE k =< SegStart
      <4>1. k - 1 - SegStart \notin 0 .. CurSize - 1
        BY <3>0, <3>2
      <4> QED
        BY <2>3, <3>0, <3>1, <3>2, <4>1
    <3>3. CASE k > SegStart
      <4>1. k - 1 - SegStart \in 0 .. CurSize - 1 /\ SegStart + (k - 1 - SegStart) < n
        BY <1>7, <1>9, <3>0, <3>3
      <4>2. blkPos + (k - 1 - SegStart) = cur.sector + k - 1
        BY <1>7, <1>9, <3>0
      <4> QED
        BY <2>3, <3>1, <4>1, <4>2 DEF InSegment
    <3> QED
      BY <3>0, <3>2, <3>3
  <2> QED
    BY <2>4
<1>10. SoFar'
  <2>1. Done' = n
    BY AdvanceMoves
  <2>2. \A r, m : Partly(r, m)' = Partly(r, m)
    BY <1>2 DEF Partly, Word
  <2>3. even => (cur.write => disk' = Partly(cur, Done'))
    BY <1>8, <2>1
  <2>4. even => (~cur.write => \A k \in 1 .. Done' : data'[k] = asked[cur.sector + k - 1])
    BY <1>9, <2>1
  <2> HIDE DEF n
  <2>5. Partly(cur, Done)' = Partly(cur, Done')
    BY <1>2, <2>2
  <2>6. (cur.type = "fs" /\ ~cur.write)' => (even' => disk' = asked')
    BY <1>1, <1>2 DEF Transfer, CopyRead, RequestInv, SoFar
  <2> QED
    BY <1>1, <1>2, <2>3, <2>4, <2>5, <2>6 DEF SoFar
<1> QED
  BY <1>3, <1>4, <1>6, <1>10 DEF RequestInv

(* After a request that is carried out, or left, none is fetched. *)
LEMMA EndKeepsRequests ==
  ASSUME RequestInv, End
  PROVE  RequestInv'
<1>1. UNCHANGED <<blkStep, open, made, queue, disk, even, lost>> /\ cur' = None /\ blkPos' = 0
  BY DEF End, blkModule
<1>2. cur'.type # "fs" /\ cur # None
  BY <1>1, RequestKinds DEF End, RequestEnded
<1>3. ASSUME cur.type = "fs"
      PROVE  /\ cur \in Transfer0 /\ Done = LengthOf(cur) /\ LengthOf(cur) \in Int
             /\ asked' = IF cur.write THEN Partly(cur, LengthOf(cur)) ELSE asked
  <2>1. cur \in Transfer0
    BY <1>3, RequestKinds DEF RequestInv, BlkTypes
  <2>2. LengthOf(cur) \in Int /\ Len(cur.bios) \in Nat
    BY <2>1, LengthIsNat, CutFacts
  <2>3. bio \in Int /\ bio > Len(cur.bios)
    BY <1>3, <2>2 DEF RequestInv, Placed, End, RequestEnded
  <2>4. Done = LengthOf(cur)
    BY <2>2, <2>3 DEF Done
  <2> QED
    BY <1>3, <2>1, <2>2, <2>4 DEF End, Partly
<1>4. cur.type # "fs" => asked' = asked
  BY DEF End
<1>5. BlkTypes'
  <2>1. asked' \in [Sectors -> Words]
    BY <1>3, <1>4, PartlyTyped DEF RequestInv, BlkTypes
  <2> QED
    BY <1>1, <2>1 DEF RequestInv, BlkTypes
<1>6. BusyIsOpen' /\ EvenRequests' /\ Placed'
  BY <1>1, <1>2 DEF RequestInv, BusyIsOpen, EvenRequests, Placed
<1>7. SoFar'
  <2>1. even => disk = asked'
    BY <1>3, <1>4 DEF RequestInv, SoFar
  <2> QED
    BY <1>1, <1>2, <2>1 DEF SoFar
<1> QED
  BY <1>5, <1>6, <1>7 DEF RequestInv

(* Cut evenly, no request is out of range: this one is not. *)
LEMMA LeaveKeepsRequests ==
  ASSUME RequestInv, Leave
  PROVE  RequestInv'
<1>1. /\ UNCHANGED <<blkStep, open, made, queue, disk, asked, even>>
      /\ cur' = None /\ blkPos' = 0 /\ lost' = TRUE
  BY DEF Leave, blkModule
<1>2. cur'.type # "fs" /\ cur # None
  BY <1>1, RequestKinds DEF Leave
<1>3. ~even
  <2> SUFFICES ASSUME even PROVE FALSE
    OBVIOUS
  <2> DEFINE c == cur.bios
  <2>1. cur \in Transfer0 /\ cur.sector + LengthOf(cur) =< Total
    BY RequestKinds DEF RequestInv, BlkTypes, Leave
  <2>2. c \in Cuts /\ cur.sector \in Nat /\ LengthOf(cur) \in Nat
    BY <2>1, LengthIsNat
  <2>3. bio \in 1 .. Len(c) /\ seg \in 1 .. Len(c[bio])
    BY <2>2, CutFacts DEF RequestInv, Placed, Leave
  <2>4. blkPos = cur.sector + SegStartOf(c, bio, seg)
    BY <2>2, <2>3, CutFacts DEF RequestInv, Placed, Leave
  <2>5. CurSize = c[bio][seg] - SegStartOf(c, bio, seg)
    BY <2>2, <2>3, EvenSegment DEF RequestInv, EvenRequests, Leave, CurSize, BioStart
  <2>6. /\ SegStartOf(c, bio, seg) \in Nat /\ c[bio][seg] \in Nat
        /\ c[bio][seg] =< LengthOf(cur)
    BY <2>2, <2>3, SegmentBounds DEF LengthOf
  <2>7. \A n, a, b, l \in Nat : b =< l /\ n + l =< Total => ~((n + a) + (b - a) > Total)
    BY TotalAssumption
  <2>8. ~OutOfRange
    BY <2>1, <2>2, <2>4, <2>5, <2>6, <2>7 DEF OutOfRange
  <2> QED
    BY <2>8 DEF Leave
<1>4. BlkTypes'
  BY <1>1 DEF RequestInv, BlkTypes
<1>5. BusyIsOpen'
  BY <1>1, <1>2 DEF RequestInv, BusyIsOpen
<1>6. EvenRequests' /\ Placed' /\ SoFar'
  BY <1>1, <1>2, <1>3 DEF EvenRequests, Placed, SoFar
<1> QED
  BY <1>4, <1>5, <1>6 DEF RequestInv
-----------------------------------------------------------------------------
(* BlkInv holds for ever: the module while it is loaded and unloaded, the  *)
(* requests while they are made, fetched, transferred and ended.           *)
THEOREM BlkInvariant == BlkSpec => []BlkInv
<1>1. BlkInit => BlkInv
  BY ModuleStarts, RequestsStart DEF BlkInv
<1>2. BlkInv /\ [BlkNext]_blkVars => BlkInv'
  <2> SUFFICES ASSUME BlkInv, [BlkNext]_blkVars PROVE BlkModuleInv' /\ RequestInv'
    BY DEF BlkInv
  <2> USE DEF BlkInv
  <2>1. CASE ramvhd_init
    BY <2>1, InitKeepsModule, InitKeepsRequests
  <2>2. CASE ramvhd_exit
    BY <2>2, ExitKeepsModule, ExitKeepsRequests
  <2>3. CASE my_blk_open \/ my_blk_release \/ UNCHANGED blkVars
    <3>1. UNCHANGED blkModule /\ (open' = open \/ my_blk_open \/ my_blk_release)
      BY <2>3 DEF my_blk_open, my_blk_release, blkVars
    <3> QED
      BY <2>3, <3>1, OthersKeepModule, OpeningKeepsRequests
  <2>4. CASE Submit
    <3>1. UNCHANGED blkModule /\ open' = open
      BY <2>4 DEF Submit
    <3> QED
      BY <2>4, <3>1, OthersKeepModule, SubmitKeepsRequests
  <2>5. CASE do_my_blk_request
    <3>1. UNCHANGED blkModule /\ open' = open
      BY <2>5 DEF do_my_blk_request, Fetch, Transfer, End, Leave
    <3>2. RequestInv'
      BY <2>5, FetchKeepsRequests, TransferKeepsRequests, EndKeepsRequests,
         LeaveKeepsRequests DEF do_my_blk_request
    <3> QED
      BY <3>1, <3>2, OthersKeepModule
  <2> QED
    BY <2>1, <2>2, <2>3, <2>4, <2>5 DEF BlkNext
<1> QED
  BY <1>1, <1>2, PTL DEF BlkSpec

(* However often the module is loaded, whichever step of loading fails:    *)
(* what holds nothing is unloaded, a queue has its memory, and a disk that *)
(* can be opened has everything.                                           *)
THEOREM ModuleHoldsItsParts == BlkSpec => []NothingMissing
<1>1. ASSUME NEW n \in 0 .. 10
      PROVE  /\ n = 0 => HeldAfter(n) = {}
             /\ "queue" \in HeldAfter(n) => "memory" \in HeldAfter(n)
             /\ "live" \in HeldAfter(n) =>
                  {"memory", "major", "disk", "queue"} \subseteq HeldAfter(n)
  <2>1. CASE n = 0
    BY <2>1 DEF HeldAfter
  <2>2. CASE n = 1
    BY <2>2 DEF HeldAfter
  <2>3. CASE n = 2
    BY <2>3 DEF HeldAfter
  <2>4. CASE n = 3
    BY <2>4 DEF HeldAfter
  <2>5. CASE n = 4
    BY <2>5 DEF HeldAfter
  <2>6. CASE n = 5
    BY <2>6 DEF HeldAfter
  <2>7. CASE n = 6
    BY <2>7 DEF HeldAfter
  <2>8. CASE n = 7
    BY <2>8 DEF HeldAfter
  <2>9. CASE n = 8
    BY <2>9 DEF HeldAfter
  <2>10. CASE n = 9
    BY <2>10 DEF HeldAfter
  <2>11. CASE n = 10
    BY <2>11 DEF HeldAfter
  <2> QED
    BY <2>1, <2>2, <2>3, <2>4, <2>5, <2>6, <2>7, <2>8, <2>9, <2>10, <2>11
<1>2. BlkInv => NothingMissing
  BY <1>1 DEF BlkInv, BlkModuleInv, NothingMissing
<1> QED
  BY <1>2, BlkInvariant, PTL

(* Requests of any number and shape, as long as every bio so far was cut   *)
(* in segments of one size: a read that ends delivers what was written     *)
(* last, and the disk holds between requests what was asked of it.         *)
THEOREM RequestsAreExact == BlkSpec => []TransfersExact
<1>1. BlkInv => ReadsLastWritten
  <2> SUFFICES ASSUME BlkInv, even, RequestEnded, cur.type = "fs", ~cur.write,
                      NEW k \in DOMAIN data
               PROVE  data[k] = asked[cur.sector + k - 1]
    BY DEF ReadsLastWritten
  <2>1. cur \in Transfer0
    BY RequestKinds DEF BlkInv, RequestInv, BlkTypes
  <2>2. Len(cur.bios) \in Nat /\ bio \in Int
    BY <2>1, LengthIsNat, CutFacts DEF BlkInv, RequestInv, Placed
  <2>3. Done = LengthOf(cur)
    BY <2>2 DEF Done, RequestEnded
  <2>4. DOMAIN data = 1 .. LengthOf(cur)
    BY DEF BlkInv, RequestInv, Placed
  <2> QED
    BY <2>3, <2>4 DEF BlkInv, RequestInv, SoFar
<1>2. BlkInv => OnlyRequested
  BY RequestKinds DEF BlkInv, RequestInv, SoFar, OnlyRequested
<1> QED
  BY <1>1, <1>2, BlkInvariant, PTL DEF TransfersExact
=============================================================================

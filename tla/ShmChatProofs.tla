--------------------------- MODULE ShmChatProofs ---------------------------
(***************************************************************************)
(* Theorems about ShmChat.  There is one turn.  It lies in a semaphore or  *)
(* is with the process inside, and what keeps it single depends on what    *)
(* went wrong: without a kill, a sender that has heard from a receiver     *)
(* knows where that one is; without an early start, no program runs twice  *)
(* beside the same partner.  Each of NotKilled and NotEarly says where the *)
(* turn may be; with neither trouble both hold, and InOrder follows the    *)
(* word and the answer as well.                                            *)
(***************************************************************************)
EXTENDS ShmChat, TLAPS

s == pc["sender"]
r == pc["receiver"]

(* The turns in a semaphore that has a name, and with a process.           *)
Value(n) == IF named[n] = None THEN 0 ELSE count[n][named[n]]
Turn(p)  == IF Inside(p) THEN 1 ELSE 0
Turns    == Value("send") + Value("rec") + Turn("sender") + Turn("receiver")

Texts == Words \cup {"", "over"}

ShmTypes ==
  /\ pc \in [Procs -> 0 .. 14] /\ r <= 10
  /\ named \in [Names -> 0 .. 3]
  /\ held \in [Procs -> [Names -> 0 .. 3]]
  /\ count \in [Sems -> [Objects -> Nat]]
  /\ mem \in [Objects -> Texts] /\ said \in Texts /\ heard \in Texts
  /\ running \subseteq started /\ started \subseteq Procs
  /\ (running = {} => started = {})
  /\ trouble \subseteq {"early", "killed"}
  /\ \A p \in Procs \ running : pc[p] = 0

(* Only the sender removes names, and it lets go of what it removes first: *)
(* what it has open is what the names stand for.                           *)
SenderHolds ==
  /\ s \in 1 .. 11 => named["send"] # None
  /\ s \in 2 .. 12 => named["rec"] # None
  /\ s \in 3 .. 14 => named["shm"] # None
  /\ s \in 1 .. 10 => held["sender"]["send"] = named["send"]
  /\ s \in 2 .. 10 => held["sender"]["rec"] = named["rec"]
  /\ s \in 3 .. 13 => held["sender"]["shm"] = named["shm"]

ReceiverHolds ==
  /\ r \in 1 .. 9 => held["receiver"]["send"] # None
  /\ r \in 2 .. 9 => held["receiver"]["rec"] # None

(* The receiver has open what the name stands for now.                     *)
Same(n) == held["receiver"][n] = named[n]

(* Nobody was killed: a sender that was answered was answered by the       *)
(* receiver that waits now, or its last turn has been taken; a receiver    *)
(* with an old semaphore finds nothing in it.                              *)
NotKilled ==
  "killed" \notin trouble =>
    /\ Turns <= 1
    /\ Value("send") > 0 => s \in {7, 10, 11}
    /\ Inside("receiver") => s = 7 /\ Same("send")
    /\ s = 7 /\ Value("rec") > 0 => r = 8 /\ Same("send")
    /\ s \in {8, 9} => r = 8 /\ Same("send")
    /\ s \in {10, 11} => (r = 8 /\ Same("send")) \/ Turns = 0
    /\ r \in 1 .. 4 /\ ~Same("send") => count["send"][held["receiver"]["send"]] = 0

(* Nobody was started early: a sender that was answered has had its        *)
(* receiver, which comes to no further turn, and a receiver has open what  *)
(* the sender has.  Where "rec" is created, no turn is left in "send".     *)
NotEarly ==
  "early" \notin trouble =>
    /\ Turns <= 1
    /\ s >= 12 \/ named["rec"] = None => Value("send") = 0
    /\ s >= 8 \/ (s = 7 /\ Value("rec") > 0) =>
         "receiver" \in started /\ ("receiver" \in running => r >= 8)
    /\ r \in 1 .. 7 => Same("send")
    /\ r \in 2 .. 7 => Same("rec")
    /\ r \in 3 .. 7 => Same("shm") /\ named["shm"] # None

Ended(p) == p \in started \ running

(* Neither: the two come and go in order, and the memory holds the word    *)
(* until it is heard and the answer after.                                 *)
InOrder ==
  trouble = {} =>
    /\ r \in 1 .. 8 /\ ~Same("send") => Ended("sender") \/ s >= 12
    /\ r = 8 => Ended("sender") \/ s > 7 \/ (s = 7 /\ Value("rec") > 0)
    /\ r >= 9 \/ Ended("receiver") => Ended("sender") \/ s >= 10
    /\ Ended("sender") => "receiver" \in started /\ ("receiver" \in running => r >= 8)
    /\ Ended("sender") \/ running = {} => \A n \in Names : named[n] = None
    /\ s >= 12 => named["send"] = None
    /\ s >= 13 => named["rec"] = None
    /\ s \in {6, 7} /\ r <= 6 => mem[named["shm"]] = said
    /\ r \in 6 .. 8 /\ s \in {7, 8} => heard = said
    /\ r \in 7 .. 8 /\ s \in {7, 8} => mem[named["shm"]] = "over"

ShmInv == ShmTypes /\ SenderHolds /\ ReceiverHolds /\ NotKilled /\ NotEarly /\ InOrder
-----------------------------------------------------------------------------
(* The calls of the two programs, by number.                               *)
LEMMA SenderCalls ==
  /\ Len(SenderMain) = 15
  /\ SenderMain[1] = <<"open", "send">> /\ SenderMain[2] = <<"open", "rec">>
  /\ SenderMain[3] = <<"open", "shm">> /\ SenderMain[4] = <<"attach", "shm">>
  /\ SenderMain[5] = <<"wait", "rec">> /\ SenderMain[6] = <<"say", "shm">>
  /\ SenderMain[7] = <<"post", "send">> /\ SenderMain[8] = <<"wait", "rec">>
  /\ SenderMain[9] = <<"final", "shm">> /\ SenderMain[10] = <<"post", "send">>
  /\ SenderMain[11] = <<"close", "sems">> /\ SenderMain[12] = <<"unlink", "send">>
  /\ SenderMain[13] = <<"unlink", "rec">> /\ SenderMain[14] = <<"detach", "shm">>
  /\ SenderMain[15] = <<"unlink", "shm">>
BY DEF SenderMain, OpenAll

LEMMA ReceiverCalls ==
  /\ Len(ReceiverMain) = 11
  /\ ReceiverMain[1] = <<"open", "send">> /\ ReceiverMain[2] = <<"open", "rec">>
  /\ ReceiverMain[3] = <<"open", "shm">> /\ ReceiverMain[4] = <<"attach", "shm">>
  /\ ReceiverMain[5] = <<"wait", "send">> /\ ReceiverMain[6] = <<"hear", "shm">>
  /\ ReceiverMain[7] = <<"answer", "shm">> /\ ReceiverMain[8] = <<"post", "rec">>
  /\ ReceiverMain[9] = <<"wait", "send">> /\ ReceiverMain[10] = <<"close", "sems">>
  /\ ReceiverMain[11] = <<"detach", "shm">>
BY DEF ReceiverMain, OpenAll

(* Where a process is that is about to make a call.                        *)
LEMMA SenderAt ==
  ASSUME ShmTypes, NEW call, NEW arg, At("sender", call, arg)
  PROVE  /\ s \in 0 .. 14 /\ "sender" \in running
         /\ call = "open" => (arg = "send" /\ s = 0) \/ (arg = "rec" /\ s = 1) \/ (arg = "shm" /\ s = 2)
         /\ call = "attach" => s = 3
         /\ call = "wait" => arg = "rec" /\ s \in {4, 7}
         /\ call = "say" => s = 5
         /\ call = "post" => arg = "send" /\ s \in {6, 9}
         /\ call = "final" => s = 8
         /\ call = "close" => s = 10
         /\ call = "unlink" => (arg = "send" /\ s = 11) \/ (arg = "rec" /\ s = 12) \/ (arg = "shm" /\ s = 14)
         /\ call = "detach" => s = 13
         /\ call \notin {"hear", "answer"}
<1>1. s \in 0 .. 14 /\ "sender" \in running /\ SenderMain[s + 1] = <<call, arg>>
  BY DEF At, Main, Procs, ShmTypes, s
<1>2. \A i \in 0 .. 14 :
        i = 0 \/ i = 1 \/ i = 2 \/ i = 3 \/ i = 4 \/ i = 5 \/ i = 6 \/ i = 7
          \/ i = 8 \/ i = 9 \/ i = 10 \/ i = 11 \/ i = 12 \/ i = 13 \/ i = 14
  OBVIOUS
<1> QED
  BY <1>1, <1>2, SenderCalls

LEMMA ReceiverAt ==
  ASSUME ShmTypes, NEW call, NEW arg, At("receiver", call, arg)
  PROVE  /\ r \in 0 .. 10 /\ "receiver" \in running
         /\ call = "open" => (arg = "send" /\ r = 0) \/ (arg = "rec" /\ r = 1) \/ (arg = "shm" /\ r = 2)
         /\ call = "attach" => r = 3
         /\ call = "wait" => arg = "send" /\ r \in {4, 8}
         /\ call = "hear" => r = 5
         /\ call = "answer" => r = 6
         /\ call = "post" => arg = "rec" /\ r = 7
         /\ call = "close" => r = 9
         /\ call = "detach" => r = 10
         /\ call \notin {"say", "final", "unlink"}
<1>1. r \in 0 .. 10 /\ "receiver" \in running /\ ReceiverMain[r + 1] = <<call, arg>>
  BY DEF At, Main, Procs, ShmTypes, r
<1>2. \A i \in 0 .. 10 :
        i = 0 \/ i = 1 \/ i = 2 \/ i = 3 \/ i = 4 \/ i = 5 \/ i = 6 \/ i = 7
          \/ i = 8 \/ i = 9 \/ i = 10
  OBVIOUS
<1> QED
  BY <1>1, <1>2, ReceiverCalls

LEMMA ProgramLengths == Len(Main["sender"]) = 15 /\ Len(Main["receiver"]) = 11
<1>1. Main["sender"] = SenderMain /\ Main["receiver"] = ReceiverMain
  BY DEF Main, Procs
<1> QED
  BY <1>1, SenderCalls, ReceiverCalls

(* A process that has not made its last call goes on to the next.          *)
LEMMA AdvanceGoesOn ==
  ASSUME ShmTypes, NEW p \in Procs, Advance(p),
         p = "sender" => s < 14, p = "receiver" => r < 10
  PROVE  /\ pc' = [pc EXCEPT ![p] = @ + 1]
         /\ UNCHANGED <<running, started, trouble>>
<1>1. CASE p = "sender"
  <2>1. s \in 0 .. 14 /\ pc[p] = s /\ Len(Main[p]) = 15
    BY <1>1, ProgramLengths DEF ShmTypes, Procs, s
  <2>2. pc[p] + 1 # Len(Main[p])
    BY <1>1, <2>1
  <2> QED
    BY <2>2 DEF Advance
<1>2. CASE p = "receiver"
  <2>1. r \in 0 .. 10 /\ pc[p] = r /\ Len(Main[p]) = 11
    BY <1>2, ProgramLengths DEF ShmTypes, Procs, r
  <2>2. pc[p] + 1 # Len(Main[p])
    BY <1>2, <2>1
  <2> QED
    BY <2>2 DEF Advance
<1> QED
  BY <1>1, <1>2 DEF Procs

LEMMA SenderGoesOn ==
  ASSUME ShmTypes, "sender" \in running, s < 14, Advance("sender")
  PROVE  /\ pc' \in [Procs -> 0 .. 14] /\ \A q \in Procs \ running' : pc'[q] = 0
         /\ s' = s + 1 /\ r' = r
         /\ UNCHANGED <<running, started, trouble>>
<1>1. pc' = [pc EXCEPT !["sender"] = @ + 1] /\ UNCHANGED <<running, started, trouble>>
  BY AdvanceGoesOn DEF Procs
<1> QED
  BY <1>1 DEF ShmTypes, Procs, s, r

LEMMA ReceiverGoesOn ==
  ASSUME ShmTypes, "receiver" \in running, r < 10, Advance("receiver")
  PROVE  /\ pc' \in [Procs -> 0 .. 14] /\ \A q \in Procs \ running' : pc'[q] = 0
         /\ s' = s /\ r' = r + 1 /\ r' <= 10
         /\ UNCHANGED <<running, started, trouble>>
<1>1. pc' = [pc EXCEPT !["receiver"] = @ + 1] /\ UNCHANGED <<running, started, trouble>>
  BY AdvanceGoesOn DEF Procs
<1> QED
  BY <1>1 DEF ShmTypes, Procs, s, r

(* After its last call it has ended.                                       *)
LEMMA AdvanceEnds ==
  ASSUME ShmTypes, NEW p \in Procs, Advance(p),
         p = "sender" => s = 14, p = "receiver" => r = 10
  PROVE  /\ pc' = [pc EXCEPT ![p] = 0]
         /\ running' = running \ {p}
         /\ started' = IF running = {p} THEN {} ELSE started
         /\ trouble' = trouble
<1>1. CASE p = "sender"
  <2>1. s \in 0 .. 14 /\ pc[p] = s /\ Len(Main[p]) = 15
    BY <1>1, ProgramLengths DEF ShmTypes, Procs, s
  <2>2. pc[p] + 1 = Len(Main[p])
    BY <1>1, <2>1
  <2> QED
    BY <2>2 DEF Advance
<1>2. CASE p = "receiver"
  <2>1. r \in 0 .. 10 /\ pc[p] = r /\ Len(Main[p]) = 11
    BY <1>2, ProgramLengths DEF ShmTypes, Procs, r
  <2>2. pc[p] + 1 = Len(Main[p])
    BY <1>2, <2>1
  <2> QED
    BY <2>2 DEF Advance
<1> QED
  BY <1>1, <1>2 DEF Procs

(* Values are numbers, and a turn is taken from or put in one object.      *)
LEMMA ValuesAreNumbers ==
  ASSUME ShmTypes
  PROVE  /\ Value("send") \in Nat /\ Value("rec") \in Nat
         /\ \A p \in Procs : Turn(p) \in {0, 1} /\ (Inside(p) => Turn(p) = 1)
         /\ s \in 0 .. 14 /\ r \in 0 .. 10
         /\ \A p \in Procs, n \in Names : held[p][n] \in 0 .. 3 /\ named[n] \in 0 .. 3
<1>1. \A n \in Sems : named[n] \in 0 .. 3
  BY DEF ShmTypes, Sems, Names
<1>2. \A n \in Sems : Value(n) \in Nat
  BY <1>1 DEF ShmTypes, Value, Sems, Objects, None
<1> QED
  BY <1>2 DEF ShmTypes, Sems, Names, Procs, Turn, s, r

LEMMA Taken ==
  ASSUME ShmTypes, NEW n \in Sems, NEW o \in Objects, count[n][o] > 0,
         count' = [count EXCEPT ![n][o] = @ - 1], UNCHANGED named
  PROVE  /\ count' \in [Sems -> [Objects -> Nat]]
         /\ \A m \in Sems : Value(m)' = IF m = n /\ named[m] = o THEN Value(m) - 1 ELSE Value(m)
         /\ \A m \in Sems, q \in Objects :
              count'[m][q] = IF m = n /\ q = o THEN count[m][q] - 1 ELSE count[m][q]
<1>1. \A m \in Sems, q \in Objects :
        /\ count[m][q] \in Nat
        /\ count'[m][q] = IF m = n /\ q = o THEN count[m][q] - 1 ELSE count[m][q]
  BY DEF ShmTypes
<1>2. count' \in [Sems -> [Objects -> Nat]]
  BY <1>1 DEF ShmTypes
<1>3. \A m \in Sems : named[m] \in 0 .. 3
  BY DEF ShmTypes, Sems, Names
<1> QED
  BY <1>1, <1>2, <1>3 DEF Value, Objects, None

LEMMA Given ==
  ASSUME ShmTypes, NEW n \in Sems, NEW o \in Objects,
         count' = [count EXCEPT ![n][o] = @ + 1], UNCHANGED named
  PROVE  /\ count' \in [Sems -> [Objects -> Nat]]
         /\ \A m \in Sems : Value(m)' = IF m = n /\ named[m] = o THEN Value(m) + 1 ELSE Value(m)
         /\ \A m \in Sems, q \in Objects :
              count'[m][q] = IF m = n /\ q = o THEN count[m][q] + 1 ELSE count[m][q]
<1>1. \A m \in Sems, q \in Objects :
        /\ count[m][q] \in Nat
        /\ count'[m][q] = IF m = n /\ q = o THEN count[m][q] + 1 ELSE count[m][q]
  BY DEF ShmTypes
<1>2. count' \in [Sems -> [Objects -> Nat]]
  BY <1>1 DEF ShmTypes
<1>3. \A m \in Sems : named[m] \in 0 .. 3
  BY DEF ShmTypes, Sems, Names
<1> QED
  BY <1>1, <1>2, <1>3 DEF Value, Objects, None
-----------------------------------------------------------------------------
(* The sender takes the turn. *)
LEMMA SenderWaits ==
  ASSUME ShmInv, NEW n \in Sems, Wait("sender", n)
  PROVE  ShmInv'
<1> DEFINE o == held["sender"]["rec"]
<1>1. n = "rec" /\ s \in {4, 7} /\ "sender" \in running
  BY SenderAt DEF Wait, ShmInv
<1>2. o \in Objects /\ o = named["rec"]
  BY <1>1, ValuesAreNumbers DEF ShmInv, SenderHolds, Objects, None, Procs, Names, Sems
<1>3. /\ count["rec"][o] > 0
      /\ count' = [count EXCEPT !["rec"][o] = @ - 1]
      /\ UNCHANGED <<named, held, mem, said, heard>>
      /\ Advance("sender")
  BY <1>1 DEF Wait
<1> HIDE DEF o
<1>4. /\ count' \in [Sems -> [Objects -> Nat]]
      /\ Value("rec") > 0 /\ Value("rec")' = Value("rec") - 1 /\ Value("send")' = Value("send")
      /\ \A q \in Objects : count'["send"][q] = count["send"][q]
  <2>1. /\ count' \in [Sems -> [Objects -> Nat]]
        /\ \A m \in Sems : Value(m)' = IF m = "rec" /\ named[m] = o THEN Value(m) - 1 ELSE Value(m)
        /\ \A m \in Sems, q \in Objects :
             count'[m][q] = IF m = "rec" /\ q = o THEN count[m][q] - 1 ELSE count[m][q]
    BY <1>2, <1>3, Taken DEF ShmInv, Sems
  <2>2. Value("rec") = count["rec"][o]
    BY <1>2 DEF Value, Objects, None
  <2> QED
    BY <1>2, <1>3, <2>1, <2>2 DEF Sems
<1>5. /\ pc' \in [Procs -> 0 .. 14] /\ \A q \in Procs \ running' : pc'[q] = 0
      /\ s' = s + 1 /\ r' = r
      /\ UNCHANGED <<running, started, trouble>>
  BY <1>1, <1>3, SenderGoesOn DEF ShmInv
<1>6. /\ Turn("sender") = 0 /\ Turn("sender")' = 1 /\ Turn("receiver")' = Turn("receiver")
      /\ Inside("receiver")' = Inside("receiver")
  BY <1>1, <1>5 DEF Turn, Inside, s, r
<1> USE ValuesAreNumbers DEF Procs
<1>7. ShmTypes'
  BY <1>3, <1>4, <1>5 DEF ShmInv, ShmTypes
<1>8. SenderHolds' /\ ReceiverHolds'
  BY <1>1, <1>3, <1>5 DEF ShmInv, SenderHolds, ReceiverHolds
<1>9. NotKilled'
  <2> DEFINE old == held["receiver"]["send"]
  <2>1. r \in 1 .. 4 => old \in Objects
    BY DEF ShmInv, ReceiverHolds, Objects, None, Procs, Names, Sems
  <2>2. r \in 1 .. 4 => count'["send"][old] = count["send"][old]
    BY <1>4, <2>1
  <2> QED
    BY <1>1, <1>3, <1>4, <1>5, <1>6, <2>2 DEF ShmInv, NotKilled, Turns, Same
<1>10. NotEarly'
  BY <1>1, <1>3, <1>4, <1>5, <1>6 DEF ShmInv, NotEarly, SenderHolds, Turns, Same
<1>11. InOrder'
  BY <1>1, <1>3, <1>4, <1>5, <1>6 DEF ShmInv, InOrder, NotKilled, NotEarly, SenderHolds, Turns, Same, Ended
<1> QED
  BY <1>7, <1>8, <1>9, <1>10, <1>11 DEF ShmInv

(* The receiver takes the turn, or the last one, by which it is let go.    *)
LEMMA ReceiverWaits ==
  ASSUME ShmInv, NEW n \in Sems, Wait("receiver", n)
  PROVE  ShmInv'
<1> DEFINE o == held["receiver"]["send"]
<1> USE ValuesAreNumbers DEF Procs
<1>1. n = "send" /\ r \in {4, 8} /\ "receiver" \in running
  BY ReceiverAt DEF Wait, ShmInv
<1>2. o \in Objects
  BY <1>1 DEF ShmInv, ReceiverHolds, Objects, None, Names, Sems
<1>3. /\ count["send"][o] > 0
      /\ count' = [count EXCEPT !["send"][o] = @ - 1]
      /\ UNCHANGED <<named, held, mem, said, heard>>
      /\ Advance("receiver")
  BY <1>1 DEF Wait
<1>4. /\ count' \in [Sems -> [Objects -> Nat]]
      /\ Value("rec")' = Value("rec")
      /\ Same("send") => Value("send") > 0 /\ Value("send")' = Value("send") - 1
      /\ ~Same("send") => Value("send")' = Value("send")
  <2>1. /\ count' \in [Sems -> [Objects -> Nat]]
        /\ \A m \in Sems : Value(m)' = IF m = "send" /\ named[m] = o THEN Value(m) - 1 ELSE Value(m)
    BY <1>2, <1>3, Taken DEF ShmInv, Sems
  <2>2. Same("send") => Value("send") = count["send"][o]
    BY <1>2 DEF Value, Objects, None, Same
  <2> QED
    BY <1>2, <1>3, <2>1, <2>2 DEF Sems, Same
<1>5. /\ pc' \in [Procs -> 0 .. 14] /\ \A q \in Procs \ running' : pc'[q] = 0
      /\ s' = s /\ r' = r + 1 /\ r' <= 10
      /\ UNCHANGED <<running, started, trouble>>
  BY <1>1, <1>3, ReceiverGoesOn DEF ShmInv
<1>6. /\ Turn("receiver") = 0 /\ (Turn("receiver")' = IF r = 4 THEN 1 ELSE 0) /\ Turn("sender")' = Turn("sender")
      /\ Inside("receiver")' <=> r = 4
      /\ Inside("sender") <=> s \in {5, 6, 8, 9}
  BY <1>1, <1>5 DEF Turn, Inside, s, r
<1>7. ShmTypes'
  BY <1>3, <1>4, <1>5 DEF ShmInv, ShmTypes
<1>8. SenderHolds' /\ ReceiverHolds'
  BY <1>1, <1>3, <1>5 DEF ShmInv, SenderHolds, ReceiverHolds
<1>9. NotKilled'
  BY <1>1, <1>3, <1>4, <1>5, <1>6 DEF ShmInv, NotKilled, Turns, Same
<1>10. NotEarly'
  BY <1>1, <1>3, <1>4, <1>5, <1>6 DEF ShmInv, NotEarly, SenderHolds, Turns, Same
<1>11. InOrder'
  BY <1>1, <1>3, <1>4, <1>5, <1>6 DEF ShmInv, InOrder, NotKilled, NotEarly, SenderHolds, Turns, Same, Ended
<1> QED
  BY <1>7, <1>8, <1>9, <1>10, <1>11 DEF ShmInv

(* The sender gives the turn to the receiver. *)
LEMMA SenderPosts ==
  ASSUME ShmInv, NEW n \in Sems, Post("sender", n)
  PROVE  ShmInv'
<1> DEFINE o == held["sender"]["send"]
<1> USE ValuesAreNumbers DEF Procs
<1>1. n = "send" /\ s \in {6, 9} /\ "sender" \in running
  BY SenderAt DEF Post, ShmInv
<1>2. o \in Objects /\ o = named["send"]
  BY <1>1 DEF ShmInv, SenderHolds, Objects, None, Names, Sems
<1>3. /\ count' = [count EXCEPT !["send"][o] = @ + 1]
      /\ UNCHANGED <<named, held, mem, said, heard>>
      /\ Advance("sender")
  BY <1>1 DEF Post
<1>4. /\ count' \in [Sems -> [Objects -> Nat]]
      /\ Value("send")' = Value("send") + 1 /\ Value("rec")' = Value("rec")
      /\ \A q \in Objects : q # o => count'["send"][q] = count["send"][q]
  BY <1>2, <1>3, Given DEF ShmInv, Sems
<1>5. /\ pc' \in [Procs -> 0 .. 14] /\ \A q \in Procs \ running' : pc'[q] = 0
      /\ s' = s + 1 /\ r' = r
      /\ UNCHANGED <<running, started, trouble>>
  BY <1>1, <1>3, SenderGoesOn DEF ShmInv
<1>6. /\ Turn("sender") = 1 /\ Turn("sender")' = 0 /\ Turn("receiver")' = Turn("receiver")
      /\ Inside("receiver")' = Inside("receiver") /\ (Inside("receiver") <=> r \in {5, 6, 7})
  BY <1>1, <1>5 DEF Turn, Inside, s, r
<1>7. ShmTypes'
  BY <1>3, <1>4, <1>5 DEF ShmInv, ShmTypes
<1>8. SenderHolds' /\ ReceiverHolds'
  BY <1>1, <1>3, <1>5 DEF ShmInv, SenderHolds, ReceiverHolds
<1>9. NotKilled'
  <2> DEFINE old == held["receiver"]["send"]
  <2>1. r \in 1 .. 4 => old \in Objects
    BY DEF ShmInv, ReceiverHolds, Objects, None, Names, Sems
  <2>2. r \in 1 .. 4 /\ ~Same("send") => count'["send"][old] = count["send"][old]
    BY <1>2, <1>4, <2>1 DEF Same
  <2> QED
    BY <1>1, <1>3, <1>4, <1>5, <1>6, <2>2 DEF ShmInv, NotKilled, Turns, Same
<1>10. NotEarly'
  BY <1>1, <1>3, <1>4, <1>5, <1>6 DEF ShmInv, NotEarly, SenderHolds, Turns, Same
<1>11. InOrder'
  BY <1>1, <1>3, <1>4, <1>5, <1>6 DEF ShmInv, InOrder, NotKilled, NotEarly, SenderHolds, Turns, Same, Ended
<1> QED
  BY <1>7, <1>8, <1>9, <1>10, <1>11 DEF ShmInv

(* The receiver gives the turn back, in a semaphore that has a name or not. *)
LEMMA ReceiverPosts ==
  ASSUME ShmInv, NEW n \in Sems, Post("receiver", n)
  PROVE  ShmInv'
<1> DEFINE o == held["receiver"]["rec"]
<1> USE ValuesAreNumbers DEF Procs
<1>1. n = "rec" /\ r = 7 /\ "receiver" \in running
  BY ReceiverAt DEF Post, ShmInv
<1>2. o \in Objects
  BY <1>1 DEF ShmInv, ReceiverHolds, Objects, None, Names, Sems
<1>3. /\ count' = [count EXCEPT !["rec"][o] = @ + 1]
      /\ UNCHANGED <<named, held, mem, said, heard>>
      /\ Advance("receiver")
  BY <1>1 DEF Post
<1>4. /\ count' \in [Sems -> [Objects -> Nat]]
      /\ Value("send")' = Value("send")
      /\ Value("rec")' = IF Same("rec") THEN Value("rec") + 1 ELSE Value("rec")
  BY <1>2, <1>3, Given DEF ShmInv, Sems, Same
<1>5. /\ pc' \in [Procs -> 0 .. 14] /\ \A q \in Procs \ running' : pc'[q] = 0
      /\ s' = s /\ r' = r + 1 /\ r' <= 10
      /\ UNCHANGED <<running, started, trouble>>
  BY <1>1, <1>3, ReceiverGoesOn DEF ShmInv
<1>6. /\ Turn("receiver") = 1 /\ Turn("receiver")' = 0 /\ Turn("sender")' = Turn("sender")
      /\ ~Inside("receiver")' /\ Inside("receiver")
      /\ Inside("sender") <=> s \in {5, 6, 8, 9}
  BY <1>1, <1>5 DEF Turn, Inside, s, r
<1>7. ShmTypes'
  BY <1>3, <1>4, <1>5 DEF ShmInv, ShmTypes
<1>8. SenderHolds' /\ ReceiverHolds'
  BY <1>1, <1>3, <1>5 DEF ShmInv, SenderHolds, ReceiverHolds
<1>9. NotKilled'
  BY <1>1, <1>3, <1>4, <1>5, <1>6 DEF ShmInv, NotKilled, Turns, Same
<1>10. NotEarly'
  BY <1>1, <1>3, <1>4, <1>5, <1>6 DEF ShmInv, ShmTypes, NotEarly, SenderHolds, Turns, Same
<1>11. InOrder'
  BY <1>1, <1>3, <1>4, <1>5, <1>6
  DEF ShmInv, InOrder, NotKilled, NotEarly, SenderHolds, Turns, Same, Ended
<1> QED
  BY <1>7, <1>8, <1>9, <1>10, <1>11 DEF ShmInv
-----------------------------------------------------------------------------

(* The word, the reading of it, the answer, and the reading of that.       *)
LEMMA SenderSays ==
  ASSUME ShmInv, Say
  PROVE  ShmInv'
<1> USE ValuesAreNumbers DEF Procs
<1>1. s = 5 /\ "sender" \in running
  BY SenderAt DEF Say, Uses, ShmInv
<1>2. /\ UNCHANGED <<named, count, held, heard>> /\ mem' = [mem EXCEPT ![held["sender"]["shm"]] = said'] /\ said' \in Words
      /\ Advance("sender")
  BY DEF Say, kernel
<1>3. Value("send")' = Value("send") /\ Value("rec")' = Value("rec")
  BY <1>2 DEF Value, kernel
<1>4. /\ pc' \in [Procs -> 0 .. 14] /\ \A q \in Procs \ running' : pc'[q] = 0
      /\ s' = s + 1 /\ r' = r
      /\ UNCHANGED <<running, started, trouble>>
  BY <1>1, <1>2, SenderGoesOn DEF ShmInv
<1>5. /\ Turn("sender")' = Turn("sender") /\ Turn("receiver")' = Turn("receiver")
      /\ Inside("receiver")' = Inside("receiver") /\ (Inside("receiver") <=> r \in {5, 6, 7})
  BY <1>1, <1>4 DEF Turn, Inside, s, r
<1>6. ShmTypes'
  BY <1>1, <1>2, <1>4 DEF ShmInv, ShmTypes, kernel, Texts
<1>7. SenderHolds' /\ ReceiverHolds'
  BY <1>1, <1>2, <1>4 DEF ShmInv, SenderHolds, ReceiverHolds, kernel
<1>8. NotKilled'
  BY <1>1, <1>2, <1>3, <1>4, <1>5 DEF ShmInv, NotKilled, Turns, Same, kernel
<1>9. NotEarly'
  BY <1>1, <1>2, <1>3, <1>4, <1>5 DEF ShmInv, NotEarly, SenderHolds, Turns, Same, kernel
<1>10. InOrder'
  BY <1>1, <1>2, <1>3, <1>4, <1>5
  DEF ShmInv, InOrder, NotKilled, NotEarly, SenderHolds, Turns, Same, Ended, kernel, ShmTypes, Objects, None, Names
<1> QED
  BY <1>6, <1>7, <1>8, <1>9, <1>10 DEF ShmInv

LEMMA ReceiverHears ==
  ASSUME ShmInv, Hear
  PROVE  ShmInv'
<1> USE ValuesAreNumbers DEF Procs
<1>1. r = 5 /\ "receiver" \in running
  BY ReceiverAt DEF Hear, Uses, ShmInv
<1>2. /\ UNCHANGED <<named, count, held, mem, said>> /\ heard' = mem[held["receiver"]["shm"]] /\ held["receiver"]["shm"] # None
      /\ Advance("receiver")
  BY DEF Hear, Uses, kernel
<1>3. Value("send")' = Value("send") /\ Value("rec")' = Value("rec")
  BY <1>2 DEF Value, kernel
<1>4. /\ pc' \in [Procs -> 0 .. 14] /\ \A q \in Procs \ running' : pc'[q] = 0
      /\ s' = s /\ r' = r + 1 /\ r' <= 10
      /\ UNCHANGED <<running, started, trouble>>
  BY <1>1, <1>2, ReceiverGoesOn DEF ShmInv
<1>5. /\ Turn("sender")' = Turn("sender") /\ Turn("receiver")' = Turn("receiver")
      /\ Inside("receiver")' = Inside("receiver") /\ (Inside("receiver") <=> r \in {5, 6, 7})
  BY <1>1, <1>4 DEF Turn, Inside, s, r
<1>6. ShmTypes'
  BY <1>1, <1>2, <1>4 DEF ShmInv, ShmTypes, kernel, Objects, None, Names
<1>7. SenderHolds' /\ ReceiverHolds'
  BY <1>1, <1>2, <1>4 DEF ShmInv, SenderHolds, ReceiverHolds, kernel
<1>8. NotKilled'
  BY <1>1, <1>2, <1>3, <1>4, <1>5 DEF ShmInv, NotKilled, Turns, Same, kernel
<1>9. NotEarly'
  BY <1>1, <1>2, <1>3, <1>4, <1>5 DEF ShmInv, NotEarly, SenderHolds, Turns, Same, kernel
<1>10. InOrder'
  BY <1>1, <1>2, <1>3, <1>4, <1>5
  DEF ShmInv, InOrder, NotKilled, NotEarly, SenderHolds, Turns, Same, Ended, kernel, ShmTypes, Objects, None, Names
<1> QED
  BY <1>6, <1>7, <1>8, <1>9, <1>10 DEF ShmInv

LEMMA ReceiverAnswers ==
  ASSUME ShmInv, Answer
  PROVE  ShmInv'
<1> USE ValuesAreNumbers DEF Procs
<1>1. r = 6 /\ "receiver" \in running
  BY ReceiverAt DEF Answer, Uses, ShmInv
<1>2. /\ UNCHANGED <<named, count, held, said, heard>> /\ mem' = [mem EXCEPT ![held["receiver"]["shm"]] = "over"] /\ held["receiver"]["shm"] # None
      /\ Advance("receiver")
  BY DEF Answer, Uses, kernel
<1>3. Value("send")' = Value("send") /\ Value("rec")' = Value("rec")
  BY <1>2 DEF Value, kernel
<1>4. /\ pc' \in [Procs -> 0 .. 14] /\ \A q \in Procs \ running' : pc'[q] = 0
      /\ s' = s /\ r' = r + 1 /\ r' <= 10
      /\ UNCHANGED <<running, started, trouble>>
  BY <1>1, <1>2, ReceiverGoesOn DEF ShmInv
<1>5. /\ Turn("sender")' = Turn("sender") /\ Turn("receiver")' = Turn("receiver")
      /\ Inside("receiver")' = Inside("receiver") /\ (Inside("receiver") <=> r \in {5, 6, 7})
  BY <1>1, <1>4 DEF Turn, Inside, s, r
<1>6. ShmTypes'
  BY <1>1, <1>2, <1>4 DEF ShmInv, ShmTypes, kernel, Texts
<1>7. SenderHolds' /\ ReceiverHolds'
  BY <1>1, <1>2, <1>4 DEF ShmInv, SenderHolds, ReceiverHolds, kernel
<1>8. NotKilled'
  BY <1>1, <1>2, <1>3, <1>4, <1>5 DEF ShmInv, NotKilled, Turns, Same, kernel
<1>9. NotEarly'
  BY <1>1, <1>2, <1>3, <1>4, <1>5 DEF ShmInv, NotEarly, SenderHolds, Turns, Same, kernel
<1>10. InOrder'
  BY <1>1, <1>2, <1>3, <1>4, <1>5
  DEF ShmInv, InOrder, NotKilled, NotEarly, SenderHolds, Turns, Same, Ended, kernel, ShmTypes, Objects, None, Names
<1> QED
  BY <1>6, <1>7, <1>8, <1>9, <1>10 DEF ShmInv

LEMMA SenderReads ==
  ASSUME ShmInv, Final
  PROVE  ShmInv'
<1> USE ValuesAreNumbers DEF Procs
<1>1. s = 8 /\ "sender" \in running
  BY SenderAt DEF Final, Uses, ShmInv
<1>2. /\ UNCHANGED <<named, count, held, mem, said, heard>>
      /\ Advance("sender")
  BY DEF Final, kernel
<1>3. Value("send")' = Value("send") /\ Value("rec")' = Value("rec")
  BY <1>2 DEF Value, kernel
<1>4. /\ pc' \in [Procs -> 0 .. 14] /\ \A q \in Procs \ running' : pc'[q] = 0
      /\ s' = s + 1 /\ r' = r
      /\ UNCHANGED <<running, started, trouble>>
  BY <1>1, <1>2, SenderGoesOn DEF ShmInv
<1>5. /\ Turn("sender")' = Turn("sender") /\ Turn("receiver")' = Turn("receiver")
      /\ Inside("receiver")' = Inside("receiver") /\ (Inside("receiver") <=> r \in {5, 6, 7})
  BY <1>1, <1>4 DEF Turn, Inside, s, r
<1>6. ShmTypes'
  BY <1>1, <1>2, <1>4 DEF ShmInv, ShmTypes, kernel
<1>7. SenderHolds' /\ ReceiverHolds'
  BY <1>1, <1>2, <1>4 DEF ShmInv, SenderHolds, ReceiverHolds, kernel
<1>8. NotKilled'
  BY <1>1, <1>2, <1>3, <1>4, <1>5 DEF ShmInv, NotKilled, Turns, Same, kernel
<1>9. NotEarly'
  BY <1>1, <1>2, <1>3, <1>4, <1>5 DEF ShmInv, NotEarly, SenderHolds, Turns, Same, kernel
<1>10. InOrder'
  BY <1>1, <1>2, <1>3, <1>4, <1>5
  DEF ShmInv, InOrder, NotKilled, NotEarly, SenderHolds, Turns, Same, Ended, kernel
<1> QED
  BY <1>6, <1>7, <1>8, <1>9, <1>10 DEF ShmInv
-----------------------------------------------------------------------------
(* A process that dies has nothing open.                                   *)
LEMMA DeadHoldsNothing ==
  ASSUME ShmTypes, NEW p \in Procs, Dies(p), trouble' \subseteq {"early", "killed"}
  PROVE  /\ ShmTypes'
         /\ p = "sender" => s' = 0 /\ r' = r /\ "sender" \notin running'
         /\ p = "receiver" => s' = s /\ r' = 0 /\ "receiver" \notin running'
         /\ \A q \in Procs \ {p} : held'[q] = held[q] /\ (q \in running' <=> q \in running)
         /\ running' # {} => started' = started
         /\ UNCHANGED <<named, count, mem, said, heard>>
         /\ Value("send")' = Value("send") /\ Value("rec")' = Value("rec")
<1>1. /\ pc' = [pc EXCEPT ![p] = 0]
      /\ held' = [held EXCEPT ![p] = [n \in Names |-> None]]
      /\ UNCHANGED <<named, count, mem, said, heard>>
      /\ running' = running \ {p} /\ p \in running
      /\ started' = IF running = {p} THEN {} ELSE started
  BY DEF Dies, kernel
<1>2. held' \in [Procs -> [Names -> 0 .. 3]] /\ pc' \in [Procs -> 0 .. 14]
  BY <1>1 DEF ShmTypes, None
<1>3. ShmTypes'
  <2>1. \A q \in Procs \ running' : pc'[q] = 0
    BY <1>1 DEF ShmTypes
  <2>2. running' \subseteq started' /\ started' \subseteq Procs /\ (running' = {} => started' = {})
    BY <1>1 DEF ShmTypes
  <2>3. r' <= 10
    BY <1>1 DEF ShmTypes, Procs, r
  <2> QED
    BY <1>1, <1>2, <2>1, <2>2, <2>3 DEF ShmTypes
<1>4. Value("send")' = Value("send") /\ Value("rec")' = Value("rec")
  BY <1>1 DEF Value
<1> QED
  BY <1>1, <1>3, <1>4 DEF ShmTypes, Procs, s, r

LEMMA ProcessIsKilled ==
  ASSUME ShmInv, NEW p \in Procs, Killed(p)
  PROVE  ShmInv'
<1> USE ValuesAreNumbers DEF Procs
<1>1. Dies(p) /\ trouble' = trouble \cup {"killed"}
  BY DEF Killed
<1>2. trouble' \subseteq {"early", "killed"}
  BY <1>1 DEF ShmInv, ShmTypes
<1>3. NotKilled' /\ InOrder'
  BY <1>1 DEF NotKilled, InOrder
<1>4. /\ ShmTypes'
      /\ UNCHANGED <<named, count>>
      /\ Value("send")' = Value("send") /\ Value("rec")' = Value("rec")
      /\ running' # {} => started' = started
  BY <1>1, <1>2, DeadHoldsNothing DEF ShmInv
<1>5. CASE p = "sender"
  <2>1. s' = 0 /\ r' = r /\ held'["receiver"] = held["receiver"]
    BY <1>1, <1>2, <1>5, DeadHoldsNothing DEF ShmInv
  <2>2. Turn("sender")' = 0 /\ Turn("receiver")' = Turn("receiver")
    BY <2>1 DEF Turn, Inside, s, r
  <2>3. SenderHolds' /\ ReceiverHolds'
    BY <2>1 DEF ShmInv, SenderHolds, ReceiverHolds
  <2>4. NotEarly'
    BY <1>1, <1>4, <2>1, <2>2 DEF ShmInv, NotEarly, Turns, Same
  <2> QED
    BY <1>3, <1>4, <2>3, <2>4 DEF ShmInv
<1>6. CASE p = "receiver"
  <2>1. /\ s' = s /\ r' = 0 /\ "receiver" \notin running' /\ held'["sender"] = held["sender"]
        /\ "sender" \in running' <=> "sender" \in running
    BY <1>1, <1>2, <1>6, DeadHoldsNothing DEF ShmInv
  <2>2. Turn("receiver")' = 0 /\ Turn("sender")' = Turn("sender")
    BY <2>1 DEF Turn, Inside, s, r
  <2>3. SenderHolds' /\ ReceiverHolds'
    BY <1>4, <2>1 DEF ShmInv, SenderHolds, ReceiverHolds
  <2>4. s > 0 => started' = started
    BY <1>4, <2>1 DEF ShmInv, ShmTypes, s
  <2>5. NotEarly'
    BY <1>1, <1>4, <2>1, <2>2, <2>4 DEF ShmInv, NotEarly, Turns
  <2> QED
    BY <1>3, <1>4, <2>3, <2>5 DEF ShmInv
<1> QED
  BY <1>5, <1>6

(* Only a receiver that was started too early finds its memory gone.       *)
LEMMA ProcessFaults ==
  ASSUME ShmInv, NEW p \in Procs, Segfault(p)
  PROVE  ShmInv'
<1> USE ValuesAreNumbers DEF Procs
<1>1. Dies(p) /\ trouble' = trouble /\ held[p]["shm"] = None
  BY DEF Segfault
<1>2. CASE p = "sender"
  <2>1. s \in {5, 8}
    BY <1>2, SenderAt DEF Segfault, ShmInv
  <2> QED
    BY <1>1, <1>2, <2>1 DEF ShmInv, SenderHolds
<1>3. CASE p = "receiver"
  <2>1. r \in {5, 6}
    BY <1>3, ReceiverAt DEF Segfault, ShmInv
  <2>2. "early" \in trouble
    BY <1>1, <1>3, <2>1 DEF ShmInv, NotEarly, Same
  <2>3. NotEarly' /\ InOrder'
    BY <1>1, <2>2 DEF NotEarly, InOrder
  <2>4. /\ ShmTypes'
        /\ UNCHANGED <<named, count>>
        /\ Value("send")' = Value("send") /\ Value("rec")' = Value("rec")
        /\ s' = s /\ r' = 0 /\ held'["sender"] = held["sender"]
    BY <1>1, <1>3, DeadHoldsNothing DEF ShmInv, ShmTypes
  <2>5. /\ Turn("receiver") = 1 /\ Turn("receiver")' = 0 /\ Turn("sender")' = Turn("sender")
        /\ Inside("receiver") /\ ~Inside("receiver")'
    BY <2>1, <2>4 DEF Turn, Inside, s, r
  <2>6. SenderHolds' /\ ReceiverHolds'
    BY <2>4 DEF ShmInv, SenderHolds, ReceiverHolds
  <2>7. NotKilled'
    BY <1>1, <2>1, <2>4, <2>5 DEF ShmInv, NotKilled, Turns
  <2> QED
    BY <2>3, <2>4, <2>6, <2>7 DEF ShmInv
<1> QED
  BY <1>2, <1>3

(* A program that starts while its last partner runs is in trouble.        *)
LEMMA ProcessStarts ==
  ASSUME ShmInv, NEW p \in Procs, Start(p)
  PROVE  ShmInv'
<1> USE ValuesAreNumbers DEF Procs
<1>1. /\ p \notin running /\ running' = running \cup {p} /\ started' = started \cup {p}
      /\ trouble' = IF p \in started THEN trouble \cup {"early"} ELSE trouble
      /\ UNCHANGED <<pc, named, count, held, mem>>
      /\ IF p = "sender" THEN said' = "" /\ UNCHANGED heard ELSE heard' = "" /\ UNCHANGED said
  BY DEF Start, kernel
<1>2. /\ Value("send")' = Value("send") /\ Value("rec")' = Value("rec")
      /\ Turn("sender")' = Turn("sender") /\ Turn("receiver")' = Turn("receiver")
      /\ s' = s /\ r' = r /\ Inside("receiver")' = Inside("receiver")
      /\ Inside("receiver") <=> r \in {5, 6, 7}
  BY <1>1 DEF Value, Turn, Inside, s, r
<1>3. p = "sender" => s = 0
  BY <1>1 DEF ShmInv, ShmTypes, s
<1>4. p = "receiver" => r = 0
  BY <1>1 DEF ShmInv, ShmTypes, r
<1>5. ShmTypes'
  BY <1>1 DEF ShmInv, ShmTypes, Texts, r
<1>6. SenderHolds' /\ ReceiverHolds'
  BY <1>1, <1>2 DEF ShmInv, SenderHolds, ReceiverHolds
<1>7. NotKilled'
  BY <1>1, <1>2 DEF ShmInv, NotKilled, Turns, Same
<1>8. NotEarly'
  BY <1>1, <1>2 DEF ShmInv, ShmTypes, NotEarly, Turns, Same
<1>9. InOrder'
  <2> SUFFICES ASSUME trouble' = {} PROVE InOrder'
    BY DEF InOrder
  <2>1. trouble = {} /\ p \notin started
    BY <1>1
  <2>2. CASE p = "sender"
    <3>1. /\ s = 0 /\ s' = 0
          /\ ~Ended("sender") /\ ~Ended("sender")' /\ Ended("receiver")' = Ended("receiver")
          /\ running' # {} /\ ("receiver" \in running' <=> "receiver" \in running)
      BY <1>1, <1>2, <1>3, <2>1, <2>2 DEF Ended
    <3>2. UNCHANGED <<pc, named, count, held, mem>> /\ started \subseteq started'
      BY <1>1
    <3> QED
      BY <1>2, <2>1, <3>1, <3>2 DEF ShmInv, InOrder, Same
  <2>3. CASE p = "receiver"
    <3>1. /\ r = 0 /\ r' = 0 /\ said' = said
          /\ ~Ended("receiver") /\ ~Ended("receiver")' /\ Ended("sender")' = Ended("sender")
          /\ running' # {} /\ "receiver" \notin started
      BY <1>1, <1>2, <1>4, <2>1, <2>3 DEF Ended
    <3>2. UNCHANGED <<pc, named, count, held, mem>> /\ started \subseteq started'
      BY <1>1
    <3> QED
      BY <1>2, <2>1, <3>1, <3>2 DEF ShmInv, InOrder, Same
  <2> QED
    BY <2>2, <2>3
<1> QED
  BY <1>5, <1>6, <1>7, <1>8, <1>9 DEF ShmInv
-----------------------------------------------------------------------------
(* Memory that has a name can be attached. *)
LEMMA SenderAttaches ==
  ASSUME ShmInv, Attach("sender")
  PROVE  ShmInv'
<1> USE ValuesAreNumbers DEF Procs
<1>1. s = 3 /\ "sender" \in running
  BY SenderAt DEF Attach, ShmInv
<1>2. /\ UNCHANGED <<named, count, mem, said, heard>>
      /\ Advance("sender")
      /\ held' \in {held, [held EXCEPT !["sender"]["shm"] = None]}
      /\ held["sender"]["shm"] = named["shm"] => held' = held
  BY DEF Attach, kernel
<1>3. /\ held' \in [Procs -> [Names -> 0 .. 3]]
      /\ held'["receiver"] = held["receiver"]
      /\ held'["sender"]["send"] = held["sender"]["send"] /\ held'["sender"]["rec"] = held["sender"]["rec"]
  BY <1>2 DEF ShmInv, ShmTypes, Names, Sems, None
<1>4. Value("send")' = Value("send") /\ Value("rec")' = Value("rec")
  BY <1>2 DEF Value
<1>5. /\ pc' \in [Procs -> 0 .. 14] /\ \A q \in Procs \ running' : pc'[q] = 0
      /\ s' = s + 1 /\ r' = r
      /\ UNCHANGED <<running, started, trouble>>
  BY <1>1, <1>2, SenderGoesOn DEF ShmInv
<1>6. /\ Turn("sender")' = Turn("sender") /\ Turn("receiver")' = Turn("receiver")
      /\ Inside("receiver")' = Inside("receiver") /\ (Inside("receiver") <=> r \in {5, 6, 7})
  BY <1>1, <1>5 DEF Turn, Inside, s, r
<1>7. ShmTypes'
  BY <1>1, <1>2, <1>3, <1>5 DEF ShmInv, ShmTypes
<1>8. SenderHolds' /\ ReceiverHolds'
  BY <1>1, <1>2, <1>3, <1>5 DEF ShmInv, SenderHolds, ReceiverHolds
<1>9. NotKilled'
  BY <1>1, <1>2, <1>3, <1>4, <1>5, <1>6 DEF ShmInv, NotKilled, Turns, Same
<1>10. NotEarly'
  BY <1>1, <1>2, <1>3, <1>4, <1>5, <1>6 DEF ShmInv, NotEarly, SenderHolds, Turns, Same
<1>11. InOrder'
  BY <1>1, <1>2, <1>3, <1>4, <1>5, <1>6
  DEF ShmInv, InOrder, NotKilled, NotEarly, SenderHolds, Turns, Same, Ended
<1> QED
  BY <1>7, <1>8, <1>9, <1>10, <1>11 DEF ShmInv

(* Without an early start the receiver attaches what it has found.         *)
LEMMA ReceiverAttaches ==
  ASSUME ShmInv, Attach("receiver")
  PROVE  ShmInv'
<1> USE ValuesAreNumbers DEF Procs
<1>1. r = 3 /\ "receiver" \in running
  BY ReceiverAt DEF Attach, ShmInv
<1>2. /\ UNCHANGED <<named, count, mem, said, heard>>
      /\ Advance("receiver")
      /\ held' \in {held, [held EXCEPT !["receiver"]["shm"] = None]}
      /\ held["receiver"]["shm"] = named["shm"] => held' = held
  BY DEF Attach, kernel
<1>3. /\ held' \in [Procs -> [Names -> 0 .. 3]]
      /\ held'["sender"] = held["sender"]
      /\ held'["receiver"]["send"] = held["receiver"]["send"] /\ held'["receiver"]["rec"] = held["receiver"]["rec"]
  BY <1>2 DEF ShmInv, ShmTypes, Names, Sems, None
<1>4. Value("send")' = Value("send") /\ Value("rec")' = Value("rec")
  BY <1>2 DEF Value
<1>5. /\ pc' \in [Procs -> 0 .. 14] /\ \A q \in Procs \ running' : pc'[q] = 0
      /\ s' = s /\ r' = r + 1 /\ r' <= 10
      /\ UNCHANGED <<running, started, trouble>>
  BY <1>1, <1>2, ReceiverGoesOn DEF ShmInv
<1>6. /\ Turn("sender")' = Turn("sender") /\ Turn("receiver")' = Turn("receiver")
      /\ Inside("receiver")' = Inside("receiver") /\ (Inside("receiver") <=> r \in {5, 6, 7})
  BY <1>1, <1>5 DEF Turn, Inside, s, r
<1>7. ShmTypes'
  BY <1>1, <1>2, <1>3, <1>5 DEF ShmInv, ShmTypes
<1>8. SenderHolds' /\ ReceiverHolds'
  BY <1>1, <1>2, <1>3, <1>5 DEF ShmInv, SenderHolds, ReceiverHolds
<1>9. NotKilled'
  BY <1>1, <1>2, <1>3, <1>4, <1>5, <1>6 DEF ShmInv, NotKilled, Turns, Same
<1>10. NotEarly'
  BY <1>1, <1>2, <1>3, <1>4, <1>5, <1>6 DEF ShmInv, NotEarly, SenderHolds, Turns, Same
<1>11. InOrder'
  BY <1>1, <1>2, <1>3, <1>4, <1>5, <1>6
  DEF ShmInv, InOrder, NotKilled, NotEarly, SenderHolds, Turns, Same, Ended
<1> QED
  BY <1>7, <1>8, <1>9, <1>10, <1>11 DEF ShmInv

(* The sender closes its semaphores. *)
LEMMA SenderCloses ==
  ASSUME ShmInv, Close("sender")
  PROVE  ShmInv'
<1> USE ValuesAreNumbers DEF Procs
<1>1. s = 10 /\ "sender" \in running
  BY SenderAt DEF Close, ShmInv
<1>2. /\ UNCHANGED <<named, count, mem, said, heard>>
      /\ Advance("sender")
      /\ held' = [held EXCEPT !["sender"]["send"] = None, !["sender"]["rec"] = None]
  BY DEF Close, kernel
<1>3. /\ held' \in [Procs -> [Names -> 0 .. 3]]
      /\ held'["receiver"] = held["receiver"] /\ held'["sender"]["shm"] = held["sender"]["shm"]
  BY <1>2 DEF ShmInv, ShmTypes, Names, Sems, None
<1>4. Value("send")' = Value("send") /\ Value("rec")' = Value("rec")
  BY <1>2 DEF Value
<1>5. /\ pc' \in [Procs -> 0 .. 14] /\ \A q \in Procs \ running' : pc'[q] = 0
      /\ s' = s + 1 /\ r' = r
      /\ UNCHANGED <<running, started, trouble>>
  BY <1>1, <1>2, SenderGoesOn DEF ShmInv
<1>6. /\ Turn("sender")' = Turn("sender") /\ Turn("receiver")' = Turn("receiver")
      /\ Inside("receiver")' = Inside("receiver") /\ (Inside("receiver") <=> r \in {5, 6, 7})
  BY <1>1, <1>5 DEF Turn, Inside, s, r
<1>7. ShmTypes'
  BY <1>1, <1>2, <1>3, <1>5 DEF ShmInv, ShmTypes
<1>8. SenderHolds' /\ ReceiverHolds'
  BY <1>1, <1>2, <1>3, <1>5 DEF ShmInv, SenderHolds, ReceiverHolds
<1>9. NotKilled'
  BY <1>1, <1>2, <1>3, <1>4, <1>5, <1>6 DEF ShmInv, NotKilled, Turns, Same
<1>10. NotEarly'
  BY <1>1, <1>2, <1>3, <1>4, <1>5, <1>6 DEF ShmInv, NotEarly, SenderHolds, Turns, Same
<1>11. InOrder'
  BY <1>1, <1>2, <1>3, <1>4, <1>5, <1>6
  DEF ShmInv, InOrder, NotKilled, NotEarly, SenderHolds, Turns, Same, Ended
<1> QED
  BY <1>7, <1>8, <1>9, <1>10, <1>11 DEF ShmInv

(* The receiver closes its semaphores. *)
LEMMA ReceiverCloses ==
  ASSUME ShmInv, Close("receiver")
  PROVE  ShmInv'
<1> USE ValuesAreNumbers DEF Procs
<1>1. r = 9 /\ "receiver" \in running
  BY ReceiverAt DEF Close, ShmInv
<1>2. /\ UNCHANGED <<named, count, mem, said, heard>>
      /\ Advance("receiver")
      /\ held' = [held EXCEPT !["receiver"]["send"] = None, !["receiver"]["rec"] = None]
  BY DEF Close, kernel
<1>3. /\ held' \in [Procs -> [Names -> 0 .. 3]]
      /\ held'["sender"] = held["sender"] /\ held'["receiver"]["shm"] = held["receiver"]["shm"]
  BY <1>2 DEF ShmInv, ShmTypes, Names, Sems, None
<1>4. Value("send")' = Value("send") /\ Value("rec")' = Value("rec")
  BY <1>2 DEF Value
<1>5. /\ pc' \in [Procs -> 0 .. 14] /\ \A q \in Procs \ running' : pc'[q] = 0
      /\ s' = s /\ r' = r + 1 /\ r' <= 10
      /\ UNCHANGED <<running, started, trouble>>
  BY <1>1, <1>2, ReceiverGoesOn DEF ShmInv
<1>6. /\ Turn("sender")' = Turn("sender") /\ Turn("receiver")' = Turn("receiver")
      /\ Inside("receiver")' = Inside("receiver") /\ (Inside("receiver") <=> r \in {5, 6, 7})
  BY <1>1, <1>5 DEF Turn, Inside, s, r
<1>7. ShmTypes'
  BY <1>1, <1>2, <1>3, <1>5 DEF ShmInv, ShmTypes
<1>8. SenderHolds' /\ ReceiverHolds'
  BY <1>1, <1>2, <1>3, <1>5 DEF ShmInv, SenderHolds, ReceiverHolds
<1>9. NotKilled'
  BY <1>1, <1>2, <1>3, <1>4, <1>5, <1>6 DEF ShmInv, NotKilled, Turns, Same
<1>10. NotEarly'
  BY <1>1, <1>2, <1>3, <1>4, <1>5, <1>6 DEF ShmInv, NotEarly, SenderHolds, Turns, Same
<1>11. InOrder'
  BY <1>1, <1>2, <1>3, <1>4, <1>5, <1>6
  DEF ShmInv, InOrder, NotKilled, NotEarly, SenderHolds, Turns, Same, Ended
<1> QED
  BY <1>7, <1>8, <1>9, <1>10, <1>11 DEF ShmInv

(* The sender detaches the memory. *)
LEMMA SenderDetaches ==
  ASSUME ShmInv, Detach("sender")
  PROVE  ShmInv'
<1> USE ValuesAreNumbers DEF Procs
<1>1. s = 13 /\ "sender" \in running
  BY SenderAt DEF Detach, ShmInv
<1>2. /\ UNCHANGED <<named, count, mem, said, heard>>
      /\ Advance("sender")
      /\ held' = [held EXCEPT !["sender"]["shm"] = None]
  BY DEF Detach, kernel
<1>3. /\ held' \in [Procs -> [Names -> 0 .. 3]]
      /\ held'["receiver"] = held["receiver"]
  BY <1>2 DEF ShmInv, ShmTypes, Names, Sems, None
<1>4. Value("send")' = Value("send") /\ Value("rec")' = Value("rec")
  BY <1>2 DEF Value
<1>5. /\ pc' \in [Procs -> 0 .. 14] /\ \A q \in Procs \ running' : pc'[q] = 0
      /\ s' = s + 1 /\ r' = r
      /\ UNCHANGED <<running, started, trouble>>
  BY <1>1, <1>2, SenderGoesOn DEF ShmInv
<1>6. /\ Turn("sender")' = Turn("sender") /\ Turn("receiver")' = Turn("receiver")
      /\ Inside("receiver")' = Inside("receiver") /\ (Inside("receiver") <=> r \in {5, 6, 7})
  BY <1>1, <1>5 DEF Turn, Inside, s, r
<1>7. ShmTypes'
  BY <1>1, <1>2, <1>3, <1>5 DEF ShmInv, ShmTypes
<1>8. SenderHolds' /\ ReceiverHolds'
  BY <1>1, <1>2, <1>3, <1>5 DEF ShmInv, SenderHolds, ReceiverHolds
<1>9. NotKilled'
  BY <1>1, <1>2, <1>3, <1>4, <1>5, <1>6 DEF ShmInv, NotKilled, Turns, Same
<1>10. NotEarly'
  BY <1>1, <1>2, <1>3, <1>4, <1>5, <1>6 DEF ShmInv, NotEarly, SenderHolds, Turns, Same
<1>11. InOrder'
  BY <1>1, <1>2, <1>3, <1>4, <1>5, <1>6
  DEF ShmInv, InOrder, NotKilled, NotEarly, SenderHolds, Turns, Same, Ended
<1> QED
  BY <1>7, <1>8, <1>9, <1>10, <1>11 DEF ShmInv

(* The receiver detaches the memory and has ended. *)
LEMMA ReceiverDetaches ==
  ASSUME ShmInv, Detach("receiver")
  PROVE  ShmInv'
<1> USE ValuesAreNumbers DEF Procs
<1>1. r = 10 /\ "receiver" \in running
  BY ReceiverAt DEF Detach, ShmInv
<1>2. /\ UNCHANGED <<named, count, mem, said, heard>>
      /\ Advance("receiver")
      /\ held' = [held EXCEPT !["receiver"]["shm"] = None]
  BY DEF Detach, kernel
<1>3. /\ held' \in [Procs -> [Names -> 0 .. 3]]
      /\ held'["sender"] = held["sender"]
  BY <1>2 DEF ShmInv, ShmTypes, Names, Sems, None
<1>4. Value("send")' = Value("send") /\ Value("rec")' = Value("rec")
  BY <1>2 DEF Value
<1>5. /\ pc' = [pc EXCEPT !["receiver"] = 0]
      /\ running' = running \ {"receiver"}
      /\ started' = IF running = {"receiver"} THEN {} ELSE started
      /\ trouble' = trouble
  BY <1>1, <1>2, AdvanceEnds DEF ShmInv
<1>6. s' = s /\ r' = 0 /\ pc' \in [Procs -> 0 .. 14]
  BY <1>5 DEF ShmInv, ShmTypes, s, r
<1>7. /\ Turn("sender")' = Turn("sender") /\ Turn("receiver")' = Turn("receiver")
      /\ ~Inside("receiver")'
  BY <1>1, <1>6 DEF Turn, Inside, s, r
<1>8. /\ running' \subseteq started' /\ started' \subseteq Procs /\ (running' = {} => started' = {})
      /\ \A q \in Procs \ running' : pc'[q] = 0
      /\ s > 0 => started' = started
  <2>1. running' \subseteq started' /\ started' \subseteq Procs /\ (running' = {} => started' = {})
    <3>1. running = {"receiver"} => running' = {} /\ started' = {}
      BY <1>5
    <3>2. running # {"receiver"} => running' # {} /\ started' = started
      BY <1>1, <1>5
    <3> QED
      BY <1>5, <3>1, <3>2 DEF ShmInv, ShmTypes
  <2>2. \A q \in Procs \ running' : pc'[q] = 0
    BY <1>1, <1>5 DEF ShmInv, ShmTypes
  <2>3. s > 0 => "sender" \in running
    BY DEF ShmInv, ShmTypes, s
  <2>4. s > 0 => started' = started
    BY <1>5, <2>3
  <2> QED
    BY <2>1, <2>2, <2>4
<1>9. ShmTypes'
  BY <1>2, <1>3, <1>5, <1>6, <1>8 DEF ShmInv, ShmTypes
<1>10. SenderHolds' /\ ReceiverHolds'
  BY <1>2, <1>3, <1>6 DEF ShmInv, SenderHolds, ReceiverHolds
<1>11. NotKilled'
  BY <1>1, <1>4, <1>5, <1>6, <1>7 DEF ShmInv, NotKilled, Turns
<1>12. NotEarly'
  BY <1>1, <1>2, <1>4, <1>5, <1>6, <1>7, <1>8 DEF ShmInv, NotEarly, Turns
<1>13. InOrder'
  <2> SUFFICES ASSUME trouble = {} PROVE InOrder'
    BY <1>5 DEF InOrder
  <2>1. Ended("sender") \/ s >= 10
    BY <1>1 DEF ShmInv, InOrder
  <2>2. Ended("sender") => \A n \in Names : named'[n] = None
    BY <1>2 DEF ShmInv, InOrder
  <2>3. CASE Ended("sender")
    BY <1>5, <1>6, <2>2, <2>3 DEF InOrder, Ended, ShmInv, ShmTypes, s
  <2>4. CASE ~Ended("sender")
    <3>1. s >= 10 /\ "sender" \in running'
      BY <1>5, <2>1, <2>4 DEF ShmInv, ShmTypes, s
    <3>2. ~Ended("sender")' /\ running' # {}
      BY <3>1 DEF Ended
    <3> QED
      BY <1>2, <1>6, <3>1, <3>2 DEF ShmInv, InOrder
  <2> QED
    BY <2>3, <2>4
<1> QED
  BY <1>9, <1>10, <1>11, <1>12, <1>13 DEF ShmInv

(* A name is removed; the receiver may still have the object open.         *)
LEMMA UnlinkedName ==
  ASSUME ShmTypes, NEW n \in Names, Unlink("sender", n)
  PROVE  /\ named' \in [Names -> 0 .. 3] /\ named'[n] = None
         /\ \A m \in Names \ {n} : named'[m] = named[m]
         /\ \A m \in Sems : Value(m)' = IF m = n THEN 0 ELSE Value(m)
         /\ UNCHANGED <<held, count, mem, said, heard>>
<1>1. named' = [named EXCEPT ![n] = None] /\ UNCHANGED <<held, count, mem, said, heard>>
  BY DEF Unlink
<1>2. named' \in [Names -> 0 .. 3] /\ named'[n] = None /\ \A m \in Names \ {n} : named'[m] = named[m]
  BY <1>1 DEF ShmTypes, None
<1>3. \A m \in Sems : Value(m)' = IF m = n THEN 0 ELSE Value(m)
  BY <1>1, <1>2 DEF Value, Names, None
<1> QED
  BY <1>1, <1>2, <1>3

LEMMA SenderUnlinks ==
  ASSUME ShmInv, NEW n \in Sems, Unlink("sender", n)
  PROVE  ShmInv'
<1> USE ValuesAreNumbers DEF Procs
<1>1. (n = "send" /\ s = 11) \/ (n = "rec" /\ s = 12)
  BY SenderAt DEF Unlink, ShmInv, Sems
<1>2. "sender" \in running /\ Advance("sender")
  BY SenderAt DEF Unlink, ShmInv
<1>3. /\ named' \in [Names -> 0 .. 3] /\ named'[n] = None
      /\ \A m \in Names \ {n} : named'[m] = named[m]
      /\ \A m \in Sems : Value(m)' = IF m = n THEN 0 ELSE Value(m)
      /\ UNCHANGED <<held, count, mem, said, heard>>
  BY UnlinkedName DEF ShmInv, Names
<1>4. /\ pc' \in [Procs -> 0 .. 14] /\ \A q \in Procs \ running' : pc'[q] = 0
      /\ s' = s + 1 /\ r' = r
      /\ UNCHANGED <<running, started, trouble>>
  BY <1>1, <1>2, SenderGoesOn DEF ShmInv
<1>5. /\ Turn("sender")' = Turn("sender") /\ Turn("receiver")' = Turn("receiver")
      /\ Inside("receiver")' = Inside("receiver") /\ (Inside("receiver") <=> r \in {5, 6, 7})
  BY <1>1, <1>4 DEF Turn, Inside, s, r
<1>6. ShmTypes'
  BY <1>3, <1>4 DEF ShmInv, ShmTypes
<1>7. SenderHolds' /\ ReceiverHolds'
  BY <1>1, <1>3, <1>4 DEF ShmInv, SenderHolds, ReceiverHolds, Names, Sems
<1>8. CASE n = "send"
  <2>1. /\ s = 11 /\ Value("send")' = 0 /\ Value("rec")' = Value("rec")
        /\ named'["rec"] = named["rec"] /\ named'["shm"] = named["shm"] /\ named'["send"] = None
    BY <1>1, <1>3, <1>8 DEF Names, Sems
  <2>2. named["send"] # None
    BY <2>1 DEF ShmInv, SenderHolds
  <2>3. Same("send") => Value("send") = count["send"][held["receiver"]["send"]]
    BY <2>2 DEF Same, Value
  <2>4. NotKilled'
    BY <1>3, <1>4, <1>5, <2>1, <2>3 DEF ShmInv, NotKilled, Turns
  <2>5. NotEarly'
    BY <1>3, <1>4, <1>5, <2>1 DEF ShmInv, ShmTypes, NotEarly, SenderHolds, Turns, r
  <2>6. InOrder'
    BY <1>3, <1>4, <1>5, <2>1 DEF ShmInv, ShmTypes, InOrder, NotEarly, Ended, Names, Sems
  <2> QED
    BY <1>6, <1>7, <2>4, <2>5, <2>6 DEF ShmInv
<1>9. CASE n = "rec"
  <2>1. /\ s = 12 /\ Value("send")' = Value("send") /\ Value("rec")' = 0
        /\ named'["send"] = named["send"] /\ named'["shm"] = named["shm"] /\ named'["rec"] = None
    BY <1>1, <1>3, <1>9 DEF Names, Sems
  <2>2. NotKilled'
    BY <1>3, <1>4, <1>5, <2>1 DEF ShmInv, NotKilled, Turns, Same
  <2>3. NotEarly'
    BY <1>3, <1>4, <1>5, <2>1 DEF ShmInv, ShmTypes, NotEarly, SenderHolds, Turns, Same, r
  <2>4. InOrder'
    BY <1>3, <1>4, <1>5, <2>1 DEF ShmInv, ShmTypes, InOrder, NotEarly, Ended, Same, Names, Sems
  <2> QED
    BY <1>6, <1>7, <2>2, <2>3, <2>4 DEF ShmInv
<1> QED
  BY <1>8, <1>9 DEF Sems

(* The last call of the sender removes the memory. *)
LEMMA SenderUnlinksMemory ==
  ASSUME ShmInv, Unlink("sender", "shm")
  PROVE  ShmInv'
<1> USE ValuesAreNumbers DEF Procs
<1>1. s = 14 /\ "sender" \in running /\ Advance("sender")
  BY SenderAt DEF Unlink, ShmInv
<1>2. /\ named' \in [Names -> 0 .. 3] /\ named'["shm"] = None
      /\ named'["send"] = named["send"] /\ named'["rec"] = named["rec"]
      /\ Value("send")' = Value("send") /\ Value("rec")' = Value("rec")
      /\ UNCHANGED <<held, count, mem, said, heard>>
  BY UnlinkedName DEF ShmInv, Names, Sems
<1>3. /\ pc' = [pc EXCEPT !["sender"] = 0]
      /\ running' = running \ {"sender"}
      /\ started' = IF running = {"sender"} THEN {} ELSE started
      /\ trouble' = trouble
  BY <1>1, AdvanceEnds DEF ShmInv
<1>4. s' = 0 /\ r' = r /\ pc' \in [Procs -> 0 .. 14]
  BY <1>3 DEF ShmInv, ShmTypes, s, r
<1>5. /\ Turn("sender")' = Turn("sender") /\ Turn("receiver")' = Turn("receiver")
      /\ Inside("receiver")' = Inside("receiver") /\ (Inside("receiver") <=> r \in {5, 6, 7})
  BY <1>1, <1>4 DEF Turn, Inside, s, r
<1>6. /\ running' \subseteq started' /\ started' \subseteq Procs /\ (running' = {} => started' = {})
      /\ \A q \in Procs \ running' : pc'[q] = 0
      /\ r > 0 => started' = started
  <2>1. running' \subseteq started' /\ started' \subseteq Procs /\ (running' = {} => started' = {})
    <3>1. running = {"sender"} => running' = {} /\ started' = {}
      BY <1>3
    <3>2. running # {"sender"} => running' # {} /\ started' = started
      BY <1>1, <1>3
    <3> QED
      BY <1>3, <3>1, <3>2 DEF ShmInv, ShmTypes
  <2>2. \A q \in Procs \ running' : pc'[q] = 0
    BY <1>1, <1>3 DEF ShmInv, ShmTypes
  <2>3. r > 0 => "receiver" \in running
    BY DEF ShmInv, ShmTypes, r
  <2>4. r > 0 => started' = started
    BY <1>3, <2>3
  <2> QED
    BY <2>1, <2>2, <2>4
<1>7. ShmTypes'
  BY <1>2, <1>3, <1>4, <1>6 DEF ShmInv, ShmTypes
<1>8. SenderHolds' /\ ReceiverHolds'
  BY <1>2, <1>4 DEF ShmInv, SenderHolds, ReceiverHolds
<1>9. NotKilled'
  BY <1>1, <1>2, <1>3, <1>4, <1>5 DEF ShmInv, NotKilled, Turns, Same
<1>10. NotEarly'
  BY <1>1, <1>2, <1>3, <1>4, <1>5 DEF ShmInv, ShmTypes, NotEarly, Turns, Same, r
<1>11. InOrder'
  <2> SUFFICES ASSUME trouble = {} PROVE InOrder'
    BY <1>3 DEF InOrder
  <2>1. \A n \in Names : named'[n] = None
    BY <1>1, <1>2 DEF ShmInv, InOrder, Names, Sems
  <2>2. "receiver" \in started /\ ("receiver" \in running => r >= 8)
    BY <1>1 DEF ShmInv, NotEarly
  <2>3. running' = {} => r = 0 /\ started' = {}
    BY <1>3, <1>6 DEF ShmInv, ShmTypes, r
  <2>4. running' # {} => Ended("sender")' /\ started' = started /\ ~Ended("receiver")'
    <3>1. running' # {} => "receiver" \in running' /\ running # {"sender"}
      <4>1. running \subseteq {"sender", "receiver"}
        BY DEF ShmInv, ShmTypes
      <4> QED
        BY <1>3, <4>1
    <3>2. "sender" \in started /\ "sender" \notin running'
      BY <1>1, <1>3 DEF ShmInv, ShmTypes
    <3> QED
      BY <1>3, <3>1, <3>2 DEF Ended
  <2> QED
    BY <1>2, <1>3, <1>4, <2>1, <2>2, <2>3, <2>4 DEF InOrder, Ended
<1> QED
  BY <1>7, <1>8, <1>9, <1>10, <1>11 DEF ShmInv
-----------------------------------------------------------------------------
(* There is always an object that nobody has open.                         *)
LEMMA UnusedIsNew ==
  ASSUME ShmTypes, NEW n \in Names, named[n] = None
  PROVE  Unused(n) \in Objects /\ \A p \in Procs : held[p][n] # Unused(n)
<1>1. held["sender"][n] \in 0 .. 3 /\ held["receiver"][n] \in 0 .. 3
  BY DEF ShmTypes, Procs
<1>2. \E o \in Objects : named[n] # o /\ held["sender"][n] # o /\ held["receiver"][n] # o
  <2>1. 1 \in Objects /\ 2 \in Objects /\ 3 \in Objects
    BY DEF Objects
  <2> QED
    BY <1>1, <2>1 DEF None
<1>3. \E o \in Objects : named[n] # o /\ \A p \in Procs : held[p][n] # o
  BY <1>2 DEF Procs
<1> QED
  BY <1>3 DEF Unused

(* What is opened is what the name stands for, or becomes that: a new      *)
(* object that nobody else has.                                            *)
LEMMA Opened ==
  ASSUME ShmTypes, NEW p \in Procs, NEW n \in Names, Open(p, n)
  PROVE  /\ named' \in [Names -> 0 .. 3] /\ held' \in [Procs -> [Names -> 0 .. 3]]
         /\ count' \in [Sems -> [Objects -> Nat]] /\ mem' \in [Objects -> Texts]
         /\ held'[p][n] = named'[n] /\ named'[n] \in Objects
         /\ \A m \in Names \ {n} : named'[m] = named[m] /\ held'[p][m] = held[p][m]
         /\ \A q \in Procs \ {p} : held'[q] = held[q]
         /\ named[n] # None => UNCHANGED <<named, count, mem>>
         /\ named[n] = None => \A q \in Procs : held[q][n] # named'[n]
         /\ n # "shm" => mem' = mem
         /\ \A m \in Sems : Value(m)' = IF m = n /\ named[n] = None THEN FirstValue(n) ELSE Value(m)
         /\ \A m \in Sems, o \in Objects : m # n \/ o # named'[n] => count'[m][o] = count[m][o]
         /\ UNCHANGED <<said, heard>> /\ Advance(p)
<1> DEFINE o == IF named[n] = None THEN Unused(n) ELSE named[n]
<1>1. /\ held' = [held EXCEPT ![p][n] = o]
      /\ named' = [named EXCEPT ![n] = o]
      /\ count' = IF n \in Sems /\ named[n] = None
                    THEN [count EXCEPT ![n][o] = FirstValue(n)] ELSE count
      /\ mem' = IF n = "shm" /\ named[n] = None THEN [mem EXCEPT ![o] = ""] ELSE mem
      /\ UNCHANGED <<said, heard>> /\ Advance(p)
  BY DEF Open
<1>2. named[n] \in 0 .. 3
  BY DEF ShmTypes
<1>3. o \in Objects /\ (named[n] = None => \A q \in Procs : held[q][n] # o) /\ (named[n] # None => o = named[n])
  BY <1>2, UnusedIsNew DEF Objects, None
<1> HIDE DEF o
<1>4. o \in 0 .. 3
  BY <1>3 DEF Objects
<1>5. named' \in [Names -> 0 .. 3] /\ held' \in [Procs -> [Names -> 0 .. 3]]
  BY <1>1, <1>4 DEF ShmTypes
<1>6. FirstValue(n) \in Nat
  BY DEF FirstValue
<1>7. count' \in [Sems -> [Objects -> Nat]]
  BY <1>1, <1>3, <1>6 DEF ShmTypes
<1>8. mem' \in [Objects -> Texts]
  BY <1>1, <1>3 DEF ShmTypes, Texts
<1>9. /\ held'[p][n] = o /\ named'[n] = o
      /\ \A m \in Names \ {n} : named'[m] = named[m] /\ held'[p][m] = held[p][m]
      /\ \A q \in Procs \ {p} : held'[q] = held[q]
  BY <1>1 DEF ShmTypes
<1>10. \A m \in Sems, q \in Objects : m # n \/ q # o => count'[m][q] = count[m][q]
  BY <1>1 DEF ShmTypes
<1>11. named[n] # None => UNCHANGED <<named, count, mem>>
  BY <1>1, <1>3, <1>5, <1>9 DEF ShmTypes
<1>12. n \in Sems /\ named[n] = None => count'[n][o] = FirstValue(n)
  BY <1>1, <1>3 DEF ShmTypes
<1>13. \A m \in Sems : Value(m)' = IF m = n /\ named[n] = None THEN FirstValue(n) ELSE Value(m)
  <2> SUFFICES ASSUME NEW m \in Sems
               PROVE  Value(m)' = IF m = n /\ named[n] = None THEN FirstValue(n) ELSE Value(m)
    OBVIOUS
  <2>1. CASE m = n /\ named[n] = None
    BY <1>3, <1>9, <1>12, <2>1 DEF Value, Objects, None
  <2>2. CASE named[n] # None
    BY <1>11, <2>2 DEF Value
  <2>3. CASE m # n
    <3>1. named'[m] = named[m] /\ named[m] \in 0 .. 3
      BY <1>9, <2>3 DEF ShmTypes, Names
    <3>2. named[m] # None => named[m] \in Objects
      BY <3>1 DEF Objects, None
    <3> QED
      BY <1>10, <2>3, <3>1, <3>2 DEF Value
  <2> QED
    BY <2>1, <2>2, <2>3
<1> QED
  BY <1>1, <1>3, <1>5, <1>7, <1>8, <1>9, <1>10, <1>11, <1>13

LEMMA SenderOpens ==
  ASSUME ShmInv, NEW n \in Names, Open("sender", n)
  PROVE  ShmInv'
<1> USE ValuesAreNumbers DEF Procs
<1>1. (n = "send" /\ s = 0) \/ (n = "rec" /\ s = 1) \/ (n = "shm" /\ s = 2)
  BY SenderAt DEF Open, ShmInv
<1>2. "sender" \in running
  BY SenderAt DEF Open, ShmInv
<1>3. /\ named' \in [Names -> 0 .. 3] /\ held' \in [Procs -> [Names -> 0 .. 3]]
      /\ count' \in [Sems -> [Objects -> Nat]] /\ mem' \in [Objects -> Texts]
      /\ held'["sender"][n] = named'[n] /\ named'[n] \in Objects
      /\ \A m \in Names \ {n} : named'[m] = named[m] /\ held'["sender"][m] = held["sender"][m]
      /\ held'["receiver"] = held["receiver"]
      /\ named[n] # None => UNCHANGED <<named, count, mem>>
      /\ named[n] = None => held["receiver"][n] # named'[n]
      /\ \A m \in Sems : Value(m)' = IF m = n /\ named[n] = None THEN FirstValue(n) ELSE Value(m)
      /\ \A m \in Sems, o \in Objects : m # n \/ o # named'[n] => count'[m][o] = count[m][o]
      /\ n # "shm" => mem' = mem
      /\ UNCHANGED <<said, heard>> /\ Advance("sender")
  BY Opened DEF ShmInv
<1>4. /\ pc' \in [Procs -> 0 .. 14] /\ \A q \in Procs \ running' : pc'[q] = 0
      /\ s' = s + 1 /\ r' = r
      /\ UNCHANGED <<running, started, trouble>>
  BY <1>1, <1>2, <1>3, SenderGoesOn DEF ShmInv
<1>5. /\ Turn("sender") = 0 /\ Turn("sender")' = 0 /\ Turn("receiver")' = Turn("receiver")
      /\ Inside("receiver")' = Inside("receiver") /\ (Inside("receiver") <=> r \in {5, 6, 7})
      /\ ~Inside("receiver") => Turn("receiver") = 0
  BY <1>1, <1>4 DEF Turn, Inside, s, r
<1>6. ShmTypes'
  BY <1>3, <1>4 DEF ShmInv, ShmTypes
<1>7. SenderHolds'
  BY <1>1, <1>3, <1>4 DEF ShmInv, SenderHolds, Names, Sems, Objects, None
<1>8. ReceiverHolds'
  BY <1>3, <1>4 DEF ShmInv, ReceiverHolds
<1>9. /\ n = "send" => named'["rec"] = named["rec"] /\ named'["shm"] = named["shm"] /\ Value("rec")' = Value("rec")
      /\ n = "rec" => named'["send"] = named["send"] /\ named'["shm"] = named["shm"] /\ Value("send")' = Value("send")
      /\ n = "shm" => /\ named'["send"] = named["send"] /\ named'["rec"] = named["rec"]
                      /\ Value("send")' = Value("send") /\ Value("rec")' = Value("rec")
      /\ n = "send" => Value("send")' = IF named["send"] = None THEN 0 ELSE Value("send")
      /\ n = "rec" => Value("rec")' = IF named["rec"] = None THEN 1 ELSE Value("rec")
      /\ named[n] # None => named' = named
      /\ named'[n] # None
  BY <1>3 DEF FirstValue, Names, Sems, Objects, None
<1>10. NotKilled'
  <2> DEFINE old == held["receiver"]["send"]
  <2>1. r \in 1 .. 4 => old \in Objects
    BY DEF ShmInv, ReceiverHolds, Objects, None, Names, Sems
  <2>2. r \in 1 .. 4 /\ ~Same("send")' => ~Same("send") /\ count'["send"][old] = count["send"][old]
    BY <1>1, <1>3, <1>9, <2>1 DEF Same, Sems, Objects, None
  <2> QED
    BY <1>1, <1>3, <1>4, <1>5, <1>9, <2>2 DEF ShmInv, NotKilled, Turns
<1>11. NotEarly'
  BY <1>1, <1>3, <1>4, <1>5, <1>9 DEF ShmInv, NotEarly, ReceiverHolds, Turns, Same
<1>12. InOrder'
  <2> SUFFICES ASSUME trouble = {} PROVE InOrder'
    BY <1>4 DEF InOrder
  <2>1. ~Ended("sender") /\ ~Ended("sender")' /\ (Ended("receiver")' <=> Ended("receiver"))
    BY <1>2, <1>4 DEF Ended
  <2>2. r \in 1 .. 8 => Same("send") /\ named["send"] # None
    BY <1>1, <2>1 DEF ShmInv, InOrder, ReceiverHolds, Same
  <2>3. r \in 1 .. 8 => Same("send")'
    BY <1>1, <1>3, <1>9, <2>2 DEF Same
  <2> QED
    BY <1>1, <1>2, <1>4, <2>1, <2>3 DEF ShmInv, InOrder
<1> QED
  BY <1>6, <1>7, <1>8, <1>10, <1>11, <1>12 DEF ShmInv

LEMMA ReceiverOpens ==
  ASSUME ShmInv, NEW n \in Names, Open("receiver", n)
  PROVE  ShmInv'
<1> USE ValuesAreNumbers DEF Procs
<1>1. (n = "send" /\ r = 0) \/ (n = "rec" /\ r = 1) \/ (n = "shm" /\ r = 2)
  BY ReceiverAt DEF Open, ShmInv
<1>2. "receiver" \in running
  BY ReceiverAt DEF Open, ShmInv
<1>3. /\ named' \in [Names -> 0 .. 3] /\ held' \in [Procs -> [Names -> 0 .. 3]]
      /\ count' \in [Sems -> [Objects -> Nat]] /\ mem' \in [Objects -> Texts]
      /\ held'["receiver"][n] = named'[n] /\ named'[n] \in Objects
      /\ \A m \in Names \ {n} : named'[m] = named[m] /\ held'["receiver"][m] = held["receiver"][m]
      /\ held'["sender"] = held["sender"]
      /\ named[n] # None => UNCHANGED <<named, count, mem>>
      /\ named[n] = None => held["sender"][n] # named'[n]
      /\ \A m \in Sems : Value(m)' = IF m = n /\ named[n] = None THEN FirstValue(n) ELSE Value(m)
      /\ \A m \in Sems, o \in Objects : m # n \/ o # named'[n] => count'[m][o] = count[m][o]
      /\ n # "shm" => mem' = mem
      /\ UNCHANGED <<said, heard>> /\ Advance("receiver")
  BY Opened DEF ShmInv
<1>4. /\ pc' \in [Procs -> 0 .. 14] /\ \A q \in Procs \ running' : pc'[q] = 0
      /\ s' = s /\ r' = r + 1 /\ r' <= 10
      /\ UNCHANGED <<running, started, trouble>>
  BY <1>1, <1>2, <1>3, ReceiverGoesOn DEF ShmInv
<1>5. /\ Turn("receiver") = 0 /\ Turn("receiver")' = 0 /\ Turn("sender")' = Turn("sender")
      /\ ~Inside("receiver")' /\ (Turn("sender") = 1 => s \in {5, 6, 8, 9})
  BY <1>1, <1>4 DEF Turn, Inside, s, r
<1>6. ShmTypes'
  BY <1>3, <1>4 DEF ShmInv, ShmTypes
<1>7. SenderHolds'
  BY <1>1, <1>3, <1>4 DEF ShmInv, SenderHolds, Names, Sems, Objects, None
<1>8. ReceiverHolds'
  BY <1>1, <1>3, <1>4 DEF ShmInv, ReceiverHolds, Names, Sems, Objects, None
<1>9. /\ n = "send" => named'["rec"] = named["rec"] /\ named'["shm"] = named["shm"] /\ Value("rec")' = Value("rec")
      /\ n = "rec" => /\ named'["send"] = named["send"] /\ named'["shm"] = named["shm"] /\ Value("send")' = Value("send")
                      /\ held'["receiver"]["send"] = held["receiver"]["send"]
      /\ n = "shm" => /\ named'["send"] = named["send"] /\ named'["rec"] = named["rec"]
                      /\ Value("send")' = Value("send") /\ Value("rec")' = Value("rec")
                      /\ held'["receiver"]["send"] = held["receiver"]["send"]
                      /\ held'["receiver"]["rec"] = held["receiver"]["rec"]
      /\ n = "send" => Value("send")' = IF named["send"] = None THEN 0 ELSE Value("send")
      /\ n = "rec" => Value("rec")' = IF named["rec"] = None THEN 1 ELSE Value("rec")
      /\ named[n] # None => named' = named
      /\ named'[n] # None
  BY <1>3 DEF FirstValue, Names, Sems, Objects, None
<1>10. NotKilled'
  <2> DEFINE old == held["receiver"]["send"]
  <2>1. r \in 1 .. 4 => old \in Objects
    BY DEF ShmInv, ReceiverHolds, Objects, None, Names, Sems
  <2>2. n = "send" => Same("send")'
    BY <1>3 DEF Same
  <2>3. n # "send" => (Same("send")' <=> Same("send")) /\ count'["send"][old] = count["send"][old]
    BY <1>1, <1>3, <1>9, <2>1 DEF Same, Sems
  <2>4. n # "send" => held'["receiver"]["send"] = old
    BY <1>1, <1>9
  <2> QED
    BY <1>1, <1>3, <1>4, <1>5, <1>9, <2>2, <2>3, <2>4 DEF ShmInv, NotKilled, SenderHolds, Turns
<1>11. NotEarly'
  BY <1>1, <1>2, <1>3, <1>4, <1>5, <1>9 DEF ShmInv, NotEarly, SenderHolds, ReceiverHolds, Turns, Same
<1>12. InOrder'
  BY <1>1, <1>2, <1>3, <1>4, <1>5, <1>9 DEF ShmInv, InOrder, NotEarly, SenderHolds, Same, Ended
<1> QED
  BY <1>6, <1>7, <1>8, <1>10, <1>11, <1>12 DEF ShmInv
-----------------------------------------------------------------------------
LEMMA InitShmInv == Init => ShmInv
<1> SUFFICES ASSUME Init PROVE ShmInv
  OBVIOUS
<1>1. s = 0 /\ r = 0
  BY DEF Init, s, r, Procs
<1>2. Turn("sender") = 0 /\ Turn("receiver") = 0 /\ ~Inside("receiver")
  BY <1>1 DEF Turn, Inside, s, r
<1>3. Value("send") = 0 /\ Value("rec") = 0
  BY DEF Init, Value, Names, Sems, None
<1>4. ShmTypes
  <2>0. 0 \in 0 .. 3 /\ 0 \in 0 .. 14 /\ None = 0
    BY DEF None
  <2>1. held \in [Procs -> [Names -> 0 .. 3]] /\ named \in [Names -> 0 .. 3]
    <3>1. held = [p \in Procs |-> [n \in Names |-> None]] /\ named = [n \in Names |-> None]
      BY DEF Init
    <3> QED
      BY <2>0, <3>1
  <2>2. count \in [Sems -> [Objects -> Nat]]
    BY DEF Init
  <2>3. mem \in [Objects -> Texts] /\ said \in Texts /\ heard \in Texts
    BY DEF Init, Texts
  <2>4. pc \in [Procs -> 0 .. 14] /\ \A p \in Procs \ running : pc[p] = 0
    <3>1. pc = [p \in Procs |-> 0]
      BY DEF Init
    <3> QED
      BY <2>0, <3>1
  <2>5. running \subseteq started /\ started \subseteq Procs /\ (running = {} => started = {}) /\ trouble \subseteq {"early", "killed"}
    BY DEF Init
  <2>6. r <= 10
    BY <1>1
  <2> QED
    BY <2>1, <2>2, <2>3, <2>4, <2>5, <2>6 DEF ShmTypes
<1>5. SenderHolds /\ ReceiverHolds
  BY <1>1 DEF SenderHolds, ReceiverHolds
<1>6. NotKilled /\ NotEarly
  BY <1>1, <1>2, <1>3 DEF NotKilled, NotEarly, Turns
<1>7. InOrder
  <2>1. ~Ended("sender") /\ ~Ended("receiver") /\ \A n \in Names : named[n] = None
    BY DEF Init, Ended
  <2> QED
    BY <1>1, <2>1 DEF InOrder
<1> QED
  BY <1>4, <1>5, <1>6, <1>7 DEF ShmInv

(* The calls each program makes are those of its list.                     *)
LEMMA SenderStep ==
  ASSUME ShmInv, Sender
  PROVE  ShmInv'
<1>1. CASE \E n \in Names : Open("sender", n)
  BY <1>1, SenderOpens
<1>2. CASE \E n \in Names : Unlink("sender", n)
  BY <1>2, SenderUnlinks, SenderUnlinksMemory DEF Names
<1>3. CASE \E n \in Sems : Wait("sender", n)
  BY <1>3, SenderWaits
<1>4. CASE \E n \in Sems : Post("sender", n)
  BY <1>4, SenderPosts
<1>5. CASE Attach("sender")
  BY <1>5, SenderAttaches
<1>6. CASE Close("sender")
  BY <1>6, SenderCloses
<1>7. CASE Detach("sender")
  BY <1>7, SenderDetaches
<1>8. CASE Segfault("sender")
  BY <1>8, ProcessFaults DEF Procs
<1>9. CASE Final
  BY <1>9, SenderReads
<1> QED
  BY <1>1, <1>2, <1>3, <1>4, <1>5, <1>6, <1>7, <1>8, <1>9 DEF Sender, Step

LEMMA ReceiverStep ==
  ASSUME ShmInv, Receiver
  PROVE  ShmInv'
<1>1. CASE \E n \in Names : Open("receiver", n)
  BY <1>1, ReceiverOpens
<1>2. CASE \E n \in Names : Unlink("receiver", n)
  BY <1>2, ReceiverAt DEF Unlink, ShmInv
<1>3. CASE \E n \in Sems : Wait("receiver", n)
  BY <1>3, ReceiverWaits
<1>4. CASE \E n \in Sems : Post("receiver", n)
  BY <1>4, ReceiverPosts
<1>5. CASE Attach("receiver")
  BY <1>5, ReceiverAttaches
<1>6. CASE Close("receiver")
  BY <1>6, ReceiverCloses
<1>7. CASE Detach("receiver")
  BY <1>7, ReceiverDetaches
<1>8. CASE Segfault("receiver")
  BY <1>8, ProcessFaults DEF Procs
<1>9. CASE Hear
  BY <1>9, ReceiverHears
<1>10. CASE Answer
  BY <1>10, ReceiverAnswers
<1> QED
  BY <1>1, <1>2, <1>3, <1>4, <1>5, <1>6, <1>7, <1>8, <1>9, <1>10 DEF Receiver, Step

LEMMA NextShmInv == ShmInv /\ [Next]_vars => ShmInv'
<1> SUFFICES ASSUME ShmInv, [Next]_vars PROVE ShmInv'
  OBVIOUS
<1>1. CASE Sender
  BY <1>1, SenderStep
<1>2. CASE Receiver
  BY <1>2, ReceiverStep
<1>3. CASE Say
  BY <1>3, SenderSays
<1>4. CASE \E p \in Procs : Start(p)
  BY <1>4, ProcessStarts
<1>5. CASE \E p \in Procs : Killed(p)
  BY <1>5, ProcessIsKilled
<1>6. CASE UNCHANGED vars
  BY <1>6 DEF vars, ShmInv, ShmTypes, SenderHolds, ReceiverHolds, NotKilled, NotEarly, InOrder,
              Turns, Turn, Inside, Value, Same, Ended, s, r
<1> QED
  BY <1>1, <1>2, <1>3, <1>4, <1>5, <1>6 DEF Next

LEMMA ShmInvAlways == Spec => []ShmInv
BY InitShmInv, NextShmInv, PTL DEF Spec
-----------------------------------------------------------------------------
(* However often the programs are started, killed or started too early,    *)
(* but for both troubles together, they never use one memory at a time.    *)
THEOREM UseStaysExclusive == Spec => []ExclusiveUse
<1>1. ASSUME ShmInv, trouble # {"early", "killed"}, Inside("sender"), Inside("receiver")
      PROVE  FALSE
  <2>1. Turns <= 1
    BY <1>1 DEF ShmInv, ShmTypes, NotKilled, NotEarly
  <2>2. Turn("sender") = 1 /\ Turn("receiver") = 1
    BY <1>1 DEF Turn
  <2>3. Value("send") \in Nat /\ Value("rec") \in Nat
    BY <1>1, ValuesAreNumbers DEF ShmInv
  <2> QED
    BY <2>1, <2>2, <2>3 DEF Turns
<1>2. ShmInv => ExclusiveUse
  BY <1>1 DEF ExclusiveUse
<1> QED
  BY <1>2, ShmInvAlways, PTL

(* Used as meant, the sender prints the receiver's answer to the word it   *)
(* has said, for any words and any schedule.                               *)
THEOREM AnswersAreHeard == Spec => []AnswerIsHeard
<1>1. ASSUME ShmInv, trouble = {}, At("sender", "final", "shm")
      PROVE  mem[held["sender"]["shm"]] = "over" /\ heard = said
  <2>1. s = 8
    BY <1>1, SenderAt DEF ShmInv
  <2>2. r = 8
    BY <1>1, <2>1 DEF ShmInv, NotKilled
  <2> QED
    BY <1>1, <2>1, <2>2 DEF ShmInv, InOrder, SenderHolds
<1>2. ShmInv => AnswerIsHeard
  BY <1>1 DEF AnswerIsHeard
<1> QED
  BY <1>2, ShmInvAlways, PTL

(* Used as meant, the programs leave no name behind.                       *)
THEOREM NothingIsLeft == Spec => []NothingLeft
<1>1. ShmInv => NothingLeft
  BY DEF ShmInv, InOrder, NothingLeft
<1> QED
  BY <1>1, ShmInvAlways, PTL

(* Whatever happens to the processes, a name is there when it is removed.  *)
THEOREM CallsAlwaysSucceed == Spec => []CallsSucceed
<1>1. ASSUME ShmInv, NEW p \in Procs, NEW n \in Names, At(p, "unlink", n)
      PROVE  named[n] # None
  <2>1. p = "sender"
    BY <1>1, ReceiverAt DEF ShmInv, Procs
  <2>2. (n = "send" /\ s = 11) \/ (n = "rec" /\ s = 12) \/ (n = "shm" /\ s = 14)
    BY <1>1, <2>1, SenderAt DEF ShmInv
  <2> QED
    BY <1>1, <2>2 DEF ShmInv, SenderHolds
<1>2. ShmInv => CallsSucceed
  BY <1>1 DEF CallsSucceed
<1> QED
  BY <1>2, ShmInvAlways, PTL
=============================================================================

--------------------------- MODULE MsgQueueProofs ---------------------------
(***************************************************************************)
(* MsgQueue, for any set of words and any contents of a queue that others  *)
(* use: alone with its queue, the program's threads never fail and take    *)
(* turns.  The invariant follows two tokens.  The      *)
(* first goes round, rec -> sender -> send -> receiver -> rec, and with it *)
(* the message; the second appears with the answer, goes point -> sender   *)
(* -> send -> receiver and disappears.  One semaphore, send, carries both. *)
(***************************************************************************)
EXTENDS MsgQueue, TLAPS

Sending    == sPc \in {"type", "msgsnd", "post"}
Receiving  == rPc \in {"msgrcv", "post"}
HeardEnd   == rPc \in {"msgsnd", "point", "last", "done"}
Answered   == sPc \in {"msgrcv", "reply", "check", "done"}
SendIsTurn == sPc \notin {"check", "done"}      \* send carries the first token

(* The first token is in one place. *)
TurnToken ==
  /\ rec = 1 => ~Sending /\ ~Receiving /\ (SendIsTurn => send = 0)
  /\ Sending => ~Receiving /\ send = 0
  /\ Receiving => send = 0
  /\ SendIsTurn => rec = 1 \/ Sending \/ send = 1 \/ Receiving
  /\ HeardEnd => rec = 1 /\ sPc \in {"point", "msgrcv", "reply", "check", "done"}

(* The second token is there once the receiver has answered, and then in   *)
(* one place, until the receiver's last wait.                              *)
AnswerToken ==
  /\ point = 1 <=> rPc = "last" /\ sPc = "point"
  /\ sPc \in {"msgrcv", "reply"} => rPc = "last"
  /\ sPc \in {"check", "done"} => rPc \in {"last", "done"} /\ (send = 1 <=> rPc = "last")
  /\ rPc = "done" => sPc \in {"check", "done"}

(* The queue holds the message whose turn it is, or the answer.            *)
Carried ==
  queue = IF HeardEnd
          THEN IF rPc = "msgsnd" \/ sPc \in {"reply", "check", "done"} THEN <<>> ELSE <<"over">>
          ELSE IF rPc = "msgrcv" \/ sPc = "post" \/ send = 1 THEN <<sMsg>> ELSE <<>>

(* What the threads remember fits: who waits for the answer has said "end".*)
Remembered ==
  /\ sPc = "msgsnd" => sMsg \in Words \cup {"end"}
  /\ sPc = "point" => sMsg = "end"
  /\ sPc = "point" /\ rec = 1 => HeardEnd
  /\ sPc = "wait" /\ rec = 0 => sMsg # "end"
  /\ rPc = "post" => rMsg = sMsg
  /\ sPc \in {"reply", "check", "done"} => sMsg = "over"

IInv ==
  /\ alone
  /\ TypeOK
  /\ NeverFails
  /\ exists <=> sPc # "done"
  /\ TurnToken
  /\ AnswerToken
  /\ Carried
  /\ Remembered

Inv == alone => IInv
-----------------------------------------------------------------------------
(* A queue of one message, put in and taken out. *)
LEMMA OneMessage ==
  ASSUME NEW m
  PROVE  /\ Append(<<>>, m) = <<m>>
         /\ Head(<<m>>) = m
         /\ Tail(<<m>>) = <<>>
         /\ <<m>> # <<>>
OBVIOUS

LEMMA InitIInv == alone /\ Init => IInv
BY DEF Init, IInv, TypeOK, NeverFails, TurnToken, AnswerToken, Carried, Remembered,
       Sending, Receiving, HeardEnd, SendIsTurn, Msgs

LEMMA TypeIInv ==
  ASSUME IInv, Type, UNCHANGED alone PROVE IInv'
BY DEF Type, receiver, sems, IInv, TypeOK, NeverFails, TurnToken, AnswerToken, Carried, Remembered,
       Sending, Receiving, HeardEnd, SendIsTurn, Msgs, Typed

LEMMA SenderIInv ==
  ASSUME IInv, Sender, UNCHANGED alone PROVE IInv'
<1> USE DEF IInv, TypeOK, NeverFails, TurnToken, AnswerToken, Carried, Remembered,
            Sending, Receiving, HeardEnd, SendIsTurn, receiver, sems
<1>1. CASE SendWait
  BY <1>1 DEF SendWait
<1>2. CASE Send
  BY <1>2, OneMessage DEF Send
<1>3. CASE SendPost
  BY <1>3 DEF SendPost
<1>4. CASE AnswerWait
  BY <1>4 DEF AnswerWait
<1>5. CASE AnswerReceive
  BY <1>5, OneMessage DEF AnswerReceive, Msgs
<1>6. CASE AnswerPost
  BY <1>6 DEF AnswerPost
<1>7. CASE AnswerCheck
  BY <1>7 DEF AnswerCheck, Fail
<1>8. CASE SenderFails
  BY <1>8 DEF SenderFails
<1> QED
  BY <1>1, <1>2, <1>3, <1>4, <1>5, <1>6, <1>7, <1>8 DEF Sender

LEMMA ReceiverIInv ==
  ASSUME IInv, Receiver, UNCHANGED alone PROVE IInv'
<1> USE DEF IInv, TypeOK, NeverFails, TurnToken, AnswerToken, Carried, Remembered,
            Sending, Receiving, HeardEnd, SendIsTurn, sender, sems
<1>1. CASE ReceiveWait
  BY <1>1 DEF ReceiveWait
<1>2. CASE Receive
  BY <1>2, OneMessage DEF Receive
<1>3. CASE ReceivePost
  BY <1>3 DEF ReceivePost
<1>4. CASE Reply
  BY <1>4, OneMessage DEF Reply, Msgs
<1>5. CASE ReplyPost
  BY <1>5 DEF ReplyPost
<1>6. CASE LastWait
  BY <1>6 DEF LastWait
<1>7. CASE ReceiverFails
  BY <1>7 DEF ReceiverFails
<1> QED
  BY <1>1, <1>2, <1>3, <1>4, <1>5, <1>6, <1>7 DEF Receiver

LEMMA NextIInv ==
  ASSUME IInv, [Next]_vars PROVE IInv'
<1>1. CASE Joined \/ Others \/ UNCHANGED vars
  <2>1. UNCHANGED vars
    BY <1>1 DEF Joined, Others
  <2>2. UNCHANGED <<TypeOK, NeverFails, TurnToken, AnswerToken, Carried, Remembered>>
    BY <2>1 DEF vars, TypeOK, NeverFails, TurnToken, AnswerToken, Carried, Remembered,
                Sending, Receiving, HeardEnd, SendIsTurn
  <2>3. exists' = exists /\ sPc' = sPc /\ alone' = alone
    BY <2>1 DEF vars
  <2> QED
    BY <2>2, <2>3 DEF IInv
<1>2. ~Removed
  BY DEF IInv, Removed
<1> QED
  BY <1>1, <1>2, TypeIInv, SenderIInv, ReceiverIInv DEF Next

LEMMA InvAlways == Spec => []Inv
<1>1. Init => Inv
  BY InitIInv DEF Inv
<1>2. Inv /\ [Next]_vars => Inv'
  <2>1. [Next]_vars => alone' = alone
    BY DEF Next, vars
  <2> QED
    BY <2>1, NextIInv DEF Inv
<1> QED
  BY <1>1, <1>2, PTL DEF Spec

(* However the threads are scheduled and whatever is typed, no call on the *)
(* queue fails and the answer is the one the sender waits for.             *)
THEOREM NoThreadFails == Spec => []NeverFails
<1>1. Inv => NeverFails
  BY DEF Inv, IInv, NeverFails
<1> QED
  BY <1>1, InvAlways, PTL
-----------------------------------------------------------------------------
(* The calls that pass a message on are the steps of Dialogue; the others  *)
(* leave the turn and the word as they are.                                *)
LEMMA TypeTurns ==
  ASSUME IInv, Type, UNCHANGED alone PROVE UNCHANGED <<TheTurn, TheWord>>
BY DEF Type, receiver, sems, TheTurn, TheWord, heardEnd, answered, IInv, TurnToken, Sending, HeardEnd

LEMMA SenderTurns ==
  ASSUME IInv, Sender, UNCHANGED alone
  PROVE  D!Say \/ D!Answer \/ UNCHANGED <<TheTurn, TheWord>>
<1> USE DEF IInv, TypeOK, NeverFails, TurnToken, AnswerToken, Carried, Remembered, Sending,
            Receiving, HeardEnd, SendIsTurn, receiver, sems, TheTurn, TheWord, heardEnd, answered
<1>1. CASE SendWait
  BY <1>1 DEF SendWait
<1>2. CASE Send
  <2>1. TheTurn = "say" /\ TheTurn' = "hear" /\ TheWord' = sMsg
    BY <1>2, OneMessage DEF Send
  <2>2. sMsg \in Words \cup {"end"}
    BY <1>2 DEF Send
  <2> QED
    BY <2>1, <2>2 DEF D!Say
<1>3. CASE SendPost
  BY <1>3 DEF SendPost
<1>4. CASE AnswerWait
  BY <1>4 DEF AnswerWait
<1>5. CASE AnswerReceive
  BY <1>5, OneMessage DEF AnswerReceive, D!Answer
<1>6. CASE AnswerPost
  BY <1>6 DEF AnswerPost
<1>7. CASE AnswerCheck
  BY <1>7 DEF AnswerCheck, Fail
<1>8. CASE SenderFails
  BY <1>8 DEF SenderFails
<1> QED
  BY <1>1, <1>2, <1>3, <1>4, <1>5, <1>6, <1>7, <1>8 DEF Sender

LEMMA ReceiverTurns ==
  ASSUME IInv, Receiver, UNCHANGED alone
  PROVE  D!Hear \/ UNCHANGED <<TheTurn, TheWord>>
<1> USE DEF IInv, TypeOK, NeverFails, TurnToken, AnswerToken, Carried, Remembered, Sending,
            Receiving, HeardEnd, SendIsTurn, sender, sems, TheTurn, TheWord, heardEnd, answered
<1>1. CASE ReceiveWait
  BY <1>1 DEF ReceiveWait
<1>2. CASE Receive
  BY <1>2, OneMessage DEF Receive, D!Hear
<1>3. CASE ReceivePost
  BY <1>3 DEF ReceivePost
<1>4. CASE Reply
  BY <1>4, OneMessage DEF Reply
<1>5. CASE ReplyPost
  BY <1>5 DEF ReplyPost
<1>6. CASE LastWait
  BY <1>6 DEF LastWait
<1>7. CASE ReceiverFails
  BY <1>7 DEF ReceiverFails
<1> QED
  BY <1>1, <1>2, <1>3, <1>4, <1>5, <1>6, <1>7 DEF Receiver

(* The program implements Dialogue: every word is heard once, before the   *)
(* next is said, and the last one is answered.                             *)
THEOREM ThreadsTalkInTurn == Spec => TalksInTurn
<1>1. Init => D!Init
  BY DEF Init, D!Init, TheTurn, TheWord, heardEnd, answered
<1>2. Inv /\ [Next]_vars => [D!Next]_(D!vars)
  <2>0. [Next]_vars => alone' = alone
    BY DEF Next, vars
  <2>6. CASE ~alone
    BY <2>0, <2>6 DEF D!vars, TheTurn, TheWord
  <2>7. SUFFICES ASSUME IInv, [Next]_vars PROVE [D!Next]_(D!vars)
    BY <2>6 DEF Inv
  <2>1. CASE Joined \/ Others \/ UNCHANGED vars
    BY <2>1 DEF Joined, Others, vars, D!vars, TheTurn, TheWord, heardEnd, answered
  <2>2. ~Removed
    BY <2>7 DEF IInv, Removed
  <2>3. CASE Type
    BY <2>0, <2>7, <2>3, TypeTurns DEF D!vars
  <2>4. CASE Sender
    BY <2>0, <2>7, <2>4, SenderTurns DEF D!vars, D!Next
  <2>5. CASE Receiver
    BY <2>0, <2>7, <2>5, ReceiverTurns DEF D!vars, D!Next
  <2> QED
    BY <2>7, <2>1, <2>2, <2>3, <2>4, <2>5 DEF Next
<1> QED
  BY <1>1, <1>2, InvAlways, PTL DEF Spec, TalksInTurn, D!Spec
-----------------------------------------------------------------------------
(* Whoever else uses the queue.  The semaphores are only this program's:   *)
(* they still count how far its threads are, and so how many messages they *)
(* can have added.                                                         *)

One(condition) == IF condition THEN 1 ELSE 0

Running == sPc # "failed" /\ rPc # "failed"

(* One token in rec and send, and the one that goes with the answer.       *)
TurnCount ==
  rec + One(Sending) + send + One(Receiving) = 1 + One(sPc \in {"check", "done"}) - One(rPc = "done")

PointCount == point = One(rPc \in {"last", "done"}) - One(Answered)

(* A message added is in the queue until its token's taker has taken one;  *)
(* who takes the last token takes no message.                              *)
Added ==
  One(sPc = "post") + send + One(rPc \in {"msgrcv", "done"})
    + One(rPc \in {"point", "last", "done"}) - One(sPc \in {"reply", "check", "done"})

Bounded(n) == Len(queue) <= n + (IF Running THEN Added ELSE 2)

CountInv ==
  /\ sPc \in {"wait", "type", "msgsnd", "post", "point", "msgrcv", "reply", "check",
              "done", "failed"}
  /\ rPc \in {"wait", "msgrcv", "post", "msgsnd", "point", "last", "done", "failed"}
  /\ sMsg \in Msgs /\ rMsg \in Msgs
  /\ send \in Nat /\ rec \in Nat /\ point \in Nat /\ queue \in Seq(Msgs)
  /\ sPc = "failed" <=> rPc = "failed"
  /\ Running => TurnCount /\ PointCount

Places == {Len(q) : q \in Leftovers \cup {<<>>}}

LEMMA PlacesAreNumbers == Places \subseteq Nat
BY QueueAssumption DEF Places

LEMMA OneMore ==
  ASSUME NEW q \in Seq(Msgs), NEW m \in Msgs
  PROVE  /\ Append(q, m) \in Seq(Msgs) /\ Len(Append(q, m)) = Len(q) + 1
         /\ q # <<>> => /\ Head(q) \in Msgs /\ Tail(q) \in Seq(Msgs)
                        /\ Len(Tail(q)) = Len(q) - 1
         /\ Len(q) \in Nat
OBVIOUS

LEMMA EmptyIsSequence == <<>> \in Seq(Msgs) /\ Len(<<>>) = 0
OBVIOUS

(* A process that fails leaves the queue no fuller than it may be. *)
LEMMA AddedIsTwo ==
  ASSUME CountInv, Running PROVE Added \in 0 .. 2
BY DEF CountInv, Running, TurnCount, PointCount, Added, One, Sending, Receiving, Answered

LEMMA FailCounts ==
  ASSUME CountInv, Running, Fail, NEW n \in Nat, Bounded(n) PROVE CountInv' /\ Bounded(n)'
<1>1. Len(queue) \in Nat
  BY OneMore DEF CountInv
<1>2. Len(queue) <= n + 2
  BY <1>1, AddedIsTwo DEF Bounded
<1> QED
  BY <1>2 DEF Fail, CountInv, Running, Bounded, sems

LEMMA SenderCounts ==
  ASSUME CountInv, Type \/ Sender, NEW n \in Nat, Bounded(n) PROVE CountInv' /\ Bounded(n)'
<1> USE DEF CountInv, Running, TurnCount, PointCount, Bounded, Added, One, Sending, Receiving,
            Answered, receiver, sems
<1>0. CASE Type
  BY <1>0 DEF Type, Typed, Msgs
<1>1. CASE SendWait
  BY <1>1 DEF SendWait
<1>2. CASE Send
  BY <1>2, OneMore DEF Send
<1>3. CASE SendPost
  BY <1>3 DEF SendPost
<1>4. CASE AnswerWait
  BY <1>4 DEF AnswerWait
<1>5. CASE AnswerReceive
  BY <1>5, OneMore DEF AnswerReceive
<1>6. CASE AnswerPost
  BY <1>6 DEF AnswerPost
<1>7. CASE AnswerCheck
  <2>1. CASE Fail
    BY <1>7, <2>1, FailCounts DEF AnswerCheck
  <2>2. CASE ~Fail
    <3>1. /\ sPc = "check" /\ sPc' = "done" /\ queue' = <<>>
          /\ UNCHANGED <<sMsg, receiver, sems>>
      BY <1>7, <2>2 DEF AnswerCheck
    <3>2. CountInv'
      BY <3>1, EmptyIsSequence
    <3>3. Running' /\ Added' \in Nat
      BY <3>1, <3>2
    <3>4. Len(queue') = 0
      BY <3>1, EmptyIsSequence
    <3> HIDE DEF Added, CountInv, Running, Bounded
    <3>5. Bounded(n)'
      <4>1. (IF Running THEN Added ELSE 2)' = Added'
        BY <3>3
      <4>2. \A a \in Nat : 0 <= n + a
        OBVIOUS
      <4> QED
        BY <3>3, <3>4, <4>1, <4>2 DEF Bounded
    <3> QED
      BY <3>2, <3>5
  <2> QED
    BY <2>1, <2>2
<1>8. CASE SenderFails
  BY <1>8, FailCounts DEF SenderFails
<1> QED
  BY <1>0, <1>1, <1>2, <1>3, <1>4, <1>5, <1>6, <1>7, <1>8 DEF Sender

LEMMA ReceiverCounts ==
  ASSUME CountInv, Receiver, NEW n \in Nat, Bounded(n) PROVE CountInv' /\ Bounded(n)'
<1> USE DEF CountInv, Running, TurnCount, PointCount, Bounded, Added, One, Sending, Receiving,
            Answered, sender, sems
<1>1. CASE ReceiveWait
  BY <1>1 DEF ReceiveWait
<1>2. CASE Receive
  BY <1>2, OneMore DEF Receive
<1>3. CASE ReceivePost
  BY <1>3 DEF ReceivePost
<1>4. CASE Reply
  BY <1>4, OneMore DEF Reply, Msgs
<1>5. CASE ReplyPost
  BY <1>5 DEF ReplyPost
<1>6. CASE LastWait
  BY <1>6 DEF LastWait
<1>7. CASE ReceiverFails
  BY <1>7, FailCounts DEF ReceiverFails
<1> QED
  BY <1>1, <1>2, <1>3, <1>4, <1>5, <1>6, <1>7 DEF Receiver

LEMMA NextCounts ==
  ASSUME CountInv, [Next]_vars, NEW n \in Nat, Bounded(n) PROVE CountInv' /\ Bounded(n)'
<1>1. CASE Joined \/ Others \/ UNCHANGED vars
  BY <1>1 DEF Joined, Others, vars, CountInv, Running, TurnCount, PointCount, Bounded, Added,
              Sending, Receiving, Answered
<1>2. CASE Removed
  <2>1. UNCHANGED <<sender, receiver, sems>> /\ queue' = <<>>
    BY <1>2 DEF Removed
  <2>2. CountInv'
    BY <2>1, EmptyIsSequence
       DEF CountInv, Running, TurnCount, PointCount, Sending, Receiving, Answered, sender,
           receiver, sems
  <2>3. Added' = Added /\ Running' = Running /\ Len(queue') = 0
    BY <2>1, EmptyIsSequence DEF Running, Added, sender, receiver, sems
  <2>4. Running => Added \in 0 .. 2
    BY AddedIsTwo
  <2> QED
    BY <2>2, <2>3, <2>4 DEF Bounded
<1> QED
  BY <1>1, <1>2, SenderCounts, ReceiverCounts DEF Next

InvOfAll == CountInv /\ \E n \in Places : Bounded(n)

LEMMA InvOfAllAlways == Spec => []InvOfAll
<1>1. Init => InvOfAll
  <2> SUFFICES ASSUME Init PROVE InvOfAll
    OBVIOUS
  <2>1. queue \in Leftovers \cup {<<>>} /\ queue \in Seq(Msgs)
    BY QueueAssumption, EmptyIsSequence DEF Init
  <2>2. Len(queue) \in Places /\ Len(queue) \in Nat
    BY <2>1, OneMore DEF Places
  <2>3. CountInv
    BY <2>1 DEF Init, CountInv, Running, TurnCount, PointCount, One, Sending, Receiving,
                Answered, Msgs
  <2>4. Bounded(Len(queue))
    BY <2>2 DEF Init, Bounded, Running, Added, One
  <2> QED
    BY <2>2, <2>3, <2>4 DEF InvOfAll
<1>2. InvOfAll /\ [Next]_vars => InvOfAll'
  BY NextCounts, PlacesAreNumbers DEF InvOfAll
<1> QED
  BY <1>1, <1>2, PTL DEF Spec

(* Whatever was in the queue and whoever else uses it, the threads add two *)
(* messages at most, so that a send never waits for room.                  *)
THEOREM QueueStaysBounded == Spec => []QueueBounded
<1>1. InvOfAll => QueueBounded
  <2> SUFFICES ASSUME CountInv, NEW q \in Leftovers \cup {<<>>}, Bounded(Len(q))
               PROVE  Len(queue) <= Len(q) + 2
    BY DEF InvOfAll, Places, QueueBounded
  <2>1. Len(q) \in Nat /\ Len(queue) \in Nat
    BY QueueAssumption, OneMore DEF CountInv
  <2> QED
    BY <2>1, AddedIsTwo DEF Bounded
<1> QED
  BY <1>1, InvOfAllAlways, PTL

(* Whatever was in the queue and whoever else uses it, the sender comes to *)
(* its normal end only after the receiver has heard an "end".              *)
THEOREM EndIsHeard == Spec => []EndHeard
<1>1. InvOfAll => EndHeard
  BY DEF InvOfAll, CountInv, Running, PointCount, One, Answered, EndHeard
<1> QED
  BY <1>1, InvOfAllAlways, PTL
=============================================================================

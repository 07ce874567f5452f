------------------------------ MODULE MsgQueue ------------------------------
(***************************************************************************)
(* exam4/4/msgqueue.c: a sender and a receiver thread of one process, a    *)
(* System V message queue that carries words one way and the answer back,  *)
(* and three semaphores.  Every message has the same type.  The threads    *)
(* leave by exit(1), together, when a call on the queue fails.             *)
(*                                                                         *)
(* The queue is the system's, found by its KEY.  Either the program is     *)
(* alone with it; or it may hold what a process left in it that was        *)
(* killed, and another run of the program uses, and in the end removes,    *)
(* the same one.                                                           *)
(***************************************************************************)
EXTENDS Integers, Sequences

CONSTANTS
  Words,        \* the words the user types, other than "exit" and "end"
  Leftovers     \* what may be in a queue that the program is not alone with

Typed == Words \cup {"exit", "end"}
Msgs  == Words \cup {"end", "over"}

ASSUME WordsAssumption == Words \subseteq STRING \ {"exit", "end"}
ASSUME QueueAssumption == Leftovers \subseteq Seq(Msgs)

VARIABLES
  alone,              \* the queue is new, and nobody else uses it
  sPc, rPc,           \* where the threads are: the call that comes next
  sMsg, rMsg,         \* their buffers
  send, rec, point,   \* the semaphores
  queue,              \* the messages in the queue
  exists              \* the queue has not been removed

sender   == <<sPc, sMsg>>
receiver == <<rPc, rMsg>>
sems     == <<send, rec, point>>
vars == <<alone, sPc, rPc, sMsg, rMsg, send, rec, point, queue, exists>>

(* main and init. *)
Init ==
  /\ sPc = "wait" /\ rPc = "wait"
  /\ sMsg = "end" /\ rMsg = "end"     \* nothing yet: never read before it is set
  /\ send = 0 /\ rec = 1 /\ point = 0
  /\ alone \in BOOLEAN
  /\ queue \in IF alone THEN {<<>>} ELSE Leftovers
  /\ exists = TRUE

(* exit(1): the process ends, the queue stays. *)
Fail ==
  /\ sPc' = "failed" /\ rPc' = "failed"
  /\ UNCHANGED <<sMsg, rMsg, sems, queue, exists>>
-----------------------------------------------------------------------------
(* The sender. *)

SendWait ==
  /\ sPc = "wait" /\ rec > 0
  /\ rec' = rec - 1
  /\ sPc' = "type"
  /\ UNCHANGED <<sMsg, receiver, send, point, queue, exists>>

Type ==
  /\ sPc = "type"
  /\ \E w \in Typed : sMsg' = IF w = "exit" THEN "end" ELSE w
  /\ sPc' = "msgsnd"
  /\ UNCHANGED <<receiver, sems, queue, exists>>

(* The queue has room for more messages than there ever are in it.         *)
Send ==
  /\ sPc = "msgsnd" /\ exists
  /\ queue' = Append(queue, sMsg)
  /\ sPc' = "post"
  /\ UNCHANGED <<sMsg, receiver, sems, exists>>

SendPostTwice ==      \* mutant: also lets itself go on
  /\ sPc = "post"
  /\ send' = send + 1
  /\ rec' = rec + 1
  /\ sPc' = IF sMsg = "end" THEN "point" ELSE "wait"
  /\ UNCHANGED <<sMsg, receiver, point, queue, exists>>

SendPost ==
  /\ sPc = "post"
  /\ send' = send + 1
  /\ sPc' = IF sMsg = "end" THEN "point" ELSE "wait"
  /\ UNCHANGED <<sMsg, receiver, rec, point, queue, exists>>

AnswerDontWait ==      \* mutant: does not wait for the answer
  /\ sPc = "point"
  /\ sPc' = "msgrcv"
  /\ UNCHANGED <<sMsg, receiver, sems, queue, exists>>

AnswerWait ==
  /\ sPc = "point" /\ point > 0
  /\ point' = point - 1
  /\ sPc' = "msgrcv"
  /\ UNCHANGED <<sMsg, receiver, send, rec, queue, exists>>

AnswerReceive ==
  /\ sPc = "msgrcv" /\ exists /\ queue # <<>>
  /\ sMsg' = Head(queue)
  /\ queue' = Tail(queue)
  /\ sPc' = "reply"
  /\ UNCHANGED <<receiver, sems, exists>>

AnswerForget ==      \* mutant: the receiver is not told
  /\ sPc = "reply"
  /\ sPc' = "check"
  /\ UNCHANGED <<sMsg, receiver, sems, queue, exists>>

AnswerPost ==
  /\ sPc = "reply"
  /\ send' = send + 1
  /\ sPc' = "check"
  /\ UNCHANGED <<sMsg, receiver, rec, point, queue, exists>>

(* "can't get received!" or the end of the queue. *)
AnswerCheck ==
  \/ /\ sPc = "check" /\ sMsg = "over" /\ exists
     /\ exists' = FALSE
     /\ queue' = <<>>
     /\ sPc' = "done"
     /\ UNCHANGED <<sMsg, receiver, sems>>
  \/ sPc = "check" /\ ~(sMsg = "over" /\ exists) /\ Fail

SenderFails == sPc \in {"msgsnd", "msgrcv"} /\ ~exists /\ Fail

Sender ==
  \/ SendWait \/ Send \/ SendPost \/ AnswerWait \/ AnswerReceive \/ AnswerPost
  \/ AnswerCheck \/ SenderFails
-----------------------------------------------------------------------------
(* The receiver. *)

ReceiveWait ==
  /\ rPc = "wait" /\ send > 0
  /\ send' = send - 1
  /\ rPc' = "msgrcv"
  /\ UNCHANGED <<sender, rMsg, rec, point, queue, exists>>

Receive ==
  /\ rPc = "msgrcv" /\ exists /\ queue # <<>>
  /\ rMsg' = Head(queue)
  /\ queue' = Tail(queue)
  /\ rPc' = "post"
  /\ UNCHANGED <<sender, sems, exists>>

ReceivePost ==
  /\ rPc = "post"
  /\ rec' = rec + 1
  /\ rPc' = IF rMsg = "end" THEN "msgsnd" ELSE "wait"
  /\ UNCHANGED <<sender, rMsg, send, point, queue, exists>>

Reply ==
  /\ rPc = "msgsnd" /\ exists
  /\ rMsg' = "over"
  /\ queue' = Append(queue, "over")
  /\ rPc' = "point"
  /\ UNCHANGED <<sender, sems, exists>>

ReplyPost ==
  /\ rPc = "point"
  /\ point' = point + 1
  /\ rPc' = "last"
  /\ UNCHANGED <<sender, rMsg, send, rec, queue, exists>>

LastWait ==
  /\ rPc = "last" /\ send > 0
  /\ send' = send - 1
  /\ rPc' = "done"
  /\ UNCHANGED <<sender, rMsg, rec, point, queue, exists>>

ReceiverFails == rPc \in {"msgsnd", "msgrcv"} /\ ~exists /\ Fail

Receiver ==
  \/ ReceiveWait \/ Receive \/ ReceivePost \/ Reply \/ ReplyPost \/ LastWait
  \/ ReceiverFails
-----------------------------------------------------------------------------
(* main has joined both threads. *)
Joined == sPc = "done" /\ rPc = "done" /\ UNCHANGED vars

(* Another run has come to its end; or goes on, whatever this one waits    *)
(* for: only alone with its queue it must never stop.                      *)
Others == ~alone /\ UNCHANGED vars

Removed ==
  /\ ~alone /\ exists
  /\ exists' = FALSE
  /\ queue' = <<>>
  /\ UNCHANGED <<sender, receiver, sems>>

Next ==
  /\ Type \/ Sender \/ Receiver \/ Joined \/ Others \/ Removed
  /\ UNCHANGED alone

Spec == Init /\ [][Next]_vars

(* The threads are scheduled; the user need not type.                      *)
FairSpec ==
  Spec /\ WF_vars(Sender /\ UNCHANGED alone) /\ WF_vars(Receiver /\ UNCHANGED alone)
-----------------------------------------------------------------------------
TypeOK ==
  /\ alone \in BOOLEAN
  /\ sPc \in {"wait", "type", "msgsnd", "post", "point", "msgrcv", "reply", "check",
              "done", "failed"}
  /\ rPc \in {"wait", "msgrcv", "post", "msgsnd", "point", "last", "done", "failed"}
  /\ sMsg \in Msgs /\ rMsg \in Msgs
  /\ send \in 0 .. 2 /\ rec \in 0 .. 1 /\ point \in 0 .. 1
  /\ queue \in Seq(Msgs)
  /\ exists \in BOOLEAN

(* Alone with the queue, no call fails and the answer is the one expected: *)
(* the threads never take each other's message, although all have one      *)
(* type, and the queue is removed when neither needs it any more.          *)
NeverFails == alone => sPc # "failed" /\ rPc # "failed"

(* Whatever was in the queue, the threads add two messages to it at most:  *)
(* it never fills up, so msgsnd never waits.                               *)
QueueBounded == \E q \in Leftovers \cup {<<>>} : Len(queue) <= Len(q) + 2

(* Whatever was in the queue, and whoever removes it: the sender comes to  *)
(* its normal end only after the receiver heard an "end".                  *)
EndHeard == sPc = "done" => rPc \in {"last", "done"}

(* Alone with the queue, the threads take turns; every word is received    *)
(* once, before the next is sent, and "end" is answered.                   *)
heardEnd == rPc \in {"msgsnd", "point", "last", "done"} \/ (rPc = "post" /\ rMsg = "end")
answered == sPc \in {"reply", "check", "done"}
TheTurn  == IF ~alone THEN "say"
            ELSE IF answered THEN "over"
            ELSE IF heardEnd THEN "answer"
            ELSE IF queue # <<>> THEN "hear" ELSE "say"
TheWord  == IF ~alone \/ heardEnd THEN "end"
            ELSE IF queue # <<>> THEN Head(queue)
            ELSE rMsg

D == INSTANCE Dialogue WITH Words <- Words \cup {"end"}, EndWord <- "end",
                            turn <- TheTurn, spoken <- TheWord
TalksInTurn == D!Spec

(* Alone with the queue, when the user has typed the last word both        *)
(* threads end, and the queue is gone: no semaphore is waited for in vain. *)
Terminates ==
  (alone /\ sPc = "msgsnd" /\ sMsg = "end") ~> (sPc = "done" /\ rPc = "done" /\ ~exists)
=============================================================================

------------------------------ MODULE ShmChat ------------------------------
(***************************************************************************)
(* exam4/5: sender.c and receive.c, two processes that exchange one word   *)
(* and one answer through shared memory, and common.c, which opens and     *)
(* removes what they share.                                                *)
(*                                                                         *)
(* Semaphores and memory are found by name (the memory by its key).  A     *)
(* name that is removed can be created anew while processes still use the  *)
(* old object: objects have numbers of their own.  The user may start      *)
(* either program again whenever it does not run; "trouble" records that   *)
(* it was started while its last partner still ran, or that a process was  *)
(* killed, and is only observed.                                           *)
(***************************************************************************)
EXTENDS Naturals, Sequences

CONSTANT Words    \* what the user types

ASSUME WordsAssumption == Words \subseteq STRING \ {"", "over"}

Procs == {"sender", "receiver"}
Sems  == {"send", "rec"}
Names == Sems \cup {"shm"}

None == 0

(* An object is named by its name or held by a process: three of a kind.   *)
Objects == 1 .. 3

(* What the programs do, call by call. *)
OpenAll == <<<<"open", "send">>, <<"open", "rec">>, <<"open", "shm">>, <<"attach", "shm">>>>

\* mutant: the name of one semaphore stays
SenderForgets ==
  OpenAll \o
  <<<<"wait", "rec">>, <<"say", "shm">>, <<"post", "send">>,
    <<"wait", "rec">>, <<"final", "shm">>, <<"post", "send">>,
    <<"close", "sems">>, <<"unlink", "send">>,
    <<"detach", "shm">>, <<"unlink", "shm">>>>

\* mutant: the receiver is not told that it may leave
SenderLeaves ==
  OpenAll \o
  <<<<"wait", "rec">>, <<"say", "shm">>, <<"post", "send">>,
    <<"wait", "rec">>, <<"final", "shm">>,
    <<"close", "sems">>, <<"unlink", "send">>, <<"unlink", "rec">>,
    <<"detach", "shm">>, <<"unlink", "shm">>>>

SenderMain ==
  OpenAll \o
  <<<<"wait", "rec">>, <<"say", "shm">>, <<"post", "send">>,
    <<"wait", "rec">>, <<"final", "shm">>, <<"post", "send">>,
    <<"close", "sems">>, <<"unlink", "send">>, <<"unlink", "rec">>,
    <<"detach", "shm">>, <<"unlink", "shm">>>>

\* mutant: the turn is given back before the answer is written
ReceiverPostsFirst ==
  OpenAll \o
  <<<<"wait", "send">>, <<"hear", "shm">>, <<"post", "rec">>, <<"answer", "shm">>,
    <<"wait", "send">>, <<"close", "sems">>, <<"detach", "shm">>>>

\* mutant: both remove the semaphores
ReceiverRemoves ==
  OpenAll \o
  <<<<"wait", "send">>, <<"hear", "shm">>, <<"answer", "shm">>, <<"post", "rec">>,
    <<"wait", "send">>, <<"close", "sems">>, <<"unlink", "send">>, <<"detach", "shm">>>>

ReceiverMain ==
  OpenAll \o
  <<<<"wait", "send">>, <<"hear", "shm">>, <<"answer", "shm">>, <<"post", "rec">>,
    <<"wait", "send">>, <<"close", "sems">>, <<"detach", "shm">>>>

\* mutant: both semaphores start at one
FirstOne(n) == 1

(* opensem gives "rec" one unit and "send" none; new memory is zero.       *)
FirstValue(n) == IF n = "rec" THEN 1 ELSE 0

VARIABLES
  pc,        \* how many calls each process has made; none and it does not run
  named,     \* the object each name stands for
  held,      \* the objects each process has open
  count,     \* the values of the semaphores
  mem,       \* the words in the segments
  said,      \* the word this sender has said
  heard,     \* the word this receiver has printed
  running,   \* the programs that run
  started,   \* those that ran since last none did
  trouble    \* what went wrong: a subset of {"early", "killed"}

kernel == <<named, count>>
vars == <<pc, named, held, count, mem, said, heard, running, started, trouble>>

Main == [p \in Procs |-> IF p = "sender" THEN SenderMain ELSE ReceiverMain]

(* Process p is about to make this call. *)
At(p, call, arg) == p \in running /\ Main[p][pc[p] + 1] = <<call, arg>>

Init ==
  /\ pc = [p \in Procs |-> 0]
  /\ named = [n \in Names |-> None]
  /\ held = [p \in Procs |-> [n \in Names |-> None]]
  /\ count = [n \in Sems |-> [o \in Objects |-> 0]]
  /\ mem = [o \in Objects |-> ""]
  /\ said = "" /\ heard = ""
  /\ running = {} /\ started = {} /\ trouble = {}
-----------------------------------------------------------------------------
(* p goes on to its next call, or has made its last. *)
Advance(p) ==
  /\ UNCHANGED trouble
  /\ IF pc[p] + 1 = Len(Main[p])
       THEN /\ pc' = [pc EXCEPT ![p] = 0]
            /\ running' = running \ {p}
            /\ started' = IF running = {p} THEN {} ELSE started
       ELSE /\ pc' = [pc EXCEPT ![p] = @ + 1]
            /\ UNCHANGED <<running, started>>

Start(p) ==
  /\ p \notin running
  /\ running' = running \cup {p}
  /\ started' = started \cup {p}
  /\ trouble' = IF p \in started THEN trouble \cup {"early"} ELSE trouble
  /\ IF p = "sender" THEN said' = "" /\ UNCHANGED heard
                     ELSE heard' = "" /\ UNCHANGED said
  /\ UNCHANGED <<pc, kernel, held, mem>>

(* A process dies at any point, as it does when it uses memory that it     *)
(* could not attach: what it held is closed, the names stay.               *)
Dies(p) ==
  /\ p \in running
  /\ pc' = [pc EXCEPT ![p] = 0]
  /\ held' = [held EXCEPT ![p] = [n \in Names |-> None]]
  /\ running' = running \ {p}
  /\ started' = IF running = {p} THEN {} ELSE started
  /\ UNCHANGED <<kernel, mem, said, heard>>

Killed(p) == Dies(p) /\ trouble' = trouble \cup {"killed"}

Unused(n) == CHOOSE o \in Objects : named[n] # o /\ \A p \in Procs : held[p][n] # o

(* sem_open and shmget with O_CREAT and IPC_CREAT, but not O_EXCL. *)
Open(p, n) ==
  /\ At(p, "open", n)
  /\ LET o == IF named[n] = None THEN Unused(n) ELSE named[n]
     IN  /\ held' = [held EXCEPT ![p][n] = o]
         /\ named' = [named EXCEPT ![n] = o]
         /\ count' = IF n \in Sems /\ named[n] = None
                       THEN [count EXCEPT ![n][o] = FirstValue(n)] ELSE count
         /\ mem' = IF n = "shm" /\ named[n] = None THEN [mem EXCEPT ![o] = ""] ELSE mem
  /\ Advance(p)
  /\ UNCHANGED <<said, heard>>

(* Memory whose key is removed lives on while it is attached.              *)
Attached(o) ==
  \E q \in Procs : /\ held[q]["shm"] = o
                   /\ pc[q] > 3

(* shmat, whose result nobody looks at. *)
Attach(p) ==
  LET o == held[p]["shm"]
  IN  /\ At(p, "attach", "shm")
      /\ held' = IF named["shm"] = o \/ Attached(o) THEN held
                 ELSE [held EXCEPT ![p]["shm"] = None]
      /\ Advance(p)
      /\ UNCHANGED <<kernel, mem, said, heard>>

Wait(p, n) ==
  LET o == held[p][n]
  IN  /\ At(p, "wait", n)
      /\ count[n][o] > 0
      /\ count' = [count EXCEPT ![n][o] = @ - 1]
      /\ Advance(p)
      /\ UNCHANGED <<named, held, mem, said, heard>>

Post(p, n) ==
  /\ At(p, "post", n)
  /\ count' = [count EXCEPT ![n][held[p][n]] = @ + 1]
  /\ Advance(p)
  /\ UNCHANGED <<named, held, mem, said, heard>>
-----------------------------------------------------------------------------
(* The words. *)
Uses(p, call) == At(p, call, "shm") /\ held[p]["shm"] # None

Say ==
  /\ Uses("sender", "say")
  /\ \E w \in Words : /\ mem' = [mem EXCEPT ![held["sender"]["shm"]] = w]
                      /\ said' = w
  /\ Advance("sender")
  /\ UNCHANGED <<kernel, held, heard>>

Hear ==
  /\ Uses("receiver", "hear")
  /\ heard' = mem[held["receiver"]["shm"]]
  /\ Advance("receiver")
  /\ UNCHANGED <<kernel, held, mem, said>>

Answer ==
  /\ Uses("receiver", "answer")
  /\ mem' = [mem EXCEPT ![held["receiver"]["shm"]] = "over"]
  /\ Advance("receiver")
  /\ UNCHANGED <<kernel, held, said, heard>>

(* The sender prints what is in the memory now. *)
Final ==
  /\ Uses("sender", "final")
  /\ Advance("sender")
  /\ UNCHANGED <<kernel, held, mem, said, heard>>

(* Memory that could not be attached: the process ends by a signal. *)
Segfault(p) ==
  /\ \E call \in {"say", "hear", "answer", "final"} : At(p, call, "shm")
  /\ held[p]["shm"] = None
  /\ Dies(p)
  /\ UNCHANGED trouble
-----------------------------------------------------------------------------
(* The way out. *)
Close(p) ==
  /\ At(p, "close", "sems")
  /\ held' = [held EXCEPT ![p]["send"] = None, ![p]["rec"] = None]
  /\ Advance(p)
  /\ UNCHANGED <<kernel, mem, said, heard>>

Detach(p) ==
  /\ At(p, "detach", "shm")
  /\ held' = [held EXCEPT ![p]["shm"] = None]
  /\ Advance(p)
  /\ UNCHANGED <<kernel, mem, said, heard>>

(* sem_unlink, and IPC_RMID of the memory it opened by the key: no other   *)
(* program removes either.  CallsSucceed says that the name is there.      *)
Unlink(p, n) ==
  /\ At(p, "unlink", n)
  /\ named' = [named EXCEPT ![n] = None]
  /\ Advance(p)
  /\ UNCHANGED <<held, count, mem, said, heard>>

Step(p) ==
  \/ \E n \in Names : Open(p, n) \/ Unlink(p, n)
  \/ \E n \in Sems : Wait(p, n) \/ Post(p, n)
  \/ Attach(p) \/ Close(p) \/ Detach(p) \/ Segfault(p)

Sender   == Step("sender") \/ Final
Receiver == Step("receiver") \/ Hear \/ Answer

Next ==
  \/ Sender \/ Receiver \/ Say
  \/ \E p \in Procs : Start(p) \/ Killed(p)

Spec == Init /\ [][Next]_vars

(* Each process is scheduled.  The user need not type, nor start anything. *)
FairSpec == Spec /\ WF_vars(Sender) /\ WF_vars(Receiver)
-----------------------------------------------------------------------------
(* The calls between a wait and a post, in which p uses the memory.        *)
Inside(p) == pc[p] \in IF p = "sender" THEN {5, 6, 8, 9} ELSE {5, 6, 7}

(* The two never use one segment at the same time: neither a process that  *)
(* was killed while it had its turn, nor one that is started while its     *)
(* last partner is on its way out, brings a second turn into the world.    *)
(* The two together do.                                                    *)
ExclusiveUse ==
  trouble # {"early", "killed"} =>
    ~(/\ Inside("sender") /\ Inside("receiver")
      /\ held["sender"]["shm"] = held["receiver"]["shm"])

(* Used as it is meant to be, the sender prints the receiver's answer, and *)
(* the receiver has printed what the sender said, whichever program is     *)
(* started first and creates what they share.                              *)
AnswerIsHeard ==
  (trouble = {} /\ At("sender", "final", "shm")) =>
    /\ mem[held["sender"]["shm"]] = "over"
    /\ heard = said

(* Nothing is left behind for the next pair to trip over.                  *)
NothingLeft ==
  (trouble = {} /\ running = {}) => \A n \in Names : named[n] = None

(* What a process removes is there to be removed, whatever has happened to *)
(* earlier ones: no unlink fails, no process ends by exit(1).              *)
CallsSucceed ==
  \A p \in Procs, n \in Names : At(p, "unlink", n) => named[n] # None

(* Once both have been started they come to an end, unless the user does   *)
(* not type: neither waits for a post that went to another semaphore.      *)
BothEnd ==
  (started = Procs /\ trouble = {})
    ~> (running = {} \/ trouble # {} \/ At("sender", "say", "shm"))
=============================================================================

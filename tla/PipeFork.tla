------------------------------ MODULE PipeFork ------------------------------
(***************************************************************************)
(* exam4/3/pipe.c: a process starts three children, each of which writes a *)
(* message into a pipe, and reads three messages.  A fork may fail.        *)
(* stdout is a terminal, which shows each line at once, or a file, which   *)
(* gets them when a process ends.                                          *)
(***************************************************************************)
EXTENDS Naturals, Sequences, FiniteSets

VARIABLES
  forkPc,     \* the calls each process has made; 0 is the parent
  pipe,       \* the messages in the pipe, by the child that wrote each
  readers,    \* the processes that hold its read end
  writers,    \* and its write end
  terminal,   \* stdout is a terminal
  unseen,     \* lines each process has printed that nobody sees yet
  shown,      \* how often each line was shown
  broken      \* a child wrote when there was no reader

pipeVars == <<forkPc, pipe, readers, writers, terminal, unseen, shown, broken>>

Children  == 1 .. 3
Processes == 0 .. 3
Lines     == ({"started", "failed", "message"} \X Children) \cup {<<"junk", 0>>}
NoLines   == [l \in Lines |-> 0]

NotForked == 0
Gone      == 99

\* mutant: it reads two messages
ParentReadsTwo ==
  <<"fork", "fork", "fork", "closeWrite", "read", "read", "wait", "exit">>

(* main *)
ParentMain ==
  <<"fork", "fork", "fork", "closeWrite", "read", "read", "read", "wait", "exit">>
ChildMain == <<"closeRead", "print", "write", "exit">>

PipeInit ==
  /\ forkPc = [p \in Processes |-> IF p = 0 THEN 1 ELSE NotForked]
  /\ pipe = <<>> /\ readers = {0} /\ writers = {0}
  /\ terminal \in BOOLEAN
  /\ unseen = [p \in Processes |-> NoLines]
  /\ shown = NoLines /\ broken = FALSE

Running(p) == forkPc[p] \notin {NotForked, Gone}

At(p, op) == /\ Running(p)
             /\ (IF p = 0 THEN ParentMain ELSE ChildMain)[forkPc[p]] = op

Advanced(p) == [forkPc EXCEPT ![p] = @ + 1]

Puts(p, line) ==
  IF terminal THEN shown' = [shown EXCEPT ![line] = @ + 1] /\ UNCHANGED unseen
              ELSE unseen' = [unseen EXCEPT ![p][line] = @ + 1] /\ UNCHANGED shown
-----------------------------------------------------------------------------
(* A child has what its parent has: both ends, and the lines nobody sees.  *)
Fork ==
  LET i == forkPc[0]
  IN  /\ At(0, "fork")
      /\ forkPc' = [Advanced(0) EXCEPT ![i] = 1]
      /\ readers' = readers \cup {i}
      /\ writers' = writers \cup {i}
      /\ unseen' = [unseen EXCEPT ![i] = unseen[0]]
      /\ UNCHANGED <<pipe, terminal, shown, broken>>

ForkFails ==
  /\ At(0, "fork")
  /\ forkPc' = Advanced(0)
  /\ Puts(0, <<"failed", forkPc[0]>>)
  /\ UNCHANGED <<pipe, readers, writers, terminal, broken>>

Close(p) ==
  /\ \/ At(p, "closeRead")  /\ readers' = readers \ {p} /\ UNCHANGED writers
     \/ At(p, "closeWrite") /\ writers' = writers \ {p} /\ UNCHANGED readers
  /\ forkPc' = Advanced(p)
  /\ UNCHANGED <<pipe, terminal, unseen, shown, broken>>

Started(p) ==
  /\ At(p, "print")
  /\ forkPc' = Advanced(p)
  /\ Puts(p, <<"started", p>>)
  /\ UNCHANGED <<pipe, readers, writers, terminal, broken>>

(* The messages are short: they go in whole. *)
Write(p) ==
  /\ At(p, "write")
  /\ forkPc' = Advanced(p)
  /\ pipe' = Append(pipe, p)
  /\ broken' = (broken \/ readers = {})
  /\ UNCHANGED <<readers, writers, terminal, unseen, shown>>

(* Waits for a message while there is a writer.  Without one the buffer is *)
(* printed as it was, never set. *)
Read ==
  /\ At(0, "read")
  /\ forkPc' = Advanced(0)
  /\ \/ /\ pipe # <<>>
        /\ pipe' = Tail(pipe)
        /\ Puts(0, <<"message", Head(pipe)>>)
     \/ /\ pipe = <<>> /\ writers = {}
        /\ Puts(0, <<"junk", 0>>)
        /\ UNCHANGED pipe
  /\ UNCHANGED <<readers, writers, terminal, broken>>

(* For one child, if there is any. *)
Wait ==
  /\ At(0, "wait")
  /\ (\E c \in Children : forkPc[c] = Gone) \/ \A c \in Children : forkPc[c] = NotForked
  /\ forkPc' = Advanced(0)
  /\ UNCHANGED <<pipe, readers, writers, terminal, unseen, shown, broken>>

(* exit, or return from main. *)
Exit(p) ==
  /\ At(p, "exit")
  /\ forkPc' = [forkPc EXCEPT ![p] = Gone]
  /\ readers' = readers \ {p} /\ writers' = writers \ {p}
  /\ shown' = [l \in Lines |-> shown[l] + unseen[p][l]]
  /\ unseen' = [unseen EXCEPT ![p] = NoLines]
  /\ UNCHANGED <<pipe, terminal, broken>>

Step(p) == Close(p) \/ Started(p) \/ Write(p) \/ Exit(p)

ParentStep == Fork \/ ForkFails \/ Read \/ Wait \/ Step(0)

PipeNext == ParentStep \/ \E c \in Children : Step(c)

(* Every process is scheduled. *)
PipeSpec == /\ PipeInit /\ [][PipeNext]_pipeVars
            /\ WF_pipeVars(ParentStep)
            /\ \A c \in Children : WF_pipeVars(Step(c))
-----------------------------------------------------------------------------
AllEnded == \A p \in Processes : ~Running(p)

Forked == {c \in Children : forkPc[c] # NotForked}

(* Nobody writes into a pipe without a reader: the parent outlives the     *)
(* last write, although it waits for one child only.                       *)
ReaderStays == ~broken

(* Every message is read and shown once, for a fork that failed the buffer *)
(* as it was, and each child says once that it started.  So does the       *)
(* parent of a fork that failed, on a terminal; in a file its report is    *)
(* there again for every child that was forked later.                      *)
ShownExactly ==
  AllEnded =>
    shown = [l \in Lines |->
      CASE l[1] \in {"started", "message"} -> IF l[2] \in Forked THEN 1 ELSE 0
        [] l[1] = "junk"   -> Cardinality(Children \ Forked)
        [] l[1] = "failed" ->
             IF l[2] \in Forked THEN 0
             ELSE 1 + IF terminal THEN 0
                      ELSE Cardinality({c \in Forked : c > l[2]})]

(* Every message finds a reader, and every line its way to the user.       *)
NothingUnread == ReaderStays /\ ShownExactly

(* The program ends, whichever forks fail. *)
PipeEnds == <>AllEnded
=============================================================================

-------------------------------- MODULE Parts --------------------------------
(***************************************************************************)
(* The small programs and drivers of the repository, which share nothing:  *)
(* one of them runs, the others stay as they begin.  Since none sees the   *)
(* state of another, what holds here of each holds of all of them side by  *)
(* side.                                                                   *)
(***************************************************************************)
EXTENDS CharDriver, BlkDriver, Creds, ProcGroups, Priority, TaskList,
        PipeFork, TextEntry, FcbDates

VARIABLE part   \* the one that runs

AllParts == {"char", "blk", "creds", "groups", "nice", "lists", "pipe", "entry", "dates"}

Init ==
  /\ part \in AllParts
  /\ CharInit /\ (part # "char" => state["cat"] = "new" /\ ~shared /\ ~writes)
  /\ BlkInit
  /\ CredInit /\ (part # "creds" => Held(uid) \cup Held(gid) = {Root})
  /\ GroupInit
  /\ PrioInit /\ (part # "nice" => rlim = CHOOSE l \in FirstLimits : TRUE)
  /\ TaskInit
  /\ PipeInit /\ (part # "pipe" => terminal)
  /\ EntryInit
  /\ DateInit /\ (part # "dates" => ~isdir)

Next ==
  /\ IF part = "char"   THEN CharNext  ELSE UNCHANGED charVars
  /\ IF part = "blk"    THEN BlkNext   ELSE UNCHANGED blkVars
  /\ IF part = "creds"  THEN CredNext  ELSE UNCHANGED credVars
  /\ IF part = "groups" THEN GroupNext ELSE UNCHANGED groupVars
  /\ IF part = "nice"   THEN PrioNext  ELSE UNCHANGED prioVars
  /\ IF part = "lists"  THEN TaskNext  ELSE UNCHANGED taskVars
  /\ IF part = "pipe"   THEN PipeNext  ELSE UNCHANGED pipeVars
  /\ IF part = "entry"  THEN EntryNext ELSE UNCHANGED entryVars
  /\ IF part = "dates"  THEN DateNext  ELSE UNCHANGED dateVars
  /\ UNCHANGED part

allVars == <<part, charVars, blkVars, credVars, groupVars, prioVars, taskVars,
             pipeVars, entryVars, dateVars>>

(* The fairness of each part, while it runs. *)
Fairness ==
  /\ \A p \in Procs : WF_charVars(part = "char" /\ CharProceed(p))
  /\ WF_blkVars(part = "blk" /\ do_my_blk_request)
  /\ WF_taskVars(part = "lists" /\ Walk)
  /\ WF_pipeVars(part = "pipe" /\ ParentStep)
  /\ \A c \in Children : WF_pipeVars(part = "pipe" /\ Step(c))

Spec == Init /\ [][Next]_allVars /\ Fairness
-----------------------------------------------------------------------------
(* What runs comes to its end, in each part that owes one: CatEnds,        *)
(* RequestsEnd, WalksEnd and PipeEnds.                                     *)
Pending ==
  CASE part = "char"  -> CatReads
    [] part = "blk"   -> Requested
    [] part = "lists" -> Walks
    [] OTHER          -> part = "pipe"

Over ==
  CASE part = "char"  -> state["cat"] = "closed"
    [] part = "blk"   -> AllDone
    [] part = "lists" -> ~Walks
    [] OTHER          -> AllEnded

PartsEnd == Pending ~> Over
=============================================================================

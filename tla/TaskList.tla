------------------------------ MODULE TaskList ------------------------------
(***************************************************************************)
(* exam2: two modules that print processes when they are loaded.  Both     *)
(* walk lists of the kernel, link by link, and hold no lock while          *)
(* processes begin and end.                                                *)
(*                                                                         *)
(* A list is a ring of links, one of which is its head.  Each task has a   *)
(* link All in the ring of all tasks, whose head is that of task 0, a link *)
(* Child in the ring of its parent's children, and the head Kids of its    *)
(* own.  The memory of a task that ended keeps its contents.               *)
(***************************************************************************)
EXTENDS Naturals

CONSTANTS
  MaxTask,       \* tasks are 0 .. MaxTask
  KernelTasks,   \* those without memory of their own: mm is NULL
  MaxChanges     \* bound: tasks that begin or end

ASSUME TaskAssumption == MaxTask \in Nat /\ MaxChanges \in Nat

TaskNums == 0 .. MaxTask

All(t)   == <<"all", t>>
Child(t) == <<"child", t>>
Kids(t)  == <<"kids", t>>
Links    == {"all", "child", "kids"} \X TaskNums

VARIABLES
  running,   \* the tasks there are
  father,    \* the parent of each
  nextLink,  \* the link after each
  listAt,    \* where the module is: its walk, for which task, the link it is at
  out,       \* what the walks have printed
  twice,     \* a walk has printed something twice
  calm,      \* no task has begun or ended since the module was loaded
  changes    \* how many began or ended

taskVars == <<running, father, nextLink, listAt, out, twice, calm, changes>>

NotLoaded == [walk |-> "none", task |-> 0, link |-> Kids(0)]

TaskInit ==
  /\ running = {0} /\ father = [t \in TaskNums |-> 0]
  /\ nextLink = [l \in Links |-> l]
  /\ listAt = NotLoaded /\ out = {} /\ twice = FALSE /\ calm = TRUE /\ changes = 0
-----------------------------------------------------------------------------
(* The kernel: list_add_tail; list_del_init, which makes a ring of the     *)
(* link it takes out; list_del_rcu, which leaves that link as it is.       *)
Before(l) == CHOOSE b \in Links : nextLink[b] = l /\ (b[2] \in running \/ b = Kids(b[2]))

Added(ring, l, head) == [ring EXCEPT ![Before(head)] = l, ![l] = head]
DelRcu(ring, l)      == [ring EXCEPT ![Before(l)] = ring[l]]
DelInit(ring, l)     == [DelRcu(ring, l) EXCEPT ![l] = l]

Changes == /\ changes < MaxChanges
           /\ changes' = changes + 1
           /\ calm' = FALSE
           /\ UNCHANGED <<listAt, out, twice>>

Begins(t, f) ==
  /\ Changes
  /\ t \notin running /\ f \in running
  /\ running' = running \cup {t}
  /\ father' = [father EXCEPT ![t] = f]
  /\ nextLink' = Added(Added(nextLink, All(t), All(0)), Child(t), Kids(f))

(* Bound: a task ends after its children. *)
Ends(t) ==
  /\ Changes
  /\ t \in running \ {0} /\ nextLink[Kids(t)] = Kids(t)
  /\ running' = running \ {t}
  /\ nextLink' = DelInit(DelRcu(nextLink, All(t)), Child(t))
  /\ UNCHANGED father
-----------------------------------------------------------------------------
(* The modules. *)

\* mutant: the list of children is entered at the task's own link
HeadMixed(walk, t) ==
  CASE walk = "all"      -> All(0)
    [] walk = "siblings" -> Child(t)
    [] walk = "kids"     -> Child(t)

(* The link at which a walk begins and ends, without looking at it.        *)
HeadOf(walk, t) ==
  CASE walk = "all"      -> All(0)
    [] walk = "siblings" -> Child(t)
    [] walk = "kids"     -> Kids(t)

Begin(walk, t) == [walk |-> walk, task |-> t, link |-> nextLink[HeadOf(walk, t)]]

Loads == /\ listAt = NotLoaded
         /\ calm' = TRUE /\ twice' = FALSE
         /\ UNCHANGED <<running, father, nextLink, changes>>

fir_init == Loads /\ listAt' = Begin("all", 0) /\ out' = {}

(* For a number that no process has the module follows a NULL pointer.     *)
sec_init(pid) ==
  /\ Loads
  /\ IF pid \in running \ {0}
       THEN /\ listAt' = Begin("siblings", pid)
            /\ out' = {<<"parent", All(father[pid])>>}
       ELSE /\ listAt' = [NotLoaded EXCEPT !.walk = "oops"]
            /\ out' = {}

Busy == listAt.walk \in {"all", "siblings", "kids"}

\* mutant: both loops compare with the same head
LoopOverMixed == listAt.link = HeadOf("siblings", listAt.task)

LoopOver == listAt.link = HeadOf(listAt.walk, listAt.task)

(* One pass of a loop.  fir_init prints tasks of the kernel only. *)
ForEach ==
  /\ Busy /\ ~LoopOver
  /\ listAt' = [listAt EXCEPT !.link = nextLink[@]]
  /\ LET line == <<listAt.walk, listAt.link>>
     IN  IF listAt.walk # "all" \/ listAt.link[2] \in KernelTasks
           THEN out' = out \cup {line} /\ twice' = (twice \/ line \in out)
           ELSE UNCHANGED <<out, twice>>
  /\ UNCHANGED <<running, father, nextLink, calm, changes>>

(* The end of a loop. *)
AtHead ==
  /\ Busy /\ LoopOver
  /\ listAt' = IF listAt.walk = "siblings" THEN Begin("kids", listAt.task)
                 ELSE [listAt EXCEPT !.walk = "done"]
  /\ UNCHANGED <<running, father, nextLink, out, twice, calm, changes>>

Unload ==
  /\ listAt.walk = "done"
  /\ listAt' = NotLoaded /\ out' = {} /\ twice' = FALSE /\ calm' = TRUE
  /\ UNCHANGED <<running, father, nextLink, changes>>

Walk == ForEach \/ AtHead

TaskNext ==
  \/ \E t, f \in TaskNums : Begins(t, f)
  \/ \E t \in TaskNums : Ends(t) \/ sec_init(t)
  \/ fir_init \/ Walk \/ Unload

TaskSpec == TaskInit /\ [][TaskNext]_taskVars /\ WF_taskVars(Walk)
-----------------------------------------------------------------------------
KidsOf(t) == {s \in running \ {0} : father[s] = t}

(* When no task begins or ends meanwhile, every list is printed as it is   *)
(* and nothing twice.  But the list of siblings has a line too many: the   *)
(* walk from one sibling to the next meets the head of the list, in the    *)
(* parent, and takes it for the link of a task.                            *)
CalmIsComplete ==
  listAt.walk = "done" /\ calm =>
    /\ ~twice
    /\ \/ out = {<<"all", All(t)>> : t \in (running \cap KernelTasks) \ {0}}
       \/ out = {<<"parent", All(father[listAt.task])>>}
                \cup {<<"siblings", Child(s)>> : s \in KidsOf(father[listAt.task]) \ {listAt.task}}
                \cup {<<"siblings", Kids(father[listAt.task])>>}
                \cup {<<"kids", Child(s)>> : s \in KidsOf(listAt.task)}

(* Loading ends, while tasks begin and end, unless the walk is thrown off  *)
(* its list.  A task taken out of the list of all tasks still leads on.    *)
(* In the lists of children it does not: a walk goes round for ever at a   *)
(* task that ended, or past the place of its own task, from which the      *)
(* siblings are counted, when that one did.  No other change can do it.    *)
KidsRing(f) == {Kids(f)} \cup {Child(s) : s \in KidsOf(f)}

OnCourse ==
  \/ listAt.walk = "all"
  \/ listAt.walk = "kids" /\ listAt.link \in KidsRing(listAt.task)
  \/ /\ listAt.walk = "siblings"
     /\ listAt.task \in running
     /\ listAt.link \in KidsRing(father[listAt.task])

Walks    == Busy /\ OnCourse
WalksEnd == Walks ~> ~Walks
=============================================================================

------------------------------ MODULE Priority ------------------------------
(***************************************************************************)
(* exam1/sys.c: nice values.  mysetnice, the call this repository adds, is *)
(* made of setpriority and getpriority; how far an unprivileged caller may *)
(* lower a value is the limit that prlimit64 sets, and whose values it may *)
(* set depends on the ids that setreuid changes.                           *)
(*                                                                         *)
(* setpriority, getpriority and prlimit64 hold locks for reading only, and *)
(* setreuid none: calls of different tasks interleave.  One step here      *)
(* checks one task, the next sets its value.                               *)
(***************************************************************************)
EXTENDS Ids, FiniteSets

CONSTANTS
  Tasks,            \* the tasks, which neither come nor go
  Users,            \* the user ids
  UserOf,           \* the ids each task may start with
  Pgrp,             \* the process group of each task
  MinNice, MaxNice, \* the range of nice values
  EFAULT,           \* what mysetnice returns when it fails: not negative
  Limits,           \* the values of RLIMIT_NICE that are used
  FirstLimits,      \* the limits the tasks may start with
  MaxPrioCalls      \* bound: calls made

ASSUME NiceAssumption  == MinNice \in Int /\ MaxNice \in Int /\ MinNice <= MaxNice
ASSUME UsersAssumption == Root \in Users /\ Users \subseteq Nat
ASSUME FaultAssumption == EFAULT \in Nat \ {0} /\ Limits \subseteq Nat

(* A soft limit is not above its hard limit: do_prlimit sees to that.      *)
ASSUME LimitAssumption ==
  /\ FirstLimits \subseteq [Tasks -> [cur : Nat, max : Nat]]
  /\ \A limit \in FirstLimits : \A t \in Tasks : limit[t].cur <= limit[t].max

NoTask == "no task"

ASSUME NoTaskAssumption == NoTask \notin Tasks

Nices == MinNice .. MaxNice

VARIABLES
  cred,      \* ids and capabilities of each task
  nice,      \* nice values
  rlim,      \* RLIMIT_NICE of each task: soft and hard
  prioCall,  \* the call each task is in, or its last
  lowest,    \* the lowest value each task was ever entitled to
  calls      \* how many calls were made

prioVars == <<cred, nice, rlim, prioCall, lowest, calls>>

nice_to_rlimit(n) == MaxNice + 1 - n
rlimit_to_nice(r) == MaxNice + 1 - r

Lower(a, b)  == IF a < b THEN a ELSE b
Higher(a, b) == IF a < b THEN b ELSE a

NotCalling == [phase |-> "idle"]

Capabilities(uid) == [may |-> Root \in Held(uid), now |-> uid.e = Root]

PrioInit ==
  /\ \E uid \in [Tasks -> UNION {UserOf[t] : t \in Tasks}] :
       /\ \A t \in Tasks : uid[t] \in UserOf[t]
       /\ cred = [t \in Tasks |-> [uid |-> uid[t], caps |-> Capabilities(uid[t])]]
  /\ nice = [t \in Tasks |-> MaxNice]
  /\ rlim \in FirstLimits
  /\ prioCall = [t \in Tasks |-> NotCalling]
  /\ lowest = [t \in Tasks |-> Lower(nice[t], rlimit_to_nice(rlim[t].max))]
  /\ calls = 0

Capable(t) == cred[t].caps.now

(* A new call. *)
PrioEnter(t) ==
  /\ prioCall[t].phase \in {"idle", "done"}
  /\ calls < MaxPrioCalls
  /\ calls' = calls + 1
-----------------------------------------------------------------------------
(* Entering the calls. *)

(* setpriority: niceval is normalized. *)
Normalized(v) == Lower(Higher(v, MinNice), MaxNice)

(* The tasks a call looks at, in the order of a list; those of a user are  *)
(* told when it comes to them. *)
Loop(t, by, op, v, todo, user) ==
  /\ PrioEnter(t)
  /\ prioCall' = [prioCall EXCEPT ![t] =
       [phase |-> "loop", by |-> by, op |-> op, v |-> v, todo |-> todo, user |-> user,
        next |-> NoTask, error |-> "ESRCH", set |-> {}, missed |-> FALSE, seen |-> -1]]
  /\ UNCHANGED <<cred, nice, rlim, lowest>>

SomeTasks(t, by, op, v) ==
  \/ \E p \in Tasks : Loop(t, by, op, v, {p}, NoId)
  \/ Loop(t, by, op, v, {}, NoId)                 \* there is no such process

setpriority(t, v) ==
  \/ SomeTasks(t, "caller", "set", Normalized(v))
  \/ \E g \in {Pgrp[p] : p \in Tasks} :
       Loop(t, "caller", "set", Normalized(v), {p \in Tasks : Pgrp[p] = g}, NoId)
  \/ \E u \in Users : Loop(t, "caller", "set", Normalized(v), Tasks, u)

getpriority(t) ==
  \/ SomeTasks(t, "caller", "get", MaxNice)
  \/ \E g \in {Pgrp[p] : p \in Tasks} :
       Loop(t, "caller", "get", MaxNice, {p \in Tasks : Pgrp[p] = g}, NoId)
  \/ \E u \in Users : Loop(t, "caller", "get", MaxNice, Tasks, u)

(* For other flags there is nothing to do. *)
mysetnice(t, flag, v) ==
  CASE flag = 0 -> SomeTasks(t, "mysetnice", "get", MaxNice)
    [] flag = 1 -> SomeTasks(t, "mysetnice", "set", Normalized(v))
    [] OTHER    -> /\ PrioEnter(t)
                   /\ prioCall' = [prioCall EXCEPT ![t] =
                        [phase |-> "done", by |-> "mysetnice", op |-> "none", ret |-> EFAULT]]
                   /\ UNCHANGED <<cred, nice, rlim, lowest>>
-----------------------------------------------------------------------------
(* The loops over the tasks. *)

set_one_prio_perm(t, p) ==
  \/ cred[t].uid.e \in {cred[p].uid.r, cred[p].uid.e}
  \/ Capable(t)

\* mutant: the limit that counts is the caller's
can_nice_own(t, p, v) == nice_to_rlimit(v) <= rlim[t].cur \/ Capable(t)

(* Not in the repository: the limit of the task, or a capable caller.      *)
can_nice(t, p, v) == nice_to_rlimit(v) <= rlim[p].cur \/ Capable(t)

(* Not in the repository: nobody sets one that may more than he.           *)
security_task_setnice(t, p) == (cred[p].caps.may => cred[t].caps.may) \/ Capable(t)

Refused(t, p, v) ==
  \/ ~set_one_prio_perm(t, p)
  \/ v < nice[p] /\ ~can_nice(t, p, v)
  \/ ~security_task_setnice(t, p)

\* mutant: a success hides an earlier failure
NoErrorNow(error) == "none"

(* A task was found; an error of an earlier one stays. *)
NoErrorSince(error) == IF error = "ESRCH" THEN "none" ELSE error

OfUser(c, p) == c.user = NoId \/ cred[p].uid.r = c.user

(* Up to set_user_nice. *)
set_one_prio(t, p) ==
  LET c == prioCall[t]
  IN  /\ c.op = "set"
      /\ prioCall' = [prioCall EXCEPT ![t] =
           IF Refused(t, p, c.v)
             THEN [c EXCEPT !.todo = @ \ {p}, !.error = "refused", !.missed = TRUE]
             ELSE [c EXCEPT !.todo = @ \ {p}, !.error = NoErrorSince(@), !.next = p]]
      /\ lowest' = IF Capable(t) THEN [lowest EXCEPT ![p] = Lower(@, c.v)] ELSE lowest

get_one_prio(t, p) ==
  /\ prioCall[t].op = "get"
  /\ prioCall' = [prioCall EXCEPT ![t].todo = @ \ {p},
                                  ![t].seen = Higher(@, nice_to_rlimit(nice[p]))]
  /\ UNCHANGED lowest

VisitTask(t) ==
  /\ prioCall[t].phase = "loop" /\ prioCall[t].next = NoTask
  /\ \E p \in prioCall[t].todo :
       IF OfUser(prioCall[t], p) THEN set_one_prio(t, p) \/ get_one_prio(t, p)
       ELSE prioCall' = [prioCall EXCEPT ![t].todo = @ \ {p}] /\ UNCHANGED lowest
  /\ UNCHANGED <<cred, nice, rlim, calls>>

set_user_nice(t) ==
  /\ prioCall[t].phase = "loop" /\ prioCall[t].next # NoTask
  /\ nice' = [nice EXCEPT ![prioCall[t].next] = prioCall[t].v]
  /\ prioCall' = [prioCall EXCEPT ![t].next = NoTask, ![t].set = @ \cup {prioCall[t].next}]
  /\ UNCHANGED <<cred, rlim, lowest, calls>>

Result(c) == IF c.op = "get" THEN c.seen ELSE IF c.error = "none" THEN 0 ELSE -1

MysetniceResult(c) ==
  CASE c.op = "get" -> IF Result(c) <= 0 THEN EFAULT ELSE Result(c)
    [] c.op = "set" -> IF Result(c) # 0 THEN EFAULT ELSE Result(c)

(* What the call leaves for its caller, and what it did. *)
PrioReturn(t) ==
  LET c == prioCall[t]
  IN  /\ c.phase = "loop" /\ c.next = NoTask /\ c.todo = {}
      /\ prioCall' = [prioCall EXCEPT ![t] =
           [phase |-> "done", by |-> c.by, op |-> c.op, some |-> c.set # {}, missed |-> c.missed,
            seen |-> c.seen,
            ret |-> IF c.by = "mysetnice" THEN MysetniceResult(c) ELSE Result(c)]]
      /\ UNCHANGED <<cred, nice, rlim, lowest, calls>>
-----------------------------------------------------------------------------
(* Limits and ids. *)

(* All group ids are one. *)
check_prlimit_permission(t, p) ==
  \/ t = p
  \/ Held(cred[p].uid) = {cred[t].uid.r}
  \/ Capable(t)

prlimit64(t, p, new) ==
  /\ PrioEnter(t)
  /\ check_prlimit_permission(t, p)
  /\ prioCall' = [prioCall EXCEPT ![t] = [phase |-> "limit", task |-> p, new |-> new]]
  /\ UNCHANGED <<cred, nice, rlim, lowest>>

MayLimit(t, p, new) ==
  /\ new.cur <= new.max
  /\ new.max <= rlim[p].max \/ Capable(t)

do_prlimit(t) ==
  LET c == prioCall[t]
  IN  /\ c.phase = "limit"
      /\ prioCall' = [prioCall EXCEPT ![t] = NotCalling]
      /\ IF MayLimit(t, c.task, c.new)
           THEN /\ rlim' = [rlim EXCEPT ![c.task] = c.new]
                /\ lowest' = [lowest EXCEPT ![c.task] = Lower(@, rlimit_to_nice(c.new.max))]
           ELSE UNCHANGED <<rlim, lowest>>
      /\ UNCHANGED <<cred, nice, calls>>

ChangeIds(t, r, e) ==
  /\ PrioEnter(t)
  /\ LET old == cred[t]
         new == SetRe(old.uid, r, e, old.caps.now)
     IN  cred' = [cred EXCEPT ![t] = [uid |-> new, caps |-> FixCaps(old.caps, old.uid, new)]]
  /\ UNCHANGED <<nice, rlim, prioCall, lowest>>
-----------------------------------------------------------------------------
PrioProceed(t) == VisitTask(t) \/ set_user_nice(t) \/ PrioReturn(t) \/ do_prlimit(t)

Asked == MinNice - 1 .. MaxNice + 1

PrioNext ==
  \E t \in Tasks :
    \/ \E v \in Asked : setpriority(t, v) \/ \E flag \in 0 .. 2 : mysetnice(t, flag, v)
    \/ getpriority(t)
    \/ \E p \in Tasks, new \in [cur : Limits, max : Limits] : prlimit64(t, p, new)
    \/ \E r, e \in Users \cup {NoId} : ChangeIds(t, r, e)
    \/ PrioProceed(t)

PrioSpec == PrioInit /\ [][PrioNext]_prioVars
-----------------------------------------------------------------------------
(* Nice values stay in their range, whatever is asked for. *)
NiceInRange == \A t \in Tasks : nice[t] \in Nices

(* No task ever has a better value than it was entitled to: by its value   *)
(* at the start, its hard limit, or what a capable caller asked for it,    *)
(* whoever sets values, limits and ids at the same time.                   *)
NiceIsEarned == NiceInRange /\ \A t \in Tasks : nice[t] >= lowest[t]

(* A setpriority that returns 0 has set every task it was meant for.       *)
ZeroMeansAll ==
  \A t \in Tasks : LET c == prioCall[t] IN
    c.phase = "done" /\ c.op = "set" /\ c.by = "caller" /\ c.ret = 0 =>
      ~c.missed /\ c.some

(* mysetnice returns 0 when it has set the value, the value in force,      *)
(* counted from the top, when it has read it, and EFAULT when it did       *)
(* neither; but a value may look like EFAULT.                              *)
MysetniceTells ==
  \A t \in Tasks : LET c == prioCall[t] IN
    c.phase = "done" /\ c.by = "mysetnice" =>
      CASE c.op = "set" -> c.ret = (IF ~c.some THEN EFAULT ELSE 0)
        [] c.op = "get" -> c.ret = (IF c.seen \in {-1, EFAULT} THEN EFAULT ELSE c.seen)
        [] OTHER        -> c.ret = EFAULT

(* What a call returns tells its caller what it did.                       *)
CallsTell == ZeroMeansAll /\ MysetniceTells
=============================================================================

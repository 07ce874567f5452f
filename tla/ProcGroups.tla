----------------------------- MODULE ProcGroups -----------------------------
(***************************************************************************)
(* exam1/sys.c: setpgid and setsid, by which processes form process groups *)
(* and sessions.  Both hold the lock on the task list all the time.        *)
(* Processes come and go by fork, exec and exit, which are not in the      *)
(* repository.  Process 1 stays, and inherits orphans.                     *)
(***************************************************************************)
EXTENDS Naturals

CONSTANT MaxPid

ASSUME PidAssumption == MaxPid \in Nat \ {0}

Pids == 1 .. MaxPid

VARIABLES
  alive,     \* the processes there are
  parent,    \* real_parent
  pgrp,      \* the group of each, named by the process that began it
  sess,      \* the session of each, named likewise
  leader,    \* those that began a session: signal->leader
  unexeced   \* those that have not called exec since fork: PF_FORKNOEXEC

groupVars == <<alive, parent, pgrp, sess, leader, unexeced>>

GroupInit ==
  /\ alive = {1} /\ leader = {1} /\ unexeced = {}
  /\ parent = [p \in Pids |-> 1]
  /\ pgrp = [p \in Pids |-> 1]
  /\ sess = [p \in Pids |-> 1]

GroupExists(g) == \E p \in alive : pgrp[p] = g

(* A number is free when no process, group or session has it. *)
Free(n) == n \notin alive /\ \A p \in alive : n \notin {pgrp[p], sess[p]}

(* The variables of numbers without a process are put back, to be equal.   *)
TaskForks(c) ==
  \E n \in Pids :
    /\ Free(n)
    /\ alive' = alive \cup {n}
    /\ unexeced' = unexeced \cup {n}
    /\ parent' = [parent EXCEPT ![n] = c]
    /\ pgrp' = [pgrp EXCEPT ![n] = pgrp[c]]
    /\ sess' = [sess EXCEPT ![n] = sess[c]]
    /\ UNCHANGED leader

TaskExecs(c) ==
  /\ unexeced' = unexeced \ {c}
  /\ UNCHANGED <<alive, parent, pgrp, sess, leader>>

TaskExits(c) ==
  /\ c # 1
  /\ alive' = alive \ {c}
  /\ leader' = leader \ {c}
  /\ unexeced' = unexeced \ {c}
  /\ parent' = [p \in Pids |-> IF parent[p] = c \/ p = c THEN 1 ELSE parent[p]]
  /\ pgrp' = [pgrp EXCEPT ![c] = 1]
  /\ sess' = [sess EXCEPT ![c] = 1]

(* A group of its own, or one in the caller's session. *)
Joins(c, p, g) == g = p \/ \E q \in alive : pgrp[q] = g /\ sess[q] = sess[c]

(* The caller's own, or a child in its session that has not called exec;   *)
(* no session leader. *)
Moves(c, p) ==
  /\ IF parent[p] = c THEN sess[p] = sess[c] /\ p \in unexeced ELSE p = c
  /\ p \notin leader

setpgid(c, p, g) ==
  /\ p \in alive
  /\ Moves(c, p)
  /\ Joins(c, p, g)
  /\ pgrp' = [pgrp EXCEPT ![p] = g]
  /\ UNCHANGED <<alive, parent, sess, leader, unexeced>>

\* mutant: only a session leader is refused
MayLeadAgain(c) == c \notin leader

MayLead(c) == c \notin leader /\ ~GroupExists(c)

setsid(c) ==
  /\ MayLead(c)
  /\ leader' = leader \cup {c}
  /\ sess' = [sess EXCEPT ![c] = c]
  /\ pgrp' = [pgrp EXCEPT ![c] = c]
  /\ UNCHANGED <<alive, parent, unexeced>>

GroupNext ==
  \E c \in alive :
    \/ TaskForks(c) \/ TaskExecs(c) \/ TaskExits(c) \/ setsid(c)
    \/ \E p, g \in Pids : setpgid(c, p, g)

GroupSpec == GroupInit /\ [][GroupNext]_groupVars
-----------------------------------------------------------------------------
(* No process group has members in two sessions, whatever groups and       *)
(* numbers outlive the processes that began them.                          *)
GroupInOneSession ==
  \A p, q \in alive : pgrp[p] = pgrp[q] => sess[p] = sess[q]

(* A session leader leads its group too, and stays in it. *)
LeaderLeads == \A p \in leader : sess[p] = p /\ pgrp[p] = p

(* The process a session is named by, if there is one, is its leader: a    *)
(* new session begins without members.                                     *)
SessionHasLeader == \A p \in alive : sess[p] \in alive => sess[p] \in leader

(* Groups and sessions stay nested, whoever moves, begins them or ends.    *)
GroupsNest == GroupInOneSession /\ LeaderLeads /\ SessionHasLeader
=============================================================================

------------------------------ MODULE SysProofs ------------------------------
(***************************************************************************)
(* Theorems about the calls of exam1/sys.c.  Creds, for any ids and any    *)
(* sequence of calls: what has been given up stays so, and who is not      *)
(* capable gains no id.  ProcGroups, for any number of processes: groups   *)
(* stay within sessions.  Priority, for any tasks, users, limits and range *)
(* of nice values: values stay earned while calls of different tasks       *)
(* interleave, and calls return what they did.                             *)
(***************************************************************************)
EXTENDS Creds, ProcGroups, Priority, TLAPS

-----------------------------------------------------------------------------
(* Creds. *)

IdsOf(S) == [r : S, e : S, s : S, f : S]

CredTypes ==
  /\ uid \in IdsOf(Uids) /\ gid \in IdsOf(Gids)
  /\ caps \in [may : BOOLEAN, now : BOOLEAN]
  /\ dropped \in BOOLEAN

CredInv == CredTypes /\ DropIsFinal /\ FsIdEarned /\ CapsMatchIds

(* What a call makes of the ids when it does not bring in others. *)
GainsNothing(new, old) ==
  Held(new) \subseteq Held(old) /\ new.f \in Held(old) \cup {old.f}
-----------------------------------------------------------------------------
(* What the calls make of four ids out of a set, that of the users or that *)
(* of the groups.                                                          *)
LEMMA NoIdIsNone == NoId \notin Uids /\ NoId \notin Gids /\ Root \in Uids /\ Root # NoId
BY IdsAssumption DEF NoId, Root

LEMMA SetReIds ==
  ASSUME NEW S, NEW ids \in IdsOf(S), NEW r \in S \cup {NoId}, NEW e \in S \cup {NoId},
         NEW capable \in BOOLEAN
  PROVE  LET new == SetRe(ids, r, e, capable)
         IN  /\ new \in IdsOf(S)
             /\ new = ids \/ new.f = new.e
             /\ ~capable => GainsNothing(new, ids)
BY DEF SetRe, MayRe, Given, IdsOf, Held, GainsNothing

LEMMA SetIdIds ==
  ASSUME NEW S, NEW ids \in IdsOf(S), NEW id \in S, NEW capable \in BOOLEAN
  PROVE  LET new == SetId(ids, id, capable)
         IN  /\ new \in IdsOf(S)
             /\ new = ids \/ new.f = new.e
             /\ ~capable => GainsNothing(new, ids)
BY DEF SetId, IdsOf, Held, GainsNothing

LEMMA SetResIds ==
  ASSUME NEW S, NEW ids \in IdsOf(S), NEW capable \in BOOLEAN,
         NEW r \in S \cup {NoId}, NEW e \in S \cup {NoId}, NEW s \in S \cup {NoId}
  PROVE  LET new == SetRes(ids, r, e, s, capable)
         IN  /\ new \in IdsOf(S)
             /\ new = ids \/ new.f = new.e
             /\ ~capable => GainsNothing(new, ids)
BY DEF SetRes, Given, IdsOf, Held, GainsNothing

LEMMA SetFsIds ==
  ASSUME NEW S, NEW ids \in IdsOf(S), NEW id \in S, NEW capable \in BOOLEAN
  PROVE  LET new == SetFs(ids, id, capable)
         IN  /\ new \in IdsOf(S)
             /\ Held(new) = Held(ids) /\ new.e = ids.e
             /\ ~capable => GainsNothing(new, ids)
BY DEF SetFs, IdsOf, Held, GainsNothing

(* Swapping the real and the effective id needs no capability, and twice   *)
(* is not at all.                                                          *)
LEMMA SwapTwice ==
  ASSUME NEW S, NoId \notin S, NEW ids \in IdsOf(S)
  PROVE  LET there == SetRe(ids, ids.e, ids.r, FALSE)
             back  == SetRe(there, there.e, there.r, FALSE)
         IN  back.r = ids.r /\ back.e = ids.e
<1> DEFINE there == SetRe(ids, ids.e, ids.r, FALSE)
<1>1. ids.r \in S /\ ids.e \in S
  BY DEF IdsOf
<1>2. there.r = ids.e /\ there.e = ids.r /\ there \in IdsOf(S)
  BY <1>1 DEF SetRe, MayRe, Given, Held, IdsOf
<1> HIDE DEF there
<1> DEFINE back == SetRe(there, there.e, there.r, FALSE)
<1>3. back.r = there.e /\ back.e = there.r
  BY <1>1, <1>2 DEF SetRe, MayRe, Given, Held
<1> QED
  BY <1>2, <1>3 DEF there
-----------------------------------------------------------------------------
(* New user ids, committed with the capabilities they leave.               *)
LEMMA CommitInv ==
  ASSUME CredInv, NEW new \in IdsOf(Uids), CommitUid(new), dropped' \in BOOLEAN,
         new = uid \/ new.f = new.e,
         ~caps.now => GainsNothing(new, uid),
         dropped' => dropped \/ Root \notin Held(new)
  PROVE  CredInv'
<1>1. CredTypes'
  BY DEF CredInv, CredTypes, CommitUid, FixCaps
<1>2. Root \in Held(new) => Root \in Held(uid)
  BY DEF CredInv, CapsMatchIds, GainsNothing, Held
<1>3. FsIdEarned'
  BY DEF CredInv, FsIdEarned, CommitUid, Held
<1>4. CapsMatchIds'
  BY <1>2 DEF CredInv, CredTypes, CapsMatchIds, CommitUid, FixCaps, Held
<1>5. dropped' => Root \notin Held(new)
  BY <1>2 DEF CredInv, DropIsFinal
<1>6. DropIsFinal'
  BY <1>3, <1>4, <1>5 DEF DropIsFinal, FsIdEarned, CapsMatchIds, CommitUid, Held
<1> QED
  BY <1>1, <1>3, <1>4, <1>6 DEF CredInv

LEMMA GroupIdsInv ==
  ASSUME CredInv, NEW new \in IdsOf(Gids), CommitGid(new)
  PROVE  CredInv'
BY DEF CredInv, CredTypes, DropIsFinal, FsIdEarned, CapsMatchIds, CommitGid

LEMMA InitCredInv == CredInit => CredInv
<1> SUFFICES ASSUME CredInit PROVE CredInv
  OBVIOUS
<1>1. PICK r \in Uids, e \in Uids : uid = [Same(e) EXCEPT !.r = r]
  BY DEF CredInit
<1>2. uid = [r |-> r, e |-> e, s |-> e, f |-> e]
  BY <1>1 DEF Same
<1>3. PICK r2 \in Gids, e2 \in Gids : gid = [Same(e2) EXCEPT !.r = r2]
  BY DEF CredInit
<1>4. CredTypes
  BY <1>2, <1>3 DEF CredInit, CredTypes, IdsOf, Same
<1> QED
  BY <1>2, <1>4 DEF CredInit, CredInv, DropIsFinal, FsIdEarned, CapsMatchIds, Held

(* Each call that sets user ids: what it makes of them, and that, when it  *)
(* counts as giving root up, root is gone.                                 *)
LEMMA SetreuidInv ==
  ASSUME CredInv, NEW r \in Uids \cup {NoId}, NEW e \in Uids \cup {NoId}, setreuid(r, e)
  PROVE  CredInv'
<1> DEFINE new == SetRe(uid, r, e, caps.now)
<1>1. uid \in IdsOf(Uids) /\ caps.now \in BOOLEAN /\ dropped \in BOOLEAN
  BY DEF CredInv, CredTypes
<1>2. new \in IdsOf(Uids) /\ (new = uid \/ new.f = new.e) /\ (~caps.now => GainsNothing(new, uid))
  BY <1>1, SetReIds
<1>3. ASSUME r = e, r \notin {NoId, Root}, MayRe(uid, r, e, caps.now) PROVE Root \notin Held(new)
  BY <1>3 DEF SetRe, Given, Held
<1>4. CommitUid(new) /\ dropped' \in BOOLEAN /\ (dropped' => dropped \/ Root \notin Held(new))
  BY <1>1, <1>3 DEF setreuid, Drops
<1> QED
  BY <1>2, <1>4, CommitInv

LEMMA SetuidInv ==
  ASSUME CredInv, NEW id \in Uids, setuid(id)
  PROVE  CredInv'
<1> DEFINE new == SetId(uid, id, caps.now)
<1>1. uid \in IdsOf(Uids) /\ caps.now \in BOOLEAN /\ dropped \in BOOLEAN
  BY DEF CredInv, CredTypes
<1>2. new \in IdsOf(Uids) /\ (new = uid \/ new.f = new.e) /\ (~caps.now => GainsNothing(new, uid))
  BY <1>1, SetIdIds
<1>3. ASSUME id # Root, caps.now PROVE Root \notin Held(new)
  BY <1>3 DEF SetId, Held
<1>4. CommitUid(new) /\ dropped' \in BOOLEAN /\ (dropped' => dropped \/ Root \notin Held(new))
  BY <1>1, <1>3 DEF setuid, Drops
<1> QED
  BY <1>2, <1>4, CommitInv

LEMMA SetresuidInv ==
  ASSUME CredInv, NEW r \in Uids \cup {NoId}, NEW e \in Uids \cup {NoId},
         NEW s \in Uids \cup {NoId}, setresuid(r, e, s)
  PROVE  CredInv'
<1> DEFINE new == SetRes(uid, r, e, s, caps.now)
<1>1. uid \in IdsOf(Uids) /\ caps.now \in BOOLEAN /\ dropped \in BOOLEAN
  BY DEF CredInv, CredTypes
<1>2. new \in IdsOf(Uids) /\ (new = uid \/ new.f = new.e) /\ (~caps.now => GainsNothing(new, uid))
  <2>1. new \in IdsOf(Uids)
    BY <1>1, SetResIds
  <2>2. new = uid \/ new.f = new.e
    BY <1>1, SetResIds
  <2>3. ~caps.now => GainsNothing(new, uid)
    BY <1>1, SetResIds
  <2> QED
    BY <2>1, <2>2, <2>3
<1>3. ASSUME caps.now, {r, e, s} \cap {NoId, Root} = {} PROVE Root \notin Held(new)
  BY <1>3 DEF SetRes, Given, Held
<1>4. CommitUid(new) /\ dropped' \in BOOLEAN /\ (dropped' => dropped \/ Root \notin Held(new))
  BY <1>1, <1>3 DEF setresuid, Drops
<1> QED
  BY <1>2, <1>4, CommitInv

LEMMA SetfsuidInv ==
  ASSUME CredInv, NEW id \in Uids, setfsuid(id)
  PROVE  CredInv'
<1> DEFINE new == SetFs(uid, id, caps.now)
<1>1. uid \in IdsOf(Uids) /\ caps.now \in BOOLEAN
  BY DEF CredInv, CredTypes
<1>2. /\ new \in IdsOf(Uids) /\ Held(new) = Held(uid) /\ new.e = uid.e
      /\ ~caps.now => GainsNothing(new, uid)
  BY <1>1, SetFsIds
<1>3. caps.now => Root \in Held(uid)
  BY DEF CredInv, CapsMatchIds, Held
<1>4. uid' = new /\ UNCHANGED <<gid, caps, dropped>>
  BY DEF setfsuid
<1>5. FsIdEarned'
  BY <1>2, <1>3, <1>4 DEF CredInv, FsIdEarned, GainsNothing
<1> QED
  BY <1>2, <1>4, <1>5 DEF CredInv, CredTypes, DropIsFinal, FsIdEarned, CapsMatchIds

(* The calls that set group ids. *)
GroupIdCall ==
  \/ \E r, e \in Gids \cup {NoId} :
       setregid(r, e) \/ \E s \in Gids \cup {NoId} : setresgid(r, e, s)
  \/ \E id \in Gids : setgid(id) \/ setfsgid(id)

LEMMA GroupIdCallIs ==
  ASSUME CredInv, GroupIdCall
  PROVE  \E new \in IdsOf(Gids) : CommitGid(new) /\ (~caps.now => GainsNothing(new, gid))
<1>1. gid \in IdsOf(Gids) /\ caps.now \in BOOLEAN
  BY DEF CredInv, CredTypes
<1> QED
  BY <1>1, SetReIds, SetResIds, SetIdIds, SetFsIds
     DEF GroupIdCall, setregid, setresgid, setgid, setfsgid

LEMMA NextCredInv == CredInv /\ [CredNext]_credVars => CredInv'
<1> SUFFICES ASSUME CredInv, [CredNext]_credVars PROVE CredInv'
  OBVIOUS
<1>1. ASSUME NEW r \in Uids \cup {NoId}, NEW e \in Uids \cup {NoId}, setreuid(r, e)
      PROVE  CredInv'
  BY <1>1, SetreuidInv
<1>2. ASSUME NEW r \in Uids \cup {NoId}, NEW e \in Uids \cup {NoId}, NEW s \in Uids \cup {NoId},
             setresuid(r, e, s)
      PROVE  CredInv'
  BY <1>2, SetresuidInv
<1>3. ASSUME NEW id \in Uids, setuid(id) PROVE CredInv'
  BY <1>3, SetuidInv
<1>4. ASSUME NEW id \in Uids, setfsuid(id) PROVE CredInv'
  BY <1>4, SetfsuidInv
<1>5. CASE GroupIdCall
  BY <1>5, GroupIdCallIs, GroupIdsInv
<1>6. CASE UNCHANGED credVars
  BY <1>6 DEF credVars, CredInv, CredTypes, DropIsFinal, FsIdEarned, CapsMatchIds
<1> QED
  BY <1>1, <1>2, <1>3, <1>4, <1>5, <1>6 DEF CredNext, GroupIdCall

LEMMA CredInvAlways == CredSpec => []CredInv
BY InitCredInv, NextCredInv, PTL DEF CredSpec

(* Root given up with setreuid, setuid or setresuid is never had again,    *)
(* capabilities are what the ids say, the file system id is no way round,  *)
(* and a swap of ids is undone by a second: for any ids and any calls.     *)
THEOREM PrivilegeIsSound == CredSpec => []PrivilegeSound
<1>1. CredInv => PrivilegeSound
  BY NoIdIsNone, SwapTwice DEF CredInv, CredTypes, PrivilegeSound, SwapReturns
<1> QED
  BY <1>1, CredInvAlways, PTL

(* A process that is not capable ends each call with ids it had before.    *)
THEOREM IdsNeverGrowAlways == CredSpec => IdsNeverGrow
<1> DEFINE Kept == GainsNothing(uid', uid) /\ GainsNothing(gid', gid)
<1>1. ASSUME CredInv, [CredNext]_credVars, ~caps.now PROVE Kept
  <2>1. uid \in IdsOf(Uids) /\ gid \in IdsOf(Gids) /\ caps.now \in BOOLEAN
    BY <1>1 DEF CredInv, CredTypes
  <2>2. GainsNothing(uid, uid) /\ GainsNothing(gid, gid)
    BY DEF GainsNothing
  <2>3. CASE GroupIdCall
    <3>1. PICK new : CommitGid(new) /\ GainsNothing(new, gid)
      BY <1>1, <2>3, GroupIdCallIs
    <3> QED
      BY <2>2, <3>1 DEF CommitGid
  <2>4. ASSUME NEW r \in Uids \cup {NoId}, NEW e \in Uids \cup {NoId}, setreuid(r, e) PROVE Kept
    BY <1>1, <2>1, <2>2, <2>4, SetReIds DEF setreuid, CommitUid
  <2>5. ASSUME NEW r \in Uids \cup {NoId}, NEW e \in Uids \cup {NoId},
               NEW s \in Uids \cup {NoId}, setresuid(r, e, s)
        PROVE  Kept
    BY <1>1, <2>1, <2>2, <2>5, SetResIds DEF setresuid, CommitUid
  <2>6. ASSUME NEW id \in Uids, setuid(id) PROVE Kept
    BY <1>1, <2>1, <2>2, <2>6, SetIdIds DEF setuid, CommitUid
  <2>7. ASSUME NEW id \in Uids, setfsuid(id) PROVE Kept
    BY <1>1, <2>1, <2>2, <2>7, SetFsIds DEF setfsuid
  <2>8. CASE UNCHANGED credVars
    BY <2>2, <2>8 DEF credVars
  <2> QED
    BY <1>1, <2>3, <2>4, <2>5, <2>6, <2>7, <2>8 DEF CredNext, GroupIdCall
<1>2. CredInv /\ [CredNext]_credVars
      => [~caps.now => /\ Held(uid)' \subseteq Held(uid)
                       /\ Held(gid)' \subseteq Held(gid)
                       /\ uid'.f \in Held(uid) \cup {uid.f}
                       /\ gid'.f \in Held(gid) \cup {gid.f}]_credVars
  BY <1>1 DEF GainsNothing, Held
<1> QED
  BY <1>2, CredInvAlways, PTL DEF CredSpec, IdsNeverGrow
-----------------------------------------------------------------------------
(* ProcGroups. *)

GroupTypes ==
  /\ alive \subseteq Pids /\ leader \subseteq alive /\ 1 \in alive
  /\ pgrp \in [Pids -> Pids] /\ sess \in [Pids -> Pids]

(* A process that others name their group by is in their session, even     *)
(* when it has left that group: it may come back.                          *)
NamedInSession == \A p, q \in alive : pgrp[q] = p => sess[q] = sess[p]

GroupInv == GroupTypes /\ GroupsNest /\ NamedInSession
-----------------------------------------------------------------------------
LEMMA InitGroupInv == GroupInit => GroupInv
BY PidAssumption
   DEF GroupInit, GroupInv, GroupTypes, GroupsNest, GroupInOneSession, LeaderLeads,
       SessionHasLeader, NamedInSession, Pids

LEMMA ForkInv ==
  ASSUME GroupInv, NEW c \in alive, TaskForks(c)
  PROVE  GroupInv'
<1> USE DEF GroupInv, GroupsNest
<1>1. PICK n \in Pids :
        /\ Free(n) /\ alive' = alive \cup {n} /\ leader' = leader
        /\ pgrp' = [pgrp EXCEPT ![n] = pgrp[c]] /\ sess' = [sess EXCEPT ![n] = sess[c]]
  BY DEF TaskForks
<1>2. n \notin alive /\ n \notin leader /\ \A p \in alive : pgrp[p] # n /\ sess[p] # n
  BY <1>1 DEF Free, GroupTypes
<1>3. GroupTypes'
  BY <1>1 DEF GroupTypes
(* The child is to the others what its parent is.                          *)
<1>4. /\ \A p \in alive : pgrp'[p] = pgrp[p] /\ sess'[p] = sess[p]
      /\ pgrp'[n] = pgrp[c] /\ sess'[n] = sess[c]
  BY <1>1, <1>2 DEF GroupTypes
<1>5. GroupInOneSession'
  BY <1>1, <1>4 DEF GroupInOneSession
<1>6. LeaderLeads'
  BY <1>1, <1>2, <1>4 DEF LeaderLeads, GroupTypes
<1>7. SessionHasLeader'
  BY <1>1, <1>2, <1>4 DEF SessionHasLeader
<1>8. NamedInSession'
  BY <1>1, <1>2, <1>4 DEF NamedInSession
<1> QED
  BY <1>3, <1>5, <1>6, <1>7, <1>8

LEMMA ExitInv ==
  ASSUME GroupInv, NEW c \in alive, TaskExits(c)
  PROVE  GroupInv'
<1> USE DEF GroupInv, GroupsNest
<1>1. GroupTypes'
  BY PidAssumption DEF GroupTypes, TaskExits, Pids
<1>2. /\ alive' = alive \ {c} /\ leader' = leader \ {c}
      /\ \A p \in alive' : pgrp'[p] = pgrp[p] /\ sess'[p] = sess[p]
  BY DEF TaskExits, GroupTypes
<1>3. GroupInOneSession' /\ LeaderLeads' /\ SessionHasLeader' /\ NamedInSession'
  BY <1>2 DEF GroupTypes, GroupInOneSession, LeaderLeads, SessionHasLeader, NamedInSession
<1> QED
  BY <1>1, <1>3

LEMMA SetpgidInv ==
  ASSUME GroupInv, NEW c \in alive, NEW p \in Pids, NEW g \in Pids, setpgid(c, p, g)
  PROVE  GroupInv'
<1> USE DEF GroupInv, GroupsNest
<1>1. /\ p \in alive /\ p \notin leader /\ sess[p] = sess[c]
      /\ g = p \/ \E q \in alive : pgrp[q] = g /\ sess[q] = sess[p]
      /\ pgrp' = [pgrp EXCEPT ![p] = g]
      /\ UNCHANGED <<alive, sess, leader>>
  BY DEF setpgid, Moves, Joins
<1>2. GroupTypes'
  BY <1>1 DEF GroupTypes
(* Whoever is in the group g, or names it, is in the session of p.         *)
<1>3. /\ \A q \in alive : pgrp[q] = g => sess[q] = sess[p]
      /\ g \in alive => sess[g] = sess[p]
  BY <1>1 DEF GroupInOneSession, NamedInSession
<1>4. pgrp'[p] = g /\ \A q \in alive : q # p => pgrp'[q] = pgrp[q]
  BY <1>1 DEF GroupTypes
<1>5. GroupInOneSession'
  BY <1>1, <1>3, <1>4 DEF GroupInOneSession
<1>6. LeaderLeads' /\ SessionHasLeader'
  BY <1>1, <1>4 DEF GroupTypes, LeaderLeads, SessionHasLeader
<1>7. NamedInSession'
  BY <1>1, <1>3, <1>4 DEF NamedInSession
<1> QED
  BY <1>2, <1>5, <1>6, <1>7

LEMMA SetsidInv ==
  ASSUME GroupInv, NEW c \in alive, setsid(c)
  PROVE  GroupInv'
<1> USE DEF GroupInv, GroupsNest
<1>1. \A p \in alive : pgrp[p] # c
  BY DEF setsid, MayLead, GroupExists
<1>2. GroupTypes'
  BY DEF setsid, GroupTypes
<1>3. /\ alive' = alive /\ leader' = leader \cup {c} /\ pgrp'[c] = c /\ sess'[c] = c
      /\ \A p \in alive : p # c => pgrp'[p] = pgrp[p] /\ sess'[p] = sess[p]
  BY DEF setsid, GroupTypes
<1>4. GroupInOneSession'
  BY <1>1, <1>3 DEF GroupInOneSession
<1>5. LeaderLeads' /\ SessionHasLeader'
  BY <1>1, <1>3 DEF GroupTypes, LeaderLeads, SessionHasLeader
<1>6. NamedInSession'
  BY <1>1, <1>3 DEF NamedInSession
<1> QED
  BY <1>2, <1>4, <1>5, <1>6

LEMMA NextGroupInv == GroupInv /\ [GroupNext]_groupVars => GroupInv'
<1> SUFFICES ASSUME GroupInv, [GroupNext]_groupVars PROVE GroupInv'
  OBVIOUS
<1>1. ASSUME UNCHANGED <<alive, pgrp, sess, leader>> PROVE GroupInv'
  BY <1>1 DEF GroupInv, GroupTypes, GroupsNest, GroupInOneSession, LeaderLeads,
              SessionHasLeader, NamedInSession
<1>2. ASSUME NEW c \in alive, TaskForks(c) PROVE GroupInv'
  BY <1>2, ForkInv
<1>3. ASSUME NEW c \in alive, TaskExecs(c) PROVE GroupInv'
  BY <1>1, <1>3 DEF TaskExecs
<1>4. ASSUME NEW c \in alive, TaskExits(c) PROVE GroupInv'
  BY <1>4, ExitInv
<1>5. ASSUME NEW c \in alive, setsid(c) PROVE GroupInv'
  BY <1>5, SetsidInv
<1>6. ASSUME NEW c \in alive, NEW p \in Pids, NEW g \in Pids, setpgid(c, p, g) PROVE GroupInv'
  BY <1>6, SetpgidInv
<1>7. CASE UNCHANGED groupVars
  BY <1>1, <1>7 DEF groupVars
<1> QED
  BY <1>2, <1>3, <1>4, <1>5, <1>6, <1>7 DEF GroupNext

(* Among any number of processes that fork, exec, end, move between groups *)
(* and begin sessions, no group spans two sessions and no leader strays.   *)
THEOREM GroupsNestAlways == GroupSpec => []GroupsNest
<1>1. GroupInv => GroupsNest
  BY DEF GroupInv
<1> QED
  BY <1>1, InitGroupInv, NextGroupInv, PTL DEF GroupSpec
-----------------------------------------------------------------------------
(* Priority. *)

Limit == [cur : Nat, max : Nat]

LoopCall ==
  [phase : {"loop"}, by : {"caller", "mysetnice"}, op : {"set", "get"}, v : Nices,
   todo : SUBSET Tasks, user : Users \cup {NoId}, next : Tasks \cup {NoTask},
   error : {"ESRCH", "none", "refused"}, set : SUBSET Tasks, missed : BOOLEAN, seen : Int]
LimitCall == [phase : {"limit"}, task : Tasks, new : Limit]
DoneCall ==
  [phase : {"done"}, by : {"caller", "mysetnice"}, op : {"set", "get"}, some : BOOLEAN,
   missed : BOOLEAN, seen : Int, ret : Int]
VainCall == [phase : {"done"}, by : {"mysetnice"}, op : {"none"}, ret : {EFAULT}]

Call == LoopCall \cup LimitCall \cup DoneCall \cup VainCall \cup {NotCalling}

PrioTypes ==
  /\ nice \in [Tasks -> Nices]
  /\ rlim \in [Tasks -> Limit]
  /\ lowest \in [Tasks -> Int]
  /\ prioCall \in [Tasks -> Call]

(* A hard limit bounds what its task was ever entitled to.                 *)
Entitled ==
  \A t \in Tasks : /\ rlim[t].cur <= rlim[t].max
                   /\ lowest[t] <= rlimit_to_nice(rlim[t].max)
                   /\ lowest[t] <= nice[t]

(* A value that was checked and is not set yet is still earned, whatever   *)
(* became of limits, ids and values since.                                 *)
CheckedIsEarned ==
  \A t \in Tasks : LET c == prioCall[t] IN
    c.phase = "loop" /\ c.next # NoTask => lowest[c.next] <= c.v

Found(c) == c.set # {} \/ c.next # NoTask

(* A loop's error tells what it has met so far; that of mysetnice meets    *)
(* one task at most.                                                       *)
LoopTells(c) ==
  /\ c.error = "ESRCH" => ~c.missed /\ ~Found(c)
  /\ c.error = "none" => ~c.missed /\ Found(c)
  /\ c.by = "mysetnice" /\ c.op = "set" =>
       /\ c.error = "refused" => ~Found(c)
       /\ c.error = "ESRCH" => \E p \in Tasks : c.todo \subseteq {p}
       /\ c.error # "ESRCH" => c.todo = {}
  /\ c.seen = -1 \/ c.seen >= 1

LoopsTell == \A t \in Tasks : prioCall[t].phase = "loop" => LoopTells(prioCall[t])

PrioInv == PrioTypes /\ Entitled /\ CheckedIsEarned /\ LoopsTell /\ CallsTell
-----------------------------------------------------------------------------
LEMMA NiceIsInt == /\ MinNice \in Int /\ MaxNice \in Int /\ EFAULT \in Int /\ EFAULT > 0
                   /\ NoTask \notin Tasks
BY NiceAssumption, FaultAssumption, NoTaskAssumption

LEMMA NormalizedInRange ==
  ASSUME NEW v \in Int PROVE Normalized(v) \in Nices
BY NiceAssumption DEF Normalized, Lower, Higher, Nices

(* The phases of a call. *)
LEMMA CallKinds ==
  ASSUME NEW c \in Call
  PROVE  /\ c.phase = "loop" => c \in LoopCall
         /\ c.phase = "limit" => c \in LimitCall
         /\ c.phase = "done" => c \in DoneCall \cup VainCall
BY DEF Call, LoopCall, LimitCall, DoneCall, VainCall, NotCalling

(* CallsTell, for one call. *)
CallTells(c) ==
  /\ c.phase = "done" /\ c.op = "set" /\ c.by = "caller" /\ c.ret = 0 => ~c.missed /\ c.some
  /\ c.phase = "done" /\ c.by = "mysetnice" =>
       CASE c.op = "set" -> c.ret = (IF ~c.some THEN EFAULT ELSE 0)
         [] c.op = "get" -> c.ret = (IF c.seen \in {-1, EFAULT} THEN EFAULT ELSE c.seen)
         [] OTHER        -> c.ret = EFAULT

LEMMA CallsTellEach == CallsTell <=> \A t \in Tasks : CallTells(prioCall[t])
BY Zenon DEF CallsTell, ZeroMeansAll, MysetniceTells, CallTells

(* A step of one call that sets no value: what it leaves must be sound,    *)
(* and it may only raise what tasks are entitled to.                       *)
LEMMA CallStep ==
  ASSUME PrioInv, NEW t \in Tasks, NEW c \in Call, prioCall' = [prioCall EXCEPT ![t] = c],
         UNCHANGED <<nice, rlim>>,
         lowest' \in [Tasks -> Int], \A p \in Tasks : lowest'[p] <= lowest[p],
         CallTells(c),
         c.phase = "loop" => LoopTells(c) /\ (c.next # NoTask => lowest'[c.next] <= c.v)
  PROVE  PrioInv'
<1>1. PrioTypes'
  BY DEF PrioInv, PrioTypes
<1>2. Entitled'
  <2> SUFFICES ASSUME NEW p \in Tasks
               PROVE  lowest'[p] <= rlimit_to_nice(rlim[p].max) /\ lowest'[p] <= nice[p]
    BY DEF PrioInv, Entitled
  <2>1. rlimit_to_nice(rlim[p].max) \in Int
    BY NiceIsInt DEF PrioInv, PrioTypes, Limit, rlimit_to_nice
  <2>2. nice[p] \in Int
    BY NiceIsInt DEF PrioInv, PrioTypes, Nices
  <2>3. lowest[p] \in Int /\ lowest'[p] \in Int
    BY DEF PrioInv, PrioTypes
  <2> QED
    BY <2>1, <2>2, <2>3 DEF PrioInv, Entitled
<1>3. \A q \in Tasks : prioCall'[q] = IF q = t THEN c ELSE prioCall[q]
  BY DEF PrioInv, PrioTypes
<1>4. CheckedIsEarned'
  <2> SUFFICES ASSUME NEW q \in Tasks, q # t,
                      prioCall[q].phase = "loop", prioCall[q].next # NoTask
               PROVE  lowest'[prioCall[q].next] <= prioCall[q].v
    BY <1>3 DEF CheckedIsEarned
  <2>1. prioCall[q] \in LoopCall
    BY CallKinds DEF PrioInv, PrioTypes
  <2>2. prioCall[q].next \in Tasks /\ prioCall[q].v \in Int
    BY <2>1, NiceIsInt DEF LoopCall, Nices
  <2> QED
    <3>1. lowest[prioCall[q].next] <= prioCall[q].v
      BY DEF PrioInv, CheckedIsEarned
    <3>2. lowest'[prioCall[q].next] \in Int /\ lowest[prioCall[q].next] \in Int
      BY <2>2 DEF PrioInv, PrioTypes
    <3> QED
      BY <2>2, <3>1, <3>2
<1>5. LoopsTell'
  BY <1>3 DEF PrioInv, LoopsTell
<1>6. CallsTell'
  <2>1. \A q \in Tasks : CallTells(prioCall'[q])
    BY <1>3, CallsTellEach DEF PrioInv
  <2> QED
    BY <2>1, Zenon DEF CallsTell, ZeroMeansAll, MysetniceTells, CallTells
<1> QED
  BY <1>1, <1>2, <1>4, <1>5, <1>6 DEF PrioInv

LEMMA InitPrioInv == PrioInit => PrioInv
<1> SUFFICES ASSUME PrioInit PROVE PrioInv
  OBVIOUS
<1>1. rlim \in [Tasks -> Limit] /\ \A t \in Tasks : rlim[t].cur <= rlim[t].max
  BY LimitAssumption DEF PrioInit, Limit
<1>2. nice = [t \in Tasks |-> MaxNice] /\ MaxNice \in Nices
  BY NiceAssumption DEF PrioInit, Nices
<1>3. \A t \in Tasks : /\ rlimit_to_nice(rlim[t].max) \in Int
                       /\ lowest[t] = Lower(MaxNice, rlimit_to_nice(rlim[t].max))
  BY <1>1, <1>2, NiceIsInt DEF PrioInit, Limit, rlimit_to_nice
<1>4. lowest \in [Tasks -> Int] /\ Entitled
  BY <1>1, <1>2, <1>3, NiceIsInt DEF PrioInit, Entitled, Lower, Nices
<1>5. \A t \in Tasks : prioCall[t] = NotCalling /\ prioCall[t].phase = "idle"
  BY DEF PrioInit, NotCalling
<1>6. PrioTypes
  BY <1>1, <1>2, <1>4 DEF PrioTypes, PrioInit, Call
<1>7. CheckedIsEarned /\ LoopsTell
  BY <1>5 DEF CheckedIsEarned, LoopsTell
<1>8. CallsTell
  BY <1>5, CallsTellEach DEF CallTells
<1> QED
  BY <1>4, <1>6, <1>7, <1>8 DEF PrioInv

LEMMA LoopInv ==
  ASSUME PrioInv, NEW t \in Tasks, NEW by \in {"caller", "mysetnice"}, NEW op \in {"set", "get"},
         NEW v \in Nices, NEW todo \in SUBSET Tasks, NEW user \in Users \cup {NoId},
         Loop(t, by, op, v, todo, user),
         by = "mysetnice" => \E p \in Tasks : todo \subseteq {p}
  PROVE  PrioInv'
<1> DEFINE c == [phase |-> "loop", by |-> by, op |-> op, v |-> v, todo |-> todo, user |-> user,
                 next |-> NoTask, error |-> "ESRCH", set |-> {}, missed |-> FALSE, seen |-> -1]
<1>1. c \in LoopCall
  BY DEF LoopCall
<1>2. c \in Call /\ CallTells(c) /\ LoopTells(c) /\ c.next = NoTask
  BY <1>1 DEF Call, CallTells, LoopTells, Found
<1>3. prioCall' = [prioCall EXCEPT ![t] = c] /\ UNCHANGED <<nice, rlim, lowest>>
  BY DEF Loop
<1>4. lowest' \in [Tasks -> Int] /\ \A p \in Tasks : lowest'[p] <= lowest[p]
  BY <1>3 DEF PrioInv, PrioTypes
<1> HIDE DEF c
<1> QED
  BY <1>2, <1>3, <1>4, CallStep

LEMMA SomeTasksInv ==
  ASSUME PrioInv, NEW t \in Tasks, NEW by \in {"caller", "mysetnice"}, NEW op \in {"set", "get"},
         NEW v \in Nices, SomeTasks(t, by, op, v)
  PROVE  PrioInv'
<1>1. ASSUME NEW p \in Tasks, Loop(t, by, op, v, {p}, NoId) PROVE PrioInv'
  BY <1>1, LoopInv
<1>2. CASE Loop(t, by, op, v, {}, NoId)
  BY <1>2, LoopInv
<1> QED
  BY <1>1, <1>2 DEF SomeTasks

LEMMA SetpriorityInv ==
  ASSUME PrioInv, NEW t \in Tasks, NEW v \in Asked, setpriority(t, v)
  PROVE  PrioInv'
<1>1. Normalized(v) \in Nices
  BY NormalizedInRange, NiceIsInt DEF Asked
<1>2. ASSUME NEW g, Loop(t, "caller", "set", Normalized(v), {p \in Tasks : Pgrp[p] = g}, NoId)
      PROVE  PrioInv'
  BY <1>1, <1>2, LoopInv
<1>3. ASSUME NEW u \in Users, Loop(t, "caller", "set", Normalized(v), Tasks, u)
      PROVE  PrioInv'
  BY <1>1, <1>3, LoopInv
<1> QED
  BY <1>1, <1>2, <1>3, SomeTasksInv DEF setpriority

LEMMA GetpriorityInv ==
  ASSUME PrioInv, NEW t \in Tasks, getpriority(t)
  PROVE  PrioInv'
<1>1. MaxNice \in Nices
  BY NiceAssumption DEF Nices
<1>2. ASSUME NEW g, Loop(t, "caller", "get", MaxNice, {p \in Tasks : Pgrp[p] = g}, NoId)
      PROVE  PrioInv'
  BY <1>1, <1>2, LoopInv
<1>3. ASSUME NEW u \in Users, Loop(t, "caller", "get", MaxNice, Tasks, u)
      PROVE  PrioInv'
  BY <1>1, <1>3, LoopInv
<1> QED
  BY <1>1, <1>2, <1>3, SomeTasksInv DEF getpriority

LEMMA MysetniceInv ==
  ASSUME PrioInv, NEW t \in Tasks, NEW v \in Asked, NEW flag \in 0 .. 2, mysetnice(t, flag, v)
  PROVE  PrioInv'
<1>1. Normalized(v) \in Nices /\ MaxNice \in Nices
  BY NormalizedInRange, NiceAssumption DEF Asked, Nices
<1>2. CASE flag = 0
  BY <1>1, <1>2, SomeTasksInv DEF mysetnice
<1>3. CASE flag = 1
  BY <1>1, <1>3, SomeTasksInv DEF mysetnice
<1>4. CASE flag = 2
  <2> DEFINE c == [phase |-> "done", by |-> "mysetnice", op |-> "none", ret |-> EFAULT]
  <2>1. c \in Call /\ CallTells(c) /\ c.phase # "loop"
    BY DEF Call, VainCall, CallTells
  <2>2. prioCall' = [prioCall EXCEPT ![t] = c] /\ UNCHANGED <<nice, rlim, lowest>>
    BY <1>4 DEF mysetnice
  <2>3. lowest' \in [Tasks -> Int] /\ \A p \in Tasks : lowest'[p] <= lowest[p]
    BY <2>2 DEF PrioInv, PrioTypes
  <2> HIDE DEF c
  <2> QED
    BY <2>1, <2>2, <2>3, CallStep
<1> QED
  BY <1>2, <1>3, <1>4
-----------------------------------------------------------------------------
(* The loops. *)

LEMMA LoopAt ==
  ASSUME PrioInv, NEW t \in Tasks, prioCall[t].phase = "loop"
  PROVE  /\ prioCall[t] \in LoopCall /\ LoopTells(prioCall[t]) /\ prioCall[t].v \in Int
         /\ prioCall[t].next # NoTask => lowest[prioCall[t].next] <= prioCall[t].v
<1>1. prioCall[t] \in LoopCall
  BY CallKinds DEF PrioInv, PrioTypes
<1> QED
  BY <1>1, NiceIsInt DEF PrioInv, LoopsTell, CheckedIsEarned, LoopCall, Nices

(* What the kernel lets pass is earned: the value is no better, or within  *)
(* the hard limit, or the caller is capable and lowers what is earned.     *)
LEMMA NotRefusedIsEarned ==
  ASSUME PrioInv, NEW t \in Tasks, NEW p \in Tasks, NEW v \in Int, ~Refused(t, p, v), ~Capable(t)
  PROVE  lowest[p] <= v
<1>1. /\ nice[p] \in Int /\ lowest[p] \in Int /\ rlim[p].cur \in Int /\ rlim[p].max \in Int
      /\ rlim[p].cur <= rlim[p].max /\ lowest[p] <= MaxNice + 1 - rlim[p].max
      /\ lowest[p] <= nice[p]
  BY NiceIsInt DEF PrioInv, PrioTypes, Entitled, Nices, Limit, rlimit_to_nice
<1>2. v >= nice[p] \/ MaxNice + 1 - v <= rlim[p].cur
  BY <1>1 DEF Refused, can_nice, nice_to_rlimit
<1> QED
  BY <1>1, <1>2, NiceIsInt

LEMMA SetOneInv ==
  ASSUME PrioInv, NEW t \in Tasks, NEW p \in prioCall[t].todo, set_one_prio(t, p),
         prioCall[t].phase = "loop", prioCall[t].next = NoTask, UNCHANGED <<nice, rlim>>
  PROVE  PrioInv'
<1> DEFINE c == prioCall[t]
           refused == [c EXCEPT !.todo = @ \ {p}, !.error = "refused", !.missed = TRUE]
           found == [c EXCEPT !.todo = @ \ {p}, !.error = NoErrorSince(@), !.next = p]
<1>1. c \in LoopCall /\ LoopTells(c) /\ c.v \in Int /\ c.op = "set" /\ p \in Tasks
  BY LoopAt DEF set_one_prio, LoopCall
<1>2. /\ lowest' \in [Tasks -> Int]
      /\ \A q \in Tasks : lowest'[q] <= lowest[q]
      /\ Capable(t) => lowest'[p] <= c.v
  BY <1>1 DEF set_one_prio, PrioInv, PrioTypes, Lower
<1>3. CASE Refused(t, p, c.v)
  <2>1. refused \in LoopCall
    BY <1>1 DEF LoopCall
  <2>2. refused \in Call /\ CallTells(refused) /\ refused.phase = "loop" /\ refused.next = NoTask
    BY <1>1, <2>1 DEF Call, CallTells, LoopCall
  <2>3. LoopTells(refused)
    BY <1>1 DEF LoopTells, Found, LoopCall
  <2>4. prioCall' = [prioCall EXCEPT ![t] = refused]
    BY <1>3 DEF set_one_prio
  <2> HIDE DEF refused
  <2> QED
    BY <1>2, <2>2, <2>3, <2>4, CallStep
<1>4. CASE ~Refused(t, p, c.v)
  <2>1. lowest'[p] <= c.v
    <3>1. CASE ~Capable(t)
      <4>1. lowest[p] <= c.v
        BY <1>1, <1>4, <3>1, NotRefusedIsEarned
      <4> QED
        BY <1>1, <3>1, <4>1 DEF set_one_prio
    <3> QED
      BY <1>2, <3>1
  <2>2. found \in LoopCall
    BY <1>1 DEF LoopCall, NoErrorSince
  <2>3. found \in Call /\ CallTells(found) /\ found.phase = "loop" /\ found.next = p
        /\ found.v = c.v
    BY <1>1, <2>2 DEF Call, CallTells, LoopCall
  <2>4. LoopTells(found)
    BY <1>1, NiceIsInt DEF LoopTells, Found, LoopCall, NoErrorSince
  <2>5. prioCall' = [prioCall EXCEPT ![t] = found]
    BY <1>4 DEF set_one_prio
  <2> HIDE DEF found
  <2> QED
    BY <1>2, <2>1, <2>3, <2>4, <2>5, CallStep
<1> QED
  BY <1>3, <1>4

LEMMA GetOneInv ==
  ASSUME PrioInv, NEW t \in Tasks, NEW p \in prioCall[t].todo, get_one_prio(t, p),
         prioCall[t].phase = "loop", prioCall[t].next = NoTask, UNCHANGED <<nice, rlim>>
  PROVE  PrioInv'
<1> DEFINE c == prioCall[t]
           seen == Higher(c.seen, nice_to_rlimit(nice[p]))
           d == [c EXCEPT !.todo = @ \ {p}, !.seen = seen]
<1>1. c \in LoopCall /\ LoopTells(c) /\ c.op = "get" /\ p \in Tasks
  BY LoopAt DEF get_one_prio, LoopCall
<1>2. nice_to_rlimit(nice[p]) \in Int /\ nice_to_rlimit(nice[p]) >= 1
  BY <1>1, NiceIsInt DEF PrioInv, PrioTypes, Nices, nice_to_rlimit
<1>3. seen \in Int /\ (seen = -1 \/ seen >= 1)
  BY <1>1, <1>2 DEF LoopTells, LoopCall, Higher
<1> HIDE DEF seen
<1>4. d \in LoopCall
  BY <1>1, <1>3 DEF LoopCall
<1>5. d \in Call /\ CallTells(d) /\ d.phase = "loop" /\ d.next = NoTask
  BY <1>1, <1>4 DEF Call, CallTells, LoopCall
<1>6. LoopTells(d)
  BY <1>1, <1>3 DEF LoopTells, Found, LoopCall
<1>7. prioCall' = [prioCall EXCEPT ![t] = d] /\ UNCHANGED lowest
  BY DEF get_one_prio, seen
<1>8. lowest' \in [Tasks -> Int] /\ \A q \in Tasks : lowest'[q] <= lowest[q]
  BY <1>7 DEF PrioInv, PrioTypes
<1> HIDE DEF d
<1> QED
  BY <1>5, <1>6, <1>7, <1>8, CallStep

LEMMA VisitInv ==
  ASSUME PrioInv, NEW t \in Tasks, VisitTask(t)
  PROVE  PrioInv'
<1> DEFINE c == prioCall[t]
<1>1. /\ c.phase = "loop" /\ c.next = NoTask /\ UNCHANGED <<nice, rlim>>
  BY DEF VisitTask
<1>2. PICK p \in c.todo :
        IF OfUser(c, p) THEN set_one_prio(t, p) \/ get_one_prio(t, p)
        ELSE prioCall' = [prioCall EXCEPT ![t].todo = @ \ {p}] /\ UNCHANGED lowest
  BY DEF VisitTask
<1>3. CASE OfUser(c, p)
  BY <1>1, <1>2, <1>3, SetOneInv, GetOneInv
<1>4. CASE ~OfUser(c, p)
  <2> DEFINE d == [c EXCEPT !.todo = @ \ {p}]
  <2>1. c \in LoopCall /\ LoopTells(c)
    BY <1>1, LoopAt
  <2>2. d \in LoopCall
    BY <2>1 DEF LoopCall
  <2>3. d \in Call /\ CallTells(d) /\ d.phase = "loop" /\ d.next = NoTask
    BY <1>1, <2>1, <2>2 DEF Call, CallTells, LoopCall
  <2>4. LoopTells(d)
    BY <2>1 DEF LoopTells, Found, LoopCall
  <2>5. prioCall' = [prioCall EXCEPT ![t] = d] /\ UNCHANGED lowest
    BY <1>2, <1>4
  <2>6. lowest' \in [Tasks -> Int] /\ \A q \in Tasks : lowest'[q] <= lowest[q]
    BY <2>5 DEF PrioInv, PrioTypes
  <2> HIDE DEF d
  <2> QED
    BY <1>1, <2>3, <2>4, <2>5, <2>6, CallStep
<1> QED
  BY <1>3, <1>4

LEMMA SetNiceInv ==
  ASSUME PrioInv, NEW t \in Tasks, set_user_nice(t)
  PROVE  PrioInv'
<1> DEFINE c == prioCall[t]
           d == [c EXCEPT !.next = NoTask, !.set = @ \cup {c.next}]
<1>1. c.phase = "loop" /\ c.next # NoTask /\ UNCHANGED <<rlim, lowest>>
  BY DEF set_user_nice
<1>2. c \in LoopCall /\ LoopTells(c) /\ c.v \in Nices /\ c.next \in Tasks
      /\ lowest[c.next] <= c.v
  BY <1>1, LoopAt DEF LoopCall
<1>3. nice' = [nice EXCEPT ![c.next] = c.v]
  BY DEF set_user_nice
<1>4. d \in LoopCall
  BY <1>2 DEF LoopCall
<1>5. d \in Call /\ CallTells(d) /\ d.phase = "loop" /\ d.next = NoTask
  BY <1>1, <1>2, <1>4 DEF Call, CallTells, LoopCall
<1>6. LoopTells(d)
  BY <1>1, <1>2 DEF LoopTells, Found, LoopCall
<1>7. prioCall' = [prioCall EXCEPT ![t] = d]
  BY <1>2 DEF set_user_nice, PrioInv, PrioTypes
<1> HIDE DEF d
<1>8. \A q \in Tasks : prioCall'[q] = IF q = t THEN d ELSE prioCall[q]
  BY <1>7 DEF PrioInv, PrioTypes
<1>9. PrioTypes'
  BY <1>1, <1>2, <1>3, <1>5, <1>7 DEF PrioInv, PrioTypes
<1>10. Entitled'
  BY <1>1, <1>2, <1>3 DEF PrioInv, PrioTypes, Entitled
<1>11. CheckedIsEarned' /\ LoopsTell'
  BY <1>1, <1>5, <1>6, <1>8 DEF PrioInv, CheckedIsEarned, LoopsTell
<1>12. CallsTell'
  <2>1. \A q \in Tasks : CallTells(prioCall'[q])
    BY <1>5, <1>8, CallsTellEach DEF PrioInv
  <2> QED
    BY <2>1, Zenon DEF CallsTell, ZeroMeansAll, MysetniceTells, CallTells
<1> QED
  BY <1>9, <1>10, <1>11, <1>12 DEF PrioInv

LEMMA ReturnInv ==
  ASSUME PrioInv, NEW t \in Tasks, PrioReturn(t)
  PROVE  PrioInv'
<1> DEFINE c == prioCall[t]
           ret == IF c.by = "mysetnice" THEN MysetniceResult(c) ELSE Result(c)
           d == [phase |-> "done", by |-> c.by, op |-> c.op, some |-> c.set # {},
                 missed |-> c.missed, seen |-> c.seen, ret |-> ret]
<1>1. c.phase = "loop" /\ c.next = NoTask /\ UNCHANGED <<nice, rlim, lowest>>
      /\ prioCall' = [prioCall EXCEPT ![t] = d]
  BY DEF PrioReturn
<1>2. c \in LoopCall /\ LoopTells(c)
  BY <1>1, LoopAt
<1>3. ret = IF c.op = "get"
            THEN IF c.by = "mysetnice" /\ c.seen <= 0 THEN EFAULT ELSE c.seen
            ELSE IF c.error = "none" THEN 0 ELSE IF c.by = "mysetnice" THEN EFAULT ELSE -1
  <2>1. c.by \in {"caller", "mysetnice"} /\ c.op \in {"set", "get"}
    BY <1>2 DEF LoopCall
  <2>2. CASE c.op = "get"
    BY <2>1, <2>2 DEF Result, MysetniceResult
  <2>3. CASE c.op = "set"
    BY <2>1, <2>3 DEF Result, MysetniceResult
  <2> QED
    BY <2>1, <2>2, <2>3
<1> HIDE DEF ret
<1>4. ret \in Int
  BY <1>2, <1>3, NiceIsInt DEF LoopCall
<1>5. d \in DoneCall
  BY <1>2, <1>4 DEF LoopCall, DoneCall
<1>6. CallTells(d)
  <2>1. c.op \in {"set", "get"} /\ c.seen \in Int /\ c.error \in {"ESRCH", "none", "refused"}
    BY <1>2 DEF LoopCall
  <2>2. CASE c.op = "set"
    <3>1. d.op = "set" /\ d.by = c.by /\ d.missed = c.missed /\ d.ret = ret
          /\ (d.some <=> c.set # {})
      BY <2>2
    <3>2. (c.error = "none" => ~c.missed /\ c.set # {}) /\ (c.error = "ESRCH" => c.set = {})
      BY <1>1, <1>2 DEF LoopTells, Found
    <3>3. c.by = "mysetnice" /\ c.error = "refused" => c.set = {}
      BY <1>2, <2>2 DEF LoopTells, Found
    <3>4. ret = IF c.error = "none" THEN 0 ELSE IF c.by = "mysetnice" THEN EFAULT ELSE -1
      BY <1>3, <2>2
    <3> HIDE DEF d
    <3>5. c.by = "caller" /\ ret = 0 => ~d.missed /\ d.some
      BY <3>1, <3>2, <3>4
    <3>6. c.by = "mysetnice" => ret = (IF ~d.some THEN EFAULT ELSE 0)
      BY <2>1, <3>1, <3>2, <3>3, <3>4
    <3> QED
      BY <3>1, <3>5, <3>6 DEF CallTells
  <2>3. CASE c.op = "get"
    BY <1>1, <1>2, <1>3, <2>1, <2>3, NiceIsInt DEF CallTells, LoopTells
  <2> QED
    BY <2>1, <2>2, <2>3
<1>7. d \in Call /\ d.phase # "loop"
  BY <1>5 DEF Call
<1>8. lowest' \in [Tasks -> Int] /\ \A q \in Tasks : lowest'[q] <= lowest[q]
  BY <1>1 DEF PrioInv, PrioTypes
<1> HIDE DEF d
<1> QED
  BY <1>1, <1>6, <1>7, <1>8, CallStep
-----------------------------------------------------------------------------
(* Limits and ids. *)

LEMMA PrlimitInv ==
  ASSUME PrioInv, NEW t \in Tasks, NEW p \in Tasks, NEW new \in [cur : Limits, max : Limits],
         prlimit64(t, p, new)
  PROVE  PrioInv'
<1> DEFINE c == [phase |-> "limit", task |-> p, new |-> new]
<1>1. new \in Limit
  BY FaultAssumption DEF Limit
<1>2. c \in Call /\ CallTells(c) /\ c.phase # "loop"
  BY <1>1 DEF Call, LimitCall, CallTells
<1>3. prioCall' = [prioCall EXCEPT ![t] = c] /\ UNCHANGED <<nice, rlim, lowest>>
  BY DEF prlimit64
<1>4. lowest' \in [Tasks -> Int] /\ \A q \in Tasks : lowest'[q] <= lowest[q]
  BY <1>3 DEF PrioInv, PrioTypes
<1> HIDE DEF c
<1> QED
  BY <1>2, <1>3, <1>4, CallStep

LEMMA DoPrlimitInv ==
  ASSUME PrioInv, NEW t \in Tasks, do_prlimit(t)
  PROVE  PrioInv'
<1> DEFINE c == prioCall[t]
           most == rlimit_to_nice(c.new.max)
<1>1. c \in LimitCall
  BY CallKinds DEF do_prlimit, PrioInv, PrioTypes
<1>2. c.task \in Tasks /\ c.new \in Limit /\ most \in Int
  BY <1>1, NiceIsInt DEF LimitCall, Limit, rlimit_to_nice
<1>3. NotCalling \in Call /\ CallTells(NotCalling) /\ NotCalling.phase # "loop"
  BY DEF Call, NotCalling, CallTells
<1>4. nice' = nice /\ prioCall' = [prioCall EXCEPT ![t] = NotCalling]
  BY DEF do_prlimit
<1>5. CASE ~MayLimit(t, c.task, c.new)
  <2>1. lowest' = lowest /\ rlim' = rlim
    BY <1>5 DEF do_prlimit
  <2>2. lowest' \in [Tasks -> Int] /\ \A q \in Tasks : lowest'[q] <= lowest[q]
    BY <2>1 DEF PrioInv, PrioTypes
  <2> QED
    BY <1>3, <1>4, <2>1, <2>2, CallStep
<1>6. CASE MayLimit(t, c.task, c.new)
  <2>1. /\ rlim' = [rlim EXCEPT ![c.task] = c.new]
        /\ lowest' = [lowest EXCEPT ![c.task] = Lower(@, most)]
        /\ c.new.cur <= c.new.max
    BY <1>6 DEF do_prlimit, MayLimit
  <2>2. lowest \in [Tasks -> Int] /\ rlim \in [Tasks -> Limit] /\ nice \in [Tasks -> Int]
    BY NiceIsInt DEF PrioInv, PrioTypes, Nices
  <2>3. /\ lowest' \in [Tasks -> Int] /\ rlim' \in [Tasks -> Limit]
        /\ \A q \in Tasks : lowest'[q] <= lowest[q]
        /\ lowest'[c.task] <= most
    BY <1>2, <2>1, <2>2 DEF Lower
  <2>4. PrioTypes'
    BY <1>3, <1>4, <2>3 DEF PrioInv, PrioTypes
  <2>5. Entitled'
    <3> SUFFICES ASSUME NEW q \in Tasks
                 PROVE  /\ rlim'[q].cur <= rlim'[q].max
                        /\ lowest'[q] <= rlimit_to_nice(rlim'[q].max)
                        /\ lowest'[q] <= nice[q]
      BY <1>4 DEF Entitled
    <3>1. lowest'[q] <= nice[q]
      BY <2>2, <2>3 DEF PrioInv, Entitled
    <3>2. CASE q = c.task
      BY <1>2, <2>1, <2>2, <2>3, <3>1, <3>2
    <3>3. CASE q # c.task
      BY <1>2, <2>1, <2>2, <3>1, <3>3 DEF PrioInv, Entitled
    <3> QED
      BY <3>2, <3>3
  <2>6. \A q \in Tasks : prioCall'[q] = IF q = t THEN NotCalling ELSE prioCall[q]
    BY <1>4 DEF PrioInv, PrioTypes
  <2>7. CheckedIsEarned'
    <3> SUFFICES ASSUME NEW q \in Tasks, prioCall[q].phase = "loop", prioCall[q].next # NoTask
                 PROVE  lowest'[prioCall[q].next] <= prioCall[q].v
      BY <1>3, <2>6 DEF CheckedIsEarned
    <3>1. prioCall[q].next \in Tasks /\ prioCall[q].v \in Int
          /\ lowest[prioCall[q].next] <= prioCall[q].v
      BY LoopAt DEF LoopCall
    <3> QED
      BY <2>2, <2>3, <3>1
  <2>8. LoopsTell'
    BY <1>3, <2>6 DEF PrioInv, LoopsTell
  <2>9. CallsTell'
    <3>1. \A q \in Tasks : CallTells(prioCall'[q])
      BY <1>3, <2>6, CallsTellEach DEF PrioInv
    <3> QED
      BY <3>1, Zenon DEF CallsTell, ZeroMeansAll, MysetniceTells, CallTells
  <2> QED
    BY <2>4, <2>5, <2>7, <2>8, <2>9 DEF PrioInv
<1> QED
  BY <1>5, <1>6

LEMMA NextPrioInv == PrioInv /\ [PrioNext]_prioVars => PrioInv'
<1> SUFFICES ASSUME PrioInv, [PrioNext]_prioVars PROVE PrioInv'
  OBVIOUS
<1>1. ASSUME UNCHANGED <<nice, rlim, prioCall, lowest>> PROVE PrioInv'
  BY <1>1 DEF PrioInv, PrioTypes, Entitled, CheckedIsEarned, LoopsTell, CallsTell, ZeroMeansAll,
              MysetniceTells
<1>2. CASE UNCHANGED prioVars
  BY <1>1, <1>2 DEF prioVars
<1>3. CASE PrioNext
  <2> SUFFICES ASSUME NEW t \in Tasks,
                      \/ \E v \in Asked : setpriority(t, v) \/ \E flag \in 0 .. 2 : mysetnice(t, flag, v)
                      \/ getpriority(t)
                      \/ \E p \in Tasks, new \in [cur : Limits, max : Limits] : prlimit64(t, p, new)
                      \/ \E r, e \in Users \cup {NoId} : ChangeIds(t, r, e)
                      \/ PrioProceed(t)
               PROVE  PrioInv'
    BY <1>3 DEF PrioNext
  <2>1. ASSUME NEW v \in Asked, setpriority(t, v) PROVE PrioInv'
    BY <2>1, SetpriorityInv
  <2>2. ASSUME NEW v \in Asked, NEW flag \in 0 .. 2, mysetnice(t, flag, v) PROVE PrioInv'
    BY <2>2, MysetniceInv
  <2>3. ASSUME NEW p \in Tasks, NEW new \in [cur : Limits, max : Limits], prlimit64(t, p, new)
        PROVE  PrioInv'
    BY <2>3, PrlimitInv
  <2>4. ASSUME NEW r, NEW e, ChangeIds(t, r, e) PROVE PrioInv'
    BY <1>1, <2>4 DEF ChangeIds
  <2>5. CASE PrioProceed(t)
    BY <2>5, VisitInv, SetNiceInv, ReturnInv, DoPrlimitInv DEF PrioProceed
  <2> QED
    BY <2>1, <2>2, <2>3, <2>4, <2>5, GetpriorityInv
<1> QED
  BY <1>2, <1>3

LEMMA PrioInvAlways == PrioSpec => []PrioInv
BY InitPrioInv, NextPrioInv, PTL DEF PrioSpec

(* No task has a better nice value than its first one, its hard limit or a *)
(* capable caller ever entitled it to, though a value is checked in one    *)
(* step and set in another, with limits, ids and values changed between.   *)
THEOREM NiceStaysEarned == PrioSpec => []NiceIsEarned
<1>1. PrioInv => NiceIsEarned
  <2> SUFFICES ASSUME PrioInv, NEW t \in Tasks PROVE nice[t] \in Nices /\ nice[t] >= lowest[t]
    BY DEF NiceIsEarned, NiceInRange
  <2>1. nice[t] \in Nices /\ lowest[t] \in Int /\ lowest[t] <= nice[t]
    BY DEF PrioInv, PrioTypes, Entitled
  <2> QED
    BY <2>1, NiceIsInt DEF Nices
<1> QED
  BY <1>1, PrioInvAlways, PTL

(* What setpriority and mysetnice return is what they did to the tasks     *)
(* they came to, in any order and for any set of them.                     *)
THEOREM CallsTellAlways == PrioSpec => []CallsTell
<1>1. PrioInv => CallsTell
  BY DEF PrioInv
<1> QED
  BY <1>1, PrioInvAlways, PTL
=============================================================================

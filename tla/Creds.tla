------------------------------- MODULE Creds -------------------------------
(***************************************************************************)
(* exam1/sys.c: one process and its calls that set user and group ids.     *)
(* Each call works on a copy of the credentials (prepare_creds), and       *)
(* commits or drops it as a whole, so that a call that fails, for its      *)
(* arguments or for want of memory, changes nothing.                       *)
(***************************************************************************)
EXTENDS Ids

CONSTANTS Uids, Gids    \* the ids there are, Root among them

ASSUME IdsAssumption == Root \in Uids /\ Uids \subseteq Nat /\ Gids \subseteq Nat

VARIABLES
  uid, gid,   \* the ids
  caps,       \* whether the process has capabilities now, and whether it may have
  dropped     \* it made a call, with success, that gives root up for good

credVars == <<uid, gid, caps, dropped>>

Same(x) == [r |-> x, e |-> x, s |-> x, f |-> x]

(* A process as execve leaves it, of a set-user-ID program or not. *)
CredInit ==
  /\ uid \in {[Same(e) EXCEPT !.r = r] : r, e \in Uids}
  /\ gid \in {[Same(e) EXCEPT !.r = r] : r, e \in Gids}
  /\ caps = [may |-> Root \in Held(uid), now |-> uid.e = Root]
  /\ dropped = (Root \notin Held(uid))

CommitUid(new) ==
  /\ uid' = new
  /\ caps' = FixCaps(caps, uid, new)
  /\ UNCHANGED gid

CommitGid(new) == gid' = new /\ UNCHANGED <<uid, caps, dropped>>

(* These calls are for giving up root: both ids, or all of them.           *)
Drops(for) == dropped' = (dropped \/ for)

setreuid(r, e) ==
  /\ CommitUid(SetRe(uid, r, e, caps.now))
  /\ Drops(r = e /\ r \notin {NoId, Root} /\ MayRe(uid, r, e, caps.now))

setuid(id) ==
  /\ CommitUid(SetId(uid, id, caps.now))
  /\ Drops(id # Root /\ caps.now)

setresuid(r, e, s) ==
  /\ CommitUid(SetRes(uid, r, e, s, caps.now))
  /\ Drops(caps.now /\ {r, e, s} \cap {NoId, Root} = {})

(* The security module may only take capabilities for files here. *)
setfsuid(id) ==
  /\ uid' = SetFs(uid, id, caps.now)
  /\ UNCHANGED <<gid, caps, dropped>>

setregid(r, e)     == CommitGid(SetRe(gid, r, e, caps.now))
setgid(id)         == CommitGid(SetId(gid, id, caps.now))
setresgid(r, e, s) == CommitGid(SetRes(gid, r, e, s, caps.now))
setfsgid(id)       == CommitGid(SetFs(gid, id, caps.now))

CredNext ==
  \/ \E r, e \in Uids \cup {NoId} :
       setreuid(r, e) \/ \E s \in Uids \cup {NoId} : setresuid(r, e, s)
  \/ \E id \in Uids : setuid(id) \/ setfsuid(id)
  \/ \E r, e \in Gids \cup {NoId} :
       setregid(r, e) \/ \E s \in Gids \cup {NoId} : setresgid(r, e, s)
  \/ \E id \in Gids : setgid(id) \/ setfsgid(id)

CredSpec == CredInit /\ [][CredNext]_credVars
-----------------------------------------------------------------------------
(* The comments on lines 455 and 526: a program that sets both ids with    *)
(* setreuid, its id with setuid as root, or all with setresuid, is rid of  *)
(* root for good: no sequence of calls brings it back.                     *)
DropIsFinal ==
  dropped => /\ Root \notin Held(uid) \cup {uid.f}
             /\ ~caps.may /\ ~caps.now

(* The comment on line 742: the file system id shadows the effective one   *)
(* except after setfsuid; it is root only for one who could be root.       *)
FsIdEarned == uid.f = Root => Root \in Held(uid)

(* The two views of privilege agree: capabilities follow the ids.          *)
CapsMatchIds == /\ caps.now <=> uid.e = Root
                /\ caps.may <=> Root \in Held(uid)

(* The comment on line 530: swapping the real and the effective id is      *)
(* undone by swapping them again.                                          *)
SwapReturns ==
  LET there == SetRe(uid, uid.e, uid.r, FALSE)
      back  == SetRe(there, there.e, there.r, FALSE)
  IN  back.r = uid.r /\ back.e = uid.e

(* Privilege is what the ids say it is, and what was given up stays so.    *)
PrivilegeSound == DropIsFinal /\ FsIdEarned /\ CapsMatchIds /\ SwapReturns

(* Without capabilities no call brings in an id that was not there.        *)
IdsNeverGrow ==
  [][~caps.now => /\ Held(uid)' \subseteq Held(uid)
                  /\ Held(gid)' \subseteq Held(gid)
                  /\ uid'.f \in Held(uid) \cup {uid.f}
                  /\ gid'.f \in Held(gid) \cup {gid.f}]_credVars
=============================================================================

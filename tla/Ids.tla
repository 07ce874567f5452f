-------------------------------- MODULE Ids --------------------------------
(***************************************************************************)
(* What the calls of exam1/sys.c that set user and group ids make of the   *)
(* ids of a process: r, e, s and f are the real, effective, saved and file *)
(* system id.  An argument is NoId when the caller leaves that id alone.   *)
(* A call that may not be made leaves the ids as they are.                 *)
(***************************************************************************)
EXTENDS Integers

Root == 0
NoId == -1

Held(ids) == {ids.r, ids.e, ids.s}

Given(x, old) == IF x = NoId THEN old ELSE x

(* The real id may become the real or the effective one, the effective id  *)
(* any of the three. *)
MayRe(ids, r, e, capable) ==
  \/ capable
  \/ r \in {NoId, ids.r, ids.e} /\ e \in Held(ids) \cup {NoId}

\* mutant: the saved id stays when only the real id is set
SetReKeeps(ids, r, e, capable) ==
  LET effective == Given(e, ids.e)
  IN  IF MayRe(ids, r, e, capable)
        THEN [r |-> Given(r, ids.r), e |-> effective,
              s |-> IF e \notin {NoId, ids.r} THEN effective ELSE ids.s, f |-> effective]
        ELSE ids

SetRe(ids, r, e, capable) ==
  LET effective == Given(e, ids.e)
  IN  IF MayRe(ids, r, e, capable)
        THEN [r |-> Given(r, ids.r), e |-> effective,
              s |-> IF r # NoId \/ e \notin {NoId, ids.r} THEN effective ELSE ids.s,
              f |-> effective]
        ELSE ids

SetId(ids, id, capable) ==
  IF capable THEN [r |-> id, e |-> id, s |-> id, f |-> id]
  ELSE IF id \in {ids.r, ids.s} THEN [ids EXCEPT !.e = id, !.f = id]
  ELSE ids

\* mutant: the file system id is as good as the others
SetResFs(ids, r, e, s, capable) ==
  IF capable \/ {r, e, s} \subseteq Held(ids) \cup {NoId, ids.f}
    THEN [r |-> Given(r, ids.r), e |-> Given(e, ids.e), s |-> Given(s, ids.s),
          f |-> Given(e, ids.e)]
    ELSE ids

SetRes(ids, r, e, s, capable) ==
  IF capable \/ {r, e, s} \subseteq Held(ids) \cup {NoId}
    THEN [r |-> Given(r, ids.r), e |-> Given(e, ids.e), s |-> Given(s, ids.s),
          f |-> Given(e, ids.e)]
    ELSE ids

SetFs(ids, id, capable) ==
  IF capable \/ id \in Held(ids) \cup {ids.f} THEN [ids EXCEPT !.f = id] ELSE ids

(* The security module's part, which is not in the repository: a process   *)
(* that gives up root in all three ids may never have its capabilities     *)
(* again, one that gives up the effective id keeps them for later.         *)
FixCaps(caps, old, new) ==
  LET may  == caps.may /\ ~(Root \in Held(old) /\ Root \notin Held(new))
  IN  [may |-> may,
       now |-> IF new.e # Root /\ old.e = Root THEN FALSE
               ELSE IF new.e = Root /\ old.e # Root THEN may
               ELSE caps.now /\ may]
=============================================================================

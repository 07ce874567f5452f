------------------------------- MODULE PartsMC -------------------------------
(* The values of the constants of Parts for TLC. *)
EXTENDS Parts, BlkDriverMC, TLC

HelloMC == <<"h", "e", "l", "l", "o">>

(* One of two tasks has the ids of a set-user-ID program of root. *)
UserOfMC == "a" :> {[Same(0) EXCEPT !.r = 1]} @@ "b" :> {Same(1)}
PgrpMC   == [t \in Tasks |-> 1]

Limit(c, m)   == [cur |-> c, max |-> m]
FirstLimitsMC == {"a" :> Limit(1, 1) @@ "b" :> Limit(1, 2)}

BehindMC == {<<>>, <<"?">>}

(* The ends of years, up to the first that seven bits do not hold.         *)
When(y, mo, d, h, mi, s) ==
  [year |-> y, mon |-> mo, mday |-> d, hour |-> h, min |-> mi, sec |-> s]
MomentsMC == <<When(117, 0, 1, 0, 0, 0), When(117, 11, 31, 23, 59, 59),
               When(118, 0, 1, 0, 0, 0), When(127, 11, 31, 23, 59, 60),
               When(128, 0, 1, 0, 0, 0)>>
=============================================================================

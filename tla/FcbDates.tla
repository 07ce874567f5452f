------------------------------ MODULE FcbDates ------------------------------
(***************************************************************************)
(* exam5/File_System/main.cpp: the dates in FCBs, packed in 16 bits each.  *)
(* An entry of a directory, a file or a directory itself, has its FCB on   *)
(* the disk and, while open, a copy in the open file table.  The clock is  *)
(* read at every stamp and goes on between any two of them.                *)
(***************************************************************************)
EXTENDS Naturals, Sequences

CONSTANT Moments   \* the times the clock shows, as localtime breaks them down

Moment ==
  [year : Nat, mon : 0 .. 11, mday : 1 .. 31, hour : 0 .. 23, min : 0 .. 59, sec : 0 .. 60]

NoLaterDay(m, n) ==
  \/ m.year < n.year
  \/ m.year = n.year /\ m.mon < n.mon
  \/ m.year = n.year /\ m.mon = n.mon /\ m.mday <= n.mday

(* The clock is not set back to another day. *)
ASSUME MomentAssumption == Moments \in Seq(Moment) /\ Moments # <<>>
ASSUME ClockAssumption ==
  \A i, j \in DOMAIN Moments : i <= j => NoLaterDay(Moments[i], Moments[j])

VARIABLES
  clock,     \* position in Moments
  isdir,     \* the entry is a directory
  slot,      \* the stamps on the disk
  copy,      \* those in the open file table
  changed,   \* fdt.isUpate
  half,      \* when do_write has stamped the copy and not yet the disk; or 0
  truth      \* the moments that the stamps on the disk may show

dateVars == <<clock, isdir, slot, copy, changed, half, truth>>

(* As memset leaves them: no date is 0. *)
NoStamps == [c_time |-> 0, c_date |-> 0, u_time |-> 0, u_date |-> 0, l_date |-> 0]
Width    == 2 ^ 16

\* mutant: the months are counted from 0
DateFromZero(m) == (m.year * 512 + m.mon * 32 + m.mday) % Width

currentDate(m) == (m.year * 512 + (m.mon + 1) * 32 + m.mday) % Width
currentTime(m) == (m.hour * 2048 + m.min * 32 + m.sec \div 2) % Width

Now == Moments[clock]

DateInit ==
  /\ clock = 1 /\ isdir \in BOOLEAN
  /\ slot = NoStamps /\ copy = NoStamps
  /\ changed = FALSE /\ half = 0
  /\ truth = [c |-> {}, u |-> {}, l |-> {}]
-----------------------------------------------------------------------------
initFcbTime == [c_time |-> currentTime(Now), c_date |-> currentDate(Now),
                u_time |-> currentTime(Now), u_date |-> currentDate(Now),
                l_date |-> currentDate(Now)]

viewFcbTime(fcb) == [fcb EXCEPT !.l_date = currentDate(Now)]

updateFcbTime(fcb) == [fcb EXCEPT !.l_date = currentDate(Now),
                                  !.u_time = currentTime(Now), !.u_date = currentDate(Now)]

Tick == /\ clock < Len(Moments)
        /\ clock' = clock + 1
        /\ UNCHANGED <<isdir, slot, copy, changed, half, truth>>

CreateEntry ==
  /\ slot = NoStamps
  /\ slot' = initFcbTime
  /\ truth' = [c |-> {clock}, u |-> {clock}, l |-> {clock}]
  /\ UNCHANGED <<clock, isdir, copy, changed, half>>

(* Going into a directory is an access; opening a file is none. *)
OpenEntry ==
  /\ slot # NoStamps /\ copy = NoStamps
  /\ slot' = IF isdir THEN viewFcbTime(slot) ELSE slot
  /\ truth' = IF isdir THEN [truth EXCEPT !.l = {clock}] ELSE truth
  /\ copy' = slot'
  /\ changed' = FALSE
  /\ UNCHANGED <<clock, isdir, half>>

(* do_write: the copy, then the FCB on the disk; my_write notes a change. *)
StampCopy ==
  /\ ~isdir /\ copy # NoStamps /\ half = 0
  /\ copy' = updateFcbTime(copy)
  /\ half' = clock
  /\ UNCHANGED <<clock, isdir, slot, changed, truth>>

StampSlot ==
  /\ half # 0
  /\ slot' = updateFcbTime(slot)
  /\ half' = 0 /\ changed' = TRUE
  /\ truth' = [truth EXCEPT !.u = {half, clock}, !.l = {half, clock}]
  /\ UNCHANGED <<clock, isdir, copy>>

(* my_close *)
CloseEntry ==
  /\ copy # NoStamps /\ half = 0
  /\ slot' = IF changed THEN copy ELSE slot
  /\ copy' = NoStamps
  /\ changed' = FALSE
  /\ UNCHANGED <<clock, isdir, half, truth>>

DateNext == Tick \/ CreateEntry \/ OpenEntry \/ StampCopy \/ StampSlot \/ CloseEntry

DateSpec == DateInit /\ [][DateNext]_dateVars
-----------------------------------------------------------------------------
(* What printFile shows of a date and of a time. *)
ShownDate(n) == <<n \div 512 + 1900, (n \div 32) % 16, n % 32>>
ShownTime(n) == <<n \div 2048, (n \div 32) % 64, (n % 32) * 2>>

Date(m) == <<m.year + 1900, m.mon + 1, m.mday>>
Time(m) == <<m.hour, m.min, m.sec - (m.sec % 2)>>

(* Seven bits hold the years up to 2027. *)
InRange(m) == m.year < 128

(* my_ls shows when a file or directory was created, when it was last      *)
(* written or created, and when it was last written or entered, whatever   *)
(* the clock did between the stamps of one write, and although closing     *)
(* puts the older stamp back; later years than 2027 excepted.              *)
DatesAreTrue ==
  slot # NoStamps =>
    LET Made == {Moments[i] : i \in truth.c}
        Written == {Moments[i] : i \in truth.u}
        Seen    == {Moments[i] : i \in truth.l}
    IN  (\A m \in Made \cup Written \cup Seen : InRange(m)) =>
          /\ \E m \in Made : /\ ShownDate(slot.c_date) = Date(m)
                             /\ ShownTime(slot.c_time) = Time(m)
          /\ \E m \in Written : /\ ShownDate(slot.u_date) = Date(m)
                                /\ ShownTime(slot.u_time) = Time(m)
          /\ \E m \in Seen : ShownDate(slot.l_date) = Date(m)
          /\ slot.c_date <= slot.u_date /\ slot.u_date <= slot.l_date
=============================================================================

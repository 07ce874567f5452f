--------------------------- MODULE ProgramProofs ---------------------------
(***************************************************************************)
(* Theorems about the small models that share nothing: the dates in FCBs,  *)
(* the text my_write takes, the pipe between forked processes, and the     *)
(* modules that walk the kernel's lists of tasks.                          *)
(***************************************************************************)
EXTENDS FcbDates, TextEntry, PipeFork, TaskList, FiniteSetTheorems, SequenceTheorems, TLAPS

-----------------------------------------------------------------------------
(* FcbDates. *)

Stamp(i) == <<currentTime(Moments[i]), currentDate(Moments[i])>>

Created(f) == <<f.c_time, f.c_date>>
Updated(f) == <<f.u_time, f.u_date>>

(* The stamps of f were made at the moments c, u and l, in this order.     *)
Stamped(f, c, u, l) ==
  /\ c <= u /\ u <= l
  /\ Created(f) = Stamp(c) /\ Updated(f) = Stamp(u)
  /\ f.l_date = currentDate(Moments[l])

Fields == [c_time : Nat, c_date : Nat, u_time : Nat, u_date : Nat, l_date : Nat]

DateTypes ==
  /\ clock \in DOMAIN Moments
  /\ isdir \in BOOLEAN
  /\ slot \in Fields /\ copy \in Fields
  /\ changed \in BOOLEAN
  /\ half \in 0 .. clock
  /\ truth \in [c : SUBSET (1 .. clock), u : SUBSET (1 .. clock), l : SUBSET (1 .. clock)]

(* The stamps on the disk are of moments they may show. *)
SlotTrue ==
  slot # NoStamps =>
    \E c \in truth.c, u \in truth.u, l \in truth.l : Stamped(slot, c, u, l)

(* What my_close would write is as true: the copy, if it was changed, was  *)
(* stamped in the middle of the last write.                                *)
CopyTrue ==
  copy # NoStamps =>
    /\ slot # NoStamps
    /\ half = 0 /\ ~changed => copy = slot
    /\ half = 0 /\ changed =>
         \E c \in truth.c, m \in truth.u \cap truth.l : Stamped(copy, c, m, m)
    /\ half # 0 => \E c \in truth.c : Stamped(copy, c, half, half)

HalfOpen == half # 0 => copy # NoStamps

DateInv == DateTypes /\ SlotTrue /\ CopyTrue /\ HalfOpen

PackedDate(y, mo, d) == (y * 512 + (mo + 1) * 32 + d) % Width
PackedTime(h, mi, s) == (h * 2048 + mi * 32 + s \div 2) % Width

LEMMA WidthIs == Width = 65536
BY DEF Width

LEMMA DateIsNumber ==
  ASSUME NEW y \in Nat, NEW mo \in 0 .. 11, NEW d \in 1 .. 31
  PROVE  PackedDate(y, mo, d) \in Nat /\ PackedDate(y, mo, d) # 0
<1> DEFINE n == y * 512 + (mo + 1) * 32 + d
<1>1. n \in Nat /\ n % 32 = d
  OBVIOUS
<1>2. ASSUME NEW k \in Nat PROVE k % 65536 \in Nat /\ (k % 65536) % 32 = k % 32
  OBVIOUS
<1>3. PackedDate(y, mo, d) = n % 65536
  BY WidthIs DEF PackedDate
<1> HIDE DEF n
<1>4. 0 % 32 = 0
  OBVIOUS
<1> QED
  BY <1>1, <1>2, <1>3, <1>4

(* The date in 16 bits is the date, and is shown as such. *)
DateFits(y, mo, d) ==
  /\ PackedDate(y, mo, d) = y * 512 + (mo + 1) * 32 + d
  /\ ShownDate(PackedDate(y, mo, d)) = <<y + 1900, mo + 1, d>>

LEMMA DateBits ==
  ASSUME NEW y \in 0 .. 127, NEW mo \in 0 .. 11, NEW d \in 1 .. 31
  PROVE  DateFits(y, mo, d)
<1> DEFINE n == y * 512 + (mo + 1) * 32 + d
<1>1. n \in Nat /\ n % 32 = d
  OBVIOUS
<1>2. n < 65536 /\ n \div 512 = y
  <2>1. \A r \in 0 .. 511 : (y * 512 + r) \div 512 = y
    OBVIOUS
  <2>2. (mo + 1) * 32 + d \in 0 .. 511 /\ n = y * 512 + ((mo + 1) * 32 + d)
    OBVIOUS
  <2>3. n < 65536
    OBVIOUS
  <2> HIDE DEF n
  <2> QED
    BY <2>1, <2>2, <2>3
<1>3. (n \div 32) % 16 = mo + 1
  <2>1. n \div 32 = y * 16 + (mo + 1)
    OBVIOUS
  <2>2. mo + 1 \in 0 .. 15
    OBVIOUS
  <2>3. \A r \in 0 .. 15 : (y * 16 + r) % 16 = r
    OBVIOUS
  <2> HIDE DEF n
  <2> QED
    BY <2>1, <2>2, <2>3
<1>4. PackedDate(y, mo, d) = n
  <2>1. PackedDate(y, mo, d) = n % 65536
    BY WidthIs DEF PackedDate
  <2> HIDE DEF n
  <2> QED
    BY <1>1, <1>2, <2>1
<1>5. ShownDate(n) = <<y + 1900, mo + 1, d>>
  <2> HIDE DEF n
  <2> QED
    BY <1>1, <1>2, <1>3 DEF ShownDate
<1> QED
  BY <1>4, <1>5 DEF DateFits

LEMMA TimeBits ==
  ASSUME NEW h \in 0 .. 23, NEW mi \in 0 .. 59, NEW s \in 0 .. 60
  PROVE  /\ PackedTime(h, mi, s) \in Nat
         /\ ShownTime(PackedTime(h, mi, s)) = <<h, mi, s - (s % 2)>>
<1> DEFINE n == h * 2048 + mi * 32 + s \div 2
<1>1. n \in Nat /\ n < 65536 /\ n \div 2048 = h
  OBVIOUS
<1>2. (n \div 32) % 64 = mi
  OBVIOUS
<1>3. (n % 32) * 2 = s - (s % 2)
  OBVIOUS
<1>4. PackedTime(h, mi, s) = n % 65536
  BY WidthIs DEF PackedTime
<1> HIDE DEF n
<1>5. PackedTime(h, mi, s) = n
  BY <1>1, <1>4
<1> QED
  BY <1>1, <1>2, <1>3, <1>5 DEF ShownTime

(* What a stamp shows, of a day in the range of seven bits. *)
LEMMA DateRound ==
  ASSUME NEW m \in Moment
  PROVE  /\ currentDate(m) \in Nat /\ currentDate(m) # 0
         /\ InRange(m) => /\ ShownDate(currentDate(m)) = Date(m)
                          /\ currentDate(m) = m.year * 512 + (m.mon + 1) * 32 + m.mday
<1>1. PICK y \in Nat, mo \in 0 .. 11, d \in 1 .. 31 : m.year = y /\ m.mon = mo /\ m.mday = d
  BY DEF Moment
<1>2. currentDate(m) = PackedDate(y, mo, d)
  BY <1>1, Zenon DEF currentDate, PackedDate
<1>3. currentDate(m) \in Nat /\ currentDate(m) # 0
  BY <1>1, <1>2, DateIsNumber
<1>4. CASE y < 128
  <2>1. y \in 0 .. 127
    BY <1>4
  <2>2. DateFits(y, mo, d)
    BY <2>1, DateBits
  <2> QED
    BY <1>1, <1>2, <1>3, <2>2 DEF Date, DateFits
<1>5. CASE ~(y < 128)
  BY <1>1, <1>3, <1>5 DEF InRange
<1> QED
  BY <1>4, <1>5

LEMMA TimeRound ==
  ASSUME NEW m \in Moment
  PROVE  currentTime(m) \in Nat /\ ShownTime(currentTime(m)) = Time(m)
<1>1. m.hour \in 0 .. 23 /\ m.min \in 0 .. 59 /\ m.sec \in 0 .. 60
  BY DEF Moment
<1>2. currentTime(m) = PackedTime(m.hour, m.min, m.sec)
  BY Zenon DEF currentTime, PackedTime
<1> QED
  BY <1>1, <1>2, TimeBits, Zenon DEF Time

(* Of two days, the stamp of the later one is not the smaller. *)
LEMMA DateGrows ==
  ASSUME NEW m \in Moment, NEW n \in Moment, NoLaterDay(m, n), InRange(n)
  PROVE  currentDate(m) <= currentDate(n)
<1>1. /\ m.year \in Nat /\ m.mon \in 0 .. 11 /\ m.mday \in 1 .. 31
      /\ n.year \in Nat /\ n.mon \in 0 .. 11 /\ n.mday \in 1 .. 31
  BY DEF Moment
<1>2. InRange(m)
  BY <1>1 DEF InRange, NoLaterDay
<1>3. PICK y1 \in Nat, a \in 0 .. 11, c \in 1 .. 31 : m.year = y1 /\ m.mon = a /\ m.mday = c
  BY <1>1
<1>4. PICK y2 \in Nat, b \in 0 .. 11, d \in 1 .. 31 : n.year = y2 /\ n.mon = b /\ n.mday = d
  BY <1>1
<1>5. /\ currentDate(m) = y1 * 512 + (a + 1) * 32 + c
      /\ currentDate(n) = y2 * 512 + (b + 1) * 32 + d
  BY <1>2, <1>3, <1>4, DateRound
<1>6. y1 < y2 \/ (y1 = y2 /\ a < b) \/ (y1 = y2 /\ a = b /\ c <= d)
  BY <1>3, <1>4 DEF NoLaterDay
<1>7. y1 * 512 + (a + 1) * 32 + c <= y2 * 512 + (b + 1) * 32 + d
  BY <1>6
<1> QED
  BY <1>5, <1>7

LEMMA MomentsTyped ==
  /\ DOMAIN Moments = 1 .. Len(Moments) /\ Len(Moments) \in Nat \ {0}
  /\ \A i \in DOMAIN Moments : Moments[i] \in Moment
BY MomentAssumption

LEMMA NowTyped ==
  ASSUME DateTypes
  PROVE  /\ Now \in Moment /\ currentDate(Now) \in Nat \ {0} /\ currentTime(Now) \in Nat
         /\ clock \in Nat \ {0}
         /\ Stamp(clock) = <<currentTime(Now), currentDate(Now)>>
<1>1. Now \in Moment /\ clock \in Nat \ {0}
  BY MomentsTyped DEF DateTypes, Now
<1> QED
  BY <1>1, DateRound, TimeRound DEF Stamp, Now

(* What is stamped now. *)
LEMMA StampNow ==
  ASSUME DateTypes, NEW f \in Fields
  PROVE  /\ updateFcbTime(f) \in Fields /\ viewFcbTime(f) \in Fields /\ initFcbTime \in Fields
         /\ updateFcbTime(f) # NoStamps /\ viewFcbTime(f) # NoStamps /\ initFcbTime # NoStamps
         /\ NoStamps \in Fields
         /\ Created(updateFcbTime(f)) = Created(f)
         /\ Updated(updateFcbTime(f)) = Stamp(clock)
         /\ updateFcbTime(f).l_date = currentDate(Moments[clock])
         /\ Created(viewFcbTime(f)) = Created(f) /\ Updated(viewFcbTime(f)) = Updated(f)
         /\ viewFcbTime(f).l_date = currentDate(Moments[clock])
         /\ Created(initFcbTime) = Stamp(clock) /\ Updated(initFcbTime) = Stamp(clock)
         /\ initFcbTime.l_date = currentDate(Moments[clock])
<1>1. currentDate(Now) \in Nat \ {0} /\ currentTime(Now) \in Nat
  BY NowTyped
<1>2. Moments[clock] = Now /\ Stamp(clock) = <<currentTime(Now), currentDate(Now)>>
  BY NowTyped DEF Now
<1>3. updateFcbTime(f) \in Fields /\ viewFcbTime(f) \in Fields /\ initFcbTime \in Fields
  BY <1>1 DEF updateFcbTime, viewFcbTime, initFcbTime, Fields
<1>4. /\ updateFcbTime(f).l_date = currentDate(Now)
      /\ viewFcbTime(f).l_date = currentDate(Now)
      /\ initFcbTime.l_date = currentDate(Now)
  BY DEF updateFcbTime, viewFcbTime, initFcbTime, Fields
<1>5. NoStamps.l_date = 0 /\ NoStamps \in Fields
  BY DEF NoStamps, Fields
<1>6. /\ Created(updateFcbTime(f)) = Created(f)
      /\ Updated(updateFcbTime(f)) = <<currentTime(Now), currentDate(Now)>>
  BY DEF updateFcbTime, Created, Updated, Fields
<1>7. Created(viewFcbTime(f)) = Created(f) /\ Updated(viewFcbTime(f)) = Updated(f)
  BY DEF viewFcbTime, Created, Updated, Fields
<1>8. /\ Created(initFcbTime) = <<currentTime(Now), currentDate(Now)>>
      /\ Updated(initFcbTime) = <<currentTime(Now), currentDate(Now)>>
  BY DEF initFcbTime, Created, Updated
<1> QED
  BY <1>1, <1>2, <1>3, <1>4, <1>5, <1>6, <1>7, <1>8

LEMMA DateStarts == DateInit => DateInv
<1> SUFFICES ASSUME DateInit PROVE DateInv
  OBVIOUS
<1>1. NoStamps \in Fields
  BY DEF NoStamps, Fields
<1>2. 1 \in DOMAIN Moments /\ 0 \in 0 .. 1
  BY MomentsTyped
<1>3. truth = [c |-> {}, u |-> {}, l |-> {}] /\ {} \in SUBSET (1 .. clock)
  BY DEF DateInit
<1>4. truth \in [c : SUBSET (1 .. clock), u : SUBSET (1 .. clock), l : SUBSET (1 .. clock)]
  BY <1>3
<1>5. DateTypes
  BY <1>1, <1>2, <1>4 DEF DateInit, DateTypes
<1> QED
  BY <1>5 DEF DateInit, DateInv, SlotTrue, CopyTrue, HalfOpen

LEMMA TickKeepsDates ==
  ASSUME DateInv, Tick
  PROVE  DateInv'
<1>1. /\ clock \in Nat /\ clock' \in Nat /\ clock <= clock' /\ clock' \in DOMAIN Moments
      /\ UNCHANGED <<isdir, slot, copy, changed, half, truth>>
  BY MomentsTyped DEF DateInv, DateTypes, Tick
<1>2. 1 .. clock \subseteq 1 .. clock' /\ 0 .. clock \subseteq 0 .. clock'
  BY <1>1
<1>3. DateTypes'
  BY <1>1, <1>2 DEF DateInv, DateTypes
<1>4. ASSUME NEW f, NEW c, NEW u, NEW l, Stamped(f, c, u, l)
      PROVE  Stamped(f, c, u, l)
  BY <1>2, <1>4 DEF Stamped, Stamp
<1>5. SlotTrue'
  BY <1>1, <1>4 DEF DateInv, SlotTrue, Stamped
<1>6. CopyTrue'
  BY <1>1, <1>4 DEF DateInv, CopyTrue, Stamped
<1>7. HalfOpen'
  BY <1>1 DEF DateInv, HalfOpen
<1> QED
  BY <1>3, <1>5, <1>6, <1>7 DEF DateInv

LEMMA CreateKeepsDates ==
  ASSUME DateInv, CreateEntry
  PROVE  DateInv'
<1>1. /\ slot = NoStamps /\ slot' = initFcbTime
      /\ truth' = [c |-> {clock}, u |-> {clock}, l |-> {clock}]
      /\ UNCHANGED <<clock, isdir, copy, changed, half>>
  BY DEF CreateEntry
<1>2. copy = NoStamps
  BY <1>1 DEF DateInv, CopyTrue
<1>3. clock \in 1 .. clock
  BY NowTyped DEF DateInv
<1>4. initFcbTime \in Fields /\ Stamped(initFcbTime, clock, clock, clock)
  BY <1>3, NowTyped, StampNow DEF DateInv, DateTypes, Stamped
<1>5. DateTypes'
  BY <1>1, <1>3, <1>4 DEF DateInv, DateTypes
<1>6. Stamped(slot', clock, clock, clock)
  BY <1>1, <1>4 DEF Stamped, Stamp
<1>7. SlotTrue'
  BY <1>1, <1>6 DEF SlotTrue
<1>8. CopyTrue' /\ HalfOpen'
  BY <1>1, <1>2 DEF DateInv, CopyTrue, HalfOpen
<1> QED
  BY <1>5, <1>7, <1>8 DEF DateInv

LEMMA OpenKeepsDates ==
  ASSUME DateInv, OpenEntry
  PROVE  DateInv'
<1>1. /\ slot # NoStamps /\ copy = NoStamps
      /\ copy' = slot' /\ changed' = FALSE
      /\ UNCHANGED <<clock, isdir, half>>
  BY DEF OpenEntry
<1>2. half = 0
  BY <1>1 DEF DateInv, HalfOpen
<1>3. PICK c \in truth.c, u \in truth.u, l \in truth.l : Stamped(slot, c, u, l)
  BY <1>1 DEF DateInv, SlotTrue
<1>4. clock \in 1 .. clock
  BY NowTyped DEF DateInv
<1>5. CASE isdir
  <2>1. slot' = viewFcbTime(slot) /\ truth' = [truth EXCEPT !.l = {clock}]
    BY <1>5 DEF OpenEntry
  <2>2. slot' \in Fields /\ slot' # NoStamps /\ Stamped(slot', c, u, clock)
    BY <1>3, <1>4, <2>1, StampNow DEF DateInv, DateTypes, Stamped
  <2>3. DateTypes'
    BY <1>1, <1>4, <2>1, <2>2 DEF DateInv, DateTypes
  <2>4. Stamped(slot', c, u, clock)
    BY <1>1, <2>2 DEF Stamped, Stamp
  <2>5. c \in truth'.c /\ u \in truth'.u /\ clock \in truth'.l
    BY <1>3, <2>1 DEF DateInv, DateTypes
  <2>6. SlotTrue'
    BY <1>1, <2>4, <2>5 DEF SlotTrue
  <2>7. CopyTrue' /\ HalfOpen'
    BY <1>1, <1>2, <2>2 DEF CopyTrue, HalfOpen
  <2> QED
    BY <2>3, <2>6, <2>7 DEF DateInv
<1>6. CASE ~isdir
  <2>1. slot' = slot /\ truth' = truth
    BY <1>6 DEF OpenEntry
  <2>2. DateTypes'
    BY <1>1, <2>1 DEF DateInv, DateTypes
  <2>3. SlotTrue'
    BY <1>1, <2>1 DEF DateInv, SlotTrue, Stamped, Stamp
  <2>4. CopyTrue' /\ HalfOpen'
    BY <1>1, <1>2, <2>1 DEF CopyTrue, HalfOpen
  <2> QED
    BY <2>2, <2>3, <2>4 DEF DateInv
<1> QED
  BY <1>5, <1>6

LEMMA CopyKeepsDates ==
  ASSUME DateInv, StampCopy
  PROVE  DateInv'
<1>1. /\ copy # NoStamps /\ half = 0 /\ copy' = updateFcbTime(copy) /\ half' = clock
      /\ UNCHANGED <<clock, isdir, slot, changed, truth>>
  BY DEF StampCopy
<1>2. \E c \in truth.c : Created(copy) = Stamp(c) /\ c \in 1 .. clock
  <2>1. slot # NoStamps /\ changed \in BOOLEAN
    BY <1>1 DEF DateInv, CopyTrue, DateTypes
  <2>2. CASE ~changed
    <3>1. copy = slot
      BY <1>1, <2>2 DEF DateInv, CopyTrue
    <3>2. PICK c \in truth.c, u \in truth.u, l \in truth.l : Stamped(slot, c, u, l)
      BY <2>1 DEF DateInv, SlotTrue
    <3>3. c \in 1 .. clock
      BY DEF DateInv, DateTypes
    <3> QED
      BY <3>1, <3>2, <3>3 DEF Stamped
  <2>3. CASE changed
    <3>1. PICK c \in truth.c, m \in truth.u \cap truth.l : Stamped(copy, c, m, m)
      BY <1>1, <2>3 DEF DateInv, CopyTrue
    <3>2. c \in 1 .. clock
      BY DEF DateInv, DateTypes
    <3> QED
      BY <3>1, <3>2 DEF Stamped
  <2> QED
    BY <2>1, <2>2, <2>3
<1>3. PICK c \in truth.c : Created(copy) = Stamp(c) /\ c \in 1 .. clock
  BY <1>2
<1>4. clock \in 1 .. clock /\ clock # 0 /\ clock \in 0 .. clock
  BY NowTyped DEF DateInv
<1>5. copy' \in Fields /\ Stamped(copy', c, clock, clock)
  BY <1>1, <1>3, <1>4, StampNow DEF DateInv, DateTypes, Stamped
<1>6. DateTypes'
  BY <1>1, <1>4, <1>5 DEF DateInv, DateTypes
<1>7. SlotTrue'
  BY <1>1 DEF DateInv, SlotTrue, Stamped, Stamp
<1>8. Stamped(copy', c, half', half')
  BY <1>1, <1>5 DEF Stamped, Stamp
<1>9. CopyTrue'
  BY <1>1, <1>3, <1>4, <1>8 DEF DateInv, CopyTrue
<1>10. HalfOpen'
  BY <1>1, StampNow DEF DateInv, DateTypes, HalfOpen
<1> QED
  BY <1>6, <1>7, <1>9, <1>10 DEF DateInv

LEMMA SlotKeepsDates ==
  ASSUME DateInv, StampSlot
  PROVE  DateInv'
<1>1. /\ half # 0 /\ slot' = updateFcbTime(slot) /\ half' = 0 /\ changed' = TRUE
      /\ truth' = [truth EXCEPT !.u = {half, clock}, !.l = {half, clock}]
      /\ UNCHANGED <<clock, isdir, copy>>
  BY DEF StampSlot
<1>2. copy # NoStamps /\ slot # NoStamps
  BY <1>1 DEF DateInv, HalfOpen, CopyTrue
<1>3. PICK c \in truth.c : Stamped(copy, c, half, half)
  BY <1>1, <1>2 DEF DateInv, CopyTrue
<1>4. PICK d \in truth.c, u \in truth.u, l \in truth.l : Stamped(slot, d, u, l)
  BY <1>2 DEF DateInv, SlotTrue
<1>5. clock \in 1 .. clock /\ half \in 1 .. clock
  BY <1>1, NowTyped DEF DateInv, DateTypes
<1>6. truth'.c = truth.c /\ truth'.u = {half, clock} /\ truth'.l = {half, clock}
  BY <1>1 DEF DateInv, DateTypes
<1>7. slot' \in Fields /\ slot' # NoStamps /\ Stamped(slot', d, clock, clock)
  BY <1>1, <1>4, <1>5, StampNow DEF DateInv, DateTypes, Stamped
<1>8. DateTypes'
  <2>1. {half, clock} \in SUBSET (1 .. clock) /\ 0 \in 0 .. clock
    BY <1>5
  <2>2. truth' \in [c : SUBSET (1 .. clock), u : SUBSET (1 .. clock), l : SUBSET (1 .. clock)]
    BY <1>1, <2>1 DEF DateInv, DateTypes
  <2> QED
    BY <1>1, <1>7, <2>1, <2>2 DEF DateInv, DateTypes
<1>9. Stamped(slot', d, clock, clock) /\ Stamped(copy', c, half, half)
  BY <1>1, <1>3, <1>7 DEF Stamped, Stamp
<1>10. SlotTrue'
  BY <1>6, <1>9 DEF SlotTrue
<1>11. CopyTrue'
  BY <1>1, <1>6, <1>7, <1>9 DEF CopyTrue
<1>12. HalfOpen'
  BY <1>1 DEF HalfOpen
<1> QED
  BY <1>8, <1>10, <1>11, <1>12 DEF DateInv

LEMMA CloseKeepsDates ==
  ASSUME DateInv, CloseEntry
  PROVE  DateInv'
<1>1. /\ copy # NoStamps /\ half = 0
      /\ slot' = (IF changed THEN copy ELSE slot)
      /\ copy' = NoStamps /\ changed' = FALSE
      /\ UNCHANGED <<clock, isdir, half, truth>>
  BY DEF CloseEntry
<1>2. DateTypes'
  BY <1>1, StampNow DEF DateInv, DateTypes
<1>3. SlotTrue'
  <2>1. CASE changed
    <3>1. PICK c \in truth.c, m \in truth.u \cap truth.l : Stamped(copy, c, m, m)
      BY <1>1, <2>1 DEF DateInv, CopyTrue
    <3>2. Stamped(slot', c, m, m)
      BY <1>1, <2>1, <3>1 DEF Stamped, Stamp
    <3> QED
      BY <1>1, <3>1, <3>2 DEF SlotTrue
  <2>2. CASE ~changed
    BY <1>1, <2>2 DEF DateInv, SlotTrue, Stamped, Stamp
  <2> QED
    BY <2>1, <2>2
<1>4. CopyTrue' /\ HalfOpen'
  BY <1>1 DEF CopyTrue, HalfOpen
<1> QED
  BY <1>2, <1>3, <1>4 DEF DateInv

(* What my_ls shows of the dates is true, for any clock that does not go   *)
(* back to an earlier day and stays in the range of seven bits, however    *)
(* often a file is opened, written and closed.                             *)
THEOREM DatesAreTrueAlways == DateSpec => []DatesAreTrue
<1>1. DateInit => DateInv
  BY DateStarts
<1>2. DateInv /\ [DateNext]_dateVars => DateInv'
  <2> SUFFICES ASSUME DateInv, [DateNext]_dateVars PROVE DateInv'
    OBVIOUS
  <2>1. CASE UNCHANGED dateVars
    BY <2>1 DEF dateVars, DateInv, DateTypes, SlotTrue, CopyTrue, HalfOpen, Stamped, Stamp
  <2> QED
    BY <2>1, TickKeepsDates, CreateKeepsDates, OpenKeepsDates, CopyKeepsDates,
       SlotKeepsDates, CloseKeepsDates DEF DateNext
<1>3. DateInv => DatesAreTrue
  <2> SUFFICES ASSUME DateInv, slot # NoStamps,
                      \A m \in {Moments[i] : i \in truth.c} \cup {Moments[i] : i \in truth.u}
                                 \cup {Moments[i] : i \in truth.l} : InRange(m)
               PROVE  /\ \E m \in {Moments[i] : i \in truth.c} :
                           /\ ShownDate(slot.c_date) = Date(m)
                           /\ ShownTime(slot.c_time) = Time(m)
                      /\ \E m \in {Moments[i] : i \in truth.u} :
                           /\ ShownDate(slot.u_date) = Date(m)
                           /\ ShownTime(slot.u_time) = Time(m)
                      /\ \E m \in {Moments[i] : i \in truth.l} :
                           ShownDate(slot.l_date) = Date(m)
                      /\ slot.c_date <= slot.u_date /\ slot.u_date <= slot.l_date
    BY DEF DatesAreTrue
  <2>1. PICK c \in truth.c, u \in truth.u, l \in truth.l : Stamped(slot, c, u, l)
    BY DEF DateInv, SlotTrue
  <2> DEFINE mc == Moments[c]
             mu == Moments[u]
             ml == Moments[l]
  <2>2. c \in DOMAIN Moments /\ u \in DOMAIN Moments /\ l \in DOMAIN Moments /\ c <= u /\ u <= l
    BY <2>1, MomentsTyped DEF DateInv, DateTypes, Stamped
  <2>3. mc \in Moment /\ mu \in Moment /\ ml \in Moment
    BY <2>2, MomentsTyped
  <2>4. InRange(mc) /\ InRange(mu) /\ InRange(ml)
    BY <2>1
  <2>5. /\ slot.c_date = currentDate(mc) /\ slot.c_time = currentTime(mc)
        /\ slot.u_date = currentDate(mu) /\ slot.u_time = currentTime(mu)
        /\ slot.l_date = currentDate(ml)
    BY <2>1 DEF Stamped, Created, Updated, Stamp
  <2>6. NoLaterDay(mc, mu) /\ NoLaterDay(mu, ml)
    BY <2>2, ClockAssumption
  <2> HIDE DEF mc, mu, ml
  <2>7. slot.c_date <= slot.u_date /\ slot.u_date <= slot.l_date
    BY <2>3, <2>4, <2>5, <2>6, DateGrows
  <2>8. /\ ShownDate(slot.c_date) = Date(mc) /\ ShownTime(slot.c_time) = Time(mc)
        /\ ShownDate(slot.u_date) = Date(mu) /\ ShownTime(slot.u_time) = Time(mu)
        /\ ShownDate(slot.l_date) = Date(ml)
    BY <2>3, <2>4, <2>5, DateRound, TimeRound
  <2> QED
    BY <2>1, <2>7, <2>8 DEF mc, mu, ml
<1> QED
  BY <1>1, <1>2, <1>3, PTL DEF DateSpec

-----------------------------------------------------------------------------
(* TextEntry. *)

(* k is the last position before i at which there is no '#', 0 if none.    *)
IsLast(s, i, k) ==
  /\ k \in 0 .. i - 1
  /\ k = 0 \/ s[k] # "#"
  /\ \A m \in 0 .. i - 1 : m = 0 \/ s[m] # "#" => m <= k

(* HashesAt and MarksEnd, of any text. *)
HashRun(s, i) ==
  LET before == {k \in 0 .. i - 1 : k = 0 \/ s[k] # "#"}
  IN  i - 1 - CHOOSE k \in before : \A m \in before : m <= k

TextEnds(s, i) == s[i] = "&" /\ HashRun(s, i) % 2 = 1

EntryTypes ==
  /\ typed \in Seq(Chars) /\ hash \in BOOLEAN
  /\ entry \in {"reading", "done", "overrun"}

(* hash tells an odd number of '#' in a row from an even one. *)
HashIsOdd ==
  entry = "reading" =>
    \E k \in Nat : /\ IsLast(typed, Len(typed) + 1, k)
                   /\ hash <=> (Len(typed) - k) % 2 = 1

(* While no '#' has been read the buffer is as long as it is taken to be. *)
BufferHolds ==
  tmp1 = NoChar =>
    /\ entry # "overrun"
    /\ textTmp \in Seq(Chars) /\ wrote \in Seq(Chars)
    /\ len = Len(textTmp) /\ len <= VD_BLOCK_SIZE
    /\ entry = "reading" =>
         SubSeq(typed, 1, Len(typed) - IF hash THEN 1 ELSE 0) = wrote \o textTmp
    /\ entry = "done" =>
         hash /\ SubSeq(typed, 1, Len(typed) - 2) = wrote

EntryInv == EntryTypes /\ HashIsOdd /\ BufferHolds /\ EndsAtMark

LEMMA LastIsRun ==
  ASSUME NEW s, NEW i \in Nat, NEW k, IsLast(s, i, k)
  PROVE  HashRun(s, i) = i - 1 - k
<1> DEFINE before == {m \in 0 .. i - 1 : m = 0 \/ s[m] # "#"}
           P(n)   == n \in before /\ \A m \in before : m <= n
<1>1. P(k) /\ before \subseteq Int
  BY DEF IsLast
<1>2. \A n : P(n) => n = k
  BY <1>1
<1>3. HashRun(s, i) = i - 1 - CHOOSE n \in before : \A m \in before : m <= n
  BY DEF HashRun
<1>4. (CHOOSE n \in before : \A m \in before : m <= n) = k
  BY <1>1, <1>2
<1> QED
  BY <1>3, <1>4

LEMMA TypedOneMore ==
  ASSUME NEW s \in Seq(Chars), NEW c \in Chars
  PROVE  /\ Append(s, c) \in Seq(Chars) /\ Len(Append(s, c)) = Len(s) + 1
         /\ Append(s, c)[Len(s) + 1] = c
         /\ \A i \in 1 .. Len(s) : Append(s, c)[i] = s[i]
         /\ SubSeq(Append(s, c), 1, Len(s)) = s
         /\ Append(s, c) = s \o <<c>>
<1>1. /\ Append(s, c) \in Seq(Chars) /\ Len(Append(s, c)) = Len(s) + 1
      /\ Append(s, c)[Len(s) + 1] = c
      /\ \A i \in 1 .. Len(s) : Append(s, c)[i] = s[i]
  OBVIOUS
<1>2. SubSeq(Append(s, c), 1, Len(s)) = s
  BY <1>1, SubSeqProperties, SeqEqual
<1>3. Append(s, c) = s \o <<c>>
  OBVIOUS
<1> QED
  BY <1>1, <1>2, <1>3

(* What is typed changes nothing of what was typed before it. *)
LEMMA RunsStay ==
  ASSUME NEW s \in Seq(Chars), NEW c \in Chars, NEW i \in 1 .. Len(s) + 1
  PROVE  HashRun(Append(s, c), i) = HashRun(s, i)
<1>1. \A k \in 0 .. i - 1 : (k = 0 \/ Append(s, c)[k] # "#") <=> (k = 0 \/ s[k] # "#")
  BY TypedOneMore
<1>2. {k \in 0 .. i - 1 : k = 0 \/ Append(s, c)[k] # "#"} = {k \in 0 .. i - 1 : k = 0 \/ s[k] # "#"}
  BY <1>1
<1> QED
  BY <1>2, Zenon DEF HashRun

LEMMA EndsStay ==
  ASSUME NEW s \in Seq(Chars), NEW c \in Chars, NEW i \in 1 .. Len(s)
  PROVE  TextEnds(Append(s, c), i) <=> TextEnds(s, i)
BY RunsStay, TypedOneMore DEF TextEnds

(* The new last position. *)
LEMMA LastMoves ==
  ASSUME NEW s \in Seq(Chars), NEW c \in Chars, NEW k, IsLast(s, Len(s) + 1, k)
  PROVE  IsLast(Append(s, c), Len(s) + 2, IF c = "#" THEN k ELSE Len(s) + 1)
<1>1. \A m \in 0 .. Len(s) : (m = 0 \/ Append(s, c)[m] # "#") <=> (m = 0 \/ s[m] # "#")
  BY TypedOneMore
<1>2. 0 .. Len(s) + 2 - 1 = (0 .. Len(s)) \cup {Len(s) + 1} /\ 0 .. Len(s) + 1 - 1 = 0 .. Len(s)
  OBVIOUS
<1>3. CASE c = "#"
  BY <1>1, <1>2, <1>3, TypedOneMore DEF IsLast
<1>4. CASE c # "#"
  BY <1>2, <1>4, TypedOneMore DEF IsLast
<1> QED
  BY <1>3, <1>4

LEMMA MarksAreEnds == \A i : MarksEnd(i) <=> TextEnds(typed, i)
BY Zenon DEF MarksEnd, HashesAt, TextEnds, HashRun

LEMMA EntryStarts == EntryInit => EntryInv
<1> SUFFICES ASSUME EntryInit PROVE EntryInv
  OBVIOUS
<1>1. <<>> \in Seq(Chars) /\ Len(<<>>) = 0
  OBVIOUS
<1>2. EntryTypes
  BY <1>1 DEF EntryInit, EntryTypes
<1>3. IsLast(typed, Len(typed) + 1, 0)
  BY <1>1 DEF EntryInit, IsLast
<1>4. HashIsOdd
  <2>1. ~((0 - 0) % 2 = 1)
    OBVIOUS
  <2> QED
    BY <1>1, <1>3, <2>1 DEF EntryInit, HashIsOdd
<1>5. BufferHolds
  <2>1. SubSeq(<<>>, 1, 0) = <<>> /\ <<>> \o <<>> = <<>>
    BY <1>1, SubSeqEmpty, ConcatEmptySeq
  <2> QED
    BY <1>1, <2>1, EntryAssumption DEF EntryInit, BufferHolds
<1>6. EndsAtMark
  BY <1>1 DEF EntryInit, EndsAtMark
<1> QED
  BY <1>2, <1>4, <1>5, <1>6 DEF EntryInv

(* What every step makes of the marks, for the character it takes.         *)
LEMMA MarksAfter ==
  ASSUME EntryInv, NEW c \in Chars, Types(c), NEW k \in Nat,
         IsLast(typed, Len(typed) + 1, k)
  PROVE  /\ typed' \in Seq(Chars) /\ Len(typed') = Len(typed) + 1
         /\ typed' = Append(typed, c)
         /\ Len(typed) \in Nat /\ k <= Len(typed)
         /\ IsLast(typed', Len(typed') + 1, IF c = "#" THEN k ELSE Len(typed) + 1)
         /\ \A i \in 1 .. Len(typed) : ~TextEnds(typed', i)
         /\ TextEnds(typed', Len(typed')) <=> c = "&" /\ (Len(typed) - k) % 2 = 1
         /\ DOMAIN typed' = 1 .. Len(typed) + 1
<1>1. entry = "reading" /\ typed' = Append(typed, c) /\ typed \in Seq(Chars)
  BY DEF Types, EntryInv, EntryTypes
<1>2. \A i \in 1 .. Len(typed) : ~TextEnds(typed, i)
  BY <1>1, MarksAreEnds DEF EntryInv, EndsAtMark
<1>3. \A i \in 1 .. Len(typed) : ~TextEnds(typed', i)
  BY <1>1, <1>2, EndsStay
<1>4. k <= Len(typed) /\ Len(typed) \in Nat
  BY <1>1 DEF IsLast
<1>5. HashRun(typed, Len(typed) + 1) = Len(typed) - k
  BY <1>4, LastIsRun
<1>6. HashRun(typed', Len(typed) + 1) = Len(typed) - k
  BY <1>1, <1>4, <1>5, RunsStay
<1>7. typed'[Len(typed) + 1] = c /\ Len(typed') = Len(typed) + 1 /\ typed' \in Seq(Chars)
  BY <1>1, TypedOneMore
<1>8. TextEnds(typed', Len(typed')) <=> c = "&" /\ (Len(typed) - k) % 2 = 1
  BY <1>6, <1>7 DEF TextEnds
<1>9. IsLast(typed', Len(typed') + 1, IF c = "#" THEN k ELSE Len(typed) + 1)
  <2>1. Len(typed') + 1 = Len(typed) + 2
    BY <1>4, <1>7
  <2> QED
    BY <1>1, <2>1, LastMoves
<1> QED
  BY <1>1, <1>3, <1>4, <1>7, <1>8, <1>9

LEMMA MarksAreEndsNext ==
  EndsAtMark' <=>
    (entry' # "overrun" =>
       \A i \in DOMAIN typed' : TextEnds(typed', i) <=> entry' = "done" /\ i = Len(typed'))
<1>1. \A i : MarksEnd(i)' <=> TextEnds(typed', i)
  BY Zenon DEF MarksEnd, HashesAt, TextEnds, HashRun
<1> QED
  BY <1>1, Zenon DEF EndsAtMark

LEMMA HashKeeps ==
  ASSUME EntryInv, Hash
  PROVE  EntryInv'
<1>1. /\ Types("#") /\ ~hash /\ hash' = TRUE /\ entry = "reading"
      /\ UNCHANGED <<tmp1, textTmp, len, wrote, entry>> /\ "#" \in Chars
  BY EntryAssumption DEF Hash, Types
<1>2. PICK k \in Nat : IsLast(typed, Len(typed) + 1, k) /\ ~((Len(typed) - k) % 2 = 1)
  BY <1>1 DEF EntryInv, HashIsOdd
<1>3. /\ typed' \in Seq(Chars) /\ Len(typed') = Len(typed) + 1
      /\ typed' = Append(typed, "#")
      /\ Len(typed) \in Nat /\ k <= Len(typed)
      /\ IsLast(typed', Len(typed') + 1, k)
      /\ \A i \in 1 .. Len(typed) : ~TextEnds(typed', i)
      /\ ~TextEnds(typed', Len(typed'))
      /\ DOMAIN typed' = 1 .. Len(typed) + 1
  BY <1>1, <1>2, MarksAfter
<1>4. EntryTypes'
  BY <1>1, <1>3 DEF EntryInv, EntryTypes
<1>5. HashIsOdd'
  <2>1. (Len(typed) + 1 - k) % 2 = 1
    BY <1>2, <1>3
  <2> QED
    BY <1>1, <1>2, <1>3, <2>1 DEF HashIsOdd
<1>6. BufferHolds'
  <2> SUFFICES ASSUME tmp1 = NoChar PROVE BufferHolds'
    BY <1>1 DEF BufferHolds
  <2>1. SubSeq(typed, 1, Len(typed)) = wrote \o textTmp
    BY <1>1, <1>3 DEF EntryInv, BufferHolds
  <2>2. SubSeq(typed', 1, Len(typed)) = typed /\ SubSeq(typed, 1, Len(typed)) = typed
    BY <1>3, <1>1, TypedOneMore, SubSeqFull DEF EntryInv, EntryTypes
  <2>3. Len(typed') - 1 = Len(typed)
    BY <1>3
  <2> QED
    BY <1>1, <2>1, <2>2, <2>3 DEF EntryInv, BufferHolds
<1>7. EndsAtMark'
  BY <1>1, <1>3, MarksAreEndsNext
<1> QED
  BY <1>4, <1>5, <1>6, <1>7 DEF EntryInv

LEMMA EndKeeps ==
  ASSUME EntryInv, EndMark
  PROVE  EntryInv'
<1>1. /\ Types("&") /\ hash /\ wrote' = wrote \o textTmp /\ entry' = "done"
      /\ entry = "reading" /\ UNCHANGED <<hash, tmp1, textTmp, len>> /\ "&" \in Chars
  BY EntryAssumption DEF EndMark, Types
<1>2. PICK k \in Nat : IsLast(typed, Len(typed) + 1, k) /\ (Len(typed) - k) % 2 = 1
  BY <1>1 DEF EntryInv, HashIsOdd
<1>3. /\ typed' \in Seq(Chars) /\ Len(typed') = Len(typed) + 1
      /\ typed' = Append(typed, "&")
      /\ Len(typed) \in Nat /\ k <= Len(typed)
      /\ \A i \in 1 .. Len(typed) : ~TextEnds(typed', i)
      /\ TextEnds(typed', Len(typed'))
      /\ DOMAIN typed' = 1 .. Len(typed) + 1
  BY <1>1, <1>2, MarksAfter
<1>4. EntryTypes'
  BY <1>1, <1>3 DEF EntryInv, EntryTypes
<1>5. HashIsOdd'
  BY <1>1 DEF HashIsOdd
<1>6. BufferHolds'
  <2> SUFFICES ASSUME tmp1 = NoChar PROVE BufferHolds'
    BY <1>1 DEF BufferHolds
  <2>1. SubSeq(typed, 1, Len(typed) - 1) = wrote \o textTmp /\ wrote \o textTmp \in Seq(Chars)
    BY <1>1 DEF EntryInv, BufferHolds
  <2>2. Len(typed) - 1 \in 0 .. Len(typed)
    <3>1. Len(typed) # 0
      BY <1>2, <1>3
    <3> QED
      BY <1>3, <3>1
  <2>3. SubSeq(typed', 1, Len(typed) - 1) = SubSeq(typed, 1, Len(typed) - 1)
    <3>1. typed \in Seq(Chars) /\ \A i \in 1 .. Len(typed) - 1 : typed'[i] = typed[i]
      BY <1>1, <1>3, <2>2, TypedOneMore DEF EntryInv, EntryTypes
    <3>2. \A i \in 1 .. Len(typed) - 1 : typed[i] \in Chars
      BY <3>1, <1>3
    <3> DEFINE n == Len(typed) - 1
    <3>3. n \in Nat /\ n \in Int
      BY <2>2
    <3> HIDE DEF n
    <3>4. /\ SubSeq(typed, 1, n) \in Seq(Chars) /\ SubSeq(typed', 1, n) \in Seq(Chars)
          /\ Len(SubSeq(typed, 1, n)) = n /\ Len(SubSeq(typed', 1, n)) = n
          /\ \A i \in 1 .. n : SubSeq(typed', 1, n)[i] = SubSeq(typed, 1, n)[i]
      <4>1. \A i \in 1 .. n : typed[i] \in Chars /\ typed'[i] = typed[i]
        BY <3>1, <3>2 DEF n
      <4>2. /\ SubSeq(typed, 1, n) \in Seq(Chars)
            /\ Len(SubSeq(typed, 1, n)) = IF 1 <= n THEN n - 1 + 1 ELSE 0
            /\ \A i \in 1 .. n - 1 + 1 : SubSeq(typed, 1, n)[i] = typed[1 + i - 1]
        BY <3>3, <4>1, SubSeqProperties
      <4>3. /\ SubSeq(typed', 1, n) \in Seq(Chars)
            /\ Len(SubSeq(typed', 1, n)) = IF 1 <= n THEN n - 1 + 1 ELSE 0
            /\ \A i \in 1 .. n - 1 + 1 : SubSeq(typed', 1, n)[i] = typed'[1 + i - 1]
        BY <3>3, <4>1, SubSeqProperties
      <4> QED
        BY <3>3, <4>1, <4>2, <4>3
    <3> QED
      BY <3>4, SeqEqual DEF n
  <2>4. Len(typed') - 2 = Len(typed) - 1
    BY <1>3
  <2> QED
    BY <1>1, <2>1, <2>3, <2>4 DEF EntryInv, BufferHolds
<1>7. EndsAtMark'
  BY <1>1, <1>3, MarksAreEndsNext
<1> QED
  BY <1>4, <1>5, <1>6, <1>7 DEF EntryInv

(* A '#' and another character: from now on tmp has no end of its own.     *)
LEMMA NotTheMarkKeeps ==
  ASSUME EntryInv, NEW c \in Chars, NotTheMark(c)
  PROVE  EntryInv'
<1>1. /\ Types(c) /\ hash /\ c # "&" /\ hash' = FALSE /\ tmp1' = c /\ entry = "reading"
      /\ entry' \in {"reading", "overrun"}
  BY Zenon DEF NotTheMark, Types, Append_tmp
<1>2. PICK k \in Nat : IsLast(typed, Len(typed) + 1, k) /\ (Len(typed) - k) % 2 = 1
  BY <1>1 DEF EntryInv, HashIsOdd
<1>3. /\ typed' \in Seq(Chars) /\ Len(typed') = Len(typed) + 1
      /\ Len(typed) \in Nat /\ k <= Len(typed)
      /\ IsLast(typed', Len(typed') + 1, IF c = "#" THEN k ELSE Len(typed) + 1)
      /\ \A i \in 1 .. Len(typed) : ~TextEnds(typed', i)
      /\ ~TextEnds(typed', Len(typed'))
      /\ DOMAIN typed' = 1 .. Len(typed) + 1
  BY <1>1, <1>2, MarksAfter
<1>4. EntryTypes'
  BY <1>1, <1>3 DEF EntryInv, EntryTypes
<1>5. HashIsOdd'
  <2>1. ~((Len(typed) + 1 - k) % 2 = 1) /\ ~((Len(typed) + 1 - (Len(typed) + 1)) % 2 = 1)
    BY <1>2, <1>3
  <2>2. CASE c = "#"
    BY <1>1, <1>2, <1>3, <2>1, <2>2 DEF HashIsOdd
  <2>3. CASE c # "#"
    BY <1>1, <1>3, <2>1, <2>3 DEF HashIsOdd
  <2> QED
    BY <2>2, <2>3
<1>6. BufferHolds'
  BY <1>1, EntryAssumption DEF BufferHolds
<1>7. EndsAtMark'
  BY <1>1, <1>3, MarksAreEndsNext
<1> QED
  BY <1>4, <1>5, <1>6, <1>7 DEF EntryInv

LEMMA OtherKeeps ==
  ASSUME EntryInv, NEW c \in Chars, Other(c)
  PROVE  EntryInv'
<1>1. /\ Types(c) /\ ~hash /\ c # "#" /\ UNCHANGED <<hash, tmp1>> /\ entry = "reading"
      /\ entry' \in {"reading", "overrun"}
  BY Zenon DEF Other, Types, Append_tmp
<1>2. PICK k \in Nat : IsLast(typed, Len(typed) + 1, k) /\ ~((Len(typed) - k) % 2 = 1)
  BY <1>1 DEF EntryInv, HashIsOdd
<1>3. /\ typed' \in Seq(Chars) /\ Len(typed') = Len(typed) + 1
      /\ typed' = Append(typed, c)
      /\ Len(typed) \in Nat /\ k <= Len(typed)
      /\ IsLast(typed', Len(typed') + 1, Len(typed) + 1)
      /\ \A i \in 1 .. Len(typed) : ~TextEnds(typed', i)
      /\ ~TextEnds(typed', Len(typed'))
      /\ DOMAIN typed' = 1 .. Len(typed) + 1
  BY <1>1, <1>2, MarksAfter
<1>4. EntryTypes'
  BY <1>1, <1>3 DEF EntryInv, EntryTypes
<1>5. HashIsOdd'
  <2>1. ~((Len(typed) + 1 - (Len(typed) + 1)) % 2 = 1) /\ Len(typed) + 1 \in Nat
    BY <1>3
  <2> QED
    BY <1>1, <1>3, <2>1 DEF HashIsOdd
<1>6. BufferHolds'
  <2> SUFFICES ASSUME tmp1 = NoChar PROVE BufferHolds'
    BY <1>1 DEF BufferHolds
  <2>1. /\ textTmp \in Seq(Chars) /\ wrote \in Seq(Chars) /\ len = Len(textTmp)
        /\ len <= VD_BLOCK_SIZE /\ len \in Nat /\ VD_BLOCK_SIZE \in Nat \ {0}
        /\ SubSeq(typed, 1, Len(typed)) = wrote \o textTmp
    BY <1>1, <1>3, EntryAssumption DEF EntryInv, BufferHolds
  <2>2. typed = wrote \o textTmp /\ typed \in Seq(Chars)
    BY <2>1, SubSeqFull DEF EntryInv, EntryTypes
  <2>3. SubSeq(typed', 1, Len(typed')) = typed \o <<c>> /\ <<c>> \in Seq(Chars) /\ Len(<<c>>) = 1
    <3>1. <<c>> \in Seq(Chars) /\ Len(<<c>>) = 1
      OBVIOUS
    <3> QED
      BY <3>1, <1>3, <2>2, TypedOneMore, SubSeqFull
  <2>4. PICK behind : Append_tmp(c, tmp1, behind)
    BY DEF Other
  <2>5. CASE Full
    <3>1. len = VD_BLOCK_SIZE /\ SubSeq(textTmp, 1, VD_BLOCK_SIZE) = textTmp
      BY <2>1, <2>5, SubSeqFull DEF Full
    <3>2. <<>> \o <<c>> = <<c>>
      BY <2>3, ConcatEmptySeq
    <3>3. wrote' = wrote \o textTmp /\ textTmp' = <<c>> /\ len' = 1 /\ entry' = entry
      <4>1. /\ Len(<<>> \o <<c>>) = 1 /\ ~(1 > VD_BLOCK_SIZE)
            /\ len - VD_BLOCK_SIZE + 1 = 1
        BY <2>1, <2>3, <3>1, <3>2
      <4>2. ~(Len(<<>> \o <<c>>) > VD_BLOCK_SIZE)
        BY <4>1
      <4>3. /\ wrote' = wrote \o SubSeq(textTmp, 1, VD_BLOCK_SIZE)
            /\ textTmp' = <<>> \o <<c>> /\ len' = len - VD_BLOCK_SIZE + 1 /\ entry' = entry
        BY <2>4, <2>5, <4>2, Zenon DEF Append_tmp
      <4> QED
        BY <3>1, <3>2, <4>1, <4>3
    <3>4. wrote' \in Seq(Chars)
      BY <2>1, <3>3, ConcatProperties
    <3> QED
      BY <1>1, <2>1, <2>2, <2>3, <3>3, <3>4 DEF BufferHolds
  <2>6. CASE ~Full
    <3>1. Len(textTmp \o <<c>>) = len + 1 /\ textTmp \o <<c>> \in Seq(Chars) /\ len + 1 <= VD_BLOCK_SIZE
      BY <2>1, <2>3, <2>6, ConcatProperties DEF Full
    <3>2. wrote' = wrote /\ textTmp' = textTmp \o <<c>> /\ len' = len + 1 /\ entry' = entry
      BY <2>1, <2>4, <2>6, <3>1 DEF Append_tmp
    <3>3. (wrote \o textTmp) \o <<c>> = wrote \o (textTmp \o <<c>>)
      <4>1. wrote \in Seq(Chars) /\ textTmp \in Seq(Chars) /\ <<c>> \in Seq(Chars)
        BY <2>1, <2>3
      <4> QED
        BY ONLY <4>1, ConcatAssociative
    <3>4. Len(typed') - 0 = Len(typed')
      BY <1>3
    <3>5. SubSeq(typed', 1, Len(typed') - 0) = wrote' \o textTmp'
      BY <2>2, <2>3, <3>2, <3>3, <3>4
    <3>6. wrote' \in Seq(Chars) /\ textTmp' \in Seq(Chars) /\ len' = Len(textTmp')
          /\ len' <= VD_BLOCK_SIZE /\ entry' = "reading" /\ hash' = FALSE
      BY <1>1, <2>1, <3>1, <3>2
    <3> QED
      BY <3>5, <3>6 DEF BufferHolds
  <2> QED
    BY <2>5, <2>6
<1>7. EndsAtMark'
  BY <1>1, <1>3, MarksAreEndsNext
<1> QED
  BY <1>4, <1>5, <1>6, <1>7 DEF EntryInv

(* my_write reads up to the first '&' behind an odd number of '#', and     *)
(* ends there; and as long as no other character has followed a '#', what  *)
(* it has written and what is in its buffer is what was typed: for every   *)
(* text and every size of a block.                                         *)
THEOREM EntryIsWrittenAlways == EntrySpec => []EntryIsWritten
<1>1. EntryInit => EntryInv
  BY EntryStarts
<1>2. EntryInv /\ [EntryNext]_entryVars => EntryInv'
  <2> SUFFICES ASSUME EntryInv, [EntryNext]_entryVars PROVE EntryInv'
    OBVIOUS
  <2>1. CASE UNCHANGED entryVars
    BY <2>1 DEF entryVars, EntryInv, EntryTypes, HashIsOdd, BufferHolds, EndsAtMark,
                MarksEnd, HashesAt
  <2> QED
    BY <2>1, HashKeeps, EndKeeps, NotTheMarkKeeps, OtherKeeps DEF EntryNext
<1>3. EntryInv => EntryIsWritten
  <2> SUFFICES ASSUME EntryInv, tmp1 = NoChar PROVE TextWhole
    BY DEF EntryInv, EntryIsWritten, TextWhole
  <2>1. CASE entry = "reading" /\ hash
    BY <2>1 DEF EntryInv, BufferHolds, TextWhole
  <2>2. CASE entry = "reading" /\ ~hash
    BY <2>2, SubSeqFull DEF EntryInv, EntryTypes, BufferHolds, TextWhole
  <2>3. CASE entry = "done"
    BY <2>3 DEF EntryInv, BufferHolds, TextWhole
  <2> QED
    BY <2>1, <2>2, <2>3 DEF EntryInv, EntryTypes, BufferHolds
<1> QED
  BY <1>1, <1>2, <1>3, PTL DEF EntrySpec

-----------------------------------------------------------------------------
(* PipeFork. *)

One(p) == IF p THEN 1 ELSE 0

(* How many of the three children are in S. *)
CountIn(S) == One(1 \in S) + One(2 \in S) + One(3 \in S)

(* How often a line was printed: it is shown, or with a process that will. *)
Printed(u, s, l) == s[l] + u[0][l] + u[1][l] + u[2][l] + u[3][l]

Distinct(q)  == \A i, j \in 1 .. Len(q) : q[i] = q[j] => i = j
InPipe(q, c) == \E i \in 1 .. Len(q) : q[i] = c

PipeTypes ==
  /\ forkPc \in [Processes -> Nat]
  /\ forkPc[0] \in (1 .. 9) \cup {Gone}
  /\ \A c \in Children : forkPc[c] \in (0 .. 4) \cup {Gone}
  /\ \A c \in Children : forkPc[c] # NotForked => c < forkPc[0]
  /\ pipe \in Seq(Children) /\ Distinct(pipe)
  /\ terminal \in BOOLEAN /\ broken = FALSE
  /\ unseen \in [Processes -> [Lines -> Nat]]
  /\ shown \in [Lines -> Nat]

(* Who has which end of the pipe. *)
EndsHeld ==
  /\ 0 \in readers <=> forkPc[0] # Gone
  /\ writers \subseteq Processes
  /\ 0 \in writers <=> forkPc[0] <= 4
  /\ \A c \in Children : c \in writers <=> forkPc[c] \in 1 .. 4

(* A process that ended keeps no line, and a parent that forks has only    *)
(* the reports of the forks that failed.                                   *)
LinesKept ==
  /\ \A p \in Processes : forkPc[p] \in {NotForked, Gone} => unseen[p] = NoLines
  /\ forkPc[0] <= 4 =>
       /\ \A c \in Children : /\ unseen[0][<<"started", c>>] = 0
                              /\ unseen[0][<<"message", c>>] = 0
                              /\ unseen[0][<<"failed", c>>] =
                                   One(~terminal /\ c < forkPc[0] /\ forkPc[c] = NotForked)
       /\ unseen[0][<<"junk", 0>>] = 0

StartedOnce ==
  \A c \in Children :
    Printed(unseen, shown, <<"started", c>>) = One(forkPc[c] \in {3, 4, Gone})

FailedOnce ==
  \A c \in Children :
    Printed(unseen, shown, <<"failed", c>>) =
      IF c < forkPc[0] /\ forkPc[c] = NotForked
        THEN 1 + IF terminal THEN 0 ELSE CountIn({d \in Forked : d > c})
        ELSE 0

(* A message is in the pipe or was read, once it was written. *)
ReadOnce ==
  \A c \in Children :
    Printed(unseen, shown, <<"message", c>>) + One(InPipe(pipe, c)) =
      One(forkPc[c] \in {4, Gone})

Reads == IF forkPc[0] <= 4 THEN 0 ELSE IF forkPc[0] <= 8 THEN forkPc[0] - 5 ELSE 3

AllReads ==
  /\ Printed(unseen, shown, <<"message", 1>>) + Printed(unseen, shown, <<"message", 2>>)
       + Printed(unseen, shown, <<"message", 3>>) + Printed(unseen, shown, <<"junk", 0>>) = Reads
  /\ Printed(unseen, shown, <<"junk", 0>>) # 0 => pipe = <<>> /\ writers = {}

PipeInv ==
  PipeTypes /\ EndsHeld /\ LinesKept /\ StartedOnce /\ FailedOnce /\ ReadOnce /\ AllReads

LEMMA CountIsCardinality ==
  ASSUME NEW S \in SUBSET Children
  PROVE  Cardinality(S) = CountIn(S)
<1> DEFINE A == IF 1 \in S THEN {1} ELSE {}
           B == IF 2 \in S THEN A \cup {2} ELSE A
           C == IF 3 \in S THEN B \cup {3} ELSE B
<1>1. S = C
  <2>1. \A x \in S : x = 1 \/ x = 2 \/ x = 3
    BY DEF Children
  <2>2. A = S \cap {1} /\ B = S \cap {1, 2} /\ C = S \cap {1, 2, 3}
    OBVIOUS
  <2> HIDE DEF C
  <2> QED
    BY <2>1, <2>2
<1>2. IsFiniteSet({}) /\ Cardinality({}) = 0
  BY FS_EmptySet
<1>3. IsFiniteSet(A) /\ Cardinality(A) = One(1 \in S) /\ 2 \notin A /\ 3 \notin A
  <2>1. {} \cup {1} = {1} /\ 1 \notin {}
    OBVIOUS
  <2>2. IsFiniteSet({1}) /\ Cardinality({1}) = 1
    BY <1>2, <2>1, FS_AddElement
  <2> QED
    BY <1>2, <2>2 DEF One
<1>4. 3 \notin B
  BY <1>3
<1> HIDE DEF A
<1>5. IsFiniteSet(B) /\ Cardinality(B) = Cardinality(A) + One(2 \in S)
  BY <1>3, FS_AddElement DEF One
<1> HIDE DEF B
<1>6. Cardinality(C) = Cardinality(B) + One(3 \in S)
  <2>1. Cardinality(B) \in Nat
    BY <1>5, FS_CardinalityType
  <2>2. Cardinality(B \cup {3}) = Cardinality(B) + 1
    BY <1>4, <1>5, FS_AddElement
  <2> QED
    BY <2>1, <2>2 DEF One
<1> QED
  BY <1>1, <1>3, <1>5, <1>6 DEF CountIn, One

LEMMA LineNames ==
  /\ <<"junk", 0>> \in Lines
  /\ \A c \in Children : /\ <<"started", c>> \in Lines
                         /\ <<"failed", c>> \in Lines
                         /\ <<"message", c>> \in Lines
  /\ \A c, d \in Children : /\ <<"started", c>> = <<"started", d>> <=> c = d
                            /\ <<"failed", c>> = <<"failed", d>> <=> c = d
                            /\ <<"message", c>> = <<"message", d>> <=> c = d
                            /\ <<"started", c>> # <<"failed", d>>
                            /\ <<"started", c>> # <<"message", d>>
                            /\ <<"failed", c>> # <<"message", d>>
                            /\ <<"started", c>> # <<"junk", 0>>
                            /\ <<"failed", c>> # <<"junk", 0>>
                            /\ <<"message", c>> # <<"junk", 0>>
  /\ \A l \in Lines : l = <<"junk", 0>> \/ \E c \in Children : l \in {<<"started", c>>, <<"failed", c>>, <<"message", c>>}
BY DEF Lines

LEMMA PrintedTyped ==
  ASSUME PipeTypes, NEW l \in Lines
  PROVE  /\ Printed(unseen, shown, l) \in Nat
         /\ \A p \in Processes : unseen[p][l] \in Nat
         /\ shown[l] \in Nat
<1>1. /\ unseen \in [Processes -> [Lines -> Nat]] /\ shown \in [Lines -> Nat]
      /\ 0 \in Processes /\ 1 \in Processes /\ 2 \in Processes /\ 3 \in Processes
  BY DEF PipeTypes, Processes
<1>2. shown[l] \in Nat /\ \A p \in Processes : unseen[p][l] \in Nat
  BY <1>1
<1> QED
  BY <1>1, <1>2 DEF Printed

(* A line that is put is printed once more, and no other is. *)
LEMMA PutsPrints ==
  ASSUME PipeTypes, NEW p \in Processes, NEW line \in Lines, Puts(p, line)
  PROVE  /\ \A l \in Lines : Printed(unseen', shown', l) =
                               Printed(unseen, shown, l) + One(l = line)
         /\ unseen' \in [Processes -> [Lines -> Nat]]
         /\ shown' \in [Lines -> Nat]
         /\ \A q \in Processes \ {p} : unseen'[q] = unseen[q]
         /\ \A l \in Lines : unseen'[p][l] = unseen[p][l] + One(~terminal /\ l = line)
<1>1. /\ unseen \in [Processes -> [Lines -> Nat]] /\ shown \in [Lines -> Nat]
      /\ terminal \in BOOLEAN
  BY DEF PipeTypes
<1>2. CASE terminal
  <2>1. shown' = [shown EXCEPT ![line] = @ + 1] /\ unseen' = unseen
    BY <1>2 DEF Puts
  <2>2. \A l \in Lines : shown'[l] = shown[l] + One(l = line) /\ shown'[l] \in Nat
    BY <1>1, <2>1 DEF One
  <2>3. \A l \in Lines : Printed(unseen', shown', l) = Printed(unseen, shown, l) + One(l = line)
    BY <1>1, <2>1, <2>2 DEF Printed, Processes, One
  <2>4. \A l \in Lines : unseen'[p][l] = unseen[p][l] + One(~terminal /\ l = line)
    BY <1>1, <1>2, <2>1 DEF One
  <2> QED
    BY <1>1, <2>1, <2>2, <2>3, <2>4
<1>3. CASE ~terminal
  <2>1. unseen' = [unseen EXCEPT ![p][line] = @ + 1] /\ shown' = shown
    BY <1>3 DEF Puts
  <2>2. unseen' \in [Processes -> [Lines -> Nat]] /\ \A q \in Processes \ {p} : unseen'[q] = unseen[q]
    BY <1>1, <2>1
  <2>3. \A l \in Lines : unseen'[p][l] = unseen[p][l] + One(l = line)
    BY <1>1, <2>1 DEF One
  <2>4. \A l \in Lines, q \in Processes : unseen'[q][l] = unseen[q][l] + One(q = p /\ l = line)
    BY <1>1, <2>2, <2>3 DEF One
  <2>5. ASSUME NEW l \in Lines
        PROVE  Printed(unseen', shown', l) = Printed(unseen, shown, l) + One(l = line)
    <3>1. p = 0 \/ p = 1 \/ p = 2 \/ p = 3
      BY DEF Processes
    <3>2. 0 \in Processes /\ 1 \in Processes /\ 2 \in Processes /\ 3 \in Processes
      BY DEF Processes
    <3>3. \A q \in Processes : unseen[q][l] \in Nat
      BY <1>1
    <3>4. shown[l] \in Nat /\ shown'[l] = shown[l]
      BY <1>1, <2>1
    <3>5. CASE l # line
      BY <2>4, <3>2, <3>3, <3>4, <3>5 DEF Printed, One
    <3>6. CASE l = line
      <4> DEFINE new(q) == unseen[q][l] + (IF q = p THEN 1 ELSE 0)
      <4>1. \A q \in Processes : unseen'[q][l] = new(q)
        BY <2>4, <3>6 DEF One
      <4>2. /\ unseen'[0][l] = new(0) /\ unseen'[1][l] = new(1)
            /\ unseen'[2][l] = new(2) /\ unseen'[3][l] = new(3)
        BY <4>1, <3>2
      <4>3. new(0) + new(1) + new(2) + new(3) =
              unseen[0][l] + unseen[1][l] + unseen[2][l] + unseen[3][l] + 1
        BY <3>1, <3>2, <3>3
      <4> HIDE DEF new
      <4>4. \A q \in Processes : unseen'[q][l] \in Nat
        BY <2>2, <3>6
      <4>5. One(l = line) = 1
        BY <3>6 DEF One
      <4>6. \A z, a, b, c, d, e, f, g, h \in Nat :
              a + b + c + d = e + f + g + h + 1 => z + a + b + c + d = z + e + f + g + h + 1
        OBVIOUS
      <4>7. unseen'[0][l] + unseen'[1][l] + unseen'[2][l] + unseen'[3][l] =
              unseen[0][l] + unseen[1][l] + unseen[2][l] + unseen[3][l] + 1
        BY <4>2, <4>3
      <4>8. shown[l] + unseen'[0][l] + unseen'[1][l] + unseen'[2][l] + unseen'[3][l] =
              shown[l] + unseen[0][l] + unseen[1][l] + unseen[2][l] + unseen[3][l] + 1
        BY <3>2, <3>3, <3>4, <4>4, <4>6, <4>7
      <4> QED
        BY <3>4, <4>5, <4>8 DEF Printed
    <3> QED
      BY <3>5, <3>6
  <2>6. \A l \in Lines : unseen'[p][l] = unseen[p][l] + One(~terminal /\ l = line)
    BY <1>3, <2>3 DEF One
  <2> QED
    BY <1>1, <2>1, <2>2, <2>5, <2>6
<1> QED
  BY <1>1, <1>2, <1>3

LEMMA ParentAt ==
  ASSUME PipeTypes
  PROVE  /\ At(0, "fork") => forkPc[0] \in 1 .. 3
         /\ At(0, "closeWrite") => forkPc[0] = 4
         /\ At(0, "read") => forkPc[0] \in 5 .. 7
         /\ At(0, "wait") => forkPc[0] = 8
         /\ At(0, "exit") => forkPc[0] = 9
         /\ ~At(0, "closeRead") /\ ~At(0, "print") /\ ~At(0, "write")
<1>1. forkPc[0] \in 1 .. 9 \/ forkPc[0] = Gone
  BY DEF PipeTypes
<1>2. CASE forkPc[0] = Gone
  BY <1>2 DEF At, Running
<1>3. CASE forkPc[0] \in 1 .. 9
  <2>1. /\ ParentMain[1] = "fork" /\ ParentMain[2] = "fork" /\ ParentMain[3] = "fork"
        /\ ParentMain[4] = "closeWrite" /\ ParentMain[5] = "read" /\ ParentMain[6] = "read"
        /\ ParentMain[7] = "read" /\ ParentMain[8] = "wait" /\ ParentMain[9] = "exit"
    BY DEF ParentMain
  <2>2. \A op : At(0, op) => ParentMain[forkPc[0]] = op
    BY DEF At
  <2>3. \/ forkPc[0] = 1 \/ forkPc[0] = 2 \/ forkPc[0] = 3 \/ forkPc[0] = 4 \/ forkPc[0] = 5
        \/ forkPc[0] = 6 \/ forkPc[0] = 7 \/ forkPc[0] = 8 \/ forkPc[0] = 9
    BY <1>3
  <2> QED
    BY <2>1, <2>2, <2>3
<1> QED
  BY <1>1, <1>2, <1>3

LEMMA ChildAt ==
  ASSUME PipeTypes, NEW c \in Children
  PROVE  /\ At(c, "closeRead") => forkPc[c] = 1
         /\ At(c, "print") => forkPc[c] = 2
         /\ At(c, "write") => forkPc[c] = 3
         /\ At(c, "exit") => forkPc[c] = 4
         /\ ~At(c, "closeWrite")
<1>1. forkPc[c] \in 1 .. 4 \/ forkPc[c] \in {NotForked, Gone}
  BY DEF PipeTypes, NotForked
<1>2. CASE forkPc[c] \in {NotForked, Gone}
  BY <1>2 DEF At, Running
<1>3. CASE forkPc[c] \in 1 .. 4
  <2>1. /\ ChildMain[1] = "closeRead" /\ ChildMain[2] = "print"
        /\ ChildMain[3] = "write" /\ ChildMain[4] = "exit"
    BY DEF ChildMain
  <2>2. c # 0
    BY DEF Children
  <2>3. \A op : At(c, op) => ChildMain[forkPc[c]] = op
    BY <2>2 DEF At
  <2>4. forkPc[c] = 1 \/ forkPc[c] = 2 \/ forkPc[c] = 3 \/ forkPc[c] = 4
    BY <1>3
  <2> QED
    BY <2>1, <2>3, <2>4
<1> QED
  BY <1>1, <1>2, <1>3

LEMMA PipeStarts == PipeInit => PipeInv
<1> SUFFICES ASSUME PipeInit PROVE PipeInv
  OBVIOUS
<1>1. /\ forkPc = [p \in Processes |-> IF p = 0 THEN 1 ELSE NotForked]
      /\ pipe = <<>> /\ readers = {0} /\ writers = {0} /\ terminal \in BOOLEAN
      /\ unseen = [p \in Processes |-> NoLines] /\ shown = NoLines /\ broken = FALSE
  BY DEF PipeInit
<1>2. Processes = Children \cup {0} /\ 0 \notin Children /\ 0 \in Processes
  BY DEF Processes, Children
<1>3. forkPc[0] = 1 /\ \A c \in Children : forkPc[c] = 0
  BY <1>1, <1>2 DEF NotForked
<1>4. NoLines \in [Lines -> Nat] /\ \A l \in Lines : NoLines[l] = 0
  BY DEF NoLines
<1>5. \A p \in Processes : unseen[p] = NoLines
  BY <1>1
<1>6. \A l \in Lines : Printed(unseen, shown, l) = 0
  BY <1>1, <1>4 DEF Printed, Processes
<1>7. <<>> \in Seq(Children) /\ Len(<<>>) = 0
  OBVIOUS
<1>8. PipeTypes
  <2>1. forkPc \in [Processes -> Nat]
    BY <1>1 DEF NotForked
  <2> QED
    BY <1>1, <1>3, <1>4, <1>7, <2>1 DEF PipeTypes, NotForked, Distinct
<1>9. EndsHeld
  BY <1>1, <1>2, <1>3 DEF EndsHeld, Gone
<1>10. LinesKept
  <2>1. \A c \in Children : ~(c < forkPc[0])
    BY <1>3 DEF Children
  <2> QED
    BY <1>2, <1>4, <1>5, <2>1, LineNames DEF LinesKept, One
<1>11. StartedOnce
  <2>1. \A c \in Children : Printed(unseen, shown, <<"started", c>>) = 0
    BY <1>6, LineNames
  <2>2. \A c \in Children : ~(forkPc[c] \in {3, 4, Gone})
    BY <1>3 DEF Gone
  <2> QED
    BY <2>1, <2>2 DEF StartedOnce, One
<1>12. FailedOnce
  <2>1. \A c \in Children : ~(c < forkPc[0])
    BY <1>3 DEF Children
  <2> QED
    BY <1>6, <2>1, LineNames DEF FailedOnce
<1>13. ReadOnce
  <2>1. \A c \in Children : Printed(unseen, shown, <<"message", c>>) = 0
    BY <1>6, LineNames
  <2>2. \A c \in Children : ~(forkPc[c] \in {4, Gone}) /\ ~InPipe(pipe, c)
    BY <1>1, <1>3, <1>7 DEF Gone, InPipe
  <2>3. ASSUME NEW c \in Children
        PROVE  Printed(unseen, shown, <<"message", c>>) + One(InPipe(pipe, c)) =
                 One(forkPc[c] \in {4, Gone})
    <3>1. One(InPipe(pipe, c)) = 0 /\ One(forkPc[c] \in {4, Gone}) = 0
      BY <2>2 DEF One
    <3>2. Printed(unseen, shown, <<"message", c>>) = 0
      BY <2>1
    <3>3. 0 + 0 = 0
      OBVIOUS
    <3> QED
      BY <3>1, <3>2, <3>3, Zenon
  <2> QED
    BY <2>3, Zenon DEF ReadOnce
<1>14. AllReads
  <2>1. /\ Printed(unseen, shown, <<"message", 1>>) = 0
        /\ Printed(unseen, shown, <<"message", 2>>) = 0
        /\ Printed(unseen, shown, <<"message", 3>>) = 0
        /\ Printed(unseen, shown, <<"junk", 0>>) = 0
    BY <1>6, LineNames DEF Children
  <2> QED
    BY <1>3, <2>1 DEF AllReads, Reads
<1> QED
  BY <1>8, <1>9, <1>10, <1>11, <1>12, <1>13, <1>14 DEF PipeInv

(* One more message in the pipe, one less. *)
LEMMA PipeGrows ==
  ASSUME NEW q \in Seq(Children), NEW c \in Children, Distinct(q), ~InPipe(q, c)
  PROVE  /\ Append(q, c) \in Seq(Children) /\ Distinct(Append(q, c))
         /\ \A d \in Children : InPipe(Append(q, c), d) <=> d = c \/ InPipe(q, d)
<1>1. /\ Append(q, c) \in Seq(Children) /\ Len(Append(q, c)) = Len(q) + 1 /\ Len(q) \in Nat
      /\ Append(q, c)[Len(q) + 1] = c
      /\ \A i \in 1 .. Len(q) : Append(q, c)[i] = q[i]
  OBVIOUS
<1>2. 1 .. Len(q) + 1 = (1 .. Len(q)) \cup {Len(q) + 1}
  BY <1>1
<1>3. Distinct(Append(q, c))
  BY <1>1, <1>2 DEF Distinct, InPipe
<1>4. \A d \in Children : InPipe(Append(q, c), d) <=> d = c \/ InPipe(q, d)
  BY <1>1, <1>2 DEF InPipe
<1> QED
  BY <1>1, <1>3, <1>4

LEMMA PipeShrinks ==
  ASSUME NEW q \in Seq(Children), Distinct(q), q # <<>>
  PROVE  /\ Tail(q) \in Seq(Children) /\ Distinct(Tail(q)) /\ Head(q) \in Children
         /\ InPipe(q, Head(q)) /\ ~InPipe(Tail(q), Head(q))
         /\ \A d \in Children \ {Head(q)} : InPipe(Tail(q), d) <=> InPipe(q, d)
<1>1. /\ Head(q) \in Children /\ Tail(q) \in Seq(Children)
      /\ Len(Tail(q)) = Len(q) - 1 /\ Len(q) \in Nat \ {0}
      /\ \A i \in 1 .. Len(Tail(q)) : Tail(q)[i] = q[i + 1]
  BY HeadTailProperties, EmptySeq
<1>2. Head(q) = q[1] /\ 1 \in 1 .. Len(q)
  BY <1>1
<1>3. \A i \in 1 .. Len(Tail(q)) : i + 1 \in 1 .. Len(q) /\ i + 1 # 1 /\ i \in Nat
  BY <1>1
<1>4. \A i \in 1 .. Len(q) : i = 1 \/ (i - 1 \in 1 .. Len(Tail(q)) /\ (i - 1) + 1 = i)
  BY <1>1
<1>5. Distinct(Tail(q))
  BY <1>1, <1>3 DEF Distinct
<1>6. InPipe(q, Head(q))
  BY <1>2 DEF InPipe
<1>7. ~InPipe(Tail(q), Head(q))
  BY <1>1, <1>2, <1>3 DEF InPipe, Distinct
<1>8. ASSUME NEW d \in Children \ {Head(q)} PROVE InPipe(Tail(q), d) <=> InPipe(q, d)
  <2>1. ASSUME InPipe(Tail(q), d) PROVE InPipe(q, d)
    BY <1>1, <1>3, <2>1 DEF InPipe
  <2>2. ASSUME InPipe(q, d) PROVE InPipe(Tail(q), d)
    <3>1. PICK i \in 1 .. Len(q) : q[i] = d
      BY <2>2 DEF InPipe
    <3>2. i # 1
      BY <1>2, <3>1
    <3>3. i - 1 \in 1 .. Len(Tail(q)) /\ Tail(q)[i - 1] = d
      BY <1>1, <1>4, <3>1, <3>2
    <3> QED
      BY <3>3 DEF InPipe
  <2> QED
    BY <2>1, <2>2
<1> QED
  BY <1>1, <1>5, <1>6, <1>7, <1>8

(* The reports of the failed forks, when none is added. *)
LEMMA FailuresStay ==
  ASSUME FailedOnce, UNCHANGED terminal,
         \A c \in Children : forkPc'[c] = NotForked <=> forkPc[c] = NotForked,
         \A c \in Children : c < forkPc'[0] <=> c < forkPc[0],
         \A c \in Children : Printed(unseen', shown', <<"failed", c>>) =
                               Printed(unseen, shown, <<"failed", c>>)
  PROVE  FailedOnce'
<1>1. Forked' = Forked
  BY DEF Forked
<1> QED
  BY <1>1 DEF FailedOnce

LEMMA ProcessesAre ==
  /\ Processes = Children \cup {0} /\ 0 \notin Children /\ 0 \in Processes
  /\ 1 \in Processes /\ 2 \in Processes /\ 3 \in Processes
  /\ 1 \in Children /\ 2 \in Children /\ 3 \in Children
  /\ \A c \in Children : c = 1 \/ c = 2 \/ c = 3
BY DEF Processes, Children

(* One child more, behind c. *)
LEMMA CountOneMore ==
  ASSUME NEW F \in SUBSET Children, NEW n \in Children \ F, NEW c \in Children, c < n
  PROVE  CountIn({d \in F \cup {n} : d > c}) = CountIn({d \in F : d > c}) + 1
<1>1. n = 1 \/ n = 2 \/ n = 3
  BY ProcessesAre
<1>2. \A m \in Children : m \in {d \in F \cup {n} : d > c} <=> m = n \/ m \in {d \in F : d > c}
  BY DEF Children
<1>3. n \notin {d \in F : d > c}
  OBVIOUS
<1> DEFINE S == {d \in F : d > c}
           T == {d \in F \cup {n} : d > c}
<1>4. n \notin S /\ \A m \in Children : m \in T <=> m = n \/ m \in S
  BY <1>2, <1>3
<1> HIDE DEF S, T
<1>5. /\ 1 \in T <=> 1 = n \/ 1 \in S
      /\ 2 \in T <=> 2 = n \/ 2 \in S
      /\ 3 \in T <=> 3 = n \/ 3 \in S
  BY <1>4, ProcessesAre
<1>6. CountIn(T) = CountIn(S) + 1
  <2>1. CASE n = 1
    BY <1>4, <1>5, <2>1 DEF CountIn, One
  <2>2. CASE n = 2
    BY <1>4, <1>5, <2>2 DEF CountIn, One
  <2>3. CASE n = 3
    BY <1>4, <1>5, <2>3 DEF CountIn, One
  <2> QED
    BY <1>1, <2>1, <2>2, <2>3
<1> QED
  BY <1>6 DEF S, T

LEMMA ForkKeeps ==
  ASSUME PipeInv, Fork
  PROVE  PipeInv'
<1> DEFINE n == forkPc[0]
<1>1. /\ At(0, "fork")
      /\ forkPc' = [Advanced(0) EXCEPT ![n] = 1]
      /\ readers' = readers \cup {n} /\ writers' = writers \cup {n}
      /\ unseen' = [unseen EXCEPT ![n] = unseen[0]]
      /\ UNCHANGED <<pipe, terminal, shown, broken>>
  BY DEF Fork
<1>2. PipeTypes
  BY DEF PipeInv
<1>3. n \in Children /\ n # 0 /\ n <= 3 /\ 1 <= n /\ n \in Nat
  BY <1>1, <1>2, ParentAt DEF Children
<1>4. forkPc \in [Processes -> Nat]
  BY <1>2 DEF PipeTypes
<1>5. /\ forkPc' \in [Processes -> Nat] /\ forkPc'[0] = n + 1 /\ forkPc'[n] = 1
      /\ \A c \in Children \ {n} : forkPc'[c] = forkPc[c]
  BY <1>1, <1>3, <1>4, ProcessesAre DEF Advanced
<1>6. forkPc[n] = NotForked
  BY <1>2, <1>3 DEF PipeTypes
<1>7. unseen[n] = NoLines /\ \A l \in Lines : unseen[n][l] = 0
  BY <1>3, <1>6, ProcessesAre DEF PipeInv, LinesKept, NoLines
<1>8. unseen \in [Processes -> [Lines -> Nat]] /\ shown \in [Lines -> Nat]
  BY <1>2 DEF PipeTypes
<1>9. /\ unseen' \in [Processes -> [Lines -> Nat]] /\ unseen'[n] = unseen[0]
      /\ \A p \in Processes \ {n} : unseen'[p] = unseen[p]
  BY <1>1, <1>3, <1>8, ProcessesAre
<1>10. ASSUME NEW l \in Lines
       PROVE  Printed(unseen', shown', l) = Printed(unseen, shown, l) + unseen[0][l]
  <2>1. /\ unseen[0][l] \in Nat /\ unseen[1][l] \in Nat /\ unseen[2][l] \in Nat
        /\ unseen[3][l] \in Nat /\ shown[l] \in Nat /\ shown' = shown
    BY <1>1, <1>8, ProcessesAre
  <2> HIDE DEF n
  <2>5. unseen[n][l] = 0 /\ unseen'[n][l] = unseen[0][l] /\ unseen'[0][l] = unseen[0][l]
    BY <1>3, <1>7, <1>9, ProcessesAre
  <2>6. \A p \in Processes \ {n} : unseen'[p][l] = unseen[p][l]
    BY <1>9
  <2>2. CASE n = 1
    <3>1. unseen'[2][l] = unseen[2][l] /\ unseen'[3][l] = unseen[3][l]
      BY <2>2, <2>6, ProcessesAre
    <3> QED
      BY <2>1, <2>2, <2>5, <3>1 DEF Printed
  <2>3. CASE n = 2
    <3>1. unseen'[1][l] = unseen[1][l] /\ unseen'[3][l] = unseen[3][l]
      BY <2>3, <2>6, ProcessesAre
    <3> QED
      BY <2>1, <2>3, <2>5, <3>1 DEF Printed
  <2>4. CASE n = 3
    <3>1. unseen'[1][l] = unseen[1][l] /\ unseen'[2][l] = unseen[2][l]
      BY <2>4, <2>6, ProcessesAre
    <3> QED
      BY <2>1, <2>4, <2>5, <3>1 DEF Printed
  <2> QED
    BY <1>3, <2>2, <2>3, <2>4, ProcessesAre
<1>11. /\ \A c \in Children : /\ unseen[0][<<"started", c>>] = 0
                              /\ unseen[0][<<"message", c>>] = 0
                              /\ unseen[0][<<"failed", c>>] =
                                   One(~terminal /\ c < n /\ forkPc[c] = NotForked)
       /\ unseen[0][<<"junk", 0>>] = 0
  BY <1>3 DEF PipeInv, LinesKept
<1> HIDE DEF n
<1>12. \A c \in Children : /\ forkPc'[c] = NotForked <=> forkPc[c] = NotForked /\ c # n
                           /\ c < forkPc'[0] <=> c < n \/ c = n
                           /\ forkPc'[c] \in {4, Gone} <=> forkPc[c] \in {4, Gone}
                           /\ forkPc'[c] \in {3, 4, Gone} <=> forkPc[c] \in {3, 4, Gone}
                           /\ c \in Nat
  BY <1>3, <1>5, <1>6 DEF NotForked, Gone, Children
<1>13. n = forkPc[0] /\ n <= 4 /\ forkPc'[0] \in 1 .. 4
  BY <1>3, <1>5 DEF n
<1>14. PipeTypes'
  <2>1. \A c \in Children : forkPc'[c] \in (0 .. 4) \cup {Gone}
    <3>1. 1 \in 0 .. 4
      OBVIOUS
    <3> QED
      BY <1>2, <1>5, <3>1 DEF PipeTypes
  <2>2. \A c \in Children : forkPc'[c] # NotForked => c < forkPc'[0]
    BY <1>2, <1>12, <1>13 DEF PipeTypes
  <2>3. forkPc'[0] \in (1 .. 9) \cup {Gone}
    BY <1>13
  <2> QED
    BY <1>1, <1>2, <1>5, <1>8, <1>9, <2>1, <2>2, <2>3 DEF PipeTypes
<1>15. EndsHeld'
  <2>1. 0 \in readers' /\ forkPc'[0] # Gone /\ 0 \in writers' /\ forkPc'[0] <= 4
    BY <1>1, <1>3, <1>13 DEF PipeInv, EndsHeld, Gone
  <2>2. writers' \subseteq Processes
    BY <1>1, <1>3, ProcessesAre DEF PipeInv, EndsHeld
  <2>3. \A c \in Children : c \in writers' <=> forkPc'[c] \in 1 .. 4
    BY <1>1, <1>5 DEF PipeInv, EndsHeld, n
  <2> QED
    BY <2>1, <2>2, <2>3 DEF EndsHeld
<1>16. LinesKept'
  <2>1. ASSUME NEW p \in Processes, forkPc'[p] \in {NotForked, Gone} PROVE unseen'[p] = NoLines
    <3>1. p # 0 /\ p # n /\ p \in Children
      BY <1>5, <1>13, <2>1, ProcessesAre DEF NotForked, Gone
    <3> QED
      BY <1>5, <1>9, <2>1, <3>1 DEF PipeInv, LinesKept
  <2>2. unseen'[0] = unseen[0]
    BY <1>3, <1>9, ProcessesAre
  <2>3. \A c \in Children : One(~terminal /\ c < n /\ forkPc[c] = NotForked) =
                             One(~terminal /\ c < forkPc'[0] /\ forkPc'[c] = NotForked)
    BY <1>3, <1>12 DEF One
  <2> QED
    BY <1>1, <1>11, <2>1, <2>2, <2>3 DEF LinesKept
<1>23. \A l \in Lines : unseen[0][l] = 0 =>
         Printed(unseen', shown', l) = Printed(unseen, shown, l)
  <2>1. \A x \in Nat : x + 0 = x
    OBVIOUS
  <2>2. \A l \in Lines : Printed(unseen, shown, l) \in Nat
    BY <1>2, PrintedTyped
  <2> QED
    BY <1>10, <2>1, <2>2
<1>17. StartedOnce'
  <2>1. \A c \in Children : Printed(unseen', shown', <<"started", c>>) =
                             Printed(unseen, shown, <<"started", c>>)
    BY <1>11, <1>23, LineNames
  <2> QED
    BY <1>12, <2>1 DEF PipeInv, StartedOnce, One
<1>18. FailedOnce'
  <2> SUFFICES ASSUME NEW c \in Children
               PROVE  Printed(unseen', shown', <<"failed", c>>) =
                        IF c < forkPc'[0] /\ forkPc'[c] = NotForked
                          THEN 1 + IF terminal THEN 0 ELSE CountIn({d \in Forked' : d > c})
                          ELSE 0
    BY <1>1 DEF FailedOnce
  <2>1. Printed(unseen', shown', <<"failed", c>>) =
          Printed(unseen, shown, <<"failed", c>>)
            + One(~terminal /\ c < n /\ forkPc[c] = NotForked)
    <3>1. <<"failed", c>> \in Lines
      BY LineNames
    <3>2. unseen[0][<<"failed", c>>] = One(~terminal /\ c < n /\ forkPc[c] = NotForked)
      BY <1>11
    <3> QED
      BY <1>10, <3>1, <3>2, Zenon
  <2>2. Printed(unseen, shown, <<"failed", c>>) =
          IF c < n /\ forkPc[c] = NotForked
            THEN 1 + IF terminal THEN 0 ELSE CountIn({d \in Forked : d > c})
            ELSE 0
    BY <1>13 DEF PipeInv, FailedOnce
  <2>3. CASE c < n /\ forkPc[c] = NotForked
    <3>1. forkPc'[c] = NotForked /\ c < forkPc'[0]
      BY <1>3, <1>12, <2>3
    <3>2. Forked' = Forked \cup {n} /\ n \in Children \ Forked /\ Forked \in SUBSET Children
      BY <1>3, <1>6, <1>12 DEF Forked
    <3>3. CountIn({d \in Forked' : d > c}) = CountIn({d \in Forked : d > c}) + 1
      BY <2>3, <3>2, CountOneMore
    <3>4. CountIn({d \in Forked : d > c}) \in Nat
      BY DEF CountIn, One
    <3> QED
      BY <2>1, <2>2, <2>3, <3>1, <3>3, <3>4 DEF One
  <2>4. CASE ~(c < n /\ forkPc[c] = NotForked)
    <3>1. ~(c < forkPc'[0] /\ forkPc'[c] = NotForked)
      BY <1>12, <2>4
    <3> QED
      BY <2>1, <2>2, <2>4, <3>1 DEF One
  <2> QED
    BY <2>3, <2>4
<1>19. \A c \in Children : Printed(unseen', shown', <<"message", c>>) =
                             Printed(unseen, shown, <<"message", c>>)
  BY <1>11, <1>23, LineNames
<1>20. Printed(unseen', shown', <<"junk", 0>>) = Printed(unseen, shown, <<"junk", 0>>)
  BY <1>11, <1>23, LineNames
<1>21. ReadOnce'
  BY <1>1, <1>12, <1>19 DEF PipeInv, ReadOnce, One
<1>22. AllReads'
  <2>1. Reads' = 0 /\ Reads = 0
    BY <1>3, <1>13 DEF Reads
  <2>2. Printed(unseen, shown, <<"junk", 0>>) = 0
    <3>1. 0 \in writers
      BY <1>13 DEF PipeInv, EndsHeld
    <3> QED
      BY <3>1 DEF PipeInv, AllReads
  <2> QED
    BY <1>19, <1>20, <2>1, <2>2, ProcessesAre DEF PipeInv, AllReads
<1> QED
  BY <1>14, <1>15, <1>16, <1>17, <1>18, <1>21, <1>22 DEF PipeInv

LEMMA ForkFailsKeeps ==
  ASSUME PipeInv, ForkFails
  PROVE  PipeInv'
<1> DEFINE n == forkPc[0]
<1>1. /\ At(0, "fork") /\ forkPc' = Advanced(0) /\ Puts(0, <<"failed", n>>)
      /\ UNCHANGED <<pipe, readers, writers, terminal, broken>>
  BY DEF ForkFails
<1>2. PipeTypes
  BY DEF PipeInv
<1>3. n \in Children /\ n # 0 /\ n <= 3 /\ 1 <= n /\ n \in Nat
  BY <1>1, <1>2, ParentAt DEF Children
<1>4. /\ forkPc' \in [Processes -> Nat] /\ forkPc'[0] = n + 1
      /\ \A c \in Children : forkPc'[c] = forkPc[c]
  BY <1>1, <1>2, <1>3, ProcessesAre DEF Advanced, PipeTypes
<1>5. <<"failed", n>> \in Lines /\ 0 \in Processes
  BY <1>3, LineNames, ProcessesAre
<1>6. /\ \A l \in Lines : Printed(unseen', shown', l) =
                            Printed(unseen, shown, l) + One(l = <<"failed", n>>)
      /\ unseen' \in [Processes -> [Lines -> Nat]] /\ shown' \in [Lines -> Nat]
      /\ \A q \in Processes \ {0} : unseen'[q] = unseen[q]
      /\ \A l \in Lines : unseen'[0][l] = unseen[0][l] + One(~terminal /\ l = <<"failed", n>>)
  BY <1>1, <1>2, <1>5, PutsPrints
<1>7. /\ \A l \in Lines \ {<<"failed", n>>} : /\ Printed(unseen', shown', l) = Printed(unseen, shown, l)
                                              /\ unseen'[0][l] = unseen[0][l]
      /\ Printed(unseen', shown', <<"failed", n>>) = Printed(unseen, shown, <<"failed", n>>) + 1
      /\ unseen'[0][<<"failed", n>>] = unseen[0][<<"failed", n>>] + One(~terminal)
  <2>1. \A l \in Lines : Printed(unseen, shown, l) \in Nat /\ unseen[0][l] \in Nat
    BY <1>2, PrintedTyped, ProcessesAre
  <2> HIDE DEF n
  <2>2. ASSUME NEW l \in Lines \ {<<"failed", n>>}
        PROVE  /\ Printed(unseen', shown', l) = Printed(unseen, shown, l)
               /\ unseen'[0][l] = unseen[0][l]
    <3>1. One(l = <<"failed", n>>) = 0 /\ One(~terminal /\ l = <<"failed", n>>) = 0
      BY <2>2 DEF One
    <3>2. \A x \in Nat : x + 0 = x
      OBVIOUS
    <3> QED
      BY <1>6, <2>1, <3>1, <3>2
  <2>3. One(<<"failed", n>> = <<"failed", n>>) = 1
    BY DEF One
  <2>4. One(~terminal /\ <<"failed", n>> = <<"failed", n>>) = One(~terminal)
    BY DEF One
  <2> QED
    BY <1>5, <1>6, <2>2, <2>3, <2>4
<1>8. /\ \A c \in Children : /\ unseen[0][<<"started", c>>] = 0
                             /\ unseen[0][<<"message", c>>] = 0
                             /\ unseen[0][<<"failed", c>>] =
                                  One(~terminal /\ c < n /\ forkPc[c] = NotForked)
      /\ unseen[0][<<"junk", 0>>] = 0
  BY <1>3 DEF PipeInv, LinesKept
<1>9. forkPc[n] = NotForked /\ n = forkPc[0]
  BY <1>2, <1>3 DEF PipeTypes
<1> HIDE DEF n
<1>10. \A c \in Children : c < forkPc'[0] <=> c < n \/ c = n
  BY <1>3, <1>4 DEF Children
<1>11. forkPc'[0] \in 2 .. 4 /\ forkPc[0] \in 1 .. 3
  BY <1>3, <1>4, <1>9
<1>12. PipeTypes'
  <2>1. forkPc'[0] \in (1 .. 9) \cup {Gone}
    BY <1>11
  <2>2. \A c \in Children : forkPc'[c] # NotForked => c < forkPc'[0]
    BY <1>2, <1>4, <1>9, <1>10 DEF PipeTypes
  <2> QED
    BY <1>1, <1>2, <1>4, <1>6, <2>1, <2>2 DEF PipeTypes
<1>13. EndsHeld'
  BY <1>1, <1>4, <1>11 DEF PipeInv, EndsHeld, Gone
<1>14. LinesKept'
  <2>1. ASSUME NEW p \in Processes, forkPc'[p] \in {NotForked, Gone} PROVE unseen'[p] = NoLines
    <3>1. p # 0 /\ p \in Children
      BY <1>11, <2>1, ProcessesAre DEF NotForked, Gone
    <3> QED
      BY <1>4, <1>6, <2>1, <3>1 DEF PipeInv, LinesKept
  <2>2. ASSUME NEW c \in Children
        PROVE  /\ unseen'[0][<<"started", c>>] = 0 /\ unseen'[0][<<"message", c>>] = 0
               /\ unseen'[0][<<"failed", c>>] =
                    One(~terminal /\ c < forkPc'[0] /\ forkPc'[c] = NotForked)
    <3>4. /\ <<"started", c>> \in Lines \ {<<"failed", n>>}
          /\ <<"message", c>> \in Lines \ {<<"failed", n>>}
      BY <1>3, LineNames
    <3>1. unseen'[0][<<"started", c>>] = 0 /\ unseen'[0][<<"message", c>>] = 0
      BY <1>7, <1>8, <3>4
    <3>2. CASE c # n
      <4>1. unseen'[0][<<"failed", c>>] = unseen[0][<<"failed", c>>]
        BY <1>3, <1>7, <3>2, LineNames
      <4>2. c < forkPc'[0] <=> c < n
        BY <1>10, <3>2
      <4> QED
        BY <1>4, <1>8, <3>1, <4>1, <4>2 DEF One
    <3>3. CASE c = n
      <4>1. c < forkPc'[0] /\ ~(c < n) /\ forkPc'[c] = NotForked
        BY <1>3, <1>4, <1>9, <1>10, <3>3
      <4>2. unseen[0][<<"failed", c>>] = 0
        BY <1>8, <4>1 DEF One
      <4> QED
        BY <1>7, <3>1, <3>3, <4>1, <4>2 DEF One
    <3> QED
      BY <3>2, <3>3
  <2>3. unseen'[0][<<"junk", 0>>] = 0
    BY <1>3, <1>7, <1>8, LineNames
  <2> QED
    BY <1>1, <2>1, <2>2, <2>3 DEF LinesKept
<1>15. StartedOnce'
  <2>1. \A c \in Children : Printed(unseen', shown', <<"started", c>>) =
                             Printed(unseen, shown, <<"started", c>>)
    BY <1>3, <1>7, LineNames
  <2> QED
    BY <1>4, <2>1 DEF PipeInv, StartedOnce
<1>16. FailedOnce'
  <2> SUFFICES ASSUME NEW c \in Children
               PROVE  Printed(unseen', shown', <<"failed", c>>) =
                        IF c < forkPc'[0] /\ forkPc'[c] = NotForked
                          THEN 1 + IF terminal THEN 0 ELSE CountIn({d \in Forked' : d > c})
                          ELSE 0
    BY <1>1 DEF FailedOnce
  <2>1. Forked' = Forked
    BY <1>4 DEF Forked
  <2>2. Printed(unseen, shown, <<"failed", c>>) =
          IF c < n /\ forkPc[c] = NotForked
            THEN 1 + IF terminal THEN 0 ELSE CountIn({d \in Forked : d > c})
            ELSE 0
    BY <1>9 DEF PipeInv, FailedOnce
  <2>3. CASE c # n
    <3>1. Printed(unseen', shown', <<"failed", c>>) = Printed(unseen, shown, <<"failed", c>>)
      BY <1>3, <1>7, <2>3, LineNames
    <3> QED
      BY <1>4, <1>10, <2>1, <2>2, <2>3, <3>1
  <2>4. CASE c = n
    <3>1. c < forkPc'[0] /\ ~(c < n) /\ forkPc'[c] = NotForked
      BY <1>3, <1>4, <1>9, <1>10, <2>4
    <3>2. {d \in Forked : d > c} = {}
      BY <1>2, <1>3, <1>9, <2>4 DEF Forked, PipeTypes, Children
    <3>3. CountIn({d \in Forked : d > c}) = 0
      BY <3>2 DEF CountIn, One
    <3> QED
      BY <1>7, <2>1, <2>2, <2>4, <3>1, <3>3
  <2> QED
    BY <2>3, <2>4
<1>17. \A c \in Children : Printed(unseen', shown', <<"message", c>>) =
                             Printed(unseen, shown, <<"message", c>>)
  BY <1>3, <1>7, LineNames
<1>18. Printed(unseen', shown', <<"junk", 0>>) = Printed(unseen, shown, <<"junk", 0>>)
  BY <1>3, <1>7, LineNames
<1>19. ReadOnce'
  BY <1>1, <1>4, <1>17 DEF PipeInv, ReadOnce
<1>20. AllReads'
  <2>1. Reads' = 0 /\ Reads = 0
    BY <1>11 DEF Reads
  <2> QED
    BY <1>1, <1>17, <1>18, <2>1, ProcessesAre DEF PipeInv, AllReads
<1> QED
  BY <1>12, <1>13, <1>14, <1>15, <1>16, <1>19, <1>20 DEF PipeInv

LEMMA ChildMoves ==
  ASSUME PipeTypes, NEW c \in Children, forkPc[c] \in 1 .. 4,
         NEW v \in {2, 3, 4, Gone}, forkPc' = [forkPc EXCEPT ![c] = v]
  PROVE  /\ forkPc' \in [Processes -> Nat] /\ forkPc'[0] = forkPc[0] /\ forkPc'[c] = v
         /\ \A d \in Children \ {c} : forkPc'[d] = forkPc[d]
         /\ \A d \in Children : forkPc'[d] \in (0 .. 4) \cup {Gone}
         /\ \A d \in Children : forkPc'[d] = NotForked <=> forkPc[d] = NotForked
         /\ \A d \in Children : d < forkPc'[0] <=> d < forkPc[0]
         /\ \A d \in Children : forkPc'[d] # NotForked => d < forkPc'[0]
         /\ Reads' = Reads
<1>1. v \in Nat /\ v # NotForked /\ v \in (0 .. 4) \cup {Gone} /\ forkPc[c] # NotForked
  BY DEF NotForked, Gone
<1>2. forkPc' \in [Processes -> Nat] /\ forkPc'[0] = forkPc[0] /\ forkPc'[c] = v
  BY <1>1, ProcessesAre DEF PipeTypes
<1>3. \A d \in Children \ {c} : forkPc'[d] = forkPc[d]
  BY ProcessesAre DEF PipeTypes
<1>4. \A d \in Children : forkPc'[d] = NotForked <=> forkPc[d] = NotForked
  BY <1>1, <1>2, <1>3
<1>5. \A d \in Children : forkPc'[d] \in (0 .. 4) \cup {Gone}
  BY <1>1, <1>2, <1>3 DEF PipeTypes
<1>6. Reads' = Reads
  BY <1>2 DEF Reads
<1> QED
  BY <1>2, <1>3, <1>4, <1>5, <1>6 DEF PipeTypes

LEMMA ParentMoves ==
  ASSUME PipeTypes, forkPc[0] \in 4 .. 9,
         NEW v \in (5 .. 9) \cup {Gone}, forkPc' = [forkPc EXCEPT ![0] = v]
  PROVE  /\ forkPc' \in [Processes -> Nat] /\ forkPc'[0] = v
         /\ \A d \in Children : forkPc'[d] = forkPc[d]
         /\ \A d \in Children : d < forkPc'[0] <=> d < forkPc[0]
         /\ \A d \in Children : forkPc'[d] # NotForked => d < forkPc'[0]
         /\ ~(forkPc'[0] <= 4)
<1>1. v \in Nat /\ ~(v <= 4)
  BY DEF Gone
<1>2. forkPc' \in [Processes -> Nat] /\ forkPc'[0] = v /\ \A d \in Children : forkPc'[d] = forkPc[d]
  BY <1>1, ProcessesAre DEF PipeTypes
<1>3. \A d \in Children : d < forkPc'[0] /\ d < forkPc[0]
  BY <1>1, <1>2 DEF Children
<1> QED
  BY <1>1, <1>2, <1>3

(* A step that prints nothing and leaves the pipe as it is. *)
LEMMA QuietKeeps ==
  ASSUME PipeInv, UNCHANGED <<pipe, terminal, unseen, shown>>,
         \A c \in Children : forkPc'[c] \in {4, Gone} <=> forkPc[c] \in {4, Gone},
         \A c \in Children : forkPc'[c] \in {3, 4, Gone} <=> forkPc[c] \in {3, 4, Gone},
         \A c \in Children : forkPc'[c] = NotForked <=> forkPc[c] = NotForked,
         \A c \in Children : c < forkPc'[0] <=> c < forkPc[0],
         Reads' = Reads, writers' \subseteq writers
  PROVE  StartedOnce' /\ FailedOnce' /\ ReadOnce' /\ AllReads'
<1>1. StartedOnce'
  BY DEF PipeInv, StartedOnce, One
<1>2. FailedOnce'
  BY FailuresStay DEF PipeInv
<1>3. ReadOnce'
  BY DEF PipeInv, ReadOnce, One
<1>4. AllReads'
  BY DEF PipeInv, AllReads
<1> QED
  BY <1>1, <1>2, <1>3, <1>4

LEMMA ParentCloseKeeps ==
  ASSUME PipeInv, Close(0)
  PROVE  PipeInv'
<1>1. PipeTypes
  BY DEF PipeInv
<1>2. /\ forkPc[0] = 4 /\ writers' = writers \ {0} /\ readers' = readers
      /\ forkPc' = Advanced(0) /\ UNCHANGED <<pipe, terminal, unseen, shown, broken>>
  BY <1>1, ParentAt DEF Close
<1>3. 4 \in 4 .. 9 /\ 5 \in (5 .. 9) \cup {Gone} /\ 4 + 1 = 5
  OBVIOUS
<1>4. forkPc' = [forkPc EXCEPT ![0] = 5]
  BY <1>1, <1>2, <1>3, ProcessesAre DEF Advanced, PipeTypes
<1>5. /\ forkPc' \in [Processes -> Nat] /\ forkPc'[0] = 5
      /\ \A d \in Children : forkPc'[d] = forkPc[d]
      /\ \A d \in Children : d < forkPc'[0] <=> d < forkPc[0]
      /\ \A d \in Children : forkPc'[d] # NotForked => d < forkPc'[0]
  BY <1>1, <1>2, <1>3, <1>4, ParentMoves
<1>6. PipeTypes'
  BY <1>1, <1>2, <1>5 DEF PipeTypes
<1>7. EndsHeld'
  BY <1>2, <1>5, ProcessesAre DEF PipeInv, EndsHeld, Gone
<1>8. LinesKept'
  BY <1>2, <1>5, ProcessesAre DEF PipeInv, LinesKept, NotForked, Gone
<1>9. Reads' = Reads
  BY <1>2, <1>5 DEF Reads
<1>10. StartedOnce' /\ FailedOnce' /\ ReadOnce' /\ AllReads'
  <2>1. writers' \subseteq writers
    BY <1>2
  <2> QED
    BY <1>2, <1>5, <1>9, <2>1, QuietKeeps
<1> QED
  BY <1>6, <1>7, <1>8, <1>10 DEF PipeInv

LEMMA ChildCloseKeeps ==
  ASSUME PipeInv, NEW c \in Children, Close(c)
  PROVE  PipeInv'
<1>1. PipeTypes
  BY DEF PipeInv
<1>2. /\ forkPc[c] = 1 /\ readers' = readers \ {c} /\ writers' = writers
      /\ forkPc' = Advanced(c) /\ UNCHANGED <<pipe, terminal, unseen, shown, broken>>
  BY <1>1, ChildAt DEF Close
<1>3. 1 \in 1 .. 4 /\ 2 \in {2, 3, 4, Gone} /\ 1 + 1 = 2
  OBVIOUS
<1>4. forkPc' = [forkPc EXCEPT ![c] = 2]
  BY <1>1, <1>2, <1>3, ProcessesAre DEF Advanced, PipeTypes
<1>5. /\ forkPc' \in [Processes -> Nat] /\ forkPc'[0] = forkPc[0] /\ forkPc'[c] = 2
      /\ \A d \in Children \ {c} : forkPc'[d] = forkPc[d]
      /\ \A d \in Children : forkPc'[d] \in (0 .. 4) \cup {Gone}
      /\ \A d \in Children : forkPc'[d] = NotForked <=> forkPc[d] = NotForked
      /\ \A d \in Children : d < forkPc'[0] <=> d < forkPc[0]
      /\ \A d \in Children : forkPc'[d] # NotForked => d < forkPc'[0]
      /\ Reads' = Reads
  BY <1>1, <1>2, <1>3, <1>4, ChildMoves
<1>6. PipeTypes'
  BY <1>1, <1>2, <1>5 DEF PipeTypes
<1>7. EndsHeld'
  <2>1. \A d \in Children : forkPc'[d] \in 1 .. 4 <=> forkPc[d] \in 1 .. 4
    BY <1>2, <1>5
  <2> QED
    BY <1>2, <1>5, <2>1, ProcessesAre DEF PipeInv, EndsHeld
<1>8. LinesKept'
  <2>1. \A p \in Processes : forkPc'[p] \in {NotForked, Gone} => forkPc[p] \in {NotForked, Gone}
    BY <1>2, <1>5, ProcessesAre DEF NotForked, Gone
  <2>2. \A d \in Children : One(~terminal /\ d < forkPc'[0] /\ forkPc'[d] = NotForked) =
                             One(~terminal /\ d < forkPc[0] /\ forkPc[d] = NotForked)
    BY <1>5 DEF One
  <2> QED
    BY <1>2, <1>5, <2>1, <2>2 DEF PipeInv, LinesKept
<1>9. /\ \A d \in Children : forkPc'[d] \in {4, Gone} <=> forkPc[d] \in {4, Gone}
      /\ \A d \in Children : forkPc'[d] \in {3, 4, Gone} <=> forkPc[d] \in {3, 4, Gone}
  BY <1>2, <1>5 DEF Gone
<1>10. StartedOnce' /\ FailedOnce' /\ ReadOnce' /\ AllReads'
  BY <1>2, <1>5, <1>9, QuietKeeps
<1> QED
  BY <1>6, <1>7, <1>8, <1>10 DEF PipeInv

(* For one child, or none: it waits. *)
LEMMA WaitKeeps ==
  ASSUME PipeInv, Wait
  PROVE  PipeInv'
<1>1. PipeTypes
  BY DEF PipeInv
<1>2. /\ forkPc[0] = 8 /\ forkPc' = Advanced(0)
      /\ UNCHANGED <<pipe, readers, writers, terminal, unseen, shown, broken>>
  BY <1>1, ParentAt DEF Wait
<1>3. 8 \in 4 .. 9 /\ 9 \in (5 .. 9) \cup {Gone} /\ 8 + 1 = 9
  OBVIOUS
<1>4. forkPc' = [forkPc EXCEPT ![0] = 9]
  BY <1>1, <1>2, <1>3, ProcessesAre DEF Advanced, PipeTypes
<1>5. /\ forkPc' \in [Processes -> Nat] /\ forkPc'[0] = 9
      /\ \A d \in Children : forkPc'[d] = forkPc[d]
      /\ \A d \in Children : d < forkPc'[0] <=> d < forkPc[0]
      /\ \A d \in Children : forkPc'[d] # NotForked => d < forkPc'[0]
  BY <1>1, <1>2, <1>3, <1>4, ParentMoves
<1>6. PipeTypes'
  BY <1>1, <1>2, <1>5 DEF PipeTypes
<1>7. EndsHeld'
  BY <1>2, <1>5, ProcessesAre DEF PipeInv, EndsHeld, Gone
<1>8. LinesKept'
  BY <1>2, <1>5, ProcessesAre DEF PipeInv, LinesKept, NotForked, Gone
<1>9. Reads' = Reads
  BY <1>2, <1>5 DEF Reads
<1>10. StartedOnce' /\ FailedOnce' /\ ReadOnce' /\ AllReads'
  BY <1>2, <1>5, <1>9, QuietKeeps
<1> QED
  BY <1>6, <1>7, <1>8, <1>10 DEF PipeInv

LEMMA StartedKeeps ==
  ASSUME PipeInv, NEW c \in Children, Started(c)
  PROVE  PipeInv'
<1>1. PipeTypes /\ c \in Processes /\ c # 0
  BY ProcessesAre DEF PipeInv
<1>2. /\ forkPc[c] = 2 /\ forkPc' = Advanced(c) /\ Puts(c, <<"started", c>>)
      /\ UNCHANGED <<pipe, readers, writers, terminal, broken>>
  BY <1>1, ChildAt DEF Started
<1>3. 2 \in 1 .. 4 /\ 3 \in {2, 3, 4, Gone} /\ 2 + 1 = 3
  OBVIOUS
<1>4. forkPc' = [forkPc EXCEPT ![c] = 3]
  BY <1>1, <1>2, <1>3, ProcessesAre DEF Advanced, PipeTypes
<1>5. /\ forkPc' \in [Processes -> Nat] /\ forkPc'[0] = forkPc[0] /\ forkPc'[c] = 3
      /\ \A d \in Children \ {c} : forkPc'[d] = forkPc[d]
      /\ \A d \in Children : forkPc'[d] \in (0 .. 4) \cup {Gone}
      /\ \A d \in Children : forkPc'[d] = NotForked <=> forkPc[d] = NotForked
      /\ \A d \in Children : d < forkPc'[0] <=> d < forkPc[0]
      /\ \A d \in Children : forkPc'[d] # NotForked => d < forkPc'[0]
      /\ Reads' = Reads
  BY <1>1, <1>2, <1>3, <1>4, ChildMoves
<1>6. <<"started", c>> \in Lines
  BY LineNames
<1>7. /\ \A l \in Lines : Printed(unseen', shown', l) =
                            Printed(unseen, shown, l) + One(l = <<"started", c>>)
      /\ unseen' \in [Processes -> [Lines -> Nat]] /\ shown' \in [Lines -> Nat]
      /\ \A q \in Processes \ {c} : unseen'[q] = unseen[q]
  BY <1>1, <1>2, <1>6, PutsPrints
<1>8. \A l \in Lines \ {<<"started", c>>} : Printed(unseen', shown', l) = Printed(unseen, shown, l)
  <2> SUFFICES ASSUME NEW l \in Lines \ {<<"started", c>>}
               PROVE  Printed(unseen', shown', l) = Printed(unseen, shown, l)
    OBVIOUS
  <2>1. Printed(unseen, shown, l) \in Nat
    BY <1>1, PrintedTyped
  <2>2. One(l = <<"started", c>>) = 0 /\ \A x \in Nat : x + 0 = x
    BY DEF One
  <2> QED
    BY <1>7, <2>1, <2>2
<1>9. PipeTypes'
  BY <1>1, <1>2, <1>5, <1>7 DEF PipeTypes
<1>10. EndsHeld'
  <2>1. \A d \in Children : forkPc'[d] \in 1 .. 4 <=> forkPc[d] \in 1 .. 4
    BY <1>2, <1>5
  <2> QED
    BY <1>2, <1>5, <2>1 DEF PipeInv, EndsHeld
<1>11. LinesKept'
  <2>1. ASSUME NEW p \in Processes, forkPc'[p] \in {NotForked, Gone} PROVE unseen'[p] = NoLines
    <3>1. p # c /\ forkPc'[p] = forkPc[p]
      BY <1>5, <2>1, ProcessesAre DEF NotForked, Gone
    <3> QED
      BY <1>7, <2>1, <3>1 DEF PipeInv, LinesKept
  <2>2. unseen'[0] = unseen[0]
    BY <1>1, <1>7, ProcessesAre
  <2>3. \A d \in Children : One(~terminal /\ d < forkPc'[0] /\ forkPc'[d] = NotForked) =
                             One(~terminal /\ d < forkPc[0] /\ forkPc[d] = NotForked)
    BY <1>5 DEF One
  <2> QED
    BY <1>2, <1>5, <2>1, <2>2, <2>3 DEF PipeInv, LinesKept
<1>12. StartedOnce'
  <2> SUFFICES ASSUME NEW d \in Children
               PROVE  Printed(unseen', shown', <<"started", d>>) = One(forkPc'[d] \in {3, 4, Gone})
    BY DEF StartedOnce
  <2>1. Printed(unseen, shown, <<"started", d>>) = One(forkPc[d] \in {3, 4, Gone})
    BY DEF PipeInv, StartedOnce
  <2>2. CASE d = c
    <3>1. One(forkPc[d] \in {3, 4, Gone}) = 0 /\ One(forkPc'[d] \in {3, 4, Gone}) = 1
      BY <1>2, <1>5, <2>2 DEF One, Gone
    <3>2. One(<<"started", d>> = <<"started", c>>) = 1
      BY <2>2 DEF One
    <3>3. Printed(unseen', shown', <<"started", d>>) = 0 + 1
      BY <1>6, <1>7, <2>1, <2>2, <3>1, <3>2
    <3> QED
      BY <3>1, <3>3
  <2>3. CASE d # c
    <3>1. <<"started", d>> \in Lines \ {<<"started", c>>}
      BY <2>3, LineNames
    <3> QED
      BY <1>5, <1>8, <2>1, <2>3, <3>1
  <2> QED
    BY <2>2, <2>3
<1>13. /\ \A d \in Children : /\ Printed(unseen', shown', <<"message", d>>) =
                                   Printed(unseen, shown, <<"message", d>>)
                              /\ Printed(unseen', shown', <<"failed", d>>) =
                                   Printed(unseen, shown, <<"failed", d>>)
       /\ Printed(unseen', shown', <<"junk", 0>>) = Printed(unseen, shown, <<"junk", 0>>)
  BY <1>8, LineNames
<1>14. FailedOnce'
  BY <1>2, <1>5, <1>13, FailuresStay DEF PipeInv
<1>15. ReadOnce'
  <2>1. \A d \in Children : forkPc'[d] \in {4, Gone} <=> forkPc[d] \in {4, Gone}
    BY <1>2, <1>5 DEF Gone
  <2> QED
    BY <1>2, <1>13, <2>1 DEF PipeInv, ReadOnce, One
<1>16. AllReads'
  BY <1>2, <1>5, <1>13, ProcessesAre DEF PipeInv, AllReads
<1> QED
  BY <1>9, <1>10, <1>11, <1>12, <1>14, <1>15, <1>16 DEF PipeInv

(* The parent has read what every child wrote, or has found no writer,     *)
(* before it ends.                                                         *)
LEMMA ReaderWaits ==
  ASSUME PipeInv, NEW c \in Children, forkPc[c] = 3
  PROVE  forkPc[0] # Gone /\ Printed(unseen, shown, <<"junk", 0>>) = 0
<1>1. PipeTypes /\ c \in writers
  BY DEF PipeInv, EndsHeld
<1>2. Printed(unseen, shown, <<"junk", 0>>) = 0
  BY <1>1 DEF PipeInv, AllReads
<1>3. ASSUME forkPc[0] = Gone PROVE FALSE
  <2> DEFINE m(d) == Printed(unseen, shown, <<"message", d>>)
  <2>1. \A d \in Children : m(d) \in Nat
    BY <1>1, LineNames, PrintedTyped
  <2>2. \A d \in Children : m(d) + One(InPipe(pipe, d)) = One(forkPc[d] \in {4, Gone})
    BY DEF PipeInv, ReadOnce
  <2>3. \A d \in Children : One(InPipe(pipe, d)) \in {0, 1} /\ One(forkPc[d] \in {4, Gone}) \in {0, 1}
    BY DEF One
  <2>4. One(forkPc[c] \in {4, Gone}) = 0
    BY DEF One, Gone
  <2>5. Reads = 3
    BY <1>3 DEF Reads, Gone
  <2>6. m(1) + m(2) + m(3) + 0 = 3
    BY <1>2, <2>5 DEF PipeInv, AllReads
  <2> HIDE DEF m
  <2>7. m(c) = 0
    BY <2>1, <2>2, <2>3, <2>4
  <2>8. \A d \in Children : m(d) <= 1
    BY <2>1, <2>2, <2>3
  <2>9. m(1) \in Nat /\ m(2) \in Nat /\ m(3) \in Nat /\ m(1) <= 1 /\ m(2) <= 1 /\ m(3) <= 1
    BY <2>1, <2>8, ProcessesAre
  <2>10. m(1) = 0 \/ m(2) = 0 \/ m(3) = 0
    BY <2>7, ProcessesAre
  <2> QED
    BY <2>6, <2>9, <2>10
<1> QED
  BY <1>2, <1>3

LEMMA WriteKeeps ==
  ASSUME PipeInv, NEW c \in Children, Write(c)
  PROVE  PipeInv'
<1>1. PipeTypes /\ c \in Processes /\ c # 0
  BY ProcessesAre DEF PipeInv
<1>2. /\ forkPc[c] = 3 /\ forkPc' = Advanced(c) /\ pipe' = Append(pipe, c)
      /\ broken' = (broken \/ readers = {})
      /\ UNCHANGED <<readers, writers, terminal, unseen, shown>>
  BY <1>1, ChildAt DEF Write
<1>3. 3 \in 1 .. 4 /\ 4 \in {2, 3, 4, Gone} /\ 3 + 1 = 4
  OBVIOUS
<1>4. forkPc' = [forkPc EXCEPT ![c] = 4]
  BY <1>1, <1>2, <1>3, ProcessesAre DEF Advanced, PipeTypes
<1>5. /\ forkPc' \in [Processes -> Nat] /\ forkPc'[0] = forkPc[0] /\ forkPc'[c] = 4
      /\ \A d \in Children \ {c} : forkPc'[d] = forkPc[d]
      /\ \A d \in Children : forkPc'[d] \in (0 .. 4) \cup {Gone}
      /\ \A d \in Children : forkPc'[d] = NotForked <=> forkPc[d] = NotForked
      /\ \A d \in Children : d < forkPc'[0] <=> d < forkPc[0]
      /\ \A d \in Children : forkPc'[d] # NotForked => d < forkPc'[0]
      /\ Reads' = Reads
  BY <1>1, <1>2, <1>3, <1>4, ChildMoves
<1>6. forkPc[0] # Gone /\ Printed(unseen, shown, <<"junk", 0>>) = 0
  BY <1>2, ReaderWaits
<1>7. broken' = FALSE
  BY <1>1, <1>2, <1>6 DEF PipeInv, EndsHeld, PipeTypes
<1>8. Printed(unseen, shown, <<"message", c>>) = 0 /\ ~InPipe(pipe, c)
  <2>1. Printed(unseen, shown, <<"message", c>>) + One(InPipe(pipe, c)) = 0
    BY <1>2 DEF PipeInv, ReadOnce, One, Gone
  <2>2. Printed(unseen, shown, <<"message", c>>) \in Nat
    BY <1>1, LineNames, PrintedTyped
  <2> QED
    BY <2>1, <2>2 DEF One
<1>9. /\ pipe' \in Seq(Children) /\ Distinct(pipe')
      /\ \A d \in Children : InPipe(pipe', d) <=> d = c \/ InPipe(pipe, d)
  BY <1>1, <1>2, <1>8, PipeGrows DEF PipeTypes
<1>10. PipeTypes'
  BY <1>1, <1>2, <1>5, <1>7, <1>9 DEF PipeTypes
<1>11. EndsHeld'
  <2>1. \A d \in Children : forkPc'[d] \in 1 .. 4 <=> forkPc[d] \in 1 .. 4
    BY <1>2, <1>5
  <2> QED
    BY <1>2, <1>5, <2>1 DEF PipeInv, EndsHeld
<1>12. LinesKept'
  <2>1. \A p \in Processes : forkPc'[p] \in {NotForked, Gone} => forkPc[p] \in {NotForked, Gone}
    BY <1>2, <1>5, ProcessesAre DEF NotForked, Gone
  <2>2. \A d \in Children : One(~terminal /\ d < forkPc'[0] /\ forkPc'[d] = NotForked) =
                             One(~terminal /\ d < forkPc[0] /\ forkPc[d] = NotForked)
    BY <1>5 DEF One
  <2> QED
    BY <1>2, <1>5, <2>1, <2>2 DEF PipeInv, LinesKept
<1>13. StartedOnce'
  <2>1. \A d \in Children : forkPc'[d] \in {3, 4, Gone} <=> forkPc[d] \in {3, 4, Gone}
    BY <1>2, <1>5 DEF Gone
  <2> QED
    BY <1>2, <2>1 DEF PipeInv, StartedOnce, One
<1>14. FailedOnce'
  BY <1>2, <1>5, FailuresStay DEF PipeInv
<1>15. ReadOnce'
  <2> SUFFICES ASSUME NEW d \in Children
               PROVE  Printed(unseen, shown, <<"message", d>>) + One(InPipe(pipe', d)) =
                        One(forkPc'[d] \in {4, Gone})
    BY <1>2, Zenon DEF ReadOnce
  <2>1. CASE d = c
    <3>1. One(InPipe(pipe', d)) = 1 /\ One(forkPc'[d] \in {4, Gone}) = 1
      BY <1>5, <1>9, <2>1 DEF One
    <3>2. 0 + 1 = 1
      OBVIOUS
    <3> QED
      BY <1>8, <2>1, <3>1, <3>2
  <2>2. CASE d # c
    <3>1. One(InPipe(pipe', d)) = One(InPipe(pipe, d)) /\ forkPc'[d] = forkPc[d]
      BY <1>5, <1>9, <2>2 DEF One
    <3> QED
      BY <3>1, Zenon DEF PipeInv, ReadOnce
  <2> QED
    BY <2>1, <2>2
<1>16. AllReads'
  BY <1>2, <1>5, <1>6 DEF PipeInv, AllReads
<1> QED
  BY <1>10, <1>11, <1>12, <1>13, <1>14, <1>15, <1>16 DEF PipeInv

LEMMA ReadKeeps ==
  ASSUME PipeInv, Read
  PROVE  PipeInv'
<1>1. PipeTypes
  BY DEF PipeInv
<1>2. /\ forkPc[0] \in 5 .. 7 /\ forkPc' = Advanced(0)
      /\ UNCHANGED <<readers, writers, terminal, broken>>
  BY <1>1, ParentAt DEF Read
<1> DEFINE n == forkPc[0] + 1
<1>3. n \in (5 .. 9) \cup {Gone} /\ n \in 6 .. 8 /\ forkPc[0] \in 4 .. 9 /\ forkPc[0] = n - 1
  BY <1>2
<1>4. forkPc' = [forkPc EXCEPT ![0] = n]
  BY <1>1, <1>2, ProcessesAre DEF Advanced, PipeTypes
<1> HIDE DEF n
<1>5. /\ forkPc' \in [Processes -> Nat] /\ forkPc'[0] = n
      /\ \A d \in Children : forkPc'[d] = forkPc[d]
      /\ \A d \in Children : d < forkPc'[0] <=> d < forkPc[0]
      /\ \A d \in Children : forkPc'[d] # NotForked => d < forkPc'[0]
      /\ ~(forkPc'[0] <= 4)
  BY <1>1, <1>3, <1>4, ParentMoves
<1>6. Reads' = Reads + 1 /\ Reads \in 0 .. 2
  BY <1>3, <1>5 DEF Reads
<1>7. EndsHeld'
  <2>1. forkPc[0] # Gone /\ forkPc'[0] # Gone /\ ~(forkPc[0] <= 4)
    BY <1>3, <1>5 DEF Gone
  <2> QED
    BY <1>2, <1>5, <2>1 DEF PipeInv, EndsHeld
<1>8. ASSUME NEW line \in Lines, Puts(0, line),
             line = <<"junk", 0>> \/ \E c \in Children : line = <<"message", c>>
      PROVE  /\ \A l \in Lines \ {line} : Printed(unseen', shown', l) = Printed(unseen, shown, l)
             /\ Printed(unseen', shown', line) = Printed(unseen, shown, line) + 1
             /\ unseen' \in [Processes -> [Lines -> Nat]] /\ shown' \in [Lines -> Nat]
             /\ LinesKept' /\ StartedOnce' /\ FailedOnce'
  <2>1. /\ \A l \in Lines : Printed(unseen', shown', l) =
                              Printed(unseen, shown, l) + One(l = line)
        /\ unseen' \in [Processes -> [Lines -> Nat]] /\ shown' \in [Lines -> Nat]
        /\ \A q \in Processes \ {0} : unseen'[q] = unseen[q]
    <3>1. 0 \in Processes
      BY ProcessesAre
    <3> QED
      BY <1>1, <1>8, <3>1, PutsPrints
  <2>2. \A l \in Lines \ {line} : Printed(unseen', shown', l) = Printed(unseen, shown, l)
    <3> SUFFICES ASSUME NEW l \in Lines \ {line}
                 PROVE  Printed(unseen', shown', l) = Printed(unseen, shown, l)
      OBVIOUS
    <3>1. Printed(unseen, shown, l) \in Nat /\ One(l = line) = 0 /\ \A x \in Nat : x + 0 = x
      BY <1>1, PrintedTyped DEF One
    <3> QED
      BY <2>1, <3>1
  <2>3. Printed(unseen', shown', line) = Printed(unseen, shown, line) + 1
    <3>1. One(line = line) = 1
      BY DEF One
    <3> QED
      BY <2>1, <3>1
  <2>4. LinesKept'
    <3>1. ASSUME NEW p \in Processes, forkPc'[p] \in {NotForked, Gone} PROVE unseen'[p] = NoLines
      <4>1. p # 0 /\ p \in Children
        BY <1>3, <1>5, <3>1, ProcessesAre DEF NotForked, Gone
      <4> QED
        BY <1>5, <2>1, <3>1, <4>1 DEF PipeInv, LinesKept
    <3> QED
      BY <1>5, <3>1 DEF LinesKept
  <2>5. \A c \in Children : /\ Printed(unseen', shown', <<"started", c>>) =
                                 Printed(unseen, shown, <<"started", c>>)
                            /\ Printed(unseen', shown', <<"failed", c>>) =
                                 Printed(unseen, shown, <<"failed", c>>)
    <3> SUFFICES ASSUME NEW c \in Children
                 PROVE  <<"started", c>> \in Lines \ {line} /\ <<"failed", c>> \in Lines \ {line}
      BY <2>2
    <3>1. CASE line = <<"junk", 0>>
      BY <3>1, LineNames
    <3>2. CASE \E d \in Children : line = <<"message", d>>
      <4>1. PICK d \in Children : line = <<"message", d>>
        BY <3>2
      <4> QED
        BY <4>1, LineNames
    <3> QED
      BY <1>8, <3>1, <3>2
  <2>6. StartedOnce'
    BY <1>5, <2>5 DEF PipeInv, StartedOnce
  <2>7. FailedOnce'
    BY <1>2, <1>5, <2>5, FailuresStay DEF PipeInv
  <2> QED
    BY <2>1, <2>2, <2>3, <2>4, <2>6, <2>7
<1> DEFINE J == Printed(unseen, shown, <<"junk", 0>>)
           m(d) == Printed(unseen, shown, <<"message", d>>)
<1>9. J \in Nat /\ m(1) \in Nat /\ m(2) \in Nat /\ m(3) \in Nat /\ m(1) + m(2) + m(3) + J = Reads
  BY <1>1, LineNames, PrintedTyped, ProcessesAre DEF PipeInv, AllReads
<1>10. CASE pipe # <<>>
  <2> DEFINE h == Head(pipe)
  <2>1. pipe' = Tail(pipe) /\ Puts(0, <<"message", h>>)
    BY <1>10 DEF Read
  <2>2. /\ pipe' \in Seq(Children) /\ Distinct(pipe') /\ h \in Children
        /\ InPipe(pipe, h) /\ ~InPipe(pipe', h)
        /\ \A d \in Children \ {h} : InPipe(pipe', d) <=> InPipe(pipe, d)
    BY <1>1, <1>10, <2>1, PipeShrinks DEF PipeTypes
  <2> HIDE DEF h
  <2>3. /\ \A l \in Lines \ {<<"message", h>>} : Printed(unseen', shown', l) = Printed(unseen, shown, l)
        /\ Printed(unseen', shown', <<"message", h>>) = m(h) + 1
        /\ unseen' \in [Processes -> [Lines -> Nat]] /\ shown' \in [Lines -> Nat]
        /\ LinesKept' /\ StartedOnce' /\ FailedOnce'
    BY <1>8, <2>1, <2>2, LineNames
  <2>4. /\ \A d \in Children \ {h} : Printed(unseen', shown', <<"message", d>>) = m(d)
        /\ Printed(unseen', shown', <<"junk", 0>>) = J
    BY <2>2, <2>3, LineNames
  <2>5. PipeTypes'
    <3>1. forkPc'[0] \in (1 .. 9) \cup {Gone}
      BY <1>3, <1>5
    <3> QED
      BY <1>1, <1>2, <1>5, <2>2, <2>3, <3>1 DEF PipeTypes
  <2>6. ReadOnce'
    <3> SUFFICES ASSUME NEW d \in Children
                 PROVE  Printed(unseen', shown', <<"message", d>>) + One(InPipe(pipe', d)) =
                          One(forkPc'[d] \in {4, Gone})
      BY Zenon DEF ReadOnce
    <3>1. m(d) + One(InPipe(pipe, d)) = One(forkPc[d] \in {4, Gone}) /\ forkPc'[d] = forkPc[d]
      BY <1>5 DEF PipeInv, ReadOnce
    <3>2. CASE d = h
      <4>1. One(InPipe(pipe, d)) = 1 /\ One(InPipe(pipe', d)) = 0
        BY <2>2, <3>2 DEF One
      <4>2. \A x \in Nat : (x + 1) + 0 = x + 1
        OBVIOUS
      <4>3. m(d) \in Nat
        BY <1>1, LineNames, PrintedTyped
      <4> HIDE DEF m
      <4> QED
        BY <2>3, <3>1, <3>2, <4>1, <4>2, <4>3
    <3>3. CASE d # h
      <4>1. One(InPipe(pipe', d)) = One(InPipe(pipe, d))
        BY <2>2, <3>3 DEF One
      <4> QED
        BY <2>4, <3>1, <3>3, <4>1
    <3> QED
      BY <3>2, <3>3
  <2>7. AllReads'
    <3>1. J = 0
      BY <1>10 DEF PipeInv, AllReads
    <3> DEFINE w(d) == Printed(unseen', shown', <<"message", d>>)
    <3>2. w(h) = m(h) + 1 /\ \A d \in Children \ {h} : w(d) = m(d)
      BY <2>3, <2>4
    <3>3. h = 1 \/ h = 2 \/ h = 3
      BY <2>2, ProcessesAre
    <3> HIDE DEF w, m, J
    <3>4. w(1) + w(2) + w(3) + 0 = Reads + 1
      <4>1. CASE h = 1
        <5>1. w(1) = m(1) + 1 /\ w(2) = m(2) /\ w(3) = m(3)
          BY <3>2, <4>1, ProcessesAre
        <5> QED
          BY <1>9, <3>1, <5>1
      <4>2. CASE h = 2
        <5>1. w(1) = m(1) /\ w(2) = m(2) + 1 /\ w(3) = m(3)
          BY <3>2, <4>2, ProcessesAre
        <5> QED
          BY <1>9, <3>1, <5>1
      <4>3. CASE h = 3
        <5>1. w(1) = m(1) /\ w(2) = m(2) /\ w(3) = m(3) + 1
          BY <3>2, <4>3, ProcessesAre
        <5> QED
          BY <1>9, <3>1, <5>1
      <4> QED
        BY <3>3, <4>1, <4>2, <4>3
    <3> QED
      BY <1>6, <2>4, <3>1, <3>4 DEF AllReads, w
  <2> QED
    BY <1>7, <2>3, <2>5, <2>6, <2>7 DEF PipeInv
<1>11. CASE pipe = <<>>
  <2>1. pipe' = pipe /\ writers = {} /\ Puts(0, <<"junk", 0>>)
    BY <1>11 DEF Read
  <2>2. /\ \A l \in Lines \ {<<"junk", 0>>} : Printed(unseen', shown', l) = Printed(unseen, shown, l)
        /\ Printed(unseen', shown', <<"junk", 0>>) = J + 1
        /\ unseen' \in [Processes -> [Lines -> Nat]] /\ shown' \in [Lines -> Nat]
        /\ LinesKept' /\ StartedOnce' /\ FailedOnce'
    BY <1>8, <2>1, LineNames
  <2>3. \A d \in Children : Printed(unseen', shown', <<"message", d>>) = m(d)
    BY <2>2, LineNames
  <2>4. PipeTypes'
    <3>1. forkPc'[0] \in (1 .. 9) \cup {Gone}
      BY <1>3, <1>5
    <3> QED
      BY <1>1, <1>2, <1>5, <2>1, <2>2, <3>1 DEF PipeTypes
  <2>5. ReadOnce'
    BY <1>5, <2>1, <2>3 DEF PipeInv, ReadOnce
  <2>6. AllReads'
    <3>1. m(1) + m(2) + m(3) + (J + 1) = Reads + 1
      <4> HIDE DEF m, J
      <4>1. PICK a \in Nat, b \in Nat, c \in Nat, d \in Nat :
              m(1) = a /\ m(2) = b /\ m(3) = c /\ J = d
        BY <1>9
      <4>2. a + b + c + d = Reads /\ a + b + c + (d + 1) = (a + b + c + d) + 1
        BY <1>9, <4>1
      <4> QED
        BY <4>1, <4>2
    <3> QED
      BY <1>2, <1>6, <1>11, <2>1, <2>2, <2>3, <3>1, ProcessesAre DEF AllReads
  <2> QED
    BY <1>7, <2>2, <2>4, <2>5, <2>6 DEF PipeInv
<1> QED
  BY <1>10, <1>11

(* A process that ends shows the lines it kept: none is lost or new. *)
LEMMA ExitShows ==
  ASSUME PipeTypes, NEW p \in Processes,
         shown' = [l \in Lines |-> shown[l] + unseen[p][l]],
         unseen' = [unseen EXCEPT ![p] = NoLines]
  PROVE  /\ \A l \in Lines : Printed(unseen', shown', l) = Printed(unseen, shown, l)
         /\ unseen' \in [Processes -> [Lines -> Nat]] /\ shown' \in [Lines -> Nat]
         /\ unseen'[p] = NoLines
         /\ \A q \in Processes \ {p} : unseen'[q] = unseen[q]
<1>1. /\ unseen \in [Processes -> [Lines -> Nat]] /\ shown \in [Lines -> Nat]
      /\ NoLines \in [Lines -> Nat] /\ \A l \in Lines : NoLines[l] = 0
  BY DEF PipeTypes, NoLines
<1>2. /\ unseen' \in [Processes -> [Lines -> Nat]] /\ shown' \in [Lines -> Nat]
      /\ unseen'[p] = NoLines /\ \A q \in Processes \ {p} : unseen'[q] = unseen[q]
  BY <1>1
<1>3. ASSUME NEW l \in Lines PROVE Printed(unseen', shown', l) = Printed(unseen, shown, l)
  <2>1. /\ shown'[l] = shown[l] + unseen[p][l] /\ unseen'[p][l] = 0
        /\ \A q \in Processes \ {p} : unseen'[q][l] = unseen[q][l]
    BY <1>1, <1>2
  <2>2. /\ unseen[0][l] \in Nat /\ unseen[1][l] \in Nat /\ unseen[2][l] \in Nat
        /\ unseen[3][l] \in Nat /\ shown[l] \in Nat
    BY <1>1, ProcessesAre
  <2>3. p = 0 \/ p = 1 \/ p = 2 \/ p = 3
    BY ProcessesAre
  <2>4. CASE p = 0
    <3>1. unseen'[1][l] = unseen[1][l] /\ unseen'[2][l] = unseen[2][l] /\ unseen'[3][l] = unseen[3][l]
      BY <2>1, <2>4, ProcessesAre
    <3> QED
      BY <2>1, <2>2, <2>4, <3>1 DEF Printed
  <2>5. CASE p = 1
    <3>1. unseen'[0][l] = unseen[0][l] /\ unseen'[2][l] = unseen[2][l] /\ unseen'[3][l] = unseen[3][l]
      BY <2>1, <2>5, ProcessesAre
    <3> QED
      BY <2>1, <2>2, <2>5, <3>1 DEF Printed
  <2>6. CASE p = 2
    <3>1. unseen'[0][l] = unseen[0][l] /\ unseen'[1][l] = unseen[1][l] /\ unseen'[3][l] = unseen[3][l]
      BY <2>1, <2>6, ProcessesAre
    <3> QED
      BY <2>1, <2>2, <2>6, <3>1 DEF Printed
  <2>7. CASE p = 3
    <3>1. unseen'[0][l] = unseen[0][l] /\ unseen'[1][l] = unseen[1][l] /\ unseen'[2][l] = unseen[2][l]
      BY <2>1, <2>7, ProcessesAre
    <3> QED
      BY <2>1, <2>2, <2>7, <3>1 DEF Printed
  <2> QED
    BY <2>3, <2>4, <2>5, <2>6, <2>7
<1> QED
  BY <1>2, <1>3

LEMMA ParentExitKeeps ==
  ASSUME PipeInv, Exit(0)
  PROVE  PipeInv'
<1>1. PipeTypes /\ 0 \in Processes
  BY ProcessesAre DEF PipeInv
<1>2. /\ forkPc[0] = 9 /\ forkPc' = [forkPc EXCEPT ![0] = Gone]
      /\ readers' = readers \ {0} /\ writers' = writers \ {0}
      /\ shown' = [l \in Lines |-> shown[l] + unseen[0][l]]
      /\ unseen' = [unseen EXCEPT ![0] = NoLines]
      /\ UNCHANGED <<pipe, terminal, broken>>
  BY <1>1, ParentAt DEF Exit
<1>3. 9 \in 4 .. 9 /\ Gone \in (5 .. 9) \cup {Gone}
  OBVIOUS
<1>4. /\ forkPc' \in [Processes -> Nat] /\ forkPc'[0] = Gone
      /\ \A d \in Children : forkPc'[d] = forkPc[d]
      /\ \A d \in Children : d < forkPc'[0] <=> d < forkPc[0]
      /\ \A d \in Children : forkPc'[d] # NotForked => d < forkPc'[0]
      /\ ~(forkPc'[0] <= 4)
  BY <1>1, <1>2, <1>3, ParentMoves
<1>5. /\ \A l \in Lines : Printed(unseen', shown', l) = Printed(unseen, shown, l)
      /\ unseen' \in [Processes -> [Lines -> Nat]] /\ shown' \in [Lines -> Nat]
      /\ unseen'[0] = NoLines /\ \A q \in Processes \ {0} : unseen'[q] = unseen[q]
  BY <1>1, <1>2, ExitShows
<1>6. PipeTypes'
  BY <1>1, <1>2, <1>4, <1>5 DEF PipeTypes
<1>7. EndsHeld'
  BY <1>2, <1>4, ProcessesAre DEF PipeInv, EndsHeld
<1>8. LinesKept'
  <2>1. ASSUME NEW p \in Processes, forkPc'[p] \in {NotForked, Gone} PROVE unseen'[p] = NoLines
    BY <1>4, <1>5, <2>1, ProcessesAre DEF PipeInv, LinesKept
  <2> QED
    BY <1>4, <2>1 DEF LinesKept
<1>9. /\ \A c \in Children : /\ Printed(unseen', shown', <<"started", c>>) =
                                  Printed(unseen, shown, <<"started", c>>)
                             /\ Printed(unseen', shown', <<"failed", c>>) =
                                  Printed(unseen, shown, <<"failed", c>>)
                             /\ Printed(unseen', shown', <<"message", c>>) =
                                  Printed(unseen, shown, <<"message", c>>)
      /\ Printed(unseen', shown', <<"junk", 0>>) = Printed(unseen, shown, <<"junk", 0>>)
  BY <1>5, LineNames
<1>10. StartedOnce'
  BY <1>4, <1>9 DEF PipeInv, StartedOnce
<1>11. FailedOnce'
  BY <1>2, <1>4, <1>9, FailuresStay DEF PipeInv
<1>12. ReadOnce'
  BY <1>2, <1>4, <1>9 DEF PipeInv, ReadOnce
<1>13. AllReads'
  <2>1. Reads' = 3 /\ Reads = 3
    BY <1>2, <1>4 DEF Reads, Gone
  <2>2. writers = {} => writers' = {}
    BY <1>2
  <2> QED
    BY <1>2, <1>9, <2>1, <2>2, ProcessesAre DEF PipeInv, AllReads
<1> QED
  BY <1>6, <1>7, <1>8, <1>10, <1>11, <1>12, <1>13 DEF PipeInv

LEMMA ChildExitKeeps ==
  ASSUME PipeInv, NEW c \in Children, Exit(c)
  PROVE  PipeInv'
<1>1. PipeTypes /\ c \in Processes /\ c # 0
  BY ProcessesAre DEF PipeInv
<1>2. /\ forkPc[c] = 4 /\ forkPc' = [forkPc EXCEPT ![c] = Gone]
      /\ readers' = readers \ {c} /\ writers' = writers \ {c}
      /\ shown' = [l \in Lines |-> shown[l] + unseen[c][l]]
      /\ unseen' = [unseen EXCEPT ![c] = NoLines]
      /\ UNCHANGED <<pipe, terminal, broken>>
  BY <1>1, ChildAt DEF Exit
<1>3. 4 \in 1 .. 4 /\ Gone \in {2, 3, 4, Gone}
  OBVIOUS
<1>4. /\ forkPc' \in [Processes -> Nat] /\ forkPc'[0] = forkPc[0] /\ forkPc'[c] = Gone
      /\ \A d \in Children \ {c} : forkPc'[d] = forkPc[d]
      /\ \A d \in Children : forkPc'[d] \in (0 .. 4) \cup {Gone}
      /\ \A d \in Children : forkPc'[d] = NotForked <=> forkPc[d] = NotForked
      /\ \A d \in Children : d < forkPc'[0] <=> d < forkPc[0]
      /\ \A d \in Children : forkPc'[d] # NotForked => d < forkPc'[0]
      /\ Reads' = Reads
  BY <1>1, <1>2, <1>3, ChildMoves
<1>5. /\ \A l \in Lines : Printed(unseen', shown', l) = Printed(unseen, shown, l)
      /\ unseen' \in [Processes -> [Lines -> Nat]] /\ shown' \in [Lines -> Nat]
      /\ unseen'[c] = NoLines /\ \A q \in Processes \ {c} : unseen'[q] = unseen[q]
  BY <1>1, <1>2, ExitShows
<1>6. PipeTypes'
  BY <1>1, <1>2, <1>4, <1>5 DEF PipeTypes
<1>7. EndsHeld'
  <2>1. \A d \in Children \ {c} : forkPc'[d] \in 1 .. 4 <=> forkPc[d] \in 1 .. 4
    BY <1>4
  <2>2. ~(forkPc'[c] \in 1 .. 4)
    BY <1>4 DEF Gone
  <2> QED
    BY <1>1, <1>2, <1>4, <2>1, <2>2 DEF PipeInv, EndsHeld
<1>8. LinesKept'
  <2>1. ASSUME NEW p \in Processes, forkPc'[p] \in {NotForked, Gone} PROVE unseen'[p] = NoLines
    <3>1. CASE p = c
      BY <1>5, <3>1
    <3>2. CASE p # c
      <4>1. forkPc'[p] = forkPc[p]
        BY <1>4, <3>2, ProcessesAre
      <4> QED
        BY <1>5, <2>1, <3>2, <4>1 DEF PipeInv, LinesKept
    <3> QED
      BY <3>1, <3>2
  <2>2. unseen'[0] = unseen[0]
    BY <1>1, <1>5, ProcessesAre
  <2>3. \A d \in Children : One(~terminal /\ d < forkPc'[0] /\ forkPc'[d] = NotForked) =
                             One(~terminal /\ d < forkPc[0] /\ forkPc[d] = NotForked)
    BY <1>4 DEF One
  <2> QED
    BY <1>2, <1>4, <2>1, <2>2, <2>3 DEF PipeInv, LinesKept
<1>9. /\ \A d \in Children : /\ Printed(unseen', shown', <<"started", d>>) =
                                  Printed(unseen, shown, <<"started", d>>)
                             /\ Printed(unseen', shown', <<"failed", d>>) =
                                  Printed(unseen, shown, <<"failed", d>>)
                             /\ Printed(unseen', shown', <<"message", d>>) =
                                  Printed(unseen, shown, <<"message", d>>)
      /\ Printed(unseen', shown', <<"junk", 0>>) = Printed(unseen, shown, <<"junk", 0>>)
  BY <1>5, LineNames
<1>10. /\ \A d \in Children : forkPc'[d] \in {4, Gone} <=> forkPc[d] \in {4, Gone}
       /\ \A d \in Children : forkPc'[d] \in {3, 4, Gone} <=> forkPc[d] \in {3, 4, Gone}
  BY <1>2, <1>4
<1>11. StartedOnce'
  BY <1>9, <1>10 DEF PipeInv, StartedOnce, One
<1>12. FailedOnce'
  BY <1>2, <1>4, <1>9, FailuresStay DEF PipeInv
<1>13. ReadOnce'
  BY <1>2, <1>9, <1>10 DEF PipeInv, ReadOnce, One
<1>14. AllReads'
  <2>1. writers = {} => writers' = {}
    BY <1>2
  <2> QED
    BY <1>2, <1>4, <1>9, <2>1, ProcessesAre DEF PipeInv, AllReads
<1> QED
  BY <1>6, <1>7, <1>8, <1>11, <1>12, <1>13, <1>14 DEF PipeInv

LEMMA PipeStepKeeps ==
  ASSUME PipeInv, PipeNext
  PROVE  PipeInv'
<1>1. PipeTypes
  BY DEF PipeInv
<1>2. CASE ParentStep
  <2>1. ~Started(0) /\ ~Write(0)
    BY <1>1, ParentAt DEF Started, Write
  <2> QED
    BY <1>2, <2>1, ForkKeeps, ForkFailsKeeps, ReadKeeps, WaitKeeps, ParentCloseKeeps,
       ParentExitKeeps DEF ParentStep, Step
<1>3. CASE \E c \in Children : Step(c)
  BY <1>3, ChildCloseKeeps, StartedKeeps, WriteKeeps, ChildExitKeeps DEF Step
<1> QED
  BY <1>2, <1>3 DEF PipeNext

LEMMA PipeEndsRight ==
  ASSUME PipeInv, AllEnded
  PROVE  shown = [l \in Lines |->
           CASE l[1] \in {"started", "message"} -> IF l[2] \in Forked THEN 1 ELSE 0
             [] l[1] = "junk"   -> Cardinality(Children \ Forked)
             [] l[1] = "failed" ->
                  IF l[2] \in Forked THEN 0
                  ELSE 1 + IF terminal THEN 0
                           ELSE Cardinality({c \in Forked : c > l[2]})]
<1>1. PipeTypes
  BY DEF PipeInv
<1>2. forkPc[0] = Gone /\ \A c \in Children : c \in Forked <=> forkPc[c] = Gone
  BY <1>1, ProcessesAre DEF AllEnded, Running, PipeTypes, NotForked, Forked, Gone
<1>3. \A p \in Processes, l \in Lines : unseen[p][l] = 0
  BY DEF PipeInv, LinesKept, AllEnded, Running, NoLines
<1>4. shown \in [Lines -> Nat] /\ \A l \in Lines : Printed(unseen, shown, l) = shown[l]
  <2>1. \A l \in Lines : shown[l] \in Nat /\ unseen[0][l] = 0 /\ unseen[1][l] = 0
                         /\ unseen[2][l] = 0 /\ unseen[3][l] = 0
    BY <1>1, <1>3, ProcessesAre DEF PipeTypes
  <2> QED
    BY <1>1, <2>1 DEF PipeTypes, Printed
<1>13. /\ \A d \in Children :
            /\ Printed(unseen, shown, <<"started", d>>) = shown[<<"started", d>>]
            /\ Printed(unseen, shown, <<"failed", d>>) = shown[<<"failed", d>>]
            /\ Printed(unseen, shown, <<"message", d>>) = shown[<<"message", d>>]
            /\ shown[<<"message", d>>] \in Nat
       /\ Printed(unseen, shown, <<"junk", 0>>) = shown[<<"junk", 0>>]
       /\ shown[<<"junk", 0>>] \in Nat
  BY <1>4, LineNames
<1>5. ASSUME NEW c \in Children
      PROVE  shown[<<"started", c>>] = IF c \in Forked THEN 1 ELSE 0
  <2>1. forkPc[c] \in {3, 4, Gone} <=> c \in Forked
    BY <1>2 DEF AllEnded, Running, Forked, NotForked, Gone, Processes, Children
  <2> QED
    BY <1>13, <2>1 DEF PipeInv, StartedOnce, One
<1>6. ASSUME NEW c \in Children
      PROVE  shown[<<"failed", c>>] =
               IF c \in Forked THEN 0
               ELSE 1 + IF terminal THEN 0 ELSE Cardinality({d \in Forked : d > c})
  <2>1. c < forkPc[0] /\ (forkPc[c] = NotForked <=> c \notin Forked)
    BY <1>2 DEF Forked, Gone, Children
  <2>2. Cardinality({d \in Forked : d > c}) = CountIn({d \in Forked : d > c})
    <3>1. {d \in Forked : d > c} \in SUBSET Children
      BY DEF Forked
    <3> QED
      BY <3>1, CountIsCardinality
  <2>3. shown[<<"failed", c>>] =
          IF c < forkPc[0] /\ forkPc[c] = NotForked
            THEN 1 + IF terminal THEN 0 ELSE CountIn({d \in Forked : d > c})
            ELSE 0
    BY <1>13 DEF PipeInv, FailedOnce
  <2> QED
    BY <2>1, <2>2, <2>3
<1> DEFINE m(d) == shown[<<"message", d>>]
           J    == shown[<<"junk", 0>>]
<1>7. \A d \in Children : m(d) \in Nat /\ m(d) + One(InPipe(pipe, d)) = One(d \in Forked)
  <2>1. \A d \in Children : forkPc[d] \in {4, Gone} <=> d \in Forked
    BY <1>2 DEF AllEnded, Running, Forked, NotForked, Gone, Processes, Children
  <2>2. \A d \in Children : One(forkPc[d] \in {4, Gone}) = One(d \in Forked)
    BY <2>1 DEF One
  <2>3. \A d \in Children : Printed(unseen, shown, <<"message", d>>) + One(InPipe(pipe, d)) =
                             One(forkPc[d] \in {4, Gone})
    BY DEF PipeInv, ReadOnce
  <2> QED
    BY <1>13, <2>2, <2>3
<1>8. J \in Nat /\ m(1) + m(2) + m(3) + J = 3 /\ (J # 0 => pipe = <<>>)
  <2>1. Reads = 3
    BY <1>2 DEF Reads, Gone
  <2> QED
    BY <1>13, <2>1, ProcessesAre DEF PipeInv, AllReads
<1> HIDE DEF m, J
<1>9. \A d \in Children : m(d) = One(d \in Forked)
  <2>1. CASE J # 0
    <3>1. \A d \in Children : ~InPipe(pipe, d)
      BY <1>8, <2>1 DEF InPipe
    <3>2. \A d \in Children : One(InPipe(pipe, d)) = 0
      BY <3>1 DEF One
    <3> QED
      BY <1>7, <3>2
  <2>2. CASE J = 0
    <3>1. \A d \in Children : One(InPipe(pipe, d)) \in {0, 1} /\ One(d \in Forked) \in {0, 1}
      BY DEF One
    <3>2. \A d \in Children : m(d) \in Nat /\ m(d) <= 1
      BY <1>7, <3>1
    <3>3. m(1) = 1 /\ m(2) = 1 /\ m(3) = 1
      BY <1>8, <2>2, <3>2, ProcessesAre
    <3>4. \A d \in Children : m(d) = 1
      BY <3>3, ProcessesAre
    <3> QED
      BY <1>7, <3>1, <3>4
  <2> QED
    BY <2>1, <2>2
<1>10. J = Cardinality(Children \ Forked)
  <2>1. Cardinality(Children \ Forked) = CountIn(Children \ Forked)
    BY CountIsCardinality
  <2>2. m(1) = One(1 \in Forked) /\ m(2) = One(2 \in Forked) /\ m(3) = One(3 \in Forked)
    BY <1>9, ProcessesAre
  <2>3. /\ One(1 \in Children \ Forked) = 1 - One(1 \in Forked)
        /\ One(2 \in Children \ Forked) = 1 - One(2 \in Forked)
        /\ One(3 \in Children \ Forked) = 1 - One(3 \in Forked)
    BY ProcessesAre DEF One
  <2>4. One(1 \in Forked) \in Nat /\ One(2 \in Forked) \in Nat /\ One(3 \in Forked) \in Nat
    BY DEF One
  <2> QED
    BY <1>8, <2>1, <2>2, <2>3, <2>4 DEF CountIn
<1> DEFINE F(l) == CASE l[1] \in {"started", "message"} -> IF l[2] \in Forked THEN 1 ELSE 0
                     [] l[1] = "junk"   -> Cardinality(Children \ Forked)
                     [] l[1] = "failed" ->
                          IF l[2] \in Forked THEN 0
                          ELSE 1 + IF terminal THEN 0
                                   ELSE Cardinality({c \in Forked : c > l[2]})
<1>11. ASSUME NEW l \in Lines PROVE shown[l] = F(l)
  <2>1. CASE l = <<"junk", 0>>
    BY <1>10, <2>1 DEF J
  <2>2. CASE \E c \in Children : l \in {<<"started", c>>, <<"failed", c>>, <<"message", c>>}
    <3>1. PICK c \in Children : l \in {<<"started", c>>, <<"failed", c>>, <<"message", c>>}
      BY <2>2
    <3>2. CASE l = <<"started", c>>
      BY <1>5, <3>2
    <3>3. CASE l = <<"failed", c>>
      <4>1. F(l) = IF c \in Forked THEN 0
                   ELSE 1 + IF terminal THEN 0 ELSE Cardinality({d \in Forked : d > c})
        BY <3>3
      <4> HIDE DEF F
      <4> QED
        BY <1>6, <3>3, <4>1
    <3>4. CASE l = <<"message", c>>
      BY <1>9, <3>4 DEF m, One
    <3> QED
      BY <3>1, <3>2, <3>3, <3>4
  <2> QED
    BY <2>1, <2>2, LineNames
<1>12. shown = [l \in Lines |-> F(l)]
  <2> HIDE DEF F
  <2> QED
    BY <1>4, <1>11
<1> QED
  BY <1>12

(* Whatever the order in which the processes run and whichever forks fail, *)
(* nobody writes into a pipe without a reader, and what is on the terminal *)
(* or in the file when all have ended is what each of them printed, once.  *)
THEOREM NothingUnreadAlways == PipeSpec => []NothingUnread
<1>1. PipeInit => PipeInv
  BY PipeStarts
<1>2. PipeInv /\ [PipeNext]_pipeVars => PipeInv'
  <2> SUFFICES ASSUME PipeInv, [PipeNext]_pipeVars PROVE PipeInv'
    OBVIOUS
  <2>1. CASE UNCHANGED pipeVars
    BY <2>1 DEF pipeVars, PipeInv, PipeTypes, EndsHeld, LinesKept, StartedOnce, FailedOnce,
                ReadOnce, AllReads, Reads, Forked
  <2> QED
    BY <2>1, PipeStepKeeps
<1>3. PipeInv => NothingUnread
  <2> SUFFICES ASSUME PipeInv PROVE NothingUnread
    OBVIOUS
  <2>1. ReaderStays
    BY DEF PipeInv, PipeTypes, ReaderStays
  <2>2. ShownExactly
    BY PipeEndsRight, Zenon DEF ShownExactly
  <2> QED
    BY <2>1, <2>2 DEF NothingUnread
<1> QED
  BY <1>1, <1>2, <1>3, PTL DEF PipeSpec
-----------------------------------------------------------------------------
(* TaskList. *)

(* The links of R make one ring: none leads out of R or where another      *)
(* leads, and whatever of R is closed under links is the whole of it.      *)
Ring(next, R) ==
  /\ \A l \in R : next[l] \in R
  /\ \A k, l \in R : next[k] = next[l] => k = l
  /\ \A S \in SUBSET R : S # {} /\ (\A l \in S : next[l] \in S) => S = R

AllRing     == {All(t) : t \in running}

RingsHold ==
  /\ running \subseteq TaskNums /\ 0 \in running
  /\ father \in [TaskNums -> TaskNums]
  /\ \A s \in running \ {0} : father[s] \in running
  /\ nextLink \in [Links -> Links]
  /\ nextLink[Child(0)] = Child(0)
  /\ Ring(nextLink, AllRing)
  /\ \A f \in TaskNums : Ring(nextLink, KidsRing(f))

(* The walk of a list for task t. *)
Walkable(walk, t) ==
  \/ walk = "all" /\ t = 0
  \/ walk \in {"siblings", "kids"} /\ t \in running \ {0}

RingOf(walk, t) ==
  CASE walk = "all"      -> AllRing
    [] walk = "siblings" -> KidsRing(father[t])
    [] walk = "kids"     -> KidsRing(t)

LinesOf(walk, V) == {<<walk, v>> : v \in {l \in V : walk # "all" \/ l[2] \in KernelTasks}}

ParentOf(t)   == {<<"parent", All(father[t])>>}
SiblingsOf(t) == LinesOf("siblings", KidsRing(father[t]) \ {Child(t)})

Earlier(walk, t) ==
  CASE walk = "all"      -> {}
    [] walk = "siblings" -> ParentOf(t)
    [] walk = "kids"     -> ParentOf(t) \cup SiblingsOf(t)

(* V is the part of ring R from head h to link l, without the two.         *)
Passed(next, R, h, l, V) ==
  /\ h \in R /\ l \in R
  /\ V \subseteq R \ {h, l}
  /\ \A k \in V \cup {h} : next[k] \in V \cup {l}
  /\ \A k \in V \cup {l} : \E j \in V \cup {h} : next[j] = k

Underway ==
  LET walk == listAt.walk
      t    == listAt.task
  IN  /\ Walkable(walk, t)
      /\ ~twice
      /\ \E V \in SUBSET Links :
           /\ Passed(nextLink, RingOf(walk, t), HeadOf(walk, t), listAt.link, V)
           /\ out = Earlier(walk, t) \cup LinesOf(walk, V)

ListTypes == listAt \in [walk : {"none", "all", "siblings", "kids", "done", "oops"},
                         task : TaskNums, link : Links]

ListInv ==
  /\ ListTypes
  /\ RingsHold
  /\ calm /\ Busy => Underway
  /\ CalmIsComplete

LEMMA LinksDiffer ==
  ASSUME NEW s, NEW t
  PROVE  /\ All(s) # Child(t) /\ All(s) # Kids(t) /\ Child(s) # Kids(t)
         /\ (All(s) = All(t)) => s = t
         /\ (Child(s) = Child(t)) => s = t
         /\ (Kids(s) = Kids(t)) => s = t
         /\ All(s)[2] = s /\ Child(s)[2] = s /\ Kids(s)[2] = s
  BY DEF All, Child, Kids

LEMMA InLinks ==
  ASSUME NEW t \in TaskNums
  PROVE  All(t) \in Links /\ Child(t) \in Links /\ Kids(t) \in Links
  BY DEF All, Child, Kids, Links

(* Something leads to each link of a ring: what is led to is closed.       *)
LEMMA RingIsOnto ==
  ASSUME NEW next, NEW R, Ring(next, R), NEW l \in R
  PROVE  \E b \in R : next[b] = l
<1> DEFINE S == {next[b] : b \in R}
<1>1. S \in SUBSET R /\ S # {} /\ \A k \in S : next[k] \in S
  BY DEF Ring
<1>2. S = R
  BY <1>1 DEF Ring
<1> QED
  BY <1>2

LEMMA LinkAdded ==
  ASSUME NEW next, NEW g, NEW R, Ring(next, R), NEW l, l \notin R,
         NEW b \in R, g[b] = l, g[l] = next[b],
         \A k \in R \ {b} : g[k] = next[k]
  PROVE  Ring(g, R \cup {l})
<1>1. \A k \in R \cup {l} : g[k] \in R \cup {l}
  BY DEF Ring
<1>2. \A j, k \in R \cup {l} : g[j] = g[k] => j = k
  BY DEF Ring
<1>3. ASSUME NEW S \in SUBSET (R \cup {l}), S # {}, \A k \in S : g[k] \in S
      PROVE  S = R \cup {l}
  <2>1. S \ {l} \in SUBSET R /\ S \ {l} # {}
    <3>1. CASE l \in S
      <4>1. next[b] \in S /\ next[b] \in R
        BY <3>1, <1>3 DEF Ring
      <4> QED
        BY <4>1
    <3>2. CASE l \notin S
      BY <3>2, <1>3
    <3> QED
      BY <3>1, <3>2
  <2>2. ASSUME NEW k \in S \ {l}
        PROVE  next[k] \in S \ {l}
    <3>1. k \in R /\ next[k] \in R
      BY <2>1 DEF Ring
    <3>2. CASE k = b
      <4>1. l \in S
        BY <3>2, <1>3
      <4>2. next[b] \in S
        BY <4>1, <1>3
      <4> QED
        BY <3>1, <3>2, <4>2
    <3>3. CASE k # b
      BY <3>1, <3>3, <1>3
    <3> QED
      BY <3>2, <3>3
  <2>3. S \ {l} = R
    BY <2>1, <2>2 DEF Ring
  <2>4. l \in S
    BY <2>3, <1>3
  <2> QED
    BY <2>3, <2>4
<1> QED
  BY <1>1, <1>2, <1>3 DEF Ring

LEMMA LinkTaken ==
  ASSUME NEW next, NEW g, NEW R, Ring(next, R), NEW l \in R,
         NEW b \in R \ {l}, next[b] = l, g[b] = next[l],
         \A k \in R \ {b, l} : g[k] = next[k]
  PROVE  Ring(g, R \ {l})
<1>1. \A k \in R \ {l} : g[k] \in R \ {l}
  BY DEF Ring
<1>2. \A j, k \in R \ {l} : g[j] = g[k] => j = k
  BY DEF Ring
<1>3. ASSUME NEW S \in SUBSET (R \ {l}), S # {}, \A k \in S : g[k] \in S
      PROVE  S = R \ {l}
  <2>1. CASE b \in S
    <3>1. S \cup {l} \in SUBSET R /\ S \cup {l} # {}
      OBVIOUS
    <3>2. \A k \in S \cup {l} : next[k] \in S \cup {l}
      BY <2>1, <1>3
    <3>3. S \cup {l} = R
      BY <3>1, <3>2 DEF Ring
    <3> QED
      BY <3>3
  <2>2. CASE b \notin S
    <3>1. \A k \in S : next[k] \in S
      BY <2>2, <1>3
    <3>2. S = R
      BY <3>1, <1>3 DEF Ring
    <3> QED
      BY <3>2
  <2> QED
    BY <2>1, <2>2
<1> QED
  BY <1>1, <1>2, <1>3 DEF Ring

(* A ring stays one where its links stay. *)
LEMMA RingStays ==
  ASSUME NEW next, NEW g, NEW R, Ring(next, R), \A k \in R : g[k] = next[k]
  PROVE  Ring(g, R)
  BY DEF Ring
LEMMA LoneLink ==
  ASSUME NEW next, NEW R, Ring(next, R), NEW l \in R, next[l] = l
  PROVE  R = {l}
<1>1. {l} \in SUBSET R /\ {l} # {} /\ \A k \in {l} : next[k] \in {l}
  OBVIOUS
<1> QED
  BY <1>1 DEF Ring
-----------------------------------------------------------------------------
(* What list_add_tail and list_del find before a link is in its ring.      *)

LEMMA BeforeAll ==
  ASSUME RingsHold, NEW t \in running
  PROVE  Before(All(t)) \in AllRing /\ nextLink[Before(All(t))] = All(t)
<1>1. All(t) \in AllRing
  BY DEF AllRing
<1>2. PICK b \in AllRing : nextLink[b] = All(t)
  BY <1>1, RingIsOnto DEF RingsHold
<1>3. PICK s \in running : b = All(s)
  BY <1>2 DEF AllRing
<1>4. b \in Links /\ b[2] \in running
  BY <1>3, LinksDiffer, InLinks DEF RingsHold
<1>5. /\ Before(All(t)) \in Links /\ nextLink[Before(All(t))] = All(t)
      /\ Before(All(t))[2] \in running \/ Before(All(t)) = Kids(Before(All(t))[2])
  BY <1>2, <1>4 DEF Before
<1> DEFINE a == Before(All(t))
<1> HIDE DEF a
<1>6. a \in Links /\ nextLink[a] = All(t) /\ (a[2] \in running \/ a = Kids(a[2]))
  BY <1>5 DEF a
<1>7. PICK u \in TaskNums : a = All(u) \/ a = Child(u) \/ a = Kids(u)
  BY <1>6 DEF Links, All, Child, Kids
<1>8. ASSUME a = Kids(u) \/ (a = Child(u) /\ u \in running \ {0})
      PROVE  FALSE
  <2>1. PICK f \in TaskNums : a \in KidsRing(f)
    BY <1>8 DEF KidsRing, KidsOf, RingsHold
  <2>2. nextLink[a] \in KidsRing(f)
    BY <2>1 DEF RingsHold, Ring
  <2> QED
    BY <2>2, <1>6, LinksDiffer DEF KidsRing
<1>9. a # Child(0)
  BY <1>6, LinksDiffer DEF RingsHold
<1>10. a = All(u) /\ u \in running
  BY <1>6, <1>7, <1>8, <1>9, LinksDiffer
<1> QED
  BY <1>10, <1>6 DEF AllRing, a

LEMMA BeforeKid ==
  ASSUME RingsHold, NEW f \in TaskNums, NEW l \in KidsRing(f)
  PROVE  Before(l) \in KidsRing(f) /\ nextLink[Before(l)] = l
<1>1. PICK b \in KidsRing(f) : nextLink[b] = l
  BY RingIsOnto DEF RingsHold
<1>2. b = Kids(f) \/ \E s \in running \ {0} : b = Child(s)
  BY <1>1 DEF KidsRing, KidsOf
<1>3. b \in Links /\ (b[2] \in running \/ b = Kids(b[2]))
  BY <1>2, LinksDiffer, InLinks DEF RingsHold
<1>4. /\ Before(l) \in Links /\ nextLink[Before(l)] = l
      /\ Before(l)[2] \in running \/ Before(l) = Kids(Before(l)[2])
  BY <1>1, <1>3 DEF Before
<1> DEFINE a == Before(l)
<1> HIDE DEF a
<1>5. a \in Links /\ nextLink[a] = l /\ (a[2] \in running \/ a = Kids(a[2]))
  BY <1>4 DEF a
<1>6. PICK u \in TaskNums : a = All(u) \/ a = Child(u) \/ a = Kids(u)
  BY <1>5 DEF Links, All, Child, Kids
<1>7. l = Kids(f) \/ \E s \in KidsOf(f) : l = Child(s)
  BY DEF KidsRing
<1>8. a # All(u)
  <2>1. SUFFICES ASSUME a = All(u) PROVE FALSE
    OBVIOUS
  <2>2. u \in running
    BY <2>1, <1>5, LinksDiffer
  <2>3. nextLink[a] \in AllRing
    BY <2>1, <2>2 DEF AllRing, RingsHold, Ring
  <2> QED
    BY <2>3, <1>5, <1>7, LinksDiffer DEF AllRing
<1>9. a # Child(0)
  BY <1>5, <1>7, LinksDiffer DEF RingsHold, KidsOf
<1>10. PICK g \in TaskNums : a \in KidsRing(g)
  BY <1>5, <1>6, <1>8, <1>9, LinksDiffer DEF KidsRing, KidsOf, RingsHold
<1>11. l \in KidsRing(g)
  BY <1>5, <1>10 DEF RingsHold, Ring
<1>12. g = f
  BY <1>11, <1>7, LinksDiffer DEF KidsRing, KidsOf
<1> QED
  BY <1>10, <1>12, <1>5 DEF a
-----------------------------------------------------------------------------
LEMMA BeginsHolds ==
  ASSUME RingsHold, NEW t \in TaskNums, NEW f \in TaskNums, Begins(t, f)
  PROVE  RingsHold'
<1> DEFINE a == Before(All(0))
           b == Before(Kids(f))
<1>1. /\ t \notin running /\ f \in running /\ t # 0 /\ t # f
      /\ running' = running \cup {t} /\ father' = [father EXCEPT ![t] = f]
  BY DEF Begins, RingsHold
<1>2. a \in AllRing /\ nextLink[a] = All(0)
  BY BeforeAll DEF RingsHold
<1>3. b \in KidsRing(f) /\ nextLink[b] = Kids(f)
  BY BeforeKid DEF KidsRing
<1>4. \E s \in running : a = All(s)
  BY <1>2 DEF AllRing
<1>5. b = Kids(f) \/ \E s \in running \ {0} : b = Child(s)
  BY <1>3 DEF KidsRing, KidsOf
<1>6. nextLink' = [[[[nextLink EXCEPT ![a] = All(t)] EXCEPT ![All(t)] = All(0)]
                     EXCEPT ![b] = Child(t)] EXCEPT ![Child(t)] = Kids(f)]
  BY DEF Begins, Added
<1> HIDE DEF a, b
<1>7. a \in Links /\ b \in Links /\ All(t) \in Links /\ Child(t) \in Links
      /\ All(0) \in Links /\ Kids(f) \in Links
  BY <1>1, <1>4, <1>5, InLinks DEF RingsHold
<1>8. a # b /\ a # All(t) /\ a # Child(t) /\ b # All(t) /\ b # Child(t) /\ All(t) # Child(t)
  BY <1>1, <1>4, <1>5, LinksDiffer
<1>9. nextLink' \in [Links -> Links]
  BY <1>6, <1>7 DEF RingsHold
<1>10. /\ nextLink'[a] = All(t) /\ nextLink'[All(t)] = All(0)
       /\ nextLink'[b] = Child(t) /\ nextLink'[Child(t)] = Kids(f)
       /\ \A l \in Links \ {a, b, All(t), Child(t)} : nextLink'[l] = nextLink[l]
  BY <1>6, <1>7, <1>8 DEF RingsHold
<1>11. AllRing' = AllRing \cup {All(t)}
  BY <1>1 DEF AllRing
<1>12. \A g \in TaskNums \ {f} : KidsOf(g)' = KidsOf(g)
  <2> TAKE g \in TaskNums \ {f}
  <2>1. \A s \in running : father'[s] = father[s]
    BY <1>1 DEF RingsHold
  <2>2. father'[t] = f
    BY <1>1 DEF RingsHold
  <2> QED
    BY <2>1, <2>2, <1>1 DEF KidsOf
<1>13. KidsOf(f)' = KidsOf(f) \cup {t}
  <2>1. \A s \in running : father'[s] = father[s]
    BY <1>1 DEF RingsHold
  <2>2. father'[t] = f
    BY <1>1 DEF RingsHold
  <2> QED
    BY <2>1, <2>2, <1>1 DEF KidsOf
<1>14. KidsRing(f)' = KidsRing(f) \cup {Child(t)}
  BY <1>13 DEF KidsRing
<1>15. \A g \in TaskNums \ {f} : KidsRing(g)' = KidsRing(g)
  BY <1>12 DEF KidsRing
<1>16. All(t) \notin AllRing /\ Child(t) \notin KidsRing(f)
  BY <1>1, LinksDiffer DEF AllRing, KidsRing, KidsOf
<1>17. \A k \in AllRing : k \in Links /\ k # b /\ k # Child(t)
  BY <1>5, LinksDiffer, InLinks DEF AllRing, RingsHold
<1>18. \A g \in TaskNums : \A k \in KidsRing(g) : k \in Links /\ k # a /\ k # All(t) /\ k # Child(t)
  BY <1>1, <1>4, LinksDiffer, InLinks DEF KidsRing, KidsOf, RingsHold
<1>19. Ring(nextLink', AllRing')
  <2>1. \A k \in AllRing \ {a} : nextLink'[k] = nextLink[k]
    BY <1>10, <1>16, <1>17
  <2> QED
    BY <2>1, <1>2, <1>10, <1>11, <1>16, LinkAdded DEF RingsHold
<1>20. Ring(nextLink', KidsRing(f)')
  <2>1. \A k \in KidsRing(f) \ {b} : nextLink'[k] = nextLink[k]
    BY <1>10, <1>18
  <2> QED
    BY <2>1, <1>3, <1>10, <1>14, <1>16, LinkAdded DEF RingsHold
<1>21. ASSUME NEW g \in TaskNums \ {f}
       PROVE  Ring(nextLink', KidsRing(g)')
  <2>1. b \notin KidsRing(g)
    BY <1>3, LinksDiffer DEF KidsRing, KidsOf
  <2>2. \A k \in KidsRing(g) : nextLink'[k] = nextLink[k]
    BY <2>1, <1>10, <1>18
  <2> QED
    BY <2>2, <1>15, RingStays DEF RingsHold
<1>22. nextLink'[Child(0)] = Child(0)
  <2>1. Child(0) # b
    BY <1>5, LinksDiffer
  <2>2. Child(0) # a /\ Child(0) # All(t) /\ Child(0) # Child(t) /\ Child(0) \in Links
    BY <1>1, <1>4, LinksDiffer, InLinks DEF RingsHold
  <2> QED
    BY <2>1, <2>2, <1>10 DEF RingsHold
<1>23. \A s \in running' \ {0} : father'[s] \in running'
  BY <1>1 DEF RingsHold
<1>24. running' \subseteq TaskNums /\ 0 \in running' /\ father' \in [TaskNums -> TaskNums]
  BY <1>1 DEF RingsHold
<1> QED
  BY <1>9, <1>19, <1>20, <1>21, <1>22, <1>23, <1>24 DEF RingsHold

LEMMA EndsHolds ==
  ASSUME RingsHold, NEW t \in TaskNums, Ends(t)
  PROVE  RingsHold'
<1> DEFINE a == Before(All(t))
           b == Before(Child(t))
<1>0. PICK f \in TaskNums : f = father[t]
  BY DEF RingsHold
<1>1. /\ t \in running \ {0} /\ running' = running \ {t} /\ father' = father
      /\ nextLink[Kids(t)] = Kids(t) /\ f \in running
  BY <1>0 DEF Ends, RingsHold
<1>2. a \in AllRing /\ nextLink[a] = All(t)
  BY <1>1, BeforeAll
<1>3. Child(t) \in KidsRing(f) /\ All(t) \in AllRing
  BY <1>0, <1>1 DEF KidsRing, KidsOf, AllRing
<1>4. b \in KidsRing(f) /\ nextLink[b] = Child(t)
  BY <1>1, <1>3, BeforeKid
<1>5. nextLink' = [[[nextLink EXCEPT ![a] = nextLink[All(t)]]
                     EXCEPT ![b] = [nextLink EXCEPT ![a] = nextLink[All(t)]][Child(t)]]
                     EXCEPT ![Child(t)] = Child(t)]
  BY DEF Ends, DelInit, DelRcu
<1> HIDE DEF a, b
<1>6. \E s \in running : a = All(s)
  BY <1>2 DEF AllRing
<1>7. b = Kids(f) \/ \E s \in running \ {0} : b = Child(s)
  BY <1>4 DEF KidsRing, KidsOf
<1>8. a \in Links /\ b \in Links /\ All(t) \in Links /\ Child(t) \in Links /\ Kids(f) \in Links
  BY <1>1, <1>6, <1>7, InLinks DEF RingsHold
<1>9. a # b /\ a # Child(t)
  BY <1>1, <1>6, <1>7, LinksDiffer
<1>10. nextLink' \in [Links -> Links]
  BY <1>5, <1>8 DEF RingsHold
<1>11. a # All(t)
  <2>1. SUFFICES ASSUME a = All(t) PROVE FALSE
    OBVIOUS
  <2>2. {All(t)} = AllRing
    BY <2>1, <1>2, LoneLink DEF RingsHold
  <2>3. All(0) \in AllRing
    BY DEF AllRing, RingsHold
  <2> QED
    BY <2>2, <2>3, <1>1, LinksDiffer
<1>12. b # Child(t)
  <2>1. SUFFICES ASSUME b = Child(t) PROVE FALSE
    OBVIOUS
  <2>2. Ring(nextLink, KidsRing(f))
    BY <1>1 DEF RingsHold
  <2>3. {Child(t)} = KidsRing(f)
    BY <2>1, <2>2, <1>4, LoneLink
  <2>4. Kids(f) \in KidsRing(f)
    BY DEF KidsRing
  <2> QED
    BY <2>3, <2>4, LinksDiffer
<1>13. /\ nextLink'[a] = nextLink[All(t)] /\ nextLink'[b] = nextLink[Child(t)]
       /\ nextLink'[Child(t)] = Child(t)
       /\ \A l \in Links \ {a, b, Child(t)} : nextLink'[l] = nextLink[l]
  BY <1>5, <1>8, <1>9, <1>12 DEF RingsHold
<1>14. KidsOf(t) = {}
  <2>1. Ring(nextLink, KidsRing(t)) /\ Kids(t) \in KidsRing(t)
    BY DEF RingsHold, KidsRing
  <2>2. {Kids(t)} = KidsRing(t)
    BY <2>1, <1>1, LoneLink
  <2> QED
    BY <2>2, LinksDiffer DEF KidsRing
<1>15. AllRing' = AllRing \ {All(t)}
  BY <1>1, LinksDiffer DEF AllRing
<1>16. \A g \in TaskNums \ {f} : KidsOf(g)' = KidsOf(g)
  BY <1>0, <1>1 DEF KidsOf
<1>17. KidsOf(f)' = KidsOf(f) \ {t}
  BY <1>0, <1>1 DEF KidsOf
<1>18. KidsRing(f)' = KidsRing(f) \ {Child(t)}
  <2>1. \A s \in KidsOf(f) : Child(s) = Child(t) <=> s = t
    BY LinksDiffer
  <2>2. Kids(f) # Child(t)
    BY LinksDiffer
  <2> QED
    BY <1>17, <2>1, <2>2 DEF KidsRing
<1>19. \A g \in TaskNums \ {f} : KidsRing(g)' = KidsRing(g)
  BY <1>16 DEF KidsRing
<1>20. \A k \in AllRing : k \in Links /\ k # b /\ k # Child(t)
  BY <1>7, LinksDiffer, InLinks DEF AllRing, RingsHold
<1>21. \A g \in TaskNums : \A k \in KidsRing(g) : k \in Links /\ k # a
  BY <1>6, LinksDiffer, InLinks DEF KidsRing, KidsOf, RingsHold
<1>22. Ring(nextLink', AllRing')
  <2>1. \A k \in AllRing \ {a, All(t)} : nextLink'[k] = nextLink[k]
    BY <1>13, <1>20
  <2> QED
    BY <2>1, <1>2, <1>3, <1>11, <1>13, <1>15, LinkTaken DEF RingsHold
<1>23. Ring(nextLink', KidsRing(f)')
  <2>1. \A k \in KidsRing(f) \ {b, Child(t)} : nextLink'[k] = nextLink[k]
    BY <1>1, <1>13, <1>21
  <2>2. Ring(nextLink, KidsRing(f))
    BY <1>1 DEF RingsHold
  <2> QED
    BY <2>1, <2>2, <1>3, <1>4, <1>12, <1>13, <1>18, LinkTaken
<1>24. ASSUME NEW g \in TaskNums \ {f}
       PROVE  Ring(nextLink', KidsRing(g)')
  <2>1. b \notin KidsRing(g) /\ Child(t) \notin KidsRing(g)
    BY <1>3, <1>4, LinksDiffer DEF KidsRing, KidsOf
  <2>2. \A k \in KidsRing(g) : nextLink'[k] = nextLink[k]
    BY <2>1, <1>13, <1>21
  <2> QED
    BY <2>2, <1>19, RingStays DEF RingsHold
<1>25. nextLink'[Child(0)] = Child(0)
  <2>1. Child(0) # b
    BY <1>7, LinksDiffer
  <2>2. Child(0) # a /\ Child(0) # Child(t) /\ Child(0) \in Links
    BY <1>1, <1>6, LinksDiffer, InLinks DEF RingsHold
  <2> QED
    BY <2>1, <2>2, <1>13 DEF RingsHold
<1>26. \A s \in running' \ {0} : father'[s] \in running'
  BY <1>1, <1>14 DEF RingsHold, KidsOf
<1>27. running' \subseteq TaskNums /\ 0 \in running' /\ father' \in [TaskNums -> TaskNums]
  BY <1>1 DEF RingsHold
<1>28. \A g \in TaskNums : Ring(nextLink', KidsRing(g)')
  BY <1>23, <1>24
<1> QED
  BY <1>10, <1>22, <1>28, <1>25, <1>26, <1>27 DEF RingsHold
-----------------------------------------------------------------------------
(* The walks. *)

LEMMA WalkBegins ==
  ASSUME NEW next, NEW R, Ring(next, R), NEW h \in R
  PROVE  Passed(next, R, h, next[h], {})
  BY DEF Ring, Passed

LEMMA WalkGoesOn ==
  ASSUME NEW next, NEW R, Ring(next, R), NEW h, NEW l, NEW V,
         Passed(next, R, h, l, V), l # h
  PROVE  Passed(next, R, h, next[l], V \cup {l})
<1>1. l \in R /\ l \notin V /\ next[l] \in R
  BY DEF Ring, Passed
<1>2. next[l] \notin V \cup {l}
  <2>1. SUFFICES ASSUME next[l] \in V \cup {l} PROVE FALSE
    OBVIOUS
  <2>2. PICK j \in V \cup {h} : next[j] = next[l]
    BY <2>1 DEF Passed
  <2>3. j \in R
    BY DEF Passed
  <2> QED
    BY <2>2, <2>3, <1>1 DEF Ring, Passed
<1>3. V \cup {l} \subseteq R \ {h, next[l]}
  BY <1>1, <1>2 DEF Passed
<1>4. \A k \in (V \cup {l}) \cup {h} : next[k] \in (V \cup {l}) \cup {next[l]}
  BY DEF Passed
<1>5. \A k \in (V \cup {l}) \cup {next[l]} : \E j \in (V \cup {l}) \cup {h} : next[j] = k
  BY DEF Passed
<1> QED
  BY <1>1, <1>3, <1>4, <1>5 DEF Passed

LEMMA WalkEnds ==
  ASSUME NEW next, NEW R, Ring(next, R), NEW h, NEW V, Passed(next, R, h, h, V)
  PROVE  V = R \ {h}
<1>1. V \cup {h} \in SUBSET R /\ V \cup {h} # {} /\ \A k \in V \cup {h} : next[k] \in V \cup {h}
  BY DEF Passed
<1>2. V \cup {h} = R
  BY <1>1 DEF Ring
<1> QED
  BY <1>2 DEF Passed

LEMMA RingWalked ==
  ASSUME RingsHold, NEW walk, NEW t, Walkable(walk, t)
  PROVE  /\ Ring(nextLink, RingOf(walk, t)) /\ HeadOf(walk, t) \in RingOf(walk, t)
         /\ RingOf(walk, t) \subseteq Links
<1>1. AllRing \subseteq Links /\ \A f \in TaskNums : KidsRing(f) \subseteq Links
  BY InLinks DEF AllRing, KidsRing, KidsOf, RingsHold
<1>2. CASE walk = "all"
  BY <1>1, <1>2 DEF Walkable, RingOf, HeadOf, RingsHold, AllRing
<1>3. CASE walk = "siblings"
  <2>1. t \in TaskNums \ {0} /\ t \in running /\ father[t] \in TaskNums
    BY <1>3 DEF Walkable, RingsHold
  <2>2. Child(t) \in KidsRing(father[t])
    BY <2>1 DEF KidsRing, KidsOf
  <2> QED
    BY <2>1, <2>2, <1>1, <1>3 DEF RingOf, HeadOf, RingsHold
<1>4. CASE walk = "kids"
  <2>1. t \in TaskNums /\ Kids(t) \in KidsRing(t)
    BY <1>4 DEF Walkable, RingsHold, KidsRing
  <2> QED
    BY <2>1, <1>1, <1>4 DEF RingOf, HeadOf, RingsHold
<1> QED
  BY <1>2, <1>3, <1>4 DEF Walkable

(* What a walk has printed when it comes back to its head. *)
LEMMA AllPrinted ==
  LinesOf("all", AllRing \ {All(0)}) = {<<"all", All(t)>> : t \in (running \cap KernelTasks) \ {0}}
  BY LinksDiffer DEF LinesOf, AllRing

LEMMA SiblingsPrinted ==
  ASSUME NEW t
  PROVE  SiblingsOf(t) = {<<"siblings", Child(s)>> : s \in KidsOf(father[t]) \ {t}}
                           \cup {<<"siblings", Kids(father[t])>>}
  BY LinksDiffer DEF SiblingsOf, LinesOf, KidsRing

LEMMA KidsPrinted ==
  ASSUME NEW t
  PROVE  LinesOf("kids", KidsRing(t) \ {Kids(t)}) = {<<"kids", Child(s)>> : s \in KidsOf(t)}
  BY LinksDiffer DEF LinesOf, KidsRing

(* No line of an earlier walk, or of another link, is the line of this.    *)
LEMMA LineIsNew ==
  ASSUME NEW walk, NEW t, walk \in {"all", "siblings", "kids"}, NEW V, NEW l, l \notin V
  PROVE  <<walk, l>> \notin Earlier(walk, t) \cup LinesOf(walk, V)
  BY DEF Earlier, ParentOf, SiblingsOf, LinesOf
-----------------------------------------------------------------------------
LEMMA TaskInitHolds == TaskInit => ListInv
<1> SUFFICES ASSUME TaskInit PROVE ListInv
  OBVIOUS
<1>1. 0 \in TaskNums
  BY TaskAssumption DEF TaskNums
<1>2. ListTypes
  BY <1>1, InLinks DEF ListTypes, TaskInit, NotLoaded
<1>3. \A f \in TaskNums : KidsOf(f) = {}
  BY DEF KidsOf, TaskInit
<1>4. AllRing = {All(0)} /\ \A f \in TaskNums : KidsRing(f) = {Kids(f)}
  BY <1>3 DEF AllRing, KidsRing, TaskInit
<1>5. \A l \in Links : Ring(nextLink, {l})
  BY DEF Ring, TaskInit
<1>6. RingsHold
  BY <1>1, <1>4, <1>5, InLinks DEF RingsHold, TaskInit
<1>7. listAt.walk = "none"
  BY DEF TaskInit, NotLoaded
<1> QED
  BY <1>2, <1>6, <1>7 DEF ListInv, Busy, CalmIsComplete

(* Where no task begins or ends, the rings and the lists are as they were. *)
LEMMA RingsStay ==
  ASSUME UNCHANGED <<running, father, nextLink>>
  PROVE  /\ RingsHold => RingsHold'
         /\ \A t : KidsOf(t)' = KidsOf(t)
         /\ \A walk, t : RingOf(walk, t)' = RingOf(walk, t) /\ Earlier(walk, t)' = Earlier(walk, t)
         /\ \A walk, t : Walkable(walk, t)' = Walkable(walk, t)
<1>1. \A t : KidsOf(t)' = KidsOf(t)
  BY DEF KidsOf
<1>2. AllRing' = AllRing /\ \A t : KidsRing(t)' = KidsRing(t)
  BY <1>1 DEF AllRing, KidsRing
<1>3. \A walk, t : RingOf(walk, t)' = RingOf(walk, t)
  BY <1>2 DEF RingOf
<1>4. \A t : SiblingsOf(t)' = SiblingsOf(t)
  BY <1>2 DEF SiblingsOf
<1>5. \A walk, t : Earlier(walk, t)' = Earlier(walk, t)
  BY <1>4 DEF Earlier, ParentOf
<1>6. RingsHold => RingsHold'
  BY <1>2 DEF RingsHold
<1> QED
  BY <1>1, <1>3, <1>5, <1>6 DEF Walkable

LEMMA UnderwayAgain ==
  ASSUME UNCHANGED <<running, father, nextLink>>,
         NEW walk, NEW t, NEW l, Walkable(walk, t),
         listAt'.walk = walk, listAt'.task = t, listAt'.link = l, ~twice',
         NEW V \in SUBSET Links,
         Passed(nextLink, RingOf(walk, t), HeadOf(walk, t), l, V),
         out' = Earlier(walk, t) \cup LinesOf(walk, V)
  PROVE  Underway'
<1>1. RingOf(walk, t)' = RingOf(walk, t) /\ Earlier(walk, t)' = Earlier(walk, t) /\ Walkable(walk, t)'
  BY RingsStay
<1>2. HeadOf(walk, t)' = HeadOf(walk, t) /\ LinesOf(walk, V)' = LinesOf(walk, V)
  BY DEF HeadOf, LinesOf
<1> QED
  BY <1>1, <1>2 DEF Underway

(* A walk begins with nothing passed. *)
LEMMA BeginsWalk ==
  ASSUME RingsHold, UNCHANGED <<running, father, nextLink>>,
         NEW walk, NEW t \in TaskNums, Walkable(walk, t),
         listAt' = Begin(walk, t), out' = Earlier(walk, t), ~twice'
  PROVE  ListTypes' /\ Underway'
<1> DEFINE h == HeadOf(walk, t)
           R == RingOf(walk, t)
<1>1. Ring(nextLink, R) /\ h \in R /\ R \subseteq Links
  BY RingWalked
<1>2. nextLink[h] \in Links
  BY <1>1 DEF Ring
<1>3. listAt' = [walk |-> walk, task |-> t, link |-> nextLink[h]]
  BY DEF Begin
<1>4. Passed(nextLink, R, h, nextLink[h], {})
  BY <1>1, WalkBegins
<1>5. out' = Earlier(walk, t) \cup LinesOf(walk, {})
  BY DEF LinesOf
<1>6. listAt'.walk = walk /\ listAt'.task = t /\ listAt'.link = nextLink[h]
  BY <1>3
<1>7. {} \in SUBSET Links
  OBVIOUS
<1>8. Underway'
  BY <1>4, <1>5, <1>6, <1>7, UnderwayAgain
<1>9. ListTypes'
  BY <1>2, <1>3 DEF ListTypes, Walkable
<1> QED
  BY <1>8, <1>9

LEMMA ForEachHolds ==
  ASSUME ListInv, ForEach
  PROVE  ListInv'
<1> DEFINE walk == listAt.walk
           t    == listAt.task
           l    == listAt.link
           R    == RingOf(walk, t)
           h    == HeadOf(walk, t)
<1>1. /\ walk \in {"all", "siblings", "kids"} /\ l # h
      /\ UNCHANGED <<running, father, nextLink, calm>>
  BY DEF ForEach, Busy, LoopOver
<1>2. ListTypes /\ RingsHold
  BY DEF ListInv
<1>3. listAt' = [listAt EXCEPT !.link = nextLink[l]]
  BY DEF ForEach
<1>4. listAt'.walk = walk /\ listAt'.task = t /\ listAt'.link = nextLink[l]
  BY <1>2, <1>3 DEF ListTypes
<1>5. ListTypes'
  <2>1. nextLink[l] \in Links
    BY <1>2 DEF ListTypes, RingsHold
  <2> QED
    BY <2>1, <1>2, <1>3 DEF ListTypes
<1>6. RingsHold'
  BY <1>1, <1>2, RingsStay
<1>7. CalmIsComplete'
  BY <1>1, <1>4 DEF CalmIsComplete
<1>8. ASSUME calm
      PROVE  Underway'
  <2>1. Underway
    BY <1>8, <1>1 DEF ListInv, Busy
  <2>2. Walkable(walk, t) /\ ~twice
    BY <2>1 DEF Underway
  <2>3. PICK V \in SUBSET Links : /\ Passed(nextLink, R, h, l, V)
                                 /\ out = Earlier(walk, t) \cup LinesOf(walk, V)
    BY <2>1 DEF Underway
  <2>4. Ring(nextLink, R) /\ l \notin V /\ l \in Links
    BY <2>2, <2>3, <1>2, RingWalked DEF Passed
  <2>5. Passed(nextLink, R, h, nextLink[l], V \cup {l})
    BY <2>3, <2>4, <1>1, WalkGoesOn
  <2>6. <<walk, l>> \notin out
    BY <2>3, <2>4, <1>1, LineIsNew
  <2>7. out' = Earlier(walk, t) \cup LinesOf(walk, V \cup {l}) /\ twice' = FALSE
    <3>1. CASE walk # "all" \/ l[2] \in KernelTasks
      <4>1. out' = out \cup {<<walk, l>>} /\ twice' = FALSE
        BY <3>1, <2>2, <2>6 DEF ForEach
      <4>2. LinesOf(walk, V \cup {l}) = LinesOf(walk, V) \cup {<<walk, l>>}
        BY <3>1 DEF LinesOf
      <4> QED
        BY <4>1, <4>2, <2>3
    <3>2. CASE walk = "all" /\ l[2] \notin KernelTasks
      <4>1. out' = out /\ twice' = FALSE
        BY <3>2, <2>2 DEF ForEach
      <4>2. LinesOf(walk, V \cup {l}) = LinesOf(walk, V)
        BY <3>2 DEF LinesOf
      <4> QED
        BY <4>1, <4>2, <2>3
    <3> QED
      BY <3>1, <3>2
  <2>8. V \cup {l} \in SUBSET Links
    BY <2>4
  <2> QED
    BY <2>2, <2>5, <2>7, <2>8, <1>1, <1>4, UnderwayAgain
<1> QED
  BY <1>1, <1>5, <1>6, <1>7, <1>8 DEF ListInv

LEMMA AtHeadHolds ==
  ASSUME ListInv, AtHead
  PROVE  ListInv'
<1> DEFINE walk == listAt.walk
           t    == listAt.task
           R    == RingOf(walk, t)
           h    == HeadOf(walk, t)
<1>1. /\ walk \in {"all", "siblings", "kids"} /\ listAt.link = h
      /\ UNCHANGED <<running, father, nextLink, out, twice, calm>>
  BY DEF AtHead, Busy, LoopOver
<1>2. ListTypes /\ RingsHold
  BY DEF ListInv
<1>3. RingsHold'
  BY <1>1, <1>2, RingsStay
<1>4. ASSUME calm
      PROVE  Walkable(walk, t) /\ ~twice /\ out = Earlier(walk, t) \cup LinesOf(walk, R \ {h})
  <2>1. Underway
    BY <1>4, <1>1 DEF ListInv, Busy
  <2>2. Walkable(walk, t) /\ ~twice
    BY <2>1 DEF Underway
  <2>3. PICK V \in SUBSET Links : /\ Passed(nextLink, R, h, h, V)
                                 /\ out = Earlier(walk, t) \cup LinesOf(walk, V)
    BY <2>1, <1>1 DEF Underway
  <2>4. V = R \ {h}
    BY <2>2, <2>3, <1>2, RingWalked, WalkEnds
  <2> QED
    BY <2>2, <2>3, <2>4
<1>5. CASE walk = "siblings"
  <2>1. listAt' = Begin("kids", t)
    BY <1>5 DEF AtHead
  <2>2. listAt'.walk = "kids" /\ ListTypes'
    <3>1. Kids(t) \in Links
      BY <1>2, InLinks DEF ListTypes
    <3>2. nextLink[HeadOf("kids", t)] \in Links
      BY <3>1, <1>2 DEF HeadOf, RingsHold
    <3> QED
      BY <2>1, <3>2, <1>2 DEF Begin, ListTypes
  <2>3. ASSUME calm
        PROVE  Underway'
    <3>1. out = Earlier("kids", t)
      BY <1>4, <1>5, <2>3 DEF Earlier, RingOf, HeadOf, SiblingsOf
    <3>2. Walkable("kids", t) /\ ~twice' /\ t \in TaskNums
      BY <1>1, <1>2, <1>4, <1>5, <2>3 DEF Walkable, ListTypes
    <3> QED
      BY <2>1, <3>1, <3>2, <1>1, <1>2, BeginsWalk
  <2> QED
    BY <2>2, <2>3, <1>1, <1>3 DEF ListInv, CalmIsComplete
<1>6. CASE walk \in {"all", "kids"}
  <2>1. listAt' = [listAt EXCEPT !.walk = "done"]
    BY <1>6 DEF AtHead
  <2>2. listAt'.walk = "done" /\ listAt'.task = t /\ ListTypes'
    BY <2>1, <1>2 DEF ListTypes
  <2>3. ASSUME calm
        PROVE  CalmIsComplete'
    <3>1. \A s : KidsOf(s)' = KidsOf(s)
      BY <1>1, RingsStay
    <3>2. CASE walk = "all"
      <4>1. out = {<<"all", All(s)>> : s \in (running \cap KernelTasks) \ {0}}
        BY <1>4, <2>3, <3>2, AllPrinted DEF Earlier, RingOf, HeadOf
      <4> QED
        BY <4>1, <1>1, <1>4, <2>3 DEF CalmIsComplete
    <3>3. CASE walk = "kids"
      <4>1. out = (ParentOf(t) \cup SiblingsOf(t)) \cup {<<"kids", Child(s)>> : s \in KidsOf(t)}
        BY <1>4, <2>3, <3>3, KidsPrinted DEF Earlier, RingOf, HeadOf
      <4>2. out = {<<"parent", All(father[t])>>}
                     \cup {<<"siblings", Child(s)>> : s \in KidsOf(father[t]) \ {t}}
                     \cup {<<"siblings", Kids(father[t])>>}
                     \cup {<<"kids", Child(s)>> : s \in KidsOf(t)}
        BY <4>1, SiblingsPrinted DEF ParentOf
      <4> QED
        BY <4>2, <2>2, <3>1, <1>1, <1>4, <2>3 DEF CalmIsComplete
    <3> QED
      BY <3>2, <3>3, <1>6
  <2>4. ~calm => CalmIsComplete'
    BY <1>1 DEF CalmIsComplete
  <2>5. ~Busy'
    BY <2>2 DEF Busy
  <2> QED
    BY <2>2, <2>3, <2>4, <2>5, <1>3 DEF ListInv
<1> QED
  BY <1>1, <1>5, <1>6

LEMMA LoadsHolds ==
  ASSUME ListInv, fir_init \/ Unload \/ \E t \in TaskNums : sec_init(t)
  PROVE  ListInv'
<1>1. ListTypes /\ RingsHold
  BY DEF ListInv
<1>2. UNCHANGED <<running, father, nextLink>> /\ ~twice'
  BY DEF fir_init, sec_init, Loads, Unload
<1>3. RingsHold'
  BY <1>1, <1>2, RingsStay
<1>4. 0 \in TaskNums /\ Kids(0) \in Links
  BY <1>1, InLinks DEF RingsHold
<1>5. CASE fir_init
  <2>1. listAt' = Begin("all", 0) /\ out' = Earlier("all", 0) /\ Walkable("all", 0)
    BY <1>5 DEF fir_init, Earlier, Walkable
  <2>2. ListTypes' /\ Underway'
    BY <2>1, <1>1, <1>2, <1>4, BeginsWalk
  <2>3. listAt'.walk = "all"
    BY <2>1 DEF Begin
  <2> QED
    BY <2>2, <2>3, <1>3 DEF ListInv, CalmIsComplete
<1>6. CASE Unload
  <2>1. listAt' = [walk |-> "none", task |-> 0, link |-> Kids(0)]
    BY <1>6 DEF Unload, NotLoaded
  <2>2. ListTypes' /\ listAt'.walk = "none"
    BY <2>1, <1>4 DEF ListTypes
  <2> QED
    BY <2>2, <1>3 DEF ListInv, Busy, CalmIsComplete
<1>7. ASSUME NEW t \in TaskNums, sec_init(t)
      PROVE  ListInv'
  <2>1. CASE t \in running \ {0}
    <3>1. listAt' = Begin("siblings", t) /\ out' = Earlier("siblings", t) /\ Walkable("siblings", t)
      BY <1>7, <2>1 DEF sec_init, Earlier, ParentOf, Walkable
    <3>2. ListTypes' /\ Underway'
      BY <3>1, <1>1, <1>2, BeginsWalk
    <3>3. listAt'.walk = "siblings"
      BY <3>1 DEF Begin
    <3> QED
      BY <3>2, <3>3, <1>3 DEF ListInv, CalmIsComplete
  <2>2. CASE t \notin running \ {0}
    <3>1. listAt' = [walk |-> "oops", task |-> 0, link |-> Kids(0)]
      BY <1>7, <2>2 DEF sec_init, NotLoaded
    <3>2. ListTypes' /\ listAt'.walk = "oops"
      BY <3>1, <1>4 DEF ListTypes
    <3> QED
      BY <3>2, <1>3 DEF ListInv, Busy, CalmIsComplete
  <2> QED
    BY <2>1, <2>2
<1> QED
  BY <1>5, <1>6, <1>7

LEMMA ChangesHold ==
  ASSUME ListInv, NEW t \in TaskNums, NEW f \in TaskNums, Begins(t, f) \/ Ends(t)
  PROVE  ListInv'
<1>1. RingsHold'
  BY BeginsHolds, EndsHolds DEF ListInv
<1>2. ~calm' /\ listAt' = listAt
  BY DEF Begins, Ends, Changes
<1> QED
  BY <1>1, <1>2 DEF ListInv, ListTypes, CalmIsComplete

(* While no task begins or ends, a list is printed as it is, every task    *)
(* once and none that is not there, and with the one line too many that    *)
(* the head makes among siblings: for any number of tasks, and whatever    *)
(* began and ended before the module was loaded.                           *)
THEOREM CalmStaysComplete == TaskSpec => []CalmIsComplete
<1>1. ListInv /\ [TaskNext]_taskVars => ListInv'
  <2> SUFFICES ASSUME ListInv, [TaskNext]_taskVars PROVE ListInv'
    OBVIOUS
  <2>1. CASE UNCHANGED taskVars
    <3>1. UNCHANGED <<running, father, nextLink, listAt, out, twice, calm>>
      BY <2>1 DEF taskVars
    <3>2. RingsHold' /\ ListTypes'
      BY <3>1, RingsStay DEF ListInv, ListTypes
    <3>3. Underway => Underway'
      BY <3>1, UnderwayAgain DEF Underway
    <3>4. CalmIsComplete'
      BY <3>1, RingsStay DEF ListInv, CalmIsComplete
    <3> QED
      BY <3>1, <3>2, <3>3, <3>4 DEF ListInv, Busy
  <2>2. ASSUME NEW t \in TaskNums, Ends(t)
        PROVE  ListInv'
    BY <2>2, ChangesHold
  <2>3. ASSUME NEW t \in TaskNums, NEW f \in TaskNums, Begins(t, f)
        PROVE  ListInv'
    BY <2>3, ChangesHold
  <2>4. CASE fir_init \/ Unload \/ \E t \in TaskNums : sec_init(t)
    BY <2>4, LoadsHolds
  <2>5. CASE Walk
    BY <2>5, ForEachHolds, AtHeadHolds DEF Walk
  <2> QED
    BY <2>1, <2>2, <2>3, <2>4, <2>5 DEF TaskNext
<1>2. ListInv => CalmIsComplete
  BY DEF ListInv
<1> QED
  BY <1>1, <1>2, TaskInitHolds, PTL DEF TaskSpec
=============================================================================

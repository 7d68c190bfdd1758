----------------------------- MODULE SlotOffer ------------------------------
(***************************************************************************)
(* The slots offered to a citizen: the ranges of the weekdays cut into     *)
(* slots, without what is blocked, what has begun, what comes before the   *)
(* minimum notice or after the window, and what has no seat left.          *)
(*                                                                         *)
(* Days are numbered, day 0 a Sunday; a time is minutes since day 0.  The  *)
(* time zone is that of the unit throughout and has no summer time.        *)
(***************************************************************************)
EXTENDS Integers, Sequences, FiniteSets, SequencesExt

CONSTANTS
    DayLength,      \* minutes of a day: 1440
    NoTime          \* start and end of a block of the whole day

ASSUME DayAssumption == DayLength \in Nat \ {0}

\* Array.filter: the elements of s that are in the set K, in their order.
Kept(s, K) ==
    LET pick[i \in 0..Len(s)] ==
            IF i = 0 THEN <<>>
            ELSE IF s[i] \in K THEN Append(pick[i - 1], s[i]) ELSE pick[i - 1]
    IN  pick[Len(s)]

DayOf(time) == time \div DayLength
MinuteOf(time) == time % DayLength
At(day, minute) == day * DayLength + minute         \* parseLocalDate
WeekdayOf(day) == day % 7                           \* getDowFromDateStr

\* A schedule: its ranges are those of the seeds, which nothing else writes, by
\* weekday and slot_index; a block ends after it starts (chk_blocked_dates_period).
IsSchedule(s) ==
    /\ s.slotMinutes \in Nat \ {0} /\ s.seats \in Nat \ {0}
    /\ s.window \in Nat /\ s.notice \in Nat
    /\ s.ranges \in Seq([weekday: 0..6, start: 0..DayLength, end: 0..DayLength])
    /\ \A i, j \in 1..Len(s.ranges) :
          i < j /\ s.ranges[i].weekday = s.ranges[j].weekday => s.ranges[i].end <= s.ranges[j].start
    /\ \A b \in s.blocks :
          /\ b.date \in Nat
          /\ b.start # NoTime =>
                b.start \in 0..DayLength /\ b.end \in 0..DayLength /\ b.start < b.end

RangesOn(s, day) == Kept(s.ranges, {r \in Range(s.ranges) : r.weekday = WeekdayOf(day)})

Starts(s, r) ==
    [i \in 1..((r.end - r.start) \div s.slotMinutes) |-> r.start + (i - 1) * s.slotMinutes]

FullDayBlocked(blocks, day) == \E b \in blocks : b.date = day /\ b.start = NoTime

\* Variant: only a block that holds the start of the slot takes it.
PartlyBlocked_StartOnly(s, blocks, day, t) ==
    \E b \in blocks : b.date = day /\ b.start # NoTime /\ b.start <= t /\ t < b.end

PartlyBlocked(s, blocks, day, t) ==
    \E b \in blocks : /\ b.date = day /\ b.start # NoTime
                      /\ t < b.end /\ t + s.slotMinutes > b.start

\* The starts of a day that no partial block takes.
NotTaken(s, blocks, day, starts) ==
    Kept(starts, {t \in Range(starts) : ~PartlyBlocked(s, blocks, day, t)})

FreeStarts(s, blocks, day) ==
    IF FullDayBlocked(blocks, day) THEN <<>>
    ELSE NotTaken(s, blocks, day,
                  FlattenSeq([i \in 1..Len(RangesOn(s, day)) |-> Starts(s, RangesOn(s, day)[i])]))

IsBusinessDay(s, blocks, day) == FreeStarts(s, blocks, day) # <<>>

\* getBlockedDates(today, today + window + 15).
BlocksRead(s, today) == {b \in s.blocks : b.date \in today..(today + s.window + 15)}

\* The first day that keeps the notice, if any: business days are counted after
\* today until there are enough, over window + 30 days at most.
FirstDay(s, today) ==
    LET blocks == BlocksRead(s, today)
        loop[i \in 0..(s.window + 30)] ==
            IF i = 0 THEN [n |-> 0, day |-> today]
            ELSE LET w == loop[i - 1]
                 IN  IF w.n = s.notice THEN w
                     ELSE [n   |-> w.n + (IF IsBusinessDay(s, blocks, w.day + 1) THEN 1 ELSE 0),
                           day |-> w.day + 1]
        end == loop[s.window + 30]
    IN  IF end.n < s.notice THEN <<>> ELSE <<end.day>>

\* What begins now or began before is left out, today only.
Ahead(starts, now, day) ==
    Kept(starts, {t \in Range(starts) : day = DayOf(now) => t > MinuteOf(now)})

SlotsOf(s, now, day) ==
    LET ahead == Ahead(FreeStarts(s, BlocksRead(s, DayOf(now)), day), now, day)
    IN  [i \in 1..Len(ahead) |-> At(day, ahead[i])]

Candidates(s, now) ==
    LET today == DayOf(now)
        first == FirstDay(s, today)
        days  == IF first = <<>> THEN 0 ELSE today + s.window - first[1] + 1
    IN  IF days < 1 THEN <<>>
        ELSE FlattenSeq([i \in 1..days |-> SlotsOf(s, now, first[1] + i - 1)])

\* countActiveAppointmentsPerSlot counts between the first and the last one.
Counted(candidates, active, slot) ==
    IF slot \in DOMAIN active /\ candidates[1] <= slot /\ slot <= candidates[Len(candidates)]
    THEN active[slot] ELSE 0

\* Those with a seat left.
Vacant(s, active, candidates) ==
    Kept(candidates, {slot \in Range(candidates) :
                          s.seats - Counted(candidates, active, slot) > 0})

\* getAvailableSlots.
Offer(s, now, active) == Vacant(s, active, Candidates(s, now))

-----------------------------------------------------------------------------
(* What an offer should be, for comparison. *)

InSchedule(s, slot) ==
    LET t == MinuteOf(slot)
    IN  \E i \in 1..Len(s.ranges) :
            /\ s.ranges[i].weekday = WeekdayOf(DayOf(slot))
            /\ s.ranges[i].start <= t /\ t + s.slotMinutes <= s.ranges[i].end
            /\ (t - s.ranges[i].start) % s.slotMinutes = 0

\* No minute of the slot is blocked.
Unblocked(s, slot) ==
    ~ \E b \in s.blocks :
        /\ b.date = DayOf(slot)
        /\ b.start = NoTime \/ \E m \in b.start..(b.end - 1) :
                                    m \in MinuteOf(slot)..(MinuteOf(slot) + s.slotMinutes - 1)

Open(s, slot) == InSchedule(s, slot) /\ Unblocked(s, slot)

\* Days with attendance that are not blocked count for the notice.
NoticeKept(s, now, slot) ==
    Cardinality({d \in (DayOf(now) + 1)..DayOf(slot) :
                    \E t \in 0..(DayLength - 1) : Open(s, At(d, t))}) >= s.notice

Bookable(s, now, active, slot) ==
    /\ slot > now
    /\ DayOf(slot) <= DayOf(now) + s.window
    /\ Open(s, slot)
    /\ NoticeKept(s, now, slot)
    /\ slot \in DOMAIN active => active[slot] < s.seats
=============================================================================

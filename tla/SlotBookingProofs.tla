------------------------- MODULE SlotBookingProofs -------------------------
(***************************************************************************)
(* From the offer to the seat. First, the safety of SlotBooking for every  *)
(* number of conversations, slots and seats: IInv is inductive, and each   *)
(* lemma shows that a step preserves one of its conjuncts, with one case   *)
(* per action that can disturb it. Then CitizenMenus, for every schedule,  *)
(* catalogue and time: what the recursive functions of SlotOffer and       *)
(* ListPages return, by induction over sets, and MenusInv, inductive.      *)
(***************************************************************************)
EXTENDS SlotBooking, CitizenMenus, SequenceTheorems, FiniteSetTheorems, WellFoundedInduction, TLAPS

\* The open appointments of a slot are finitely many, so they can be counted.
LEMMA ActiveCounted ==
    ASSUME NEW t \in Slot
    PROVE  IsFiniteSet(ActiveAt(t)) /\ Cardinality(ActiveAt(t)) \in Nat
<1>1. ActiveAt(t) \in SUBSET Session
    BY DEF ActiveAt
<1> QED
    BY <1>1, FS_Subset, FS_CardinalityType, BookingAssumption

\* What the count and the duplicate check return depends on the committed
\* appointments and the drafts alone.
LEMMA ReadsUnmoved ==
    ASSUME UNCHANGED <<status, draft>>, NEW t \in Slot
    PROVE  /\ ActiveAt(t)' = ActiveAt(t)
           /\ SlotIsFull(t)' = SlotIsFull(t)
           /\ \A d : CpfTaken(d, t)' = CpfTaken(d, t)
BY DEF ActiveAt, SlotIsFull, CpfTaken

\* The staff close or confirm what is open, and touch nothing else.
LEMMA StaffMoves ==
    ASSUME TypeOK, NEW s \in Session, NEW u \in Slot,
           Claim(s, u) \/ Attended(s, u) \/ NoShow(s, u)
    PROVE  /\ status[s][u] \in Active
           /\ status' \in [Session -> [Slot -> Status]]
           /\ \A x \in Session, t \in Slot :
                  status'[x][t] = "NONE" <=> status[x][t] = "NONE"
           /\ \A x \in Session, t \in Slot :
                  x # s \/ t # u => status'[x][t] = status[x][t]
           /\ UNCHANGED <<outcome, idle, draft, pc, want, lock, reply, phase>>
<1>1. PICK new \in {"CONFIRMED", "ATTENDED", "NO_SHOW"} :
          SetStatus(s, u, new) /\ status[s][u] \in Active
    BY DEF Claim, Attended, NoShow, Active
<1>2. status' = [status EXCEPT ![s][u] = new]
    BY <1>1 DEF SetStatus
<1>3. UNCHANGED <<outcome, idle, draft, pc, want, lock, reply, phase>>
    BY <1>1 DEF SetStatus, sessionVars, handlerVars
<1>4. new \in Status
    BY DEF Status
<1>5. status \in [Session -> [Slot -> Status]]
    BY DEF TypeOK
<1>6. status' \in [Session -> [Slot -> Status]]
    BY <1>2, <1>4, <1>5
<1>7. status'[s][u] = new /\ new # "NONE" /\ status[s][u] # "NONE"
    BY <1>1, <1>2, <1>5 DEF Active
<1>8. \A x \in Session, t \in Slot : x # s \/ t # u => status'[x][t] = status[x][t]
    BY <1>2, <1>5
<1> QED
    BY <1>1, <1>3, <1>6, <1>7, <1>8

\* So they only free seats.
LEMMA StaffShrinks ==
    ASSUME TypeOK, NEW s \in Session, NEW u \in Slot,
           Claim(s, u) \/ Attended(s, u) \/ NoShow(s, u),
           NEW t \in Slot
    PROVE  /\ ActiveAt(t)' \in SUBSET ActiveAt(t)
           /\ SlotIsFull(t)' => SlotIsFull(t)
           /\ \A d : CpfTaken(d, t)' => CpfTaken(d, t)
<1>1. ActiveAt(t)' \in SUBSET ActiveAt(t)
    BY StaffMoves DEF ActiveAt
<1>2. Cardinality(ActiveAt(t)') <= Cardinality(ActiveAt(t))
    BY <1>1, ActiveCounted, FS_Subset
<1>3. Cardinality(ActiveAt(t)') \in Nat
    BY <1>1, ActiveCounted, FS_Subset, FS_CardinalityType
<1>4. SlotIsFull(t)' => SlotIsFull(t)
    BY <1>2, <1>3, ActiveCounted, BookingAssumption DEF SlotIsFull
<1>5. draft' = draft
    BY StaffMoves
<1> QED
    BY <1>1, <1>4, <1>5 DEF CpfTaken

\* A COMMIT opens one appointment, at the slot the transaction holds.
LEMMA CommitAdds ==
    ASSUME TypeOK, NEW s \in Session, Commit(s), NEW t \in Slot
    PROVE  /\ ActiveAt(t)' = IF t = want[s] THEN ActiveAt(t) \cup {s} ELSE ActiveAt(t)
           /\ draft' = draft
BY DEF TypeOK, Commit, ActiveAt, Active

\* Nothing but a COMMIT or the staff writes what the reads depend on.
LEMMA OnlyCommitAndStaffWrite ==
    ASSUME [Next]_vars
    PROVE  \/ UNCHANGED <<status, draft>>
           \/ \E s \in Session : Commit(s)
           \/ \E s \in Session, t \in Slot : Claim(s, t) \/ Attended(s, t) \/ NoShow(s, t)
<1> USE DEF sessionVars, handlerVars
<1>1. ASSUME NEW s \in Session, NEW t \in Slot, ChooseSlot(s, t)
      PROVE  UNCHANGED <<status, draft>>
    BY <1>1 DEF ChooseSlot
<1>2. ASSUME NEW s \in Session,
             LockSlot(s) \/ CountSeats(s) \/ CheckCpf(s) \/ InsertAppointment(s)
             \/ FinishSession(s) \/ FailBooking(s) \/ AfterSlotFull(s)
      PROVE  UNCHANGED <<status, draft>>
    BY <1>2 DEF LockSlot, CountSeats, CheckCpf, InsertAppointment, FinishSession,
                FailBooking, AfterSlotFull, Rollback
<1>3. ASSUME NEW s \in Session, Abandon(s) \/ GrowIdle(s)
      PROVE  UNCHANGED <<status, draft>>
    BY <1>3 DEF Abandon, GrowIdle
<1>4. ASSUME NEW t \in Slot, Tick(t)
      PROVE  UNCHANGED <<status, draft>>
    BY <1>4 DEF Tick
<1>5. CASE UNCHANGED vars
    BY <1>5 DEF vars
<1> QED
    BY <1>1, <1>2, <1>3, <1>4, <1>5 DEF Next, Advance

-----------------------------------------------------------------------------
\* Every step keeps the types.
LEMMA TypeStep == TypeOK /\ [Next]_vars => TypeOK'
<1> SUFFICES ASSUME TypeOK, [Next]_vars PROVE TypeOK'
    OBVIOUS
<1> USE DEF TypeOK, Outcome, Status, Reply, Phase, Handler, InTx,
            sessionVars, handlerVars
<1>1. ASSUME NEW s \in Session, NEW t \in Slot, ChooseSlot(s, t)
      PROVE  TypeOK'
    BY <1>1 DEF ChooseSlot, NoSlotReply, ShowSlotsAgain
<1>2. ASSUME NEW s \in Session, LockSlot(s)
      PROVE  TypeOK'
    BY <1>2 DEF LockSlot
<1>3. ASSUME NEW s \in Session, CountSeats(s)
      PROVE  TypeOK'
    BY <1>3 DEF CountSeats, Rollback
<1>4. ASSUME NEW s \in Session, CheckCpf(s)
      PROVE  TypeOK'
    BY <1>4 DEF CheckCpf, Rollback
<1>5. ASSUME NEW s \in Session, InsertAppointment(s)
      PROVE  TypeOK'
    BY <1>5 DEF InsertAppointment
<1>6. ASSUME NEW s \in Session, FinishSession(s)
      PROVE  TypeOK'
    BY <1>6 DEF FinishSession, Rollback
<1>7. ASSUME NEW s \in Session, Commit(s)
      PROVE  TypeOK'
    BY <1>7 DEF Commit
<1>8. ASSUME NEW s \in Session, FailBooking(s)
      PROVE  TypeOK'
    BY <1>8 DEF FailBooking, Rollback
<1>9. ASSUME NEW s \in Session, AfterSlotFull(s)
      PROVE  TypeOK'
    BY <1>9 DEF AfterSlotFull, NoSlotReply, ShowSlotsAgain
<1>10. ASSUME NEW s \in Session, Abandon(s) \/ GrowIdle(s)
       PROVE  TypeOK'
    BY <1>10 DEF Abandon, GrowIdle
<1>11. ASSUME NEW s \in Session, NEW t \in Slot,
              Claim(s, t) \/ Attended(s, t) \/ NoShow(s, t)
       PROVE  TypeOK'
    BY <1>11, StaffMoves
<1>12. ASSUME NEW t \in Slot, Tick(t)
       PROVE  TypeOK'
    BY <1>12 DEF Tick
<1>13. CASE UNCHANGED vars
    BY <1>13 DEF vars
<1> QED
    BY <1>1, <1>2, <1>3, <1>4, <1>5, <1>6, <1>7, <1>8, <1>9, <1>10, <1>11,
       <1>12, <1>13 DEF Next, Advance

-----------------------------------------------------------------------------
\* The lock of a slot belongs to the one transaction open on it.
LEMMA LockStep == TypeOK /\ LockDiscipline /\ [Next]_vars => LockDiscipline'
<1> SUFFICES ASSUME TypeOK, LockDiscipline, [Next]_vars PROVE LockDiscipline'
    OBVIOUS
<1> USE BookingAssumption DEF TypeOK, LockDiscipline, InTx, sessionVars, handlerVars
<1>1. ASSUME NEW s \in Session, NEW t \in Slot, ChooseSlot(s, t)
      PROVE  LockDiscipline'
    BY <1>1 DEF ChooseSlot, NoSlotReply, ShowSlotsAgain
<1>2. ASSUME NEW s \in Session, LockSlot(s)
      PROVE  LockDiscipline'
    BY <1>2 DEF LockSlot
<1>3. ASSUME NEW s \in Session, NEW next \in {"awaiting", "full"},
             pc[s] \in InTx, Rollback(s, next)
      PROVE  LockDiscipline'
    BY <1>3 DEF Rollback
<1>4. ASSUME NEW s \in Session, CountSeats(s)
      PROVE  LockDiscipline'
    BY <1>3, <1>4 DEF CountSeats
<1>5. ASSUME NEW s \in Session, CheckCpf(s)
      PROVE  LockDiscipline'
    BY <1>3, <1>5 DEF CheckCpf
<1>6. ASSUME NEW s \in Session, InsertAppointment(s)
      PROVE  LockDiscipline'
    BY <1>6 DEF InsertAppointment
<1>7. ASSUME NEW s \in Session, FinishSession(s)
      PROVE  LockDiscipline'
    BY <1>3, <1>7 DEF FinishSession
<1>8. ASSUME NEW s \in Session, Commit(s)
      PROVE  LockDiscipline'
    BY <1>8 DEF Commit
<1>9. ASSUME NEW s \in Session, FailBooking(s)
      PROVE  LockDiscipline'
    BY <1>3, <1>9 DEF FailBooking
<1>10. ASSUME NEW s \in Session, AfterSlotFull(s)
       PROVE  LockDiscipline'
    BY <1>10 DEF AfterSlotFull, NoSlotReply, ShowSlotsAgain
<1>11. ASSUME NEW s \in Session, Abandon(s) \/ GrowIdle(s)
       PROVE  LockDiscipline'
    BY <1>11 DEF Abandon, GrowIdle
<1>12. ASSUME NEW s \in Session, NEW t \in Slot,
              Claim(s, t) \/ Attended(s, t) \/ NoShow(s, t)
       PROVE  LockDiscipline'
    BY <1>12, StaffMoves
<1>13. ASSUME NEW t \in Slot, Tick(t)
       PROVE  LockDiscipline'
    BY <1>13 DEF Tick
<1>14. CASE UNCHANGED vars
    BY <1>14 DEF vars
<1> QED
    BY <1>1, <1>2, <1>4, <1>5, <1>6, <1>7, <1>8, <1>9, <1>10, <1>11, <1>12,
       <1>13, <1>14 DEF Next, Advance

-----------------------------------------------------------------------------
\* What a transaction read under the lock stays true until it commits.
LEMMA ReadsStep == TypeOK /\ LockDiscipline /\ ReadsStillHold /\ [Next]_vars => ReadsStillHold'
<1> SUFFICES ASSUME TypeOK, LockDiscipline, ReadsStillHold, [Next]_vars PROVE ReadsStillHold'
    OBVIOUS
<1> USE DEF TypeOK, ReadsStillHold, InTx, sessionVars, handlerVars
<1>1. ASSUME NEW s \in Session, NEW t \in Slot, ChooseSlot(s, t)
      PROVE  ReadsStillHold'
    BY <1>1, ReadsUnmoved DEF ChooseSlot, NoSlotReply, ShowSlotsAgain
<1>2. ASSUME NEW s \in Session, LockSlot(s)
      PROVE  ReadsStillHold'
    BY <1>2, ReadsUnmoved DEF LockSlot
<1>3. ASSUME NEW s \in Session, CountSeats(s)
      PROVE  ReadsStillHold'
    BY <1>3, ReadsUnmoved DEF CountSeats, Rollback
<1>4. ASSUME NEW s \in Session, CheckCpf(s)
      PROVE  ReadsStillHold'
    BY <1>4, ReadsUnmoved DEF CheckCpf, Rollback
<1>5. ASSUME NEW s \in Session, InsertAppointment(s)
      PROVE  ReadsStillHold'
    BY <1>5, ReadsUnmoved DEF InsertAppointment
<1>6. ASSUME NEW s \in Session, FinishSession(s)
      PROVE  ReadsStillHold'
    BY <1>6, ReadsUnmoved DEF FinishSession, Rollback
<1>7. ASSUME NEW s \in Session, FailBooking(s)
      PROVE  ReadsStillHold'
    BY <1>7, ReadsUnmoved DEF FailBooking, Rollback
<1>8. ASSUME NEW s \in Session, AfterSlotFull(s)
      PROVE  ReadsStillHold'
    BY <1>8, ReadsUnmoved DEF AfterSlotFull, NoSlotReply, ShowSlotsAgain
<1>9. ASSUME NEW s \in Session, Abandon(s) \/ GrowIdle(s)
      PROVE  ReadsStillHold'
    BY <1>9, ReadsUnmoved DEF Abandon, GrowIdle, RowLocked
<1>10. ASSUME NEW s \in Session, Commit(s)
       PROVE  ReadsStillHold'
  <2>1. \A x \in Session : x # s /\ pc[x] \in InTx => want[x] # want[s]
    BY <1>10 DEF Commit, LockDiscipline
  <2>2. \A x \in Session : x # s /\ pc[x] \in InTx =>
            ActiveAt(want[x])' = ActiveAt(want[x]) /\ draft' = draft
    BY <1>10, <2>1, CommitAdds DEF Commit
  <2>3. \A x \in Session : x # s /\ pc[x] \in InTx =>
            /\ SlotIsFull(want[x])' = SlotIsFull(want[x])
            /\ CpfTaken(draft[x], want[x])' = CpfTaken(draft[x], want[x])
    BY <2>2 DEF SlotIsFull, CpfTaken
  <2> QED
    BY <1>10, <2>3 DEF Commit
<1>11. ASSUME NEW s \in Session, NEW t \in Slot,
              Claim(s, t) \/ Attended(s, t) \/ NoShow(s, t)
       PROVE  ReadsStillHold'
    BY <1>11, StaffMoves, StaffShrinks
<1>12. ASSUME NEW t \in Slot, Tick(t)
       PROVE  ReadsStillHold'
    BY <1>12, ReadsUnmoved DEF Tick
<1>13. CASE UNCHANGED vars
    BY <1>13, ReadsUnmoved DEF vars
<1> QED
    BY <1>1, <1>2, <1>3, <1>4, <1>5, <1>6, <1>7, <1>8, <1>9, <1>10, <1>11, <1>12, <1>13
    DEF Next, Advance

\* A conversation that closed as SCHEDULED has its one appointment.
LEMMA BookedStep == TypeOK /\ ReadsStillHold /\ BookedOnce /\ [Next]_vars => BookedOnce'
<1> SUFFICES ASSUME TypeOK, ReadsStillHold, BookedOnce, [Next]_vars PROVE BookedOnce'
    OBVIOUS
<1> USE DEF TypeOK, ReadsStillHold, BookedOnce, InTx, sessionVars, handlerVars
<1>1. ASSUME NEW s \in Session, NEW t \in Slot, ChooseSlot(s, t)
      PROVE  BookedOnce'
    BY <1>1 DEF ChooseSlot, NoSlotReply, ShowSlotsAgain
<1>2. ASSUME NEW s \in Session, LockSlot(s)
      PROVE  BookedOnce'
    BY <1>2 DEF LockSlot
<1>3. ASSUME NEW s \in Session, CountSeats(s)
      PROVE  BookedOnce'
    BY <1>3 DEF CountSeats, Rollback
<1>4. ASSUME NEW s \in Session, CheckCpf(s)
      PROVE  BookedOnce'
    BY <1>4 DEF CheckCpf, Rollback
<1>5. ASSUME NEW s \in Session, InsertAppointment(s)
      PROVE  BookedOnce'
    BY <1>5 DEF InsertAppointment
<1>6. ASSUME NEW s \in Session, FinishSession(s)
      PROVE  BookedOnce'
    BY <1>6 DEF FinishSession, Rollback
<1>7. ASSUME NEW s \in Session, FailBooking(s)
      PROVE  BookedOnce'
    BY <1>7 DEF FailBooking, Rollback
<1>8. ASSUME NEW s \in Session, AfterSlotFull(s)
      PROVE  BookedOnce'
    BY <1>8 DEF AfterSlotFull, NoSlotReply, ShowSlotsAgain
<1>9. ASSUME NEW s \in Session, Abandon(s) \/ GrowIdle(s)
      PROVE  BookedOnce'
    BY <1>9 DEF Abandon, GrowIdle, RowLocked
<1>10. ASSUME NEW s \in Session, Commit(s)
       PROVE  BookedOnce'
    BY <1>10 DEF Commit
<1>11. ASSUME NEW s \in Session, NEW t \in Slot,
              Claim(s, t) \/ Attended(s, t) \/ NoShow(s, t)
       PROVE  BookedOnce'
    BY <1>11, StaffMoves
<1>12. ASSUME NEW t \in Slot, Tick(t)
       PROVE  BookedOnce'
    BY <1>12 DEF Tick
<1>13. CASE UNCHANGED vars
    BY <1>13 DEF vars
<1> QED
    BY <1>1, <1>2, <1>3, <1>4, <1>5, <1>6, <1>7, <1>8, <1>9, <1>10, <1>11, <1>12, <1>13
    DEF Next, Advance

\* A seat is only taken by a transaction that counted a free one.
LEMMA SeatsStep ==
    TypeOK /\ ReadsStillHold /\ SeatsRespected /\ [Next]_vars => SeatsRespected'
<1> SUFFICES ASSUME TypeOK, ReadsStillHold, SeatsRespected, [Next]_vars, NEW t \in Slot
             PROVE  Cardinality(ActiveAt(t)') <= Seats
    BY DEF SeatsRespected
<1>1. Cardinality(ActiveAt(t)) <= Seats
    BY DEF SeatsRespected
<1>2. CASE UNCHANGED <<status, draft>>
    BY <1>1, <1>2, ReadsUnmoved
<1>3. ASSUME NEW s \in Session, Commit(s)
      PROVE  Cardinality(ActiveAt(t)') <= Seats
  <2>1. CASE t = want[s]
    <3>1. Cardinality(ActiveAt(t)) < Seats
        BY <1>3, <2>1, ActiveCounted, BookingAssumption
        DEF Commit, ReadsStillHold, SlotIsFull, InTx
    <3>2. Cardinality(ActiveAt(t) \cup {s}) <= Cardinality(ActiveAt(t)) + 1
        BY ActiveCounted, FS_AddElement
    <3>3. IsFiniteSet(ActiveAt(t) \cup {s})
        BY ActiveCounted, FS_AddElement
    <3>4. Cardinality(ActiveAt(t) \cup {s}) \in Nat
        BY <3>3, FS_CardinalityType
    <3>5. Cardinality(ActiveAt(t) \cup {s}) <= Seats
        BY <3>1, <3>2, <3>4, ActiveCounted, BookingAssumption
    <3> QED
        BY <1>3, <2>1, <3>5, CommitAdds
  <2>2. CASE t # want[s]
    BY <1>1, <1>3, <2>2, CommitAdds
  <2> QED
    BY <2>1, <2>2
<1>4. ASSUME NEW s \in Session, NEW u \in Slot,
             Claim(s, u) \/ Attended(s, u) \/ NoShow(s, u)
      PROVE  Cardinality(ActiveAt(t)') <= Seats
  <2>1. ActiveAt(t)' \in SUBSET ActiveAt(t)
    BY <1>4, StaffShrinks
  <2>2. /\ Cardinality(ActiveAt(t)') <= Cardinality(ActiveAt(t))
        /\ Cardinality(ActiveAt(t)') \in Nat
    BY <2>1, ActiveCounted, FS_Subset, FS_CardinalityType
  <2> QED
    BY <1>1, <2>2, ActiveCounted, BookingAssumption
<1> QED
    BY <1>2, <1>3, <1>4, OnlyCommitAndStaffWrite

\* A holder gets an appointment only where none of theirs is open.
LEMMA CpfStep ==
    TypeOK /\ ReadsStillHold /\ OneActivePerCpf /\ [Next]_vars => OneActivePerCpf'
<1> SUFFICES ASSUME TypeOK, ReadsStillHold, OneActivePerCpf, [Next]_vars
             PROVE  OneActivePerCpf'
    OBVIOUS
<1>1. CASE UNCHANGED <<status, draft>>
    BY <1>1, ReadsUnmoved DEF OneActivePerCpf
<1>2. ASSUME NEW s \in Session, Commit(s)
      PROVE  OneActivePerCpf'
  <2>1. ~CpfTaken(draft[s], want[s])
    BY <1>2 DEF Commit, ReadsStillHold, InTx
  <2>2. \A t \in Slot : ActiveAt(t)' \in SUBSET (ActiveAt(t) \cup {s})
    BY <1>2, CommitAdds
  <2>3. \A t \in Slot : t # want[s] => ActiveAt(t)' = ActiveAt(t)
    BY <1>2, CommitAdds
  <2>4. draft' = draft
    BY <1>2 DEF Commit
  <2> QED
    BY <2>1, <2>2, <2>3, <2>4 DEF OneActivePerCpf, CpfTaken
<1>3. ASSUME NEW s \in Session, NEW u \in Slot,
             Claim(s, u) \/ Attended(s, u) \/ NoShow(s, u)
      PROVE  OneActivePerCpf'
  <2>1. \A t \in Slot : ActiveAt(t)' \in SUBSET ActiveAt(t)
    BY <1>3, StaffShrinks
  <2> QED
    BY <1>3, <2>1, StaffMoves DEF OneActivePerCpf
<1> QED
    BY <1>1, <1>2, <1>3, OnlyCommitAndStaffWrite

-----------------------------------------------------------------------------
\* The booking module keeps its types and its inductive invariant: the locks
\* of schedule.repository.ts hold what each transaction read until it commits.
THEOREM Invariance == Spec => []IInv
<1>1. Init => IInv
  <2> SUFFICES ASSUME Init PROVE IInv
    OBVIOUS
  <2>1. TypeOK
    BY DEF Init, TypeOK, Outcome, Status, Reply, Phase, Handler, InTx
  <2>2. LockDiscipline /\ ReadsStillHold /\ BookedOnce
    BY BookingAssumption
    DEF Init, LockDiscipline, ReadsStillHold, BookedOnce, InTx
  <2>3. \A t \in Slot : ActiveAt(t) = {}
    BY DEF Init, ActiveAt, Active
  <2>4. SeatsRespected /\ OneActivePerCpf
    BY <2>3, FS_EmptySet, BookingAssumption DEF SeatsRespected, OneActivePerCpf
  <2> QED
    BY <2>1, <2>2, <2>4 DEF IInv
<1>2. IInv /\ [Next]_vars => IInv'
    BY TypeStep, LockStep, ReadsStep, BookedStep, SeatsStep, CpfStep DEF IInv
<1> QED
    BY <1>1, <1>2, PTL DEF Spec

\* countActiveInSlot under the advisory lock never lets a slot overflow.
THEOREM SeatsTheorem == Spec => []SeatsRespected
BY Invariance, PTL DEF IInv

\* hasActiveAppointmentForCpf under the same lock keeps holders apart.
THEOREM CpfTheorem == Spec => []OneActivePerCpf
BY Invariance, PTL DEF IInv

\* The outcome of a conversation and its appointment are one commit, even
\* against the sweep of abandoned sessions.
THEOREM OutcomeTheorem == Spec => []ScheduledIffBooked
<1>1. IInv => ScheduledIffBooked
  <2> SUFFICES ASSUME IInv, NEW s \in Session
               PROVE  Cardinality({t \in Slot : status[s][t] # "NONE"})
                          = IF outcome[s] = "SCHEDULED" THEN 1 ELSE 0
    BY DEF ScheduledIffBooked
  <2>1. CASE outcome[s] = "SCHEDULED"
    <3>1. {t \in Slot : status[s][t] # "NONE"} = {want[s]}
        BY <2>1 DEF IInv, BookedOnce, TypeOK
    <3> QED
        BY <2>1, <3>1, FS_Singleton
  <2>2. CASE outcome[s] # "SCHEDULED"
    <3>1. {t \in Slot : status[s][t] # "NONE"} = {}
        BY <2>2 DEF IInv, BookedOnce
    <3> QED
        BY <2>2, <3>1, FS_EmptySet
  <2> QED
    BY <2>1, <2>2
<1> QED
    BY <1>1, Invariance, PTL

\* The confirmation is sent after the commit, never before it.
THEOREM ConfirmationTheorem == Spec => []ConfirmedIsBooked
<1>1. IInv => ConfirmedIsBooked
    BY DEF IInv, TypeOK, BookedOnce, ConfirmedIsBooked
<1> QED
    BY <1>1, Invariance, PTL

-----------------------------------------------------------------------------
\* The transactional code implements the ledger: a COMMIT is a booking, an
\* abandonment or a "no slots" notice is a closing, a staff action moves one
\* appointment forward, and every other step is invisible.
THEOREM Refinement == Spec => ImplementsLedger
<1>1. Init => Ledger!Init
    BY DEF Init, Ledger!Init
<1>2. IInv /\ [Next]_vars => [Ledger!Next]_(Ledger!vars)
  <2> SUFFICES ASSUME IInv, [Next]_vars PROVE [Ledger!Next]_(Ledger!vars)
    OBVIOUS
  <2> USE DEF IInv, Ledger!vars, sessionVars, handlerVars
  <2>1. ASSUME NEW s \in Session, outcome[s] = "IN_PROGRESS",
               outcome' = outcome \/ (\E o \in {"NO_SLOT", "ABANDONED"} :
                                          outcome' = [outcome EXCEPT ![s] = o]),
               UNCHANGED <<draft, status>>
        PROVE  [Ledger!Next]_(Ledger!vars)
    BY <2>1 DEF Ledger!Next, Ledger!Close
  <2>2. ASSUME NEW s \in Session, NEW t \in Slot, ChooseSlot(s, t)
        PROVE  [Ledger!Next]_(Ledger!vars)
    BY <2>1, <2>2 DEF ChooseSlot, NoSlotReply, ShowSlotsAgain
  <2>3. ASSUME NEW s \in Session, AfterSlotFull(s)
        PROVE  [Ledger!Next]_(Ledger!vars)
    BY <2>1, <2>3 DEF AfterSlotFull, NoSlotReply, ShowSlotsAgain
  <2>4. ASSUME NEW s \in Session, Abandon(s)
        PROVE  [Ledger!Next]_(Ledger!vars)
    BY <2>1, <2>4 DEF Abandon
  <2>5. ASSUME NEW s \in Session, Commit(s)
        PROVE  [Ledger!Next]_(Ledger!vars)
    <3>1. /\ outcome[s] = "IN_PROGRESS"
          /\ ~SlotIsFull(want[s])
          /\ ~CpfTaken(draft[s], want[s])
        BY <2>5 DEF Commit, ReadsStillHold, InTx
    <3>2. status[s][want[s]] = "NONE" /\ want[s] \in Slot
        BY <3>1 DEF BookedOnce, TypeOK
    <3>3. Cardinality(ActiveAt(want[s])) < Seats
        BY <3>1, <3>2, ActiveCounted, BookingAssumption DEF SlotIsFull
    <3>4. Ledger!ActiveAt(want[s]) = ActiveAt(want[s])
        BY DEF Ledger!ActiveAt, ActiveAt, Ledger!Active, Active
    <3>5. ~Ledger!CpfTaken(draft[s], want[s])
        BY <3>1, <3>4 DEF Ledger!CpfTaken, CpfTaken
    <3>6. /\ outcome' = [outcome EXCEPT ![s] = "SCHEDULED"]
          /\ status' = [status EXCEPT ![s][want[s]] = "PENDING"]
          /\ UNCHANGED draft
        BY <2>5 DEF Commit
    <3>7. Ledger!Book(s, want[s])
        BY <3>1, <3>2, <3>3, <3>4, <3>5, <3>6 DEF Ledger!Book, Ledger!Cardinality, Cardinality
    <3> QED
        BY <3>2, <3>7 DEF Ledger!Next
  <2>6. ASSUME NEW s \in Session, NEW t \in Slot,
               Claim(s, t) \/ Attended(s, t) \/ NoShow(s, t)
        PROVE  [Ledger!Next]_(Ledger!vars)
    <3> USE DEF SetStatus, Active, Ledger!Advance, Ledger!Active
    <3>1. CASE Claim(s, t)
        BY <3>1 DEF Claim, Ledger!Next
    <3>2. CASE Attended(s, t)
        BY <3>2 DEF Attended, Ledger!Next
    <3>3. CASE NoShow(s, t)
        BY <3>3 DEF NoShow, Ledger!Next
    <3> QED
        BY <2>6, <3>1, <3>2, <3>3
  <2>7. ASSUME NEW s \in Session,
               LockSlot(s) \/ CountSeats(s) \/ CheckCpf(s) \/ InsertAppointment(s)
               \/ FinishSession(s) \/ FailBooking(s) \/ GrowIdle(s)
        PROVE  [Ledger!Next]_(Ledger!vars)
    BY <2>7 DEF LockSlot, CountSeats, CheckCpf, InsertAppointment, FinishSession,
                FailBooking, GrowIdle, Rollback
  <2>8. ASSUME NEW t \in Slot, Tick(t)
        PROVE  [Ledger!Next]_(Ledger!vars)
    BY <2>8 DEF Tick
  <2>9. CASE UNCHANGED vars
    BY <2>9 DEF vars
  <2> QED
    BY <2>2, <2>3, <2>4, <2>5, <2>6, <2>7, <2>8, <2>9 DEF Next, Advance
<1> QED
    BY <1>1, <1>2, Invariance, PTL DEF Spec, ImplementsLedger, Ledger!Spec

-----------------------------------------------------------------------------
(* Induction and recursion, over sets.                                     *)

\* A set of naturals that is not empty has a least member.
LEMMA LeastNat ==
    ASSUME NEW T, T \subseteq Nat, T # {}
    PROVE  \E n \in T : \A m \in T : n <= m
<1> DEFINE R == OpToRel(<, Nat)
<1>1. IsWellFoundedOn(R, Nat)
  BY NatLessThanWellFounded
<1> HIDE DEF R
<1>2. IsWellFoundedOn(R, T)
  BY <1>1, IsWellFoundedOnSubset
<1>3. PICK n \in T : \A m \in T : ~(<<m, n>> \in R)
  BY <1>2, WFMin
<1>4. \A m \in T : m < n => <<m, n>> \in R
  BY DEF R, OpToRel
<1>5. \A m \in T : m \in Nat /\ n \in Nat /\ ~(m < n)
  BY <1>3, <1>4
<1>6. \A m \in T : n <= m
  BY <1>5
<1> QED BY <1>6

\* Induction on the naturals, over a set that holds what is to be shown.
LEMMA NatInd ==
    ASSUME NEW S, 0 \in S, \A n \in Nat : n \in S => n + 1 \in S
    PROVE  Nat \subseteq S
<1> DEFINE T == Nat \ S
<1> SUFFICES ASSUME T # {} PROVE FALSE
  OBVIOUS
<1>1. PICK n \in T : \A m \in T : n <= m
  BY LeastNat
<1>2. n # 0 /\ n - 1 \in Nat /\ n - 1 \notin T
  BY <1>1
<1>3. n \in S
  BY <1>2
<1> QED BY <1>1, <1>3

\* Induction along a rank: what holds of d when it holds of all of lower rank
\* holds of every d.
LEMMA RankInd ==
    ASSUME NEW D, NEW rank \in [D -> Nat], NEW P,
           \A d \in D : (\A e \in D : rank[e] < rank[d] => e \in P) => d \in P
    PROVE  D \subseteq P
<1> DEFINE T == {rank[d] : d \in D \ P}
<1> SUFFICES ASSUME D \ P # {} PROVE FALSE
  OBVIOUS
<1>1. T \subseteq Nat /\ T # {}
  OBVIOUS
<1>2. PICK n \in T : \A m \in T : n <= m
  BY <1>1, LeastNat
<1>3. PICK d \in D \ P : n = rank[d]
  BY <1>2
<1>4. ASSUME NEW e \in D, rank[e] < rank[d] PROVE e \in P
  <2>1. rank[e] \in Nat /\ rank[d] \in Nat
    OBVIOUS
  <2>2. ~(n <= rank[e])
    BY <2>1, <1>3, <1>4
  <2> QED BY <2>2, <1>2
<1> QED BY <1>3, <1>4

\* A function may be defined by one value of itself at a place of lower rank.
Recurs(D, V, bound, rank, next, stop, base, cons) ==
    /\ bound \in Nat /\ rank \in [D -> Nat] /\ next \in [D -> D]
    /\ base \in [D -> V] /\ cons \in [D \X V -> V]
    /\ \A d \in D : rank[d] < bound
    /\ \A d \in D \ stop : rank[next[d]] < rank[d]

\* A recursion that goes down a rank until it stops has a solution.
LEMMA Recursion ==
    ASSUME NEW D, NEW V, NEW bound, NEW rank, NEW next, NEW stop, NEW base, NEW cons,
           Recurs(D, V, bound, rank, next, stop, base, cons)
    PROVE  \E f \in [D -> V] :
               \A d \in D : f[d] = IF d \in stop THEN base[d] ELSE cons[<<d, f[next[d]]>>]
<1> USE DEF Recurs
<1> DEFINE Val(f, d) == IF d \in stop THEN base[d] ELSE cons[<<d, f[next[d]]>>]
           S == {k \in Nat : \E f \in [D -> V] : \A d \in D : rank[d] < k => f[d] = Val(f, d)}
<1>1. 0 \in S
  <2>1. \A d \in D : ~(rank[d] < 0)
    OBVIOUS
  <2> QED BY <2>1
<1>2. ASSUME NEW k \in Nat, k \in S PROVE k + 1 \in S
  <2>1. PICK f \in [D -> V] : \A d \in D : rank[d] < k => f[d] = Val(f, d)
    BY <1>2
  <2> DEFINE h == [d \in D |-> IF rank[d] = k THEN Val(f, d) ELSE f[d]]
  <2>2. \A d \in D : Val(f, d) \in V
    OBVIOUS
  <2>3. h \in [D -> V]
    BY <2>2
  <2>4. \A d \in D : rank[d] < k => h[d] = f[d]
    OBVIOUS
  <2>5. ASSUME NEW d \in D, rank[d] < k + 1 PROVE h[d] = Val(h, d)
    <3>1. rank[d] \in Nat /\ (rank[d] = k \/ rank[d] < k)
      BY <2>5
    <3>2. h[d] = Val(f, d)
      BY <3>1, <2>1
    <3>3. d \notin stop => rank[next[d]] < k /\ next[d] \in D
      <4>1. next[d] \in D /\ rank[next[d]] \in Nat
        OBVIOUS
      <4> QED BY <3>1, <4>1
    <3>4. d \notin stop => h[next[d]] = f[next[d]]
      BY <3>3, <2>4
    <3> HIDE DEF h
    <3> QED BY <3>2, <3>4
  <2> HIDE DEF h, Val
  <2> QED BY <2>3, <2>5
<1>3. bound \in S
  <2> HIDE DEF S
  <2> QED BY <1>1, <1>2, NatInd
<1> QED BY <1>3

\* Induction over an interval of naturals.
LEMMA UpInd ==
    ASSUME NEW m \in Nat, NEW n \in Nat, NEW S, m \in S,
           \A i \in m..n : i # n /\ i \in S => i + 1 \in S
    PROVE  m..n \subseteq S
<1> DEFINE T == {k \in Nat : m + k <= n => m + k \in S}
<1>1. 0 \in T
  OBVIOUS
<1>2. \A k \in Nat : k \in T => k + 1 \in T
  <2> SUFFICES ASSUME NEW k \in Nat, k \in T, m + (k + 1) <= n PROVE m + (k + 1) \in S
    OBVIOUS
  <2>1. m + k \in m..n /\ m + k # n /\ m + k \in S /\ (m + k) + 1 = m + (k + 1)
    OBVIOUS
  <2> QED BY <2>1
<1>3. Nat \subseteq T
  <2> HIDE DEF T
  <2> QED BY <1>1, <1>2, NatInd
<1>4. ASSUME NEW i \in m..n PROVE i \in S
  <2>1. i - m \in Nat /\ m + (i - m) = i
    OBVIOUS
  <2>2. i - m \in T
    BY <1>3, <2>1
  <2> QED BY <2>1, <2>2
<1> QED BY <1>4

\* A function over an interval may be defined by its value one place before.
Climbs(V, m, n, first, cons) ==
    m \in Nat /\ n \in Nat /\ m <= n /\ first \in V /\ cons \in [(m..n) \X V -> V]

\* A value computed from the one before it exists all along an interval.
LEMMA Upward ==
    ASSUME NEW V, NEW m, NEW n, NEW first, NEW cons, Climbs(V, m, n, first, cons)
    PROVE  \E f \in [m..n -> V] :
               \A i \in m..n : f[i] = IF i = m THEN first ELSE cons[<<i, f[i - 1]>>]
<1> USE DEF Climbs
<1> DEFINE D == m..n
           bound == n - m + 1
           rank == [i \in D |-> i - m]
           next == [i \in D |-> IF i = m THEN m ELSE i - 1]
           base == [i \in D |-> first]
<1>1. /\ bound \in Nat /\ rank \in [D -> Nat] /\ next \in [D -> D] /\ base \in [D -> V]
      /\ \A i \in D : rank[i] < bound
      /\ \A i \in D \ {m} : rank[next[i]] < rank[i]
      /\ \A i \in D : i # m => next[i] = i - 1
      /\ \A i \in D : base[i] = first
      /\ cons \in [D \X V -> V]
  OBVIOUS
<1> HIDE DEF D, bound, rank, next, base
<1>2. Recurs(D, V, bound, rank, next, {m}, base, cons)
  BY <1>1 DEF Recurs
<1>3. PICK f \in [D -> V] : \A i \in D : f[i] = IF i \in {m} THEN base[i] ELSE cons[<<i, f[next[i]]>>]
  BY <1>2, Recursion
<1>4. \A i \in D : f[i] = IF i = m THEN first ELSE cons[<<i, f[i - 1]>>]
  <2> SUFFICES ASSUME NEW i \in D PROVE f[i] = IF i = m THEN first ELSE cons[<<i, f[i - 1]>>]
    OBVIOUS
  <2>1. CASE i = m
    BY <1>1, <1>3, <2>1
  <2>2. CASE i # m
    BY <1>1, <1>3, <2>2
  <2> QED BY <2>1, <2>2
<1> QED BY <1>4 DEF D

\* The same for an interval that starts at 1.
LEMMA UpFromOne ==
    ASSUME NEW V, NEW n, NEW first, NEW cons, Climbs(V, 1, n, first, cons)
    PROVE  \E f \in [1..n -> V] :
               \A i \in 1..n : f[i] = IF i = 1 THEN first ELSE cons[<<i, f[i - 1]>>]
BY Upward

-----------------------------------------------------------------------------
(* What a filter keeps                                                     *)

Increasing(s) == \A i, j \in 1..Len(s) : i < j => s[i] < s[j]

\* e leads from the elements of t to those of the first n of s that are in K.
Leads(e, t, s, K, n) ==
    /\ e \in [1..Len(t) -> 1..n]
    /\ \A i \in 1..Len(t) : t[i] = s[e[i]] /\ s[e[i]] \in K
    /\ \A i, j \in 1..Len(t) : i < j => e[i] < e[j]
    /\ \A k \in 1..n : s[k] \in K => \E i \in 1..Len(t) : e[i] = k

\* One more element read: where the elements kept come from is still known.
LEMMA LeadsOn ==
    ASSUME NEW X, NEW s \in Seq(X), NEW K, NEW n \in 1..Len(s), NEW t \in Seq(X), NEW e,
           Leads(e, t, s, K, n - 1)
    PROVE  LET u == IF s[n] \in K THEN Append(t, s[n]) ELSE t
           IN  u \in Seq(X) /\ \E g : Leads(g, u, s, K, n)
<1>1. Len(t) \in Nat /\ Len(s) \in Nat /\ n \in Nat /\ n - 1 \in Nat /\ s[n] \in X
  BY LenProperties, ElementOfSeq
<1>2. CASE s[n] \in K
  <2> DEFINE u == Append(t, s[n])
             g == [i \in 1..(Len(t) + 1) |-> IF i = Len(t) + 1 THEN n ELSE e[i]]
  <2>1. /\ u \in Seq(X) /\ Len(u) = Len(t) + 1
        /\ \A i \in 1..Len(t) : u[i] = t[i]
        /\ u[Len(t) + 1] = s[n]
    BY <1>1, AppendProperties
  <2> HIDE DEF u
  <2>2. g \in [1..Len(u) -> 1..n]
    <3>1. \A i \in 1..Len(t) : e[i] \in 1..(n - 1)
      BY DEF Leads
    <3> QED BY <1>1, <2>1, <3>1
  <2>3. \A i \in 1..Len(u) : i \in 1..Len(t) \/ i = Len(t) + 1
    BY <1>1, <2>1
  <2>4. (\A i \in 1..Len(t) : g[i] = e[i]) /\ g[Len(t) + 1] = n
    BY <1>1
  <2> HIDE DEF g
  <2>5. \A i \in 1..Len(u) : u[i] = s[g[i]] /\ s[g[i]] \in K
    BY <1>2, <2>1, <2>3, <2>4 DEF Leads
  <2>6. ASSUME NEW i \in 1..Len(u), NEW j \in 1..Len(u), i < j PROVE g[i] < g[j]
    <3>1. i \in 1..Len(t)
      BY <1>1, <2>1, <2>6
    <3>2. g[i] = e[i] /\ e[i] \in 1..(n - 1)
      BY <2>4, <3>1 DEF Leads
    <3>3. CASE j = Len(t) + 1
      BY <1>1, <2>4, <3>2, <3>3
    <3>4. CASE j \in 1..Len(t)
      BY <2>4, <2>6, <3>1, <3>4 DEF Leads
    <3> QED BY <2>3, <3>3, <3>4
  <2>7. ASSUME NEW k \in 1..n, s[k] \in K PROVE \E i \in 1..Len(u) : g[i] = k
    <3>1. CASE k = n
      <4>1. Len(t) + 1 \in 1..Len(u)
        BY <1>1, <2>1
      <4> QED BY <2>4, <3>1, <4>1
    <3>2. CASE k # n
      <4>1. k \in 1..(n - 1)
        BY <1>1, <3>2
      <4>2. PICK i \in 1..Len(t) : e[i] = k
        BY <2>7, <4>1 DEF Leads
      <4>3. i \in 1..Len(u)
        BY <1>1, <2>1
      <4> QED BY <2>4, <4>2, <4>3
    <3> QED BY <3>1, <3>2
  <2>8. Leads(g, u, s, K, n)
    BY <2>2, <2>5, <2>6, <2>7 DEF Leads
  <2> QED BY <1>2, <2>1, <2>8 DEF u
<1>3. CASE s[n] \notin K
  <2>1. e \in [1..Len(t) -> 1..n]
    <3>1. \A i \in 1..Len(t) : e[i] \in 1..n
      BY <1>1 DEF Leads
    <3>2. e = [i \in 1..Len(t) |-> e[i]]
      BY DEF Leads
    <3> QED BY <3>1, <3>2
  <2>2. \A k \in 1..n : k # n => k \in 1..(n - 1)
    BY <1>1
  <2>3. Leads(e, t, s, K, n)
    BY <1>3, <2>1, <2>2 DEF Leads
  <2> QED BY <1>3, <2>3
<1> QED BY <1>2, <1>3

\* Every element kept comes from a place of the sequence, and in its order.
LEMMA KeptLeads ==
    ASSUME NEW X, NEW s \in Seq(X), NEW K
    PROVE  Kept(s, K) \in Seq(X) /\ \E e : Leads(e, Kept(s, K), s, K, Len(s))
<1> DEFINE n == Len(s)
           Val(f, i) == IF i = 0 THEN <<>>
                        ELSE IF s[i] \in K THEN Append(f[i - 1], s[i]) ELSE f[i - 1]
           cons == [p \in (0..n) \X Seq(X) |->
                        IF p[1] # 0 /\ s[p[1]] \in K THEN Append(p[2], s[p[1]]) ELSE p[2]]
           h == CHOOSE g : g = [i \in 0..n |-> Val(g, i)]
<1>1. n \in Nat /\ 0 \in Nat /\ 0 <= n /\ <<>> \in Seq(X)
  BY LenProperties, EmptySeq
<1>2. cons \in [(0..n) \X Seq(X) -> Seq(X)]
  <2>1. ASSUME NEW i \in 0..n, NEW t \in Seq(X), i # 0 PROVE Append(t, s[i]) \in Seq(X)
    <3>1. i \in 1..n
      BY <1>1, <2>1
    <3>2. s[i] \in X
      BY <3>1, ElementOfSeq
    <3> QED BY <3>2, AppendProperties
  <2> QED BY <2>1
<1>3. \E f \in [0..n -> Seq(X)] : \A i \in 0..n : f[i] = IF i = 0 THEN <<>> ELSE cons[<<i, f[i - 1]>>]
  <2> DEFINE V == Seq(X)
             empty == <<>>
  <2>1. empty \in V /\ cons \in [(0..n) \X V -> V]
    BY <1>1, <1>2
  <2> HIDE DEF n, cons, V, empty
  <2>2. \E f \in [0..n -> V] : \A i \in 0..n : f[i] = IF i = 0 THEN empty ELSE cons[<<i, f[i - 1]>>]
    <3>1. Climbs(V, 0, n, empty, cons)
      BY <1>1, <2>1 DEF Climbs
    <3> QED BY <3>1, Upward
  <2> QED BY <2>2 DEF V, empty
<1>4. PICK f \in [0..n -> Seq(X)] : \A i \in 0..n : f[i] = IF i = 0 THEN <<>> ELSE cons[<<i, f[i - 1]>>]
  BY <1>3
<1>5. ASSUME NEW i \in 0..n PROVE f[i] = Val(f, i)
  <2>1. CASE i = 0
    BY <1>4, <2>1
  <2>2. CASE i # 0
    <3>1. i - 1 \in 0..n
      BY <1>1, <2>2
    <3>2. f[i - 1] \in Seq(X) /\ f[i] = cons[<<i, f[i - 1]>>]
      BY <1>4, <2>2, <3>1
    <3>3. cons[<<i, f[i - 1]>>] = IF s[i] \in K THEN Append(f[i - 1], s[i]) ELSE f[i - 1]
      BY <2>2, <3>2
    <3> QED BY <2>2, <3>2, <3>3
  <2> QED BY <2>1, <2>2
<1>6. f = [i \in 0..n |-> Val(f, i)]
  BY <1>5
<1>7. h = [i \in 0..n |-> Val(h, i)]
  BY <1>6
<1>8. Kept(s, K) = h[n]
  BY DEF Kept
<1>9. \A i \in 0..n : h[i] = Val(h, i)
  <2> HIDE DEF h, Val
  <2> QED BY <1>7
<1> HIDE DEF h
<1> DEFINE S == {i \in 0..n : h[i] \in Seq(X) /\ \E e : Leads(e, h[i], s, K, i)}
<1>10. 0 \in S
  <2>1. h[0] = <<>>
    BY <1>1, <1>9
  <2>2. Leads(<<>>, <<>>, s, K, 0)
    BY DEF Leads
  <2> QED BY <1>1, <2>1, <2>2
<1>11. \A i \in 0..n : i # n /\ i \in S => i + 1 \in S
  <2> SUFFICES ASSUME NEW i \in 0..n, i # n, i \in S PROVE i + 1 \in S
    OBVIOUS
  <2>1. i + 1 \in 1..n /\ (i + 1) - 1 = i /\ i + 1 \in 0..n /\ i + 1 # 0
    BY <1>1
  <2>2. PICK e : Leads(e, h[i], s, K, (i + 1) - 1)
    BY <2>1
  <2>3. h[i] \in Seq(X)
    OBVIOUS
  <2>4. h[i + 1] = IF s[i + 1] \in K THEN Append(h[i], s[i + 1]) ELSE h[i]
    BY <1>9, <2>1
  <2> DEFINE k == i + 1
  <2>5. k \in 1..Len(s) /\ Leads(e, h[i], s, K, k - 1)
    BY <2>1, <2>2
  <2>6. h[k] = IF s[k] \in K THEN Append(h[i], s[k]) ELSE h[i]
    BY <2>4
  <2> HIDE DEF k
  <2>7. h[k] \in Seq(X) /\ \E g : Leads(g, h[k], s, K, k)
    BY <2>3, <2>5, <2>6, LeadsOn
  <2> QED BY <2>1, <2>7 DEF k
<1>12. 0..n \subseteq S
  <2> HIDE DEF S, n
  <2> QED BY <1>1, <1>10, <1>11, UpInd
<1>13. n \in S
  BY <1>1, <1>12
<1> QED BY <1>8, <1>13

\* Array.filter keeps exactly the elements of the set, in their order.
LEMMA KeptFacts ==
    ASSUME NEW X, NEW s \in Seq(X), NEW K
    PROVE  /\ Kept(s, K) \in Seq(X)
           /\ Range(Kept(s, K)) = Range(s) \cap K
           /\ \A i, j \in 1..Len(Kept(s, K)) : i < j =>
                 \E k, l \in 1..Len(s) : /\ k < l /\ s[k] \in K /\ s[l] \in K
                                         /\ Kept(s, K)[i] = s[k] /\ Kept(s, K)[j] = s[l]
<1> DEFINE t == Kept(s, K)
<1>1. t \in Seq(X)
  BY KeptLeads
<1>2. PICK e : Leads(e, t, s, K, Len(s))
  BY KeptLeads
<1> HIDE DEF t
<1>3. Range(t) = {t[i] : i \in 1..Len(t)} /\ Range(s) = {s[i] : i \in 1..Len(s)}
  <2>1. DOMAIN t = 1..Len(t) /\ DOMAIN s = 1..Len(s)
    BY <1>1, LenProperties
  <2> QED BY <2>1 DEF Range
<1>4. ASSUME NEW x \in Range(t) PROVE x \in Range(s) \cap K
  BY <1>2, <1>3 DEF Leads
<1>5. ASSUME NEW x \in Range(s), x \in K PROVE x \in Range(t)
  <2>1. PICK k \in 1..Len(s) : x = s[k]
    BY <1>3
  <2>2. PICK i \in 1..Len(t) : e[i] = k
    BY <1>2, <1>5, <2>1 DEF Leads
  <2>3. t[i] = x
    BY <1>2, <2>1, <2>2 DEF Leads
  <2> QED BY <1>3, <2>3
<1>6. ASSUME NEW i \in 1..Len(t), NEW j \in 1..Len(t), i < j
      PROVE  \E k, l \in 1..Len(s) : /\ k < l /\ s[k] \in K /\ s[l] \in K
                                     /\ t[i] = s[k] /\ t[j] = s[l]
  <2>1. e[i] \in 1..Len(s) /\ e[j] \in 1..Len(s) /\ e[i] < e[j]
    BY <1>2, <1>6 DEF Leads
  <2>2. t[i] = s[e[i]] /\ t[j] = s[e[j]] /\ s[e[i]] \in K /\ s[e[j]] \in K
    BY <1>2 DEF Leads
  <2> QED BY <2>1, <2>2
<1> QED BY <1>1, <1>4, <1>5, <1>6 DEF t

\* What a filter keeps of an increasing sequence is increasing.
LEMMA KeptIncreasing ==
    ASSUME NEW s \in Seq(Int), Increasing(s), NEW K
    PROVE  Increasing(Kept(s, K))
<1> DEFINE t == Kept(s, K)
<1>1. \A i, j \in 1..Len(t) : i < j =>
          \E k, l \in 1..Len(s) : /\ k < l /\ s[k] \in K /\ s[l] \in K
                                  /\ t[i] = s[k] /\ t[j] = s[l]
  BY KeptFacts
<1> HIDE DEF t
<1>2. \A i, j \in 1..Len(t) : i < j => t[i] < t[j]
  BY <1>1 DEF Increasing
<1> QED BY <1>2 DEF Increasing, t

-----------------------------------------------------------------------------
(* Sequences put together                                                  *)

\* FlattenSeq joins the sequences one after the other, from the left.
LEMMA FlattenSteps ==
    ASSUME NEW X, NEW ss \in Seq(Seq(X)), ss # <<>>
    PROVE  \E h : /\ \A i \in 1..Len(ss) : /\ h[i] \in Seq(X)
                                           /\ h[i] = IF i = 1 THEN ss[i] ELSE h[i - 1] \o ss[i]
                  /\ FlattenSeq(ss) = h[Len(ss)]
<1> DEFINE n == Len(ss)
           V == Seq(X)
           first == ss[1]
           cons == [p \in (1..n) \X V |-> p[2] \o ss[p[1]]]
           Val(f, i) == IF i = 1 THEN ss[i] ELSE f[i - 1] \o ss[i]
           h == CHOOSE g : g = [i \in 1..n |-> Val(g, i)]
<1>1. n \in Nat /\ n # 0 /\ 1 <= n
  BY LenProperties, EmptySeq
<1>2. \A i \in 1..n : ss[i] \in V
  BY ElementOfSeq
<1>3. cons \in [(1..n) \X V -> V]
  <2>1. \A i \in 1..n : \A t \in V : t \o ss[i] \in V
    BY <1>2, ConcatProperties
  <2> HIDE DEF V, n
  <2> QED BY <2>1
<1>4. \E f \in [1..n -> V] : \A i \in 1..n : f[i] = IF i = 1 THEN first ELSE cons[<<i, f[i - 1]>>]
  <2>1. first \in V
    BY <1>1, <1>2
  <2> HIDE DEF n, V, first, cons
  <2>2. Climbs(V, 1, n, first, cons)
    BY <1>1, <1>3, <2>1 DEF Climbs
  <2> HIDE DEF Val, h
  <2> QED BY <2>2, UpFromOne
<1>5. PICK f \in [1..n -> V] : \A i \in 1..n : f[i] = IF i = 1 THEN first ELSE cons[<<i, f[i - 1]>>]
  BY <1>4
<1>6. ASSUME NEW i \in 1..n PROVE f[i] = Val(f, i)
  <2>1. CASE i = 1
    BY <1>5, <2>1
  <2>2. CASE i # 1
    <3>1. i - 1 \in 1..n
      BY <1>1, <2>2
    <3>2. f[i - 1] \in V /\ f[i] = cons[<<i, f[i - 1]>>]
      BY <1>5, <2>2, <3>1
    <3> HIDE DEF V
    <3>3. cons[<<i, f[i - 1]>>] = f[i - 1] \o ss[i]
      BY <3>2
    <3> QED BY <2>2, <3>2, <3>3
  <2> QED BY <2>1, <2>2
<1>7. f = [i \in 1..n |-> Val(f, i)]
  BY <1>6
<1>8. h = [i \in 1..n |-> Val(h, i)]
  BY <1>7
<1>9. FlattenSeq(ss) = h[n]
  BY <1>1 DEF FlattenSeq
<1>10. \A i \in 1..n : h[i] = Val(h, i)
  <2> HIDE DEF h, Val
  <2> QED BY <1>8
<1> HIDE DEF h
<1> DEFINE S == {i \in 1..n : h[i] \in V}
<1>11. 1 \in S
  BY <1>1, <1>2, <1>10
<1>12. ASSUME NEW i \in 1..n, i # n, i \in S PROVE i + 1 \in S
  <2>1. i + 1 \in 1..n /\ (i + 1) - 1 = i /\ i + 1 # 1
    BY <1>1, <1>12
  <2>2. h[i + 1] = h[i] \o ss[i + 1]
    BY <1>10, <2>1
  <2>3. h[i] \in V /\ ss[i + 1] \in V
    BY <1>2, <1>12, <2>1
  <2>4. h[i] \o ss[i + 1] \in V
    BY <2>3, ConcatProperties
  <2> QED BY <2>1, <2>2, <2>4
<1>13. 1..n \subseteq S
  <2> HIDE DEF S, n
  <2> QED BY <1>1, <1>11, <1>12, UpInd
<1> QED BY <1>9, <1>10, <1>13

\* The range of a sequence is what stands at its places.
LEMMA RangeFacts ==
    ASSUME NEW X, NEW s \in Seq(X)
    PROVE  Range(s) = {s[i] : i \in 1..Len(s)} /\ Range(s) \subseteq X
<1>1. DOMAIN s = 1..Len(s)
  BY LenProperties
<1>2. Range(s) = {s[i] : i \in 1..Len(s)}
  BY <1>1 DEF Range
<1>3. \A i \in 1..Len(s) : s[i] \in X
  BY ElementOfSeq
<1> QED BY <1>2, <1>3

\* The length and the elements of two sequences joined.
LEMMA JoinFacts ==
    ASSUME NEW X, NEW s \in Seq(X), NEW t \in Seq(X)
    PROVE  /\ s \o t \in Seq(X) /\ Len(s) \in Nat /\ Len(t) \in Nat
           /\ Len(s \o t) = Len(s) + Len(t)
           /\ \A i \in 1..Len(s) : (s \o t)[i] = s[i]
           /\ \A i \in 1..Len(t) : (s \o t)[Len(s) + i] = t[i]
<1>1. Len(s) \in Nat /\ Len(t) \in Nat
  BY LenProperties
<1>2. s \o t \in Seq(X) /\ Len(s \o t) = Len(s) + Len(t)
  BY ConcatProperties
<1>3. \A i \in 1..(Len(s) + Len(t)) : (s \o t)[i] = IF i <= Len(s) THEN s[i] ELSE t[i - Len(s)]
  BY ConcatProperties
<1>4. ASSUME NEW i \in 1..Len(s) PROVE (s \o t)[i] = s[i]
  <2>1. i \in 1..(Len(s) + Len(t)) /\ i <= Len(s)
    BY <1>1
  <2> QED BY <1>3, <2>1
<1>5. ASSUME NEW i \in 1..Len(t) PROVE (s \o t)[Len(s) + i] = t[i]
  <2>1. Len(s) + i \in 1..(Len(s) + Len(t)) /\ ~(Len(s) + i <= Len(s)) /\ Len(s) + i - Len(s) = i
    BY <1>1
  <2> QED BY <1>3, <2>1
<1> QED BY <1>1, <1>2, <1>4, <1>5

\* Two increasing sequences joined are increasing when all of the first is
\* below all of the second.
LEMMA JoinIncreasing ==
    ASSUME NEW s \in Seq(Int), NEW t \in Seq(Int), Increasing(s), Increasing(t),
           \A x \in Range(s), y \in Range(t) : x < y
    PROVE  Increasing(s \o t)
<1> DEFINE u == s \o t
<1>1. /\ Len(s) \in Nat /\ Len(t) \in Nat /\ Len(u) = Len(s) + Len(t)
      /\ \A i \in 1..Len(s) : u[i] = s[i]
      /\ \A i \in 1..Len(t) : u[Len(s) + i] = t[i]
  BY JoinFacts
<1>2. Range(s) = {s[i] : i \in 1..Len(s)} /\ Range(t) = {t[i] : i \in 1..Len(t)}
  BY RangeFacts
<1> HIDE DEF u
<1>3. ASSUME NEW i \in 1..Len(u), i \notin 1..Len(s)
      PROVE  i - Len(s) \in 1..Len(t) /\ u[i] = t[i - Len(s)]
  <2>1. i - Len(s) \in 1..Len(t) /\ Len(s) + (i - Len(s)) = i
    BY <1>1, <1>3
  <2>2. u[Len(s) + (i - Len(s))] = t[i - Len(s)]
    BY <1>1, <2>1
  <2> QED BY <2>1, <2>2
<1>4. ASSUME NEW i \in 1..Len(u), NEW j \in 1..Len(u), i < j PROVE u[i] < u[j]
  <2>1. CASE j \in 1..Len(s)
    <3>1. i \in 1..Len(s)
      BY <1>1, <1>4, <2>1
    <3> QED BY <1>1, <1>4, <2>1, <3>1 DEF Increasing
  <2>2. CASE i \in 1..Len(s) /\ j \notin 1..Len(s)
    <3>1. u[i] = s[i] /\ j - Len(s) \in 1..Len(t) /\ u[j] = t[j - Len(s)]
      BY <1>1, <1>3, <2>2
    <3>2. u[i] \in Range(s) /\ u[j] \in Range(t)
      BY <1>2, <2>2, <3>1
    <3> QED BY <3>2
  <2>3. CASE i \notin 1..Len(s) /\ j \notin 1..Len(s)
    <3>1. /\ i - Len(s) \in 1..Len(t) /\ u[i] = t[i - Len(s)]
          /\ j - Len(s) \in 1..Len(t) /\ u[j] = t[j - Len(s)]
      BY <1>3, <2>3
    <3>2. i - Len(s) < j - Len(s)
      BY <1>1, <1>4
    <3> QED BY <3>1, <3>2 DEF Increasing
  <2>4. CASE i \notin 1..Len(s) /\ j \in 1..Len(s)
    BY <1>1, <1>4, <2>4
  <2> QED BY <2>1, <2>2, <2>3, <2>4
<1> QED BY <1>4 DEF Increasing, u

\* The union of what the first n sequences hold.
Held(ss, n) == UNION {Range(ss[k]) : k \in 1..n}

\* One more sequence adds its elements.
LEMMA HeldMore ==
    ASSUME NEW ss, NEW n \in Nat
    PROVE  Held(ss, n + 1) = Held(ss, n) \cup Range(ss[n + 1])
<1>1. 1..(n + 1) = (1..n) \cup {n + 1}
  OBVIOUS
<1> QED BY <1>1 DEF Held

\* FlattenSeq holds what its sequences hold, and nothing else.
LEMMA FlattenFacts ==
    ASSUME NEW X, NEW ss \in Seq(Seq(X))
    PROVE  FlattenSeq(ss) \in Seq(X) /\ Range(FlattenSeq(ss)) = Held(ss, Len(ss))
<1>1. Len(ss) \in Nat /\ (ss = <<>> <=> Len(ss) = 0)
  BY LenProperties, EmptySeq
<1>2. CASE ss = <<>>
  <2>1. FlattenSeq(ss) = <<>>
    BY <1>1, <1>2 DEF FlattenSeq
  <2>2. Range(<<>>) = {} /\ Held(ss, 0) = {}
    BY DEF Range, Held
  <2> QED BY <1>1, <1>2, <2>1, <2>2, EmptySeq
<1>3. CASE ss # <<>>
  <2>1. PICK h : /\ \A i \in 1..Len(ss) : /\ h[i] \in Seq(X)
                                          /\ h[i] = IF i = 1 THEN ss[i] ELSE h[i - 1] \o ss[i]
                 /\ FlattenSeq(ss) = h[Len(ss)]
    BY <1>3, FlattenSteps
  <2> DEFINE n == Len(ss)
             S == {i \in 1..n : Range(h[i]) = Held(ss, i)}
  <2>2. n \in Nat /\ 1 \in Nat /\ 1 \in 1..n /\ n \in 1..n /\ \A i \in 1..n : ss[i] \in Seq(X)
    BY <1>1, <1>3, ElementOfSeq
  <2>3. 1 \in S
    <3>1. h[1] = ss[1]
      BY <2>1, <2>2
    <3>2. Held(ss, 1) = Range(ss[1])
      BY DEF Held
    <3> QED BY <2>2, <3>1, <3>2
  <2>4. ASSUME NEW i \in 1..n, i # n, i \in S PROVE i + 1 \in S
    <3>1. i \in Nat /\ i + 1 \in 1..n /\ (i + 1) - 1 = i /\ i + 1 # 1
      BY <2>2, <2>4
    <3>2. h[i + 1] = h[i] \o ss[i + 1]
      BY <2>1, <3>1
    <3>3. h[i] \in Seq(X) /\ ss[i + 1] \in Seq(X)
      BY <2>1, <2>2, <3>1
    <3>4. Range(h[i + 1]) = Range(h[i]) \cup Range(ss[i + 1])
      BY <3>2, <3>3, RangeConcatenation
    <3> QED BY <2>4, <3>1, <3>4, HeldMore
  <2>5. 1..n \subseteq S
    <3> HIDE DEF S, n
    <3> QED BY <2>2, <2>3, <2>4, UpInd
  <2> QED BY <2>1, <2>2, <2>5
<1> QED BY <1>2, <1>3

\* Increasing sequences, each above those before it, join to an increasing one.
LEMMA FlattenIncreasing ==
    ASSUME NEW ss \in Seq(Seq(Int)), \A i \in 1..Len(ss) : Increasing(ss[i]),
           \A i, j \in 1..Len(ss) : i < j => \A x \in Range(ss[i]), y \in Range(ss[j]) : x < y
    PROVE  Increasing(FlattenSeq(ss))
<1>1. Len(ss) \in Nat /\ (ss = <<>> <=> Len(ss) = 0)
  BY LenProperties, EmptySeq
<1>2. CASE ss = <<>>
  <2>1. FlattenSeq(ss) = <<>>
    BY <1>1, <1>2 DEF FlattenSeq
  <2> QED BY <2>1 DEF Increasing
<1>3. CASE ss # <<>>
  <2>1. PICK h : /\ \A i \in 1..Len(ss) : /\ h[i] \in Seq(Int)
                                          /\ h[i] = IF i = 1 THEN ss[i] ELSE h[i - 1] \o ss[i]
                 /\ FlattenSeq(ss) = h[Len(ss)]
    BY <1>3, FlattenSteps
  <2> DEFINE n == Len(ss)
             S == {i \in 1..n : Range(h[i]) = Held(ss, i) /\ Increasing(h[i])}
  <2>2. n \in Nat /\ 1 \in Nat /\ 1 \in 1..n /\ n \in 1..n /\ \A i \in 1..n : ss[i] \in Seq(Int)
    BY <1>1, <1>3, ElementOfSeq
  <2>3. 1 \in S
    <3>1. h[1] = ss[1]
      BY <2>1, <2>2
    <3>2. Held(ss, 1) = Range(ss[1])
      BY DEF Held
    <3> QED BY <2>2, <3>1, <3>2
  <2>4. ASSUME NEW i \in 1..n, i # n, i \in S PROVE i + 1 \in S
    <3>1. i \in Nat /\ i + 1 \in 1..n /\ (i + 1) - 1 = i /\ i + 1 # 1
      BY <2>2, <2>4
    <3>2. h[i + 1] = h[i] \o ss[i + 1]
      BY <2>1, <3>1
    <3>3. h[i] \in Seq(Int) /\ ss[i + 1] \in Seq(Int)
      BY <2>1, <2>2, <3>1
    <3>4. Range(h[i + 1]) = Range(h[i]) \cup Range(ss[i + 1])
      BY <3>2, <3>3, RangeConcatenation
    <3>5. \A x \in Range(h[i]), y \in Range(ss[i + 1]) : x < y
      <4> SUFFICES ASSUME NEW x \in Held(ss, i), NEW y \in Range(ss[i + 1]) PROVE x < y
        BY <2>4
      <4>1. PICK k \in 1..i : x \in Range(ss[k])
        BY DEF Held
      <4>2. k \in 1..n /\ k < i + 1
        BY <2>2, <3>1
      <4> QED BY <3>1, <4>1, <4>2
    <3>6. Increasing(h[i] \o ss[i + 1])
      BY <2>4, <3>1, <3>3, <3>5, JoinIncreasing
    <3> QED BY <2>4, <3>1, <3>2, <3>4, <3>6, HeldMore
  <2>5. 1..n \subseteq S
    <3> HIDE DEF S, n
    <3> QED BY <2>2, <2>3, <2>4, UpInd
  <2> QED BY <2>1, <2>2, <2>5
<1> QED BY <1>2, <1>3

-----------------------------------------------------------------------------
(* The slots of a schedule                                                 *)

\* A day and a minute make a time with that day and that minute.
LEMMA AtFacts ==
    ASSUME NEW day \in Nat, NEW t \in 0..(DayLength - 1)
    PROVE  At(day, t) \in Nat /\ DayOf(At(day, t)) = day /\ MinuteOf(At(day, t)) = t
  BY DayAssumption DEF At, DayOf, MinuteOf

\* A time is its day and its minute.
LEMMA DayFacts ==
    ASSUME NEW time \in Nat
    PROVE  /\ DayOf(time) \in Nat /\ MinuteOf(time) \in 0..(DayLength - 1)
           /\ time = At(DayOf(time), MinuteOf(time))
  BY DayAssumption DEF At, DayOf, MinuteOf

\* Times are in the order of their days, then of their minutes.
LEMMA AtOrder ==
    ASSUME NEW d \in Nat, NEW e \in Nat, NEW t \in 0..(DayLength - 1), NEW u \in 0..(DayLength - 1)
    PROVE  At(d, t) < At(e, u) <=> d < e \/ (d = e /\ t < u)
<1>1. DayLength \in Nat \ {0}
  BY DayAssumption
<1>2. CASE d < e
  <2>1. d * DayLength + DayLength <= e * DayLength
    BY <1>1, <1>2
  <2> QED BY <1>1, <1>2, <2>1 DEF At
<1>3. CASE e < d
  <2>1. e * DayLength + DayLength <= d * DayLength
    BY <1>1, <1>3
  <2> QED BY <1>1, <1>3, <2>1 DEF At
<1>4. CASE d = e
  BY <1>1, <1>4 DEF At
<1> QED BY <1>2, <1>3, <1>4

RangeRecords == [weekday: 0..6, start: 0..DayLength, end: 0..DayLength]

\* A range is cut into the starts that leave room for a whole slot, in order.
LEMMA StartsFacts ==
    ASSUME NEW s, IsSchedule(s), NEW r \in RangeRecords
    PROVE  /\ Starts(s, r) \in Seq(Int) /\ Increasing(Starts(s, r))
           /\ \A t : t \in Range(Starts(s, r)) <=>
                        /\ t \in Int /\ r.start <= t /\ t + s.slotMinutes <= r.end
                        /\ (t - r.start) % s.slotMinutes = 0
<1> DEFINE m == s.slotMinutes
           n == (r.end - r.start) \div m
           a == Starts(s, r)
<1>1. m \in Nat \ {0} /\ r.start \in Nat /\ r.end \in Nat /\ n \in Int
  BY DayAssumption DEF IsSchedule, RangeRecords
<1>2. a = [i \in 1..n |-> r.start + (i - 1) * m]
  BY DEF Starts
<1>3. \A i \in 1..n : r.start + (i - 1) * m \in Int
  BY <1>1
<1> DEFINE k == IF n < 0 THEN 0 ELSE n
<1>4. k \in Nat /\ 1..n = 1..k
  BY <1>1
<1> HIDE DEF n, m, a
<1>5. a \in Seq(Int) /\ Len(a) = k /\ \A i \in 1..k : a[i] = r.start + (i - 1) * m
  <2> HIDE DEF k
  <2>1. a = [i \in 1..k |-> r.start + (i - 1) * m]
    BY <1>2, <1>4
  <2>2. \A i \in 1..k : r.start + (i - 1) * m \in Int
    BY <1>3, <1>4
  <2> QED BY <1>4, <2>1, <2>2
<1>6. Increasing(a)
  <2> SUFFICES ASSUME NEW i \in 1..k, NEW j \in 1..k, i < j PROVE a[i] < a[j]
    BY <1>5 DEF Increasing
  <2>1. (i - 1) * m + m <= (j - 1) * m
    BY <1>1, <1>4
  <2> QED BY <1>1, <1>4, <1>5, <2>1
<1>7. Range(a) = {a[i] : i \in 1..k}
  BY <1>5, RangeFacts
<1>8. ASSUME NEW t \in Range(a)
      PROVE  t \in Int /\ r.start <= t /\ t + m <= r.end /\ (t - r.start) % m = 0
  <2>1. PICK i \in 1..k : t = r.start + (i - 1) * m
    BY <1>5, <1>7
  <2>2. i <= n /\ i - 1 \in Nat
    BY <1>1, <1>4
  <2>3. i * m <= r.end - r.start
    BY <1>1, <2>2 DEF n
  <2>4. (i - 1) * m + m = i * m /\ (i - 1) * m \in Nat
    BY <1>1, <2>2
  <2>5. ((i - 1) * m) % m = 0
    BY <1>1, <2>2
  <2> QED BY <1>1, <2>1, <2>3, <2>4, <2>5
<1>9. ASSUME NEW t \in Int, r.start <= t, t + m <= r.end, (t - r.start) % m = 0
      PROVE  t \in Range(a)
  <2> DEFINE d == t - r.start
             i == (d \div m) + 1
  <2>1. d \in Nat /\ d \div m \in Nat /\ d = (d \div m) * m
    BY <1>1, <1>9
  <2>2. i \in Nat /\ i >= 1 /\ t = r.start + (i - 1) * m /\ i * m = d + m
    BY <1>1, <2>1
  <2>3. i * m <= r.end - r.start
    BY <1>1, <1>9, <2>2
  <2> HIDE DEF i
  <2>4. i <= n
    BY <1>1, <2>2, <2>3 DEF n
  <2>5. i \in 1..k
    BY <1>1, <2>2, <2>4
  <2> QED BY <1>5, <1>7, <2>2, <2>5
<1> QED BY <1>5, <1>6, <1>8, <1>9 DEF a, m

\* The ranges of a day are those of its weekday, in order and apart.
LEMMA RangesOnFacts ==
    ASSUME NEW s, IsSchedule(s), NEW day
    PROVE  LET rs == RangesOn(s, day)
           IN  /\ rs \in Seq(RangeRecords) /\ Len(rs) \in Nat
               /\ Range(rs) = {r \in Range(s.ranges) : r.weekday = WeekdayOf(day)}
               /\ \A i, j \in 1..Len(rs) : i < j => rs[i].end <= rs[j].start
<1> DEFINE K == {r \in Range(s.ranges) : r.weekday = WeekdayOf(day)}
           rs == RangesOn(s, day)
<1>1. s.ranges \in Seq(RangeRecords)
  BY DEF IsSchedule, RangeRecords
<1>2. rs = Kept(s.ranges, K)
  BY DEF RangesOn
<1>3. K \subseteq Range(s.ranges) /\ \A r \in K : r.weekday = WeekdayOf(day)
  OBVIOUS
<1> HIDE DEF K, rs
<1>4. /\ rs \in Seq(RangeRecords)
      /\ Range(rs) = Range(s.ranges) \cap K
      /\ \A i, j \in 1..Len(rs) : i < j =>
            \E k, l \in 1..Len(s.ranges) : /\ k < l /\ s.ranges[k] \in K /\ s.ranges[l] \in K
                                           /\ rs[i] = s.ranges[k] /\ rs[j] = s.ranges[l]
  <2> DEFINE all == s.ranges
             X == RangeRecords
  <2>1. all \in Seq(X) /\ rs = Kept(all, K)
    BY <1>1, <1>2
  <2> HIDE DEF all, X
  <2>2. all \in Seq(X)
    BY <2>1
  <2>3. /\ Kept(all, K) \in Seq(X) /\ Range(Kept(all, K)) = Range(all) \cap K
        /\ \A i, j \in 1..Len(Kept(all, K)) : i < j =>
              \E k, l \in 1..Len(all) : /\ k < l /\ all[k] \in K /\ all[l] \in K
                                        /\ Kept(all, K)[i] = all[k] /\ Kept(all, K)[j] = all[l]
    BY <2>2, KeptFacts
  <2> QED BY <2>1, <2>3 DEF all, X
<1>5. ASSUME NEW i \in 1..Len(rs), NEW j \in 1..Len(rs), i < j PROVE rs[i].end <= rs[j].start
  <2>1. PICK k \in 1..Len(s.ranges), l \in 1..Len(s.ranges) :
            /\ k < l /\ s.ranges[k] \in K /\ s.ranges[l] \in K
            /\ rs[i] = s.ranges[k] /\ rs[j] = s.ranges[l]
    BY <1>4, <1>5
  <2>2. s.ranges[k].weekday = s.ranges[l].weekday
    BY <1>3, <2>1
  <2> QED BY <2>1, <2>2 DEF IsSchedule
<1>6. Len(rs) \in Nat
  BY <1>4, LenProperties
<1>7. Range(rs) = K
  BY <1>3, <1>4
<1> QED BY <1>4, <1>5, <1>6, <1>7 DEF rs, K

\* All the starts of a day, blocked or not.
AllStarts(s, day) ==
    FlattenSeq([i \in 1..Len(RangesOn(s, day)) |-> Starts(s, RangesOn(s, day)[i])])

\* Before blocks are read, a day has exactly the starts of its schedule, in
\* order.
LEMMA AllStartsFacts ==
    ASSUME NEW s, IsSchedule(s), NEW day \in Nat
    PROVE  /\ AllStarts(s, day) \in Seq(Int) /\ Increasing(AllStarts(s, day))
           /\ Range(AllStarts(s, day)) = {t \in 0..(DayLength - 1) : InSchedule(s, At(day, t))}
<1> DEFINE rs == RangesOn(s, day)
           ss == [i \in 1..Len(rs) |-> Starts(s, rs[i])]
<1>1. /\ rs \in Seq(RangeRecords) /\ Len(rs) \in Nat
      /\ Range(rs) = {r \in Range(s.ranges) : r.weekday = WeekdayOf(day)}
      /\ \A i, j \in 1..Len(rs) : i < j => rs[i].end <= rs[j].start
  BY RangesOnFacts
<1>2. AllStarts(s, day) = FlattenSeq(ss)
  BY DEF AllStarts
<1> HIDE DEF rs
<1>3. \A i \in 1..Len(rs) : rs[i] \in RangeRecords
  BY <1>1, ElementOfSeq
<1>4. ASSUME NEW i \in 1..Len(rs)
      PROVE  /\ Starts(s, rs[i]) \in Seq(Int) /\ Increasing(Starts(s, rs[i]))
             /\ \A t : t \in Range(Starts(s, rs[i])) <=>
                          /\ t \in Int /\ rs[i].start <= t /\ t + s.slotMinutes <= rs[i].end
                          /\ (t - rs[i].start) % s.slotMinutes = 0
  BY <1>3, StartsFacts
<1>5. /\ ss \in Seq(Seq(Int)) /\ Len(ss) = Len(rs)
      /\ \A i \in 1..Len(rs) : ss[i] = Starts(s, rs[i])
  BY <1>1, <1>4
<1> HIDE DEF ss
<1>6. s.slotMinutes \in Nat \ {0}
  BY DEF IsSchedule
<1>7. \A i \in 1..Len(rs) : rs[i].start \in 0..DayLength /\ rs[i].end \in 0..DayLength
  BY <1>3 DEF RangeRecords
<1>8. DayLength \in Nat \ {0}
  BY DayAssumption
<1>9. ASSUME NEW i \in 1..Len(rs), NEW j \in 1..Len(rs), i < j,
             NEW x \in Range(ss[i]), NEW y \in Range(ss[j])
      PROVE  x < y
  <2>1. x \in Int /\ x + s.slotMinutes <= rs[i].end
    BY <1>4, <1>5
  <2>2. y \in Int /\ rs[j].start <= y
    BY <1>4, <1>5
  <2>3. rs[i].end <= rs[j].start
    BY <1>1, <1>9
  <2> QED BY <1>6, <1>7, <1>8, <2>1, <2>2, <2>3
<1>10. \A i \in 1..Len(ss) : Increasing(ss[i])
  BY <1>4, <1>5
<1>11. FlattenSeq(ss) \in Seq(Int) /\ Range(FlattenSeq(ss)) = Held(ss, Len(ss))
  BY <1>5, FlattenFacts
<1>12. Increasing(FlattenSeq(ss))
  BY <1>5, <1>9, <1>10, FlattenIncreasing
<1>13. Range(rs) = {rs[i] : i \in 1..Len(rs)}
  BY <1>1, RangeFacts
<1>14. Range(s.ranges) = {s.ranges[i] : i \in 1..Len(s.ranges)}
  <2>1. s.ranges \in Seq(RangeRecords)
    BY DEF IsSchedule, RangeRecords
  <2> QED BY <2>1, RangeFacts
<1>15. ASSUME NEW t \in Held(ss, Len(ss))
       PROVE  t \in 0..(DayLength - 1) /\ InSchedule(s, At(day, t))
  <2>1. PICK i \in 1..Len(rs) : t \in Range(ss[i])
    BY <1>5 DEF Held
  <2>2. /\ t \in Int /\ rs[i].start <= t /\ t + s.slotMinutes <= rs[i].end
        /\ (t - rs[i].start) % s.slotMinutes = 0
    BY <1>4, <1>5, <2>1
  <2>3. t \in 0..(DayLength - 1)
    BY <1>6, <1>7, <1>8, <2>2
  <2>4. rs[i] \in Range(rs)
    BY <1>13
  <2>5. PICK k \in 1..Len(s.ranges) : rs[i] = s.ranges[k] /\ s.ranges[k].weekday = WeekdayOf(day)
    BY <1>1, <1>14, <2>4
  <2>6. DayOf(At(day, t)) = day /\ MinuteOf(At(day, t)) = t
    BY <2>3, AtFacts
  <2> QED BY <2>2, <2>3, <2>5, <2>6 DEF InSchedule
<1>16. ASSUME NEW t \in 0..(DayLength - 1), InSchedule(s, At(day, t))
       PROVE  t \in Held(ss, Len(ss))
  <2>1. DayOf(At(day, t)) = day /\ MinuteOf(At(day, t)) = t
    BY AtFacts
  <2>2. PICK k \in 1..Len(s.ranges) :
            /\ s.ranges[k].weekday = WeekdayOf(day)
            /\ s.ranges[k].start <= t /\ t + s.slotMinutes <= s.ranges[k].end
            /\ (t - s.ranges[k].start) % s.slotMinutes = 0
    BY <1>16, <2>1 DEF InSchedule
  <2>3. s.ranges[k] \in Range(rs)
    BY <1>1, <1>14, <2>2
  <2>4. PICK i \in 1..Len(rs) : rs[i] = s.ranges[k]
    BY <1>13, <2>3
  <2>5. t \in Int
    BY <1>8
  <2>6. t \in Range(ss[i])
    BY <1>4, <1>5, <2>2, <2>4, <2>5
  <2> QED BY <1>5, <2>6 DEF Held
<1> QED BY <1>2, <1>11, <1>12, <1>15, <1>16

\* A day that blocks are read for.
Covers(blocks, s, day) == \A b : b.date = day => (b \in blocks <=> b \in s.blocks)

\* The free starts of a day are exactly its minutes that are open, in order,
\* when the blocks read are all those of the day.
LEMMA FreeStartsFacts ==
    ASSUME NEW s, IsSchedule(s), NEW day \in Nat, NEW blocks, Covers(blocks, s, day)
    PROVE  LET a == FreeStarts(s, blocks, day)
           IN  /\ a \in Seq(Int) /\ Increasing(a)
               /\ Range(a) = {t \in 0..(DayLength - 1) : Open(s, At(day, t))}
<1> DEFINE all == AllStarts(s, day)
           K == {t \in Range(all) : ~PartlyBlocked(s, blocks, day, t)}
           a == FreeStarts(s, blocks, day)
<1>1. /\ all \in Seq(Int) /\ Increasing(all)
      /\ Range(all) = {t \in 0..(DayLength - 1) : InSchedule(s, At(day, t))}
  BY AllStartsFacts
<1>2. a = IF FullDayBlocked(blocks, day) THEN <<>> ELSE Kept(all, K)
  BY DEF FreeStarts, NotTaken, AllStarts
<1>3. FullDayBlocked(blocks, day) <=> \E b \in s.blocks : b.date = day /\ b.start = NoTime
  BY DEF FullDayBlocked, Covers
<1>4. ASSUME NEW t \in 0..(DayLength - 1)
      PROVE  Unblocked(s, At(day, t)) <=> ~FullDayBlocked(blocks, day) /\ ~PartlyBlocked(s, blocks, day, t)
  <2>1. DayOf(At(day, t)) = day /\ MinuteOf(At(day, t)) = t
    BY AtFacts
  <2>2. ASSUME NEW b \in s.blocks, b.date = day, b.start # NoTime
        PROVE  (\E m \in b.start..(b.end - 1) : m \in t..(t + s.slotMinutes - 1))
                  <=> t < b.end /\ t + s.slotMinutes > b.start
    <3>1. /\ b.start \in Nat /\ b.end \in Nat /\ b.start < b.end
          /\ s.slotMinutes \in Nat \ {0} /\ t \in Nat
      BY <2>2, DayAssumption DEF IsSchedule
    <3>2. ASSUME t < b.end, t + s.slotMinutes > b.start
          PROVE  \E m \in b.start..(b.end - 1) : m \in t..(t + s.slotMinutes - 1)
      <4>1. CASE t <= b.start
        <5>1. b.start \in b.start..(b.end - 1) /\ b.start \in t..(t + s.slotMinutes - 1)
          BY <3>1, <3>2, <4>1
        <5> QED BY <5>1
      <4>2. CASE t > b.start
        <5>1. t \in b.start..(b.end - 1) /\ t \in t..(t + s.slotMinutes - 1)
          BY <3>1, <3>2, <4>2
        <5> QED BY <5>1
      <4> QED BY <3>1, <4>1, <4>2
    <3>3. ASSUME NEW m \in b.start..(b.end - 1), m \in t..(t + s.slotMinutes - 1)
          PROVE  t < b.end /\ t + s.slotMinutes > b.start
      BY <3>1, <3>3
    <3> QED BY <3>2, <3>3
  <2>3. \A b \in s.blocks : b.date = day => b \in blocks
    BY DEF Covers
  <2>4. \A b \in blocks : b.date = day => b \in s.blocks
    BY DEF Covers
  <2>5. PartlyBlocked(s, blocks, day, t) <=>
            \E b \in s.blocks : /\ b.date = day /\ b.start # NoTime
                                /\ \E m \in b.start..(b.end - 1) : m \in t..(t + s.slotMinutes - 1)
    BY <2>2, <2>3, <2>4 DEF PartlyBlocked
  <2> QED BY <1>3, <2>1, <2>5 DEF Unblocked
<1>5. CASE FullDayBlocked(blocks, day)
  <2>1. a = <<>>
    BY <1>2, <1>5
  <2>2. \A t \in 0..(DayLength - 1) : ~Open(s, At(day, t))
    BY <1>4, <1>5 DEF Open
  <2>3. Range(<<>>) = {} /\ Increasing(<<>>)
    BY DEF Range, Increasing
  <2> QED BY <2>1, <2>2, <2>3, EmptySeq
<1>6. CASE ~FullDayBlocked(blocks, day)
  <2>1. a = Kept(all, K)
    BY <1>2, <1>6
  <2>2. \A t \in 0..(DayLength - 1) :
            Open(s, At(day, t)) <=> InSchedule(s, At(day, t)) /\ ~PartlyBlocked(s, blocks, day, t)
    BY <1>4, <1>6 DEF Open
  <2>3. Range(all) \cap K = {t \in 0..(DayLength - 1) : Open(s, At(day, t))}
    BY <1>1, <2>2
  <2> HIDE DEF all, K, a
  <2>4. a \in Seq(Int) /\ Range(a) = Range(all) \cap K
    BY <1>1, <2>1, KeptFacts
  <2>5. Increasing(a)
    BY <1>1, <2>1, KeptIncreasing
  <2> QED BY <2>3, <2>4, <2>5 DEF a
<1> QED BY <1>5, <1>6

\* Days of B after today, up to day.
Days(B, today, day) == {d \in (today + 1)..day : d \in B}

\* The business days up to a day can be counted.
LEMMA DaysFinite ==
    ASSUME NEW B, NEW today \in Nat, NEW day \in Nat
    PROVE  IsFiniteSet(Days(B, today, day)) /\ Cardinality(Days(B, today, day)) \in Nat
<1>1. IsFiniteSet((today + 1)..day)
  BY FS_Interval
<1>2. Days(B, today, day) \in SUBSET ((today + 1)..day)
  BY DEF Days
<1>3. IsFiniteSet(Days(B, today, day))
  BY <1>1, <1>2, FS_Subset
<1> QED BY <1>3, FS_CardinalityType

\* A later day has at least as many business days before it.
LEMMA DaysGrow ==
    ASSUME NEW B, NEW today \in Nat, NEW day \in Nat, NEW later \in Nat, day <= later
    PROVE  Cardinality(Days(B, today, day)) <= Cardinality(Days(B, today, later))
<1>1. Days(B, today, day) \in SUBSET Days(B, today, later)
  BY DEF Days
<1> QED BY <1>1, DaysFinite, FS_Subset

\* The next day adds one to the count when it is a business day.
LEMMA DaysNext ==
    ASSUME NEW B, NEW today \in Nat, NEW day \in Nat, today <= day
    PROVE  /\ Cardinality(Days(B, today, today)) = 0
           /\ Cardinality(Days(B, today, day + 1))
                = Cardinality(Days(B, today, day)) + (IF day + 1 \in B THEN 1 ELSE 0)
<1>1. Days(B, today, today) = {}
  BY DEF Days
<1>2. Days(B, today, day + 1) = Days(B, today, day) \cup (IF day + 1 \in B THEN {day + 1} ELSE {})
  BY DEF Days
<1>3. day + 1 \notin Days(B, today, day)
  BY DEF Days
<1>4. IsFiniteSet(Days(B, today, day)) /\ Cardinality(Days(B, today, day)) \in Nat
  BY DaysFinite
<1>5. Cardinality(Days(B, today, day) \cup {day + 1}) = Cardinality(Days(B, today, day)) + 1
  BY <1>3, <1>4, FS_AddElement
<1>6. Cardinality(Days(B, today, today)) = 0
  BY <1>1, FS_EmptySet
<1>7. CASE day + 1 \in B
  BY <1>2, <1>5, <1>6, <1>7
<1>8. CASE day + 1 \notin B
  <2>1. Days(B, today, day + 1) = Days(B, today, day)
    BY <1>2, <1>8
  <2> QED BY <1>4, <1>6, <1>8, <2>1
<1> QED BY <1>7, <1>8

Business(s, today) == {d \in Nat : IsBusinessDay(s, BlocksRead(s, today), d)}

\* The loop after i rounds: the days up to its own are counted, and only its own
\* may have enough of them.
Counting(s, today, i, w) ==
    /\ w.day \in today..(today + i) /\ w.n \in 0..s.notice
    /\ w.n = Cardinality(Days(Business(s, today), today, w.day))
    /\ \A d \in today..(w.day - 1) : Cardinality(Days(Business(s, today), today, d)) < s.notice
    /\ w.n # s.notice => w.day = today + i

\* One round of the loop over the days keeps what its counter means.
LEMMA CountingOn ==
    ASSUME NEW s, IsSchedule(s), NEW today \in Nat, NEW i \in Nat, NEW w, Counting(s, today, i, w), w.n # s.notice
    PROVE  Counting(s, today, i + 1,
                    [n |-> w.n + (IF IsBusinessDay(s, BlocksRead(s, today), w.day + 1) THEN 1 ELSE 0),
                     day |-> w.day + 1])
<1> DEFINE B == Business(s, today)
           u == [n |-> w.n + (IF IsBusinessDay(s, BlocksRead(s, today), w.day + 1) THEN 1 ELSE 0),
                 day |-> w.day + 1]
           C(d) == Cardinality(Days(B, today, d))
<1>1. /\ s.notice \in Nat /\ w.day = today + i /\ w.day \in Nat /\ today <= w.day
      /\ w.n \in 0..s.notice /\ w.n = C(w.day)
      /\ \A d \in today..(w.day - 1) : C(d) < s.notice
  BY DEF Counting, IsSchedule
<1>2. w.day + 1 \in B <=> IsBusinessDay(s, BlocksRead(s, today), w.day + 1)
  BY <1>1 DEF Business
<1>3. u.day = w.day + 1 /\ u.n = w.n + IF w.day + 1 \in B THEN 1 ELSE 0
  BY <1>2
<1>4. C(w.day + 1) = C(w.day) + IF w.day + 1 \in B THEN 1 ELSE 0
  <2> HIDE DEF B
  <2> QED BY <1>1, DaysNext
<1> HIDE DEF u, C
<1>5. u.n = C(u.day)
  BY <1>1, <1>3, <1>4
<1>6. u.n \in 0..s.notice
  BY <1>1, <1>3
<1>7. \A d \in today..(u.day - 1) : C(d) < s.notice
  <2> SUFFICES ASSUME NEW d \in today..(u.day - 1) PROVE C(d) < s.notice
    OBVIOUS
  <2>1. CASE d = w.day
    BY <1>1, <2>1
  <2>2. CASE d # w.day
    <3>1. d \in today..(w.day - 1)
      BY <1>1, <1>3, <2>2
    <3> QED BY <1>1, <3>1
  <2> QED BY <2>1, <2>2
<1>8. u.day \in today..(today + (i + 1)) /\ u.day = today + (i + 1)
  BY <1>1, <1>3
<1>9. Counting(s, today, i + 1, u)
  BY <1>5, <1>6, <1>7, <1>8 DEF Counting, C
<1> QED BY <1>9 DEF u

\* The loop returns the first day with enough business days before it, if the
\* window and the margin hold one.
LEMMA FirstDayFacts ==
    ASSUME NEW s, IsSchedule(s), NEW today \in Nat
    PROVE  LET f == FirstDay(s, today)
           IN  /\ f # <<>> => f[1] \in Nat /\ today <= f[1]
               /\ \A d \in today..(today + s.window + 30) :
                     Cardinality(Days(Business(s, today), today, d)) >= s.notice
                        <=> f # <<>> /\ f[1] <= d
<1> DEFINE until == s.window + 30
           V == [n : Nat, day : Nat]
           zero == 0
           start == [n |-> 0, day |-> today]
           On(w) == IF w.n = s.notice THEN w
                    ELSE [n |-> w.n + (IF IsBusinessDay(s, BlocksRead(s, today), w.day + 1) THEN 1 ELSE 0),
                          day |-> w.day + 1]
           cons == [p \in (0..until) \X V |-> On(p[2])]
           Val(f, i) == IF i = 0 THEN start ELSE On(f[i - 1])
           h == CHOOSE f : f = [i \in 0..until |-> Val(f, i)]
           C(d) == Cardinality(Days(Business(s, today), today, d))
<1>1. until \in Nat /\ s.notice \in Nat /\ s.window \in Nat
  BY DEF IsSchedule
<1>2. start \in V /\ \A w \in V : On(w) \in V
  OBVIOUS
<1> HIDE DEF On
<1>3. \E f \in [0..until -> V] : \A i \in 0..until : f[i] = IF i = 0 THEN start ELSE cons[<<i, f[i - 1]>>]
  <2>1. cons \in [(0..until) \X V -> V]
    BY <1>2
  <2> HIDE DEF until, V, start, cons, Val, h, C
  <2>2. Climbs(V, 0, until, start, cons)
    BY <1>1, <1>2, <2>1 DEF Climbs
  <2> QED BY <2>2, Upward
<1>4. PICK f \in [0..until -> V] : \A i \in 0..until : f[i] = IF i = 0 THEN start ELSE cons[<<i, f[i - 1]>>]
  BY <1>3
<1>5. ASSUME NEW i \in 0..until PROVE f[i] = Val(f, i)
  <2>1. CASE i = 0
    BY <1>4, <2>1
  <2>2. CASE i # 0
    <3>1. i - 1 \in 0..until
      BY <1>1, <2>2
    <3>2. f[i - 1] \in V /\ f[i] = cons[<<i, f[i - 1]>>]
      BY <1>4, <2>2, <3>1
    <3> HIDE DEF V
    <3>3. cons[<<i, f[i - 1]>>] = On(f[i - 1])
      BY <3>2
    <3> QED BY <2>2, <3>2, <3>3
  <2> QED BY <2>1, <2>2
<1>6. f = [i \in 0..until |-> Val(f, i)]
  BY <1>5
<1>7. h = [i \in 0..until |-> Val(h, i)]
  BY <1>6
<1>8. FirstDay(s, today) = IF h[until].n < s.notice THEN <<>> ELSE <<h[until].day>>
  BY DEF FirstDay, On
<1>9. \A i \in 0..until : h[i] = Val(h, i)
  <2> HIDE DEF h, Val
  <2> QED BY <1>7
<1> HIDE DEF h
<1> DEFINE S == {i \in 0..until : Counting(s, today, i, h[i])}
<1>10. 0 \in S
  <2>1. h[0] = start
    BY <1>1, <1>9
  <2>2. C(today) = 0
    BY DaysNext
  <2>3. Counting(s, today, 0, start)
    BY <1>1, <2>2 DEF Counting
  <2> QED BY <1>1, <2>1, <2>3
<1>11. ASSUME NEW i \in 0..until, i # until, i \in S PROVE i + 1 \in S
  <2>1. i \in Nat /\ i + 1 \in 0..until /\ i + 1 # 0 /\ (i + 1) - 1 = i
    BY <1>1, <1>11
  <2>2. h[i + 1] = On(h[i])
    BY <1>9, <2>1
  <2>3. Counting(s, today, i, h[i])
    BY <1>11
  <2>4. CASE h[i].n = s.notice
    <3>1. h[i + 1] = h[i]
      BY <2>2, <2>4 DEF On
    <3>2. today..(today + i) \subseteq today..(today + (i + 1))
      BY <2>1
    <3>3. Counting(s, today, i + 1, h[i])
      BY <2>3, <2>4, <3>2 DEF Counting
    <3> QED BY <2>1, <3>1, <3>3
  <2>5. CASE h[i].n # s.notice
    <3>1. Counting(s, today, i + 1, On(h[i]))
      BY <2>1, <2>3, <2>5, CountingOn DEF On
    <3> QED BY <2>1, <2>2, <3>1
  <2> QED BY <2>4, <2>5
<1>12. 0..until \subseteq S
  <2>1. until \in Nat /\ 0 \in Nat
    BY <1>1
  <2> HIDE DEF S, until
  <2> QED BY <1>10, <1>11, <2>1, UpInd
<1> DEFINE w == h[until]
<1>13. Counting(s, today, until, w)
  BY <1>1, <1>12
<1> HIDE DEF w
<1>14. /\ w.day \in Nat /\ today <= w.day /\ w.n \in 0..s.notice /\ w.n = C(w.day)
       /\ \A d \in today..(w.day - 1) : C(d) < s.notice
       /\ w.n # s.notice => w.day = today + until
  BY <1>1, <1>13 DEF Counting
<1>15. ASSUME NEW d \in today..(today + s.window + 30)
       PROVE  C(d) >= s.notice <=> ~(w.n < s.notice) /\ w.day <= d
  <2>1. d \in Nat /\ C(d) \in Nat /\ d <= today + until
    BY <1>1, DaysFinite
  <2>2. ASSUME w.day <= d PROVE C(w.day) <= C(d)
    BY <1>14, <2>1, <2>2, DaysGrow
  <2>3. ASSUME d <= w.day PROVE C(d) <= C(w.day)
    BY <1>14, <2>1, <2>3, DaysGrow
  <2>4. d < w.day => d \in today..(w.day - 1)
    BY <1>14, <2>1
  <2> HIDE DEF C, until
  <2>5. CASE w.day <= d
    <3>1. w.n < s.notice => w.day = d
      BY <1>1, <1>14, <2>1, <2>5
    <3> QED BY <1>1, <1>14, <2>1, <2>2, <2>5, <3>1
  <2>6. CASE ~(w.day <= d)
    <3>1. C(d) < s.notice
      BY <1>14, <2>1, <2>4, <2>6
    <3> QED BY <1>1, <2>1, <2>6, <3>1
  <2> QED BY <2>5, <2>6
<1>16. FirstDay(s, today) = IF w.n < s.notice THEN <<>> ELSE <<w.day>>
  BY <1>8 DEF w
<1>17. CASE w.n < s.notice
  BY <1>15, <1>16, <1>17
<1>18. CASE ~(w.n < s.notice)
  <2>1. FirstDay(s, today) # <<>> /\ FirstDay(s, today)[1] = w.day
    BY <1>16, <1>18
  <2> QED BY <1>14, <1>15, <1>18, <2>1
<1> QED BY <1>17, <1>18

OpenDay(s, day) == \E t \in 0..(DayLength - 1) : Open(s, At(day, t))

\* The blocks read for a day of the window are all the blocks of that day.
LEMMA BlocksCover ==
    ASSUME NEW s, IsSchedule(s), NEW today \in Nat, NEW day \in today..(today + s.window + 15)
    PROVE  Covers(BlocksRead(s, today), s, day)
  BY DEF Covers, BlocksRead

\* A sequence is empty when it holds nothing.
LEMMA EmptyRange ==
    ASSUME NEW X, NEW a \in Seq(X)
    PROVE  a = <<>> <=> Range(a) = {}
<1>1. Len(a) \in Nat /\ (a = <<>> <=> Len(a) = 0)
  BY LenProperties, EmptySeq
<1>2. Range(a) = {a[i] : i \in 1..Len(a)}
  BY RangeFacts
<1>3. CASE a = <<>>
  <2>1. 1..Len(a) = {}
    BY <1>1, <1>3
  <2> QED BY <1>2, <1>3, <2>1
<1>4. CASE a # <<>>
  <2>1. 1 \in 1..Len(a)
    BY <1>1, <1>4
  <2> QED BY <1>2, <1>4, <2>1
<1> QED BY <1>3, <1>4

\* A day of the window is a business day when some minute of it is open.
LEMMA BusinessFacts ==
    ASSUME NEW s, IsSchedule(s), NEW today \in Nat, NEW day \in today..(today + s.window + 15)
    PROVE  day \in Business(s, today) <=> OpenDay(s, day)
<1> DEFINE a == FreeStarts(s, BlocksRead(s, today), day)
<1>1. day \in Nat /\ Covers(BlocksRead(s, today), s, day)
  <2>1. Covers(BlocksRead(s, today), s, day)
    BY BlocksCover
  <2>2. day \in Nat
    BY DEF IsSchedule
  <2> QED BY <2>1, <2>2
<1>2. a \in Seq(Int) /\ Range(a) = {t \in 0..(DayLength - 1) : Open(s, At(day, t))}
  BY <1>1, FreeStartsFacts
<1>3. day \in Business(s, today) <=> a # <<>>
  BY <1>1 DEF Business, IsBusinessDay
<1> HIDE DEF a
<1>4. a # <<>> <=> Range(a) # {}
  BY <1>2, EmptyRange
<1> QED BY <1>2, <1>3, <1>4 DEF OpenDay

\* The slots of a day are those that are open and to come, in order.
LEMMA SlotsOfFacts ==
    ASSUME NEW s, IsSchedule(s), NEW time \in Nat, NEW day \in DayOf(time)..(DayOf(time) + s.window)
    PROVE  /\ SlotsOf(s, time, day) \in Seq(Int) /\ Increasing(SlotsOf(s, time, day))
           /\ Range(SlotsOf(s, time, day)) = {slot \in Nat : DayOf(slot) = day /\ Open(s, slot) /\ slot > time}
<1> DEFINE today == DayOf(time)
           minute == MinuteOf(time)
           starts == FreeStarts(s, BlocksRead(s, today), day)
           K == {t \in Range(starts) : day = today => t > minute}
           ahead == Kept(starts, K)
           a == SlotsOf(s, time, day)
<1>1. today \in Nat /\ minute \in 0..(DayLength - 1) /\ time = At(today, minute) /\ DayLength \in Nat \ {0}
  BY DayFacts, DayAssumption
<1>2. day \in Nat /\ today <= day /\ day \in today..(today + s.window + 15)
  BY <1>1 DEF IsSchedule
<1>3. /\ starts \in Seq(Int) /\ Increasing(starts)
      /\ Range(starts) = {t \in 0..(DayLength - 1) : Open(s, At(day, t))}
  <2>1. Covers(BlocksRead(s, today), s, day)
    BY <1>1, <1>2, BlocksCover
  <2> QED BY <1>2, <2>1, FreeStartsFacts
<1>4. a = [i \in 1..Len(ahead) |-> At(day, ahead[i])]
  BY DEF SlotsOf, Ahead
<1>5. /\ ahead \in Seq(Int) /\ Range(ahead) = Range(starts) \cap K /\ Increasing(ahead)
  <2> HIDE DEF starts, K
  <2> QED BY <1>3, KeptFacts, KeptIncreasing
<1>6. Range(ahead) = {t \in 0..(DayLength - 1) : Open(s, At(day, t)) /\ At(day, t) > time}
  <2>1. ASSUME NEW t \in 0..(DayLength - 1)
        PROVE  At(day, t) > time <=> (day = today => t > minute)
    <3>1. At(today, minute) < At(day, t) <=> today < day \/ (today = day /\ minute < t)
      BY <1>1, <1>2, AtOrder
    <3>2. At(day, t) \in Nat /\ minute \in Int /\ t \in Int
      BY <1>1, <1>2, AtFacts
    <3>3. today < day <=> today # day
      BY <1>1, <1>2
    <3>4. At(day, t) > time <=> At(today, minute) < At(day, t)
      BY <1>1, <3>2
    <3>5. t > minute <=> minute < t
      BY <3>2
    <3> HIDE DEF today, minute
    <3> QED BY <3>1, <3>3, <3>4, <3>5
  <2> HIDE DEF today, minute
  <2> QED BY <1>3, <1>5, <2>1
<1> HIDE DEF ahead, a
<1>7. Len(ahead) \in Nat /\ Range(ahead) = {ahead[i] : i \in 1..Len(ahead)}
  BY <1>5, LenProperties, RangeFacts
<1>8. \A i \in 1..Len(ahead) : ahead[i] \in 0..(DayLength - 1) /\ At(day, ahead[i]) \in Nat
  BY <1>2, <1>6, <1>7, AtFacts
<1>9. a \in Seq(Int) /\ Len(a) = Len(ahead) /\ \A i \in 1..Len(ahead) : a[i] = At(day, ahead[i])
  BY <1>4, <1>7, <1>8
<1>10. ASSUME NEW i \in 1..Len(a), NEW j \in 1..Len(a), i < j PROVE a[i] < a[j]
  <2>1. ahead[i] < ahead[j] /\ a[i] = At(day, ahead[i]) /\ a[j] = At(day, ahead[j])
    BY <1>5, <1>9, <1>10 DEF Increasing
  <2> QED BY <1>2, <1>8, <1>9, <2>1, AtOrder
<1>11. Range(a) = {At(day, t) : t \in Range(ahead)}
  <2>1. Range(a) = {a[i] : i \in 1..Len(a)}
    BY <1>9, RangeFacts
  <2>2. Range(a) = {At(day, ahead[i]) : i \in 1..Len(ahead)}
    BY <1>9, <2>1
  <2> QED BY <1>7, <2>2
<1>12. ASSUME NEW t \in Range(ahead)
       PROVE  LET slot == At(day, t) IN slot \in Nat /\ DayOf(slot) = day /\ Open(s, slot) /\ slot > time
  BY <1>2, <1>6, AtFacts
<1>13. ASSUME NEW slot \in Nat, DayOf(slot) = day, Open(s, slot), slot > time
       PROVE  \E t \in Range(ahead) : slot = At(day, t)
  <2>1. MinuteOf(slot) \in 0..(DayLength - 1) /\ slot = At(day, MinuteOf(slot))
    BY <1>13, DayFacts
  <2> QED BY <1>6, <1>13, <2>1
<1> QED BY <1>9, <1>10, <1>11, <1>12, <1>13 DEF Increasing, a

\* What may be offered, but for the seats.
Eligible(s, time, slot) ==
    /\ slot \in Nat /\ slot > time /\ DayOf(slot) <= DayOf(time) + s.window
    /\ Open(s, slot) /\ NoticeKept(s, time, slot)

\* The notice is kept exactly by the slots from the first day on.
LEMMA NoticeFacts ==
    ASSUME NEW s, IsSchedule(s), NEW time \in Nat, NEW slot \in Nat,
           DayOf(time) <= DayOf(slot), DayOf(slot) <= DayOf(time) + s.window
    PROVE  NoticeKept(s, time, slot) <=>
              FirstDay(s, DayOf(time)) # <<>> /\ FirstDay(s, DayOf(time))[1] <= DayOf(slot)
<1> DEFINE today == DayOf(time)
           day == DayOf(slot)
           counted == {d \in (today + 1)..day : \E t \in 0..(DayLength - 1) : Open(s, At(d, t))}
<1>1. today \in Nat /\ day \in Nat /\ s.window \in Nat /\ today <= day /\ day <= today + s.window
  BY DayFacts DEF IsSchedule
<1>2. NoticeKept(s, time, slot) <=> Cardinality(counted) >= s.notice
  BY DEF NoticeKept
<1> HIDE DEF today, day
<1>3. \A d \in (today + 1)..day : d \in today..(today + s.window + 15)
  BY <1>1
<1>4. counted = Days(Business(s, today), today, day)
  BY <1>1, <1>3, BusinessFacts DEF OpenDay, Days
<1>5. day \in today..(today + s.window + 30)
  BY <1>1
<1>6. Cardinality(Days(Business(s, today), today, day)) >= s.notice
        <=> FirstDay(s, today) # <<>> /\ FirstDay(s, today)[1] <= day
  BY <1>1, <1>5, FirstDayFacts
<1> QED BY <1>2, <1>4, <1>6 DEF today, day

\* The slots computed are exactly those that are open, to come, within the
\* window and with the notice kept; in the order of time.
LEMMA CandidatesFacts ==
    ASSUME NEW s, IsSchedule(s), NEW time \in Nat
    PROVE  /\ Candidates(s, time) \in Seq(Int) /\ Increasing(Candidates(s, time))
           /\ \A slot : slot \in Range(Candidates(s, time)) <=> Eligible(s, time, slot)
<1> DEFINE today == DayOf(time)
           f == FirstDay(s, today)
           days == IF f = <<>> THEN 0 ELSE today + s.window - f[1] + 1
           ss == [i \in 1..days |-> SlotsOf(s, time, f[1] + i - 1)]
           c == Candidates(s, time)
<1>1. c = IF days < 1 THEN <<>> ELSE FlattenSeq(ss)
  BY DEF Candidates
<1>2. today \in Nat /\ s.window \in Nat
  BY DayFacts DEF IsSchedule
<1>3. f # <<>> => f[1] \in Nat /\ today <= f[1]
  BY <1>2, FirstDayFacts
<1>4. ASSUME NEW slot, Eligible(s, time, slot)
      PROVE  /\ DayOf(slot) \in today..(today + s.window) /\ f # <<>> /\ f[1] <= DayOf(slot)
  <2>1. slot \in Nat /\ slot > time /\ DayOf(slot) \in Nat /\ DayOf(slot) <= today + s.window
    BY <1>4, DayFacts DEF Eligible
  <2>2. today <= DayOf(slot)
    <3>1. /\ MinuteOf(slot) \in 0..(DayLength - 1) /\ slot = At(DayOf(slot), MinuteOf(slot))
          /\ MinuteOf(time) \in 0..(DayLength - 1) /\ time = At(today, MinuteOf(time))
      BY <2>1, DayFacts
    <3>2. At(today, MinuteOf(time)) < At(DayOf(slot), MinuteOf(slot))
      BY <2>1, <3>1
    <3>3. today < DayOf(slot) \/ today = DayOf(slot)
      BY <1>2, <2>1, <3>1, <3>2, AtOrder
    <3> QED BY <1>2, <2>1, <3>3
  <2>3. NoticeKept(s, time, slot)
    BY <1>4 DEF Eligible
  <2> QED BY <1>2, <2>1, <2>2, <2>3, NoticeFacts
<1>5. CASE days < 1
  <2>1. ASSUME NEW slot, Eligible(s, time, slot) PROVE FALSE
    <3>1. f # <<>> /\ f[1] \in Nat /\ f[1] <= today + s.window
      BY <1>2, <1>3, <1>4, <2>1
    <3> HIDE DEF f
    <3> QED BY <1>2, <1>5, <3>1
  <2>2. c = <<>> /\ Range(<<>>) = {} /\ Increasing(<<>>)
    BY <1>1, <1>5 DEF Range, Increasing
  <2> QED BY <2>1, <2>2, EmptySeq
<1>6. CASE ~(days < 1)
  <2>1. f # <<>>
    BY <1>6
  <2>2. f[1] \in Nat /\ today <= f[1]
    BY <1>3, <2>1
  <2>3. days = today + s.window - f[1] + 1 /\ days \in Nat
    <3>1. days = today + s.window - f[1] + 1
      BY <2>1
    <3> HIDE DEF days, f
    <3> QED BY <1>2, <1>6, <2>2, <3>1
  <2> HIDE DEF days
  <2>4. ASSUME NEW i \in 1..days
        PROVE  /\ f[1] + i - 1 \in today..(today + s.window)
               /\ SlotsOf(s, time, f[1] + i - 1) \in Seq(Int)
               /\ Increasing(SlotsOf(s, time, f[1] + i - 1))
               /\ Range(SlotsOf(s, time, f[1] + i - 1))
                    = {slot \in Nat : DayOf(slot) = f[1] + i - 1 /\ Open(s, slot) /\ slot > time}
    <3>1. f[1] + i - 1 \in today..(today + s.window)
      <4> HIDE DEF f
      <4> QED BY <1>2, <2>2, <2>3
    <3> QED BY <3>1, SlotsOfFacts
  <2>5. /\ ss \in Seq(Seq(Int)) /\ Len(ss) = days
        /\ \A i \in 1..days : ss[i] = SlotsOf(s, time, f[1] + i - 1)
    <3>1. \A i \in 1..days : SlotsOf(s, time, f[1] + i - 1) \in Seq(Int)
      BY <2>4
    <3> HIDE DEF f
    <3>2. days \in Nat
      BY <2>3
    <3> QED BY <3>1, <3>2
  <2> HIDE DEF ss, f
  <2>6. ASSUME NEW i \in 1..days, NEW j \in 1..days, i < j, NEW x \in Range(ss[i]), NEW y \in Range(ss[j])
        PROVE  x < y
    <3>1. /\ x \in Nat /\ DayOf(x) = f[1] + i - 1
          /\ y \in Nat /\ DayOf(y) = f[1] + j - 1
      BY <2>4, <2>5
    <3>2. DayOf(x) \in Nat /\ DayOf(y) \in Nat /\ DayOf(x) < DayOf(y)
      <4>1. DayOf(x) \in Nat /\ DayOf(y) \in Nat
        BY <3>1, DayFacts
      <4>2. f[1] + i - 1 < f[1] + j - 1
        BY <2>2, <2>3, <2>6
      <4> QED BY <3>1, <4>1, <4>2
    <3>3. /\ MinuteOf(x) \in 0..(DayLength - 1) /\ x = At(DayOf(x), MinuteOf(x))
          /\ MinuteOf(y) \in 0..(DayLength - 1) /\ y = At(DayOf(y), MinuteOf(y))
      BY <3>1, DayFacts
    <3>4. At(DayOf(x), MinuteOf(x)) < At(DayOf(y), MinuteOf(y))
      BY <3>2, <3>3, AtOrder
    <3> QED BY <3>3, <3>4
  <2>7. \A i \in 1..Len(ss) : Increasing(ss[i])
    BY <2>4, <2>5
  <2>8. c = FlattenSeq(ss)
    BY <1>1, <1>6
  <2>9. FlattenSeq(ss) \in Seq(Int) /\ Range(FlattenSeq(ss)) = Held(ss, Len(ss))
    BY <2>5, FlattenFacts
  <2>10. Increasing(FlattenSeq(ss))
    BY <2>5, <2>6, <2>7, FlattenIncreasing
  <2>11. ASSUME NEW slot \in Held(ss, Len(ss)) PROVE Eligible(s, time, slot)
    <3>1. PICK i \in 1..days : slot \in Range(ss[i])
      BY <2>5 DEF Held
    <3>2. slot \in Nat /\ DayOf(slot) = f[1] + i - 1 /\ Open(s, slot) /\ slot > time
      BY <2>4, <2>5, <3>1
    <3>3. DayOf(slot) \in today..(today + s.window)
      BY <2>4, <3>2
    <3>4. f[1] <= DayOf(slot) /\ today <= DayOf(slot) /\ DayOf(slot) <= today + s.window
      BY <1>2, <2>2, <2>3, <3>2, <3>3
    <3>5. NoticeKept(s, time, slot)
      BY <2>1, <3>2, <3>4, NoticeFacts DEF f
    <3> QED BY <3>2, <3>4, <3>5 DEF Eligible
  <2>12. ASSUME NEW slot, Eligible(s, time, slot) PROVE slot \in Held(ss, Len(ss))
    <3>1. DayOf(slot) \in today..(today + s.window) /\ f[1] <= DayOf(slot)
      BY <1>4, <2>12
    <3> DEFINE i == DayOf(slot) - f[1] + 1
    <3>2. i \in 1..days /\ DayOf(slot) = f[1] + i - 1
      BY <1>2, <2>2, <2>3, <3>1
    <3>3. slot \in Nat /\ Open(s, slot) /\ slot > time
      BY <2>12 DEF Eligible
    <3> HIDE DEF i
    <3>4. slot \in Range(ss[i])
      BY <2>4, <2>5, <3>2, <3>3
    <3> QED BY <2>5, <3>2, <3>4 DEF Held
  <2> QED BY <2>8, <2>9, <2>10, <2>11, <2>12
<1> QED BY <1>5, <1>6

\* What is offered of them is exactly what still has a seat.
LEMMA OfferFacts ==
    ASSUME NEW s, IsSchedule(s), NEW time \in Nat, NEW S0, NEW booked \in [S0 -> Nat]
    PROVE  /\ Offer(s, time, booked) \in Seq(Int) /\ Increasing(Offer(s, time, booked))
           /\ \A slot : slot \in Range(Offer(s, time, booked)) <=>
                           slot \in Nat /\ Bookable(s, time, booked, slot)
<1> DEFINE c == Candidates(s, time)
           K == {slot \in Range(c) : s.seats - Counted(c, booked, slot) > 0}
           o == Offer(s, time, booked)
<1>1. /\ c \in Seq(Int) /\ Increasing(c)
      /\ \A slot : slot \in Range(c) <=> Eligible(s, time, slot)
  BY CandidatesFacts
<1>2. o = Kept(c, K)
  BY DEF Offer, Vacant
<1> HIDE DEF c
<1>3. o \in Seq(Int) /\ Range(o) = Range(c) \cap K /\ Increasing(o)
  <2> HIDE DEF K, o
  <2>1. Kept(c, K) \in Seq(Int) /\ Range(Kept(c, K)) = Range(c) \cap K
    BY <1>1, KeptFacts
  <2>2. Increasing(Kept(c, K))
    BY <1>1, KeptIncreasing
  <2> QED BY <1>2, <2>1, <2>2
<1>4. ASSUME NEW slot \in Range(c)
      PROVE  s.seats - Counted(c, booked, slot) > 0 <=> (slot \in DOMAIN booked => booked[slot] < s.seats)
  <2>1. Len(c) \in Nat /\ Range(c) = {c[i] : i \in 1..Len(c)} /\ s.seats \in Nat \ {0}
    BY <1>1, LenProperties, RangeFacts DEF IsSchedule
  <2>2. PICK i \in 1..Len(c) : slot = c[i]
    BY <2>1
  <2>3. 1 \in 1..Len(c) /\ Len(c) \in 1..Len(c)
    BY <2>1
  <2>4. c[1] \in Int /\ c[i] \in Int /\ c[Len(c)] \in Int
    BY <1>1, <2>3, ElementOfSeq
  <2>5. c[1] <= slot
    BY <1>1, <2>1, <2>2, <2>3, <2>4 DEF Increasing
  <2>6. slot <= c[Len(c)]
    BY <1>1, <2>1, <2>2, <2>3, <2>4 DEF Increasing
  <2>7. Counted(c, booked, slot) = IF slot \in DOMAIN booked THEN booked[slot] ELSE 0
    BY <2>5, <2>6 DEF Counted
  <2>8. slot \in DOMAIN booked => booked[slot] \in Nat
    OBVIOUS
  <2> QED BY <2>1, <2>7, <2>8
<1>5. \A slot : slot \in Range(c) \cap K <=> slot \in Nat /\ Bookable(s, time, booked, slot)
  BY <1>1, <1>4 DEF Eligible, Bookable
<1> QED BY <1>3, <1>5 DEF o
-----------------------------------------------------------------------------
(* The pages of a list                                                     *)

PageBounds == [start: Nat, end: Nat]

\* Pages that lead from an offset after the first page to the end of the list.
Chain(total, offset, s) ==
    /\ s \in Seq(PageBounds) /\ (s = <<>> <=> offset = total)
    /\ s # <<>> => s[1].start = offset /\ s[Len(s)].end = total
    /\ \A i \in 1..Len(s) :
           /\ s[i].start < s[i].end /\ s[i].end <= total
           /\ s[i].end - s[i].start <= IF i = Len(s) THEN Rows - 1 ELSE Rows - 2
    /\ \A i, j \in 1..Len(s) : j = i + 1 => s[j].start = s[i].end

\* A page put in front of a chain of pages makes a longer chain.
LEMMA ChainLonger ==
    ASSUME NEW total \in Nat, NEW offset \in Nat, NEW end \in Nat, offset < end, end <= total,
           NEW s, Chain(total, end, s),
           end - offset <= IF end = total THEN Rows - 1 ELSE Rows - 2
    PROVE  Chain(total, offset, <<[start |-> offset, end |-> end]>> \o s)
<1> DEFINE b == [start |-> offset, end |-> end]
           t == <<b>> \o s
<1>1. b \in PageBounds /\ s \in Seq(PageBounds) /\ Len(s) \in Nat
  BY LenProperties DEF PageBounds, Chain
<1>2. /\ t \in Seq(PageBounds) /\ Len(t) = Len(s) + 1 /\ t # <<>>
      /\ t[1] = b /\ \A i \in 1..Len(s) : t[i + 1] = s[i]
  <2>1. <<b>> \in Seq(PageBounds) /\ Len(<<b>>) = 1 /\ <<b>>[1] = b
    BY <1>1
  <2>2. t \in Seq(PageBounds) /\ Len(t) = Len(s) + 1
    BY <1>1, <2>1, ConcatProperties
  <2>3. t[1] = b
    BY <1>1, <2>1, ConcatProperties
  <2>4. \A i \in 1..Len(s) : t[i + 1] = s[i]
    BY <1>1, <2>1, ConcatProperties
  <2> HIDE DEF t
  <2> QED BY <1>1, <2>2, <2>3, <2>4, LenProperties
<1> HIDE DEF t
<1>3. \A i \in 1..Len(t) : i # 1 => i - 1 \in 1..Len(s) /\ t[i] = s[i - 1]
  <2>1. ASSUME NEW i \in 1..Len(t), i # 1 PROVE i - 1 \in 1..Len(s) /\ t[i] = s[i - 1]
    <3>1. i - 1 \in 1..Len(s) /\ (i - 1) + 1 = i
      BY <1>1, <1>2, <2>1
    <3>2. t[(i - 1) + 1] = s[i - 1]
      BY <1>2, <3>1
    <3> QED BY <3>1, <3>2
  <2> QED BY <2>1
<1>4. Len(s) = 0 <=> s = <<>>
  BY <1>1, EmptySeq
<1>5. RowsAssumption
  BY RowsAssumption
<1>6. s # <<>> => t[2] = s[1] /\ t[Len(t)] = s[Len(s)] /\ Len(t) # 1
  <2> SUFFICES ASSUME s # <<>> PROVE t[2] = s[1] /\ t[Len(t)] = s[Len(s)] /\ Len(t) # 1
    OBVIOUS
  <2>1. 1 \in 1..Len(s) /\ Len(s) \in 1..Len(s)
    BY <1>1, <1>4
  <2>2. t[1 + 1] = s[1] /\ t[Len(s) + 1] = s[Len(s)] /\ Len(s) + 1 # 1
    BY <1>2, <2>1
  <2> QED BY <1>2, <2>2
<1>7. t[Len(t)].end = total
  BY <1>1, <1>2, <1>4, <1>6 DEF Chain
<1>8. ASSUME NEW i \in 1..Len(t)
      PROVE  /\ t[i].start < t[i].end /\ t[i].end <= total
             /\ t[i].end - t[i].start <= IF i = Len(t) THEN Rows - 1 ELSE Rows - 2
  <2>1. CASE i = 1
    <3>1. i = Len(t) <=> end = total
      BY <2>1, <1>1, <1>2, <1>4 DEF Chain
    <3> QED BY <2>1, <3>1, <1>2
  <2>2. CASE i # 1
    <3>1. i - 1 \in 1..Len(s) /\ t[i] = s[i - 1] /\ (i = Len(t) <=> i - 1 = Len(s))
      BY <2>2, <1>1, <1>2, <1>3
    <3> QED BY <3>1 DEF Chain
  <2> QED BY <2>1, <2>2
<1>9. ASSUME NEW i \in 1..Len(t), NEW j \in 1..Len(t), j = i + 1
      PROVE  t[j].start = t[i].end
  <2>1. CASE i = 1
    <3>1. s # <<>> /\ j = 2
      BY <2>1, <1>1, <1>2, <1>4, <1>9
    <3> QED BY <2>1, <3>1, <1>2, <1>6 DEF Chain
  <2>2. CASE i # 1
    <3>1. i - 1 \in 1..Len(s) /\ j - 1 \in 1..Len(s) /\ j - 1 = (i - 1) + 1 /\ t[i] = s[i - 1] /\ t[j] = s[j - 1]
      BY <2>2, <1>1, <1>2, <1>3, <1>9
    <3> QED BY <3>1 DEF Chain
  <2> QED BY <2>1, <2>2
<1>10. t[1].start = offset /\ offset # total
  BY <1>2
<1>11. Chain(total, offset, t)
  BY <1>2, <1>7, <1>8, <1>9, <1>10 DEF Chain
<1> QED BY <1>11 DEF t

Room(total, offset) ==
    IF offset > 0 /\ total - offset <= Rows - 1 THEN total - offset
    ELSE IF offset = 0 THEN Rows - 1 ELSE Rows - 2

\* The bounds of the pages are the first page, and a chain of the others.
LEMMA BoundsChain ==
    ASSUME NEW total \in Nat, total > Rows
    PROVE  \E s : Chain(total, Rows - 1, s) /\ Bounds(total) = <<[start |-> 0, end |-> Rows - 1]>> \o s
<1> DEFINE D == 0..total
           V == Seq(PageBounds)
           Next1(o) == IF o = total THEN o ELSE o + Room(total, o)
           rank == [o \in D |-> total - o]
           next == [o \in D |-> Next1(o)]
           base == [o \in D |-> <<>>]
           cons == [p \in D \X V |-> <<[start |-> p[1], end |-> Next1(p[1])]>> \o p[2]]
           Val(f, o) == IF o = total THEN <<>>
                        ELSE <<[start |-> o, end |-> o + Room(total, o)]>> \o f[o + Room(total, o)]
<1>1. Rows \in Nat /\ Rows >= 3
  BY RowsAssumption
<1>2. \A o \in D : /\ o \in Nat /\ Next1(o) \in D /\ Next1(o) \in Nat
                   /\ (o # total => Next1(o) = o + Room(total, o) /\ o < Next1(o))
                   /\ (o \in 1..(total - 1) =>
                          Next1(o) - o <= IF Next1(o) = total THEN Rows - 1 ELSE Rows - 2)
  BY <1>1 DEF Room
<1>3. /\ rank \in [D -> Nat] /\ next \in [D -> D] /\ base \in [D -> V]
  BY <1>2, EmptySeq
<1>4. cons \in [D \X V -> V]
  <2>1. ASSUME NEW o \in D, NEW v \in V
        PROVE  <<[start |-> o, end |-> Next1(o)]>> \o v \in V
    <3>1. <<[start |-> o, end |-> Next1(o)]>> \in Seq(PageBounds)
      BY <1>2 DEF PageBounds
    <3> QED BY <3>1, ConcatProperties
  <2> HIDE DEF V, Next1
  <2> QED BY <2>1
<1>5. \E f \in [D -> V] : \A o \in D : f[o] = IF o \in {total} THEN base[o] ELSE cons[<<o, f[next[o]]>>]
  <2>1. total + 1 \in Nat /\ \A o \in D : rank[o] < total + 1
    OBVIOUS
  <2>2. \A o \in D \ {total} : rank[next[o]] < rank[o]
    BY <1>2
  <2> HIDE DEF D, V, rank, next, base, cons
  <2>3. Recurs(D, V, total + 1, rank, next, {total}, base, cons)
    BY <1>3, <1>4, <2>1, <2>2 DEF Recurs
  <2> QED BY <2>3, Recursion
<1>6. PICK f \in [D -> V] : \A o \in D : f[o] = IF o \in {total} THEN base[o] ELSE cons[<<o, f[next[o]]>>]
  BY <1>5
<1>7. \A o \in D : f[o] = Val(f, o)
  <2> SUFFICES ASSUME NEW o \in D PROVE f[o] = Val(f, o)
    OBVIOUS
  <2>1. CASE o = total
    BY <1>6, <2>1
  <2>2. CASE o # total
    <3>1. next[o] = o + Room(total, o) /\ next[o] \in D
      BY <1>2, <2>2
    <3>2. f[o] = cons[<<o, f[next[o]]>>] /\ f[next[o]] \in V
      BY <1>6, <2>2, <3>1
    <3> HIDE DEF V
    <3>3. cons[<<o, f[next[o]]>>] = <<[start |-> o, end |-> Next1(o)]>> \o f[next[o]]
      BY <3>2
    <3> QED BY <1>2, <2>2, <3>1, <3>2, <3>3
  <2> QED BY <2>1, <2>2
<1>8. f = [o \in 0..total |-> Val(f, o)]
  BY <1>7
<1> DEFINE h == CHOOSE g : g = [o \in 0..total |-> Val(g, o)]
<1>9. h = [o \in 0..total |-> Val(h, o)]
  BY <1>8
<1>h. \A o \in 0..total : h[o] = Val(h, o)
  <2> HIDE DEF Val, h
  <2> QED BY <1>9
<1>10. Bounds(total) = h[0]
  BY DEF Bounds, Room
<1> HIDE DEF h
<1>11. ASSUME NEW o \in 1..total, \A e \in 1..total : total - e < total - o => Chain(total, e, h[e])
       PROVE  Chain(total, o, h[o])
  <2>1. CASE o = total
    <3>1. h[o] = <<>>
      <4>1. o \in 0..total /\ h[o] = Val(h, o)
        BY <1>h
      <4> QED BY <2>1, <4>1
    <3> QED BY <2>1, <3>1, EmptySeq DEF Chain
  <2>2. CASE o # total
    <3> DEFINE e == o + Room(total, o)
    <3>1. h[o] = <<[start |-> o, end |-> e]>> \o h[e]
      <4>1. h[o] = Val(h, o)
        BY <1>h
      <4> QED BY <2>2, <4>1
    <3>2. /\ o \in Nat /\ e \in Nat /\ o < e /\ e <= total /\ e \in 1..total
          /\ e - o <= IF e = total THEN Rows - 1 ELSE Rows - 2
          /\ total - e < total - o
      BY <1>1, <2>2 DEF Room
    <3>3. Chain(total, e, h[e])
      BY <3>2, <1>11
    <3> HIDE DEF e
    <3> QED BY <3>1, <3>2, <3>3, ChainLonger
  <2> QED BY <2>1, <2>2
<1>12. Chain(total, Rows - 1, h[Rows - 1])
  <2> DEFINE D1 == 1..total
             r1 == [o \in D1 |-> total - o]
             P == {o \in D1 : Chain(total, o, h[o])}
  <2>1. r1 \in [D1 -> Nat]
    OBVIOUS
  <2>2. \A o \in D1 : (\A e \in D1 : r1[e] < r1[o] => e \in P) => o \in P
    BY <1>11
  <2>3. Rows - 1 \in D1
    BY <1>1
  <2> HIDE DEF D1, r1, P
  <2>4. D1 \subseteq P
    BY <2>1, <2>2, RankInd
  <2> QED BY <2>3, <2>4 DEF P
<1>13. h[0] = <<[start |-> 0, end |-> Rows - 1]>> \o h[Rows - 1]
  <2>1. 0 \in 0..total /\ 0 # total /\ 0 + Room(total, 0) = Rows - 1
    BY <1>1 DEF Room
  <2>2. h[0] = Val(h, 0)
    BY <1>h, <2>1
  <2> QED BY <2>1, <2>2
<1> QED BY <1>10, <1>12, <1>13

\* The elements of a sequence with one more in front.
LEMMA ConsFacts ==
    ASSUME NEW X, NEW b \in X, NEW s \in Seq(X)
    PROVE  LET t == <<b>> \o s
           IN  /\ t \in Seq(X) /\ Len(t) = Len(s) + 1 /\ Len(s) \in Nat /\ t[1] = b
               /\ \A i \in 1..Len(t) : i # 1 => i - 1 \in 1..Len(s) /\ t[i] = s[i - 1]
               /\ (s = <<>> <=> Len(s) = 0)
               /\ s # <<>> => t[2] = s[1] /\ t[Len(t)] = s[Len(s)]
<1> DEFINE t == <<b>> \o s
<1>1. Len(s) \in Nat /\ (s = <<>> <=> Len(s) = 0)
  BY LenProperties, EmptySeq
<1>2. <<b>> \in Seq(X) /\ Len(<<b>>) = 1 /\ <<b>>[1] = b
  OBVIOUS
<1>3. t \in Seq(X) /\ Len(t) = Len(s) + 1
  BY <1>2, ConcatProperties
<1>4. t[1] = b
  BY <1>1, <1>2, ConcatProperties
<1>5. \A i \in 1..Len(s) : t[i + 1] = s[i]
  BY <1>1, <1>2, ConcatProperties
<1> HIDE DEF t
<1>6. ASSUME NEW i \in 1..Len(t), i # 1 PROVE i - 1 \in 1..Len(s) /\ t[i] = s[i - 1]
  <2>1. i - 1 \in 1..Len(s) /\ (i - 1) + 1 = i
    BY <1>1, <1>3, <1>6
  <2>2. t[(i - 1) + 1] = s[i - 1]
    BY <1>5, <2>1
  <2> QED BY <2>1, <2>2
<1>7. s # <<>> => t[2] = s[1] /\ t[Len(t)] = s[Len(s)]
  <2> SUFFICES ASSUME s # <<>> PROVE t[2] = s[1] /\ t[Len(t)] = s[Len(s)]
    OBVIOUS
  <2>1. 1 \in 1..Len(s) /\ Len(s) \in 1..Len(s)
    BY <1>1
  <2>2. t[1 + 1] = s[1] /\ t[Len(s) + 1] = s[Len(s)]
    BY <1>5, <2>1
  <2> QED BY <1>3, <2>2
<1> QED BY <1>1, <1>3, <1>4, <1>6, <1>7 DEF t

\* The bounds of the pages of a list that needs more than one: each page has
\* something, starts where the one before it ends and leaves room for its rows.
LEMMA BoundsFacts ==
    ASSUME NEW total \in Nat, total > Rows
    PROVE  LET b == Bounds(total)
           IN  /\ b \in Seq(PageBounds) /\ Len(b) \in Nat /\ Len(b) >= 2
               /\ b[1].start = 0 /\ b[Len(b)].end = total
               /\ \A i \in 1..Len(b) :
                      /\ b[i].start \in Nat /\ b[i].end \in Nat
                      /\ b[i].start < b[i].end /\ b[i].end <= total
                      /\ b[i].end - b[i].start <= IF i \in {1, Len(b)} THEN Rows - 1 ELSE Rows - 2
               /\ \A i, j \in 1..Len(b) : j = i + 1 => b[j].start = b[i].end
<1> DEFINE e == [start |-> 0, end |-> Rows - 1]
<1>1. Rows \in Nat /\ Rows >= 3
  BY RowsAssumption
<1>2. PICK s : Chain(total, Rows - 1, s) /\ Bounds(total) = <<e>> \o s
  BY BoundsChain
<1>3. e \in PageBounds /\ s \in Seq(PageBounds)
  BY <1>1, <1>2 DEF PageBounds, Chain
<1> DEFINE b == <<e>> \o s
<1>4. /\ b \in Seq(PageBounds) /\ Len(b) = Len(s) + 1 /\ Len(s) \in Nat /\ b[1] = e
      /\ \A i \in 1..Len(b) : i # 1 => i - 1 \in 1..Len(s) /\ b[i] = s[i - 1]
      /\ (s = <<>> <=> Len(s) = 0)
      /\ s # <<>> => b[2] = s[1] /\ b[Len(b)] = s[Len(s)]
  <2> HIDE DEF e
  <2> QED BY <1>3, ConsFacts
<1> HIDE DEF b
<1>5. s # <<>> /\ Len(b) >= 2
  BY <1>1, <1>2, <1>4 DEF Chain
<1>6. b[1].start = 0 /\ b[Len(b)].end = total
  BY <1>2, <1>4, <1>5 DEF Chain
<1>7. ASSUME NEW i \in 1..Len(b)
      PROVE  /\ b[i].start \in Nat /\ b[i].end \in Nat
             /\ b[i].start < b[i].end /\ b[i].end <= total
             /\ b[i].end - b[i].start <= IF i \in {1, Len(b)} THEN Rows - 1 ELSE Rows - 2
  <2>1. CASE i = 1
    BY <2>1, <1>1, <1>4
  <2>2. CASE i # 1
    <3>1. i - 1 \in 1..Len(s) /\ b[i] = s[i - 1] /\ (i = Len(b) <=> i - 1 = Len(s))
      BY <2>2, <1>4
    <3>2. s[i - 1] \in PageBounds
      BY <3>1, <1>3, ElementOfSeq
    <3> QED BY <2>2, <3>1, <3>2, <1>2 DEF Chain, PageBounds
  <2> QED BY <2>1, <2>2
<1>8. ASSUME NEW i \in 1..Len(b), NEW j \in 1..Len(b), j = i + 1
      PROVE  b[j].start = b[i].end
  <2>1. CASE i = 1
    <3>1. j = 2
      BY <2>1, <1>8
    <3>2. b[j].start = Rows - 1
      BY <3>1, <1>2, <1>4, <1>5 DEF Chain
    <3> QED BY <2>1, <3>2, <1>4
  <2>2. CASE i # 1
    <3>1. i - 1 \in 1..Len(s) /\ b[i] = s[i - 1]
      BY <2>2, <1>4
    <3>2. j # 1 /\ j - 1 = (i - 1) + 1
      BY <2>2, <1>8, <1>4
    <3>3. j - 1 \in 1..Len(s) /\ b[j] = s[j - 1]
      BY <3>2, <1>4
    <3> QED BY <3>1, <3>2, <3>3, <1>2 DEF Chain
  <2> QED BY <2>1, <2>2
<1> QED BY <1>2, <1>4, <1>5, <1>6, <1>7, <1>8 DEF b

\* What a page of a list is.
IsPageOf(p, items) ==
    /\ p = [items |-> p.items, at |-> p.at, pages |-> p.pages]
    /\ p.pages \in Nat /\ p.at \in 1..p.pages
    /\ Len(p.items) \in Nat /\ Len(p.items) <= Len(items)
    /\ p.items = [i \in 1..Len(p.items) |-> p.items[i]]
    /\ \E k \in Nat : /\ k + Len(p.items) <= Len(items)
                      /\ \A i \in 1..Len(p.items) : p.items[i] = items[k + i]
    /\ items # <<>> => Len(p.items) > 0
    /\ Len(p.items) + (IF HasBack(p) THEN 1 ELSE 0) + (IF HasMore(p) THEN 1 ELSE 0) <= Rows

\* What is returned for any number asked is a page of the list, and the page
\* asked when there is one of that number.
LEMMA PageFacts ==
    ASSUME NEW X, NEW items \in Seq(X), NEW asked \in Int
    PROVE  /\ IsPageOf(Paginate(items, asked), items)
           /\ asked \in 1..Paginate(items, asked).pages => Paginate(items, asked).at = asked
           /\ Paginate(items, asked).pages = IF Len(items) <= Rows THEN 1 ELSE Len(Bounds(Len(items)))
           /\ Paginate(items, asked).items \in Seq(X)
<1> DEFINE p == Paginate(items, asked)
<1>1. Rows \in Nat /\ Rows >= 3 /\ Len(items) \in Nat /\ (items = <<>> <=> Len(items) = 0)
  BY RowsAssumption, LenProperties, EmptySeq
<1>2. CASE Len(items) <= Rows
  <2>1. p = [items |-> items, at |-> 1, pages |-> 1]
    BY <1>2 DEF Paginate
  <2>2. items = [i \in 1..Len(items) |-> items[i]]
    BY LenProperties
  <2>3. \A i \in 1..Len(items) : items[i] = items[0 + i]
    BY <1>1
  <2> HIDE DEF p
  <2>4. IsPageOf(p, items)
    <3>1. ~HasBack(p) /\ ~HasMore(p)
      BY <2>1 DEF HasBack, HasMore
    <3>2. \E k \in Nat : /\ k + Len(p.items) <= Len(items)
                         /\ \A i \in 1..Len(p.items) : p.items[i] = items[k + i]
      <4>1. 0 \in Nat /\ 0 + Len(p.items) <= Len(items)
        BY <1>1, <2>1
      <4> QED BY <2>1, <2>3, <4>1
    <3> QED BY <1>1, <1>2, <2>1, <2>2, <3>1, <3>2 DEF IsPageOf
  <2> QED BY <1>2, <2>1, <2>4 DEF p
<1>3. CASE Len(items) > Rows
  <2> DEFINE b == Bounds(Len(items))
             at == IF asked < 1 THEN 1 ELSE IF asked > Len(b) THEN Len(b) ELSE asked
             page1 == SubSeq(items, b[at].start + 1, b[at].end)
  <2>1. p = [items |-> page1, at |-> at, pages |-> Len(b)]
    BY <1>1, <1>3 DEF Paginate
  <2>2. /\ Len(b) \in Nat /\ Len(b) >= 2
        /\ \A i \in 1..Len(b) :
               /\ b[i].start \in Nat /\ b[i].end \in Nat
               /\ b[i].start < b[i].end /\ b[i].end <= Len(items)
               /\ b[i].end - b[i].start <= IF i \in {1, Len(b)} THEN Rows - 1 ELSE Rows - 2
    BY <1>1, <1>3, BoundsFacts
  <2> HIDE DEF b
  <2>3. at \in 1..Len(b) /\ (asked \in 1..Len(b) => at = asked)
    BY <2>2
  <2> HIDE DEF at
  <2>4. /\ page1 \in Seq(X) /\ Len(page1) = b[at].end - b[at].start
        /\ \A i \in 1..Len(page1) : page1[i] = items[b[at].start + i]
    <3> DEFINE m == b[at].start + 1
               n == b[at].end
    <3>1. m \in 1..Len(items) + 1 /\ n \in (m - 1)..Len(items) /\ m \in Int /\ n \in Int /\ m >= 1 /\ n <= Len(items)
      BY <1>1, <2>2, <2>3
    <3>2. /\ page1 \in Seq(X) /\ Len(page1) = n - m + 1
          /\ \A i \in 1..n - m + 1 : page1[i] = items[m + i - 1]
      <4>1. \A i \in m..n : items[i] \in X
        <5>1. \A i \in m..n : i \in 1..Len(items)
          BY <3>1, <1>1
        <5> QED BY <5>1, ElementOfSeq
      <4>2. m <= n
        BY <2>2, <2>3
      <4>3. page1 = SubSeq(items, m, n)
        OBVIOUS
      <4> HIDE DEF page1, m, n
      <4> QED BY <3>1, <4>1, <4>2, <4>3, SubSeqProperties
    <3>3. \A i \in 1..Len(page1) : m + i - 1 = b[at].start + i
      BY <2>2, <2>3, <3>2
    <3>4. Len(page1) = b[at].end - b[at].start
      BY <2>2, <2>3, <3>2
    <3> HIDE DEF page1
    <3>5. \A i \in 1..Len(page1) : page1[i] = items[b[at].start + i]
      BY <3>2, <3>3
    <3> QED BY <3>2, <3>4, <3>5
  <2> HIDE DEF page1, p
  <2>5. IsPageOf(p, items)
    <3>1. page1 = [i \in 1..Len(page1) |-> page1[i]] /\ Len(page1) \in Nat
      BY <2>4, LenProperties
    <3>2. /\ b[at].start \in Nat /\ b[at].start + Len(page1) <= Len(items)
          /\ Len(page1) <= Len(items) /\ Len(page1) > 0
      BY <1>1, <2>2, <2>3, <2>4
    <3>3. HasBack(p) <=> at # 1
      BY <2>1, <2>2, <2>3 DEF HasBack
    <3>4. HasMore(p) <=> at # Len(b)
      BY <2>1, <2>2, <2>3 DEF HasMore
    <3>5. Len(page1) + (IF HasBack(p) THEN 1 ELSE 0) + (IF HasMore(p) THEN 1 ELSE 0) <= Rows
      BY <1>1, <2>2, <2>3, <2>4, <3>1, <3>3, <3>4
    <3>6. \E k \in Nat : /\ k + Len(p.items) <= Len(items)
                         /\ \A i \in 1..Len(p.items) : p.items[i] = items[k + i]
      BY <2>1, <2>4, <3>2
    <3> QED BY <2>1, <2>2, <2>3, <3>1, <3>2, <3>5, <3>6 DEF IsPageOf
  <2> QED BY <1>1, <1>3, <2>1, <2>3, <2>4, <2>5 DEF p, b
<1> QED BY <1>1, <1>2, <1>3

\* The rows of a page: its items, then "back" and "more".
RowOptions(p, kind) ==
    {Option(kind, p.items[i]) : i \in 1..Len(p.items)}
    \cup (IF HasBack(p) THEN {Option("page", p.at - 1)} ELSE {})
    \cup (IF HasMore(p) THEN {Option("page", p.at + 1)} ELSE {})

\* The rows of a page: its items, then back, then more.
LEMMA RowsFacts ==
    ASSUME NEW items, NEW p, IsPageOf(p, items), NEW kind
    PROVE  LET rows == RowsOf(p, kind)
           IN  /\ rows \in Seq(RowOptions(p, kind)) /\ Len(rows) \in Nat
               /\ Len(rows) = Len(p.items) + (IF HasBack(p) THEN 1 ELSE 0) + (IF HasMore(p) THEN 1 ELSE 0)
               /\ \A i \in 1..Len(p.items) : rows[i] = Option(kind, p.items[i])
               /\ HasBack(p) => rows[BackNumber(p)] = Option("page", p.at - 1)
               /\ HasMore(p) => rows[MoreNumber(p)] = Option("page", p.at + 1)
<1> DEFINE X == RowOptions(p, kind)
           n == Len(p.items)
           a == [i \in 1..n |-> Option(kind, p.items[i])]
           b == IF HasBack(p) THEN <<Option("page", p.at - 1)>> ELSE <<>>
           c == IF HasMore(p) THEN <<Option("page", p.at + 1)>> ELSE <<>>
<1>1. n \in Nat
  BY DEF IsPageOf
<1>2. a \in Seq(X) /\ Len(a) = n /\ \A i \in 1..n : a[i] = Option(kind, p.items[i])
  BY <1>1 DEF RowOptions
<1>3. /\ b \in Seq(X) /\ Len(b) = IF HasBack(p) THEN 1 ELSE 0
      /\ HasBack(p) => b[1] = Option("page", p.at - 1)
  <2>1. HasBack(p) => Option("page", p.at - 1) \in X
    BY DEF RowOptions
  <2> HIDE DEF X
  <2> QED BY <2>1, EmptySeq
<1>4. /\ c \in Seq(X) /\ Len(c) = IF HasMore(p) THEN 1 ELSE 0
      /\ HasMore(p) => c[1] = Option("page", p.at + 1)
  <2>1. HasMore(p) => Option("page", p.at + 1) \in X
    BY DEF RowOptions
  <2> HIDE DEF X
  <2> QED BY <2>1, EmptySeq
<1>5. RowsOf(p, kind) = (a \o b) \o c
  BY DEF RowsOf
<1> HIDE DEF X, a, b, c
<1> DEFINE ab == a \o b
<1>6. /\ ab \in Seq(X) /\ Len(ab) = n + Len(b) /\ Len(b) \in {0, 1} /\ Len(c) \in {0, 1}
      /\ \A i \in 1..n : ab[i] = a[i]
      /\ \A i \in 1..Len(b) : ab[n + i] = b[i]
  <2>1. Len(b) \in {0, 1} /\ Len(c) \in {0, 1}
    BY <1>3, <1>4
  <2>2. /\ ab \in Seq(X) /\ Len(ab) = Len(a) + Len(b)
        /\ \A i \in 1..Len(a) : ab[i] = a[i]
        /\ \A i \in 1..Len(b) : ab[Len(a) + i] = b[i]
    <3>1. a \in Seq(X) /\ b \in Seq(X)
      BY <1>2, <1>3
    <3>2. ab = a \o b
      OBVIOUS
    <3> HIDE DEF ab
    <3> QED BY <3>1, <3>2, JoinFacts
  <2> HIDE DEF ab
  <2> QED BY <1>2, <2>1, <2>2
<1> DEFINE rows == ab \o c
<1>7. /\ rows \in Seq(X) /\ Len(rows) = Len(ab) + Len(c)
      /\ \A i \in 1..Len(ab) : rows[i] = ab[i]
      /\ \A i \in 1..Len(c) : rows[Len(ab) + i] = c[i]
  <2>1. ab \in Seq(X) /\ c \in Seq(X)
    BY <1>4, <1>6
  <2> HIDE DEF ab
  <2>2. rows = ab \o c
    OBVIOUS
  <2> HIDE DEF rows
  <2> QED BY <2>1, <2>2, JoinFacts
<1> HIDE DEF rows, ab
<1>k. Len(b) \in Nat /\ Len(c) \in Nat /\ Len(ab) = n + Len(b)
  BY <1>6
<1> HIDE DEF n
<1>8. \A i \in 1..n : rows[i] = Option(kind, p.items[i])
  <2>1. \A i \in 1..n : i \in 1..Len(ab)
    BY <1>1, <1>k
  <2> QED BY <2>1, <1>2, <1>6, <1>7
<1>b. (HasBack(p) => Len(b) = 1) /\ (~HasBack(p) => Len(b) = 0)
  BY <1>3
<1>c. (HasMore(p) => Len(c) = 1) /\ (~HasMore(p) => Len(c) = 0)
  BY <1>4
<1>n. BackNumber(p) = n + 1 /\ (HasBack(p) => MoreNumber(p) = n + 2) /\ (~HasBack(p) => MoreNumber(p) = n + 1)
  BY DEF BackNumber, MoreNumber, n
<1>9. ASSUME HasBack(p) PROVE rows[BackNumber(p)] = Option("page", p.at - 1)
  <2>1. 1 \in 1..Len(b) /\ n + 1 \in 1..Len(ab)
    <3>1. Len(b) = 1
      BY <1>b, <1>9
    <3> QED BY <1>1, <1>k, <3>1
  <2>2. rows[n + 1] = ab[n + 1] /\ ab[n + 1] = b[1]
    BY <2>1, <1>6, <1>7
  <2> QED BY <2>2, <1>3, <1>9, <1>n
<1>10. ASSUME HasMore(p) PROVE rows[MoreNumber(p)] = Option("page", p.at + 1)
  <2>1. 1 \in 1..Len(c)
    BY <1>c, <1>10
  <2>2. MoreNumber(p) = Len(ab) + 1
    <3>1. CASE HasBack(p)
      <4>1. Len(b) = 1 /\ MoreNumber(p) = n + 2
        BY <1>b, <1>n, <3>1
      <4> QED BY <1>1, <1>k, <4>1
    <3>2. CASE ~HasBack(p)
      <4>1. Len(b) = 0 /\ MoreNumber(p) = n + 1
        BY <1>b, <1>n, <3>2
      <4> QED BY <1>1, <1>k, <4>1
    <3> QED BY <3>1, <3>2
  <2>3. rows[Len(ab) + 1] = c[1]
    BY <2>1, <1>7
  <2> QED BY <2>2, <2>3, <1>4, <1>10
<1>11. rows = RowsOf(p, kind)
  BY <1>5 DEF rows, ab
<1>12. Len(rows) = n + (IF HasBack(p) THEN 1 ELSE 0) + (IF HasMore(p) THEN 1 ELSE 0) /\ Len(rows) \in Nat
  <2>1. Len(rows) = n + Len(b) + Len(c)
    BY <1>1, <1>k, <1>7
  <2>2. Len(b) = (IF HasBack(p) THEN 1 ELSE 0) /\ Len(c) = (IF HasMore(p) THEN 1 ELSE 0)
    BY <1>3, <1>4
  <2> QED BY <1>1, <1>k, <2>1, <2>2
<1> QED BY <1>7, <1>8, <1>9, <1>10, <1>11, <1>12 DEF X, n

\* A number typed means the row of that number, of any page.
LEMMA NumberMeansRow ==
    ASSUME NEW items, NEW p, IsPageOf(p, items), NEW kind, NEW n \in Nat
    PROVE  LET rows == RowsOf(p, kind)
           IN  ByNumber(p, kind, n, None) = IF n \in 1..Len(rows) THEN rows[n] ELSE None
<1> DEFINE rows == RowsOf(p, kind)
<1>1. /\ Len(rows) \in Nat
      /\ Len(rows) = Len(p.items) + (IF HasBack(p) THEN 1 ELSE 0) + (IF HasMore(p) THEN 1 ELSE 0)
      /\ \A i \in 1..Len(p.items) : rows[i] = Option(kind, p.items[i])
      /\ HasBack(p) => rows[BackNumber(p)] = Option("page", p.at - 1)
      /\ HasMore(p) => rows[MoreNumber(p)] = Option("page", p.at + 1)
  BY RowsFacts
<1>2. Len(p.items) \in Nat
  BY DEF IsPageOf
<1> HIDE DEF rows
<1>3. BackNumber(p) = Len(p.items) + 1
  BY DEF BackNumber
<1>4. MoreNumber(p) = Len(p.items) + (IF HasBack(p) THEN 2 ELSE 1)
  BY DEF MoreNumber
<1>5. ByNumber(p, kind, n, None) = IF n \in 1..Len(rows) THEN rows[n] ELSE None
  <2>1. CASE HasBack(p) /\ HasMore(p)
    BY <1>1, <1>2, <1>3, <1>4, <2>1 DEF ByNumber
  <2>2. CASE HasBack(p) /\ ~HasMore(p)
    BY <1>1, <1>2, <1>3, <1>4, <2>2 DEF ByNumber
  <2>3. CASE ~HasBack(p) /\ HasMore(p)
    BY <1>1, <1>2, <1>3, <1>4, <2>3 DEF ByNumber
  <2>4. CASE ~HasBack(p) /\ ~HasMore(p)
    BY <1>1, <1>2, <1>3, <1>4, <2>4 DEF ByNumber
  <2> QED BY <2>1, <2>2, <2>3, <2>4
<1> QED BY <1>5 DEF rows

\* The pages of a list, one after the other, are the list.
LEMMA PagesJoin ==
    ASSUME NEW X, NEW items \in Seq(X), NEW n, n = IF Len(items) <= Rows THEN 1 ELSE Len(Bounds(Len(items)))
    PROVE  FlattenSeq([p \in 1..n |-> Paginate(items, p).items]) = items
<1> DEFINE ss == [p \in 1..n |-> Paginate(items, p).items]
           total == Len(items)
           b == Bounds(total)
<1>1. Rows \in Nat /\ Rows >= 3 /\ total \in Nat
  BY RowsAssumption, LenProperties
<1>2. n \in Nat /\ n >= 1
  BY <1>1, BoundsFacts
<1>3. \A p \in 1..n : Paginate(items, p).items \in Seq(X)
  BY <1>2, PageFacts
<1>4. ss \in Seq(Seq(X)) /\ Len(ss) = n /\ \A p \in 1..n : ss[p] = Paginate(items, p).items
  BY <1>2, <1>3
<1> HIDE DEF ss
<1>5. ss # <<>>
  BY <1>2, <1>4
<1>6. PICK h : /\ \A i \in 1..n : /\ h[i] \in Seq(X)
                                  /\ h[i] = IF i = 1 THEN ss[i] ELSE h[i - 1] \o ss[i]
               /\ FlattenSeq(ss) = h[n]
  BY <1>4, <1>5, FlattenSteps
<1>7. CASE total <= Rows
  <2>1. n = 1 /\ ss[1] = items
    BY <1>4, <1>7 DEF Paginate
  <2>2. 1 \in 1..n
    BY <1>2
  <2>3. FlattenSeq(ss) = ss[1]
    BY <1>6, <2>1, <2>2
  <2>4. FlattenSeq(ss) = items
    BY <2>1, <2>3
  <2> QED BY <2>4 DEF ss
<1>8. CASE ~(total <= Rows)
  <2>1. /\ n = Len(b) /\ b[1].start = 0 /\ b[n].end = total
        /\ \A i \in 1..n : /\ b[i].start \in Nat /\ b[i].end \in Nat
                           /\ b[i].start < b[i].end /\ b[i].end <= total
        /\ \A i, j \in 1..n : j = i + 1 => b[j].start = b[i].end
    BY <1>1, <1>8, BoundsFacts
  <2>2. ASSUME NEW i \in 1..n PROVE ss[i] = SubSeq(items, b[i].start + 1, b[i].end)
    <3>1. ~(i < 1) /\ ~(i > Len(b))
      BY <1>2, <2>1
    <3> QED BY <1>4, <1>8, <3>1 DEF Paginate
  <2> HIDE DEF b
  <2> DEFINE S == {i \in 1..n : h[i] = SubSeq(items, 1, b[i].end)}
  <2>3. 1 \in S
    <3>1. 1 \in 1..n
      BY <1>2
    <3>2. h[1] = ss[1] /\ b[1].start + 1 = 1
      BY <1>6, <2>1, <3>1
    <3> QED BY <2>2, <3>1, <3>2
  <2>4. ASSUME NEW i \in 1..n, i # n, i \in S PROVE i + 1 \in S
    <3>1. i + 1 \in 1..n /\ (i + 1) - 1 = i /\ i + 1 # 1
      BY <1>2, <2>4
    <3> DEFINE j == i + 1
               k == b[i].end
               m == b[j].end
    <3>2. h[j] = h[i] \o ss[j] /\ ss[j] = SubSeq(items, b[j].start + 1, m)
      BY <1>6, <2>2, <3>1
    <3>3. b[j].start = k /\ k \in Nat /\ m \in Nat /\ k < m /\ m <= total
      BY <2>1, <3>1
    <3>4. 1 \in 1..total + 1 /\ k \in 1 - 1..total /\ m \in k..total
      BY <1>1, <3>3
    <3>5. h[i] = SubSeq(items, 1, k)
      BY <2>4
    <3>6. SubSeq(items, 1, k) \o SubSeq(items, k + 1, m) = SubSeq(items, 1, m)
      <4> HIDE DEF k, m
      <4> QED BY <3>4, ConcatAdjacentSubSeq
    <3>7. h[j] = SubSeq(items, 1, m)
      BY <3>2, <3>3, <3>5, <3>6
    <3> QED BY <3>1, <3>7
  <2>5. 1..n \subseteq S
    <3>1. 1 \in Nat /\ n \in Nat
      BY <1>2
    <3> HIDE DEF S
    <3> QED BY <2>3, <2>4, <3>1, UpInd
  <2>6. n \in S
    BY <1>2, <2>5
  <2>7. h[n] = SubSeq(items, 1, total)
    BY <2>1, <2>6
  <2>8. SubSeq(items, 1, total) = items
    BY SubSeqFull
  <2> QED BY <1>6, <2>7, <2>8 DEF ss
<1> QED BY <1>7, <1>8

\* A sequence without repetitions has as many elements as places.
LEMMA DistinctCount ==
    ASSUME NEW X, NEW s \in Seq(X), Distinct(s)
    PROVE  Cardinality(Range(s)) = Len(s)
<1> DEFINE n == Len(s)
           T == Range(s)
<1>1. n \in Nat /\ DOMAIN s = 1..n /\ s = [i \in 1..n |-> s[i]]
  BY LenProperties
<1>2. T = {s[i] : i \in 1..n}
  BY RangeFacts
<1>3. \A i, j \in 1..n : s[i] = s[j] => i = j
  BY DEF Distinct
<1> HIDE DEF n, T
<1>4. s \in Bijection(1..n, T)
  <2>1. s \in [1..n -> T]
    BY <1>1, <1>2
  <2>2. s \in Injection(1..n, T)
    BY <1>3, <2>1 DEF Injection, IsInjective
  <2>3. s \in Surjection(1..n, T)
    BY <1>2, <2>1 DEF Surjection
  <2> QED BY <2>2, <2>3 DEF Bijection
<1>5. ExistsBijection(1..n, T)
  BY <1>4 DEF ExistsBijection
<1>6. IsFiniteSet(1..n) /\ Cardinality(1..n) = n
  <2>1. n \in Nat /\ n \in Int /\ 1 \in Int
    BY <1>1
  <2>2. IsFiniteSet(1..n) /\ Cardinality(1..n) = IF 1 > n THEN 0 ELSE n - 1 + 1
    BY <2>1, FS_Interval
  <2> QED BY <2>1, <2>2
<1>7. Cardinality(T) = n
  BY <1>5, <1>6, FS_Bijection
<1> QED BY <1>7 DEF n, T

Kinds == {"category", "question", "slot"}

\* The gateway sends on every list that is not empty: it has ten rows at most,
\* and no two rows with one id.
LEMMA RowsAccepted ==
    ASSUME NEW items \in Seq(Nat), Distinct(items), NEW kind \in Kinds, NEW asked \in Nat \ {0}
    PROVE  LET rows == RowsOf(Paginate(items, asked), kind)
           IN  /\ rows \in Seq(Options)
               /\ rows # <<>> => Accepted(rows)
<1> DEFINE p == Paginate(items, asked)
           rows == RowsOf(p, kind)
           n == Len(p.items)
<1>1. IsPageOf(p, items) /\ p.items \in Seq(Nat)
  BY PageFacts
<1> HIDE DEF p
<1>2. /\ rows \in Seq(RowOptions(p, kind)) /\ Len(rows) \in Nat
      /\ Len(rows) = n + (IF HasBack(p) THEN 1 ELSE 0) + (IF HasMore(p) THEN 1 ELSE 0)
      /\ \A i \in 1..n : rows[i] = Option(kind, p.items[i])
      /\ HasBack(p) => rows[BackNumber(p)] = Option("page", p.at - 1)
      /\ HasMore(p) => rows[MoreNumber(p)] = Option("page", p.at + 1)
  BY <1>1, RowsFacts
<1> HIDE DEF rows
<1>3. /\ n \in Nat /\ p.pages \in Nat /\ p.at \in 1..p.pages
      /\ Len(p.items) + (IF HasBack(p) THEN 1 ELSE 0) + (IF HasMore(p) THEN 1 ELSE 0) <= Rows
  BY <1>1 DEF IsPageOf
<1>4. RowOptions(p, kind) \subseteq Options
  <2>1. \A i \in 1..Len(p.items) : p.items[i] \in Nat
    BY <1>1, ElementOfSeq
  <2>2. HasBack(p) => p.at - 1 \in Nat
    BY <1>3 DEF HasBack
  <2>3. p.at + 1 \in Nat
    BY <1>3
  <2> QED BY <2>1, <2>2, <2>3 DEF RowOptions, Options, Option, Kinds
<1>5. rows \in Seq(Options)
  BY <1>2, <1>4, SeqMonotonic
<1>6. BackNumber(p) = n + 1 /\ MoreNumber(p) = n + (IF HasBack(p) THEN 2 ELSE 1)
  BY DEF BackNumber, MoreNumber
<1>7. PICK k \in Nat : /\ k + n <= Len(items)
                       /\ \A i \in 1..n : p.items[i] = items[k + i]
  BY <1>1 DEF IsPageOf
<1>8. Len(items) \in Nat
  BY LenProperties
<1> HIDE DEF n
<1>9. ASSUME NEW i \in 1..n, NEW j \in 1..n, rows[i] = rows[j] PROVE i = j
  <2>1. p.items[i] = p.items[j]
    <3>1. Option(kind, p.items[i]) = Option(kind, p.items[j])
      BY <1>2, <1>9
    <3> QED BY <3>1 DEF Option
  <2>2. k + i \in 1..Len(items) /\ k + j \in 1..Len(items) /\ items[k + i] = items[k + j]
    <3>1. k + i \in 1..Len(items) /\ k + j \in 1..Len(items)
      BY <1>3, <1>7, <1>8
    <3>2. items[k + i] = p.items[i] /\ items[k + j] = p.items[j]
      BY <1>7
    <3> QED BY <2>1, <3>1, <3>2
  <2>3. k + i = k + j
    BY <2>2 DEF Distinct
  <2> QED BY <1>3, <2>3
<1>10. ASSUME NEW i \in 1..Len(rows), i \notin 1..n
       PROVE  \/ HasBack(p) /\ i = BackNumber(p)
              \/ HasMore(p) /\ i = MoreNumber(p)
  <2>1. CASE HasBack(p) /\ HasMore(p)
    BY <1>2, <1>3, <1>6, <1>10, <2>1
  <2>2. CASE HasBack(p) /\ ~HasMore(p)
    BY <1>2, <1>3, <1>6, <1>10, <2>2
  <2>3. CASE ~HasBack(p) /\ HasMore(p)
    BY <1>2, <1>3, <1>6, <1>10, <2>3
  <2>4. CASE ~HasBack(p) /\ ~HasMore(p)
    BY <1>2, <1>3, <1>6, <1>10, <2>4
  <2> QED BY <2>1, <2>2, <2>3, <2>4
<1>11. ASSUME NEW i \in 1..Len(rows), i \notin 1..n
       PROVE  \/ i = BackNumber(p) /\ rows[i] = Option("page", p.at - 1)
              \/ i = MoreNumber(p) /\ rows[i] = Option("page", p.at + 1)
  BY <1>2, <1>10, <1>11
<1>12. ASSUME NEW i \in 1..n, NEW j \in 1..Len(rows), j \notin 1..n PROVE rows[i] # rows[j]
  <2>1. rows[i].kind = kind
    <3>1. rows[i] = Option(kind, p.items[i])
      BY <1>2
    <3> QED BY <3>1 DEF Option
  <2>2. rows[j].kind = "page"
    BY <1>11, <1>12 DEF Option
  <2>3. kind # "page"
    BY DEF Kinds
  <2> QED BY <2>1, <2>2, <2>3
<1>13. ASSUME NEW i \in 1..Len(rows), NEW j \in 1..Len(rows), i \notin 1..n, j \notin 1..n, rows[i] = rows[j]
       PROVE  i = j
  <2>1. p.at - 1 # p.at + 1
    BY <1>3
  <2>2. Option("page", p.at - 1) # Option("page", p.at + 1)
    BY <2>1 DEF Option
  <2> QED BY <1>11, <1>13, <2>2
<1>14. Distinct(rows)
  <2> SUFFICES ASSUME NEW i \in 1..Len(rows), NEW j \in 1..Len(rows), rows[i] = rows[j]
               PROVE  i = j
    BY DEF Distinct
  <2>1. CASE i \in 1..n /\ j \in 1..n
    BY <1>9, <2>1
  <2>2. CASE i \in 1..n /\ j \notin 1..n
    BY <1>12, <2>2
  <2>3. CASE i \notin 1..n /\ j \in 1..n
    BY <1>12, <2>3
  <2>4. CASE i \notin 1..n /\ j \notin 1..n
    BY <1>13, <2>4
  <2> QED BY <2>1, <2>2, <2>3, <2>4
<1>15. Cardinality(Range(rows)) = Len(rows)
  BY <1>5, <1>14, DistinctCount
<1>16. rows # <<>> => Len(rows) \in 1..Rows
  <2>1. rows # <<>> => Len(rows) # 0
    BY <1>5, EmptySeq
  <2>2. Len(rows) <= Rows
    BY <1>2, <1>3 DEF n
  <2> QED BY <1>2, <2>1, <2>2, RowsAssumption
<1> QED BY <1>5, <1>15, <1>16 DEF Accepted, rows, p

-----------------------------------------------------------------------------
(* The lists a citizen chooses from                                        *)

\* A list of the menus is the last one sent, as the session would show it now;
\* lists are accepted by the gateway; what was done is what was meant.
MenusInv ==
    /\ MenusTypeOK
    /\ step = "AWAITING_QUESTION" => category \in DOMAIN Questions
    /\ step \in Menu => shown = RowsOf(Current, KindOf(step))
    /\ shown # <<>> => Accepted(shown)
    /\ MeantIsDone

\* The schedule read, the time and the seats taken are of their kinds.
LEMMA ScheduleFacts ==
    ASSUME MenusTypeOK
    PROVE  IsSchedule(schedule) /\ now \in Nat /\ active \in [Slots -> Nat]
<1>1. IsSchedule(schedule) /\ now \in Nat
  BY MenusAssumption DEF MenusTypeOK
<1>2. 0..schedule.seats \subseteq Nat
  BY <1>1 DEF IsSchedule
<1>3. active \in [Slots -> Nat]
  BY <1>2 DEF MenusTypeOK
<1> QED BY <1>1, <1>3

\* An increasing sequence repeats nothing.
LEMMA IncreasingDistinct ==
    ASSUME NEW s \in Seq(Int), Increasing(s)
    PROVE  Distinct(s)
<1> SUFFICES ASSUME NEW i \in 1..Len(s), NEW j \in 1..Len(s), s[i] = s[j] PROVE i = j
  BY DEF Distinct
<1>1. Len(s) \in Nat /\ s[i] \in Int /\ s[j] \in Int
  BY LenProperties, ElementOfSeq
<1>2. ~(i < j) /\ ~(j < i)
  BY <1>1 DEF Increasing
<1> QED BY <1>1, <1>2

\* A sequence of integers that holds naturals only is one of naturals.
LEMMA NaturalSeq ==
    ASSUME NEW s \in Seq(Int), Range(s) \subseteq Nat
    PROVE  s \in Seq(Nat)
<1>1. Len(s) \in Nat /\ s = [i \in 1..Len(s) |-> s[i]]
  BY LenProperties
<1>2. Range(s) = {s[i] : i \in 1..Len(s)}
  BY RangeFacts
<1>3. \A i \in 1..Len(s) : s[i] \in Nat
  BY <1>2
<1> QED BY <1>1, <1>3, IsASeq

\* The slots a session is shown are times, none of them twice.
LEMMA OfferedFacts ==
    ASSUME MenusTypeOK
    PROVE  Offered \in Seq(Nat) /\ Distinct(Offered)
<1>1. IsSchedule(schedule) /\ now \in Nat /\ active \in [Slots -> Nat]
  BY ScheduleFacts
<1>2. /\ Offered \in Seq(Int) /\ Increasing(Offered)
      /\ \A slot : slot \in Range(Offered) <=> slot \in Nat /\ Bookable(schedule, now, active, slot)
  BY <1>1, OfferFacts DEF Offered
<1> HIDE DEF Offered
<1>3. Range(Offered) \subseteq Nat
  BY <1>2
<1> QED BY <1>2, <1>3, NaturalSeq, IncreasingDistinct

\* The items of the list a session is at are naturals, none of them twice.
LEMMA ItemsFacts ==
    ASSUME MenusTypeOK, step = "AWAITING_QUESTION" => category \in DOMAIN Questions
    PROVE  Items \in Seq(Nat) /\ Distinct(Items)
<1>1. CASE step = "AWAITING_CATEGORY"
  BY <1>1, MenusAssumption DEF Items
<1>2. CASE step = "AWAITING_QUESTION"
  BY <1>2, MenusAssumption DEF Items
<1>3. CASE step = "AWAITING_SLOT"
  BY <1>3, OfferedFacts DEF Items
<1>4. CASE step \in {"OTHER", "FINISHED"}
  <2>1. Items = <<>>
    BY <1>4 DEF Items
  <2>2. Distinct(<<>>)
    BY DEF Distinct
  <2> QED BY <2>1, <2>2, EmptySeq
<1> QED BY <1>1, <1>2, <1>3, <1>4 DEF MenusTypeOK, Steps

\* What a step may do to the lists: nothing, leave the menus, or send one of a
\* step, whose items are those the session has from then on.
Quiet == UNCHANGED <<step, category, page, shown, sent>>

Leaves ==
    /\ step' \in {"OTHER", "FINISHED"} /\ category' \in {category, None}
    /\ page' \in {page, 1} /\ UNCHANGED <<shown, sent>>

Sends ==
    \E st \in Menu \cup {"AWAITING_SLOT"}, items \in Seq(Nat), at \in Nat \ {0} :
        /\ Show(st, items, at) /\ Distinct(items)
        /\ category' \in DOMAIN Questions \cup {None}
        /\ st = "AWAITING_CATEGORY" => items = Categories
        /\ st = "AWAITING_QUESTION" => category' \in DOMAIN Questions /\ items = Questions[category']

\* The part of the invariant about the lists.
ListsOK ==
    /\ step \in Steps /\ category \in DOMAIN Questions \cup {None} /\ page \in Nat \ {0}
    /\ shown \in Seq(Options) /\ Range(shown) \subseteq sent /\ sent \subseteq Options
    /\ step = "AWAITING_QUESTION" => category \in DOMAIN Questions
    /\ step \in Menu => shown = RowsOf(Current, KindOf(step))
    /\ shown # <<>> => Accepted(shown)

\* A message that sends nothing, leaves the menus or sends the list of the new
\* state keeps the part about the lists.
LEMMA ListsKept ==
    ASSUME MenusInv, Quiet \/ Leaves \/ Sends
    PROVE  ListsOK'
<1>1. ListsOK
  BY DEF MenusInv, MenusTypeOK, ListsOK
<1>2. CASE Quiet
  <2>1. step' \in Menu => Current' = Current
    BY <1>2 DEF Quiet, Menu, Current, Items
  <2> QED BY <1>1, <1>2, <2>1 DEF ListsOK, Quiet, KindOf
<1>3. CASE Leaves
  BY <1>1, <1>3 DEF ListsOK, Leaves, Menu, Steps
<1>4. CASE Sends
  <2>1. PICK st \in Menu \cup {"AWAITING_SLOT"}, items \in Seq(Nat), at \in Nat \ {0} :
            /\ Show(st, items, at) /\ Distinct(items)
            /\ category' \in DOMAIN Questions \cup {None}
            /\ st = "AWAITING_CATEGORY" => items = Categories
            /\ st = "AWAITING_QUESTION" => category' \in DOMAIN Questions /\ items = Questions[category']
    BY <1>4 DEF Sends
  <2>2. /\ step' = st /\ page' = at /\ shown' = RowsOf(Paginate(items, at), KindOf(st))
        /\ sent' = sent \cup Range(shown')
    BY <2>1 DEF Show, ShowAs
  <2>3. KindOf(st) \in Kinds
    BY DEF KindOf, Kinds
  <2>4. shown' \in Seq(Options) /\ (shown' # <<>> => Accepted(shown'))
    BY <2>1, <2>2, <2>3, RowsAccepted
  <2>5. Range(shown') \subseteq Options
    BY <2>4, RangeFacts
  <2>6. ASSUME step' \in Menu PROVE shown' = RowsOf(Current', KindOf(step'))
    <3>1. Items' = items
      BY <2>1, <2>2, <2>6 DEF Items, Menu
    <3>2. Current' = Paginate(items, at)
      BY <2>2, <3>1 DEF Current
    <3> QED BY <2>2, <3>2
  <2>7. step' \in Steps
    BY <2>2 DEF Menu, Steps
  <2>8. Range(shown') \subseteq sent' /\ sent' \subseteq Options
    BY <1>1, <2>2, <2>5 DEF ListsOK
  <2> QED BY <2>1, <2>2, <2>4, <2>6, <2>7, <2>8 DEF ListsOK
<1> QED BY <1>2, <1>3, <1>4

\* What an option says in a menu.
Says(o) ==
    \/ o.kind = "page" /\ o.of \in Nat \ {0}
    \/ o.kind = KindOf(step) /\ o.of \in Range(Items)

\* The prompt of a menu sends the list of the new state.
LEMMA PromptSends ==
    ASSUME MenusInv, step \in Menu \cup {"AWAITING_SLOT"}, Prompt, category' = category
    PROVE  Sends
<1>1. Items \in Seq(Nat) /\ Distinct(Items)
  BY ItemsFacts DEF MenusInv
<1>2. Show(step, Items, page)
  BY DEF Prompt, Show, Current
<1>3. /\ page \in Nat \ {0} /\ category \in DOMAIN Questions \cup {None}
      /\ step = "AWAITING_QUESTION" => category \in DOMAIN Questions
  BY DEF MenusInv, MenusTypeOK
<1>4. /\ step = "AWAITING_CATEGORY" => Items = Categories
      /\ step = "AWAITING_QUESTION" => Items = Questions[category]
  BY DEF Items
<1> QED BY <1>1, <1>2, <1>3, <1>4 DEF Sends

\* Asking for slots sends their first page, or leaves when there are none.
LEMMA SlotsSend ==
    ASSUME MenusInv, ShowSlots(1), category' = category
    PROVE  Leaves \/ Sends
<1>1. CASE Offered = <<>>
  BY <1>1 DEF ShowSlots, Finish, Leaves
<1>2. CASE Offered # <<>>
  <2>1. Show("AWAITING_SLOT", Offered, 1)
    BY <1>2 DEF ShowSlots
  <2>2. Offered \in Seq(Nat) /\ Distinct(Offered) /\ category \in DOMAIN Questions \cup {None}
    BY OfferedFacts DEF MenusInv, MenusTypeOK
  <2> QED BY <2>1, <2>2 DEF Sends, Menu
<1> QED BY <1>1, <1>2

\* A choice in a menu is refused, leaves the menus or sends the next list.
LEMMA ChooseDoes ==
    ASSUME MenusInv, step \in Menu, NEW o, Says(o), Choose(o)
    PROVE  Quiet \/ Leaves \/ Sends
<1>1. Items \in Seq(Nat) /\ Distinct(Items)
  BY ItemsFacts DEF MenusInv
<1>2. /\ category \in DOMAIN Questions \cup {None}
      /\ step = "AWAITING_QUESTION" => category \in DOMAIN Questions
  BY DEF MenusInv, MenusTypeOK
<1>3. /\ step = "AWAITING_CATEGORY" => Items = Categories /\ KindOf(step) = "category"
      /\ step = "AWAITING_QUESTION" => Items = Questions[category] /\ KindOf(step) = "question"
  BY DEF Items, KindOf
<1>4. CASE o.kind = "page"
  <2>1. Show(step, Items, o.of) /\ category' = category
    BY <1>4 DEF Choose
  <2>2. o.of \in Nat \ {0}
    BY <1>3, <1>4 DEF Says, Menu
  <2> QED BY <1>1, <1>2, <1>3, <2>1, <2>2 DEF Sends
<1>5. CASE step = "AWAITING_CATEGORY" /\ o.kind = "category"
  <2>1. ChooseCategory(o.of)
    BY <1>5 DEF Choose
  <2>2. o.of \in DOMAIN Questions
    BY <1>3, <1>5, MenusAssumption DEF Says
  <2>3. CASE Questions[o.of] = <<>>
    BY <2>1, <2>3 DEF ChooseCategory, Quiet
  <2>4. CASE Questions[o.of] # <<>>
    <3>1. category' = o.of /\ Show("AWAITING_QUESTION", Questions[o.of], 1)
      BY <2>1, <2>4 DEF ChooseCategory
    <3>2. Questions[o.of] \in Seq(Nat) /\ Distinct(Questions[o.of])
      BY <2>2, MenusAssumption
    <3> QED BY <2>2, <3>1, <3>2 DEF Sends, Menu
  <2> QED BY <2>3, <2>4
<1>6. CASE step = "AWAITING_QUESTION" /\ o.kind = "question"
  BY <1>6 DEF Choose, ChooseQuestion, Leaves
<1> QED BY <1>3, <1>4, <1>5, <1>6 DEF Says, Menu

\* The rest of the invariant.
RestOK ==
    /\ schedule \in Schedules /\ now \in Times
    /\ active \in [Slots -> 0..schedule.seats]
    /\ chosen \in Booking \cup {None}
    /\ last \in Told /\ MeantIsDone
    /\ messages \in 0..MaxMessages

\* The invariant is its part about the lists and the rest.
LEMMA InvParts == MenusInv <=> ListsOK /\ RestOK
  BY DEF MenusInv, MenusTypeOK, ListsOK, RestOK

\* The bound on the messages.
LEMMA MessageCounted ==
    ASSUME MenusInv, Message
    PROVE  messages' \in 0..MaxMessages
  BY MenusAssumption DEF MenusInv, MenusTypeOK, Message

\* The option a row tapped stands for, when the menu takes it.
LEMMA ValidSays ==
    ASSUME MenusInv, NEW o \in Options, Valid(o)
    PROVE  Says(o)
<1>1. Current.pages \in Nat
  <2>1. Items \in Seq(Nat) /\ page \in Int
    BY ItemsFacts DEF MenusInv, MenusTypeOK
  <2>2. IsPageOf(Current, Items)
    BY <2>1, PageFacts DEF Current
  <2> QED BY <2>2 DEF IsPageOf
<1> QED BY <1>1 DEF Valid, Says

\* The option a number typed stands for: the row of that number in the last
\* list sent.
LEMMA NumberSays ==
    ASSUME MenusInv, step \in Menu, NEW n \in Nat, NEW o, o = ByNumber(Current, KindOf(step), n, None)
    PROVE  /\ o = IF n \in 1..Len(shown) THEN shown[n] ELSE None
           /\ o # None => o \in Options /\ Says(o)
<1>1. Items \in Seq(Nat) /\ page \in Int /\ shown = RowsOf(Current, KindOf(step)) /\ shown \in Seq(Options)
  BY ItemsFacts DEF MenusInv, MenusTypeOK
<1> DEFINE p == Current
<1>2. IsPageOf(p, Items) /\ p.items \in Seq(Nat)
  BY <1>1, PageFacts DEF Current
<1> HIDE DEF p
<1>3. ByNumber(p, KindOf(step), n, None) = IF n \in 1..Len(RowsOf(p, KindOf(step)))
                                           THEN RowsOf(p, KindOf(step))[n] ELSE None
  BY <1>2, NumberMeansRow
<1>4. o = IF n \in 1..Len(shown) THEN shown[n] ELSE None
  BY <1>1, <1>3 DEF p
<1>5. ASSUME o # None PROVE o \in Options /\ Says(o)
  <2>1. o \in Options
    BY <1>1, <1>4, <1>5, ElementOfSeq
  <2>2. \/ HasBack(p) /\ o = Option("page", p.at - 1)
        \/ HasMore(p) /\ o = Option("page", p.at + 1)
        \/ \E i \in 1..Len(p.items) : o = Option(KindOf(step), p.items[i])
    BY <1>5 DEF ByNumber, p
  <2>3. p.at \in Nat /\ p.at >= 1 /\ p.pages \in Nat
    BY <1>2 DEF IsPageOf
  <2>4. CASE HasBack(p) /\ o = Option("page", p.at - 1)
    BY <2>1, <2>3, <2>4 DEF HasBack, Option, Says
  <2>5. CASE HasMore(p) /\ o = Option("page", p.at + 1)
    BY <2>1, <2>3, <2>5 DEF Option, Says
  <2>6. CASE \E i \in 1..Len(p.items) : o = Option(KindOf(step), p.items[i])
    <3>1. PICK i \in 1..Len(p.items) : o = Option(KindOf(step), p.items[i])
      BY <2>6
    <3>2. PICK k \in Nat : /\ k + Len(p.items) <= Len(Items)
                           /\ \A j \in 1..Len(p.items) : p.items[j] = Items[k + j]
      BY <1>2 DEF IsPageOf
    <3>3. Len(p.items) \in Nat /\ Len(Items) \in Nat
      BY <1>1, <1>2, LenProperties
    <3>4. k + i \in 1..Len(Items) /\ p.items[i] = Items[k + i]
      BY <3>2, <3>3
    <3>5. p.items[i] \in Range(Items)
      BY <1>1, <3>4, RangeFacts
    <3> QED BY <2>1, <3>1, <3>5 DEF Option, Says
  <2> QED BY <2>1, <2>2, <2>4, <2>5, <2>6
<1> QED BY <1>4, <1>5

\* A row tapped in a menu keeps the invariant.
LEMMA TapInMenuKeeps ==
    ASSUME MenusInv, NEW o \in sent, TapInMenu(o)
    PROVE  MenusInv'
<1>1. o \in Options
  BY DEF MenusInv, MenusTypeOK
<1>2. Quiet \/ Leaves \/ Sends
  <2>1. CASE Valid(o)
    BY <1>1, <2>1, ValidSays, ChooseDoes DEF TapInMenu
  <2>2. CASE ~Valid(o)
    BY <2>2, PromptSends DEF TapInMenu
  <2> QED BY <2>1, <2>2
<1>3. RestOK'
  <2>1. RestOK
    BY InvParts
  <2>2. messages' \in 0..MaxMessages
    BY MessageCounted DEF TapInMenu
  <2>3. last' \in Told /\ MeantIsDone'
    <3>1. last' = [meant |-> o, done |-> IF Valid(o) THEN o ELSE None, number |-> FALSE]
      BY DEF TapInMenu
    <3> QED BY <1>1, <3>1 DEF Told, MeantIsDone
  <2> QED BY <2>1, <2>2, <2>3 DEF TapInMenu, RestOK
<1> QED BY <1>2, <1>3, ListsKept, InvParts, PTL

\* A number typed in a menu keeps the invariant.
LEMMA TypeInMenuKeeps ==
    ASSUME MenusInv, NEW n \in 0..Rows, TypeInMenu(n)
    PROVE  MenusInv'
<1> DEFINE o == ByNumber(Current, KindOf(step), n, None)
<1>1. n \in Nat /\ step \in Menu
  BY RowsAssumption DEF TypeInMenu
<1>2. /\ Message
      /\ IF o # None THEN Choose(o) ELSE Prompt /\ UNCHANGED category
      /\ last' = [meant |-> IF n \in 1..Len(shown) THEN shown[n] ELSE None, done |-> o, number |-> TRUE]
      /\ UNCHANGED <<schedule, now, active, chosen>>
  BY DEF TypeInMenu
<1>3. /\ o = IF n \in 1..Len(shown) THEN shown[n] ELSE None
      /\ o # None => o \in Options /\ Says(o)
  BY <1>1, NumberSays
<1> HIDE DEF o
<1>4. Quiet \/ Leaves \/ Sends
  <2>1. CASE o # None
    BY <1>1, <1>2, <1>3, <2>1, ChooseDoes
  <2>2. CASE o = None
    BY <1>1, <1>2, <2>2, PromptSends
  <2> QED BY <2>1, <2>2
<1>5. RestOK'
  <2>1. RestOK
    BY InvParts
  <2>2. messages' \in 0..MaxMessages
    BY <1>2, MessageCounted
  <2>3. last' \in Told /\ MeantIsDone'
    <3>1. last' = [meant |-> o, done |-> o, number |-> TRUE]
      BY <1>2, <1>3
    <3> QED BY <1>3, <3>1 DEF Told, MeantIsDone
  <2> QED BY <1>2, <2>1, <2>2, <2>3 DEF RestOK
<1> QED BY <1>4, <1>5, ListsKept, InvParts, PTL

\* A message that says nothing of the list leaves the rest as it is.
LEMMA SilentRest ==
    ASSUME MenusInv, Message, UNCHANGED <<schedule, now, active, chosen>>,
           last' = [meant |-> None, done |-> None, number |-> FALSE]
    PROVE  RestOK'
<1>1. RestOK
  BY InvParts
<1>2. messages' \in 0..MaxMessages
  BY MessageCounted
<1> QED BY <1>1, <1>2 DEF RestOK, Told, MeantIsDone

\* Asking for the slots keeps the invariant.
LEMMA AskSlotsKeeps ==
    ASSUME MenusInv, AskSlots
    PROVE  MenusInv'
<1>1. RestOK'
  BY SilentRest DEF AskSlots
<1>2. Leaves \/ Sends
  BY SlotsSend DEF AskSlots
<1> QED BY <1>1, <1>2, ListsKept, InvParts, PTL

\* Text at the list of slots keeps the invariant.
LEMMA TypeInSlotListKeeps ==
    ASSUME MenusInv, TypeInSlotList
    PROVE  MenusInv'
<1>1. RestOK'
  BY SilentRest DEF TypeInSlotList
<1>2. Leaves \/ Sends
  <2>1. CASE Offered = <<>>
    BY <2>1 DEF TypeInSlotList, Finish, Leaves
  <2>2. CASE Offered # <<>>
    BY <2>2, PromptSends DEF TypeInSlotList
  <2> QED BY <2>1, <2>2
<1> QED BY <1>1, <1>2, ListsKept, InvParts, PTL

\* A row tapped at the list of slots keeps the invariant.
LEMMA TapSlotListKeeps ==
    ASSUME MenusInv, NEW o \in sent, TapSlotList(o)
    PROVE  MenusInv'
<1>1. o \in Options /\ step = "AWAITING_SLOT" /\ category' = category
  BY DEF MenusInv, MenusTypeOK, TapSlotList
<1>2. Offered \in Seq(Nat) /\ Distinct(Offered) /\ category \in DOMAIN Questions \cup {None}
  BY OfferedFacts DEF MenusInv, MenusTypeOK
<1>3. (Quiet \/ Leaves \/ Sends) /\ chosen' \in {chosen, [slot |-> o.of, offer |-> Offered]}
  <2>1. CASE Offered = <<>>
    BY <1>1, <2>1 DEF TapSlotList, Finish, Leaves
  <2>2. CASE Offered # <<>> /\ Valid(o) /\ o.kind = "page"
    <3>1. Show(step, Offered, o.of) /\ chosen' = chosen
      BY <2>2 DEF TapSlotList
    <3>2. o.of \in Nat \ {0}
      BY <1>1, <2>2, ValidSays DEF Says, KindOf
    <3> QED BY <1>1, <1>2, <3>1, <3>2 DEF Sends, Menu
  <2>3. CASE Offered # <<>> /\ Valid(o) /\ o.kind = "slot"
    BY <1>1, <2>3 DEF TapSlotList, Quiet
  <2>4. CASE Offered # <<>> /\ ~Valid(o) /\ o.kind = "slot"
    <3>1. Show(step, Offered, 1) /\ chosen' = chosen
      BY <2>4 DEF TapSlotList
    <3> QED BY <1>1, <1>2, <3>1 DEF Sends, Menu
  <2>5. CASE Offered # <<>> /\ ~Valid(o) /\ o.kind # "slot"
    BY <1>1, <2>5, PromptSends DEF TapSlotList
  <2>6. Valid(o) => o.kind \in {"page", "slot"}
    BY <1>1 DEF Valid, KindOf
  <2> QED BY <2>1, <2>2, <2>3, <2>4, <2>5, <2>6
<1>4. RestOK'
  <2>1. RestOK
    BY InvParts
  <2>2. messages' \in 0..MaxMessages
    BY MessageCounted DEF TapSlotList
  <2>3. last' \in Told /\ MeantIsDone'
    <3>1. last' = [meant |-> o, number |-> FALSE, done |-> IF Offered # <<>> /\ Valid(o) THEN o ELSE None]
      BY DEF TapSlotList
    <3> QED BY <1>1, <3>1 DEF Told, MeantIsDone
  <2>4. chosen' \in Booking \cup {None}
    BY <1>1, <1>2, <1>3, <2>1 DEF RestOK, Options, Booking
  <2> QED BY <2>1, <2>2, <2>3, <2>4 DEF TapSlotList, RestOK
<1> QED BY <1>3, <1>4, ListsKept, InvParts, PTL

\* A booking keeps the invariant.
LEMMA BookedKeeps ==
    ASSUME MenusInv, Booked
    PROVE  MenusInv'
<1>1. /\ RestOK /\ schedule.seats \in Nat
      /\ page \in Nat \ {0} /\ category \in DOMAIN Questions \cup {None}
  BY InvParts, ScheduleFacts DEF MenusInv, MenusTypeOK, IsSchedule
<1>2. /\ chosen \in Booking /\ chosen' = None
      /\ UNCHANGED <<schedule, now, category, last, messages>>
  BY <1>1 DEF Booked, RestOK
<1>3. Quiet \/ Leaves \/ Sends
  <2>1. CASE Finish \/ UNCHANGED <<step, page, shown, sent>>
    BY <1>2, <2>1 DEF Finish, Leaves, Quiet
  <2>2. CASE ShowSlots(1)
    BY <1>2, <2>2, SlotsSend
  <2>3. CASE Show("AWAITING_SLOT", chosen.offer, page)
    <3>1. chosen.offer \in Seq(Nat) /\ Distinct(chosen.offer)
      BY <1>2 DEF Booking
    <3> QED BY <1>1, <1>2, <2>3, <3>1 DEF Sends, Menu
  <2>4. CASE step' = "OTHER" /\ page' = 1 /\ UNCHANGED <<shown, sent>>
    BY <1>2, <2>4 DEF Leaves
  <2> QED BY <2>1, <2>2, <2>3, <2>4 DEF Booked
<1>4. active' \in [Slots -> 0..schedule.seats]
  <2>1. CASE HasSeat(chosen.slot) /\ TakeSeat(chosen.slot)
    BY <1>1, <2>1 DEF RestOK, HasSeat, TakeSeat
  <2>2. CASE active' = active
    BY <1>1, <2>2 DEF RestOK
  <2> QED BY <2>1, <2>2 DEF Booked
<1>5. RestOK'
  BY <1>1, <1>2, <1>4 DEF RestOK, MeantIsDone
<1> QED BY <1>3, <1>5, ListsKept, InvParts, PTL

\* A conversation started over keeps the invariant.
LEMMA StartOverKeeps ==
    ASSUME MenusInv, StartOver
    PROVE  MenusInv'
<1>1. RestOK'
  BY SilentRest DEF StartOver
<1>2. Show("AWAITING_CATEGORY", Categories, 1) /\ category' = None
  BY DEF StartOver
<1>3. Sends
  BY <1>2, MenusAssumption DEF Sends, Menu
<1> QED BY <1>1, <1>3, ListsKept, InvParts, PTL

\* What others book or cancel, and time, leave the lists alone.
LEMMA OthersKeep ==
    ASSUME MenusInv,
           (\E slot \in Slots : OthersBook(slot) \/ OthersCancel(slot)) \/ TimePasses \/ UNCHANGED menuVars
    PROVE  MenusInv'
<1>1. RestOK /\ schedule.seats \in Nat
  BY InvParts, ScheduleFacts DEF MenusInv, IsSchedule
<1>2. CASE \E slot \in Slots : OthersBook(slot) \/ OthersCancel(slot)
  <2>1. PICK slot \in Slots : OthersBook(slot) \/ OthersCancel(slot)
    BY <1>2
  <2>2. active[slot] \in 0..schedule.seats
    BY <1>1 DEF RestOK
  <2>3. active' \in [Slots -> 0..schedule.seats]
    <3>1. CASE OthersBook(slot)
      <4>1. active[slot] + 1 \in 0..schedule.seats /\ active' = [active EXCEPT ![slot] = @ + 1]
        BY <1>1, <2>2, <3>1 DEF OthersBook
      <4> QED BY <1>1, <4>1 DEF RestOK
    <3>2. CASE OthersCancel(slot)
      <4>1. active[slot] - 1 \in 0..schedule.seats /\ active' = [active EXCEPT ![slot] = @ - 1]
        BY <1>1, <2>2, <3>2 DEF OthersCancel
      <4> QED BY <1>1, <4>1 DEF RestOK
    <3> QED BY <2>1, <3>1, <3>2
  <2>4. UNCHANGED <<schedule, now, step, category, page, shown, sent, chosen, last, messages>>
    BY <2>1 DEF OthersBook, OthersCancel
  <2>5. RestOK'
    BY <1>1, <2>3, <2>4 DEF RestOK, MeantIsDone
  <2>6. Quiet
    BY <2>4 DEF Quiet
  <2> QED BY <2>5, <2>6, ListsKept, InvParts, PTL
<1>3. CASE TimePasses
  <2>1. RestOK'
    BY <1>1, <1>3 DEF TimePasses, RestOK, MeantIsDone
  <2>2. Quiet
    BY <1>3 DEF TimePasses, Quiet
  <2> QED BY <2>1, <2>2, ListsKept, InvParts, PTL
<1>4. CASE UNCHANGED menuVars
  <2>1. RestOK'
    BY <1>1, <1>4 DEF menuVars, RestOK, MeantIsDone
  <2>2. Quiet
    BY <1>4 DEF menuVars, Quiet
  <2> QED BY <2>1, <2>2, ListsKept, InvParts, PTL
<1> QED BY <1>2, <1>3, <1>4

\* A conversation starts in the invariant.
LEMMA MenusStart == MenusInit => MenusInv
<1> SUFFICES ASSUME MenusInit PROVE MenusInv
  OBVIOUS
<1>1. schedule \in Schedules /\ now \in Times /\ IsSchedule(schedule)
  BY MenusAssumption DEF MenusInit
<1>2. active \in [Slots -> 0..schedule.seats]
  BY <1>1 DEF MenusInit, IsSchedule
<1>3. RestOK
  BY <1>1, <1>2, MenusAssumption DEF MenusInit, RestOK, Told, MeantIsDone
<1>4. Range(<<>>) = {} /\ <<>> \in Seq(Options)
  BY EmptySeq DEF Range
<1>5. ListsOK
  BY <1>4 DEF MenusInit, ListsOK, Menu, Steps
<1> QED BY <1>3, <1>5, InvParts

\* The inductive invariant: the last list sent is the one the session would
\* show now, whatever was tapped, typed or booked since, the gateway accepts it,
\* and what a message did is what it meant (slot-engine and conversation flow).
THEOREM MenusInvariance == MenusSpec => []MenusInv
<1>1. MenusInv /\ [MenusNext]_menuVars => MenusInv'
  <2> SUFFICES ASSUME MenusInv, [MenusNext]_menuVars PROVE MenusInv'
    OBVIOUS
  <2>1. CASE \E o \in sent : TapInMenu(o) \/ TapSlotList(o)
    BY <2>1, TapInMenuKeeps, TapSlotListKeeps
  <2>2. CASE \E n \in 0..Rows : TypeInMenu(n)
    BY <2>2, TypeInMenuKeeps
  <2>3. CASE AskSlots \/ TypeInSlotList \/ Booked \/ StartOver
    BY <2>3, AskSlotsKeeps, TypeInSlotListKeeps, BookedKeeps, StartOverKeeps
  <2>4. CASE (\E slot \in Slots : OthersBook(slot) \/ OthersCancel(slot)) \/ TimePasses \/ UNCHANGED menuVars
    BY <2>4, OthersKeep
  <2> QED BY <2>1, <2>2, <2>3, <2>4 DEF MenusNext
<1> QED BY <1>1, MenusStart, PTL DEF MenusSpec

\* The state of a conversation in the menus is well typed.
THEOREM MenusTypeTheorem == MenusSpec => []MenusTypeOK
<1>1. MenusInv => MenusTypeOK
  BY DEF MenusInv
<1> QED BY <1>1, MenusInvariance, PTL

\* A number typed does what that line of the last list says; a row tapped, of
\* however old a list, does what it says or only repeats the list.
THEOREM MeantTheorem == MenusSpec => []MeantIsDone
<1>1. MenusInv => MeantIsDone
  BY DEF MenusInv
<1> QED BY <1>1, MenusInvariance, PTL

\* In every state of the invariant the pages of the list cover it.
LEMMA PagesCovered ==
    ASSUME MenusInv
    PROVE  PagesCover
<1> DEFINE items == Items
           n == Paginate(items, page).pages
           pages == [p \in 1..n |-> Paginate(items, p)]
           Turns(p) == {o.of : o \in {x \in Range(RowsOf(pages[p], KindOf(step))) : x.kind = "page"}}
<1>1. items \in Seq(Nat) /\ page \in Int
  BY ItemsFacts DEF MenusInv, MenusTypeOK
<1>2. n \in Nat /\ n = IF Len(items) <= Rows THEN 1 ELSE Len(Bounds(Len(items)))
  <2> HIDE DEF items
  <2>1. n = IF Len(items) <= Rows THEN 1 ELSE Len(Bounds(Len(items)))
    BY <1>1, PageFacts
  <2>2. IsPageOf(Paginate(items, page), items)
    BY <1>1, PageFacts
  <2>3. n \in Nat
    BY <2>2 DEF IsPageOf
  <2> QED BY <2>1, <2>3
<1> HIDE DEF items, n
<1>3. FlattenSeq([p \in DOMAIN pages |-> pages[p].items]) = items
  <2>1. DOMAIN pages = 1..n /\ [p \in DOMAIN pages |-> pages[p].items] = [p \in 1..n |-> Paginate(items, p).items]
    OBVIOUS
  <2>2. FlattenSeq([p \in 1..n |-> Paginate(items, p).items]) = items
    BY <1>1, <1>2, PagesJoin
  <2> QED BY <2>1, <2>2
<1>4. ASSUME NEW p \in 1..n
      PROVE  Turns(p) = {p - 1, p + 1} \cap 1..n
  <2> DEFINE q == Paginate(items, p)
             kind == KindOf(step)
             rows == RowsOf(q, kind)
  <2>1. p \in Int /\ pages[p] = q
    BY <1>2
  <2>2. IsPageOf(q, items) /\ q.pages = n /\ (p \in 1..q.pages => q.at = p)
    BY <1>1, <1>2, <2>1, PageFacts
  <2>3. kind # "page"
    BY DEF KindOf
  <2> HIDE DEF q, kind
  <2>4. /\ rows \in Seq(RowOptions(q, kind)) /\ Len(rows) \in Nat
        /\ Len(rows) = Len(q.items) + (IF HasBack(q) THEN 1 ELSE 0) + (IF HasMore(q) THEN 1 ELSE 0)
        /\ HasBack(q) => rows[BackNumber(q)] = Option("page", q.at - 1)
        /\ HasMore(q) => rows[MoreNumber(q)] = Option("page", q.at + 1)
    BY <2>2, RowsFacts
  <2> HIDE DEF rows
  <2>5. q.at = p /\ Len(q.items) \in Nat
    BY <2>2 DEF IsPageOf
  <2>6. HasBack(q) <=> p - 1 \in 1..n
    BY <1>2, <2>1, <2>5 DEF HasBack
  <2>7. HasMore(q) <=> p + 1 \in 1..n
    BY <1>2, <2>1, <2>2, <2>5 DEF HasMore
  <2>8. Range(rows) = {rows[i] : i \in 1..Len(rows)} /\ Range(rows) \subseteq RowOptions(q, kind)
    BY <2>4, RangeFacts
  <2>9. HasBack(q) => BackNumber(q) \in 1..Len(rows)
    <3>1. CASE HasMore(q)
      BY <2>4, <2>5, <3>1 DEF BackNumber
    <3>2. CASE ~HasMore(q)
      BY <2>4, <2>5, <3>2 DEF BackNumber
    <3> QED BY <3>1, <3>2
  <2>10. HasMore(q) => MoreNumber(q) \in 1..Len(rows)
    <3>1. CASE HasBack(q)
      BY <2>4, <2>5, <3>1 DEF MoreNumber
    <3>2. CASE ~HasBack(q)
      BY <2>4, <2>5, <3>2 DEF MoreNumber
    <3> QED BY <3>1, <3>2
  <2>11. HasBack(q) => Option("page", p - 1) \in Range(rows)
    BY <2>4, <2>5, <2>8, <2>9
  <2>12. HasMore(q) => Option("page", p + 1) \in Range(rows)
    BY <2>4, <2>5, <2>8, <2>10
  <2>13. ASSUME NEW x \in Range(rows), x.kind = "page"
         PROVE  (HasBack(q) /\ x.of = p - 1) \/ (HasMore(q) /\ x.of = p + 1)
    BY <2>3, <2>5, <2>8, <2>13 DEF RowOptions, Option
  <2>14. Turns(p) = {o.of : o \in {x \in Range(rows) : x.kind = "page"}}
    BY <2>1 DEF rows, q, kind
  <2>15. \A a : a \in Turns(p) <=> \E x \in Range(rows) : x.kind = "page" /\ x.of = a
    BY <2>14
  <2> HIDE DEF Turns
  <2>16. \A a \in Turns(p) : a \in {p - 1, p + 1} \cap 1..n
    BY <2>6, <2>7, <2>13, <2>15
  <2>17. \A a \in {p - 1, p + 1} \cap 1..n : a \in Turns(p)
    BY <2>6, <2>7, <2>11, <2>12, <2>15 DEF Option
  <2> QED BY <2>16, <2>17
<1>5. shown # <<>> => Accepted(shown)
  BY DEF MenusInv
<1>6. DOMAIN pages = 1..n
  OBVIOUS
<1> QED BY <1>3, <1>4, <1>5, <1>6 DEF PagesCover, items, n

\* The pages of a list (list-pagination) hold every item of it once and in
\* order, none is empty, and every list they make is one the gateway sends on.
THEOREM PagesTheorem == MenusSpec => []PagesCover
<1>1. MenusInv => PagesCover
  BY PagesCovered
<1> QED BY <1>1, MenusInvariance, PTL

\* In every well typed state the offer is exactly what can be booked.
LEMMA OfferExact ==
    ASSUME MenusTypeOK
    PROVE  OfferIsExact
<1> DEFINE offered == Offered
           all == 0..((DayOf(now) + schedule.window + 2) * DayLength)
<1>1. IsSchedule(schedule) /\ now \in Nat /\ active \in [Slots -> Nat]
  BY ScheduleFacts
<1>2. /\ offered \in Seq(Int) /\ Increasing(offered)
      /\ \A slot : slot \in Range(offered) <=> slot \in Nat /\ Bookable(schedule, now, active, slot)
  BY <1>1, OfferFacts DEF Offered
<1>3. ASSUME NEW slot \in Nat, Bookable(schedule, now, active, slot) PROVE slot \in all
  <2> DEFINE d == DayOf(slot)
             e == DayOf(now) + schedule.window
  <2>1. /\ d \in Nat /\ e \in Nat /\ DayLength \in Nat \ {0}
        /\ MinuteOf(slot) \in 0..(DayLength - 1) /\ slot = At(d, MinuteOf(slot))
    <3>1. d \in Nat /\ MinuteOf(slot) \in 0..(DayLength - 1) /\ slot = At(d, MinuteOf(slot))
      BY DayFacts
    <3>2. DayOf(now) \in Nat
      BY <1>1, DayFacts
    <3>3. schedule.window \in Nat
      BY <1>1 DEF IsSchedule
    <3> QED BY <3>1, <3>2, <3>3, DayAssumption
  <2>2. d <= e
    BY <1>3 DEF Bookable
  <2> HIDE DEF d, e
  <2>3. slot = d * DayLength + MinuteOf(slot)
    BY <2>1 DEF At
  <2>4. d * DayLength <= e * DayLength /\ d * DayLength \in Nat /\ e * DayLength \in Nat
    BY <2>1, <2>2
  <2>5. (e + 2) * DayLength = e * DayLength + DayLength + DayLength
    BY <2>1
  <2>6. slot <= (e + 2) * DayLength /\ (e + 2) * DayLength \in Nat
    BY <2>1, <2>3, <2>4, <2>5
  <2> QED BY <2>6 DEF e
<1> HIDE DEF all
<1>4. Range(offered) = {slot \in all : Bookable(schedule, now, active, slot)}
  <2>1. all \subseteq Nat
    BY DEF all
  <2> HIDE DEF offered
  <2> QED BY <1>2, <1>3, <2>1
<1>5. ASSUME NEW i \in 2..Len(offered) PROVE offered[i - 1] < offered[i]
  <2>1. Len(offered) \in Nat
    BY <1>2, LenProperties
  <2> HIDE DEF offered
  <2>2. i - 1 \in 1..Len(offered) /\ i \in 1..Len(offered) /\ i - 1 < i
    BY <2>1
  <2> QED BY <1>2, <2>2 DEF Increasing
<1> QED BY <1>4, <1>5 DEF OfferIsExact, offered, all

\* The offer (schedule.service) is exactly the slots that can be booked, in the
\* order of time, for every schedule, time and occupation.
THEOREM OfferTheorem == MenusSpec => []OfferIsExact
<1> QED BY OfferExact, MenusTypeTheorem, PTL
=============================================================================

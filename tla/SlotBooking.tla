---------------------------- MODULE SlotBooking ----------------------------
(***************************************************************************)
(* Booking an appointment from the chat: the handler of AWAITING_SLOT      *)
(* (services/schedulingFlow.service.ts), the transaction it opens          *)
(* (repositories/schedule.repository.ts) and what runs beside it: other    *)
(* conversations booking, the sweep of abandoned sessions, the staff       *)
(* moving appointments and the clock.                                      *)
(*                                                                         *)
(* One action is one SQL statement or one handler step between two awaits. *)
(* PostgreSQL runs at READ COMMITTED: a statement sees what is committed   *)
(* when it starts, so rows of an open transaction are kept out of "status" *)
(* and "outcome" until Commit. The row inserted by a transaction           *)
(* references Sessions(id): from then on it holds a lock on the session    *)
(* row that the sweep's FOR UPDATE waits for.                              *)
(*                                                                         *)
(* A session is one conversation standing at AWAITING_SLOT with a complete *)
(* draft; createPhoneLock admits one message of a phone at a time, so a    *)
(* session is one sequential process.                                      *)
(***************************************************************************)
EXTENDS Naturals, FiniteSets

CONSTANTS Session,   \* conversations waiting for the choice of a slot
          Slot,      \* slot times of the weekly grid, inside the window
          Cpf,       \* CPF hashes of the holders
          Seats,     \* ScheduleSettings.seats_per_slot
          NoOne      \* the holder of a slot lock that is free

ASSUME BookingAssumption ==
    /\ IsFiniteSet(Session)
    /\ Seats \in Nat \ {0}
    /\ NoOne \notin Session

VARIABLES
    outcome,   \* Sessions.outcome, committed
    idle,      \* last_interaction_at is 30 minutes old or more
    draft,     \* Sessions.draft.cpf_hash
    status,    \* Appointments.status of session s at slot t, committed
    pc,        \* where the handler of the session stands
    want,      \* the slot of the message being handled
    lock,      \* pg_advisory_xact_lock of each slot
    reply,     \* the last answer given to the citizen
    phase      \* a slot's day is in the future, today, or its time is past

sessionVars == <<outcome, idle, draft>>
handlerVars == <<pc, want, reply>>
vars == <<outcome, idle, draft, status, pc, want, lock, reply, phase>>

Outcome == {"IN_PROGRESS", "SCHEDULED", "NO_SLOT", "ABANDONED"}
Status  == {"NONE", "PENDING", "CONFIRMED", "ATTENDED", "NO_SHOW"}
Active  == {"PENDING", "CONFIRMED"}
\* Lists of slots, refusals and the "no slots" notice are one kind of answer.
Reply   == {"other", "confirmed", "failed"}
Phase   == {"future", "today", "past"}

\* Inside the transaction: after the lock, the count, the duplicate check,
\* the inserts, and the UPDATE of the session.
InTx    == {"locked", "counted", "checked", "inserted", "updated"}
Handler == InTx \cup {"awaiting", "begin", "full", "done"}

TypeOK ==
    /\ outcome \in [Session -> Outcome]
    /\ idle \in [Session -> BOOLEAN]
    /\ draft \in [Session -> Cpf]
    /\ status \in [Session -> [Slot -> Status]]
    /\ pc \in [Session -> Handler]
    /\ want \in [Session -> Slot]
    /\ lock \in [Slot -> Session \cup {NoOne}]
    /\ reply \in [Session -> Reply]
    /\ phase \in [Slot -> Phase]

-----------------------------------------------------------------------------
(* What the statements read.                                               *)

\* The conversations that hold an active appointment at t (WHERE status IN
\* ('PENDING', 'CONFIRMED')).
ActiveAt(t) == {s \in Session : status[s][t] \in Active}

\* Variant: accepts one booking too many.
SlotIsFull_OffByOne(t) == Cardinality(ActiveAt(t)) > Seats

SlotIsFull(t) == Cardinality(ActiveAt(t)) >= Seats

CpfTaken(c, t) == \E s \in ActiveAt(t) : draft[s] = c

\* getAvailableSlots: a slot that has not started and has seats left.
AvailableSlots == {t \in Slot : phase[t] # "past" /\ ~SlotIsFull(t)}

RowLocked(s) == pc[s] \in {"inserted", "updated"}

-----------------------------------------------------------------------------
Init ==
    /\ outcome = [s \in Session |-> "IN_PROGRESS"]
    /\ idle = [s \in Session |-> FALSE]
    /\ draft \in [Session -> Cpf]
    /\ status = [s \in Session |-> [t \in Slot |-> "NONE"]]
    /\ pc = [s \in Session |-> "awaiting"]
    /\ want \in [Session -> Slot]
    /\ lock = [t \in Slot |-> NoOne]
    /\ reply = [s \in Session |-> "other"]
    /\ phase = [t \in Slot |-> "future"]

\* noSlotReply: finishOrLog closes the session if it is still in progress;
\* a failed closing is only logged and the citizen gets the same answer.
NoSlotReply(s) ==
    /\ \/ outcome[s] = "IN_PROGRESS" /\ outcome' = [outcome EXCEPT ![s] = "NO_SLOT"]
       \/ UNCHANGED outcome
    /\ pc' = [pc EXCEPT ![s] = "awaiting"]
    /\ reply' = [reply EXCEPT ![s] = "other"]
    /\ UNCHANGED idle

\* updateNavigationState back to AWAITING_SLOT: throws, and the citizen gets
\* no answer, when the session is no longer in progress.
ShowSlotsAgain(s) ==
    /\ pc' = [pc EXCEPT ![s] = "awaiting"]
    /\ UNCHANGED outcome
    /\ IF outcome[s] = "IN_PROGRESS"
       THEN /\ idle' = [idle EXCEPT ![s] = FALSE]
            /\ reply' = [reply EXCEPT ![s] = "other"]
       ELSE UNCHANGED <<idle, reply>>

\* handleAwaitingSlot on "slot_<t>". A message that finds an idle session
\* abandons it instead (Abandon).
ChooseSlot(s, t) ==
    /\ pc[s] = "awaiting"
    /\ outcome[s] = "IN_PROGRESS"
    /\ ~idle[s]
    /\ want' = [want EXCEPT ![s] = t]
    /\ \/ AvailableSlots = {} /\ NoSlotReply(s)
       \/ AvailableSlots # {} /\ t \notin AvailableSlots /\ ShowSlotsAgain(s)
       \/ /\ t \in AvailableSlots
          /\ pc' = [pc EXCEPT ![s] = "begin"]
          /\ UNCHANGED <<outcome, idle, reply>>
    /\ UNCHANGED <<draft, status, lock, phase>>

LockSlot(s) ==
    /\ pc[s] = "begin"
    /\ lock[want[s]] = NoOne
    /\ lock' = [lock EXCEPT ![want[s]] = s]
    /\ pc' = [pc EXCEPT ![s] = "locked"]
    /\ UNCHANGED <<sessionVars, status, want, reply, phase>>

\* Variant: a session-level advisory lock, which ROLLBACK does not release.
Rollback_KeepsLock(s, next) ==
    /\ pc' = [pc EXCEPT ![s] = next]
    /\ UNCHANGED <<sessionVars, status, want, lock, phase>>

\* ROLLBACK: nothing the transaction wrote stays, its lock is released.
Rollback(s, next) ==
    /\ lock' = [lock EXCEPT ![want[s]] = NoOne]
    /\ pc' = [pc EXCEPT ![s] = next]
    /\ UNCHANGED <<sessionVars, status, want, phase>>

CountSeats(s) ==
    /\ pc[s] = "locked"
    /\ \/ /\ SlotIsFull(want[s])
          /\ Rollback(s, "full")
       \/ /\ ~SlotIsFull(want[s])
          /\ pc' = [pc EXCEPT ![s] = "counted"]
          /\ UNCHANGED <<sessionVars, status, want, lock, phase>>
    /\ UNCHANGED reply

CheckCpf(s) ==
    /\ pc[s] = "counted"
    /\ \/ /\ CpfTaken(draft[s], want[s])
          /\ Rollback(s, "awaiting")
          /\ reply' = [reply EXCEPT ![s] = "other"]
       \/ /\ ~CpfTaken(draft[s], want[s])
          /\ pc' = [pc EXCEPT ![s] = "checked"]
          /\ UNCHANGED <<sessionVars, status, want, lock, reply, phase>>

\* Variant: the INSERT runs on the pool, outside the transaction.
InsertAppointment_OutsideTx(s) ==
    /\ pc[s] = "checked"
    /\ pc' = [pc EXCEPT ![s] = "inserted"]
    /\ status' = [status EXCEPT ![s][want[s]] = "PENDING"]
    /\ UNCHANGED <<sessionVars, want, lock, reply, phase>>

\* insertAppointment, insertCreatedEvent, PHONE_NOTICE_SHOWN.
InsertAppointment(s) ==
    /\ pc[s] = "checked"
    /\ pc' = [pc EXCEPT ![s] = "inserted"]
    /\ UNCHANGED <<sessionVars, status, want, lock, reply, phase>>

\* Variant: the UPDATE has no "status = 'IN_PROGRESS'".
FinishSession_Unguarded(s) ==
    /\ pc[s] = "inserted"
    /\ pc' = [pc EXCEPT ![s] = "updated"]
    /\ UNCHANGED <<sessionVars, status, want, lock, reply, phase>>

\* Variant: the exception of a session already closed is swallowed.
FinishSession_Swallowed(s) ==
    /\ pc[s] = "inserted"
    /\ IF outcome[s] = "IN_PROGRESS"
       THEN /\ pc' = [pc EXCEPT ![s] = "updated"]
            /\ UNCHANGED <<sessionVars, status, want, lock, reply, phase>>
       ELSE Rollback(s, "awaiting") /\ reply' = [reply EXCEPT ![s] = "confirmed"]

\* finishSessionWith: UPDATE ... WHERE status = 'IN_PROGRESS', one row or an
\* exception.
FinishSession(s) ==
    /\ pc[s] = "inserted"
    /\ \/ /\ outcome[s] = "IN_PROGRESS"
          /\ pc' = [pc EXCEPT ![s] = "updated"]
          /\ UNCHANGED <<sessionVars, status, want, lock, reply, phase>>
       \/ /\ outcome[s] # "IN_PROGRESS"
          /\ Rollback(s, "awaiting")
          /\ reply' = [reply EXCEPT ![s] = "failed"]

\* COMMIT makes the appointment and the outcome visible together. If the
\* connection dies after the server committed, the handler sees an error and
\* answers as for any failed booking.
Commit(s) ==
    /\ pc[s] = "updated"
    /\ outcome' = [outcome EXCEPT ![s] = "SCHEDULED"]
    /\ status' = [status EXCEPT ![s][want[s]] = "PENDING"]
    /\ lock' = [lock EXCEPT ![want[s]] = NoOne]
    /\ pc' = [pc EXCEPT ![s] = "done"]
    /\ \E r \in {"confirmed", "failed"} : reply' = [reply EXCEPT ![s] = r]
    /\ idle' = [idle EXCEPT ![s] = FALSE]
    /\ UNCHANGED <<draft, want, phase>>

\* Any statement of the transaction may fail: "O agendamento nao foi gravado".
FailBooking(s) ==
    /\ pc[s] \in InTx \cup {"begin"}
    /\ IF pc[s] = "begin"
       THEN /\ pc' = [pc EXCEPT ![s] = "awaiting"]
            /\ UNCHANGED <<sessionVars, status, want, lock, phase>>
       ELSE Rollback(s, "awaiting")
    /\ reply' = [reply EXCEPT ![s] = "failed"]

\* SlotFullError: read the slots again, and close or show the list.
AfterSlotFull(s) ==
    /\ pc[s] = "full"
    /\ \/ AvailableSlots = {} /\ NoSlotReply(s)
       \/ AvailableSlots # {} /\ ShowSlotsAgain(s)
    /\ UNCHANGED <<draft, status, want, lock, phase>>

-----------------------------------------------------------------------------
(* What runs beside the bookings.                                          *)

\* sweepAbandonedSessions, and the same statement in findOrCreateActive when
\* the citizen writes again.
Abandon(s) ==
    /\ outcome[s] = "IN_PROGRESS"
    /\ idle[s]
    /\ ~RowLocked(s)
    /\ outcome' = [outcome EXCEPT ![s] = "ABANDONED"]
    /\ UNCHANGED <<idle, draft, status, handlerVars, lock, phase>>

\* Thirty minutes go by without touch, updateNavigationState or a closing.
\* Nothing bounds how long a booking waits for a connection or for the lock.
GrowIdle(s) ==
    /\ outcome[s] = "IN_PROGRESS"
    /\ ~idle[s]
    /\ idle' = [idle EXCEPT ![s] = TRUE]
    /\ UNCHANGED <<outcome, draft, status, handlerVars, lock, phase>>

\* claim, markAttended, markNoShow: lockAndDecide under FOR UPDATE.
SetStatus(s, t, new) ==
    /\ status' = [status EXCEPT ![s][t] = new]
    /\ UNCHANGED <<sessionVars, handlerVars, lock, phase>>

Claim(s, t)    == status[s][t] = "PENDING" /\ SetStatus(s, t, "CONFIRMED")
Attended(s, t) == status[s][t] \in Active /\ phase[t] # "future" /\ SetStatus(s, t, "ATTENDED")
NoShow(s, t)   == status[s][t] \in Active /\ phase[t] = "past" /\ SetStatus(s, t, "NO_SHOW")

Tick(t) ==
    /\ \/ phase[t] = "future" /\ phase' = [phase EXCEPT ![t] = "today"]
       \/ phase[t] = "today" /\ phase' = [phase EXCEPT ![t] = "past"]
    /\ UNCHANGED <<sessionVars, status, handlerVars, lock>>

\* The handler's own steps, when the database answers them.
Advance(s) ==
    \/ LockSlot(s)
    \/ CountSeats(s)
    \/ CheckCpf(s)
    \/ InsertAppointment(s)
    \/ FinishSession(s)
    \/ Commit(s)
    \/ AfterSlotFull(s)

Next ==
    \/ \E s \in Session : Advance(s) \/ FailBooking(s) \/ Abandon(s) \/ GrowIdle(s)
    \/ \E s \in Session, t \in Slot :
           ChooseSlot(s, t) \/ Claim(s, t) \/ Attended(s, t) \/ NoShow(s, t)
    \/ \E t \in Slot : Tick(t)

Spec == Init /\ [][Next]_vars

\* The handler runs on once the statement it waits for has answered, and
\* PostgreSQL serves the waiters of an advisory lock in order of arrival.
\* Nothing makes a statement fail, a citizen write or the staff act.
FairSpec ==
    /\ Spec
    /\ \A s \in Session : WF_vars(Advance(s)) /\ SF_vars(LockSlot(s))

-----------------------------------------------------------------------------
(* Properties.                                                             *)

\* The open appointments of a slot never exceed its seats, whatever the
\* number of citizens that chose it at the same time.
SeatsRespected == \A t \in Slot : Cardinality(ActiveAt(t)) <= Seats

\* Two conversations never hold open appointments of the same CPF at the
\* same slot (what uniq_appointments_active also demands).
OneActivePerCpf ==
    \A t \in Slot : \A s1, s2 \in ActiveAt(t) : draft[s1] = draft[s2] => s1 = s2

\* A conversation ends as SCHEDULED exactly when it has an appointment, and
\* then it has one only: no appointment outlives a conversation the sweep
\* abandoned, none is lost with its outcome kept.
ScheduledIffBooked ==
    \A s \in Session :
        Cardinality({t \in Slot : status[s][t] # "NONE"})
            = IF outcome[s] = "SCHEDULED" THEN 1 ELSE 0

\* A citizen that read "Agendamento realizado" has the appointment.
ConfirmedIsBooked ==
    \A s \in Session : reply[s] = "confirmed" => status[s][want[s]] # "NONE"

\* Every chosen slot gets its answer: each path out of the transaction
\* releases the slot's lock to the ones that wait for it.
BookingAnswered ==
    \A s \in Session : pc[s] = "begin" ~> pc[s] \in {"awaiting", "done"}

\* The transactional code implements the ledger of seats and outcomes.
Ledger == INSTANCE SlotLedger WITH
    Session <- Session, Slot <- Slot, Cpf <- Cpf, Seats <- Seats,
    outcome <- outcome, draft <- draft, status <- status
ImplementsLedger == Ledger!Spec

-----------------------------------------------------------------------------
(* The inductive invariant behind the safety properties.                   *)

\* A transaction is open on a slot exactly while it holds the slot's lock.
LockDiscipline ==
    /\ \A s \in Session : pc[s] \in InTx => lock[want[s]] = s
    /\ \A t \in Slot : lock[t] # NoOne => pc[lock[t]] \in InTx /\ want[lock[t]] = t

\* What a transaction has read is still true when it commits.
ReadsStillHold ==
    \A s \in Session :
        /\ pc[s] \in InTx \ {"locked"} => ~SlotIsFull(want[s])
        /\ pc[s] \in InTx \ {"locked", "counted"} => ~CpfTaken(draft[s], want[s])
        /\ pc[s] = "updated" => outcome[s] = "IN_PROGRESS"

BookedOnce ==
    \A s \in Session :
        /\ outcome[s] # "SCHEDULED" => \A t \in Slot : status[s][t] = "NONE"
        /\ outcome[s] = "SCHEDULED" =>
               pc[s] = "done" /\ \A t \in Slot : status[s][t] # "NONE" <=> t = want[s]
        /\ pc[s] = "done" => outcome[s] = "SCHEDULED"
        /\ reply[s] = "confirmed" => pc[s] = "done"

IInv ==
    /\ TypeOK
    /\ LockDiscipline
    /\ ReadsStillHold
    /\ BookedOnce
    /\ SeatsRespected
    /\ OneActivePerCpf

=============================================================================

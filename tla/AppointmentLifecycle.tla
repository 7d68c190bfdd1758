------------------------ MODULE AppointmentLifecycle ------------------------
(***************************************************************************)
(* One appointment in the hands of the staff: services/appointment         *)
(* .service.ts, services/appointmentTransitions.ts and the transactions of *)
(* repositories/appointment.repository.ts. The chat created it as PENDING; *)
(* members of the staff claim it, record that the citizen came or did not, *)
(* and look at it, several of them at the same time.                       *)
(*                                                                         *)
(* A PATCH takes the time it decides by ("now") when it arrives, and then  *)
(* waits for a connection and for the lock of the row. What its            *)
(* transaction writes is invisible until COMMIT, so that the statements    *)
(* after the lock are one action with the COMMIT, or fail together.        *)
(***************************************************************************)
EXTENDS Naturals, Sequences

CONSTANTS User,
          Request,   \* requests of the panel, each made at most once
          NoOne,     \* assigned_user_id, actor_user_id or a lock holder: none
          Day,       \* the first moment of the day of the appointment
          Hour,      \* the moment of the appointment
          MaxNow     \* bound: the clock

ASSUME LifecycleAssumption ==
    /\ NoOne \notin User \cup Request
    /\ {Day, Hour, MaxNow} \subseteq Nat
    /\ Day <= Hour

VARIABLES
    now,
    row,          \* status and assigned_user_id of the row of Appointments
    events,       \* its rows of AppointmentEvents; the index is the id
    lock,         \* the request that holds the row FOR UPDATE
    stage,        \* how far each request is
    actor, action,
    at,           \* the "now" of each request
    seenStatus,   \* what the detail that answers it read: status ...
    seenEvents    \* ... and number of events

saved == <<row, events>>
asked == <<actor, action, at>>
seen  == <<seenStatus, seenEvents>>
vars  == <<now, saved, lock, stage, asked, seen>>

Active == {"PENDING", "CONFIRMED"}
Status == Active \cup {"ATTENDED", "NO_SHOW"}
Action == {"claim", "attended", "no_show", "view"}
Stage  == {"idle", "asked", "locked", "reading", "refused", "failed"}

\* "by" and "done" are not columns: the request that wrote the event, and the
\* moment of its COMMIT.
EventRow == [type  : {"CREATED", "CLAIMED", "ATTENDED", "NO_SHOW"},
             actor : User \cup {NoOne},
             at    : Nat,
             by    : Request \cup {NoOne},
             done  : Nat]

TypeOK ==
    /\ now \in Nat
    /\ row \in [status : Status, responsible : User \cup {NoOne}]
    /\ events \in Seq(EventRow)
    /\ lock \in Request \cup {NoOne}
    /\ stage \in [Request -> Stage]
    /\ actor \in [Request -> User]
    /\ action \in [Request -> Action]
    /\ at \in [Request -> Nat]
    /\ seenStatus \in [Request -> Status \cup {"none"}]
    /\ seenEvents \in [Request -> Nat]

-----------------------------------------------------------------------------
\* decideTransition. CANCELED is a status nothing sets yet.
Allowed(a, status, time) ==
    \/ a = "claim" /\ status = "PENDING"
    \/ a = "attended" /\ status \in Active /\ time >= Day
    \/ a = "no_show" /\ status \in Active /\ time >= Hour

Event(type, r) ==
    [type |-> type, actor |-> actor[r], at |-> at[r], by |-> r, done |-> now]

Recorded(a) == IF a = "attended" THEN "ATTENDED" ELSE "NO_SHOW"

\* The row after the UPDATEs: recording claims a pending appointment first,
\* and leaves a responsible there is.
NewRow(r) ==
    IF action[r] = "claim"
    THEN [status |-> "CONFIRMED", responsible |-> actor[r]]
    ELSE [status |-> Recorded(action[r]),
          responsible |-> IF row.status = "PENDING" \/ row.responsible = NoOne
                          THEN actor[r] ELSE row.responsible]

NewEvents(r) ==
    IF action[r] = "claim" THEN <<Event("CLAIMED", r)>>
    ELSE IF row.status = "PENDING"
         THEN <<Event("CLAIMED", r), Event(Recorded(action[r]), r)>>
         ELSE <<Event(Recorded(action[r]), r)>>

-----------------------------------------------------------------------------
Init ==
    /\ now = 0
    /\ row = [status |-> "PENDING", responsible |-> NoOne]
    /\ events = <<[type |-> "CREATED", actor |-> NoOne, at |-> 0, by |-> NoOne, done |-> 0]>>
    /\ lock = NoOne
    /\ stage = [r \in Request |-> "idle"]
    /\ actor \in [Request -> User]
    /\ action = [r \in Request |-> "view"]
    /\ at = [r \in Request |-> 0]
    /\ seenStatus = [r \in Request |-> "none"]
    /\ seenEvents = [r \in Request |-> 0]

Tick ==
    /\ now < MaxNow
    /\ now' = now + 1
    /\ UNCHANGED <<saved, lock, stage, asked, seen>>

\* updateAppointmentStatus, or getAppointmentDetail.
Ask(r, a) ==
    /\ stage[r] = "idle"
    /\ stage' = [stage EXCEPT ![r] = IF a = "view" THEN "reading" ELSE "asked"]
    /\ action' = [action EXCEPT ![r] = a]
    /\ at' = [at EXCEPT ![r] = now]
    /\ UNCHANGED <<now, saved, lock, actor, seen>>

\* Variant: the SELECT has no FOR UPDATE.
Lock_NoForUpdate(r) ==
    /\ stage[r] = "asked"
    /\ Allowed(action[r], row.status, at[r])
    /\ stage' = [stage EXCEPT ![r] = "locked"]
    /\ UNCHANGED <<now, saved, lock, asked, seen>>

\* lockAndDecide, when the transition is allowed.
Lock(r) ==
    /\ stage[r] = "asked"
    /\ lock = NoOne
    /\ Allowed(action[r], row.status, at[r])
    /\ lock' = r
    /\ stage' = [stage EXCEPT ![r] = "locked"]
    /\ UNCHANGED <<now, saved, asked, seen>>

\* Variant: the decision is thrown without a ROLLBACK.
Refuse_KeepsLock(r) ==
    /\ stage[r] = "asked"
    /\ lock = NoOne
    /\ ~Allowed(action[r], row.status, at[r])
    /\ lock' = r
    /\ stage' = [stage EXCEPT ![r] = "refused"]
    /\ UNCHANGED <<now, saved, asked, seen>>

\* lockAndDecide, when it is not: ROLLBACK and 409.
Refuse(r) ==
    /\ stage[r] = "asked"
    /\ lock = NoOne
    /\ ~Allowed(action[r], row.status, at[r])
    /\ stage' = [stage EXCEPT ![r] = "refused"]
    /\ UNCHANGED <<now, saved, lock, asked, seen>>

\* claim, markAttended, markNoShow up to their COMMIT. The answer of the
\* COMMIT may be lost, and then the panel gets an error.
Write(r) ==
    /\ stage[r] = "locked"
    /\ row' = NewRow(r)
    /\ events' = events \o NewEvents(r)
    /\ lock' = NoOne
    /\ \E next \in {"reading", "failed"} : stage' = [stage EXCEPT ![r] = next]
    /\ UNCHANGED <<now, asked, seen>>

\* A statement fails: ROLLBACK, or nothing to roll back.
Fail(r) ==
    /\ stage[r] \in {"asked", "locked", "reading"}
    /\ stage' = [stage EXCEPT ![r] = "failed"]
    /\ lock' = IF lock = r THEN NoOne ELSE lock
    /\ UNCHANGED <<now, saved, asked, seen>>

\* findById: one query for the row ...
ReadRow(r) ==
    /\ stage[r] = "reading" /\ seenStatus[r] = "none"
    /\ seenStatus' = [seenStatus EXCEPT ![r] = row.status]
    /\ UNCHANGED <<now, saved, lock, stage, asked, seenEvents>>

\* Variant: the two queries run side by side.
MayReadEvents_InParallel(r) == seenEvents[r] = 0

MayReadEvents(r) == seenStatus[r] # "none" /\ seenEvents[r] = 0

\* ... and, when it has answered, one for its events.
ReadEvents(r) ==
    /\ stage[r] = "reading" /\ MayReadEvents(r)
    /\ seenEvents' = [seenEvents EXCEPT ![r] = Len(events)]
    /\ UNCHANGED <<now, saved, lock, stage, asked, seenStatus>>

Shown(r) == stage[r] = "reading" /\ seenStatus[r] # "none" /\ seenEvents[r] # 0

Step(r) == Lock(r) \/ Refuse(r) \/ Write(r) \/ ReadRow(r) \/ ReadEvents(r)

Next ==
    \/ Tick
    \/ \E r \in Request : Step(r) \/ Fail(r) \/ \E a \in Action : Ask(r, a)

Spec == Init /\ [][Next]_vars

-----------------------------------------------------------------------------
(* Properties                                                              *)

\* How many events an appointment of each status has.
Rank(status) ==
    CASE status = "PENDING" -> 1 [] status = "CONFIRMED" -> 2 [] OTHER -> 3

\* Whatever the staff do together, the history is a path of the life cycle
\* (created, claimed once, recorded once) and tells the status and the
\* responsible of the row: a record of an unclaimed appointment claims it.
LawfulHistory ==
    /\ Len(events) = Rank(row.status)
    /\ events[1].type = "CREATED"
    /\ row.responsible = IF Len(events) = 1 THEN NoOne ELSE events[2].actor
    /\ Len(events) > 1 => events[2].type = "CLAIMED" /\ events[2].actor \in User
    /\ Len(events) > 2 => events[3].type = row.status

\* A request that was answered with the new detail left its event, and one
\* that was refused left none.
AcceptedOrRefused ==
    \A r \in Request :
        LET own == {i \in DOMAIN events : events[i].by = r} IN
        /\ stage[r] = "reading" /\ action[r] # "view" => own # {}
        /\ stage[r] \in {"idle", "asked", "locked", "refused"} \/ action[r] = "view" => own = {}

\* A detail is read by several queries, and others write between them. It
\* never shows a status without the event that gave it, and the detail that
\* answers an action shows the action.
DetailShowsItsEvents ==
    \A r \in Request : Shown(r) =>
        /\ seenEvents[r] >= Rank(seenStatus[r])
        /\ action[r] # "view" => \E i \in 1 .. seenEvents[r] : events[i].by = r

\* ORDER BY created_at DESC, id DESC.
ShownAbove(i, j) ==
    \/ events[i].at > events[j].at
    \/ events[i].at = events[j].at /\ i > j

\* "Events ... do mais recente ao mais antigo": what was asked for after the
\* earlier event was there is shown above it, and so is the second event of one
\* request (desempate por id DESC). Requests that waited for the row together
\* may be shown the other way round.
NewestFirstInTurn ==
    \A i, j \in DOMAIN events :
        i > j /\ (events[i].by = events[j].by \/ events[i].at >= events[j].done)
            => ShownAbove(i, j)

\* Whoever became responsible stays so, also when others record.
ResponsibleStays ==
    [][row.responsible # NoOne => row'.responsible = row.responsible]_vars

-----------------------------------------------------------------------------
(* The inductive invariant behind the safety properties.                   *)

\* The request that holds the row has decided by what the row still says.
LockDiscipline ==
    /\ \A r \in Request : stage[r] = "locked" =>
           lock = r /\ Allowed(action[r], row.status, at[r])
    /\ lock # NoOne => stage[lock] = "locked"

\* Times of events lie in the past, and a COMMIT after the time it writes,
\* which is that of its request.
TimesInOrder ==
    /\ \A i \in DOMAIN events :
          /\ events[i].at <= events[i].done /\ events[i].done <= now
          /\ IF i = 1 THEN events[i].by = NoOne
             ELSE events[i].by \in Request /\ events[i].at = at[events[i].by]
    /\ \A r \in Request : at[r] <= now

\* What a detail has read so far is a part of the history.
SeenIsPast ==
    \A r \in Request :
        /\ stage[r] \in {"idle", "asked", "locked"} => seenStatus[r] = "none"
        /\ seenStatus[r] = "none" => seenEvents[r] = 0
        /\ seenEvents[r] <= Len(events)
        /\ seenStatus[r] # "none" =>
              /\ Rank(seenStatus[r]) <= Len(events)
              /\ seenEvents[r] # 0 => Rank(seenStatus[r]) <= seenEvents[r]
              /\ stage[r] = "reading" /\ action[r] # "view" =>
                    \E i \in 1 .. Rank(seenStatus[r]) : events[i].by = r

IInv ==
    /\ TypeOK
    /\ LockDiscipline /\ TimesInOrder
    /\ LawfulHistory /\ AcceptedOrRefused /\ SeenIsPast

=============================================================================

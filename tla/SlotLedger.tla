----------------------------- MODULE SlotLedger -----------------------------
(***************************************************************************)
(* What the booking promises, with no transaction, lock or message in it: *)
(* a conversation is closed once, with one outcome; a booking takes a free *)
(* seat of one slot, closes its conversation as SCHEDULED in the same      *)
(* step, and afterwards only the staff move the appointment forward.       *)
(* SlotBooking, the transactional code, is shown to implement this module. *)
(***************************************************************************)
EXTENDS Naturals, FiniteSets

CONSTANTS Session,   \* rows of Sessions, one per conversation
          Slot,      \* appointment times
          Cpf,       \* hashes of the holder's CPF
          Seats      \* ScheduleSettings.seats_per_slot

VARIABLES outcome,   \* Sessions.outcome
          draft,     \* Sessions.draft: the CPF hash the citizen gave
          status     \* Appointments.status of session s at slot t, or "NONE"

vars == <<outcome, draft, status>>

Active == {"PENDING", "CONFIRMED"}

ActiveAt(t) == {s \in Session : status[s][t] \in Active}

CpfTaken(c, t) == \E s \in ActiveAt(t) : draft[s] = c

Init ==
    /\ outcome = [s \in Session |-> "IN_PROGRESS"]
    /\ draft \in [Session -> Cpf]
    /\ status = [s \in Session |-> [t \in Slot |-> "NONE"]]

Book(s, t) ==
    /\ outcome[s] = "IN_PROGRESS"
    /\ status[s][t] = "NONE"
    /\ Cardinality(ActiveAt(t)) < Seats
    /\ ~CpfTaken(draft[s], t)
    /\ outcome' = [outcome EXCEPT ![s] = "SCHEDULED"]
    /\ status' = [status EXCEPT ![s][t] = "PENDING"]
    /\ UNCHANGED draft

Close(s) ==
    /\ outcome[s] = "IN_PROGRESS"
    /\ \E o \in {"NO_SLOT", "ABANDONED"} :
           outcome' = [outcome EXCEPT ![s] = o]
    /\ UNCHANGED <<draft, status>>

Advance(s, t) ==
    /\ \/ status[s][t] = "PENDING" /\ status' = [status EXCEPT ![s][t] = "CONFIRMED"]
       \/ /\ status[s][t] \in Active
          /\ \E e \in {"ATTENDED", "NO_SHOW"} : status' = [status EXCEPT ![s][t] = e]
    /\ UNCHANGED <<outcome, draft>>

Next == \E s \in Session : Close(s) \/ \E t \in Slot : Book(s, t) \/ Advance(s, t)

Spec == Init /\ [][Next]_vars

=============================================================================

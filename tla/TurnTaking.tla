----------------------------- MODULE TurnTaking -----------------------------
(***************************************************************************)
(* What both queues by phone promise (the gateway's services/phoneQueue.ts *)
(* and createPhoneLock of the backend's services/conversationFlow.service  *)
(* .ts): the tasks of a phone run one at a time and in the order in which  *)
(* they were handed over; the tasks of other phones do not matter.         *)
(***************************************************************************)
CONSTANTS Task,      \* calls of run
          Phone,
          PhoneOf    \* the phone each task is run for

VARIABLES
    stage,     \* how far a task is
    ahead      \* the tasks of its phone that were handed over before it

turns == <<stage, ahead>>

Stage == {"unborn", "waiting", "running", "done"}

SamePhone(t, u) == PhoneOf[t] = PhoneOf[u]

Init ==
    /\ stage = [t \in Task |-> "unborn"]
    /\ ahead = [t \in Task |-> {}]

HandOver(t) ==
    /\ stage[t] = "unborn"
    /\ stage' = [stage EXCEPT ![t] = "waiting"]
    /\ ahead' = [ahead EXCEPT ![t] =
                    {u \in Task : SamePhone(t, u) /\ stage[u] # "unborn"}]

Begin(t) ==
    /\ stage[t] = "waiting"
    /\ \A u \in ahead[t] : stage[u] = "done"
    /\ stage' = [stage EXCEPT ![t] = "running"]
    /\ UNCHANGED ahead

End(t) ==
    /\ stage[t] = "running"
    /\ stage' = [stage EXCEPT ![t] = "done"]
    /\ UNCHANGED ahead

Next == \E t \in Task : HandOver(t) \/ Begin(t) \/ End(t)

Spec == Init /\ [][Next]_turns

=============================================================================

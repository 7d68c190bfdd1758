----------------------------- MODULE PhoneQueue -----------------------------
(***************************************************************************)
(* The chain of promises by which a process serialises the work of a phone.*)
(* The gateway and the backend carry the same algorithm: createPhoneQueue  *)
(* (services/phoneQueue.ts) and createPhoneLock (services/                 *)
(* conversationFlow.service.ts).                                           *)
(*                                                                         *)
(* run(phone, task) puts a new promise at the tail of the phone's chain,   *)
(* waits for the promise that was there, runs the task and resolves its    *)
(* own promise, whether the task returned or threw. Nothing holds the      *)
(* queue itself: it exists only as each task's "previous".                 *)
(***************************************************************************)
CONSTANTS Task,      \* calls of run
          Phone,
          PhoneOf,   \* the phone each call is for
          NoTask     \* no promise: Map.get gave undefined

ASSUME QueueAssumption ==
    /\ PhoneOf \in [Task -> Phone]
    /\ NoTask \notin Task

VARIABLES
    tails,      \* the Map: the last promise of each phone
    previous,   \* the promise each call waits for
    stage,      \* where each call stands; its promise is resolved when "done"
    ahead       \* history: earlier calls for the same phone

queueVars == <<tails, previous, stage, ahead>>

Stage == {"unborn", "waiting", "running", "done"}

QueueTypeOK ==
    /\ tails \in [Phone -> Task \cup {NoTask}]
    /\ previous \in [Task -> Task \cup {NoTask}]
    /\ stage \in [Task -> Stage]
    /\ ahead \in [Task -> SUBSET Task]

QueueInit ==
    /\ tails = [p \in Phone |-> NoTask]
    /\ previous = [t \in Task |-> NoTask]
    /\ stage = [t \in Task |-> "unborn"]
    /\ ahead = [t \in Task |-> {}]

\* The calls for phone p that have been made.
CallsOf(p) == {u \in Task : PhoneOf[u] = p /\ stage[u] # "unborn"}

Resolved(t) == t # NoTask => stage[t] = "done"

\* Variant: the promise enters the map before the old tail is read.
Run_TailFirst(t) ==
    LET p == PhoneOf[t] IN
    /\ stage[t] = "unborn"
    /\ previous' = [previous EXCEPT ![t] = t]
    /\ tails' = [tails EXCEPT ![p] = t]
    /\ stage' = [stage EXCEPT ![t] = "waiting"]
    /\ ahead' = [ahead EXCEPT ![t] = CallsOf(p)]

\* run up to its await: no other call can come in between.
Run(t) ==
    LET p == PhoneOf[t] IN
    /\ stage[t] = "unborn"
    /\ previous' = [previous EXCEPT ![t] = tails[p]]
    /\ tails' = [tails EXCEPT ![p] = t]
    /\ stage' = [stage EXCEPT ![t] = "waiting"]
    /\ ahead' = [ahead EXCEPT ![t] = CallsOf(p)]

\* The await of previous is over.
Start(t) ==
    /\ stage[t] = "waiting"
    /\ Resolved(previous[t])
    /\ stage' = [stage EXCEPT ![t] = "running"]
    /\ UNCHANGED <<tails, previous, ahead>>

\* Variant: removes the phone's entry without looking whose it is.
Forget_Blindly(t) == [tails EXCEPT ![PhoneOf[t]] = NoTask]

\* The entry of the phone goes away with its last task.
Forget(t) ==
    IF tails[PhoneOf[t]] = t THEN [tails EXCEPT ![PhoneOf[t]] = NoTask] ELSE tails

\* The finally block; the task returned or threw.
Settle(t) ==
    /\ stage[t] = "running"
    /\ stage' = [stage EXCEPT ![t] = "done"]
    /\ tails' = Forget(t)
    /\ UNCHANGED <<previous, ahead>>

QueueNext == \E t \in Task : Run(t) \/ Start(t) \/ Settle(t)

QueueSpec == QueueInit /\ [][QueueNext]_queueVars

\* A resolved await is continued by the event loop; the tasks of the gateway
\* end because each of their calls has a timeout.
FairQueueSpec == QueueSpec /\ \A t \in Task : WF_queueVars(Start(t)) /\ WF_queueVars(Settle(t))

-----------------------------------------------------------------------------
(* Properties                                                              *)

\* The reply of one message is sent before the next of the same phone is
\* forwarded; the handler of a phone runs alone.
OneAtATime ==
    \A t, u \in Task :
        t # u /\ PhoneOf[t] = PhoneOf[u] => ~(stage[t] = "running" /\ stage[u] = "running")

\* The map holds exactly the phones with work to do: no entry is left behind,
\* and none is lost while a call is waiting (the next call would overtake it).
MapHoldsTheBusy ==
    \A p \in Phone : (tails[p] = NoTask) <=> \A t \in CallsOf(p) : stage[t] = "done"

-----------------------------------------------------------------------------
(* Why OneAtATime holds.                                                   *)

\* "ahead" holds earlier calls of the same phone only.
AheadIsEarlier ==
    \A t \in Task :
        /\ stage[t] = "unborn" => ahead[t] = {}
        /\ \A u \in ahead[t] : PhoneOf[u] = PhoneOf[t] /\ stage[u] # "unborn"

\* A call's promise stands for all earlier ones of its phone: whoever waits
\* for it waits for all of them.
WaitsForAll ==
    \A t \in Task : stage[t] = "waiting" =>
        IF previous[t] = NoTask
        THEN \A u \in ahead[t] : stage[u] = "done"
        ELSE \A u \in ahead[t] :
                stage[u] = "done" \/ u = previous[t] \/ u \in ahead[previous[t]]

\* Whoever runs has nobody before it.
RunsInTurn ==
    \A t \in Task : stage[t] \in {"running", "done"} =>
        \A u \in ahead[t] : stage[u] = "done"

\* Two calls of a phone are always one ahead of the other.
CallsOrdered ==
    \A t, u \in Task :
        t # u /\ PhoneOf[t] = PhoneOf[u] /\ stage[t] # "unborn" /\ stage[u] # "unborn"
            => t \in ahead[u] \/ u \in ahead[t]

\* The tail of a phone is its last call, and it is not done.
TailIsLast ==
    \A p \in Phone :
        IF tails[p] = NoTask
        THEN \A u \in CallsOf(p) : stage[u] = "done"
        ELSE /\ tails[p] \in CallsOf(p)
             /\ stage[tails[p]] # "done"
             /\ \A u \in CallsOf(p) : u = tails[p] \/ u \in ahead[tails[p]]

QueueInv ==
    QueueTypeOK /\ AheadIsEarlier /\ WaitsForAll /\ RunsInTurn /\ CallsOrdered /\ TailIsLast

-----------------------------------------------------------------------------
(* Refinement                                                              *)

Turns == INSTANCE TurnTaking WITH
    Task <- Task, Phone <- Phone, PhoneOf <- PhoneOf,
    stage <- stage, ahead <- ahead

ImplementsTurns == Turns!Spec

\* A call that was made is eventually run, even if tasks before it throw.
EveryCallRuns == \A t \in Task : (stage[t] = "waiting") ~> (stage[t] = "done")

=============================================================================

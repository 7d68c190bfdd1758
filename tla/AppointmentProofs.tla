------------------------- MODULE AppointmentProofs -------------------------
(***************************************************************************)
(* The life cycle of an appointment and the page that shows it, for any    *)
(* number of members of the staff, of requests at any times and of         *)
(* failures. The row lock is what the first part rests on: the request     *)
(* that holds it decided by a status that is still the one it overwrites   *)
(* (LockDiscipline), so each transaction lengthens the history by what the *)
(* life cycle allows (WriteShape); all other steps leave row and history   *)
(* alone (Quiet).                                                          *)
(* Each step of the page is a step of the requests it makes, so that what  *)
(* is proved of the life cycle holds for it (PageImplements). That the     *)
(* screen catches up rests on two facts about a request made after an      *)
(* action was heard: it reads the event of the action (ReadAfterwards),    *)
(* and a refusal it explains is for good (RefusedForGood), for the page    *)
(* asked no earlier than was possible.                                     *)
(***************************************************************************)
EXTENDS AppointmentDetail, SequenceTheorems, TLAPS

\* The constants are numbers and proper names.
LEMMA Constants ==
    /\ Day \in Nat /\ Hour \in Nat /\ MaxNow \in Nat
    /\ NoOne \notin User /\ NoOne \notin Request
BY LifecycleAssumption

\* The ranks of the statuses.
LEMMA Ranks ==
    /\ Rank("PENDING") = 1 /\ Rank("CONFIRMED") = 2
    /\ Rank("ATTENDED") = 3 /\ Rank("NO_SHOW") = 3
    /\ \A s \in Status : Rank(s) \in 1 .. 3
BY DEF Rank, Status, Active

\* A sequence with one or two elements appended.
LEMMA Appended ==
    ASSUME NEW S, NEW s \in Seq(S), NEW x \in S, NEW y \in S
    PROVE  /\ s \o <<x>> \in Seq(S) /\ s \o <<x, y>> \in Seq(S)
           /\ Len(s \o <<x>>) = Len(s) + 1 /\ Len(s \o <<x, y>>) = Len(s) + 2
           /\ \A i \in 1 .. Len(s) : (s \o <<x>>)[i] = s[i] /\ (s \o <<x, y>>)[i] = s[i]
           /\ (s \o <<x>>)[Len(s) + 1] = x
           /\ (s \o <<x, y>>)[Len(s) + 1] = x /\ (s \o <<x, y>>)[Len(s) + 2] = y
<1>1. /\ <<x>> \in Seq(S) /\ Len(<<x>>) = 1 /\ <<x>>[1] = x
      /\ <<x, y>> \in Seq(S) /\ Len(<<x, y>>) = 2 /\ <<x, y>>[1] = x /\ <<x, y>>[2] = y
    OBVIOUS
<1> QED
    BY <1>1, ConcatProperties, LenProperties

\* A transaction finds the row as it decided by, and appends a claim, a record
\* or both.
LEMMA WriteShape ==
    ASSUME IInv, NEW r \in Request, Write(r)
    PROVE  /\ row' \in [status : Status, responsible : User \cup {NoOne}]
           /\ events' \in Seq(EventRow)
           /\ Len(events') > Len(events)
           /\ \A i \in 1 .. Len(events) : events'[i] = events[i]
           /\ \A i \in Len(events) + 1 .. Len(events') :
                 /\ events'[i].by = r
                 /\ events'[i].at = at[r] /\ events'[i].done = now
           /\ LawfulHistory'
           /\ row.responsible # NoOne => row'.responsible = row.responsible
<1> DEFINE claim  == Event("CLAIMED", r)
           record == Event(Recorded(action[r]), r)
          one(x) == events \o <<x>>
          two(x, y) == events \o <<x, y>>
<1>1. /\ Allowed(action[r], row.status, at[r]) /\ LawfulHistory
      /\ row' = NewRow(r) /\ events' = events \o NewEvents(r)
      /\ row.status \in Status /\ row.responsible \in User \cup {NoOne}
      /\ events \in Seq(EventRow) /\ Len(events) \in Nat
      /\ actor[r] \in User /\ at[r] \in Nat /\ now \in Nat
    BY DEF IInv, TypeOK, LockDiscipline, Write
<1>2. claim \in EventRow /\ record \in EventRow
    BY <1>1 DEF Event, EventRow, Recorded
<1>b. /\ claim.by = r /\ claim.at = at[r] /\ claim.done = now
      /\ record.by = r /\ record.at = at[r] /\ record.done = now
      /\ claim.type = "CLAIMED" /\ claim.actor = actor[r] /\ record.type = Recorded(action[r])
    BY DEF Event
<1>a. \A x, y \in EventRow :
         /\ one(x) \in Seq(EventRow) /\ two(x, y) \in Seq(EventRow)
         /\ Len(one(x)) = Len(events) + 1 /\ Len(two(x, y)) = Len(events) + 2
         /\ \A i \in 1 .. Len(events) : one(x)[i] = events[i] /\ two(x, y)[i] = events[i]
         /\ one(x)[Len(events) + 1] = x
         /\ two(x, y)[Len(events) + 1] = x /\ two(x, y)[Len(events) + 2] = y
    BY <1>1, Appended
<1> HIDE DEF claim, record, one, two
<1>3. CASE action[r] = "claim"
  <2>1. row.status = "PENDING" /\ Len(events) = 1
      BY <1>1, <1>3, Ranks DEF Allowed, LawfulHistory
  <2>2. /\ row' = [status |-> "CONFIRMED", responsible |-> actor[r]]
        /\ events' = one(claim)
      BY <1>1, <1>3 DEF NewRow, NewEvents, claim, record, one, two
  <2>3. /\ events' \in Seq(EventRow) /\ Len(events') = 2
        /\ events'[1] = events[1] /\ events'[2] = claim
      BY <1>1, <1>2, <2>1, <2>2, <1>a
  <2>4. LawfulHistory'
    <3>1. Rank(row'.status) = 2
        BY <2>1, <2>2, Ranks
    <3>2. events'[1].type = "CREATED"
        BY <1>1, <2>3 DEF LawfulHistory
    <3> QED
        BY <1>1, <1>b, <2>1, <2>2, <2>3, <3>1, <3>2, Constants DEF LawfulHistory
  <2>5. row.responsible = NoOne
      BY <1>1, <2>1 DEF LawfulHistory
  <2>6. row' \in [status : Status, responsible : User \cup {NoOne}]
      BY <1>1, <2>1, <2>2 DEF Status, Active
  <2>7. \A i \in Len(events) + 1 .. Len(events') : events'[i] \in {claim, record}
      BY <2>1, <2>3
  <2>8. \A i \in 1 .. Len(events) : events'[i] = events[i]
      BY <2>1, <2>3
  <2> QED
      BY <1>b, <2>1, <2>3, <2>4, <2>5, <2>6, <2>7, <2>8
<1>4. CASE action[r] # "claim" /\ row.status = "PENDING"
  <2>1. Len(events) = 1 /\ Recorded(action[r]) \in {"ATTENDED", "NO_SHOW"}
      BY <1>1, <1>4, Ranks DEF LawfulHistory, Recorded
  <2>2. /\ row' = [status |-> Recorded(action[r]), responsible |-> actor[r]]
        /\ events' = two(claim, record)
      BY <1>1, <1>4 DEF NewRow, NewEvents, claim, record, one, two
  <2>3. /\ events' \in Seq(EventRow) /\ Len(events') = 3
        /\ events'[1] = events[1] /\ events'[2] = claim /\ events'[3] = record
      BY <1>1, <1>2, <2>1, <2>2, <1>a
  <2>4. LawfulHistory'
    <3>1. Rank(row'.status) = 3
        BY <2>1, <2>2, Ranks
    <3>2. events'[1].type = "CREATED"
        BY <1>1, <2>3 DEF LawfulHistory
    <3> QED
        BY <1>1, <1>b, <2>1, <2>2, <2>3, <3>1, <3>2, Constants DEF LawfulHistory
  <2>5. row.responsible = NoOne
      BY <1>1, <2>1 DEF LawfulHistory
  <2>6. row' \in [status : Status, responsible : User \cup {NoOne}]
      BY <1>1, <2>1, <2>2 DEF Status, Active
  <2>7. \A i \in Len(events) + 1 .. Len(events') : events'[i] \in {claim, record}
      BY <2>1, <2>3
  <2>8. \A i \in 1 .. Len(events) : events'[i] = events[i]
      BY <2>1, <2>3
  <2> QED
      BY <1>b, <2>1, <2>3, <2>4, <2>5, <2>6, <2>7, <2>8
<1>5. CASE action[r] # "claim" /\ row.status # "PENDING"
  <2>1. /\ row.status = "CONFIRMED" /\ Len(events) = 2
        /\ Recorded(action[r]) \in {"ATTENDED", "NO_SHOW"}
      BY <1>1, <1>5, Ranks DEF LawfulHistory, Recorded, Allowed, Active
  <2>2. /\ row'.status = Recorded(action[r])
        /\ row'.responsible = IF row.responsible = NoOne THEN actor[r] ELSE row.responsible
        /\ row' \in [status : Status, responsible : User \cup {NoOne}]
        /\ events' = one(record)
      BY <1>1, <1>5, <2>1 DEF NewRow, NewEvents, claim, record, one, two, Status
  <2>3. /\ events' \in Seq(EventRow) /\ Len(events') = 3
        /\ events'[1] = events[1] /\ events'[2] = events[2] /\ events'[3] = record
      BY <1>1, <1>2, <2>1, <2>2, <1>a
  <2>4. LawfulHistory'
    <3>1. Rank(row'.status) = 3
        BY <2>1, <2>2, Ranks
    <3>2. events'[1].type = "CREATED"
        BY <1>1, <2>3 DEF LawfulHistory
    <3>3. /\ row.responsible = events[2].actor /\ events[2].actor \in User
          /\ events[2].type = "CLAIMED"
      <4>1. LawfulHistory
          BY <1>1
      <4>2. Len(events) > 1 /\ Len(events) # 1
          BY <2>1
      <4> QED
          BY <4>1, <4>2 DEF LawfulHistory
    <3>4. row'.responsible = row.responsible
        BY <2>2, <3>3, Constants
    <3>5. Len(events') = 3
        BY <2>3
    <3>6. events'[2] = events[2] /\ events'[3].type = row'.status
        BY <1>b, <2>2, <2>3
    <3> QED
        BY <3>1, <3>2, <3>3, <3>4, <3>5, <3>6 DEF LawfulHistory
  <2>7. \A i \in Len(events) + 1 .. Len(events') : events'[i] \in {claim, record}
      BY <2>1, <2>3
  <2>8. \A i \in 1 .. Len(events) : events'[i] = events[i]
      BY <2>1, <2>3
  <2> QED
      BY <1>b, <2>1, <2>2, <2>3, <2>4, <2>7, <2>8
<1> QED
    BY <1>3, <1>4, <1>5

\* The other steps leave the row and its history alone.
LEMMA Quiet ==
    ASSUME [Next]_vars, ~ \E r \in Request : Write(r)
    PROVE  UNCHANGED saved
<1>1. CASE Tick
    BY <1>1 DEF Tick
<1>2. ASSUME NEW r \in Request, Step(r) PROVE UNCHANGED saved
    BY <1>2 DEF Step, Lock, Refuse, ReadRow, ReadEvents
<1>3. ASSUME NEW r \in Request, Fail(r) PROVE UNCHANGED saved
    BY <1>3 DEF Fail
<1>4. ASSUME NEW r \in Request, NEW a \in Action, Ask(r, a) PROVE UNCHANGED saved
    BY <1>4 DEF Ask
<1>5. CASE UNCHANGED vars
    BY <1>5 DEF vars
<1> QED
    BY <1>1, <1>2, <1>3, <1>4, <1>5 DEF Next

\* Types are kept.
LEMMA TypeStep == IInv /\ [Next]_vars => TypeOK'
<1> SUFFICES ASSUME IInv, [Next]_vars PROVE TypeOK'
    OBVIOUS
<1>1. TypeOK /\ LockDiscipline
    BY DEF IInv
<1>2. CASE Tick
    BY <1>1, <1>2 DEF Tick, TypeOK, saved, asked, seen
<1>3. ASSUME NEW r \in Request, Lock(r) \/ Refuse(r) PROVE TypeOK'
    BY <1>1, <1>3 DEF Lock, Refuse, TypeOK, Stage, saved, asked, seen
<1>4. ASSUME NEW r \in Request, Write(r) PROVE TypeOK'
  <2>1. /\ row' \in [status : Status, responsible : User \cup {NoOne}]
        /\ events' \in Seq(EventRow)
      BY <1>4, WriteShape
  <2>2. /\ now' = now /\ asked' = asked /\ seen' = seen /\ lock' = NoOne
        /\ stage' \in [Request -> Stage]
      BY <1>1, <1>4 DEF Write, TypeOK, Stage
  <2> QED
      BY <1>1, <2>1, <2>2 DEF TypeOK, asked, seen
<1>5. ASSUME NEW r \in Request, ReadRow(r) PROVE TypeOK'
    BY <1>1, <1>5 DEF ReadRow, TypeOK, saved, asked
<1>6. ASSUME NEW r \in Request, ReadEvents(r) PROVE TypeOK'
  <2>1. Len(events) \in Nat
      BY <1>1 DEF TypeOK
  <2> QED
      BY <1>1, <1>6, <2>1 DEF ReadEvents, TypeOK, saved, asked
<1>7. ASSUME NEW r \in Request, Fail(r) PROVE TypeOK'
    BY <1>1, <1>7 DEF Fail, TypeOK, Stage, saved, asked, seen
<1>8. ASSUME NEW r \in Request, NEW a \in Action, Ask(r, a) PROVE TypeOK'
    BY <1>1, <1>8 DEF Ask, TypeOK, Stage, saved, seen
<1>9. CASE UNCHANGED vars
    BY <1>1, <1>9 DEF vars, TypeOK, saved, asked, seen
<1> QED
    BY <1>2, <1>3, <1>4, <1>5, <1>6, <1>7, <1>8, <1>9 DEF Next, Step

\* Only the holder of the lock writes, so its decision stays good.
LEMMA LockStep == IInv /\ [Next]_vars => LockDiscipline'
<1> SUFFICES ASSUME IInv, [Next]_vars PROVE LockDiscipline'
    OBVIOUS
<1>1. TypeOK /\ LockDiscipline /\ NoOne \notin Request
    BY Constants DEF IInv
<1>2. CASE Tick
    BY <1>1, <1>2 DEF Tick, LockDiscipline, saved, asked
<1>3. ASSUME NEW r \in Request, Lock(r) PROVE LockDiscipline'
    BY <1>1, <1>3 DEF Lock, TypeOK, LockDiscipline, saved, asked
<1>4. ASSUME NEW r \in Request, Refuse(r) PROVE LockDiscipline'
    BY <1>1, <1>4 DEF Refuse, TypeOK, LockDiscipline, saved, asked
<1>5. ASSUME NEW r \in Request, Write(r) PROVE LockDiscipline'
    BY <1>1, <1>5 DEF Write, TypeOK, LockDiscipline, asked
<1>6. ASSUME NEW r \in Request, ReadRow(r) \/ ReadEvents(r) PROVE LockDiscipline'
    BY <1>1, <1>6 DEF ReadRow, ReadEvents, LockDiscipline, saved, asked
<1>7. ASSUME NEW r \in Request, Fail(r) PROVE LockDiscipline'
    BY <1>1, <1>7 DEF Fail, TypeOK, LockDiscipline, saved, asked
<1>8. ASSUME NEW r \in Request, NEW a \in Action, Ask(r, a) PROVE LockDiscipline'
    BY <1>1, <1>8 DEF Ask, TypeOK, LockDiscipline, saved
<1>9. CASE UNCHANGED vars
    BY <1>1, <1>9 DEF vars, LockDiscipline, saved, asked
<1> QED
    BY <1>2, <1>3, <1>4, <1>5, <1>6, <1>7, <1>8, <1>9 DEF Next, Step

\* Every transaction continues the life cycle.
LEMMA HistoryStep == IInv /\ [Next]_vars => LawfulHistory'
<1> SUFFICES ASSUME IInv, [Next]_vars PROVE LawfulHistory'
    OBVIOUS
<1>1. CASE \E r \in Request : Write(r)
    BY <1>1, WriteShape
<1>2. CASE ~ \E r \in Request : Write(r)
  <2>1. row' = row /\ events' = events
      BY <1>2, Quiet DEF saved
  <2> QED
      BY <2>1 DEF IInv, LawfulHistory
<1> QED
    BY <1>1, <1>2

\* A request's time is set when it is made, before it writes.
LEMMA TimesStep == IInv /\ [Next]_vars => TimesInOrder'
<1> SUFFICES ASSUME IInv, [Next]_vars PROVE TimesInOrder'
    OBVIOUS
<1>1. /\ TypeOK /\ TimesInOrder /\ AcceptedOrRefused /\ LawfulHistory
      /\ now \in Nat /\ at \in [Request -> Nat] /\ events \in Seq(EventRow)
      /\ DOMAIN events = 1 .. Len(events) /\ Len(events) \in 1 .. 3
  <2>1. Len(events) \in 1 .. 3
      BY Ranks DEF IInv, TypeOK, LawfulHistory
  <2> QED
      BY <2>1 DEF IInv, TypeOK
<1>2. ASSUME NEW i \in DOMAIN events
      PROVE  events[i].at \in Nat /\ events[i].done \in Nat
  <2>1. events[i] \in EventRow
      BY <1>1
  <2> QED
      BY <2>1 DEF EventRow
<1>3. ASSUME UNCHANGED <<events, at>>, now' \in Nat, now' >= now PROVE TimesInOrder'
    BY <1>1, <1>2, <1>3 DEF TimesInOrder
<1>4. CASE Tick
    BY <1>1, <1>3, <1>4 DEF Tick, saved, asked
<1>5. ASSUME NEW r \in Request, Lock(r) \/ Refuse(r) \/ ReadRow(r) \/ ReadEvents(r) \/ Fail(r)
      PROVE  TimesInOrder'
    BY <1>1, <1>3, <1>5 DEF Lock, Refuse, ReadRow, ReadEvents, Fail, saved, asked
<1>6. ASSUME NEW r \in Request, NEW a \in Action, Ask(r, a) PROVE TimesInOrder'
  <2>1. /\ events' = events /\ now' = now /\ at' = [at EXCEPT ![r] = now]
        /\ \A i \in DOMAIN events : events[i].by # r
      BY <1>1, <1>6 DEF Ask, saved, AcceptedOrRefused
  <2> QED
      BY <1>1, <1>2, <2>1 DEF TimesInOrder
<1>7. ASSUME NEW r \in Request, Write(r) PROVE TimesInOrder'
  <2>1. /\ events' \in Seq(EventRow) /\ Len(events') > Len(events)
        /\ \A i \in 1 .. Len(events) : events'[i] = events[i]
        /\ \A i \in Len(events) + 1 .. Len(events') :
              events'[i].by = r /\ events'[i].at = at[r] /\ events'[i].done = now
      BY <1>7, WriteShape
  <2>2. now' = now /\ at' = at
      BY <1>7 DEF Write, asked
  <2>3. DOMAIN events' = 1 .. Len(events') /\ Len(events') \in Nat
      BY <2>1
  <2>4. ASSUME NEW i \in 1 .. Len(events')
        PROVE  /\ events'[i].at <= events'[i].done /\ events'[i].done <= now
               /\ IF i = 1 THEN events'[i].by = NoOne
                  ELSE events'[i].by \in Request /\ events'[i].at = at[events'[i].by]
    <3>1. CASE i \in 1 .. Len(events)
        BY <1>1, <2>1, <3>1 DEF TimesInOrder
    <3>2. CASE i \in Len(events) + 1 .. Len(events')
        BY <1>1, <2>1, <3>2 DEF TimesInOrder
    <3> QED
        BY <1>1, <2>3, <3>1, <3>2
  <2> QED
      BY <1>1, <2>2, <2>3, <2>4 DEF TimesInOrder
<1>8. CASE UNCHANGED vars
    BY <1>1, <1>3, <1>8 DEF vars, saved, asked
<1> QED
    BY <1>4, <1>5, <1>6, <1>7, <1>8 DEF Next, Step

\* A request writes in one transaction, once, and then only reads.
LEMMA AcceptedStep == IInv /\ [Next]_vars => AcceptedOrRefused'
<1> SUFFICES ASSUME IInv, [Next]_vars PROVE AcceptedOrRefused'
    OBVIOUS
<1> DEFINE own(r) == {i \in DOMAIN events : events[i].by = r}
<1>1. /\ TypeOK /\ AcceptedOrRefused /\ LockDiscipline
      /\ stage \in [Request -> Stage] /\ action \in [Request -> Action]
    BY DEF IInv, TypeOK
<1>2. CASE Tick
    BY <1>1, <1>2 DEF Tick, AcceptedOrRefused, saved, asked
<1>3. ASSUME NEW r \in Request, Lock(r) \/ Refuse(r) PROVE AcceptedOrRefused'
    BY <1>1, <1>3 DEF Lock, Refuse, AcceptedOrRefused, saved, asked
<1>4. ASSUME NEW r \in Request, Write(r) PROVE AcceptedOrRefused'
  <2>1. /\ events \in Seq(EventRow) /\ events' \in Seq(EventRow)
        /\ Len(events') > Len(events)
        /\ \A i \in 1 .. Len(events) : events'[i] = events[i]
        /\ \A i \in Len(events) + 1 .. Len(events') : events'[i].by = r
      BY <1>1, <1>4, WriteShape DEF TypeOK
  <2>2. /\ action' = action /\ action[r] # "view"
        /\ stage'[r] \in {"reading", "failed"}
        /\ \A q \in Request \ {r} : stage'[q] = stage[q]
      BY <1>1, <1>4 DEF Write, asked, LockDiscipline, Allowed
  <2>3. /\ DOMAIN events = 1 .. Len(events) /\ Len(events) \in Nat
        /\ DOMAIN events' = 1 .. Len(events') /\ Len(events') \in Nat
      BY <2>1
  <2>4. Len(events') \in own(r)'
      BY <2>1, <2>3
  <2>5. \A q \in Request \ {r} : own(q)' = own(q)
      BY <2>1, <2>3
  <2> QED
      BY <1>1, <2>2, <2>4, <2>5 DEF AcceptedOrRefused
<1>5. ASSUME NEW r \in Request, ReadRow(r) \/ ReadEvents(r) PROVE AcceptedOrRefused'
    BY <1>1, <1>5 DEF ReadRow, ReadEvents, AcceptedOrRefused, saved, asked
<1>6. ASSUME NEW r \in Request, Fail(r) PROVE AcceptedOrRefused'
    BY <1>1, <1>6 DEF Fail, AcceptedOrRefused, saved, asked
<1>7. ASSUME NEW r \in Request, NEW a \in Action, Ask(r, a) PROVE AcceptedOrRefused'
    BY <1>1, <1>7 DEF Ask, AcceptedOrRefused, saved
<1>8. CASE UNCHANGED vars
    BY <1>1, <1>8 DEF vars, AcceptedOrRefused, saved, asked
<1> QED
    BY <1>2, <1>3, <1>4, <1>5, <1>6, <1>7, <1>8 DEF Next, Step

\* The history only grows, so what was read stays a part of it.
LEMMA SeenStep == IInv /\ [Next]_vars => SeenIsPast'
<1> SUFFICES ASSUME IInv, [Next]_vars PROVE SeenIsPast'
    OBVIOUS
<1>1. /\ TypeOK /\ SeenIsPast /\ AcceptedOrRefused /\ LawfulHistory
      /\ events \in Seq(EventRow) /\ Len(events) \in Nat
      /\ DOMAIN events = 1 .. Len(events)
      /\ stage \in [Request -> Stage] /\ action \in [Request -> Action]
      /\ seenEvents \in [Request -> Nat]
      /\ seenStatus \in [Request -> Status \cup {"none"}]
      /\ row.status \in Status /\ "none" \notin Status
    BY DEF IInv, TypeOK, Status, Active
<1>2. CASE Tick
    BY <1>1, <1>2 DEF Tick, SeenIsPast, saved, asked, seen
<1>3. ASSUME NEW r \in Request, Lock(r) \/ Refuse(r) \/ Fail(r) PROVE SeenIsPast'
    BY <1>1, <1>3 DEF Lock, Refuse, Fail, SeenIsPast, saved, asked, seen
<1>4. ASSUME NEW r \in Request, Write(r) PROVE SeenIsPast'
  <2>1. /\ events' \in Seq(EventRow) /\ Len(events') \in Nat
        /\ Len(events') > Len(events)
        /\ \A i \in 1 .. Len(events) : events'[i] = events[i]
      BY <1>4, WriteShape
  <2>2. /\ action' = action /\ seenStatus' = seenStatus /\ seenEvents' = seenEvents
        /\ stage'[r] \in {"reading", "failed"} /\ seenStatus[r] = "none"
        /\ \A q \in Request \ {r} : stage'[q] = stage[q]
      BY <1>1, <1>4 DEF Write, asked, seen, SeenIsPast
  <2>3. \A q \in Request : seenStatus[q] # "none" => Rank(seenStatus[q]) \in 1 .. 3
      BY <1>1, Ranks
  <2>4. ASSUME NEW q \in Request
        PROVE  /\ seenEvents[q] <= Len(events')
               /\ seenStatus[q] # "none" =>
                     /\ Rank(seenStatus[q]) <= Len(events')
                     /\ seenEvents[q] # 0 => Rank(seenStatus[q]) <= seenEvents[q]
    <3>1. /\ seenEvents[q] \in Nat /\ seenEvents[q] <= Len(events)
          /\ seenStatus[q] # "none" =>
                /\ Rank(seenStatus[q]) \in Nat /\ Rank(seenStatus[q]) <= Len(events)
                /\ seenEvents[q] # 0 => Rank(seenStatus[q]) <= seenEvents[q]
        BY <1>1, <2>3 DEF SeenIsPast
    <3>2. \A n \in Nat : n <= Len(events) => n <= Len(events')
        BY <1>1, <2>1
    <3> QED
        BY <3>1, <3>2
  <2>5. ASSUME NEW q \in Request \ {r}, seenStatus[q] # "none",
               stage[q] = "reading", action[q] # "view"
        PROVE  \E i \in 1 .. Rank(seenStatus[q]) : events'[i].by = q
    <3>1. PICK i \in 1 .. Rank(seenStatus[q]) : events[i].by = q
        BY <1>1, <2>5 DEF SeenIsPast
    <3>2. i \in 1 .. Len(events)
        BY <1>1, <2>3, <2>5, <3>1 DEF SeenIsPast
    <3> QED
        BY <2>1, <3>1, <3>2
  <2>6. \A q \in Request :
           /\ stage'[q] \in {"idle", "asked", "locked"} => seenStatus[q] = "none"
           /\ seenStatus[q] = "none" => seenEvents[q] = 0
      BY <1>1, <2>2 DEF SeenIsPast
  <2> QED
      BY <2>2, <2>4, <2>5, <2>6 DEF SeenIsPast
<1>5. ASSUME NEW r \in Request, ReadRow(r) PROVE SeenIsPast'
  <2>1. /\ events' = events /\ action' = action /\ stage' = stage
        /\ stage[r] = "reading" /\ seenEvents' = seenEvents /\ seenEvents[r] = 0
        /\ seenStatus' = [seenStatus EXCEPT ![r] = row.status]
      BY <1>1, <1>5 DEF ReadRow, saved, asked, SeenIsPast
  <2>2. Rank(row.status) = Len(events)
      BY <1>1 DEF LawfulHistory
  <2>3. action[r] # "view" => \E i \in 1 .. Rank(row.status) : events[i].by = r
      BY <1>1, <2>1, <2>2 DEF AcceptedOrRefused
  <2> QED
      BY <1>1, <2>1, <2>2, <2>3 DEF SeenIsPast
<1>6. ASSUME NEW r \in Request, ReadEvents(r) PROVE SeenIsPast'
  <2>1. /\ events' = events /\ action' = action /\ stage' = stage
        /\ stage[r] = "reading" /\ seenStatus' = seenStatus /\ seenStatus[r] # "none"
        /\ seenEvents' = [seenEvents EXCEPT ![r] = Len(events)]
      BY <1>1, <1>6 DEF ReadEvents, MayReadEvents, saved, asked
  <2> QED
      BY <1>1, <2>1 DEF SeenIsPast
<1>7. ASSUME NEW r \in Request, NEW a \in Action, Ask(r, a) PROVE SeenIsPast'
    BY <1>1, <1>7 DEF Ask, SeenIsPast, saved, seen
<1>8. CASE UNCHANGED vars
    BY <1>1, <1>8 DEF vars, SeenIsPast, saved, asked, seen
<1> QED
    BY <1>2, <1>3, <1>4, <1>5, <1>6, <1>7, <1>8 DEF Next, Step

-----------------------------------------------------------------------------
\* Whatever the staff do at the same time, history, status, responsible and
\* answers stay consistent.
THEOREM LifecycleInvariance == Spec => []IInv
<1>1. Init => IInv
  <2> SUFFICES ASSUME Init PROVE IInv
      OBVIOUS
  <2> DEFINE created == [type |-> "CREATED", actor |-> NoOne, at |-> 0, by |-> NoOne, done |-> 0]
  <2>1. created \in EventRow /\ created.type = "CREATED" /\ created.by = NoOne
        /\ created.at = 0 /\ created.done = 0
      BY DEF EventRow
  <2>2. events = <<created>>
      BY DEF Init
  <2> HIDE DEF created
  <2>3. events \in Seq(EventRow) /\ Len(events) = 1 /\ events[1] = created
        /\ DOMAIN events = {1}
      BY <2>1, <2>2
  <2>4. TypeOK
      BY <2>3 DEF Init, TypeOK, Status, Active, Stage, Action
  <2>5. LockDiscipline /\ TimesInOrder
      BY <2>1, <2>3 DEF Init, LockDiscipline, TimesInOrder
  <2>6. LawfulHistory
      BY <2>1, <2>3, Ranks DEF Init, LawfulHistory
  <2>7. AcceptedOrRefused
      BY <2>1, <2>3, Constants DEF Init, AcceptedOrRefused
  <2>8. SeenIsPast
      BY <2>3 DEF Init, SeenIsPast
  <2> QED
      BY <2>4, <2>5, <2>6, <2>7, <2>8 DEF IInv
<1>2. IInv /\ [Next]_vars => IInv'
    BY TypeStep, LockStep, TimesStep, HistoryStep, AcceptedStep, SeenStep DEF IInv
<1> QED
    BY <1>1, <1>2, PTL DEF Spec

\* Each appointment is claimed once and recorded once, by whoever came first,
\* and its history says so.
THEOREM HistoryTheorem == Spec => []LawfulHistory
<1>1. IInv => LawfulHistory
    BY DEF IInv
<1> QED
    BY <1>1, LifecycleInvariance, PTL

\* A detail has the event of its status, and that of the action it answers.
LEMMA DetailRead == IInv => DetailShowsItsEvents
<1> SUFFICES ASSUME IInv, NEW r \in Request, Shown(r)
             PROVE  /\ seenEvents[r] >= Rank(seenStatus[r])
                    /\ action[r] # "view" => \E i \in 1 .. seenEvents[r] : events[i].by = r
    BY DEF DetailShowsItsEvents
<1>1. /\ seenEvents[r] \in Nat /\ Rank(seenStatus[r]) \in 1 .. 3
      /\ Rank(seenStatus[r]) <= seenEvents[r]
      /\ action[r] # "view" => \E i \in 1 .. Rank(seenStatus[r]) : events[i].by = r
    BY Ranks DEF IInv, TypeOK, SeenIsPast, Shown
<1> QED
    BY <1>1

\* findById reads the row before its events, so that it never shows a status
\* whose event it does not show.
THEOREM DetailTheorem == Spec => []DetailShowsItsEvents
BY DetailRead, LifecycleInvariance, PTL

\* The history is shown newest first, but for requests that waited for the row
\* while others wrote (ORDER BY created_at DESC, id DESC).
THEOREM NewestFirstTheorem == Spec => []NewestFirstInTurn
<1>1. IInv => NewestFirstInTurn
  <2> SUFFICES ASSUME IInv, NEW i \in DOMAIN events, NEW j \in DOMAIN events, i > j,
                      events[i].by = events[j].by \/ events[i].at >= events[j].done
               PROVE  ShownAbove(i, j)
      BY DEF NewestFirstInTurn
  <2>1. /\ events[i] \in EventRow /\ events[j] \in EventRow
        /\ i \in Nat /\ j \in Nat /\ i >= 1 /\ j >= 1
      BY DEF IInv, TypeOK
  <2>2. /\ events[i].at \in Nat /\ events[j].at \in Nat /\ events[j].done \in Nat
      BY <2>1 DEF EventRow
  <2>3. events[j].at <= events[j].done
      BY DEF IInv, TimesInOrder
  <2>4. events[i].by = events[j].by => events[i].at = events[j].at
      BY <2>1, Constants DEF IInv, TimesInOrder
  <2> QED
      BY <2>1, <2>2, <2>3, <2>4 DEF ShownAbove
<1> QED
    BY <1>1, LifecycleInvariance, PTL

\* COALESCE and the automatic claim never take an appointment from whoever
\* has it.
THEOREM ResponsibleTheorem == Spec => ResponsibleStays
<1>1. IInv /\ [Next]_vars => [row.responsible # NoOne => row'.responsible = row.responsible]_vars
  <2> SUFFICES ASSUME IInv, [Next]_vars, row.responsible # NoOne
               PROVE  row'.responsible = row.responsible
      OBVIOUS
  <2>1. CASE \E r \in Request : Write(r)
      BY <2>1, WriteShape
  <2>2. CASE ~ \E r \in Request : Write(r)
      BY <2>2, Quiet DEF saved
  <2> QED
      BY <2>1, <2>2
<1> QED
    BY <1>1, LifecycleInvariance, PTL DEF Spec, ResponsibleStays


-----------------------------------------------------------------------------
(* The page of an appointment                                              *)

\* The requests of the page are requests.
LEMMA PageConstants == Page \subseteq Request /\ NoOne \notin Page
BY PageAssumption, LifecycleAssumption

\* A page asks for nothing but what requests may ask for.
LEMMA GetStep ==
    ASSUME Get
    PROVE  /\ UNCHANGED shown
           /\ \/ loading /\ UNCHANGED <<vars, current, loading>>
              \/ ~loading /\ loading' = TRUE /\ current' \in Page /\ Ask(current', "view")
<1>1. CASE loading
    BY <1>1 DEF Get, entry
<1>2. CASE ~loading
    BY <1>2 DEF Get
<1> QED
    BY <1>1, <1>2

\* Each step of the page is one of the life cycle.
LEMMA PageStep == PageTypeOK /\ [PageNext]_all => [Next]_vars
<1> SUFFICES ASSUME PageTypeOK, [PageNext]_all PROVE [Next]_vars
    OBVIOUS
<1>1. ASSUME Get PROVE [Next]_vars
    BY <1>1, GetStep, PageConstants DEF Next, Action
<1>2. CASE Elsewhere
  <2>1. CASE Serve
      BY <2>1, PageConstants DEF Serve, Next, Step
  <2>2. CASE Tick
      BY <2>2 DEF Next
  <2>3. ASSUME NEW r \in UnderWay \cup {q \in Request \ Page : stage[q] # "reading"}, Fail(r)
        PROVE [Next]_vars
      BY <2>3, PageConstants DEF Next, UnderWay
  <2>4. ASSUME NEW r \in Request \ Page, NEW a \in Action \ {"view"}, Ask(r, a)
        PROVE [Next]_vars
      BY <2>4 DEF Next
  <2> QED
      BY <1>2, <2>1, <2>2, <2>3, <2>4 DEF Elsewhere
<1>3. CASE Open \/ Retry
    BY <1>1, <1>3 DEF Open, Retry
<1>4. CASE Leave \/ Cancel
    BY <1>4 DEF Leave, Cancel
<1>5. ASSUME NEW a \in Action \ {"view"}, Choose(a) PROVE [Next]_vars
    BY <1>5 DEF Choose
<1>6. ASSUME NEW r \in Page, Confirm(r) PROVE [Next]_vars
    BY <1>6, PageConstants DEF Confirm, Next, PageTypeOK
<1>7. ASSUME NEW r \in Page, HearDone(r) \/ HearGet(r) PROVE [Next]_vars
    BY <1>7 DEF HearDone, HearGet
<1>8. ASSUME NEW r \in Page, HearFailed(r) PROVE [Next]_vars
    BY <1>1, <1>8 DEF HearFailed
<1>9. CASE UNCHANGED all
    BY <1>9 DEF all
<1> QED
    BY <1>2, <1>3, <1>4, <1>5, <1>6, <1>7, <1>8, <1>9 DEF PageNext

-----------------------------------------------------------------------------
\* What a step of the life cycle leaves of a request that was made.
LEMMA RequestKept ==
    ASSUME IInv, [Next]_vars, NEW r \in Request, stage[r] # "idle"
    PROVE  /\ stage'[r] # "idle" /\ action'[r] = action[r] /\ at'[r] = at[r]
           /\ seenStatus[r] # "none" => seenStatus'[r] = seenStatus[r]
           /\ seenEvents[r] # 0 => seenEvents'[r] = seenEvents[r]
<1>1. TypeOK
    BY DEF IInv
<1>2. CASE Tick \/ UNCHANGED vars
    BY <1>2 DEF Tick, vars, asked, seen
<1>3. ASSUME NEW q \in Request, Lock(q) \/ Refuse(q) \/ Write(q) \/ Fail(q)
      PROVE  stage'[r] # "idle" /\ UNCHANGED <<asked, seen>>
    BY <1>1, <1>3 DEF TypeOK, Lock, Refuse, Write, Fail
<1>4. ASSUME NEW q \in Request, ReadRow(q)
      PROVE  /\ UNCHANGED <<asked, stage, seenEvents>>
             /\ seenStatus[r] # "none" => seenStatus'[r] = seenStatus[r]
    BY <1>1, <1>4 DEF TypeOK, ReadRow
<1>5. ASSUME NEW q \in Request, ReadEvents(q)
      PROVE  /\ UNCHANGED <<asked, stage, seenStatus>>
             /\ seenEvents[r] # 0 => seenEvents'[r] = seenEvents[r]
    BY <1>1, <1>5 DEF TypeOK, ReadEvents, MayReadEvents
<1>6. ASSUME NEW q \in Request, NEW a \in Action, Ask(q, a)
      PROVE  /\ stage'[r] # "idle" /\ action'[r] = action[r] /\ at'[r] = at[r]
             /\ UNCHANGED seen
    BY <1>1, <1>6 DEF TypeOK, Ask
<1> QED
    BY <1>2, <1>3, <1>4, <1>5, <1>6 DEF Next, Step, asked, seen

\* The history only grows.
LEMMA HistoryKept ==
    ASSUME IInv, [Next]_vars
    PROVE  /\ Len(events) \in Nat /\ Len(events') \in Nat /\ Len(events) <= Len(events')
           /\ \A i \in 1 .. Len(events) : events'[i] = events[i]
<1>1. events \in Seq(EventRow) /\ events' \in Seq(EventRow)
    BY TypeStep DEF IInv, TypeOK
<1>2. CASE \E r \in Request : Write(r)
    BY <1>1, <1>2, WriteShape
<1>3. CASE ~ \E r \in Request : Write(r)
    BY <1>1, <1>3, Quiet DEF saved
<1> QED
    BY <1>2, <1>3

\* A status that rules an action out is followed by none that allows it.
LEMMA ClosedKept ==
    ASSUME IInv, [Next]_vars, NEW a \in Action, Closed(a, row.status)
    PROVE  Closed(a, row'.status)
<1>1. CASE ~ \E r \in Request : Write(r)
    BY <1>1, Quiet DEF saved
<1>2. ASSUME NEW r \in Request, Write(r) PROVE Closed(a, row'.status)
  <2>1. Allowed(action[r], row.status, at[r]) /\ row' = NewRow(r)
      BY <1>2 DEF IInv, LockDiscipline, Write
  <2>2. row.status \in Active
      BY <2>1 DEF Allowed, Active
  <2>3. a = "claim" /\ row.status # "PENDING"
      BY <2>2 DEF Closed
  <2>4. action[r] # "claim"
      BY <2>1, <2>3 DEF Allowed
  <2> QED
      BY <2>1, <2>3, <2>4 DEF NewRow, Recorded, Closed
<1> QED
    BY <1>1, <1>2

\* What the page has heard is over, and nothing happens to it any more.
LEMMA HeardKept ==
    ASSUME IInv, PageInv, [PageNext]_all, NEW r \in heard
    PROVE  /\ stage'[r] = stage[r] /\ action'[r] = action[r] /\ at'[r] = at[r]
           /\ seenStatus'[r] = seenStatus[r] /\ seenEvents'[r] = seenEvents[r]
           /\ Shown(r)' = Shown(r)
<1>1. /\ r \in Page /\ r \in Request /\ TypeOK
      /\ Shown(r) \/ stage[r] \in {"refused", "failed"}
    BY PageConstants DEF PageInv, PageTypeOK, PageInOrder, IInv
<1>2. stage[r] \in {"reading", "refused", "failed"}
    BY <1>1 DEF Shown
<1>3. ASSUME NEW g \in Request, NEW a \in Action, Ask(g, a)
      PROVE  stage'[r] = stage[r] /\ action'[r] = action[r] /\ at'[r] = at[r] /\ UNCHANGED seen
    BY <1>1, <1>2, <1>3 DEF TypeOK, Ask
<1>4. ASSUME Get
      PROVE  stage'[r] = stage[r] /\ action'[r] = action[r] /\ at'[r] = at[r] /\ UNCHANGED seen
    BY <1>3, <1>4, GetStep, PageConstants DEF Action, vars, asked
<1>5. CASE Elsewhere
  <2>1. ASSUME NEW q \in Request, Lock(q) \/ Refuse(q) \/ Write(q)
        PROVE  stage'[r] = stage[r] /\ UNCHANGED <<asked, seen>>
      BY <1>1, <1>2, <2>1 DEF TypeOK, Lock, Refuse, Write
  <2>2. ASSUME NEW q \in Page, ReadRow(q) \/ ReadEvents(q)
        PROVE  /\ stage'[r] = stage[r] /\ UNCHANGED asked
               /\ seenStatus'[r] = seenStatus[r] /\ seenEvents'[r] = seenEvents[r]
      BY <1>1, <2>2, PageConstants DEF TypeOK, ReadRow, ReadEvents, MayReadEvents, Shown
  <2>3. CASE Tick
      BY <2>3 DEF Tick, asked, seen, Shown
  <2>4. ASSUME NEW q \in UnderWay \cup {p \in Request \ Page : stage[p] # "reading"}, Fail(q)
        PROVE  stage'[r] = stage[r] /\ UNCHANGED <<asked, seen>>
      BY <1>1, <2>4 DEF TypeOK, Fail, UnderWay
  <2> QED
      BY <1>3, <1>5, <2>1, <2>2, <2>3, <2>4 DEF Elsewhere, Serve, asked, seen, Shown
<1>6. CASE Open \/ Retry
    BY <1>4, <1>6 DEF Open, Retry, seen, Shown
<1>7. CASE UNCHANGED vars
    BY <1>7 DEF vars, asked, seen, Shown
<1>8. ASSUME NEW q \in Page, HearFailed(q)
      PROVE  stage'[r] = stage[r] /\ action'[r] = action[r] /\ at'[r] = at[r] /\ UNCHANGED seen
    BY <1>4, <1>8 DEF HearFailed
<1>9. ASSUME NEW q \in Page, Confirm(q)
      PROVE  stage'[r] = stage[r] /\ action'[r] = action[r] /\ at'[r] = at[r] /\ UNCHANGED seen
    BY <1>3, <1>9, PageConstants DEF Confirm, PageInv, PageTypeOK
<1>10. CASE \/ Leave \/ Cancel \/ UNCHANGED all
            \/ \E b \in Action \ {"view"} : Choose(b)
            \/ \E q \in Page : HearDone(q) \/ HearGet(q)
    BY <1>7, <1>10 DEF Leave, Cancel, Choose, HearDone, HearGet, all
<1>11. ASSUME stage'[r] = stage[r] /\ action'[r] = action[r] /\ at'[r] = at[r] /\ UNCHANGED seen
       PROVE  Shown(r)' = Shown(r) /\ seenStatus'[r] = seenStatus[r] /\ seenEvents'[r] = seenEvents[r]
    BY <1>11 DEF seen, Shown
<1> QED
    BY <1>5, <1>6, <1>8, <1>9, <1>10, <1>11 DEF PageNext

-----------------------------------------------------------------------------
\* Each action keeps the types.
LEMMA PageTypeStep == PageTypeOK /\ [PageNext]_all => PageTypeOK'
<1> SUFFICES ASSUME PageTypeOK, [PageNext]_all PROVE PageTypeOK'
    OBVIOUS
<1>1. ASSUME Get PROVE {current', shown'} \subseteq Page \cup {NoOne} /\ loading' \in BOOLEAN
    BY <1>1, GetStep DEF PageTypeOK
<1>2. CASE Elsewhere \/ UNCHANGED all
    BY <1>2 DEF Elsewhere, page, all, entry, dialog, PageTypeOK
<1>3. CASE Open \/ Retry
    BY <1>1, <1>3 DEF Open, Retry, dialog, PageTypeOK
<1>4. CASE Leave \/ Cancel
    BY <1>4 DEF Leave, Cancel, entry, PageTypeOK
<1>5. ASSUME NEW a \in Action \ {"view"}, Choose(a) PROVE PageTypeOK'
    BY <1>5 DEF Choose, entry, PageTypeOK
<1>6. ASSUME NEW r \in Page, Confirm(r) PROVE PageTypeOK'
    BY <1>6 DEF Confirm, entry, PageTypeOK
<1>7. ASSUME NEW r \in Page, HearDone(r) PROVE PageTypeOK'
  <2>1. older' \subseteq Page /\ heard' \subseteq Page
      BY <1>7 DEF HearDone, Hear, UnderWay, PageTypeOK
  <2> QED
      BY <1>7, <2>1 DEF HearDone, Hear, Settle, PageTypeOK
<1>8. ASSUME NEW r \in Page, HearFailed(r) PROVE PageTypeOK'
  <2>1. older' \subseteq Page /\ heard' \subseteq Page
      BY <1>8 DEF HearFailed, Hear, UnderWay, PageTypeOK
  <2> QED
      BY <1>1, <1>8, <2>1 DEF HearFailed, Hear, PageTypeOK
<1>9. ASSUME NEW r \in Page, HearGet(r) PROVE PageTypeOK'
    BY <1>9 DEF HearGet, Hear, Settle, dialog, PageTypeOK
<1> QED
    BY <1>2, <1>3, <1>4, <1>5, <1>6, <1>7, <1>8, <1>9 DEF PageNext

\* What a step makes of the requests under way.
LEMMA UnderWayStep ==
    ASSUME IInv, PageInv, [PageNext]_all, NEW r \in UnderWay, r \notin heard'
    PROVE  r \in UnderWay'
<1>1. r \in Request /\ stage[r] # "idle" /\ [Next]_vars
    BY PageStep, PageConstants DEF UnderWay, PageInv
<1> QED
    BY <1>1, RequestKept DEF UnderWay

\* What is heard stays heard, and a GET that is pending stays under way until
\* its answer is heard.
LEMMA GetOrder ==
    ASSUME IInv, PageInv, [PageNext]_all, Get,
           heard' \subseteq heard \cup {r \in Page : stage[r] # "idle" /\ action[r] # "view"}
    PROVE  /\ loading' /\ current' \in UnderWay'
           /\ action'[current'] = "view" /\ stage'[current'] # "idle"
<1>1. PageTypeOK /\ PageInOrder /\ TypeOK /\ [Next]_vars /\ NoOne \notin Page
    BY PageStep, PageConstants DEF PageInv, IInv
<1>2. CASE loading
  <2>1. /\ current' = current /\ loading' /\ current \in UnderWay
        /\ action[current] = "view" /\ stage[current] # "idle" /\ current \in Request
      BY <1>1, <1>2, GetStep, PageConstants DEF PageInOrder, UnderWay
  <2>2. stage'[current] # "idle" /\ action'[current] = "view"
      BY <1>1, <2>1, RequestKept
  <2> QED
      BY <2>1, <2>2 DEF UnderWay
<1>3. CASE ~loading
  <2>1. loading' /\ current' \in Page /\ Ask(current', "view")
      BY <1>3, GetStep
  <2>2. PICK g \in Page : current' = g
      BY <2>1
  <2>3. stage[g] = "idle" /\ stage'[g] = "reading" /\ action'[g] = "view"
      BY <1>1, <2>1, <2>2, PageConstants DEF Ask, TypeOK
  <2>4. g \notin heard'
      BY <1>1, <2>3 DEF PageInOrder, Shown
  <2> QED
      BY <2>1, <2>2, <2>3, <2>4 DEF UnderWay
<1> QED
    BY <1>2, <1>3

\* A reading that a page waits for is under way, and what it has is over.
LEMMA OrderStep == IInv /\ PageInv /\ [PageNext]_all => PageInOrder'
<1> SUFFICES ASSUME IInv, PageInv, [PageNext]_all PROVE PageInOrder'
    OBVIOUS
<1> DEFINE Over(r) == Shown(r) \/ stage[r] \in {"refused", "failed"}
           Pending == loading => current \in UnderWay
           Reading == current # NoOne => action[current] = "view" /\ stage[current] # "idle"
           OnScreen == shown # NoOne => shown \in heard /\ Shown(shown)
<1>1. /\ PageTypeOK /\ PageInOrder /\ [Next]_vars /\ TypeOK /\ NoOne \notin Page
      /\ current # NoOne => current \in Request
    BY PageStep, PageConstants DEF PageInv, IInv, PageTypeOK
<1>2. \A r \in heard :
         /\ Over(r)' /\ stage[r] # "idle"
         /\ stage'[r] = stage[r] /\ seenStatus'[r] = seenStatus[r] /\ seenEvents'[r] = seenEvents[r]
    BY <1>1, HeardKept DEF PageInOrder, Shown
<1>3. ASSUME UNCHANGED current, loading' => loading /\ current \notin heard' \ heard
      PROVE  Pending' /\ Reading'
  <2>1. loading' => current \in UnderWay'
      BY <1>1, <1>3, UnderWayStep DEF PageInOrder, UnderWay
  <2>2. current # NoOne => action'[current] = "view" /\ stage'[current] # "idle"
      BY <1>1, RequestKept DEF PageInOrder
  <2> QED
      BY <1>3, <2>1, <2>2
<1>4. ASSUME UNCHANGED shown, heard \subseteq heard' PROVE OnScreen'
    BY <1>1, <1>2, <1>4 DEF PageInOrder, Shown
<1>5. ASSUME UNCHANGED <<entry, heard, mine, reread, told>> PROVE PageInOrder'
  <2>1. Pending' /\ Reading' /\ OnScreen'
      BY <1>3, <1>4, <1>5 DEF entry
  <2> QED
      BY <1>1, <1>2, <1>5, <2>1 DEF PageInOrder
<1>6. CASE \/ Elsewhere \/ Cancel \/ UNCHANGED all \/ \E a \in Action \ {"view"} : Choose(a)
    BY <1>5, <1>6 DEF Elsewhere, Cancel, Choose, all, page, dialog
<1>7. CASE Open \/ Retry
  <2>1. Get /\ UNCHANGED <<heard, mine, reread, told, shown>>
      BY <1>7, GetStep DEF Open, Retry, dialog
  <2>2. Pending' /\ Reading'
      BY <1>1, <2>1, GetOrder
  <2>3. OnScreen'
      BY <1>4, <2>1
  <2> QED
      BY <1>1, <1>2, <2>1, <2>2, <2>3 DEF PageInOrder
<1>8. CASE Leave
  <2>1. Pending' /\ Reading' /\ OnScreen'
      BY <1>3, <1>4, <1>8 DEF Leave, entry
  <2> QED
      BY <1>2, <1>8, <2>1 DEF PageInOrder, Leave
<1>9. ASSUME NEW q \in Page, Confirm(q) PROVE PageInOrder'
  <2>1. Pending' /\ Reading' /\ OnScreen'
      BY <1>3, <1>4, <1>9 DEF Confirm, entry
  <2>2. reread = NoOne
      BY <1>1, <1>9 DEF Confirm, PageInOrder, PageTypeOK
  <2> QED
      BY <1>2, <1>9, <2>1, <2>2 DEF PageInOrder, Confirm
<1>10. ASSUME NEW q \in Page, HearDone(q) PROVE PageInOrder'
  <2>1. heard' = heard \cup {q} /\ Over(q)' /\ Shown(q)' /\ shown' = q
      BY <1>10 DEF HearDone, Hear, Shown, vars, seen
  <2>2. current # q
      BY <1>1, <1>10 DEF HearDone, PageInOrder, PageTypeOK
  <2>3. Pending' /\ Reading'
      BY <1>3, <1>10, <2>1, <2>2 DEF HearDone
  <2>4. OnScreen'
      BY <2>1
  <2> QED
      BY <1>1, <1>2, <1>10, <2>3, <2>4, <2>1, <2>2 DEF PageInOrder, HearDone, Settle
<1>11. ASSUME NEW q \in Page, HearFailed(q) PROVE PageInOrder'
  <2>1. heard' = heard \cup {q} /\ stage[q] \in {"refused", "failed"} /\ Get
        /\ action[q] # "view" /\ q \in UnderWay
      BY <1>11 DEF HearFailed, Hear
  <2>2. Pending' /\ Reading'
      BY <1>1, <2>1, GetOrder
  <2>3. OnScreen'
      BY <1>4, <2>1, GetStep
  <2>4. stage'[q] = stage[q]
      BY <1>1, <2>1, GetStep, PageConstants DEF vars, Ask, TypeOK, UnderWay
  <2> QED
      BY <1>1, <1>2, <1>11, <2>1, <2>2, <2>3, <2>4 DEF PageInOrder, HearFailed
<1>12. ASSUME NEW q \in Page, HearGet(q) PROVE PageInOrder'
  <2>1. heard' = heard \cup {q} /\ Over(q)' /\ UNCHANGED current
      BY <1>12 DEF HearGet, Hear, Shown, vars, seen
  <2>2. Pending' /\ Reading'
    <3>1. CASE q = current
      <4>1. ~loading' /\ action' = action /\ stage' = stage
          BY <1>12, <3>1 DEF HearGet, vars, asked
      <4> QED
          BY <1>1, <2>1, <4>1 DEF PageInOrder
    <3>2. CASE q # current
        BY <1>3, <1>12, <2>1, <3>2 DEF HearGet
    <3> QED
        BY <3>1, <3>2
  <2>3. OnScreen'
    <3>1. CASE shown' = shown
        BY <1>4, <2>1, <3>1
    <3>2. CASE shown' = q /\ Shown(q)
        BY <1>12, <2>1, <3>2 DEF HearGet, vars, seen, Shown
    <3> QED
        BY <1>12, <3>1, <3>2 DEF HearGet
  <2> QED
      BY <1>1, <1>2, <1>12, <2>1, <2>2, <2>3 DEF PageInOrder, HearGet, Settle, dialog
<1> QED
    BY <1>6, <1>7, <1>8, <1>9, <1>10, <1>11, <1>12 DEF PageNext

-----------------------------------------------------------------------------
\* What is possible for an action: its time has come, and its status is open.
LEMMA AllowedIs ==
    ASSUME NEW a \in Action \ {"view"}, NEW s, NEW t
    PROVE  Allowed(a, s, t) <=> InTime(a, t) /\ ~Closed(a, s)
BY DEF Allowed, InTime, Closed, Active, Action

\* What becomes of a request of the page.
LEMMA PageRequestStep ==
    ASSUME IInv, PageInv, [PageNext]_all, NEW r \in Page
    PROVE  /\ stage[r] = "idle" /\ stage'[r] # "idle" =>
                 /\ at'[r] = now
                 /\ \/ action'[r] = "view" /\ stage'[r] = "reading"
                    \/ action'[r] = pending /\ pending # "none"
           /\ stage'[r] = "refused" /\ stage[r] # "refused" =>
                 stage[r] = "asked" /\ ~Allowed(action[r], row.status, at[r])
           /\ stage'[r] = "asked" => stage[r] \in {"asked", "idle"}
<1> DEFINE Made(q, a) ==
              /\ at'[q] = now /\ action'[q] = a
              /\ stage'[q] = IF a = "view" THEN "reading" ELSE "asked"
           Goal == /\ stage[r] = "idle" /\ stage'[r] # "idle" =>
                         /\ at'[r] = now
                         /\ \/ action'[r] = "view" /\ stage'[r] = "reading"
                            \/ action'[r] = pending /\ pending # "none"
                   /\ stage'[r] = "refused" /\ stage[r] # "refused" =>
                         stage[r] = "asked" /\ ~Allowed(action[r], row.status, at[r])
                   /\ stage'[r] = "asked" => stage[r] \in {"asked", "idle"}
<1>1. r \in Request /\ TypeOK /\ PageTypeOK /\ now \in Nat /\ Page \subseteq Request
    BY PageConstants DEF PageInv, IInv, TypeOK
<1>2. ASSUME NEW q \in Request, NEW a, Ask(q, a)
      PROVE  now' = now /\ IF q = r THEN Made(r, a) /\ stage[r] = "idle" ELSE stage'[r] = stage[r]
    BY <1>1, <1>2 DEF Ask, TypeOK
<1>3. CASE UNCHANGED vars
    BY <1>1, <1>3 DEF vars
<1>4. ASSUME Get PROVE Goal
  <2>1. UNCHANGED vars \/ \E g \in Page : Ask(g, "view")
      BY <1>4, GetStep
  <2> QED
      BY <1>1, <1>2, <1>3, <2>1
<1>5. CASE Elsewhere
  <2>1. ASSUME NEW q \in Request, Lock(q) \/ Refuse(q) \/ Write(q) \/ Fail(q) PROVE Goal
      BY <1>1, <2>1 DEF Lock, Refuse, Write, Fail, TypeOK
  <2>2. ASSUME NEW q \in Page, ReadRow(q) \/ ReadEvents(q) PROVE Goal
      BY <1>1, <2>2 DEF ReadRow, ReadEvents
  <2>3. CASE Tick
      BY <1>1, <2>3 DEF Tick
  <2>4. ASSUME NEW q \in Request \ Page, NEW a \in Action \ {"view"}, Ask(q, a) PROVE Goal
      BY <1>1, <1>2, <2>4
  <2> QED
      BY <1>1, <1>5, <2>1, <2>2, <2>3, <2>4 DEF Elsewhere, Serve, UnderWay
<1>6. CASE Open \/ Retry \/ \E q \in Page : HearFailed(q)
    BY <1>4, <1>6 DEF Open, Retry, HearFailed
<1>7. ASSUME NEW q \in Page, Confirm(q) PROVE Goal
    BY <1>1, <1>2, <1>7 DEF Confirm, PageTypeOK
<1>8. CASE \/ Leave \/ Cancel \/ UNCHANGED all
           \/ \E a \in Action \ {"view"} : Choose(a)
           \/ \E q \in Page : HearDone(q) \/ HearGet(q)
    BY <1>3, <1>8 DEF Leave, Cancel, Choose, HearDone, HearGet, all
<1> QED
    BY <1>5, <1>6, <1>7, <1>8 DEF PageNext

\* The page asks in time, so that a refusal is for good.
LEMMA RefusedStep == IInv /\ PageInv /\ [PageNext]_all => RefusedForGood'
<1> SUFFICES ASSUME IInv, PageInv, [PageNext]_all PROVE RefusedForGood'
    OBVIOUS
<1>1. /\ PageTypeOK /\ PageInOrder /\ RefusedForGood /\ TypeOK /\ [Next]_vars
      /\ Page \subseteq Request /\ NoOne \notin Page
      /\ now \in Nat /\ Day \in Nat /\ Hour \in Nat
      /\ at \in [Request -> Nat] /\ action \in [Request -> Action] /\ stage \in [Request -> Stage]
    BY PageStep, PageConstants, Constants DEF PageInv, IInv, TypeOK
<1>2. ASSUME NEW a, NEW t \in Nat, NEW u \in Nat, t <= u, InTime(a, t) PROVE InTime(a, u)
    BY <1>1, <1>2 DEF InTime
<1>3. now' \in Nat /\ now <= now'
  <2>1. CASE Tick
      BY <1>1, <2>1 DEF Tick
  <2>2. CASE ~Tick
      BY <1>1, <2>2 DEF Next, Step, Lock, Refuse, Write, Fail, ReadRow, ReadEvents, Ask, vars
  <2> QED
      BY <2>1, <2>2
<1>4. pending' # "none" => InTime(pending', now')
  <2>1. CASE pending' \in {pending, "none"}
      BY <1>1, <1>2, <1>3, <2>1 DEF RefusedForGood
  <2>2. ASSUME NEW a \in Action \ {"view"}, Choose(a) PROVE InTime(pending', now')
    <3>1. pending' = a /\ Offered(a) /\ shown \in Request
        BY <1>1, <2>2 DEF Choose, PageTypeOK
    <3>2. at[shown] \in Nat /\ at[shown] <= now /\ InTime(a, at[shown])
        BY <1>1, <3>1, AllowedIs DEF Offered, IInv, TimesInOrder
    <3> QED
        BY <1>1, <1>2, <1>3, <3>1, <3>2
  <2>3. (\E a \in Action \ {"view"} : Choose(a)) \/ pending' \in {pending, "none"}
      BY DEF PageNext, Elsewhere, Open, Retry, Leave, Cancel, Confirm, HearDone, HearFailed,
             HearGet, Settle, page, dialog, all
  <2> QED
      BY <2>1, <2>2, <2>3
<1>5. ASSUME NEW r \in Page, stage'[r] # "idle" PROVE InTime(action'[r], at'[r])
  <2>1. CASE stage[r] # "idle"
      BY <1>1, <1>5, <2>1, RequestKept DEF RefusedForGood
  <2>2. CASE stage[r] = "idle"
    <3>1. /\ at'[r] = now
          /\ action'[r] # "view" => action'[r] = pending /\ pending # "none"
        BY <1>5, <2>2, PageRequestStep
    <3> QED
        BY <1>1, <3>1 DEF RefusedForGood, InTime
  <2> QED
      BY <2>1, <2>2
<1>6. ASSUME NEW r \in Page, stage'[r] \in {"asked", "refused"} PROVE action'[r] # "view"
  <2>1. CASE stage[r] \in {"asked", "refused"}
      BY <1>1, <2>1, RequestKept DEF RefusedForGood
  <2>2. CASE stage[r] \notin {"asked", "refused"}
      BY <1>1, <1>6, <2>2, PageRequestStep DEF PageTypeOK
  <2> QED
      BY <2>1, <2>2
<1>7. ASSUME NEW r \in Page, stage'[r] = "refused" PROVE Closed(action'[r], row'.status)
  <2>1. stage[r] \in {"asked", "refused"} /\ action'[r] = action[r] /\ action[r] \in Action \ {"view"}
      BY <1>1, <1>7, PageRequestStep, RequestKept DEF RefusedForGood
  <2>2. Closed(action[r], row.status)
      BY <1>1, <1>7, <2>1, PageRequestStep, AllowedIs DEF RefusedForGood
  <2> QED
      BY <1>1, <2>1, <2>2, ClosedKept
<1> QED
    BY <1>4, <1>5, <1>6, <1>7 DEF RefusedForGood

-----------------------------------------------------------------------------
\* What a detail reads is what is there when it reads.
LEMMA ReadStep ==
    ASSUME IInv, [Next]_vars, NEW g \in Request
    PROVE  /\ seenEvents'[g] # seenEvents[g] =>
                 seenEvents'[g] = Len(events) /\ events' = events
           /\ seenStatus'[g] # seenStatus[g] => seenStatus'[g] = row.status
<1>1. seenEvents \in [Request -> Nat] /\ seenStatus \in [Request -> Status \cup {"none"}]
    BY DEF IInv, TypeOK
<1>2. CASE Tick \/ UNCHANGED vars
    BY <1>2 DEF Tick, vars, seen
<1>3. ASSUME NEW q \in Request,
             Lock(q) \/ Refuse(q) \/ Write(q) \/ Fail(q) \/ \E a \in Action : Ask(q, a)
      PROVE  UNCHANGED seen
    BY <1>3 DEF Lock, Refuse, Write, Fail, Ask
<1>4. ASSUME NEW q \in Request, ReadRow(q)
      PROVE  UNCHANGED seenEvents /\ seenStatus' = [seenStatus EXCEPT ![q] = row.status]
    BY <1>4 DEF ReadRow
<1>5. ASSUME NEW q \in Request, ReadEvents(q)
      PROVE  /\ UNCHANGED <<seenStatus, events>>
             /\ seenEvents' = [seenEvents EXCEPT ![q] = Len(events)]
    BY <1>5 DEF ReadEvents, saved
<1> QED
    BY <1>1, <1>2, <1>3, <1>4, <1>5 DEF Next, Step, seen

\* When an action is heard, what else is under way becomes older than it, and
\* an accepted one is shown.
LEMMA HearStep ==
    ASSUME IInv, PageInv, [PageNext]_all
    PROVE  /\ heard \subseteq heard' /\ older \subseteq older'
           /\ \A r \in heard' \ heard :
                 /\ r \in UnderWay
                 /\ action[r] # "view" => UnderWay \ {r} \subseteq older'
                 /\ action[r] # "view" /\ stage[r] = "reading" => UNCHANGED vars
                 /\ action[r] # "view" => \/ stage[r] = "reading" /\ UNCHANGED current
                                          \/ stage[r] # "reading" /\ Get
<1>1. CASE \/ Elsewhere \/ Cancel \/ Open \/ Retry \/ Leave \/ UNCHANGED all
           \/ \E a \in Action \ {"view"} : Choose(a)
           \/ \E q \in Page : Confirm(q)
    BY <1>1 DEF Elsewhere, Cancel, Open, Retry, Leave, Choose, Confirm, all, page
<1>2. ASSUME NEW q \in Page, HearDone(q) \/ HearFailed(q) \/ HearGet(q)
      PROVE  /\ heard' = heard \cup {q} /\ q \in UnderWay /\ older \subseteq older'
             /\ action[q] # "view" => UnderWay \ {q} \subseteq older'
             /\ action[q] # "view" /\ stage[q] = "reading" => UNCHANGED <<vars, current>>
             /\ action[q] # "view" /\ stage[q] # "reading" => Get
    BY <1>2 DEF HearDone, HearFailed, HearGet, Hear, Shown
<1> QED
    BY <1>1, <1>2 DEF PageNext

\* The GET the entry waits for is the same, or a new one that has read nothing.
LEMMA CurrentStep ==
    ASSUME IInv, PageInv, [PageNext]_all
    PROVE  /\ current' # current => seenStatus'[current'] = "none"
           /\ Get /\ ~loading => seenStatus'[current'] = "none"
<1>1. ASSUME Get, ~loading PROVE seenStatus'[current'] = "none"
  <2>1. PICK g \in Page : current' = g /\ Ask(g, "view")
      BY <1>1, GetStep
  <2> QED
      BY <2>1, PageConstants DEF Ask, seen, IInv, SeenIsPast
<1>2. CASE Open \/ Retry \/ \E q \in Page : HearFailed(q)
    BY <1>1, <1>2, GetStep DEF Open, Retry, HearFailed
<1>3. CASE ~(Open \/ Retry \/ \E q \in Page : HearFailed(q))
    BY <1>1, <1>3 DEF PageNext, Elsewhere, Leave, Cancel, Choose, Confirm, HearDone, HearGet,
                      all, page, entry
<1> QED
    BY <1>2, <1>3

\* What was asked for after an action was heard reads what the action did.
LEMMA AfterStep == IInv /\ PageInv /\ [PageNext]_all => ReadAfterwards'
<1> SUFFICES ASSUME IInv, PageInv, [PageNext]_all PROVE ReadAfterwards'
    OBVIOUS
<1>1. /\ PageTypeOK /\ PageInOrder /\ RefusedForGood /\ ReadAfterwards
      /\ TypeOK /\ [Next]_vars /\ Page \subseteq Request /\ NoOne \notin Page
      /\ AcceptedOrRefused /\ SeenIsPast /\ events \in Seq(EventRow)
      /\ seenEvents \in [Request -> Nat] /\ action \in [Request -> Action]
      /\ PageTypeOK' /\ IInv'
    BY PageStep, PageConstants, PageTypeStep, TypeStep, LockStep, TimesStep, HistoryStep,
       AcceptedStep, SeenStep DEF PageInv, IInv, TypeOK
<1>2. heard \subseteq heard' /\ older \subseteq older'
    BY HearStep
<1>3. ASSUME NEW g \in UnderWay' \ older', NEW r \in heard',
             action'[r] # "view", stage'[r] = "reading", seenEvents'[g] # 0
      PROVE  \E i \in 1 .. seenEvents'[g] : events'[i].by = r
  <2>1. g \in Request /\ g \notin heard /\ g \notin older /\ seenEvents[g] \in Nat
      BY <1>1, <1>2, <1>3 DEF UnderWay
  <2>2. CASE r \in heard
    <3>1. action[r] # "view" /\ stage[r] = "reading" /\ r \in Request
        BY <1>1, <1>3, <2>2, HeardKept DEF PageTypeOK
    <3>2. CASE seenEvents'[g] = seenEvents[g]
      <4>1. g \in UnderWay \ older
          BY <1>1, <1>3, <2>1, <3>2 DEF SeenIsPast, UnderWay
      <4>2. PICK i \in 1 .. seenEvents[g] : events[i].by = r
          BY <1>1, <1>3, <2>2, <3>1, <3>2, <4>1 DEF ReadAfterwards
      <4>3. i \in 1 .. Len(events)
          BY <1>1, <2>1, <4>2 DEF SeenIsPast
      <4> QED
          BY <1>1, <3>2, <4>2, <4>3, HistoryKept
    <3>3. CASE seenEvents'[g] # seenEvents[g]
      <4>1. seenEvents'[g] = Len(events) /\ events' = events
          BY <1>1, <2>1, <3>3, ReadStep
      <4>2. \E i \in DOMAIN events : events[i].by = r
          BY <1>1, <3>1 DEF AcceptedOrRefused
      <4> QED
          BY <1>1, <4>1, <4>2
    <3> QED
        BY <3>2, <3>3
  <2>3. CASE r \notin heard
    <3>1. r \in UnderWay /\ r \in Request /\ stage[r] # "idle" /\ action[r] # "view"
        BY <1>1, <1>3, <2>3, HearStep, RequestKept DEF UnderWay
    <3>2. UnderWay \ {r} \subseteq older' /\ g # r
        BY <1>3, <2>3, <3>1, HearStep DEF UnderWay
    <3>3. stage[g] = "idle"
        BY <1>1, <1>3, <2>1, <3>2 DEF UnderWay
    <3>4. stage[r] # "reading" /\ Get
        BY <1>3, <2>3, <3>1, <3>3, HearStep DEF UnderWay, vars
    <3>5. stage'[r] = stage[r]
        BY <1>1, <3>1, <3>4, GetStep DEF vars, Ask, TypeOK
    <3> QED
        BY <1>3, <3>4, <3>5
  <2> QED
      BY <2>2, <2>3
<1>4. ASSUME NEW r \in heard', stage'[r] = "refused",
             current' \notin older' \cup {NoOne}, seenStatus'[current'] # "none"
      PROVE  Closed(action'[r], seenStatus'[current'])
  <2>1. current' = current /\ current \in Request /\ current \notin older \cup {NoOne}
      BY <1>1, <1>2, <1>4, CurrentStep DEF PageTypeOK
  <2>2. r \in Request /\ r \in Page
      BY <1>1 DEF PageTypeOK
  <2>3. CASE r \in heard
    <3>1. action'[r] = action[r] /\ stage[r] = "refused"
        BY <1>4, <2>3, HeardKept
    <3>2. CASE seenStatus'[current] = seenStatus[current]
        BY <1>1, <1>4, <2>1, <2>3, <3>1, <3>2 DEF ReadAfterwards
    <3>3. CASE seenStatus'[current] # seenStatus[current]
      <4>1. seenStatus'[current] = row.status
          BY <1>1, <2>1, <3>3, ReadStep
      <4> QED
          BY <1>1, <2>1, <2>2, <3>1, <4>1 DEF RefusedForGood
    <3> QED
        BY <3>2, <3>3
  <2>4. CASE r \notin heard
    <3>1. r \in UnderWay /\ action[r] # "view" /\ UnderWay \ {r} \subseteq older' /\ Get
        BY <1>1, <1>4, <2>2, <2>4, HearStep, RequestKept, RefusedStep
           DEF UnderWay, vars, RefusedForGood
    <3>2. current \in UnderWay \ {r}
        BY <1>1, <1>4, <2>1, <3>1, CurrentStep DEF PageInOrder
    <3> QED
        BY <1>4, <2>1, <3>1, <3>2
  <2> QED
      BY <2>3, <2>4
<1> QED
    BY <1>3, <1>4 DEF ReadAfterwards

\* What is shown next has been asked for after the actions heard before, or is
\* the answer of an action itself.
LEMMA ScreenStep == IInv /\ PageInv /\ [PageNext]_all => ScreenCatchesUp'
<1> SUFFICES ASSUME IInv, PageInv, [PageNext]_all, shown' \notin older' \cup {NoOne}
             PROVE  /\ \A r \in heard' : action'[r] # "view" /\ stage'[r] = "reading" =>
                           \E i \in 1 .. seenEvents'[shown'] : events'[i].by = r
                    /\ told' # NoOne /\ stage'[told'] = "refused" /\ shown' = current' =>
                           ~Offered(action[told])'
    BY DEF ScreenCatchesUp
<1>1. /\ PageTypeOK /\ PageInOrder /\ RefusedForGood /\ ReadAfterwards /\ ScreenCatchesUp
      /\ TypeOK /\ [Next]_vars /\ Page \subseteq Request /\ NoOne \notin Page
      /\ SeenIsPast /\ events \in Seq(EventRow) /\ PageTypeOK' /\ IInv'
      /\ PageInOrder' /\ ReadAfterwards' /\ RefusedForGood'
    BY PageStep, PageConstants, PageTypeStep, TypeStep, LockStep, TimesStep, HistoryStep,
       AcceptedStep, SeenStep, OrderStep, AfterStep, RefusedStep DEF PageInv, IInv, TypeOK
<1>2. heard \subseteq heard' /\ older \subseteq older'
    BY HearStep
<1>3. ASSUME NEW r \in heard', action'[r] # "view", stage'[r] = "reading"
      PROVE  \E i \in 1 .. seenEvents'[shown'] : events'[i].by = r
  <2>1. CASE r \in heard /\ shown' = shown
    <3>1. action[r] # "view" /\ stage[r] = "reading" /\ shown \in heard /\ shown \in Request
          /\ seenEvents'[shown] = seenEvents[shown]
        BY <1>1, <1>3, <2>1, HeardKept DEF PageInOrder, PageTypeOK
    <3>2. PICK i \in 1 .. seenEvents[shown] : events[i].by = r
        BY <1>1, <1>2, <2>1, <3>1 DEF ScreenCatchesUp
    <3>3. i \in 1 .. Len(events)
        BY <1>1, <3>1, <3>2 DEF SeenIsPast, TypeOK
    <3> QED
        BY <1>1, <2>1, <3>1, <3>2, <3>3, HistoryKept
  <2>2. ASSUME NEW q \in Page, HearDone(q) \/ HearGet(q), shown' = q
        PROVE  \E i \in 1 .. seenEvents'[shown'] : events'[i].by = r
    <3>1. q \in UnderWay /\ heard' = heard \cup {q} /\ UNCHANGED vars /\ Shown(q)
        BY <1>1, <2>2 DEF HearDone, HearGet, Hear, PageInOrder, UnderWay
    <3>2. CASE r \in heard
        BY <1>2, <1>3, <1>1, <2>2, <3>1, <3>2 DEF ReadAfterwards, Shown, vars, asked, seen, saved
    <3>3. CASE r = q
        BY <1>1, <1>3, <2>2, <3>1, <3>3, DetailRead
           DEF DetailShowsItsEvents, vars, asked, seen, saved
    <3> QED
        BY <3>1, <3>2, <3>3
  <2>3. \/ r \in heard /\ shown' = shown
        \/ \E q \in Page : (HearDone(q) \/ HearGet(q)) /\ shown' = q
    <3>1. ASSUME NEW q \in Page, HearDone(q) PROVE shown' = q
        BY <3>1 DEF HearDone
    <3>2. ASSUME NEW q \in Page, HearFailed(q) PROVE r \in heard /\ shown' = shown
      <4>1. q \in Request /\ stage[q] \in {"refused", "failed"} /\ Get /\ heard' = heard \cup {q}
          BY <1>1, <3>2 DEF HearFailed, Hear
      <4>2. stage'[q] = stage[q]
          BY <1>1, <4>1, GetStep DEF vars, Ask, TypeOK
      <4> QED
          BY <1>3, <4>1, <4>2, GetStep
    <3>3. ASSUME NEW q \in Page, HearGet(q), shown' # q PROVE r \in heard /\ shown' = shown
        BY <1>3, <3>3 DEF HearGet, Hear, vars, asked
    <3>4. CASE Open \/ Retry
        BY <1>3, <3>4, GetStep DEF Open, Retry
    <3>5. CASE \/ Elsewhere \/ Leave \/ Cancel \/ UNCHANGED all
               \/ \E a \in Action \ {"view"} : Choose(a)
               \/ \E q \in Page : Confirm(q)
        BY <1>3, <3>5 DEF Elsewhere, Leave, Cancel, Choose, Confirm, all, page, entry
    <3> QED
        BY <3>1, <3>2, <3>3, <3>4, <3>5 DEF PageNext
  <2> QED
      BY <2>1, <2>2, <2>3
<1>4. ASSUME told' # NoOne, stage'[told'] = "refused", shown' = current'
      PROVE  ~Offered(action[told])'
  <2>1. /\ told' \in heard' /\ told' \in Page
        /\ seenStatus'[current'] # "none" /\ current' \notin older' \cup {NoOne}
      BY <1>1, <1>4 DEF PageInOrder, PageTypeOK, Shown
  <2>2. Closed(action'[told'], seenStatus'[current'])
      BY <1>1, <1>4, <2>1 DEF ReadAfterwards
  <2>3. action'[told'] \in Action \ {"view"}
      BY <1>1, <1>4, <2>1 DEF RefusedForGood, IInv, TypeOK
  <2> QED
      BY <1>4, <2>2, <2>3, AllowedIs DEF Offered
<1> QED
    BY <1>3, <1>4

-----------------------------------------------------------------------------
\* The page makes lawful requests, whatever is done at it: what holds of the
\* life cycle of an appointment holds with the page.
THEOREM PageImplements == PageSpec => Spec
<1>1. PageInit => Init /\ PageTypeOK
    BY DEF PageInit, PageTypeOK
<1>2. PageTypeOK /\ [PageNext]_all => PageTypeOK' /\ [Next]_vars
    BY PageTypeStep, PageStep
<1> QED
    BY <1>1, <1>2, PTL DEF PageSpec, Spec

\* The invariant of the page.
THEOREM PageInvariance == PageSpec => [](IInv /\ PageInv)
<1>1. PageInit => PageInv
  <2> SUFFICES ASSUME PageInit PROVE PageInv
      OBVIOUS
  <2>1. \A r \in Page : stage[r] = "idle"
      BY PageConstants DEF PageInit, Init
  <2> QED
      BY <2>1 DEF PageInit, PageInv, PageTypeOK, PageInOrder, RefusedForGood, ReadAfterwards,
                  ScreenCatchesUp
<1>2. IInv /\ PageInv /\ [PageNext]_all => PageInv'
    BY PageTypeStep, OrderStep, RefusedStep, AfterStep, ScreenStep DEF PageInv
<1>3. PageSpec => []IInv
    BY PageImplements, LifecycleInvariance
<1> QED
    BY <1>1, <1>2, <1>3, PTL DEF PageSpec

\* Whatever others do, whatever is lost and whenever the page is left and opened
\* again: a detail asked for after an action was answered shows the action, and
\* does not offer what was refused.
THEOREM ScreenTheorem == PageSpec => []ScreenCatchesUp
<1>1. PageInv => ScreenCatchesUp
    BY DEF PageInv
<1> QED
    BY <1>1, PageInvariance, PTL

=============================================================================

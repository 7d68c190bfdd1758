------------------------- MODULE ConversationProofs -------------------------
(***************************************************************************)
(* The conversation of a phone, for any number of sessions, questions,     *)
(* events and failures, and the lock that lets in one message at a time.   *)
(*                                                                         *)
(* Only the latest session can be open, and it is the one being handled    *)
(* (OneOpen), so the row a script was made for is written by that script   *)
(* alone, but for the sweep, which closes it. What is left of a script     *)
(* fits its row (Fits): it leads the row to the step of its answer with    *)
(* what that step needs (LeadsThere), the last event it records is the one *)
(* before that step (LeavesTrail), and the reason of the offer stays told  *)
(* twice, by the events and by the question (KeepsReason, Agrees), so that *)
(* one of the two may be lost. A closed row fits any script. Each script   *)
(* of each step fits the row it is made for (ScriptsFit), and each         *)
(* statement leaves a rest that fits the row it leaves.                    *)
(***************************************************************************)
EXTENDS ConversationFlow, PhoneQueue, SequenceTheorems, TLAPS

-----------------------------------------------------------------------------
(* The inductive invariant                                                 *)

\* Only the latest conversation may be open, and it is the one being handled.
OneOpen ==
    /\ \A i \in OpenIds : i = Len(sessions)
    /\ ~AtRest => Len(sessions) > 0 /\ handler.sid = Len(sessions)

\* The event a session is closed with.
ClosesAs(x, outcome) ==
    /\ x.type # "SCHEDULE_OFFERED"
    /\ \/ outcome # "OUT_OF_SCOPE" /\ ClosingEvent(x) = outcome
       \/ outcome = "OUT_OF_SCOPE" /\ x = Plain("ANSWER_SENT")

\* What a script records and closes with. It ends with its answer, or with a
\* booking, which decides on the answer.
WellFormed(sc) ==
    /\ \A i \in DOMAIN sc : sc[i].op \in {"reply", "book"} <=> i = Len(sc)
    /\ \A i \in DOMAIN sc : sc[i].op = "record" =>
          /\ ClosingEvent(sc[i].event) = "none"
          /\ sc[i].event.type = "SCHEDULE_OFFERED" => sc[i].event.data \in Reasons
    /\ \A i \in DOMAIN sc : sc[i].op = "finish" =>
          sc[i].outcome # "SCHEDULED" /\ ClosesAs(sc[i].event, sc[i].outcome)

\* The step a script leads to.
Goal(sc) ==
    LET last == sc[Len(sc)] IN IF last.op = "reply" THEN last.step ELSE "AWAITING_SLOT"

\* A script leads an open row to the step of its answer, with what it needs.
LeadsThere(sc, r, sound) == IsOpen(r) =>
    /\ \A i \in DOMAIN sc : sc[i].op = "nav" =>
          Complete(sc[i].set) /\ sc[i].set.step = Goal(sc)
    /\ \A i \in DOMAIN sc : sc[i].op = "book" => r.step = "AWAITING_SLOT"
    /\ sound => \/ \E i \in DOMAIN sc : sc[i].op \in {"nav", "finish"}
                \/ r.step = Goal(sc)

\* The last event that a script records, or finds, is the one before its step.
LeavesTrail(sc, r, sure) ==
    IsOpen(r) /\ sure /\ (\A i \in DOMAIN sc : sc[i].op # "finish") =>
    /\ \A i \in DOMAIN sc :
          sc[i].op = "record" /\ (\A j \in DOMAIN sc : j > i => sc[j].op # "record") =>
             sc[i].event.type = EventBefore(Goal(sc))
    /\ (\A i \in DOMAIN sc : sc[i].op # "record") =>
          Last(r.events).type = EventBefore(Goal(sc))

LateSteps == {"AWAITING_SCHEDULE_OFFER", "AWAITING_ATTENDEE", "AWAITING_HOLDER_NAME",
              "AWAITING_HOLDER_CPF", "AWAITING_SLOT"}

\* The reason of an offer by the question, as long as none was changed.
FirstReason(q) == IF Kinds[q] = "inPerson" THEN "REQUIRES_IN_PERSON" ELSE "NOT_RESOLVED"

\* The reason of an offer is told by the events, if none is lost, and by the
\* question, if none was changed; with one event lost the events tell that
\* reason or none. Here l events are lost and e questions changed.
Agrees(events, c, l, e) ==
    /\ c.step = "AWAITING_RESOLVED" =>
          /\ l = 0 => OfferedReason(events) \in {"none", "NOT_RESOLVED"}
          /\ e = 0 => FirstReason(c.question) = "NOT_RESOLVED"
    /\ c.step \in LateSteps =>
          /\ c.offered \in Reasons
          /\ l = 0 => OfferedReason(events) = c.offered
          /\ l <= 1 /\ e = 0 => OfferedReason(events) \in {"none", c.offered}
          /\ e = 0 => FirstReason(c.question) = c.offered

Chooses(o) == o.op = "record" /\ o.event.type = "QUESTION_CHOSEN"
Offers(o)  == o.op = "record" /\ o.event.type = "SCHEDULE_OFFERED"

\* The same for the row a script will leave, with the events still to come,
\* which all come before the row is written.
KeepsReason(sc, r, l, e) == IsOpen(r) =>
    /\ \A i \in DOMAIN sc : Chooses(sc[i]) => r.step = "AWAITING_QUESTION"
    /\ \A i \in DOMAIN sc : Offers(sc[i]) =>
          /\ \/ r.step = "AWAITING_QUESTION"
             \/ r.step = "AWAITING_RESOLVED" /\ sc[i].event.data = "NOT_RESOLVED"
          /\ \A j \in DOMAIN sc : j > i => ~Chooses(sc[j])
    /\ \A n \in DOMAIN sc : sc[n].op = "nav" =>
          /\ \A j \in DOMAIN sc : j > n => sc[j].op # "nav" /\ ~Chooses(sc[j]) /\ ~Offers(sc[j])
          /\ (\A i \in DOMAIN sc : ~Chooses(sc[i]) /\ ~Offers(sc[i])) =>
                Agrees(r.events, sc[n].set, l, e)
          /\ (\E i \in DOMAIN sc : Chooses(sc[i])) /\ (\A i \in DOMAIN sc : ~Offers(sc[i])) =>
                /\ sc[n].set.step \notin LateSteps
                /\ sc[n].set.step = "AWAITING_RESOLVED" /\ e = 0 =>
                      FirstReason(sc[n].set.question) = "NOT_RESOLVED"
          /\ \A i \in DOMAIN sc : Offers(sc[i]) =>
                /\ sc[n].set.step \in LateSteps
                /\ sc[n].set.offered = sc[i].event.data
                /\ l = 0 /\ (\A j \in DOMAIN sc : ~Chooses(sc[j])) =>
                      OfferedReason(r.events) \in {"none", sc[n].set.offered}
                /\ e = 0 => FirstReason(sc[n].set.question) = sc[n].set.offered

\* What holds of every row by itself.
RowGood(r) ==
    /\ OutcomeOf(r)
    /\ IsOpen(r) => Complete(r)
    /\ \A i \in DOMAIN r.events :
          r.events[i].type = "SCHEDULE_OFFERED" => r.events[i].data \in Reasons

RowsInv ==
    /\ \A i \in DOMAIN sessions : RowGood(sessions[i])
    /\ \A i \in OpenIds : Agrees(sessions[i].events, sessions[i], lost, edits)

Fits(sc, r, sound, l, e) ==
    /\ WellFormed(sc)
    /\ LeadsThere(sc, r, sound)
    /\ LeavesTrail(sc, r, sound /\ l = 0)
    /\ KeepsReason(sc, r, l, e)

ScriptInv == ~AtRest => Fits(handler.script, Current, ~broken, lost, edits)

Inv ==
    /\ TypeOK
    /\ edits = 0 => kind = Kinds
    /\ OneOpen
    /\ RowsInv
    /\ ScriptInv
    /\ ReasonAsOffered
    /\ ToldMatchesRow
    /\ TrailFollowsSteps

-----------------------------------------------------------------------------
(* Lemmas on scripts                                                       *)

\* The kinds of statement a script is made of.
LEMMA OpFacts ==
  ASSUME NEW o \in Operations
  PROVE  /\ o.op \in {"record", "nav", "finish", "touch", "book", "reply"}
         /\ o.op = "record" => o.event \in EventSet
         /\ o.op = "nav" => o.set \in ColumnSet
         /\ o.op = "finish" => o.outcome \in Closings /\ o.event \in EventSet
         /\ o.op = "reply" => o.step \in OpenSteps \cup {"FINISHED"}
  BY DEF Operations

\* The rest of a script, element by element.
LEMMA TailFacts ==
  ASSUME NEW S, NEW s \in Seq(S), s # <<>>
  PROVE  /\ Tail(s) \in Seq(S) /\ Len(s) \in Nat \ {0} /\ Len(Tail(s)) = Len(s) - 1
         /\ Head(s) = s[1] /\ DOMAIN s = 1 .. Len(s) /\ DOMAIN Tail(s) = 1 .. Len(s) - 1
         /\ \A i \in DOMAIN Tail(s) : Tail(s)[i] = s[i + 1]
         /\ \A i \in DOMAIN s : s[i] \in S
  BY HeadTailProperties, LenProperties, ElementOfSeq, EmptySeq

\* What remains after a statement that is not the last has the same end.
LEMMA Rest ==
  ASSUME NEW sc \in Seq(Operations), sc # <<>>, WellFormed(sc),
         sc[1].op \notin {"reply", "book"}
  PROVE  /\ Tail(sc) # <<>> /\ Tail(sc) \in Seq(Operations)
         /\ WellFormed(Tail(sc)) /\ Goal(Tail(sc)) = Goal(sc)
  <1>1. /\ Tail(sc) \in Seq(Operations) /\ Len(sc) \in Nat \ {0}
        /\ Len(Tail(sc)) = Len(sc) - 1
        /\ DOMAIN sc = 1 .. Len(sc) /\ DOMAIN Tail(sc) = 1 .. Len(sc) - 1
        /\ \A i \in DOMAIN Tail(sc) : Tail(sc)[i] = sc[i + 1]
    BY TailFacts
  <1>2. Len(sc) # 1
    BY <1>1 DEF WellFormed
  <1>3. Tail(sc) # <<>> /\ Tail(sc)[Len(Tail(sc))] = sc[Len(sc)]
    <2>1. Len(Tail(sc)) # 0 /\ Len(Tail(sc)) \in DOMAIN Tail(sc) /\ Len(Tail(sc)) + 1 = Len(sc)
      BY <1>1, <1>2
    <2>2. Tail(sc) # <<>>
      BY <1>1, <2>1, EmptySeq
    <2> QED BY <1>1, <2>1, <2>2
  <1>4. WellFormed(Tail(sc))
    BY <1>1, <1>2 DEF WellFormed
  <1> QED BY <1>1, <1>3, <1>4 DEF Goal

\* After a statement has run, the rest of the script still leads to its goal.
LEMMA RestLeads ==
  ASSUME NEW sc \in Seq(Operations), sc # <<>>, WellFormed(sc),
         sc[1].op \notin {"reply", "book"},
         NEW r, NEW q, NEW sound \in BOOLEAN, NEW still \in BOOLEAN,
         LeadsThere(sc, r, sound),
         IsOpen(q) => /\ IsOpen(r) /\ (still => sound)
                      /\ sc[1].op = "nav" => q.step = sc[1].set.step
                      /\ sc[1].op = "finish" => ~still /\ q.step = r.step
                      /\ sc[1].op \notin {"nav", "finish"} => q.step = r.step
  PROVE  LeadsThere(Tail(sc), q, still)
  <1> SUFFICES ASSUME IsOpen(q) PROVE LeadsThere(Tail(sc), q, still)
    BY DEF LeadsThere
  <1>1. /\ Len(sc) \in Nat \ {0} /\ DOMAIN sc = 1 .. Len(sc)
        /\ DOMAIN Tail(sc) = 1 .. Len(sc) - 1
        /\ \A i \in DOMAIN Tail(sc) : Tail(sc)[i] = sc[i + 1] /\ i + 1 \in DOMAIN sc
    BY TailFacts
  <1>2. Goal(Tail(sc)) = Goal(sc)
    BY Rest
  <1>3. \A i \in DOMAIN Tail(sc) : Tail(sc)[i].op = "nav" =>
          Complete(Tail(sc)[i].set) /\ Tail(sc)[i].set.step = Goal(Tail(sc))
    BY <1>1, <1>2 DEF LeadsThere
  <1>4. \A i \in DOMAIN Tail(sc) : Tail(sc)[i].op = "book" => q.step = "AWAITING_SLOT"
    <2>1. ASSUME NEW i \in DOMAIN Tail(sc), Tail(sc)[i].op = "book"
          PROVE  Goal(sc) = "AWAITING_SLOT" /\ r.step = "AWAITING_SLOT"
      <3>1. i + 1 \in DOMAIN sc /\ sc[i + 1].op = "book"
        BY <1>1, <2>1
      <3>2. i + 1 = Len(sc)
        BY <3>1 DEF WellFormed
      <3> QED BY <3>1, <3>2 DEF Goal, LeadsThere
    <2>2. 1 \in DOMAIN sc
      BY <1>1
    <2> QED BY <2>1, <2>2 DEF LeadsThere
  <1>5. ASSUME still
        PROVE  \/ \E i \in DOMAIN Tail(sc) : Tail(sc)[i].op \in {"nav", "finish"}
               \/ q.step = Goal(Tail(sc))
    <2>1. CASE sc[1].op = "nav"
      BY <1>1, <1>2, <2>1 DEF LeadsThere
    <2>2. CASE sc[1].op \notin {"nav", "finish"}
      <3>1. CASE \E i \in DOMAIN sc : sc[i].op \in {"nav", "finish"}
        <4>1. PICK i \in DOMAIN sc : sc[i].op \in {"nav", "finish"}
          BY <3>1
        <4>2. i # 1 /\ i - 1 \in DOMAIN Tail(sc) /\ Tail(sc)[i - 1] = sc[i]
          BY <1>1, <2>2, <4>1
        <4> QED BY <4>1, <4>2
      <3>2. CASE r.step = Goal(sc)
        BY <1>2, <2>2, <3>2
      <3> QED BY <1>5, <3>1, <3>2 DEF LeadsThere
    <2> QED BY <1>5, <2>1, <2>2
  <1> QED BY <1>3, <1>4, <1>5 DEF LeadsThere

\* What columns agree with after fewer losses they agree with after more.
LEMMA AgreesLater ==
  ASSUME NEW events, NEW c, NEW l \in Nat, NEW e \in Nat, Agrees(events, c, l, e),
         NEW m \in Nat, NEW f \in Nat, l <= m, e <= f
  PROVE  Agrees(events, c, m, f)
  <1>1. (m = 0 => l = 0) /\ (f = 0 => e = 0) /\ (m <= 1 => l <= 1)
    OBVIOUS
  <1> QED BY <1>1 DEF Agrees

\* A script that keeps the reason after fewer losses keeps it after more.
LEMMA KeepsLater ==
  ASSUME NEW sc, NEW r, NEW l \in Nat, NEW e \in Nat, KeepsReason(sc, r, l, e),
         NEW m \in Nat, NEW f \in Nat, l <= m, e <= f
  PROVE  KeepsReason(sc, r, m, f)
  <1>1. (m = 0 => l = 0) /\ (f = 0 => e = 0)
    OBVIOUS
  <1>2. \A c : Agrees(r.events, c, l, e) => Agrees(r.events, c, m, f)
    BY AgreesLater
  <1> QED BY <1>1, <1>2 DEF KeepsReason

\* After a statement that neither writes the row nor tells of an offer, the
\* same is still to come.
LEMMA RestKeeps ==
  ASSUME NEW sc \in Seq(Operations), sc # <<>>,
         sc[1].op # "nav", ~Chooses(sc[1]), ~Offers(sc[1]),
         NEW r, NEW q, NEW l \in Nat, NEW e \in Nat, KeepsReason(sc, r, l, e),
         IsOpen(q) => /\ IsOpen(r) /\ q.step = r.step
                      /\ OfferedReason(q.events) = OfferedReason(r.events)
  PROVE  KeepsReason(Tail(sc), q, l, e)
  <1> SUFFICES ASSUME IsOpen(q) PROVE KeepsReason(Tail(sc), q, l, e)
    BY DEF KeepsReason
  <1>1. /\ Len(sc) \in Nat \ {0} /\ DOMAIN sc = 1 .. Len(sc)
        /\ DOMAIN Tail(sc) = 1 .. Len(sc) - 1
        /\ \A i \in DOMAIN Tail(sc) : Tail(sc)[i] = sc[i + 1] /\ i + 1 \in DOMAIN sc
        /\ \A i \in DOMAIN sc : i # 1 => i - 1 \in DOMAIN Tail(sc) /\ sc[i] = Tail(sc)[i - 1]
    BY TailFacts
  <1>2. \A c : Agrees(q.events, c, l, e) <=> Agrees(r.events, c, l, e)
    BY DEF Agrees
  <1>3. /\ (\A i \in DOMAIN Tail(sc) : ~Chooses(Tail(sc)[i])) <=> (\A i \in DOMAIN sc : ~Chooses(sc[i]))
        /\ (\A i \in DOMAIN Tail(sc) : ~Offers(Tail(sc)[i])) <=> (\A i \in DOMAIN sc : ~Offers(sc[i]))
    BY <1>1
  <1>4. \A i, j \in DOMAIN Tail(sc) : j > i => j + 1 > i + 1
    BY <1>1
  <1>5. ASSUME NEW i \in DOMAIN Tail(sc), Offers(Tail(sc)[i])
        PROVE  /\ \/ q.step = "AWAITING_QUESTION"
                  \/ q.step = "AWAITING_RESOLVED" /\ Tail(sc)[i].event.data = "NOT_RESOLVED"
               /\ \A j \in DOMAIN Tail(sc) : j > i => ~Chooses(Tail(sc)[j])
    BY <1>1, <1>4, <1>5 DEF KeepsReason
  <1>6. ASSUME NEW n \in DOMAIN Tail(sc), Tail(sc)[n].op = "nav"
        PROVE  LET c == Tail(sc)[n].set IN
          /\ \A j \in DOMAIN Tail(sc) : j > n =>
                Tail(sc)[j].op # "nav" /\ ~Chooses(Tail(sc)[j]) /\ ~Offers(Tail(sc)[j])
          /\ (\A i \in DOMAIN Tail(sc) : ~Chooses(Tail(sc)[i]) /\ ~Offers(Tail(sc)[i])) =>
                Agrees(q.events, c, l, e)
          /\ (\E i \in DOMAIN Tail(sc) : Chooses(Tail(sc)[i]))
                /\ (\A i \in DOMAIN Tail(sc) : ~Offers(Tail(sc)[i])) =>
                /\ c.step \notin LateSteps
                /\ c.step = "AWAITING_RESOLVED" /\ e = 0 => FirstReason(c.question) = "NOT_RESOLVED"
          /\ \A i \in DOMAIN Tail(sc) : Offers(Tail(sc)[i]) =>
                /\ c.step \in LateSteps
                /\ c.offered = Tail(sc)[i].event.data
                /\ l = 0 /\ (\A j \in DOMAIN Tail(sc) : ~Chooses(Tail(sc)[j])) =>
                      OfferedReason(q.events) \in {"none", c.offered}
                /\ e = 0 => FirstReason(c.question) = c.offered
    <2>1. n + 1 \in DOMAIN sc /\ sc[n + 1] = Tail(sc)[n]
      BY <1>1
    <2>2. \A j \in DOMAIN Tail(sc) : j > n =>
             Tail(sc)[j].op # "nav" /\ ~Chooses(Tail(sc)[j]) /\ ~Offers(Tail(sc)[j])
      BY <1>1, <1>4, <1>6, <2>1 DEF KeepsReason
    <2>3. (\A i \in DOMAIN Tail(sc) : ~Chooses(Tail(sc)[i]) /\ ~Offers(Tail(sc)[i])) =>
             Agrees(q.events, Tail(sc)[n].set, l, e)
      BY <1>2, <1>3, <1>6, <2>1 DEF KeepsReason
    <2>4. (\E i \in DOMAIN Tail(sc) : Chooses(Tail(sc)[i]))
             /\ (\A i \in DOMAIN Tail(sc) : ~Offers(Tail(sc)[i])) =>
             /\ Tail(sc)[n].set.step \notin LateSteps
             /\ Tail(sc)[n].set.step = "AWAITING_RESOLVED" /\ e = 0 =>
                   FirstReason(Tail(sc)[n].set.question) = "NOT_RESOLVED"
      BY <1>3, <1>6, <2>1 DEF KeepsReason
    <2>5. ASSUME NEW i \in DOMAIN Tail(sc), Offers(Tail(sc)[i])
          PROVE  /\ Tail(sc)[n].set.step \in LateSteps
                 /\ Tail(sc)[n].set.offered = Tail(sc)[i].event.data
                 /\ l = 0 /\ (\A j \in DOMAIN Tail(sc) : ~Chooses(Tail(sc)[j])) =>
                       OfferedReason(q.events) \in {"none", Tail(sc)[n].set.offered}
                 /\ e = 0 => FirstReason(Tail(sc)[n].set.question) = Tail(sc)[n].set.offered
      BY <1>1, <1>3, <1>6, <2>1, <2>5 DEF KeepsReason
    <2> QED BY <2>2, <2>3, <2>4, <2>5
  <1>7. \A i \in DOMAIN Tail(sc) : Chooses(Tail(sc)[i]) => q.step = "AWAITING_QUESTION"
    BY <1>1 DEF KeepsReason
  <1> QED BY <1>5, <1>6, <1>7 DEF KeepsReason

\* The trail is that of the rest if the first statement added its event, or
\* had none to add.
LEMMA RestTrail ==
  ASSUME NEW sc \in Seq(Operations), sc # <<>>, WellFormed(sc),
         sc[1].op \notin {"reply", "book"},
         NEW r, NEW q, NEW sure \in BOOLEAN, NEW still \in BOOLEAN,
         LeavesTrail(sc, r, sure),
         IsOpen(q) => /\ IsOpen(r) /\ (still => sure)
                      /\ sc[1].op = "finish" => ~still
                      /\ sc[1].op = "record" /\ still => Last(q.events) = sc[1].event
                      /\ sc[1].op # "record" => q.events = r.events
  PROVE  LeavesTrail(Tail(sc), q, still)
  <1> SUFFICES ASSUME IsOpen(q), still, \A i \in DOMAIN Tail(sc) : Tail(sc)[i].op # "finish"
               PROVE  LeavesTrail(Tail(sc), q, still)
    BY DEF LeavesTrail
  <1>1. /\ Len(sc) \in Nat \ {0} /\ DOMAIN sc = 1 .. Len(sc)
        /\ DOMAIN Tail(sc) = 1 .. Len(sc) - 1
        /\ \A i \in DOMAIN Tail(sc) : Tail(sc)[i] = sc[i + 1] /\ i + 1 \in DOMAIN sc
        /\ \A i \in DOMAIN sc : i # 1 => i - 1 \in DOMAIN Tail(sc) /\ sc[i] = Tail(sc)[i - 1]
    BY TailFacts
  <1>2. Goal(Tail(sc)) = Goal(sc)
    BY Rest
  <1>3. \A i \in DOMAIN sc : sc[i].op # "finish"
    BY <1>1
  <1>4. ASSUME NEW i \in DOMAIN Tail(sc), Tail(sc)[i].op = "record",
               \A j \in DOMAIN Tail(sc) : j > i => Tail(sc)[j].op # "record"
        PROVE  Tail(sc)[i].event.type = EventBefore(Goal(Tail(sc)))
    <2>1. ASSUME NEW j \in DOMAIN sc, j > i + 1 PROVE sc[j].op # "record"
      <3>1. i \in Nat /\ j \in Nat /\ j # 1 /\ j - 1 > i
        BY <1>1, <1>4, <2>1
      <3>2. j - 1 \in DOMAIN Tail(sc) /\ sc[j] = Tail(sc)[j - 1]
        BY <1>1, <3>1
      <3> QED BY <1>4, <3>1, <3>2
    <2> QED BY <1>1, <1>2, <1>3, <1>4, <2>1 DEF LeavesTrail
  <1>5. ASSUME \A i \in DOMAIN Tail(sc) : Tail(sc)[i].op # "record"
        PROVE  Last(q.events).type = EventBefore(Goal(Tail(sc)))
    <2>1. ASSUME NEW j \in DOMAIN sc, j > 1 PROVE sc[j].op # "record"
      <3>1. j # 1
        BY <1>1, <2>1
      <3>2. j - 1 \in DOMAIN Tail(sc) /\ sc[j] = Tail(sc)[j - 1]
        BY <1>1, <3>1
      <3> QED BY <1>5, <3>2
    <2>2. CASE sc[1].op = "record"
      BY <1>1, <1>2, <1>3, <2>1, <2>2 DEF LeavesTrail
    <2>3. CASE sc[1].op # "record"
      <3>1. \A j \in DOMAIN sc : sc[j].op # "record"
        BY <1>1, <2>1, <2>3
      <3> QED BY <1>2, <1>3, <2>3, <3>1 DEF LeavesTrail
    <2> QED BY <2>2, <2>3
  <1> QED BY <1>4, <1>5 DEF LeavesTrail

-----------------------------------------------------------------------------
(* Lemmas on the reason of an offer                                        *)

\* A list of events with one more.
LEMMA AppendFacts ==
  ASSUME NEW S, NEW s \in Seq(S), NEW x \in S
  PROVE  /\ Append(s, x) \in Seq(S) /\ Len(s) \in Nat /\ Len(Append(s, x)) = Len(s) + 1
         /\ DOMAIN s = 1 .. Len(s) /\ DOMAIN Append(s, x) = 1 .. Len(s) + 1
         /\ \A i \in DOMAIN s : Append(s, x)[i] = s[i] /\ s[i] \in S
         /\ Append(s, x)[Len(s) + 1] = x /\ Last(Append(s, x)) = x
  <1>1. /\ Append(s, x) \in Seq(S) /\ Len(s) \in Nat /\ Len(Append(s, x)) = Len(s) + 1
        /\ DOMAIN s = 1 .. Len(s) /\ DOMAIN Append(s, x) = 1 .. Len(s) + 1
        /\ Append(s, x)[Len(s) + 1] = x
    BY AppendProperties, LenProperties
  <1>2. \A i \in DOMAIN s : Append(s, x)[i] = s[i] /\ s[i] \in S
    BY AppendProperties, ElementOfSeq, LenProperties
  <1> QED BY <1>1, <1>2 DEF Last

\* The reason of the last offer after one more event.
LEMMA OfferedAppend ==
  ASSUME NEW events \in Seq(EventSet), NEW x \in EventSet
  PROVE  LET after == OfferedReason(Append(events, x)) IN
         /\ x.type = "QUESTION_CHOSEN" => after = "none"
         /\ x.type = "SCHEDULE_OFFERED" => after = x.data
         /\ x.type \notin {"QUESTION_CHOSEN", "SCHEDULE_OFFERED"} => after = OfferedReason(events)
  <1> DEFINE offers(s) == {i \in DOMAIN s :
                             /\ s[i].type = "SCHEDULE_OFFERED"
                             /\ \A j \in DOMAIN s :
                                   j > i => s[j].type \notin {"QUESTION_CHOSEN", "SCHEDULE_OFFERED"}}
             more == Append(events, x)
             n == Len(events)
  <1>1. /\ n \in Nat /\ DOMAIN events = 1 .. n /\ DOMAIN more = 1 .. n + 1
        /\ \A i \in 1 .. n : more[i] = events[i]
        /\ more[n + 1] = x
    BY AppendFacts
  <1>2. \A s : OfferedReason(s) = IF offers(s) = {} THEN "none" ELSE s[CHOOSE i \in offers(s) : TRUE].data
    BY DEF OfferedReason
  <1> HIDE DEF more, n
  <1>3. ASSUME x.type = "QUESTION_CHOSEN" PROVE offers(more) = {}
    <2>1. \A i \in DOMAIN more : i # n + 1 => n + 1 > i
      BY <1>1
    <2> QED BY <1>1, <1>3, <2>1
  <1>4. ASSUME x.type = "SCHEDULE_OFFERED" PROVE offers(more) = {n + 1}
    <2>1. \A i \in DOMAIN more : i # n + 1 => n + 1 > i
      BY <1>1
    <2>2. n + 1 \in offers(more)
      BY <1>1, <1>4
    <2> QED BY <1>1, <1>4, <2>1, <2>2
  <1>5. ASSUME x.type \notin {"QUESTION_CHOSEN", "SCHEDULE_OFFERED"}
        PROVE  offers(more) = offers(events)
    <2>1. ASSUME NEW i, i \in offers(more) PROVE i \in offers(events)
      BY <1>1, <1>5, <2>1
    <2>2. ASSUME NEW i, i \in offers(events) PROVE i \in offers(more)
      BY <1>1, <1>5, <2>2
    <2> QED BY <2>1, <2>2
  <1> HIDE DEF offers
  <1>6. ASSUME offers(events) # {}
        PROVE  (CHOOSE i \in offers(events) : TRUE) \in 1 .. n
    BY <1>1, <1>6 DEF offers
  <1>7. ASSUME x.type = "SCHEDULE_OFFERED" PROVE OfferedReason(more) = x.data
    <2>1. (CHOOSE i \in {n + 1} : TRUE) = n + 1
      OBVIOUS
    <2> QED BY <1>1, <1>2, <1>4, <1>7, <2>1
  <1>8. ASSUME x.type \notin {"QUESTION_CHOSEN", "SCHEDULE_OFFERED"}
        PROVE  OfferedReason(more) = OfferedReason(events)
    BY <1>1, <1>2, <1>5, <1>6, <1>8
  <1> QED BY <1>2, <1>3, <1>7, <1>8 DEF more

\* The events never name anything but a reason.
LEMMA OfferedIsReason ==
  ASSUME NEW events \in Seq(EventSet),
         \A i \in DOMAIN events : events[i].type = "SCHEDULE_OFFERED" => events[i].data \in Reasons
  PROVE  OfferedReason(events) \in Reasons \cup {"none"}
  <1> DEFINE offers == {i \in DOMAIN events :
                          /\ events[i].type = "SCHEDULE_OFFERED"
                          /\ \A j \in DOMAIN events :
                                j > i => events[j].type \notin {"QUESTION_CHOSEN", "SCHEDULE_OFFERED"}}
  <1>1. CASE offers = {}
    BY <1>1 DEF OfferedReason
  <1>2. CASE offers # {}
    <2>1. (CHOOSE i \in offers : TRUE) \in offers
      BY <1>2
    <2> QED BY <1>2, <2>1 DEF OfferedReason
  <1> QED BY <1>1, <1>2

\* Once the row is written nothing more is to come.
LEMMA NavKeeps ==
  ASSUME NEW sc \in Seq(Operations), sc # <<>>, sc[1].op = "nav",
         NEW r, NEW q, NEW l \in Nat, NEW e \in Nat, KeepsReason(sc, r, l, e), IsOpen(r)
  PROVE  KeepsReason(Tail(sc), q, l, e) /\ Agrees(r.events, sc[1].set, l, e)
  <1>1. /\ 1 \in DOMAIN sc
        /\ \A i \in DOMAIN Tail(sc) : Tail(sc)[i] = sc[i + 1] /\ i + 1 \in DOMAIN sc /\ i + 1 > 1
        /\ \A i \in DOMAIN sc : i # 1 => i > 1
    BY TailFacts
  <1>2. \A i \in DOMAIN Tail(sc) :
           Tail(sc)[i].op # "nav" /\ ~Chooses(Tail(sc)[i]) /\ ~Offers(Tail(sc)[i])
    BY <1>1 DEF KeepsReason
  <1>3. \A i \in DOMAIN sc : ~Chooses(sc[i]) /\ ~Offers(sc[i])
    BY <1>1 DEF KeepsReason, Chooses, Offers
  <1> QED BY <1>1, <1>2, <1>3 DEF KeepsReason

\* What is still to come when a question chosen is known, or was lost: the offer
\* that follows it, if any.
LEMMA ChosenKeeps ==
  ASSUME NEW sc \in Seq(Operations), sc # <<>>, Chooses(sc[1]),
         NEW r, NEW q, NEW l \in Nat, NEW m \in Nat, NEW e \in Nat,
         KeepsReason(sc, r, l, e), IsOpen(r), q.step = r.step,
         m = 0 => OfferedReason(q.events) = "none"
  PROVE  KeepsReason(Tail(sc), q, m, e)
  <1>1. /\ 1 \in DOMAIN sc
        /\ \A i \in DOMAIN Tail(sc) : Tail(sc)[i] = sc[i + 1] /\ i + 1 \in DOMAIN sc /\ i \in Nat
        /\ \A i, j \in DOMAIN Tail(sc) : j > i => j + 1 > i + 1
    BY TailFacts
  <1>2. ASSUME NEW i \in DOMAIN Tail(sc), Offers(Tail(sc)[i])
        PROVE  /\ \/ q.step = "AWAITING_QUESTION"
                  \/ q.step = "AWAITING_RESOLVED" /\ Tail(sc)[i].event.data = "NOT_RESOLVED"
               /\ \A j \in DOMAIN Tail(sc) : j > i => ~Chooses(Tail(sc)[j])
    BY <1>1, <1>2 DEF KeepsReason
  <1>3. ASSUME NEW n \in DOMAIN Tail(sc), Tail(sc)[n].op = "nav"
        PROVE  LET c == Tail(sc)[n].set IN
          /\ \A j \in DOMAIN Tail(sc) : j > n =>
                Tail(sc)[j].op # "nav" /\ ~Chooses(Tail(sc)[j]) /\ ~Offers(Tail(sc)[j])
          /\ (\A i \in DOMAIN Tail(sc) : ~Offers(Tail(sc)[i])) =>
                /\ c.step \notin LateSteps
                /\ c.step = "AWAITING_RESOLVED" /\ e = 0 => FirstReason(c.question) = "NOT_RESOLVED"
          /\ \A i \in DOMAIN Tail(sc) : Offers(Tail(sc)[i]) =>
                /\ c.step \in LateSteps
                /\ c.offered = Tail(sc)[i].event.data
                /\ e = 0 => FirstReason(c.question) = c.offered
    <2>1. n + 1 \in DOMAIN sc /\ sc[n + 1] = Tail(sc)[n]
      BY <1>1
    <2>2. \A j \in DOMAIN Tail(sc) : j > n =>
             Tail(sc)[j].op # "nav" /\ ~Chooses(Tail(sc)[j]) /\ ~Offers(Tail(sc)[j])
      BY <1>1, <1>3, <2>1 DEF KeepsReason
    <2>3. ASSUME \A i \in DOMAIN Tail(sc) : ~Offers(Tail(sc)[i])
          PROVE  \A i \in DOMAIN sc : ~Offers(sc[i])
      <3>1. ~Offers(sc[1])
        BY DEF Offers, Chooses
      <3>2. ASSUME NEW i \in DOMAIN sc, i # 1 PROVE ~Offers(sc[i])
        <4>1. i - 1 \in DOMAIN Tail(sc) /\ sc[i] = Tail(sc)[i - 1]
          BY <3>2, TailFacts
        <4> QED BY <2>3, <4>1
      <3> QED BY <3>1, <3>2
    <2>4. (\A i \in DOMAIN Tail(sc) : ~Offers(Tail(sc)[i])) =>
             /\ Tail(sc)[n].set.step \notin LateSteps
             /\ Tail(sc)[n].set.step = "AWAITING_RESOLVED" /\ e = 0 =>
                   FirstReason(Tail(sc)[n].set.question) = "NOT_RESOLVED"
      BY <1>1, <1>3, <2>1, <2>3 DEF KeepsReason
    <2>5. ASSUME NEW i \in DOMAIN Tail(sc), Offers(Tail(sc)[i])
          PROVE  /\ Tail(sc)[n].set.step \in LateSteps
                 /\ Tail(sc)[n].set.offered = Tail(sc)[i].event.data
                 /\ e = 0 => FirstReason(Tail(sc)[n].set.question) = Tail(sc)[n].set.offered
      BY <1>1, <1>3, <2>1, <2>5 DEF KeepsReason
    <2> QED BY <2>2, <2>4, <2>5
  <1>4. \A i \in DOMAIN Tail(sc) : Chooses(Tail(sc)[i]) => q.step = "AWAITING_QUESTION"
    BY <1>1 DEF KeepsReason
  <1>5. ASSUME NEW c, c.step \notin LateSteps,
               c.step = "AWAITING_RESOLVED" /\ e = 0 => FirstReason(c.question) = "NOT_RESOLVED"
        PROVE  Agrees(q.events, c, m, e)
    BY <1>5 DEF Agrees
  <1> QED BY <1>2, <1>3, <1>4, <1>5 DEF KeepsReason

\* The same for an offer.
LEMMA OfferKeeps ==
  ASSUME NEW sc \in Seq(Operations), sc # <<>>, WellFormed(sc), Offers(sc[1]),
         NEW r, NEW q, NEW l \in Nat, NEW m \in Nat, NEW e \in Nat,
         KeepsReason(sc, r, l, e), IsOpen(r), q.step = r.step,
         \/ OfferedReason(q.events) = sc[1].event.data
         \/ m = l + 1 /\ OfferedReason(q.events) = OfferedReason(r.events)
  PROVE  KeepsReason(Tail(sc), q, m, e)
  <1>1. /\ 1 \in DOMAIN sc
        /\ \A i \in DOMAIN Tail(sc) :
              Tail(sc)[i] = sc[i + 1] /\ i + 1 \in DOMAIN sc /\ i \in Nat /\ i + 1 > 1
        /\ \A i, j \in DOMAIN Tail(sc) : j > i => j + 1 > i + 1
        /\ \A i \in DOMAIN sc : i # 1 => i > 1
    BY TailFacts
  <1>2. \A i \in DOMAIN sc : ~Chooses(sc[i])
    BY <1>1 DEF KeepsReason, Chooses, Offers
  <1>3. sc[1].event.data \in Reasons
    BY <1>1 DEF WellFormed, Offers
  <1>4. ASSUME NEW n \in DOMAIN Tail(sc), Tail(sc)[n].op = "nav"
        PROVE  /\ \A j \in DOMAIN Tail(sc) : j > n =>
                     Tail(sc)[j].op # "nav" /\ ~Chooses(Tail(sc)[j]) /\ ~Offers(Tail(sc)[j])
               /\ Tail(sc)[n].set.step \in LateSteps
               /\ Tail(sc)[n].set.offered = sc[1].event.data
               /\ e = 0 => FirstReason(Tail(sc)[n].set.question) = Tail(sc)[n].set.offered
               /\ l = 0 => OfferedReason(r.events) \in {"none", Tail(sc)[n].set.offered}
               /\ \A i \in DOMAIN Tail(sc) : Offers(Tail(sc)[i]) =>
                     Tail(sc)[n].set.offered = Tail(sc)[i].event.data
    <2>1. n + 1 \in DOMAIN sc /\ sc[n + 1] = Tail(sc)[n] /\ sc[n + 1].op = "nav"
      BY <1>1, <1>4
    <2>2. /\ \A j \in DOMAIN sc : j > n + 1 => sc[j].op # "nav" /\ ~Chooses(sc[j]) /\ ~Offers(sc[j])
          /\ \A i \in DOMAIN sc : Offers(sc[i]) =>
                /\ sc[n + 1].set.step \in LateSteps
                /\ sc[n + 1].set.offered = sc[i].event.data
                /\ l = 0 => OfferedReason(r.events) \in {"none", sc[n + 1].set.offered}
                /\ e = 0 => FirstReason(sc[n + 1].set.question) = sc[n + 1].set.offered
      BY <1>2, <2>1 DEF KeepsReason
    <2> QED BY <1>1, <2>1, <2>2
  <1>5. ASSUME NEW c, c.step \in LateSteps, c.offered = sc[1].event.data,
               e = 0 => FirstReason(c.question) = c.offered,
               l = 0 => OfferedReason(r.events) \in {"none", c.offered}
        PROVE  Agrees(q.events, c, m, e)
    <2>1. c.step # "AWAITING_RESOLVED"
      BY <1>5 DEF LateSteps
    <2>2. m = l + 1 => m # 0 /\ (m <= 1 => l = 0)
      OBVIOUS
    <2> QED BY <1>3, <1>5, <2>1, <2>2 DEF Agrees
  <1>6. ASSUME NEW i \in DOMAIN Tail(sc), Offers(Tail(sc)[i])
        PROVE  /\ \/ q.step = "AWAITING_QUESTION"
                  \/ q.step = "AWAITING_RESOLVED" /\ Tail(sc)[i].event.data = "NOT_RESOLVED"
               /\ \A j \in DOMAIN Tail(sc) : ~Chooses(Tail(sc)[j])
    BY <1>1, <1>2, <1>6 DEF KeepsReason
  <1>7. \A i \in DOMAIN Tail(sc) : ~Chooses(Tail(sc)[i])
    BY <1>1, <1>2
  <1>8. ASSUME NEW n \in DOMAIN Tail(sc), Tail(sc)[n].op = "nav"
        PROVE  /\ m = 0 => OfferedReason(q.events) \in {"none", Tail(sc)[n].set.offered}
    BY <1>4, <1>8
  <1>9. ASSUME NEW n \in DOMAIN Tail(sc), Tail(sc)[n].op = "nav"
        PROVE  Agrees(q.events, Tail(sc)[n].set, m, e)
    BY <1>4, <1>5, <1>9
  <1> QED BY <1>4, <1>6, <1>7, <1>8, <1>9 DEF KeepsReason

-----------------------------------------------------------------------------
(* Lemmas on rows                                                          *)

\* The closing events after one more event.
LEMMA ClosingAppend ==
  ASSUME NEW events \in Seq(EventSet), NEW x \in EventSet
  PROVE  ClosingIn(Append(events, x)) =
            ClosingIn(events) \cup (IF ClosingEvent(x) = "none" THEN {} ELSE {Len(events) + 1})
  <1> DEFINE more == Append(events, x)
             n == Len(events)
  <1>1. /\ n \in Nat /\ DOMAIN events = 1 .. n /\ DOMAIN more = 1 .. n + 1
        /\ \A i \in 1 .. n : more[i] = events[i]
        /\ more[n + 1] = x
    BY AppendFacts
  <1> HIDE DEF more, n
  <1>2. ClosingIn(more) =
            ClosingIn(events) \cup (IF ClosingEvent(x) = "none" THEN {} ELSE {n + 1})
    <2>1. ASSUME NEW i PROVE i \in ClosingIn(more) <=>
             i \in ClosingIn(events) \/ (ClosingEvent(x) # "none" /\ i = n + 1)
      <3>1. CASE i \in 1 .. n
        BY <1>1, <3>1 DEF ClosingIn
      <3>2. CASE i = n + 1
        BY <1>1, <3>2 DEF ClosingIn
      <3>3. CASE i \notin 1 .. n + 1
        BY <1>1, <3>3 DEF ClosingIn
      <3> QED BY <1>1, <3>1, <3>2, <3>3
    <2> QED BY <2>1
  <1> QED BY <1>2 DEF more, n

\* The clock changes nothing but the idle mark of a row.
LEMMA IdleRow ==
  ASSUME NEW r \in Row, RowGood(r), NEW b \in BOOLEAN
  PROVE  LET q == [r EXCEPT !.idle = b] IN
         /\ q \in Row /\ RowGood(q) /\ (IsOpen(q) <=> IsOpen(r))
         /\ q.step = r.step /\ q.events = r.events /\ q.offered = r.offered
         /\ q.question = r.question /\ q.reason = r.reason
  BY DEF Row, RowGood, OutcomeOf, IsOpen, Complete

\* A row navigated is good and at the step written.
LEMMA NavRow ==
  ASSUME NEW r \in Row, RowGood(r), IsOpen(r), NEW c \in ColumnSet, Complete(c)
  PROVE  LET q == Navigated(r, c) IN
         /\ q \in Row /\ RowGood(q) /\ IsOpen(q)
         /\ q.step = c.step /\ q.events = r.events /\ q.offered = c.offered
         /\ q.question = c.question /\ q.reason = r.reason
  <1> DEFINE q == Navigated(r, c)
  <1>1. /\ q \in Row /\ IsOpen(q) /\ q.outcome = r.outcome
        /\ q.step = c.step /\ q.events = r.events /\ q.offered = c.offered
        /\ q.question = c.question /\ q.reason = r.reason
        /\ q.category = c.category /\ q.draft = c.draft /\ c.step \in OpenSteps
    BY ZenonT(30) DEF Row, ColumnSet, Navigated, IsOpen
  <1> HIDE DEF q
  <1>2. q.step # "FINISHED"
    BY <1>1 DEF OpenSteps
  <1>3. OutcomeOf(q)
    BY <1>1, <1>2 DEF RowGood, OutcomeOf, IsOpen
  <1>4. Complete(q)
    BY <1>1 DEF Complete
  <1>5. RowGood(q)
    BY <1>1, <1>3, <1>4 DEF RowGood
  <1> QED BY <1>1, <1>5 DEF q

\* A row with one more event that does not close it is good.
LEMMA RecordRow ==
  ASSUME NEW r \in Row, RowGood(r), NEW x \in EventSet, ClosingEvent(x) = "none",
         x.type = "SCHEDULE_OFFERED" => x.data \in Reasons
  PROVE  LET q == Recorded(r, x) IN
         /\ q \in Row /\ RowGood(q) /\ (IsOpen(q) <=> IsOpen(r))
         /\ q.step = r.step /\ q.events = Append(r.events, x) /\ q.offered = r.offered
         /\ q.question = r.question /\ q.reason = r.reason
  <1> DEFINE q == Recorded(r, x)
  <1>1. r.events \in Seq(EventSet)
    BY DEF Row
  <1>2. /\ q.events = Append(r.events, x) /\ q.outcome = r.outcome /\ q.step = r.step
        /\ q.reason = r.reason /\ q.offered = r.offered /\ q.question = r.question
        /\ q.category = r.category /\ q.draft = r.draft
        /\ (IsOpen(q) <=> IsOpen(r))
    BY DEF Row, IsOpen, Recorded
  <1>3. Append(r.events, x) \in Seq(EventSet)
    BY <1>1, AppendFacts
  <1>4. q \in Row
    BY <1>3 DEF Row, Recorded
  <1> HIDE DEF q
  <1>5. ClosingIn(q.events) = ClosingIn(r.events)
    BY <1>1, <1>2, ClosingAppend
  <1>6. /\ DOMAIN r.events \subseteq DOMAIN q.events
        /\ \A i \in DOMAIN r.events : q.events[i] = r.events[i]
        /\ \A i \in DOMAIN q.events : i \notin DOMAIN r.events => q.events[i] = x
    BY <1>1, <1>2, AppendFacts
  <1>7. OutcomeOf(q)
    BY <1>2, <1>5, <1>6 DEF RowGood, OutcomeOf
  <1>8. RowGood(q)
    BY <1>2, <1>6, <1>7 DEF RowGood, Complete
  <1> QED BY <1>2, <1>4, <1>8 DEF q

\* A row closed with one event that says how is good.
LEMMA ClosedGood ==
  ASSUME NEW r, RowGood(r), IsOpen(r), r.events \in Seq(EventSet), NEW x \in EventSet,
         NEW q \in Row, q.outcome \in Closings \cup {"ABANDONED"}, q.step = "FINISHED",
         (q.reason # "none") <=> (q.outcome = "SCHEDULED"),
         q.events = Append(r.events, x), ClosesAs(x, q.outcome)
  PROVE  RowGood(q) /\ ~IsOpen(q)
  <1>1. ~IsOpen(q)
    BY DEF IsOpen, Closings
  <1>2. /\ Len(r.events) \in Nat
        /\ DOMAIN r.events = 1 .. Len(r.events) /\ DOMAIN q.events = 1 .. Len(r.events) + 1
        /\ \A i \in DOMAIN r.events : q.events[i] = r.events[i]
        /\ q.events[Len(r.events) + 1] = x
    BY AppendFacts
  <1>3. ClosingIn(r.events) = {}
    BY DEF RowGood, OutcomeOf, IsOpen
  <1>4. ClosingIn(q.events) = IF ClosingEvent(x) = "none" THEN {} ELSE {Len(r.events) + 1}
    BY <1>3, ClosingAppend
  <1>5. CASE q.outcome = "OUT_OF_SCOPE"
    <2>1. x.type = "ANSWER_SENT" /\ ClosingEvent(x) = "none"
      BY <1>5 DEF ClosesAs, Plain, Event, ClosingEvent
    <2> QED BY <1>1, <1>2, <1>4, <1>5, <2>1 DEF OutcomeOf, RowGood
  <1>6. CASE q.outcome # "OUT_OF_SCOPE"
    <2>1. ClosingEvent(x) = q.outcome /\ q.outcome # "none"
      BY <1>6 DEF ClosesAs, Closings
    <2>2. Len(r.events) + 1 \in DOMAIN q.events /\ ClosingIn(q.events) = {Len(r.events) + 1}
      BY <1>2, <1>4, <2>1
    <2>3. OutcomeOf(q)
      BY <1>1, <1>2, <1>6, <2>1, <2>2 DEF OutcomeOf, IsOpen
    <2> QED BY <1>1, <1>2, <2>3 DEF RowGood, ClosesAs
  <1>7. \A i \in DOMAIN q.events :
           q.events[i].type = "SCHEDULE_OFFERED" => q.events[i].data \in Reasons
    BY <1>2 DEF RowGood, ClosesAs
  <1> QED BY <1>1, <1>5, <1>6

\* A conversation closed by the flow is good.
LEMMA CloseRow ==
  ASSUME NEW r \in Row, RowGood(r), IsOpen(r),
         NEW out \in Closings \ {"SCHEDULED"}, NEW x \in EventSet, ClosesAs(x, out)
  PROVE  LET q == Closed(r, out, x) IN
         /\ q \in Row /\ RowGood(q) /\ ~IsOpen(q) /\ q.reason = r.reason
         /\ q.reason = "none"
  <1> DEFINE q == Closed(r, out, x)
  <1>1. r.events \in Seq(EventSet) /\ Append(r.events, x) \in Seq(EventSet)
    BY AppendFacts DEF Row
  <1>2. /\ q \in Row /\ q.outcome = out /\ q.step = "FINISHED" /\ q.reason = r.reason
        /\ q.events = Append(r.events, x)
    BY <1>1 DEF Row, Closed
  <1>3. r.reason = "none"
    BY DEF RowGood, OutcomeOf, IsOpen
  <1> HIDE DEF q
  <1>4. RowGood(q) /\ ~IsOpen(q)
    BY <1>1, <1>2, <1>3, ClosedGood
  <1> QED BY <1>2, <1>3, <1>4 DEF q

\* A conversation closed by a booking is good.
LEMMA BookRow ==
  ASSUME NEW r \in Row, RowGood(r), IsOpen(r), NEW why \in Reasons
  PROVE  LET q == Booked(r, why) IN
         /\ q \in Row /\ RowGood(q) /\ ~IsOpen(q) /\ q.reason = why /\ q.offered = r.offered
  <1> DEFINE x == Plain("PHONE_NOTICE_SHOWN")
             y == Plain("APPOINTMENT_CREATED")
             p == Recorded(r, x)
             q == Booked(r, why)
  <1>1. /\ x \in EventSet /\ ClosingEvent(x) = "none" /\ x.type = "PHONE_NOTICE_SHOWN"
        /\ y \in EventSet /\ ClosingEvent(y) = "SCHEDULED" /\ y.type = "APPOINTMENT_CREATED"
    BY DEF EventSet, EventTypes, Plain, Event, ClosingEvent
  <1> HIDE DEF x, y
  <1>2. p \in Row /\ RowGood(p) /\ IsOpen(p) /\ p.offered = r.offered
    BY <1>1, RecordRow
  <1>3. q = [Closed(p, "SCHEDULED", y) EXCEPT !.reason = why]
    BY DEF Booked, x, y
  <1> HIDE DEF p, q
  <1>4. p.events \in Seq(EventSet) /\ Append(p.events, y) \in Seq(EventSet)
    BY <1>1, <1>2, AppendFacts DEF Row
  <1>5. /\ q \in Row /\ q.outcome = "SCHEDULED" /\ q.step = "FINISHED" /\ q.reason = why
        /\ q.events = Append(p.events, y) /\ q.offered = r.offered
    BY <1>2, <1>3, <1>4 DEF Row, Closed, Closings
  <1>6. why # "none" /\ ClosesAs(y, "SCHEDULED")
    BY <1>1 DEF Reasons, ClosesAs
  <1>7. RowGood(q) /\ ~IsOpen(q)
    BY <1>1, <1>2, <1>4, <1>5, <1>6, ClosedGood DEF Closings
  <1> QED BY <1>5, <1>7 DEF q

\* A conversation closed by the sweep is good.
LEMMA AbandonRow ==
  ASSUME NEW r \in Row, RowGood(r), IsOpen(r)
  PROVE  LET q == Abandoned(r) IN
         /\ q \in Row /\ RowGood(q) /\ ~IsOpen(q) /\ q.reason = "none"
  <1> DEFINE x == Event("ABANDONED", r.step)
             q == Abandoned(r)
  <1>1. r.step \in OpenSteps /\ r.reason = "none"
    BY DEF RowGood, OutcomeOf, IsOpen, Row
  <1>2. x \in EventSet /\ x.type = "ABANDONED" /\ ClosingEvent(x) = "ABANDONED"
    BY <1>1 DEF EventSet, EventTypes, Event, ClosingEvent
  <1>3. q = [r EXCEPT !.outcome = "ABANDONED", !.step = "FINISHED", !.draft = {},
                      !.events = Append(@, x)]
    BY DEF Abandoned
  <1> HIDE DEF x, q
  <1>4. r.events \in Seq(EventSet) /\ Append(r.events, x) \in Seq(EventSet)
    BY <1>2, AppendFacts DEF Row
  <1>5. /\ q \in Row /\ q.outcome = "ABANDONED" /\ q.step = "FINISHED" /\ q.reason = "none"
        /\ q.events = Append(r.events, x)
    BY <1>1, <1>3, <1>4 DEF Row
  <1>6. ClosesAs(x, "ABANDONED")
    BY <1>2 DEF ClosesAs
  <1>7. RowGood(q) /\ ~IsOpen(q)
    BY <1>2, <1>4, <1>5, <1>6, ClosedGood
  <1> QED BY <1>5, <1>7 DEF q

\* A new conversation is good and open.
LEMMA NewRowGood == NewRow \in Row /\ RowGood(NewRow) /\ IsOpen(NewRow)
  <1> DEFINE x == Plain("STARTED")
  <1>1. x \in EventSet /\ ClosingEvent(x) = "none" /\ x.type = "STARTED"
    BY DEF EventSet, EventTypes, Plain, Event, ClosingEvent
  <1>2. NewRow = [outcome |-> "IN_PROGRESS", step |-> "AWAITING_CATEGORY",
                  category |-> FALSE, question |-> "none", draft |-> {}, idle |-> FALSE,
                  events |-> <<x>>, offered |-> "none", reason |-> "none"]
    BY DEF NewRow
  <1> HIDE DEF x
  <1>3. <<x>> \in Seq(EventSet) /\ DOMAIN <<x>> = {1} /\ <<x>>[1] = x
    BY <1>1
  <1>4. NewRow \in Row
    BY <1>2, <1>3 DEF Row, OpenSteps
  <1>5. ClosingIn(<<x>>) = {}
    BY <1>1, <1>3 DEF ClosingIn
  <1>6. OutcomeOf(NewRow)
    BY <1>2, <1>5 DEF OutcomeOf, IsOpen
  <1>7. Complete(NewRow)
    BY <1>2 DEF Complete, OpenSteps
  <1> QED BY <1>1, <1>2, <1>3, <1>4, <1>6, <1>7 DEF RowGood, IsOpen

-----------------------------------------------------------------------------
(* The scripts fit the row they were made for, shape by shape              *)

\* What the constructors of the statements make.
LEMMA OpKinds ==
  /\ \A x \in EventSet : Record(x) \in Operations /\ Record(x).op = "record" /\ Record(x).event = x
  /\ \A c \in ColumnSet : Nav(c) \in Operations /\ Nav(c).op = "nav" /\ Nav(c).set = c
  /\ \A out \in Closings, x \in EventSet :
        /\ Finish(out, x) \in Operations /\ Finish(out, x).op = "finish"
        /\ Finish(out, x).outcome = out /\ Finish(out, x).event = x
  /\ \A step \in OpenSteps \cup {"FINISHED"} :
        Reply(step) \in Operations /\ Reply(step).op = "reply" /\ Reply(step).step = step
  /\ Touch \in Operations /\ Touch.op = "touch"
  /\ Book \in Operations /\ Book.op = "book"
  BY DEF Operations, Record, Nav, Finish, Reply, Touch, Book

\* An answer at the step of the row.
LEMMA ReplyFits ==
  ASSUME NEW step \in OpenSteps \cup {"FINISHED"}, NEW r,
         NEW sound \in BOOLEAN, NEW l \in Nat, NEW e \in Nat,
         IsOpen(r) /\ sound => step = r.step,
         IsOpen(r) /\ sound /\ l = 0 => Last(r.events).type = EventBefore(step)
  PROVE  /\ <<Reply(step)>> \in Seq(Operations) /\ <<Reply(step)>> # <<>>
         /\ Fits(<<Reply(step)>>, r, sound, l, e)
  <1> DEFINE sc == <<Reply(step)>>
  <1>1. /\ sc \in Seq(Operations) /\ sc # <<>> /\ Len(sc) = 1 /\ DOMAIN sc = {1}
        /\ sc[1].op = "reply" /\ sc[1].step = step
    BY OpKinds
  <1> HIDE DEF sc
  <1>2. WellFormed(sc) /\ Goal(sc) = step
    BY <1>1 DEF WellFormed, Goal
  <1>3. LeadsThere(sc, r, sound)
    BY <1>1, <1>2 DEF LeadsThere
  <1>4. LeavesTrail(sc, r, sound /\ l = 0)
    BY <1>1, <1>2 DEF LeavesTrail
  <1>5. KeepsReason(sc, r, l, e)
    BY <1>1 DEF KeepsReason, Chooses, Offers
  <1> QED BY <1>1, <1>2, <1>3, <1>4, <1>5 DEF Fits, sc

\* The script that asks the next question fits the row.
LEMMA AskFits ==
  ASSUME NEW c \in ColumnSet, NEW r,
         NEW sound \in BOOLEAN, NEW l \in Nat, NEW e \in Nat,
         IsOpen(r) => Complete(c) /\ Agrees(r.events, c, l, e),
         IsOpen(r) /\ sound /\ l = 0 => Last(r.events).type = EventBefore(c.step)
  PROVE  /\ <<Nav(c), Reply(c.step)>> \in Seq(Operations) /\ <<Nav(c), Reply(c.step)>> # <<>>
         /\ Fits(<<Nav(c), Reply(c.step)>>, r, sound, l, e)
  <1> DEFINE sc == <<Nav(c), Reply(c.step)>>
  <1>0. c.step \in OpenSteps
    BY DEF ColumnSet
  <1>1. /\ sc \in Seq(Operations) /\ sc # <<>> /\ Len(sc) = 2 /\ DOMAIN sc = {1, 2}
        /\ sc[1].op = "nav" /\ sc[1].set = c
        /\ sc[2].op = "reply" /\ sc[2].step = c.step
    BY <1>0, OpKinds
  <1> HIDE DEF sc
  <1>2. WellFormed(sc) /\ Goal(sc) = c.step
    BY <1>1 DEF WellFormed, Goal
  <1>3. LeadsThere(sc, r, sound)
    BY <1>1, <1>2 DEF LeadsThere
  <1>4. LeavesTrail(sc, r, sound /\ l = 0)
    BY <1>1, <1>2 DEF LeavesTrail
  <1>5. KeepsReason(sc, r, l, e)
    BY <1>1 DEF KeepsReason, Chooses, Offers
  <1> QED BY <1>1, <1>2, <1>3, <1>4, <1>5 DEF Fits, sc

\* The script that closes a conversation fits the row.
LEMMA CloseFits ==
  ASSUME NEW out \in Closings \ {"SCHEDULED"}, NEW x \in EventSet, ClosesAs(x, out), NEW r,
         NEW sound \in BOOLEAN, NEW l \in Nat, NEW e \in Nat
  PROVE  /\ CloseWith(out, x) \in Seq(Operations) /\ CloseWith(out, x) # <<>>
         /\ Fits(CloseWith(out, x), r, sound, l, e)
  <1> DEFINE sc == CloseWith(out, x)
  <1>1. /\ sc \in Seq(Operations) /\ sc # <<>> /\ Len(sc) = 2 /\ DOMAIN sc = {1, 2}
        /\ sc[1].op = "finish" /\ sc[1].outcome = out /\ sc[1].event = x
        /\ sc[2].op = "reply" /\ sc[2].step = "FINISHED"
    BY OpKinds DEF CloseWith
  <1> HIDE DEF sc
  <1>2. WellFormed(sc)
    BY <1>1 DEF WellFormed, ClosesAs
  <1>3. LeadsThere(sc, r, sound)
    BY <1>1 DEF LeadsThere
  <1>4. LeavesTrail(sc, r, sound /\ l = 0)
    BY <1>1 DEF LeavesTrail
  <1>5. KeepsReason(sc, r, l, e)
    BY <1>1 DEF KeepsReason, Chooses, Offers
  <1> QED BY <1>1, <1>2, <1>3, <1>4, <1>5 DEF Fits, sc

\* The script that books fits the row.
LEMMA BookFits ==
  ASSUME NEW r, NEW sound \in BOOLEAN, NEW l \in Nat, NEW e \in Nat,
         IsOpen(r) => r.step = "AWAITING_SLOT",
         IsOpen(r) /\ sound /\ l = 0 => Last(r.events).type = EventBefore("AWAITING_SLOT")
  PROVE  <<Book>> \in Seq(Operations) /\ <<Book>> # <<>> /\ Fits(<<Book>>, r, sound, l, e)
  <1> DEFINE sc == <<Book>>
  <1>1. /\ sc \in Seq(Operations) /\ sc # <<>> /\ Len(sc) = 1 /\ DOMAIN sc = {1}
        /\ sc[1].op = "book"
    BY OpKinds
  <1> HIDE DEF sc
  <1>2. WellFormed(sc) /\ Goal(sc) = "AWAITING_SLOT"
    BY <1>1 DEF WellFormed, Goal
  <1>3. LeadsThere(sc, r, sound)
    BY <1>1, <1>2 DEF LeadsThere
  <1>4. LeavesTrail(sc, r, sound /\ l = 0)
    BY <1>1, <1>2 DEF LeavesTrail
  <1>5. KeepsReason(sc, r, l, e)
    BY <1>1 DEF KeepsReason, Chooses, Offers
  <1> QED BY <1>1, <1>2, <1>3, <1>4, <1>5 DEF Fits, sc

\* An event that is neither a choice nor an offer, and the row that follows.
LEMMA TellAskFits ==
  ASSUME NEW x \in EventSet, ClosingEvent(x) = "none",
         x.type \notin {"QUESTION_CHOSEN", "SCHEDULE_OFFERED"},
         NEW c \in ColumnSet, x.type = EventBefore(c.step), NEW r, NEW sound \in BOOLEAN, NEW l \in Nat, NEW e \in Nat,
         IsOpen(r) => Complete(c) /\ Agrees(r.events, c, l, e)
  PROVE  LET sc == <<Record(x), Nav(c), Reply(c.step)>> IN
         sc \in Seq(Operations) /\ sc # <<>> /\ Fits(sc, r, sound, l, e)
  <1> DEFINE sc == <<Record(x), Nav(c), Reply(c.step)>>
  <1>0. c.step \in OpenSteps
    BY DEF ColumnSet
  <1>1. /\ sc \in Seq(Operations) /\ sc # <<>> /\ Len(sc) = 3 /\ DOMAIN sc = {1, 2, 3}
        /\ sc[1].op = "record" /\ sc[1].event = x
        /\ sc[2].op = "nav" /\ sc[2].set = c
        /\ sc[3].op = "reply" /\ sc[3].step = c.step
    BY <1>0, OpKinds
  <1> HIDE DEF sc
  <1>2. WellFormed(sc) /\ Goal(sc) = c.step
    BY <1>0, <1>1 DEF WellFormed, ClosesAs, Goal
  <1>3. LeadsThere(sc, r, sound)
    BY <1>1, <1>2 DEF LeadsThere
  <1>4. LeavesTrail(sc, r, sound /\ l = 0)
    BY <1>0, <1>1, <1>2 DEF LeavesTrail
  <1>5. KeepsReason(sc, r, l, e)
    BY <1>0, <1>1 DEF KeepsReason, Chooses, Offers
  <1> QED BY <1>1, <1>2, <1>3, <1>4, <1>5 DEF Fits, sc

\* The script that asks and tells of it fits the row.
LEMMA AskTellFits ==
  ASSUME NEW x \in EventSet, ClosingEvent(x) = "none",
         x.type \notin {"QUESTION_CHOSEN", "SCHEDULE_OFFERED"},
         NEW c \in ColumnSet, x.type = EventBefore(c.step), NEW r, NEW sound \in BOOLEAN, NEW l \in Nat, NEW e \in Nat,
         IsOpen(r) => Complete(c) /\ Agrees(r.events, c, l, e)
  PROVE  LET sc == <<Nav(c), Record(x), Reply(c.step)>> IN
         sc \in Seq(Operations) /\ sc # <<>> /\ Fits(sc, r, sound, l, e)
  <1> DEFINE sc == <<Nav(c), Record(x), Reply(c.step)>>
  <1>0. c.step \in OpenSteps
    BY DEF ColumnSet
  <1>1. /\ sc \in Seq(Operations) /\ sc # <<>> /\ Len(sc) = 3 /\ DOMAIN sc = {1, 2, 3}
        /\ sc[1].op = "nav" /\ sc[1].set = c
        /\ sc[2].op = "record" /\ sc[2].event = x
        /\ sc[3].op = "reply" /\ sc[3].step = c.step
    BY <1>0, OpKinds
  <1> HIDE DEF sc
  <1>2. WellFormed(sc) /\ Goal(sc) = c.step
    BY <1>0, <1>1 DEF WellFormed, ClosesAs, Goal
  <1>3. LeadsThere(sc, r, sound)
    BY <1>1, <1>2 DEF LeadsThere
  <1>4. LeavesTrail(sc, r, sound /\ l = 0)
    BY <1>0, <1>1, <1>2 DEF LeavesTrail
  <1>5. KeepsReason(sc, r, l, e)
    BY <1>0, <1>1 DEF KeepsReason, Chooses, Offers
  <1> QED BY <1>1, <1>2, <1>3, <1>4, <1>5 DEF Fits, sc

\* A question outside the competence.
LEMMA ForeignFits ==
  ASSUME NEW r, NEW sound \in BOOLEAN, NEW l \in Nat, NEW e \in Nat, IsOpen(r) => r.step = "AWAITING_QUESTION"
  PROVE  LET sc == <<Record(Plain("QUESTION_CHOSEN")), Finish("OUT_OF_SCOPE", Plain("ANSWER_SENT")),
                     Reply("FINISHED")>> IN
         sc \in Seq(Operations) /\ sc # <<>> /\ Fits(sc, r, sound, l, e)
  <1> DEFINE sc == <<Record(Plain("QUESTION_CHOSEN")), Finish("OUT_OF_SCOPE", Plain("ANSWER_SENT")),
                     Reply("FINISHED")>>
             x == Plain("QUESTION_CHOSEN")
             y == Plain("ANSWER_SENT")
  <1>0. /\ x \in EventSet /\ x.type = "QUESTION_CHOSEN" /\ x.data = "none" /\ ClosingEvent(x) = "none"
        /\ y \in EventSet /\ y.type = "ANSWER_SENT" /\ y.data = "none" /\ ClosingEvent(y) = "none"
        /\ y = Plain("ANSWER_SENT") /\ "OUT_OF_SCOPE" \in Closings
    BY DEF EventSet, EventTypes, Reasons, Plain, Event, ClosingEvent, Closings
  <1> HIDE DEF x, y
  <1>1. /\ sc \in Seq(Operations) /\ sc # <<>> /\ Len(sc) = 3 /\ DOMAIN sc = {1, 2, 3}
        /\ sc[1].op = "record" /\ sc[1].event = x
        /\ sc[2].op = "finish" /\ sc[2].outcome = "OUT_OF_SCOPE" /\ sc[2].event = y
        /\ sc[3].op = "reply" /\ sc[3].step = "FINISHED"
    BY <1>0, OpKinds DEF x, y
  <1> HIDE DEF sc
  <1>2. WellFormed(sc)
    BY <1>0, <1>1 DEF WellFormed, ClosesAs
  <1>3. LeadsThere(sc, r, sound)
    BY <1>1, <1>2 DEF LeadsThere
  <1>4. LeavesTrail(sc, r, sound /\ l = 0)
    BY <1>0, <1>1, <1>2 DEF LeavesTrail
  <1>5. KeepsReason(sc, r, l, e)
    BY <1>0, <1>1 DEF KeepsReason, Chooses, Offers
  <1> QED BY <1>1, <1>2, <1>3, <1>4, <1>5 DEF Fits, sc

\* A question that needs an appointment.
LEMMA VisitFits ==
  ASSUME NEW c \in ColumnSet, c.step = "AWAITING_SCHEDULE_OFFER", c.offered = "REQUIRES_IN_PERSON",
         NEW r, NEW sound \in BOOLEAN, NEW l \in Nat, NEW e \in Nat,
         IsOpen(r) => r.step = "AWAITING_QUESTION" /\ Complete(c),
         e = 0 => FirstReason(c.question) = c.offered
  PROVE  LET sc == <<Record(Plain("QUESTION_CHOSEN")), Record(Plain("ANSWER_SENT")),
                     Record(Event("SCHEDULE_OFFERED", "REQUIRES_IN_PERSON")), Nav(c), Reply(c.step)>> IN
         sc \in Seq(Operations) /\ sc # <<>> /\ Fits(sc, r, sound, l, e)
  <1> DEFINE sc == <<Record(Plain("QUESTION_CHOSEN")), Record(Plain("ANSWER_SENT")),
                     Record(Event("SCHEDULE_OFFERED", "REQUIRES_IN_PERSON")), Nav(c), Reply(c.step)>>
             x == Plain("QUESTION_CHOSEN")
             y == Plain("ANSWER_SENT")
             z == Event("SCHEDULE_OFFERED", "REQUIRES_IN_PERSON")
  <1>0. /\ x \in EventSet /\ x.type = "QUESTION_CHOSEN" /\ x.data = "none" /\ ClosingEvent(x) = "none"
        /\ y \in EventSet /\ y.type = "ANSWER_SENT" /\ y.data = "none" /\ ClosingEvent(y) = "none"
        /\ z \in EventSet /\ z.type = "SCHEDULE_OFFERED" /\ z.data = "REQUIRES_IN_PERSON" /\ ClosingEvent(z) = "none"
        /\ z.data \in Reasons /\ c.step \in OpenSteps /\ c.step \in LateSteps
        /\ EventBefore(c.step) = "SCHEDULE_OFFERED"
    BY DEF EventSet, EventTypes, Reasons, Plain, Event, ClosingEvent, ColumnSet, LateSteps, EventBefore
  <1> HIDE DEF x, y, z
  <1>1. /\ sc \in Seq(Operations) /\ sc # <<>> /\ Len(sc) = 5 /\ DOMAIN sc = {1, 2, 3, 4, 5}
        /\ sc[1].op = "record" /\ sc[1].event = x
        /\ sc[2].op = "record" /\ sc[2].event = y
        /\ sc[3].op = "record" /\ sc[3].event = z
        /\ sc[4].op = "nav" /\ sc[4].set = c
        /\ sc[5].op = "reply" /\ sc[5].step = c.step
    BY <1>0, OpKinds DEF x, y, z
  <1> HIDE DEF sc
  <1>2. WellFormed(sc) /\ Goal(sc) = c.step
    BY <1>0, <1>1 DEF WellFormed, ClosesAs, Goal
  <1>3. LeadsThere(sc, r, sound)
    BY <1>1, <1>2 DEF LeadsThere
  <1>4. LeavesTrail(sc, r, sound /\ l = 0)
    BY <1>0, <1>1, <1>2 DEF LeavesTrail
  <1>5. KeepsReason(sc, r, l, e)
    <2>1. \A i \in DOMAIN sc : /\ Chooses(sc[i]) <=> i = 1
                               /\ Offers(sc[i]) <=> i = 3
                               /\ sc[i].op = "nav" <=> i = 4
      BY <1>0, <1>1 DEF Chooses, Offers
    <2> QED BY <1>0, <1>1, <2>1 DEF KeepsReason
  <1> QED BY <1>1, <1>2, <1>3, <1>4, <1>5 DEF Fits, sc

\* A question that is answered by text.
LEMMA PlainFits ==
  ASSUME NEW c \in ColumnSet, c.step = "AWAITING_RESOLVED", NEW r, NEW sound \in BOOLEAN, NEW l \in Nat, NEW e \in Nat,
         IsOpen(r) => r.step = "AWAITING_QUESTION" /\ Complete(c),
         e = 0 => FirstReason(c.question) = "NOT_RESOLVED"
  PROVE  LET sc == <<Record(Plain("QUESTION_CHOSEN")), Record(Plain("ANSWER_SENT")), Nav(c), Reply(c.step)>> IN
         sc \in Seq(Operations) /\ sc # <<>> /\ Fits(sc, r, sound, l, e)
  <1> DEFINE sc == <<Record(Plain("QUESTION_CHOSEN")), Record(Plain("ANSWER_SENT")), Nav(c), Reply(c.step)>>
             x == Plain("QUESTION_CHOSEN")
             y == Plain("ANSWER_SENT")
  <1>0. /\ x \in EventSet /\ x.type = "QUESTION_CHOSEN" /\ x.data = "none" /\ ClosingEvent(x) = "none"
        /\ y \in EventSet /\ y.type = "ANSWER_SENT" /\ y.data = "none" /\ ClosingEvent(y) = "none"
        /\ c.step \in OpenSteps /\ c.step \notin LateSteps
        /\ EventBefore(c.step) = "ANSWER_SENT"
    BY DEF EventSet, EventTypes, Reasons, Plain, Event, ClosingEvent, ColumnSet, LateSteps, EventBefore
  <1> HIDE DEF x, y
  <1>1. /\ sc \in Seq(Operations) /\ sc # <<>> /\ Len(sc) = 4 /\ DOMAIN sc = {1, 2, 3, 4}
        /\ sc[1].op = "record" /\ sc[1].event = x
        /\ sc[2].op = "record" /\ sc[2].event = y
        /\ sc[3].op = "nav" /\ sc[3].set = c
        /\ sc[4].op = "reply" /\ sc[4].step = c.step
    BY <1>0, OpKinds DEF x, y
  <1> HIDE DEF sc
  <1>2. WellFormed(sc) /\ Goal(sc) = c.step
    BY <1>0, <1>1 DEF WellFormed, ClosesAs, Goal
  <1>3. LeadsThere(sc, r, sound)
    BY <1>1, <1>2 DEF LeadsThere
  <1>4. LeavesTrail(sc, r, sound /\ l = 0)
    BY <1>0, <1>1, <1>2 DEF LeavesTrail
  <1>5. KeepsReason(sc, r, l, e)
    <2>1. \A i \in DOMAIN sc : /\ Chooses(sc[i]) <=> i = 1
                               /\ Offers(sc[i]) <=> FALSE
                               /\ sc[i].op = "nav" <=> i = 3
      BY <1>0, <1>1 DEF Chooses, Offers
    <2> QED BY <1>0, <1>1, <2>1 DEF KeepsReason
  <1> QED BY <1>1, <1>2, <1>3, <1>4, <1>5 DEF Fits, sc

\* An answer that did not help.
LEMMA UnresolvedFits ==
  ASSUME NEW c \in ColumnSet, c.step = "AWAITING_SCHEDULE_OFFER", c.offered = "NOT_RESOLVED",
         NEW r, NEW sound \in BOOLEAN, NEW l \in Nat, NEW e \in Nat,
         IsOpen(r) => /\ r.step = "AWAITING_RESOLVED" /\ Complete(c)
                      /\ l = 0 => OfferedReason(r.events) \in {"none", "NOT_RESOLVED"}
                      /\ e = 0 => FirstReason(c.question) = c.offered
  PROVE  LET sc == <<Record(Event("RESOLVED_ANSWERED", "no")), Record(Event("SCHEDULE_OFFERED", "NOT_RESOLVED")),
                     Nav(c), Reply(c.step)>> IN
         sc \in Seq(Operations) /\ sc # <<>> /\ Fits(sc, r, sound, l, e)
  <1> DEFINE sc == <<Record(Event("RESOLVED_ANSWERED", "no")), Record(Event("SCHEDULE_OFFERED", "NOT_RESOLVED")),
                     Nav(c), Reply(c.step)>>
             x == Event("RESOLVED_ANSWERED", "no")
             y == Event("SCHEDULE_OFFERED", "NOT_RESOLVED")
  <1>0. /\ x \in EventSet /\ x.type = "RESOLVED_ANSWERED" /\ x.data = "no" /\ ClosingEvent(x) = "none"
        /\ y \in EventSet /\ y.type = "SCHEDULE_OFFERED" /\ y.data = "NOT_RESOLVED" /\ ClosingEvent(y) = "none"
        /\ y.data \in Reasons /\ c.step \in OpenSteps /\ c.step \in LateSteps
        /\ EventBefore(c.step) = "SCHEDULE_OFFERED"
    BY DEF EventSet, EventTypes, Reasons, Plain, Event, ClosingEvent, ColumnSet, LateSteps, EventBefore
  <1> HIDE DEF x, y
  <1>1. /\ sc \in Seq(Operations) /\ sc # <<>> /\ Len(sc) = 4 /\ DOMAIN sc = {1, 2, 3, 4}
        /\ sc[1].op = "record" /\ sc[1].event = x
        /\ sc[2].op = "record" /\ sc[2].event = y
        /\ sc[3].op = "nav" /\ sc[3].set = c
        /\ sc[4].op = "reply" /\ sc[4].step = c.step
    BY <1>0, OpKinds DEF x, y
  <1> HIDE DEF sc
  <1>2. WellFormed(sc) /\ Goal(sc) = c.step
    BY <1>0, <1>1 DEF WellFormed, ClosesAs, Goal
  <1>3. LeadsThere(sc, r, sound)
    BY <1>1, <1>2 DEF LeadsThere
  <1>4. LeavesTrail(sc, r, sound /\ l = 0)
    BY <1>0, <1>1, <1>2 DEF LeavesTrail
  <1>5. KeepsReason(sc, r, l, e)
    <2>1. \A i \in DOMAIN sc : /\ Chooses(sc[i]) <=> FALSE
                               /\ Offers(sc[i]) <=> i = 2
                               /\ sc[i].op = "nav" <=> i = 3
      BY <1>0, <1>1 DEF Chooses, Offers
    <2> QED BY <1>0, <1>1, <2>1 DEF KeepsReason
  <1> QED BY <1>1, <1>2, <1>3, <1>4, <1>5 DEF Fits, sc

\* The columns a step writes, and what it leaves as it was.
LEMMA ColumnFacts ==
  ASSUME NEW r \in Row, NEW step \in OpenSteps, NEW d \in SUBSET DraftKeys
  PROVE  /\ Columns(r, step) \in ColumnSet /\ KeepQuestion(r, step, d) \in ColumnSet
         /\ Columns(r, step).step = step /\ KeepQuestion(r, step, d).step = step
         /\ Columns(r, step).category = r.category
         /\ Columns(r, step).question = r.question /\ KeepQuestion(r, step, d).question = r.question
         /\ Columns(r, step).draft = r.draft /\ KeepQuestion(r, step, d).draft = d
         /\ Columns(r, step).offered = r.offered /\ KeepQuestion(r, step, d).offered = r.offered
  BY DEF Columns, KeepQuestion, ColumnSet, Row

\* A step further with the same question: the reason of the offer is the same.
LEMMA AgreesFurther ==
  ASSUME NEW r, NEW c, NEW l \in Nat, NEW e \in Nat, NEW step \in LateSteps,
         r.step \in LateSteps, Agrees(r.events, r, l, e),
         c.step = step, c.question = r.question, c.offered = r.offered
  PROVE  Agrees(r.events, c, l, e)
  <1>1. c.step # "AWAITING_RESOLVED"
    BY DEF LateSteps
  <1> QED BY <1>1 DEF Agrees

\* Every script of every step fits the row it is made for.
LEMMA ScriptsFit ==
  ASSUME TypeOK, edits = 0 => kind = Kinds,
         NEW r \in Row, RowGood(r), IsOpen(r), Agrees(r.events, r, lost, edits),
         ~broken /\ lost = 0 => Last(r.events).type = EventBefore(r.step),
         NEW sc \in Scripts(r)
  PROVE  sc \in Seq(Operations) /\ sc # <<>> /\ Fits(sc, r, ~broken, lost, edits)
  <1> DEFINE sound == ~broken
             Good(t) == t \in Seq(Operations) /\ t # <<>> /\ Fits(t, r, sound, lost, edits)
  <1>1. /\ r.step \in OpenSteps /\ Complete(r) /\ r.question \in Question \cup {"none"}
        /\ r.draft \subseteq DraftKeys /\ r.events \in Seq(EventSet)
        /\ lost \in Nat /\ edits \in Nat /\ sound \in BOOLEAN
    BY DEF RowGood, OutcomeOf, Row, TypeOK
  <1>2. sound /\ lost = 0 => Last(r.events).type = EventBefore(r.step)
    OBVIOUS
  <1> HIDE DEF sound
  <1>3. Good(<<Reply(r.step)>>)
    BY <1>1, <1>2, ReplyFits
  <1>4. ASSUME r.step = "AWAITING_CATEGORY", NEW t \in CategoryScripts(r) PROVE Good(t)
    <2> DEFINE onPage == [Columns(r, "AWAITING_CATEGORY") EXCEPT !.category = FALSE]
               chosen == [Columns(r, "AWAITING_QUESTION") EXCEPT !.category = TRUE]
               x == Plain("CATEGORY_CHOSEN")
    <2>1. /\ onPage \in ColumnSet /\ onPage.step = "AWAITING_CATEGORY"
          /\ chosen \in ColumnSet /\ chosen.step = "AWAITING_QUESTION" /\ chosen.category
      BY DEF Columns, ColumnSet, Row, OpenSteps
    <2>2. /\ x \in EventSet /\ x.type = "CATEGORY_CHOSEN" /\ ClosingEvent(x) = "none"
          /\ EventBefore("AWAITING_QUESTION") = x.type
      BY DEF EventSet, EventTypes, Plain, Event, ClosingEvent, EventBefore
    <2>3. \/ t = <<Nav(onPage), Reply("AWAITING_CATEGORY")>>
          \/ t = <<Nav(chosen), Record(x), Reply("AWAITING_QUESTION")>>
      BY <1>4 DEF CategoryScripts
    <2> HIDE DEF onPage, chosen, x
    <2>4. \A c : c.step \in {"AWAITING_CATEGORY", "AWAITING_QUESTION"} =>
             Agrees(r.events, c, lost, edits)
      BY DEF Agrees, LateSteps
    <2>5. Complete(onPage) /\ Complete(chosen)
      BY <2>1 DEF Complete
    <2>6. Good(<<Nav(onPage), Reply(onPage.step)>>)
      BY <1>1, <1>2, <1>4, <2>1, <2>4, <2>5, AskFits
    <2>7. Good(<<Nav(chosen), Record(x), Reply(chosen.step)>>)
      BY <1>1, <2>1, <2>2, <2>4, <2>5, AskTellFits
    <2> QED BY <2>1, <2>3, <2>6, <2>7
  <1>5. ASSUME r.step = "AWAITING_QUESTION", NEW t \in QuestionScripts(r) PROVE Good(t)
    <2>1. r.category
      BY <1>1, <1>5 DEF Complete
    <2>2. t = Ask(r, "AWAITING_QUESTION") \/ \E q \in Question : t = SelectedQuestion(r, q)
      BY <1>5, <2>1 DEF QuestionScripts
    <2>3. ASSUME t = Ask(r, "AWAITING_QUESTION") PROVE Good(t)
      <3> DEFINE c == Columns(r, "AWAITING_QUESTION")
      <3>1. c \in ColumnSet /\ c.step = "AWAITING_QUESTION" /\ c.category
        BY <1>1, <2>1, ColumnFacts, ZenonT(30) DEF OpenSteps
      <3>2. t = <<Nav(c), Reply("AWAITING_QUESTION")>>
        BY <2>3 DEF Ask
      <3> HIDE DEF c
      <3>3. Complete(c) /\ Agrees(r.events, c, lost, edits)
        BY <3>1 DEF Complete, Agrees, LateSteps
      <3>4. Good(<<Nav(c), Reply(c.step)>>)
        BY <1>1, <1>2, <1>5, <3>1, <3>3, AskFits
      <3> QED BY <3>1, <3>2, <3>4
    <2>4. ASSUME NEW q \in Question, t = SelectedQuestion(r, q) PROVE Good(t)
      <3>1. kind[q] \in KindSet /\ (edits = 0 => FirstReason(q) = IF kind[q] = "inPerson"
               THEN "REQUIRES_IN_PERSON" ELSE "NOT_RESOLVED") /\ q # "none"
        BY FlowAssumption DEF TypeOK, FirstReason
      <3>2. CASE kind[q] = "outOfScope"
        <4>1. t = <<Record(Plain("QUESTION_CHOSEN")), Finish("OUT_OF_SCOPE", Plain("ANSWER_SENT")),
                    Reply("FINISHED")>>
          BY <2>4, <3>2 DEF SelectedQuestion
        <4> QED BY <1>1, <1>5, <4>1, ForeignFits
      <3>3. CASE kind[q] = "inPerson"
        <4> DEFINE c == [Columns(r, "AWAITING_SCHEDULE_OFFER") EXCEPT !.category = TRUE,
                            !.question = q, !.offered = "REQUIRES_IN_PERSON"]
        <4>1. t = <<Record(Plain("QUESTION_CHOSEN")), Record(Plain("ANSWER_SENT")),
                    Record(Event("SCHEDULE_OFFERED", "REQUIRES_IN_PERSON")), Nav(c),
                    Reply("AWAITING_SCHEDULE_OFFER")>>
          BY <2>4, <3>3 DEF SelectedQuestion
        <4>2. /\ c \in ColumnSet /\ c.step = "AWAITING_SCHEDULE_OFFER" /\ c.question = q
              /\ c.offered = "REQUIRES_IN_PERSON"
          BY DEF Columns, ColumnSet, Row, OpenSteps, Reasons
        <4> HIDE DEF c
        <4>3. Complete(c)
          BY <3>1, <4>2 DEF Complete
        <4>4. edits = 0 => FirstReason(c.question) = c.offered
          BY <3>1, <3>3, <4>2
        <4> QED BY <1>1, <1>5, <4>1, <4>2, <4>3, <4>4, VisitFits
      <3>4. CASE kind[q] = "standard"
        <4> DEFINE c == [Columns(r, "AWAITING_RESOLVED") EXCEPT !.category = TRUE,
                            !.question = q, !.offered = "none"]
        <4>1. t = <<Record(Plain("QUESTION_CHOSEN")), Record(Plain("ANSWER_SENT")), Nav(c),
                    Reply("AWAITING_RESOLVED")>>
          BY <2>4, <3>4 DEF SelectedQuestion
        <4>2. c \in ColumnSet /\ c.step = "AWAITING_RESOLVED" /\ c.question = q
          BY DEF Columns, ColumnSet, Row, OpenSteps
        <4> HIDE DEF c
        <4>3. Complete(c)
          BY <3>1, <4>2 DEF Complete
        <4>4. edits = 0 => FirstReason(c.question) = "NOT_RESOLVED"
          BY <3>1, <3>4, <4>2
        <4> QED BY <1>1, <1>5, <4>1, <4>2, <4>3, <4>4, PlainFits
      <3> QED BY <3>1, <3>2, <3>3, <3>4 DEF KindSet
    <2> QED BY <2>2, <2>3, <2>4
  <1>6. ASSUME NEW out \in Closings \ {"SCHEDULED"}, NEW x \in EventSet, ClosesAs(x, out)
        PROVE  Good(CloseWith(out, x))
    BY <1>1, <1>6, CloseFits
  <1>7. Good(NoSlotReply)
    <2> DEFINE x == Plain("NO_SLOT")
    <2>1. x \in EventSet /\ ClosesAs(x, "NO_SLOT")
      BY DEF EventSet, EventTypes, Plain, Event, ClosingEvent, ClosesAs
    <2>2. NoSlotReply = CloseWith("NO_SLOT", x)
      BY DEF NoSlotReply
    <2> HIDE DEF x
    <2>3. "NO_SLOT" \in Closings \ {"SCHEDULED"}
      BY DEF Closings
    <2> QED BY <1>6, <2>1, <2>2, <2>3
  <1>8. ASSUME r.step = "AWAITING_RESOLVED", NEW t \in ResolvedScripts(r) PROVE Good(t)
    <2> DEFINE x == Event("RESOLVED_ANSWERED", "yes")
               k == KeepQuestion(r, "AWAITING_SCHEDULE_OFFER", r.draft)
               c == [k EXCEPT !.offered = "NOT_RESOLVED"]
    <2>1. x \in EventSet /\ ClosesAs(x, "RESOLVED") /\ "RESOLVED" \in Closings \ {"SCHEDULED"}
      BY DEF EventSet, EventTypes, Event, ClosingEvent, ClosesAs, Closings
    <2>2. \/ t = CloseWith("RESOLVED", x)
          \/ t = <<Record(Event("RESOLVED_ANSWERED", "no")), Record(Event("SCHEDULE_OFFERED", "NOT_RESOLVED")),
                   Nav(c), Reply("AWAITING_SCHEDULE_OFFER")>>
      BY <1>8 DEF ResolvedScripts
    <2> HIDE DEF x
    <2>3. k \in ColumnSet /\ k.step = "AWAITING_SCHEDULE_OFFER" /\ k.question = r.question
      BY <1>1, ColumnFacts DEF OpenSteps
    <2> HIDE DEF k
    <2>4. /\ c \in ColumnSet /\ c.step = "AWAITING_SCHEDULE_OFFER" /\ c.offered = "NOT_RESOLVED"
          /\ c.question = r.question
      BY <2>3 DEF ColumnSet, Reasons
    <2> HIDE DEF c
    <2>5. Complete(c)
      BY <1>1, <1>8, <2>4 DEF Complete, OpenSteps
    <2>6. /\ lost = 0 => OfferedReason(r.events) \in {"none", "NOT_RESOLVED"}
          /\ edits = 0 => FirstReason(c.question) = c.offered
      BY <1>8, <2>4 DEF Agrees
    <2>7. Good(CloseWith("RESOLVED", x))
      BY <1>6, <2>1
    <2>8. Good(<<Record(Event("RESOLVED_ANSWERED", "no")), Record(Event("SCHEDULE_OFFERED", "NOT_RESOLVED")),
                 Nav(c), Reply(c.step)>>)
      <3>1. IsOpen(r) => /\ r.step = "AWAITING_RESOLVED" /\ Complete(c)
                         /\ lost = 0 => OfferedReason(r.events) \in {"none", "NOT_RESOLVED"}
                         /\ edits = 0 => FirstReason(c.question) = c.offered
        BY <1>8, <2>5, <2>6
      <3> QED BY <1>1, <2>4, <3>1, UnresolvedFits
    <2> QED BY <2>2, <2>4, <2>7, <2>8
  <1>9. ASSUME r.step \in LateSteps, NEW c \in ColumnSet, c.step \in LateSteps, Complete(c),
               c.question = r.question, c.offered = r.offered
        PROVE  /\ Agrees(r.events, c, lost, edits)
               /\ EventBefore(c.step) = EventBefore(r.step) => Good(<<Nav(c), Reply(c.step)>>)
    <2>1. Agrees(r.events, c, lost, edits)
      BY <1>1, <1>9, AgreesFurther
    <2> QED BY <1>1, <1>2, <1>9, <2>1, AskFits
  <1>10. ASSUME r.step = "AWAITING_SCHEDULE_OFFER", NEW t \in OfferScripts(r) PROVE Good(t)
    <2> DEFINE x == Plain("SCHEDULE_DECLINED")
               c == KeepQuestion(r, "AWAITING_ATTENDEE", r.draft)
    <2>1. x \in EventSet /\ ClosesAs(x, "DECLINED") /\ "DECLINED" \in Closings \ {"SCHEDULED"}
      BY DEF EventSet, EventTypes, Plain, Event, ClosingEvent, ClosesAs, Closings
    <2>2. t = CloseWith("DECLINED", x) \/ t = <<Nav(c), Reply("AWAITING_ATTENDEE")>>
      BY <1>10 DEF OfferScripts
    <2>3. /\ c \in ColumnSet /\ c.step = "AWAITING_ATTENDEE" /\ c.question = r.question
          /\ c.offered = r.offered
      BY <1>1, ColumnFacts DEF OpenSteps
    <2> HIDE DEF x, c
    <2>4. Complete(c)
      BY <1>1, <1>10, <2>3 DEF Complete, OpenSteps
    <2>5. EventBefore(c.step) = EventBefore(r.step)
      BY <1>10, <2>3 DEF EventBefore
    <2>6. r.step \in LateSteps /\ c.step \in LateSteps
      BY <1>10, <2>3 DEF LateSteps
    <2>7. Good(CloseWith("DECLINED", x))
      BY <1>6, <2>1
    <2>8. Good(<<Nav(c), Reply(c.step)>>)
      BY <1>9, <2>3, <2>4, <2>5, <2>6
    <2> QED BY <2>2, <2>3, <2>7, <2>8
  <1>11. ASSUME r.step = "AWAITING_ATTENDEE", NEW t \in AttendeeScripts(r) PROVE Good(t)
    <2> DEFINE x == Plain("ATTENDEE_CHOSEN")
               c == KeepQuestion(r, "AWAITING_HOLDER_NAME", r.draft \cup {"by_representative"})
    <2>1. x \in EventSet /\ x.type = "ATTENDEE_CHOSEN" /\ ClosingEvent(x) = "none"
      BY DEF EventSet, EventTypes, Plain, Event, ClosingEvent
    <2>2. t = <<Record(x), Nav(c), Reply("AWAITING_HOLDER_NAME")>>
      BY <1>11 DEF AttendeeScripts
    <2>3. /\ c \in ColumnSet /\ c.step = "AWAITING_HOLDER_NAME" /\ c.question = r.question
          /\ c.offered = r.offered /\ c.draft = r.draft \cup {"by_representative"}
      BY <1>1, ColumnFacts DEF OpenSteps, DraftKeys
    <2> HIDE DEF x, c
    <2>4. Complete(c)
      BY <1>1, <1>11, <2>3 DEF Complete, OpenSteps
    <2>5. x.type = EventBefore(c.step)
      BY <2>1, <2>3 DEF EventBefore
    <2>6. Agrees(r.events, c, lost, edits)
      BY <1>9, <1>11, <2>3, <2>4 DEF LateSteps
    <2> QED BY <1>1, <2>1, <2>2, <2>3, <2>4, <2>5, <2>6, TellAskFits
  <1>12. ASSUME r.step = "AWAITING_HOLDER_NAME", NEW t \in NameScripts(r) PROVE Good(t)
    <2> DEFINE c == KeepQuestion(r, "AWAITING_HOLDER_CPF", r.draft \cup {"holder_name"})
    <2>1. t = <<Nav(c), Reply("AWAITING_HOLDER_CPF")>>
      BY <1>12 DEF NameScripts
    <2>2. /\ c \in ColumnSet /\ c.step = "AWAITING_HOLDER_CPF" /\ c.question = r.question
          /\ c.offered = r.offered /\ c.draft = r.draft \cup {"holder_name"}
      BY <1>1, ColumnFacts DEF OpenSteps, DraftKeys
    <2> HIDE DEF c
    <2>3. Complete(c)
      BY <1>1, <1>12, <2>2 DEF Complete, OpenSteps
    <2>4. EventBefore(c.step) = EventBefore(r.step)
      BY <1>12, <2>2 DEF EventBefore
    <2>5. Good(<<Nav(c), Reply(c.step)>>)
      BY <1>9, <1>12, <2>2, <2>3, <2>4 DEF LateSteps
    <2> QED BY <2>1, <2>2, <2>5
  <1>13. ASSUME r.step = "AWAITING_HOLDER_CPF", NEW t \in CpfScripts(r) PROVE Good(t)
    <2> DEFINE c == KeepQuestion(r, "AWAITING_SLOT", r.draft \cup {"cpf_hash"})
    <2>1. t = NoSlotReply \/ t = <<Nav(c), Reply("AWAITING_SLOT")>>
      BY <1>13 DEF CpfScripts
    <2>2. /\ c \in ColumnSet /\ c.step = "AWAITING_SLOT" /\ c.question = r.question
          /\ c.offered = r.offered /\ c.draft = r.draft \cup {"cpf_hash"}
      BY <1>1, ColumnFacts DEF OpenSteps, DraftKeys
    <2> HIDE DEF c
    <2>3. Complete(c)
      BY <1>1, <1>13, <2>2 DEF Complete, OpenSteps, DraftKeys
    <2>4. EventBefore(c.step) = EventBefore(r.step)
      BY <1>13, <2>2 DEF EventBefore
    <2>5. Good(<<Nav(c), Reply(c.step)>>)
      BY <1>9, <1>13, <2>2, <2>3, <2>4 DEF LateSteps
    <2> QED BY <1>7, <2>1, <2>2, <2>5
  <1>14. ASSUME r.step = "AWAITING_SLOT", NEW t \in SlotScripts(r) PROVE Good(t)
    <2> DEFINE c == KeepQuestion(r, "AWAITING_SLOT", r.draft)
    <2>1. r.question # "none" /\ r.draft = DraftKeys
      BY <1>1, <1>14 DEF Complete, OpenSteps
    <2>2. t = NoSlotReply \/ t = <<Nav(c), Reply("AWAITING_SLOT")>> \/ t = <<Book>>
      BY <1>14, <2>1 DEF SlotScripts
    <2>3. /\ c \in ColumnSet /\ c.step = "AWAITING_SLOT" /\ c.question = r.question
          /\ c.offered = r.offered /\ c.draft = r.draft
      BY <1>1, ColumnFacts DEF OpenSteps
    <2> HIDE DEF c
    <2>4. Complete(c)
      BY <2>1, <2>3 DEF Complete, OpenSteps
    <2>5. Good(<<Nav(c), Reply(c.step)>>)
      BY <1>9, <1>14, <2>3, <2>4 DEF LateSteps
    <2>6. Good(<<Book>>)
      BY <1>1, <1>2, <1>14, BookFits
    <2> QED BY <1>7, <2>2, <2>3, <2>5, <2>6
  <1> HIDE DEF Good
  <1>15. Good(sc)
    BY <1>1, <1>3, <1>4, <1>5, <1>8, <1>10, <1>11, <1>12, <1>13, <1>14 DEF Scripts, OpenSteps
  <1> QED BY <1>15 DEF Good, sound

-----------------------------------------------------------------------------
(* Lemmas on the steps of a handler                                        *)

\* What a script says of a row that is closed.
LEMMA ClosedFits ==
  ASSUME NEW sc, WellFormed(sc), NEW r, ~IsOpen(r), NEW sound, NEW l, NEW e
  PROVE  Fits(sc, r, sound, l, e)
  BY DEF Fits, LeadsThere, LeavesTrail, KeepsReason

\* A script goes on fitting a row whose step and events are the same.
LEMMA SameFits ==
  ASSUME NEW sc, NEW r, NEW q, NEW sound \in BOOLEAN, NEW l \in Nat, NEW e \in Nat, NEW f \in Nat, e <= f,
         Fits(sc, r, sound, l, e),
         IsOpen(q) => IsOpen(r) /\ q.step = r.step /\ q.events = r.events
  PROVE  Fits(sc, q, sound, l, f)
  <1>1. CASE ~IsOpen(q)
    BY <1>1, ClosedFits DEF Fits
  <1>2. CASE IsOpen(q)
    <2>1. KeepsReason(sc, r, l, f)
      BY KeepsLater DEF Fits
    <2>2. KeepsReason(sc, q, l, f)
      BY <1>2, <2>1 DEF KeepsReason
    <2>3. LeadsThere(sc, q, sound)
      BY <1>2 DEF Fits, LeadsThere
    <2>4. LeavesTrail(sc, q, sound /\ l = 0)
      BY <1>2 DEF Fits, LeavesTrail
    <2> QED BY <2>2, <2>3, <2>4 DEF Fits
  <1> QED BY <1>1, <1>2

\* A script is run after the touch.
LEMMA TouchFirst ==
  ASSUME NEW sc \in Seq(Operations), sc # <<>>, NEW r,
         NEW sound \in BOOLEAN, NEW l \in Nat, NEW e \in Nat, Fits(sc, r, sound, l, e)
  PROVE  /\ <<Touch>> \o sc \in Seq(Operations) /\ <<Touch>> \o sc # <<>>
         /\ Fits(<<Touch>> \o sc, r, sound, l, e)
  <1> DEFINE all == <<Touch>> \o sc
  <1>1. /\ all \in Seq(Operations) /\ all # <<>> /\ Len(sc) \in Nat \ {0} /\ Len(all) = Len(sc) + 1
        /\ DOMAIN all = 1 .. Len(sc) + 1 /\ DOMAIN sc = 1 .. Len(sc)
        /\ all[1].op = "touch"
        /\ \A i \in DOMAIN all : i # 1 => i - 1 \in DOMAIN sc /\ all[i] = sc[i - 1]
        /\ \A i \in DOMAIN sc : i + 1 \in DOMAIN all /\ all[i + 1] = sc[i]
    <2>1. Touch.op = "touch" /\ <<Touch>> \in Seq(Operations) /\ Len(<<Touch>>) = 1 /\ <<Touch>>[1] = Touch
      BY OpKinds
    <2>2. Len(sc) \in Nat \ {0} /\ DOMAIN sc = 1 .. Len(sc)
      BY TailFacts
    <2>3. /\ all \in Seq(Operations) /\ Len(all) = 1 + Len(sc)
          /\ \A i \in 1 .. 1 + Len(sc) : all[i] = IF i <= 1 THEN <<Touch>>[i] ELSE sc[i - 1]
      BY <2>1, <2>2, ConcatProperties
    <2> HIDE DEF all
    <2>4. DOMAIN all = 1 .. Len(sc) + 1 /\ all # <<>>
      BY <2>2, <2>3, LenProperties
    <2> QED BY <2>1, <2>2, <2>3, <2>4
  <1> HIDE DEF all
  <1>2. WellFormed(all)
    <2>1. \A i \in DOMAIN all : all[i].op \in {"reply", "book"} <=> i = Len(all)
      BY <1>1 DEF Fits, WellFormed
    <2>2. \A i \in DOMAIN all : all[i].op \in {"record", "finish"} =>
             i - 1 \in DOMAIN sc /\ all[i] = sc[i - 1]
      BY <1>1
    <2>3. \A i \in DOMAIN all : all[i].op = "record" =>
             /\ ClosingEvent(all[i].event) = "none"
             /\ all[i].event.type = "SCHEDULE_OFFERED" => all[i].event.data \in Reasons
      BY <2>2 DEF Fits, WellFormed
    <2>4. \A i \in DOMAIN all : all[i].op = "finish" =>
             all[i].outcome # "SCHEDULED" /\ ClosesAs(all[i].event, all[i].outcome)
      BY <2>2 DEF Fits, WellFormed
    <2> QED BY <2>1, <2>3, <2>4 DEF WellFormed
  <1>3. Goal(all) = Goal(sc)
    BY <1>1 DEF Goal
  <1>4. LeadsThere(all, r, sound)
    <2> SUFFICES ASSUME IsOpen(r) PROVE LeadsThere(all, r, sound)
      BY DEF LeadsThere
    <2>1. \A i \in DOMAIN all : all[i].op \in {"nav", "book"} => i # 1
      BY <1>1
    <2>2. (\E i \in DOMAIN sc : sc[i].op \in {"nav", "finish"}) =>
             \E i \in DOMAIN all : all[i].op \in {"nav", "finish"}
      BY <1>1
    <2> QED BY <1>1, <1>3, <2>1, <2>2, ZenonT(30) DEF Fits, LeadsThere
  <1>5. LeavesTrail(all, r, sound /\ l = 0)
    <2> SUFFICES ASSUME IsOpen(r), sound, l = 0, \A i \in DOMAIN all : all[i].op # "finish"
                 PROVE  LeavesTrail(all, r, sound /\ l = 0)
      BY DEF LeavesTrail
    <2>1. \A i \in DOMAIN sc : sc[i].op # "finish"
      BY <1>1
    <2>2. ASSUME NEW i \in DOMAIN all, all[i].op = "record",
                 \A j \in DOMAIN all : j > i => all[j].op # "record"
          PROVE  all[i].event.type = EventBefore(Goal(all))
      <3>1. i # 1 /\ i - 1 \in DOMAIN sc /\ all[i] = sc[i - 1]
        BY <1>1, <2>2
      <3>2. ASSUME NEW j \in DOMAIN sc, j > i - 1 PROVE sc[j].op # "record"
        <4>1. j + 1 > i
          BY <1>1, <3>2
        <4> QED BY <1>1, <2>2, <4>1
      <3> QED BY <1>3, <2>1, <2>2, <3>1, <3>2 DEF Fits, LeavesTrail
    <2>3. (\A i \in DOMAIN all : all[i].op # "record") => \A i \in DOMAIN sc : sc[i].op # "record"
      BY <1>1
    <2> QED BY <1>3, <2>1, <2>2, <2>3 DEF Fits, LeavesTrail
  <1>6. KeepsReason(all, r, l, e)
    <2> SUFFICES ASSUME IsOpen(r) PROVE KeepsReason(all, r, l, e)
      BY DEF KeepsReason
    <2>1. \A i \in DOMAIN all : all[i].op = "nav" \/ Chooses(all[i]) \/ Offers(all[i]) =>
             i # 1 /\ i - 1 \in DOMAIN sc /\ all[i] = sc[i - 1]
      BY <1>1 DEF Chooses, Offers
    <2>2. /\ (\E i \in DOMAIN all : Chooses(all[i])) <=> (\E i \in DOMAIN sc : Chooses(sc[i]))
          /\ (\E i \in DOMAIN all : Offers(all[i])) <=> (\E i \in DOMAIN sc : Offers(sc[i]))
      BY <1>1, <2>1
    <2>3. \A i, j \in DOMAIN all : j > i => j - 1 > i - 1
      BY <1>1
    <2>4. ASSUME NEW i \in DOMAIN all, Offers(all[i])
          PROVE  /\ \/ r.step = "AWAITING_QUESTION"
                    \/ r.step = "AWAITING_RESOLVED" /\ all[i].event.data = "NOT_RESOLVED"
                 /\ \A j \in DOMAIN all : j > i => ~Chooses(all[j])
      BY <2>1, <2>3, <2>4 DEF Fits, KeepsReason
    <2>5. ASSUME NEW n \in DOMAIN all, all[n].op = "nav"
          PROVE  LET c == all[n].set IN
            /\ \A j \in DOMAIN all : j > n => all[j].op # "nav" /\ ~Chooses(all[j]) /\ ~Offers(all[j])
            /\ (\A i \in DOMAIN all : ~Chooses(all[i]) /\ ~Offers(all[i])) => Agrees(r.events, c, l, e)
            /\ (\E i \in DOMAIN all : Chooses(all[i])) /\ (\A i \in DOMAIN all : ~Offers(all[i])) =>
                  /\ c.step \notin LateSteps
                  /\ c.step = "AWAITING_RESOLVED" /\ e = 0 => FirstReason(c.question) = "NOT_RESOLVED"
            /\ \A i \in DOMAIN all : Offers(all[i]) =>
                  /\ c.step \in LateSteps
                  /\ c.offered = all[i].event.data
                  /\ l = 0 /\ (\A j \in DOMAIN all : ~Chooses(all[j])) =>
                        OfferedReason(r.events) \in {"none", c.offered}
                  /\ e = 0 => FirstReason(c.question) = c.offered
      <3>1. n - 1 \in DOMAIN sc /\ all[n] = sc[n - 1] /\ sc[n - 1].op = "nav"
        BY <2>1, <2>5
      <3>2. \A j \in DOMAIN all : j > n => all[j].op # "nav" /\ ~Chooses(all[j]) /\ ~Offers(all[j])
        BY <2>1, <2>3, <3>1 DEF Fits, KeepsReason
      <3>3. (\A i \in DOMAIN all : ~Chooses(all[i]) /\ ~Offers(all[i])) =>
               Agrees(r.events, all[n].set, l, e)
        BY <2>2, <3>1 DEF Fits, KeepsReason
      <3>4. (\E i \in DOMAIN all : Chooses(all[i])) /\ (\A i \in DOMAIN all : ~Offers(all[i])) =>
               /\ all[n].set.step \notin LateSteps
               /\ all[n].set.step = "AWAITING_RESOLVED" /\ e = 0 =>
                     FirstReason(all[n].set.question) = "NOT_RESOLVED"
        BY <2>2, <3>1 DEF Fits, KeepsReason
      <3>5. ASSUME NEW i \in DOMAIN all, Offers(all[i])
            PROVE  /\ all[n].set.step \in LateSteps
                   /\ all[n].set.offered = all[i].event.data
                   /\ l = 0 /\ (\A j \in DOMAIN all : ~Chooses(all[j])) =>
                         OfferedReason(r.events) \in {"none", all[n].set.offered}
                   /\ e = 0 => FirstReason(all[n].set.question) = all[n].set.offered
        BY <2>1, <2>2, <3>1, <3>5 DEF Fits, KeepsReason
      <3> QED BY <3>2, <3>3, <3>4, <3>5
    <2>6. \A i \in DOMAIN all : Chooses(all[i]) => r.step = "AWAITING_QUESTION"
      BY <2>1 DEF Fits, KeepsReason
    <2> QED BY <2>4, <2>5, <2>6 DEF KeepsReason
  <1> QED BY <1>1, <1>2, <1>4, <1>5, <1>6 DEF Fits, all

-----------------------------------------------------------------------------
(* Lemmas on the steps                                                     *)

\* The row that is handled.
LEMMA CurrentFacts ==
  ASSUME Inv, ~AtRest
  PROVE  /\ handler.script \in Seq(Operations) /\ handler.script # <<>>
         /\ handler.sid \in DOMAIN sessions /\ handler.sid = Len(sessions)
         /\ DOMAIN sessions = 1 .. Len(sessions) /\ Len(sessions) \in Nat
         /\ Current \in Row /\ RowGood(Current) /\ Current.events \in Seq(EventSet)
         /\ IsOpen(Current) => Agrees(Current.events, Current, lost, edits)
         /\ Fits(handler.script, Current, ~broken, lost, edits)
         /\ lost \in Nat /\ edits \in Nat /\ (~broken) \in BOOLEAN
  <1>1. sessions \in Seq(Row) /\ Len(sessions) \in Nat /\ DOMAIN sessions = 1 .. Len(sessions)
    BY LenProperties DEF Inv, TypeOK
  <1>2. handler.sid \in DOMAIN sessions /\ handler.sid = Len(sessions)
    BY <1>1 DEF Inv, OneOpen
  <1>3. Current \in Row /\ RowGood(Current)
    BY <1>1, <1>2, ElementOfSeq DEF Inv, RowsInv, Current
  <1>4. IsOpen(Current) => Agrees(Current.events, Current, lost, edits)
    BY <1>2 DEF Inv, RowsInv, Current, OpenIds
  <1>5. handler.script \in Seq(Operations) /\ lost \in Nat /\ edits \in Nat
    BY DEF Inv, TypeOK
  <1> QED BY <1>1, <1>2, <1>3, <1>4, <1>5 DEF Inv, AtRest, ScriptInv, Row

\* If at most one upset has happened, no more had happened before.
LEMMA FewerUpsets ==
  ASSUME NEW l \in Nat, NEW e \in Nat, NEW m \in Nat, NEW f \in Nat, l <= m, e <= f, m + f <= 1
  PROVE  l + e <= 1
  OBVIOUS

\* A handler writes its row, or leaves it alone.
LEMMA RowWritten ==
  ASSUME Inv, ~AtRest, NEW q \in Row, RowGood(q), Write(q),
         lost' \in Nat, edits' \in Nat, lost <= lost', edits <= edits',
         IsOpen(q) => IsOpen(Current) /\ Agrees(q.events, q, lost', edits'),
         q.reason # "none" /\ lost' + edits' <= 1 => q.reason = q.offered,
         ~AtRest' => handler'.sid = handler.sid
  PROVE  /\ sessions' \in Seq(Row) /\ Len(sessions') = Len(sessions)
         /\ DOMAIN sessions' = DOMAIN sessions
         /\ OneOpen' /\ RowsInv' /\ ReasonAsOffered'
         /\ sessions'[handler.sid] = q
         /\ \A i \in OpenIds' : i = handler.sid /\ sessions'[i] = q
  <1> DEFINE n == handler.sid
  <1>1. /\ n \in DOMAIN sessions /\ n = Len(sessions)
        /\ sessions \in Seq(Row) /\ DOMAIN sessions = 1 .. Len(sessions) /\ Len(sessions) \in Nat
    BY CurrentFacts DEF Inv, TypeOK
  <1>2. /\ sessions' \in Seq(Row) /\ Len(sessions') = Len(sessions)
        /\ DOMAIN sessions' = DOMAIN sessions
        /\ \A i \in DOMAIN sessions : sessions'[i] = IF i = n THEN q ELSE sessions[i]
    BY <1>1, ExceptSeq DEF Write
  <1>3. /\ \A i \in OpenIds' : i = n /\ sessions'[i] = q
        /\ n \in OpenIds' => IsOpen(q)
    BY <1>1, <1>2 DEF Inv, OneOpen, OpenIds, IsOpen
  <1>4. OneOpen'
    BY <1>1, <1>2, <1>3 DEF OneOpen
  <1>5. \A i \in DOMAIN sessions : RowGood(sessions'[i])
    BY <1>2 DEF Inv, RowsInv
  <1>6. RowsInv'
    BY <1>2, <1>3, <1>5 DEF RowsInv
  <1>7. \A i \in DOMAIN sessions : sessions'[i].reason # "none" /\ lost' + edits' <= 1 =>
           sessions'[i].reason = sessions'[i].offered
    <2>1. lost' + edits' <= 1 => lost + edits <= 1
      <3>1. lost \in Nat /\ edits \in Nat
        BY CurrentFacts
      <3> QED BY <3>1, FewerUpsets
    <2> QED BY <1>2, <2>1 DEF Inv, ReasonAsOffered
  <1>8. ReasonAsOffered'
    BY <1>2, <1>7 DEF ReasonAsOffered
  <1> QED BY <1>1, <1>2, <1>3, <1>4, <1>6, <1>8

\* What is left of a script that goes on.
LEMMA Proceeds ==
  ASSUME Inv, ~AtRest, Proceed, Arg.op \notin {"reply", "book"}
  PROVE  /\ handler'.sid = handler.sid /\ handler'.script = Tail(handler.script)
         /\ handler' \in [sid : 0 .. Len(sessions), script : Seq(Operations)]
         /\ ~AtRest' /\ ToldMatchesRow' /\ TrailFollowsSteps'
         /\ WellFormed(handler'.script)
         /\ Arg = handler.script[1]
  <1>1. /\ handler \in [sid : 0 .. Len(sessions), script : Seq(Operations)]
        /\ handler.script # <<>> /\ WellFormed(handler.script) /\ Arg = handler.script[1]
    BY CurrentFacts, TailFacts DEF Inv, TypeOK, Fits, Arg
  <1>2. handler'.sid = handler.sid /\ handler'.script = Tail(handler.script)
    BY <1>1 DEF Proceed
  <1>3. /\ Tail(handler.script) # <<>> /\ Tail(handler.script) \in Seq(Operations)
        /\ WellFormed(Tail(handler.script))
    BY <1>1, Rest
  <1>4. handler' \in [sid : 0 .. Len(sessions), script : Seq(Operations)]
    BY <1>1, <1>3 DEF Proceed
  <1> QED BY <1>1, <1>2, <1>3, <1>4 DEF AtRest, ToldMatchesRow, TrailFollowsSteps

\* A handler that finds its row closed stops.
LEMMA StopsClosed ==
  ASSUME Inv, ~AtRest, ~IsOpen(Current), Stop,
         UNCHANGED <<sessions, kind, told, sweeping, lost, edits, broken>>
  PROVE  Inv'
  <1>1. /\ handler.sid \in DOMAIN sessions /\ handler.sid = Len(sessions) /\ Len(sessions) \in Nat
        /\ Current = sessions[handler.sid]
    BY CurrentFacts DEF Current
  <1>2. OpenIds = {}
    BY <1>1 DEF Inv, OneOpen, OpenIds
  <1>3. OpenIds' = {}
    BY <1>2 DEF OpenIds, IsOpen
  <1>4. handler' = [sid |-> 0, script |-> <<>>] /\ AtRest'
    BY DEF Stop, AtRest
  <1>5. handler' \in [sid : 0 .. Len(sessions), script : Seq(Operations)]
    BY <1>1, <1>4
  <1>6. TypeOK'
    BY <1>5 DEF Inv, TypeOK
  <1>7. RowsInv' /\ ReasonAsOffered'
    BY <1>3 DEF Inv, RowsInv, ReasonAsOffered
  <1>8. OneOpen' /\ ScriptInv' /\ ToldMatchesRow' /\ TrailFollowsSteps'
    BY <1>3, <1>4 DEF OneOpen, ScriptInv, ToldMatchesRow, TrailFollowsSteps
  <1> QED BY <1>6, <1>7, <1>8 DEF Inv

\* Upsets only grow.
LEMMA FewerUpsetsBefore ==
  ASSUME NEW m \in Nat, NEW n \in Nat, NEW later \in Nat, n <= later, m + later <= 1
  PROVE  m + n <= 1
OBVIOUS

\* What happens beside the handler leaves its row as it is, or closes it.
LEMMA Meanwhile ==
  ASSUME Inv, sessions' \in Seq(Row), Len(sessions') = Len(sessions),
         \A i \in DOMAIN sessions :
            /\ RowGood(sessions'[i])
            /\ IsOpen(sessions'[i]) =>
                  /\ IsOpen(sessions[i]) /\ sessions'[i].step = sessions[i].step
                  /\ sessions'[i].events = sessions[i].events
                  /\ sessions'[i].offered = sessions[i].offered
                  /\ sessions'[i].question = sessions[i].question
            /\ sessions'[i].reason # "none" =>
                  sessions'[i].reason = sessions[i].reason /\ sessions'[i].offered = sessions[i].offered,
         handler' = handler, told' = told, broken' = broken, lost' = lost,
         edits' \in Nat, edits <= edits'
  PROVE  /\ OneOpen' /\ RowsInv' /\ ScriptInv'
         /\ ReasonAsOffered' /\ ToldMatchesRow' /\ TrailFollowsSteps'
  <1>1. /\ DOMAIN sessions = 1 .. Len(sessions) /\ DOMAIN sessions' = DOMAIN sessions
        /\ Len(sessions) \in Nat /\ lost \in Nat /\ edits \in Nat /\ broken \in BOOLEAN
        /\ handler.script \in Seq(Operations)
    BY LenProperties DEF Inv, TypeOK
  <1>2. \A i \in OpenIds' : i \in OpenIds
    BY <1>1 DEF OpenIds
  <1>3. OneOpen'
    BY <1>2 DEF Inv, OneOpen, AtRest
  <1>4. \A i \in OpenIds' : Agrees(sessions'[i].events, sessions'[i], lost', edits')
    <2> SUFFICES ASSUME NEW i \in OpenIds'
                 PROVE  Agrees(sessions'[i].events, sessions'[i], lost', edits')
      OBVIOUS
    <2>1. i \in OpenIds /\ i \in DOMAIN sessions /\ IsOpen(sessions'[i])
      BY <1>1, <1>2 DEF OpenIds
    <2>2. Agrees(sessions[i].events, sessions[i], lost, edits')
      BY <1>1, <2>1, AgreesLater DEF Inv, RowsInv
    <2> QED BY <2>1, <2>2 DEF Agrees
  <1>5. RowsInv'
    BY <1>1, <1>4 DEF RowsInv
  <1>6. ScriptInv'
    <2> SUFFICES ASSUME ~AtRest PROVE Fits(handler.script, Current', ~broken, lost, edits')
      BY DEF ScriptInv, AtRest
    <2>1. /\ handler.sid \in DOMAIN sessions /\ Current = sessions[handler.sid]
          /\ Current' = sessions'[handler.sid]
      BY CurrentFacts DEF Current
    <2>2. Fits(handler.script, Current, ~broken, lost, edits)
      BY CurrentFacts
    <2>3. IsOpen(Current') => IsOpen(Current) /\ Current'.step = Current.step /\ Current'.events = Current.events
      BY <2>1
    <2>4. (~broken) \in BOOLEAN
      OBVIOUS
    <2> HIDE DEF Current
    <2> QED BY <1>1, <2>2, <2>3, <2>4, SameFits
  <1>7. ReasonAsOffered'
    <2>1. ASSUME lost' + edits' <= 1 PROVE lost + edits <= 1
      <3>1. lost + edits' <= 1
        BY <2>1
      <3> QED BY <1>1, <3>1, FewerUpsetsBefore
    <2> QED BY <1>1, <2>1 DEF Inv, ReasonAsOffered
  <1>8. ToldMatchesRow'
    BY <1>1, <1>2 DEF Inv, ToldMatchesRow, AtRest, OpenIds
  <1>9. TrailFollowsSteps'
    BY <1>1, <1>2 DEF Inv, TrailFollowsSteps, AtRest, OpenIds
  <1> QED BY <1>3, <1>5, <1>6, <1>7, <1>8, <1>9

\* The touch of a session keeps the invariant.
LEMMA TouchStep == ASSUME Inv, TouchSession PROVE Inv'
  <1> DEFINE sc == handler.script
             r == Current
             q == [Current EXCEPT !.idle = FALSE]
  <1>1. ~AtRest /\ Arg.op = "touch"
    BY DEF TouchSession, AtOp, AtRest, Arg
  <1>2. /\ sc \in Seq(Operations) /\ sc # <<>> /\ r \in Row /\ RowGood(r)
        /\ IsOpen(r) => Agrees(r.events, r, lost, edits)
        /\ Fits(sc, r, ~broken, lost, edits)
        /\ lost \in Nat /\ edits \in Nat /\ (~broken) \in BOOLEAN
    BY <1>1, CurrentFacts
  <1>3. UNCHANGED <<kind, told, sweeping, lost, edits, broken>>
    BY DEF TouchSession, faults
  <1>4. CASE IsOpen(r) /\ Write(q) /\ Proceed
    <2>1. /\ handler'.sid = handler.sid /\ handler'.script = Tail(sc)
          /\ handler' \in [sid : 0 .. Len(sessions), script : Seq(Operations)]
          /\ ~AtRest' /\ ToldMatchesRow' /\ TrailFollowsSteps'
          /\ WellFormed(Tail(sc)) /\ Arg = sc[1]
      BY <1>1, <1>4, Proceeds
    <2>2. /\ q \in Row /\ RowGood(q) /\ IsOpen(q)
          /\ q.step = r.step /\ q.events = r.events /\ q.offered = r.offered
          /\ q.question = r.question /\ q.reason = r.reason
      BY <1>2, <1>4, IdleRow
    <2> HIDE DEF q, r
    <2>3. q.reason = "none"
      BY <2>2 DEF RowGood, OutcomeOf, IsOpen
    <2>4. Agrees(q.events, q, lost, edits)
      BY <1>2, <1>4, <2>2 DEF Agrees
    <2>5. /\ sessions' \in Seq(Row) /\ Len(sessions') = Len(sessions)
          /\ OneOpen' /\ RowsInv' /\ ReasonAsOffered'
          /\ sessions'[handler.sid] = q
      BY <1>1, <1>2, <1>3, <1>4, <2>1, <2>2, <2>3, <2>4, RowWritten DEF r
    <2>6. Fits(Tail(sc), q, ~broken, lost, edits)
      <3>1. WellFormed(sc) /\ LeadsThere(sc, r, ~broken) /\ LeavesTrail(sc, r, ~broken /\ lost = 0)
            /\ KeepsReason(sc, r, lost, edits)
        BY <1>2 DEF Fits
      <3>2. LeadsThere(Tail(sc), q, ~broken)
        BY <1>1, <1>2, <1>4, <2>1, <2>2, <3>1, RestLeads
      <3>3. LeavesTrail(Tail(sc), q, ~broken /\ lost = 0)
        BY <1>1, <1>2, <1>4, <2>1, <2>2, <3>1, RestTrail
      <3>4. KeepsReason(Tail(sc), q, lost, edits)
        BY <1>1, <1>2, <1>4, <2>1, <2>2, <3>1, RestKeeps DEF Chooses, Offers
      <3> QED BY <2>1, <3>2, <3>3, <3>4 DEF Fits
    <2>7. ScriptInv'
      BY <1>3, <2>1, <2>5, <2>6 DEF ScriptInv, Current
    <2> QED BY <1>3, <2>1, <2>5, <2>7 DEF Inv, TypeOK
  <1>5. CASE ~IsOpen(r) /\ Stop /\ UNCHANGED sessions
    <2> QED BY <1>1, <1>2, <1>3, <1>5, StopsClosed
  <1> QED BY <1>4, <1>5 DEF TouchSession

\* The new columns of a session keep the invariant.
LEMMA NavigateStep == ASSUME Inv, Navigate PROVE Inv'
  <1> DEFINE sc == handler.script
             r == Current
             c == Arg.set
             q == Navigated(Current, Arg.set)
  <1>1. ~AtRest /\ Arg.op = "nav"
    BY DEF Navigate, AtOp, AtRest, Arg
  <1>2. /\ sc \in Seq(Operations) /\ sc # <<>> /\ r \in Row /\ RowGood(r)
        /\ Fits(sc, r, ~broken, lost, edits)
        /\ lost \in Nat /\ edits \in Nat /\ (~broken) \in BOOLEAN
    BY <1>1, CurrentFacts
  <1>3. UNCHANGED <<kind, told, sweeping, lost, edits, broken>>
    BY DEF Navigate, faults
  <1>4. CASE IsOpen(r) /\ Write(q) /\ Proceed
    <2>1. /\ handler'.sid = handler.sid /\ handler'.script = Tail(sc)
          /\ handler' \in [sid : 0 .. Len(sessions), script : Seq(Operations)]
          /\ ~AtRest' /\ ToldMatchesRow' /\ TrailFollowsSteps'
          /\ WellFormed(Tail(sc)) /\ Arg = sc[1]
      BY <1>1, <1>4, Proceeds
    <2>2. /\ WellFormed(sc) /\ LeadsThere(sc, r, ~broken) /\ LeavesTrail(sc, r, ~broken /\ lost = 0)
          /\ KeepsReason(sc, r, lost, edits)
      BY <1>2 DEF Fits
    <2>3. c \in ColumnSet /\ Complete(c)
      <3>1. 1 \in DOMAIN sc /\ sc[1] \in Operations
        BY <1>2, TailFacts
      <3>2. c \in ColumnSet
        BY <1>1, <2>1, <3>1, OpFacts
      <3>3. Complete(c)
        BY <1>1, <1>4, <2>1, <2>2, <3>1 DEF LeadsThere
      <3> QED BY <3>2, <3>3
    <2>4. /\ q \in Row /\ RowGood(q) /\ IsOpen(q)
          /\ q.step = c.step /\ q.events = r.events /\ q.offered = c.offered
          /\ q.question = c.question
      BY <1>2, <1>4, <2>3, NavRow
    <2> HIDE DEF q, r, c
    <2>5. q.reason = "none"
      BY <2>4 DEF RowGood, OutcomeOf, IsOpen
    <2>6. KeepsReason(Tail(sc), q, lost, edits) /\ Agrees(r.events, sc[1].set, lost, edits)
      BY <1>1, <1>2, <1>4, <2>1, <2>2, NavKeeps
    <2>7. Agrees(q.events, q, lost, edits)
      BY <2>1, <2>4, <2>6 DEF Agrees, c
    <2>8. /\ sessions' \in Seq(Row) /\ Len(sessions') = Len(sessions)
          /\ OneOpen' /\ RowsInv' /\ ReasonAsOffered'
          /\ sessions'[handler.sid] = q
      BY <1>1, <1>2, <1>3, <1>4, <2>1, <2>4, <2>5, <2>7, RowWritten DEF r
    <2>9. Fits(Tail(sc), q, ~broken, lost, edits)
      <3>1. LeadsThere(Tail(sc), q, ~broken)
        BY <1>1, <1>2, <1>4, <2>1, <2>2, <2>4, RestLeads DEF c
      <3>2. LeavesTrail(Tail(sc), q, ~broken /\ lost = 0)
        BY <1>1, <1>2, <1>4, <2>1, <2>2, <2>4, RestTrail
      <3> QED BY <2>1, <2>6, <3>1, <3>2 DEF Fits
    <2>10. ScriptInv'
      BY <1>3, <2>1, <2>8, <2>9 DEF ScriptInv, Current
    <2> QED BY <1>3, <2>1, <2>8, <2>10 DEF Inv, TypeOK
  <1>5. CASE ~IsOpen(r) /\ Stop /\ UNCHANGED sessions
    <2> QED BY <1>1, <1>3, <1>5, StopsClosed
  <1> QED BY <1>4, <1>5 DEF Navigate

\* The row stays as it is, and more events are lost or fewer things are sound.
LEMMA RowKept ==
  ASSUME Inv, ~AtRest, UNCHANGED sessions,
         lost' \in Nat, edits' \in Nat, lost <= lost', edits <= edits',
         ~AtRest' => handler'.sid = handler.sid
  PROVE  /\ sessions' \in Seq(Row) /\ Len(sessions') = Len(sessions)
         /\ OneOpen' /\ RowsInv' /\ ReasonAsOffered'
         /\ sessions'[handler.sid] = Current
  <1> DEFINE r == Current
  <1>1. /\ r \in Row /\ RowGood(r) /\ lost \in Nat /\ edits \in Nat
        /\ IsOpen(r) => Agrees(r.events, r, lost, edits)
        /\ handler.sid \in DOMAIN sessions /\ r = sessions[handler.sid]
    BY CurrentFacts DEF Current
  <1>2. Write(r)
    <2>1. sessions \in Seq(Row)
      BY DEF Inv, TypeOK
    <2> QED BY <1>1, <2>1 DEF Write
  <1>3. IsOpen(r) => Agrees(r.events, r, lost', edits')
    BY <1>1, AgreesLater
  <1>4. r.reason # "none" /\ lost' + edits' <= 1 => r.reason = r.offered
    BY <1>1, FewerUpsets DEF Inv, ReasonAsOffered
  <1> QED BY <1>1, <1>2, <1>3, <1>4, RowWritten

\* An event, recorded or lost, keeps the invariant.
LEMMA RecordStep == ASSUME Inv, RecordEvent PROVE Inv'
  <1> DEFINE sc == handler.script
             r == Current
             x == Arg.event
             q == Recorded(Current, Arg.event)
  <1>1. ~AtRest /\ Arg.op = "record" /\ Proceed
    BY DEF RecordEvent, AtOp, AtRest, Arg
  <1>2. /\ sc \in Seq(Operations) /\ sc # <<>> /\ r \in Row /\ RowGood(r)
        /\ r.events \in Seq(EventSet)
        /\ Fits(sc, r, ~broken, lost, edits)
        /\ IsOpen(r) => Agrees(r.events, r, lost, edits)
        /\ lost \in Nat /\ edits \in Nat /\ (~broken) \in BOOLEAN
        /\ handler.sid \in DOMAIN sessions /\ r = sessions[handler.sid]
    BY <1>1, CurrentFacts DEF Current
  <1>3. UNCHANGED <<kind, told, sweeping, edits, broken>>
    BY DEF RecordEvent
  <1>4. /\ handler'.sid = handler.sid /\ handler'.script = Tail(sc)
        /\ handler' \in [sid : 0 .. Len(sessions), script : Seq(Operations)]
        /\ ~AtRest' /\ ToldMatchesRow' /\ TrailFollowsSteps'
        /\ WellFormed(Tail(sc)) /\ Arg = sc[1]
    BY <1>1, Proceeds
  <1>5. /\ WellFormed(sc) /\ LeadsThere(sc, r, ~broken) /\ LeavesTrail(sc, r, ~broken /\ lost = 0)
        /\ KeepsReason(sc, r, lost, edits)
    BY <1>2 DEF Fits
  <1>6. /\ 1 \in DOMAIN sc /\ x \in EventSet /\ ClosingEvent(x) = "none"
        /\ x.type = "SCHEDULE_OFFERED" => x.data \in Reasons
    <2>1. 1 \in DOMAIN sc /\ sc[1] \in Operations
      BY <1>2, TailFacts
    <2>2. x \in EventSet
      BY <1>1, <1>4, <2>1, OpFacts
    <2> QED BY <1>1, <1>4, <1>5, <2>1, <2>2 DEF WellFormed
  <1>7. CASE Write(q) /\ UNCHANGED lost
    <2>1. /\ q \in Row /\ RowGood(q) /\ (IsOpen(q) <=> IsOpen(r))
          /\ q.step = r.step /\ q.events = Append(r.events, x) /\ q.offered = r.offered
          /\ q.question = r.question /\ q.reason = r.reason
      BY <1>2, <1>6, RecordRow
    <2> HIDE DEF q, r, x
    <2>2. q.reason # "none" /\ lost + edits <= 1 => q.reason = q.offered
      BY <1>2, <2>1 DEF Inv, ReasonAsOffered
    <2>3. /\ Chooses(sc[1]) => OfferedReason(q.events) = "none"
          /\ Offers(sc[1]) => OfferedReason(q.events) = x.data
          /\ ~Chooses(sc[1]) /\ ~Offers(sc[1]) => OfferedReason(q.events) = OfferedReason(r.events)
      BY <1>1, <1>2, <1>4, <1>6, <2>1, OfferedAppend, SMTT(30) DEF Chooses, Offers, x
    <2>4. ASSUME IsOpen(q) PROVE Agrees(q.events, q, lost, edits)
      <3>1. Agrees(r.events, r, lost, edits) /\ IsOpen(r)
        BY <1>2, <2>1, <2>4
      <3>2. CASE ~Chooses(sc[1]) /\ ~Offers(sc[1])
        BY <2>1, <2>3, <3>1, <3>2 DEF Agrees
      <3>3. CASE r.step = "AWAITING_QUESTION"
        BY <2>1, <3>3 DEF Agrees, LateSteps
      <3>4. CASE Offers(sc[1]) /\ r.step = "AWAITING_RESOLVED" /\ x.data = "NOT_RESOLVED"
        BY <2>1, <2>3, <3>1, <3>4 DEF Agrees, LateSteps
      <3> QED BY <1>4, <1>5, <1>6, <3>1, <3>2, <3>3, <3>4 DEF KeepsReason, x
    <2>5. /\ sessions' \in Seq(Row) /\ Len(sessions') = Len(sessions)
          /\ OneOpen' /\ RowsInv' /\ ReasonAsOffered'
          /\ sessions'[handler.sid] = q
      <3>1. lost' = lost /\ edits' = edits
        BY <1>3, <1>7
      <3>2. /\ IsOpen(q) => IsOpen(Current) /\ Agrees(q.events, q, lost', edits')
            /\ q.reason # "none" /\ lost' + edits' <= 1 => q.reason = q.offered
            /\ lost' \in Nat /\ edits' \in Nat /\ lost <= lost' /\ edits <= edits'
        BY <1>2, <2>1, <2>2, <2>4, <3>1 DEF r
      <3> QED BY <1>1, <1>4, <1>7, <2>1, <3>2, RowWritten
    <2>6. Fits(Tail(sc), q, ~broken, lost, edits)
      <3>1. LeadsThere(Tail(sc), q, ~broken)
        BY <1>1, <1>2, <1>4, <1>5, <2>1, RestLeads
      <3>2. LeavesTrail(Tail(sc), q, ~broken /\ lost = 0)
        <4>1. Last(q.events) = x
          BY <1>2, <1>6, <2>1, AppendFacts
        <4> QED BY <1>1, <1>2, <1>4, <1>5, <2>1, <4>1, RestTrail DEF x
      <3>3. KeepsReason(Tail(sc), q, lost, edits)
        <4>1. CASE ~IsOpen(q)
          BY <4>1 DEF KeepsReason
        <4>2. CASE IsOpen(q) /\ Chooses(sc[1])
          BY <1>2, <1>5, <2>1, <2>3, <4>2, ChosenKeeps
        <4>3. CASE IsOpen(q) /\ Offers(sc[1])
          BY <1>2, <1>4, <1>5, <2>1, <2>3, <4>3, OfferKeeps DEF x
        <4>4. CASE IsOpen(q) /\ ~Chooses(sc[1]) /\ ~Offers(sc[1])
          BY <1>1, <1>2, <1>4, <1>5, <2>1, <2>3, <4>4, RestKeeps
        <4> QED BY <4>1, <4>2, <4>3, <4>4
      <3> QED BY <1>4, <3>1, <3>2, <3>3 DEF Fits
    <2>7. ScriptInv'
      BY <1>3, <1>4, <1>7, <2>5, <2>6 DEF ScriptInv, Current
    <2> QED BY <1>3, <1>4, <1>7, <2>5, <2>7 DEF Inv, TypeOK
  <1>8. CASE MayUpset /\ lost' = lost + 1 /\ UNCHANGED sessions
    <2> HIDE DEF r, x
    <2>1. lost' \in Nat /\ lost <= lost' /\ lost' # 0 /\ edits' \in Nat /\ edits <= edits'
      BY <1>2, <1>3, <1>8
    <2>2. /\ sessions' \in Seq(Row) /\ Len(sessions') = Len(sessions)
          /\ OneOpen' /\ RowsInv' /\ ReasonAsOffered'
          /\ sessions'[handler.sid] = r
      BY <1>1, <1>4, <1>8, <2>1, RowKept DEF r
    <2>3. LeadsThere(Tail(sc), r, ~broken)
      BY <1>1, <1>2, <1>4, <1>5, RestLeads
    <2>4. LeavesTrail(Tail(sc), r, ~broken /\ lost' = 0)
      BY <2>1 DEF LeavesTrail
    <2>5. KeepsReason(Tail(sc), r, lost', edits)
      <3>1. CASE ~IsOpen(r)
        BY <3>1 DEF KeepsReason
      <3>2. CASE IsOpen(r) /\ Chooses(sc[1])
        BY <1>2, <1>5, <2>1, <3>2, ChosenKeeps
      <3>3. CASE IsOpen(r) /\ Offers(sc[1])
        BY <1>2, <1>5, <1>8, <2>1, <3>3, OfferKeeps
      <3>4. CASE IsOpen(r) /\ ~Chooses(sc[1]) /\ ~Offers(sc[1])
        <4>1. KeepsReason(Tail(sc), r, lost, edits)
          BY <1>1, <1>2, <1>4, <1>5, <3>4, RestKeeps
        <4> QED BY <1>2, <2>1, <4>1, KeepsLater
      <3> QED BY <3>1, <3>2, <3>3, <3>4
    <2>6. ScriptInv'
      BY <1>3, <1>4, <2>2, <2>3, <2>4, <2>5 DEF ScriptInv, Current, Fits
    <2>7. lost' + edits' <= MaxUpsets /\ {lost', edits'} \subseteq Nat
      <3>1. MaxUpsets \in Nat
        BY FlowAssumption
      <3> QED BY <1>2, <1>3, <1>8, <2>1, <3>1 DEF MayUpset
    <2> QED BY <1>3, <1>4, <1>8, <2>2, <2>6, <2>7 DEF Inv, TypeOK
  <1> QED BY <1>7, <1>8 DEF RecordEvent

\* A script that goes on after its row was closed.
LEMMA GoesOnClosed ==
  ASSUME Inv, ~AtRest, Proceed, Arg.op \notin {"reply", "book"},
         NEW q \in Row, RowGood(q), ~IsOpen(q), Write(q),
         q.reason # "none" /\ lost + edits <= 1 => q.reason = q.offered,
         UNCHANGED <<kind, told, sweeping, lost, edits>>, broken' \in BOOLEAN
  PROVE  Inv'
  <1>1. /\ handler'.sid = handler.sid
        /\ handler' \in [sid : 0 .. Len(sessions), script : Seq(Operations)]
        /\ ~AtRest' /\ ToldMatchesRow' /\ TrailFollowsSteps' /\ WellFormed(handler'.script)
    BY Proceeds
  <1>2. /\ lost' \in Nat /\ edits' \in Nat /\ lost <= lost' /\ edits <= edits'
        /\ q.reason # "none" /\ lost' + edits' <= 1 => q.reason = q.offered
    BY CurrentFacts
  <1>3. /\ sessions' \in Seq(Row) /\ Len(sessions') = Len(sessions)
        /\ OneOpen' /\ RowsInv' /\ ReasonAsOffered'
        /\ sessions'[handler.sid] = q
    BY <1>1, <1>2, RowWritten
  <1>4. ScriptInv'
    BY <1>1, <1>3, ClosedFits DEF ScriptInv, Current
  <1> QED BY <1>1, <1>3, <1>4 DEF Inv, TypeOK

\* The end of a session keeps the invariant.
LEMMA FinishStep == ASSUME Inv, FinishSession PROVE Inv'
  <1> DEFINE sc == handler.script
             r == Current
             q == Closed(Current, Arg.outcome, Arg.event)
  <1>1. ~AtRest /\ Arg.op = "finish" /\ Proceed
    BY DEF FinishSession, AtOp, AtRest, Arg
  <1>2. /\ sc \in Seq(Operations) /\ sc # <<>> /\ r \in Row /\ RowGood(r)
        /\ Fits(sc, r, ~broken, lost, edits)
        /\ lost \in Nat /\ edits \in Nat /\ broken \in BOOLEAN
        /\ r = sessions[handler.sid] /\ handler.sid \in DOMAIN sessions
    BY <1>1, CurrentFacts DEF Current, Inv, TypeOK
  <1>3. UNCHANGED <<kind, told, sweeping, lost, edits>>
    BY DEF FinishSession
  <1>4. /\ handler'.sid = handler.sid /\ handler'.script = Tail(sc)
        /\ handler' \in [sid : 0 .. Len(sessions), script : Seq(Operations)]
        /\ ~AtRest' /\ ToldMatchesRow' /\ TrailFollowsSteps'
        /\ WellFormed(Tail(sc)) /\ Arg = sc[1]
    BY <1>1, Proceeds
  <1>5. /\ WellFormed(sc) /\ LeadsThere(sc, r, ~broken) /\ LeavesTrail(sc, r, ~broken /\ lost = 0)
        /\ KeepsReason(sc, r, lost, edits)
    BY <1>2 DEF Fits
  <1>6. CASE IsOpen(r) /\ Write(q) /\ UNCHANGED broken
    <2>1. 1 \in DOMAIN sc /\ sc[1] \in Operations
      BY <1>2, TailFacts
    <2>2. /\ Arg.outcome \in Closings \ {"SCHEDULED"} /\ Arg.event \in EventSet
          /\ ClosesAs(Arg.event, Arg.outcome)
      BY <1>1, <1>4, <1>5, <2>1, OpFacts DEF WellFormed
    <2>3. q \in Row /\ RowGood(q) /\ ~IsOpen(q) /\ q.reason = "none"
      BY <1>2, <1>6, <2>2, CloseRow
    <2> HIDE DEF q
    <2> QED BY <1>1, <1>2, <1>3, <1>6, <2>3, GoesOnClosed
  <1>7. CASE UNCHANGED sessions /\ broken' = (broken \/ IsOpen(r))
    <2> HIDE DEF r
    <2>1. broken' \in BOOLEAN /\ (IsOpen(r) => broken') /\ (broken => broken')
      BY <1>2, <1>7
    <2>2. /\ sessions' \in Seq(Row) /\ Len(sessions') = Len(sessions)
          /\ OneOpen' /\ RowsInv' /\ ReasonAsOffered'
          /\ sessions'[handler.sid] = r
      BY <1>1, <1>2, <1>3, <1>4, <1>7, RowKept DEF r
    <2>3. Fits(Tail(sc), r, ~broken', lost, edits)
      <3>1. CASE ~IsOpen(r)
        BY <1>4, <3>1, ClosedFits
      <3>2. CASE IsOpen(r)
        <4>1. LeadsThere(Tail(sc), r, ~broken')
          <5>1. (~broken') \in BOOLEAN /\ (~broken) \in BOOLEAN /\ ~(~broken')
            BY <2>1, <3>2
          <5> QED BY <1>1, <1>2, <1>4, <1>5, <3>2, <5>1, RestLeads
        <4>2. LeavesTrail(Tail(sc), r, ~broken' /\ lost = 0)
          BY <2>1, <3>2 DEF LeavesTrail
        <4>3. KeepsReason(Tail(sc), r, lost, edits)
          BY <1>1, <1>2, <1>4, <1>5, RestKeeps DEF Chooses, Offers
        <4> QED BY <1>4, <4>1, <4>2, <4>3 DEF Fits
      <3> QED BY <3>1, <3>2
    <2>4. ScriptInv'
      BY <1>3, <1>4, <2>2, <2>3 DEF ScriptInv, Current
    <2> QED BY <1>3, <1>4, <2>1, <2>2, <2>4 DEF Inv, TypeOK
  <1> QED BY <1>6, <1>7 DEF FinishSession

\* The reply keeps the invariant.
LEMMA ReplyStep == ASSUME Inv, SendReply PROVE Inv'
  <1> DEFINE sc == handler.script
             r == Current
  <1>1. ~AtRest /\ Arg.op = "reply" /\ Stop /\ told' = Arg.step
        /\ UNCHANGED <<sessions, kind, sweeping, lost, edits, broken>>
    BY DEF SendReply, AtOp, AtRest, Arg, faults
  <1>2. /\ sc \in Seq(Operations) /\ sc # <<>>
        /\ Fits(sc, r, ~broken, lost, edits)
        /\ lost \in Nat /\ edits \in Nat /\ broken \in BOOLEAN
        /\ handler.sid \in DOMAIN sessions /\ handler.sid = Len(sessions)
        /\ r = sessions[handler.sid]
        /\ Len(sessions) \in Nat
    BY <1>1, CurrentFacts DEF Current, Inv, TypeOK
  <1>3. /\ handler' = [sid |-> 0, script |-> <<>>] /\ AtRest'
        /\ handler' \in [sid : 0 .. Len(sessions), script : Seq(Operations)]
    BY <1>1, <1>2 DEF Stop, AtRest
  <1>4. /\ 1 \in DOMAIN sc /\ DOMAIN sc = 1 .. Len(sc) /\ Arg = sc[1] /\ sc[1] \in Operations
    BY <1>2, TailFacts DEF Arg
  <1>5. /\ Len(sc) = 1 /\ DOMAIN sc = {1} /\ Goal(sc) = told'
        /\ told' \in OpenSteps \cup {"FINISHED"}
    <2>1. 1 = Len(sc) /\ sc[1].op = "reply"
      BY <1>1, <1>2, <1>4 DEF Fits, WellFormed
    <2>2. sc[1].step \in OpenSteps \cup {"FINISHED"}
      BY <1>4, <2>1, OpFacts
    <2>3. Goal(sc) = sc[1].step
      BY <2>1 DEF Goal
    <2>4. DOMAIN sc = {1}
      <3>1. 1 .. 1 = {1}
        OBVIOUS
      <3>2. Len(sc) = 1 /\ DOMAIN sc = 1 .. Len(sc)
        BY <1>4, <2>1
      <3> QED BY <3>1, <3>2, Zenon
    <2>5. told' = sc[1].step
      BY <1>1, <1>4
    <2> QED BY <2>1, <2>2, <2>3, <2>4, <2>5
  <1>6. /\ sessions' \in Seq(Row) /\ OneOpen' /\ RowsInv' /\ ReasonAsOffered'
    BY <1>1, <1>2, <1>3, RowKept
  <1>7. \A i \in OpenIds' : i \in DOMAIN sessions /\ sessions'[i] = r /\ IsOpen(r)
    BY <1>1, <1>2 DEF Inv, OneOpen, OpenIds
  <1> HIDE DEF r
  <1>8. ASSUME ~broken', IsOpen(r) PROVE r.step = told'
    BY <1>1, <1>2, <1>4, <1>5, <1>8 DEF Fits, LeadsThere
  <1>9. ASSUME ~broken', lost' = 0, IsOpen(r) PROVE Last(r.events).type = EventBefore(r.step)
    <2>1. \A i \in DOMAIN sc : sc[i].op \notin {"finish", "record"}
      BY <1>1, <1>4, <1>5
    <2> QED BY <1>1, <1>2, <1>5, <1>8, <1>9, <2>1 DEF Fits, LeavesTrail
  <1>10. ToldMatchesRow'
    BY <1>7, <1>8 DEF ToldMatchesRow
  <1>11. TrailFollowsSteps'
    BY <1>7, <1>9 DEF TrailFollowsSteps
  <1>12. ScriptInv'
    BY <1>3 DEF ScriptInv
  <1> QED BY <1>1, <1>3, <1>5, <1>6, <1>10, <1>11, <1>12 DEF Inv, TypeOK

\* A failure between two statements keeps the invariant.
LEMMA AbortStep == ASSUME Inv, Abort PROVE Inv'
  <1>1. /\ ~AtRest /\ Stop /\ broken' = TRUE
        /\ UNCHANGED <<sessions, kind, told, sweeping, lost, edits>>
    BY DEF Abort, AtRest
  <1>2. lost \in Nat /\ edits \in Nat /\ Len(sessions) \in Nat
    BY <1>1, CurrentFacts
  <1>3. /\ handler' = [sid |-> 0, script |-> <<>>] /\ AtRest'
        /\ handler' \in [sid : 0 .. Len(sessions), script : Seq(Operations)]
    BY <1>1, <1>2 DEF Stop, AtRest
  <1>4. sessions' \in Seq(Row) /\ OneOpen' /\ RowsInv' /\ ReasonAsOffered'
    BY <1>1, <1>2, <1>3, RowKept
  <1>5. ScriptInv' /\ ToldMatchesRow' /\ TrailFollowsSteps'
    BY <1>1, <1>3 DEF ScriptInv, ToldMatchesRow, TrailFollowsSteps
  <1> QED BY <1>1, <1>3, <1>4, <1>5 DEF Inv, TypeOK

\* The reason of the appointment is that of the offer, if at most one event
\* was lost or question changed.
LEMMA BookedReason ==
  ASSUME Inv, ~AtRest, IsOpen(Current), Current.step = "AWAITING_SLOT",
         NEW readable \in BOOLEAN, NEW l \in Nat, l = IF readable THEN lost ELSE lost + 1
  PROVE  /\ BookingReason(readable) \in Reasons
         /\ l + edits <= 1 => BookingReason(readable) = Current.offered
  <1> DEFINE r == Current
             found == OfferedReason(r.events)
  <1>1. /\ r \in Row /\ RowGood(r) /\ r.events \in Seq(EventSet)
        /\ Agrees(r.events, r, lost, edits) /\ lost \in Nat /\ edits \in Nat
    BY CurrentFacts
  <1>2. r.question \in Question
    BY <1>1 DEF RowGood, Complete, Row, OpenSteps
  <1>3. found \in Reasons \cup {"none"}
    BY <1>1, OfferedIsReason DEF RowGood
  <1>4. ReasonFromQuestion(r.question) \in Reasons
    BY DEF ReasonFromQuestion, Reasons
  <1>5. edits = 0 => ReasonFromQuestion(r.question) = FirstReason(r.question)
    BY DEF Inv, ReasonFromQuestion, FirstReason
  <1>6. /\ r.offered \in Reasons
        /\ lost = 0 => found = r.offered
        /\ lost <= 1 /\ edits = 0 => found \in {"none", r.offered}
        /\ edits = 0 => FirstReason(r.question) = r.offered
    BY <1>1 DEF Agrees, LateSteps
  <1>7. "none" \notin Reasons
    BY DEF Reasons
  <1> DEFINE offered == IF readable THEN found ELSE "none"
  <1>8. BookingReason(readable) = IF offered # "none" THEN offered ELSE ReasonFromQuestion(r.question)
    BY DEF BookingReason
  <1> HIDE DEF r, found
  <1>9. ASSUME l + edits <= 1
        PROVE  \/ edits = 0 /\ lost <= 1
               \/ readable /\ lost = 0
    <2>1. CASE readable
      BY <1>1, <1>9, <2>1
    <2>2. CASE ~readable
      BY <1>1, <1>9, <2>2
    <2> QED BY <2>1, <2>2
  <1>10. ASSUME l + edits <= 1 PROVE BookingReason(readable) = r.offered
    BY <1>5, <1>6, <1>7, <1>8, <1>9, <1>10
  <1> QED BY <1>3, <1>4, <1>8, <1>10 DEF r

\* A booking, done, refused or failed, keeps the invariant.
LEMMA BookStep == ASSUME Inv, BookSlot PROVE Inv'
  <1> DEFINE sc == handler.script
             r == Current
             ask == Ask(Current, "AWAITING_SLOT")
  <1>1. ~AtRest /\ Arg.op = "book" /\ UNCHANGED <<kind, told, sweeping, edits, broken>>
    BY DEF BookSlot, AtOp, AtRest, Arg
  <1>2. /\ sc \in Seq(Operations) /\ sc # <<>> /\ r \in Row /\ RowGood(r)
        /\ Fits(sc, r, ~broken, lost, edits)
        /\ IsOpen(r) => Agrees(r.events, r, lost, edits)
        /\ lost \in Nat /\ edits \in Nat /\ broken \in BOOLEAN /\ (~broken) \in BOOLEAN
        /\ r = sessions[handler.sid] /\ handler.sid \in DOMAIN sessions
        /\ handler.sid \in 0 .. Len(sessions)
    BY <1>1, CurrentFacts DEF Current, Inv, TypeOK
  <1>3. PICK readable \in BOOLEAN :
          /\ readable \/ MayUpset
          /\ lost' = IF readable THEN lost ELSE lost + 1
          /\ \/ /\ IsOpen(r)
                /\ Write(Booked(r, BookingReason(readable)))
                /\ \E answer \in {"FINISHED", "AWAITING_SLOT"} :
                       handler' = [handler EXCEPT !.script = <<Reply(answer)>>]
             \/ /\ \E t \in {NoSlotReply, ask, <<Reply("AWAITING_SLOT")>>} :
                       handler' = [handler EXCEPT !.script = t]
                /\ UNCHANGED sessions
    BY DEF BookSlot
  <1>4. /\ 1 \in DOMAIN sc /\ DOMAIN sc = 1 .. Len(sc) /\ Arg = sc[1]
    BY <1>2, TailFacts DEF Arg
  <1>5. Len(sc) = 1 /\ DOMAIN sc = {1} /\ Goal(sc) = "AWAITING_SLOT"
    <2>1. 1 = Len(sc) /\ sc[1].op = "book"
      BY <1>1, <1>2, <1>4 DEF Fits, WellFormed
    <2> QED BY <1>4, <2>1 DEF Goal
  <1>6. IsOpen(r) => /\ r.step = "AWAITING_SLOT"
                     /\ ~broken /\ lost = 0 => Last(r.events).type = EventBefore("AWAITING_SLOT")
    BY <1>1, <1>2, <1>4, <1>5 DEF Fits, LeadsThere, LeavesTrail
  <1>7. /\ lost' \in Nat /\ lost <= lost' /\ edits' \in Nat /\ edits <= edits'
        /\ lost' = 0 => lost = 0
        /\ {lost', edits'} \subseteq Nat /\ lost' + edits' <= MaxUpsets
    <2>1. MaxUpsets \in Nat /\ lost + edits <= MaxUpsets
      BY FlowAssumption DEF Inv, TypeOK
    <2>2. CASE readable
      BY <1>1, <1>2, <1>3, <2>1, <2>2
    <2>3. CASE ~readable
      BY <1>1, <1>2, <1>3, <2>1, <2>3 DEF MayUpset
    <2> QED BY <2>2, <2>3
  <1>8. ASSUME NEW t \in Seq(Operations), t # <<>>, handler' = [handler EXCEPT !.script = t]
        PROVE  /\ handler'.sid = handler.sid /\ handler'.script = t
               /\ handler' \in [sid : 0 .. Len(sessions), script : Seq(Operations)]
               /\ ~AtRest' /\ ToldMatchesRow' /\ TrailFollowsSteps'
    <2>1. handler \in [sid : 0 .. Len(sessions), script : Seq(Operations)]
      BY DEF Inv, TypeOK
    <2>2. /\ handler'.sid = handler.sid /\ handler'.script = t
          /\ handler' \in [sid : 0 .. Len(sessions), script : Seq(Operations)]
      BY <1>8, <2>1
    <2> QED BY <1>8, <2>2 DEF AtRest, ToldMatchesRow, TrailFollowsSteps
  <1>9. CASE /\ IsOpen(r)
             /\ Write(Booked(r, BookingReason(readable)))
             /\ \E answer \in {"FINISHED", "AWAITING_SLOT"} :
                    handler' = [handler EXCEPT !.script = <<Reply(answer)>>]
    <2> DEFINE why == BookingReason(readable)
               q == Booked(r, why)
    <2>1. PICK answer \in {"FINISHED", "AWAITING_SLOT"} :
             handler' = [handler EXCEPT !.script = <<Reply(answer)>>]
      BY <1>9
    <2>2. why \in Reasons /\ (lost' + edits <= 1 => why = r.offered)
      BY <1>1, <1>2, <1>3, <1>6, <1>7, <1>9, BookedReason
    <2> HIDE DEF why
    <2>3. /\ q \in Row /\ RowGood(q) /\ ~IsOpen(q) /\ q.reason = why /\ q.offered = r.offered
      BY <1>2, <1>9, <2>2, BookRow
    <2>4. Write(q)
      BY <1>9 DEF why
    <2> HIDE DEF q
    <2>5. /\ <<Reply(answer)>> \in Seq(Operations) /\ <<Reply(answer)>> # <<>>
          /\ Fits(<<Reply(answer)>>, q, ~broken, lost', edits')
      <3>1. answer \in OpenSteps \cup {"FINISHED"}
        BY DEF OpenSteps
      <3> QED BY <1>2, <1>7, <2>3, <3>1, ReplyFits
    <2>6. /\ handler'.sid = handler.sid /\ handler'.script = <<Reply(answer)>>
          /\ handler' \in [sid : 0 .. Len(sessions), script : Seq(Operations)]
          /\ ~AtRest' /\ ToldMatchesRow' /\ TrailFollowsSteps'
      BY <1>8, <2>1, <2>5
    <2>7. q.reason # "none" /\ lost' + edits' <= 1 => q.reason = q.offered
      BY <1>1, <2>2, <2>3
    <2>8. /\ sessions' \in Seq(Row) /\ Len(sessions') = Len(sessions)
          /\ OneOpen' /\ RowsInv' /\ ReasonAsOffered'
          /\ sessions'[handler.sid] = q
      BY <1>1, <1>7, <2>3, <2>4, <2>6, <2>7, RowWritten
    <2>9. ScriptInv'
      BY <1>1, <2>5, <2>6, <2>8 DEF ScriptInv, Current
    <2> QED BY <1>1, <1>7, <2>6, <2>8, <2>9 DEF Inv, TypeOK
  <1>10. CASE /\ \E t \in {NoSlotReply, ask, <<Reply("AWAITING_SLOT")>>} :
                    handler' = [handler EXCEPT !.script = t]
              /\ UNCHANGED sessions
    <2>1. PICK t \in {NoSlotReply, ask, <<Reply("AWAITING_SLOT")>>} :
             handler' = [handler EXCEPT !.script = t]
      BY <1>10
    <2>2. t \in Seq(Operations) /\ t # <<>> /\ Fits(t, r, ~broken, lost', edits')
      <3>1. CASE t = NoSlotReply
        <4> DEFINE x == Plain("NO_SLOT")
        <4>1. /\ x \in EventSet /\ ClosesAs(x, "NO_SLOT")
              /\ "NO_SLOT" \in Closings \ {"SCHEDULED"}
          BY DEF EventSet, EventTypes, Plain, Event, ClosingEvent, ClosesAs, Closings
        <4>2. t = CloseWith("NO_SLOT", x)
          BY <3>1 DEF NoSlotReply
        <4> HIDE DEF x
        <4> QED BY <1>2, <1>7, <4>1, <4>2, CloseFits
      <3>2. CASE t = ask
        <4> DEFINE c == Columns(r, "AWAITING_SLOT")
        <4>1. t = <<Nav(c), Reply("AWAITING_SLOT")>>
          BY <3>2 DEF Ask
        <4>2. /\ c \in ColumnSet /\ c.step = "AWAITING_SLOT" /\ c.category = r.category
              /\ c.question = r.question /\ c.draft = r.draft /\ c.offered = r.offered
          <5>1. r \in Row /\ "AWAITING_SLOT" \in OpenSteps
            BY <1>2 DEF OpenSteps
          <5> HIDE DEF r
          <5> QED BY <5>1 DEF Columns, ColumnSet, Row
        <4> HIDE DEF c, r
        <4>3. ASSUME IsOpen(r) PROVE Complete(c) /\ Agrees(r.events, c, lost', edits')
          <5>1. Agrees(r.events, r, lost', edits')
            BY <1>2, <1>7, <4>3, AgreesLater
          <5>2. Complete(r)
            BY <1>2, <4>3 DEF RowGood
          <5> QED BY <1>6, <4>2, <4>3, <5>1, <5>2 DEF Complete, Agrees
        <4>4. IsOpen(r) /\ ~broken /\ lost' = 0 => Last(r.events).type = EventBefore(c.step)
          BY <1>6, <1>7, <4>2
        <4>5. <<Nav(c), Reply(c.step)>> \in Seq(Operations) /\ <<Nav(c), Reply(c.step)>> # <<>>
              /\ Fits(<<Nav(c), Reply(c.step)>>, r, ~broken, lost', edits')
          BY <1>2, <1>7, <4>2, <4>3, <4>4, AskFits
        <4> QED BY <4>1, <4>2, <4>5
      <3>3. CASE t = <<Reply("AWAITING_SLOT")>>
        <4>1. "AWAITING_SLOT" \in OpenSteps \cup {"FINISHED"}
          BY DEF OpenSteps
        <4> HIDE DEF r
        <4>2. /\ IsOpen(r) /\ ~broken => "AWAITING_SLOT" = r.step
              /\ IsOpen(r) /\ ~broken /\ lost' = 0 => Last(r.events).type = EventBefore("AWAITING_SLOT")
          BY <1>6, <1>7
        <4> QED BY <1>2, <1>7, <3>3, <4>1, <4>2, ReplyFits
      <3> QED BY <2>1, <3>1, <3>2, <3>3
    <2> HIDE DEF r
    <2>3. /\ handler'.sid = handler.sid /\ handler'.script = t
          /\ handler' \in [sid : 0 .. Len(sessions), script : Seq(Operations)]
          /\ ~AtRest' /\ ToldMatchesRow' /\ TrailFollowsSteps'
      BY <1>8, <2>1, <2>2
    <2>4. /\ sessions' \in Seq(Row) /\ Len(sessions') = Len(sessions)
          /\ OneOpen' /\ RowsInv' /\ ReasonAsOffered'
          /\ sessions'[handler.sid] = r
      BY <1>1, <1>7, <1>10, <2>3, RowKept DEF r
    <2>5. ScriptInv'
      BY <1>1, <2>2, <2>3, <2>4 DEF ScriptInv, Current
    <2> QED BY <1>1, <1>7, <2>3, <2>4, <2>5 DEF Inv, TypeOK
  <1> QED BY <1>3, <1>9, <1>10

\* The sessions once the abandoned one of the phone is closed.
LEMMA WithoutStaleFacts ==
  ASSUME Inv
  PROVE  /\ WithoutStale \in Seq(Row) /\ Len(WithoutStale) = Len(sessions)
         /\ DOMAIN WithoutStale = DOMAIN sessions /\ DOMAIN sessions = 1 .. Len(sessions)
         /\ Len(sessions) \in Nat
         /\ \A i \in DOMAIN sessions :
               /\ RowGood(WithoutStale[i])
               /\ IsOpen(WithoutStale[i]) => WithoutStale[i] = sessions[i] /\ ~sessions[i].idle
               /\ WithoutStale[i].reason # "none" => WithoutStale[i] = sessions[i]
  <1>1. sessions \in Seq(Row) /\ Len(sessions) \in Nat /\ DOMAIN sessions = 1 .. Len(sessions)
    BY LenProperties DEF Inv, TypeOK
  <1>2. \A i \in DOMAIN sessions : sessions[i] \in Row /\ RowGood(sessions[i])
    BY <1>1, ElementOfSeq DEF Inv, RowsInv
  <1>3. DOMAIN WithoutStale = DOMAIN sessions
    BY DEF WithoutStale
  <1>4. \A i \in DOMAIN sessions : WithoutStale[i] =
           IF IsOpen(sessions[i]) /\ sessions[i].idle THEN Abandoned(sessions[i]) ELSE sessions[i]
    BY DEF WithoutStale
  <1>5. ASSUME NEW i \in DOMAIN sessions
        PROVE  /\ WithoutStale[i] \in Row /\ RowGood(WithoutStale[i])
               /\ IsOpen(WithoutStale[i]) => WithoutStale[i] = sessions[i] /\ ~sessions[i].idle
               /\ WithoutStale[i].reason # "none" => WithoutStale[i] = sessions[i]
    <2>1. CASE IsOpen(sessions[i]) /\ sessions[i].idle
      <3>1. WithoutStale[i] = Abandoned(sessions[i])
        BY <1>4, <2>1
      <3> QED BY <1>2, <2>1, <3>1, AbandonRow
    <2>2. CASE ~(IsOpen(sessions[i]) /\ sessions[i].idle)
      <3>1. WithoutStale[i] = sessions[i]
        BY <1>4, <2>2
      <3> QED BY <1>2, <2>2, <3>1
    <2> QED BY <2>1, <2>2
  <1>6. WithoutStale = [i \in 1 .. Len(sessions) |-> WithoutStale[i]]
    BY <1>1 DEF WithoutStale
  <1>7. WithoutStale \in Seq(Row) /\ Len(WithoutStale) = Len(sessions)
    <2>1. \A i \in 1 .. Len(sessions) : WithoutStale[i] \in Row
      BY <1>1, <1>5
    <2> HIDE DEF WithoutStale
    <2> QED BY <1>1, <1>3, <1>6, <2>1, SeqDef, LenProperties
  <1> QED BY <1>1, <1>3, <1>5, <1>7

\* A message received, with the script it starts, keeps the invariant.
LEMMA ReceiveStep == ASSUME Inv, Receive PROVE Inv'
  <1>1. AtRest /\ UNCHANGED <<kind, told, sweeping, lost, edits, broken>>
    BY DEF Receive, AtRest, faults
  <1>2. /\ sessions \in Seq(Row) /\ Len(sessions) \in Nat /\ DOMAIN sessions = 1 .. Len(sessions)
        /\ lost \in Nat /\ edits \in Nat /\ (~broken) \in BOOLEAN
    BY LenProperties DEF Inv, TypeOK
  <1>3. ASSUME NEW i \in OpenIds, NEW sc \in Scripts(sessions[i]),
               handler' = [sid |-> i, script |-> <<Touch>> \o sc], UNCHANGED sessions
        PROVE  Inv'
    <2> DEFINE r == sessions[i]
               all == <<Touch>> \o sc
    <2>1. /\ r \in Row /\ RowGood(r) /\ IsOpen(r) /\ Agrees(r.events, r, lost, edits)
          /\ i \in DOMAIN sessions /\ i = Len(sessions)
      BY <1>2, ElementOfSeq DEF Inv, RowsInv, OneOpen, OpenIds
    <2>2. ~broken /\ lost = 0 => Last(r.events).type = EventBefore(r.step)
      BY <1>1 DEF Inv, TrailFollowsSteps
    <2>3. TypeOK /\ (edits = 0 => kind = Kinds)
      BY DEF Inv
    <2> HIDE DEF r
    <2>4. sc \in Seq(Operations) /\ sc # <<>> /\ Fits(sc, r, ~broken, lost, edits)
      BY <2>1, <2>2, <2>3, ScriptsFit DEF r
    <2>5. all \in Seq(Operations) /\ all # <<>> /\ Fits(all, r, ~broken, lost, edits)
      BY <1>2, <2>4, TouchFirst
    <2> HIDE DEF all
    <2>6. /\ handler' = [sid |-> i, script |-> all] /\ handler'.sid = i /\ handler'.script = all
          /\ handler' \in [sid : 0 .. Len(sessions), script : Seq(Operations)] /\ ~AtRest'
      BY <1>2, <1>3, <2>1, <2>5 DEF all, AtRest
    <2>7. OpenIds' = OpenIds
      BY <1>3 DEF OpenIds, IsOpen
    <2>8. OneOpen' /\ ReasonAsOffered'
      BY <1>1, <1>2, <1>3, <2>1, <2>6, <2>7 DEF Inv, OneOpen, ReasonAsOffered
    <2>9. RowsInv'
      BY <1>1, <1>3, <2>7 DEF Inv, RowsInv
    <2>10. ScriptInv'
      BY <1>1, <1>3, <2>5, <2>6 DEF ScriptInv, Current, r
    <2>11. ToldMatchesRow' /\ TrailFollowsSteps'
      BY <2>6 DEF ToldMatchesRow, TrailFollowsSteps
    <2>12. TypeOK'
      BY <1>1, <1>3, <2>6 DEF Inv, TypeOK
    <2> QED BY <1>1, <2>8, <2>9, <2>10, <2>11, <2>12 DEF Inv
  <1>4. ASSUME \A i \in OpenIds : sessions[i].idle, sessions' = Append(WithoutStale, NewRow),
               handler' = [sid |-> Len(sessions) + 1, script |-> StartOver]
        PROVE  Inv'
    <2> DEFINE n == Len(sessions) + 1
               old == WithoutStale
    <2>1. /\ old \in Seq(Row) /\ Len(old) = Len(sessions)
          /\ DOMAIN old = DOMAIN sessions /\ DOMAIN sessions = 1 .. Len(sessions)
          /\ Len(sessions) \in Nat
          /\ \A i \in DOMAIN sessions :
                /\ RowGood(old[i])
                /\ IsOpen(old[i]) => old[i] = sessions[i] /\ ~sessions[i].idle
                /\ old[i].reason # "none" => old[i] = sessions[i]
      BY WithoutStaleFacts
    <2> HIDE DEF old
    <2>2. NewRow \in Row /\ RowGood(NewRow) /\ IsOpen(NewRow)
      BY NewRowGood
    <2>3. /\ sessions' \in Seq(Row) /\ Len(sessions') = n
          /\ DOMAIN sessions' = 1 .. n
          /\ \A i \in DOMAIN sessions : sessions'[i] = old[i]
          /\ sessions'[n] = NewRow
      BY <1>4, <2>1, <2>2, AppendFacts DEF old
    <2>4. \A i \in DOMAIN sessions : ~IsOpen(old[i])
      BY <1>4, <2>1 DEF OpenIds
    <2>5. \A i \in OpenIds' : i = n
      BY <2>1, <2>3, <2>4 DEF OpenIds, IsOpen
    <2>6. /\ NewRow.events = <<Plain("STARTED")>> /\ NewRow.step = "AWAITING_CATEGORY"
          /\ NewRow.reason = "none"
      BY DEF NewRow
    <2>7. StartOver \in Seq(Operations) /\ StartOver # <<>> /\ Fits(StartOver, NewRow, ~broken, lost, edits)
      <3> DEFINE c == [step |-> "AWAITING_CATEGORY", category |-> FALSE,
                       question |-> "none", draft |-> {}, offered |-> "none"]
      <3>1. c \in ColumnSet /\ c.step = "AWAITING_CATEGORY"
        BY DEF ColumnSet, OpenSteps
      <3>2. StartOver = <<Nav(c), Reply("AWAITING_CATEGORY")>>
        BY DEF StartOver
      <3> HIDE DEF c
      <3>3. Complete(c) /\ Agrees(NewRow.events, c, lost, edits)
        BY <3>1 DEF Complete, Agrees, LateSteps, OpenSteps
      <3>4. Last(NewRow.events).type = EventBefore(c.step)
        BY <2>6, <3>1 DEF Last, Plain, Event, EventBefore
      <3> QED BY <1>2, <3>1, <3>2, <3>3, <3>4, AskFits
    <2> HIDE DEF n
    <2>8. /\ handler'.sid = n /\ handler'.script = StartOver /\ ~AtRest'
          /\ handler' \in [sid : 0 .. n, script : Seq(Operations)]
      BY <1>2, <1>4, <2>7 DEF n, AtRest
    <2>9. OneOpen'
      BY <1>2, <2>3, <2>5, <2>8 DEF OneOpen, n
    <2>10. \A i \in 1 .. n : i = n \/ i \in DOMAIN sessions
      BY <1>2 DEF n
    <2>11. RowsInv'
      <3>1. \A i \in 1 .. n : RowGood(sessions'[i])
        BY <2>1, <2>2, <2>3, <2>10
      <3>2. Agrees(NewRow.events, NewRow, lost, edits)
        BY <2>6 DEF Agrees, LateSteps
      <3> QED BY <1>1, <2>3, <2>5, <3>1, <3>2 DEF RowsInv
    <2>12. ReasonAsOffered'
      <3>1. \A i \in 1 .. n : sessions'[i].reason # "none" =>
               i \in DOMAIN sessions /\ sessions'[i] = sessions[i]
        BY <2>1, <2>3, <2>6, <2>10
      <3> QED BY <1>1, <2>3, <3>1 DEF Inv, ReasonAsOffered
    <2>13. ScriptInv'
      BY <1>1, <2>3, <2>7, <2>8 DEF ScriptInv, Current
    <2>14. ToldMatchesRow' /\ TrailFollowsSteps'
      BY <2>8 DEF ToldMatchesRow, TrailFollowsSteps
    <2>15. TypeOK'
      BY <1>1, <2>3, <2>8 DEF Inv, TypeOK
    <2> QED BY <1>1, <2>9, <2>11, <2>12, <2>13, <2>14, <2>15 DEF Inv
  <1> QED BY <1>3, <1>4 DEF Receive

\* What happens beside a script keeps the invariant.
LEMMA BesideStep ==
  ASSUME Inv, GrowIdle \/ SweepTick \/ Sweep \/ SweepFails \/ ClearRunning \/ EditQuestion \/ UNCHANGED vars
  PROVE  Inv'
  <1> DEFINE Alike == \A i \in DOMAIN sessions :
                /\ RowGood(sessions'[i])
                /\ IsOpen(sessions'[i]) =>
                      /\ IsOpen(sessions[i]) /\ sessions'[i].step = sessions[i].step
                      /\ sessions'[i].events = sessions[i].events
                      /\ sessions'[i].offered = sessions[i].offered
                      /\ sessions'[i].question = sessions[i].question
                /\ sessions'[i].reason # "none" =>
                      sessions'[i].reason = sessions[i].reason /\ sessions'[i].offered = sessions[i].offered
  <1>1. /\ sessions \in Seq(Row) /\ Len(sessions) \in Nat /\ DOMAIN sessions = 1 .. Len(sessions)
        /\ lost \in Nat /\ edits \in Nat
        /\ \A i \in DOMAIN sessions : sessions[i] \in Row /\ RowGood(sessions[i])
    BY LenProperties, ElementOfSeq DEF Inv, TypeOK, RowsInv
  <1>2. UNCHANGED sessions => sessions' \in Seq(Row) /\ Len(sessions') = Len(sessions) /\ Alike
    BY <1>1
  <1>3. CASE GrowIdle
    <2>1. PICK n \in OpenIds : sessions' = [sessions EXCEPT ![n].idle = TRUE]
      BY <1>3 DEF GrowIdle
    <2>2. UNCHANGED <<kind, handler, told, sweeping, lost, edits, broken>>
      BY <1>3 DEF GrowIdle, faults
    <2> DEFINE q == [sessions[n] EXCEPT !.idle = TRUE]
    <2>3. n \in DOMAIN sessions /\ sessions' = [sessions EXCEPT ![n] = q]
      BY <2>1 DEF OpenIds
    <2>4. /\ q \in Row /\ RowGood(q) /\ (IsOpen(q) <=> IsOpen(sessions[n]))
          /\ q.step = sessions[n].step /\ q.events = sessions[n].events
          /\ q.offered = sessions[n].offered
          /\ q.question = sessions[n].question /\ q.reason = sessions[n].reason
      BY <1>1, <2>3, IdleRow
    <2> HIDE DEF q
    <2>5. /\ sessions' \in Seq(Row) /\ Len(sessions') = Len(sessions)
          /\ \A i \in DOMAIN sessions : sessions'[i] = IF i = n THEN q ELSE sessions[i]
      BY <1>1, <2>3, <2>4, ExceptSeq
    <2>6. Alike
      BY <1>1, <2>4, <2>5
    <2>7. TypeOK'
      BY <2>2, <2>5 DEF Inv, TypeOK
    <2> HIDE DEF Alike
    <2> QED BY <1>1, <2>2, <2>5, <2>6, <2>7, Meanwhile DEF Inv, Alike
  <1>4. CASE Sweep
    <2>1. /\ sessions' = WithoutStale /\ sweeping' \in {"no", "begun", "done", "failed"}
          /\ UNCHANGED <<kind, handler, told, lost, edits, broken>>
      BY <1>4 DEF Sweep, faults
    <2>2. sessions' \in Seq(Row) /\ Len(sessions') = Len(sessions) /\ Alike
      BY <2>1, WithoutStaleFacts
    <2>3. TypeOK'
      BY <2>1, <2>2 DEF Inv, TypeOK
    <2> HIDE DEF Alike
    <2> QED BY <1>1, <2>1, <2>2, <2>3, Meanwhile DEF Inv, Alike
  <1>5. CASE SweepTick \/ SweepFails \/ ClearRunning \/ UNCHANGED vars
    <2>1. /\ sweeping' \in {"no", "begun", "done", "failed"}
          /\ UNCHANGED <<sessions, kind, handler, told, lost, edits, broken>>
      BY <1>5 DEF SweepTick, SweepFails, ClearRunning, vars, faults, Inv, TypeOK
    <2>2. TypeOK'
      BY <2>1 DEF Inv, TypeOK
    <2> HIDE DEF Alike
    <2> QED BY <1>1, <1>2, <2>1, <2>2, Meanwhile DEF Inv, Alike
  <1>6. CASE EditQuestion
    <2>1. /\ MayUpset /\ edits' = edits + 1
          /\ \E q \in Question : \E k \in KindSet \ {kind[q]} : kind' = [kind EXCEPT ![q] = k]
          /\ UNCHANGED <<sessions, handler, told, sweeping, lost, broken>>
      BY <1>6 DEF EditQuestion
    <2>2. kind' \in [Question -> KindSet]
      BY <2>1 DEF Inv, TypeOK
    <2>3. /\ edits' \in Nat /\ edits <= edits' /\ edits' # 0 /\ {lost', edits'} \subseteq Nat
          /\ lost' + edits' <= MaxUpsets
      <3>1. MaxUpsets \in Nat
        BY FlowAssumption
      <3> QED BY <1>1, <2>1, <3>1 DEF MayUpset
    <2>4. TypeOK'
      BY <2>1, <2>2, <2>3 DEF Inv, TypeOK
    <2> HIDE DEF Alike
    <2> QED BY <1>1, <1>2, <2>1, <2>3, <2>4, Meanwhile DEF Inv, Alike
  <1> QED BY <1>3, <1>4, <1>5, <1>6

\* The invariant holds before the first message.
LEMMA InitInv == ASSUME Init PROVE Inv
  <1>1. sessions = <<>> /\ OpenIds = {} /\ DOMAIN sessions = {} /\ sessions \in Seq(Row)
        /\ Len(sessions) = 0
    BY DEF Init, OpenIds
  <1>2. AtRest
    BY DEF Init, AtRest
  <1>3. TypeOK
    <2>1. handler \in [sid : 0 .. 0, script : Seq(Operations)]
      BY DEF Init
    <2>2. kind \in [Question -> KindSet] /\ MaxUpsets \in Nat
      BY FlowAssumption DEF Init
    <2>3. {lost, edits} \subseteq Nat /\ lost + edits <= MaxUpsets
      BY <2>2 DEF Init
    <2> QED BY <1>1, <2>1, <2>2, <2>3 DEF Init, TypeOK
  <1>4. OneOpen /\ ScriptInv
    BY <1>1, <1>2 DEF OneOpen, ScriptInv
  <1>5. RowsInv
    BY <1>1 DEF RowsInv
  <1>6. ReasonAsOffered /\ ToldMatchesRow /\ TrailFollowsSteps
    BY <1>1 DEF ReasonAsOffered, ToldMatchesRow, TrailFollowsSteps
  <1>7. edits = 0 => kind = Kinds
    BY DEF Init
  <1> QED BY <1>3, <1>4, <1>5, <1>6, <1>7 DEF Inv

-----------------------------------------------------------------------------
(* Theorems                                                                *)

\* Every step keeps the invariant.
LEMMA NextInv == ASSUME Inv, [Next]_vars PROVE Inv'
  <1>1. ASSUME Handle PROVE Inv'
    BY <1>1, TouchStep, NavigateStep, RecordStep, FinishStep, BookStep, ReplyStep DEF Handle
  <1> QED BY <1>1, ReceiveStep, AbortStep, BesideStep DEF Next

\* Whatever the messages, the sweep, the panel and the failures do, the rows
\* and what is left of the script being run agree.
THEOREM FlowInvariance == Spec => []Inv
  <1>1. Init => Inv
    BY InitInv
  <1>2. Inv /\ [Next]_vars => Inv'
    BY NextInv
  <1> QED BY <1>1, <1>2, PTL DEF Spec

\* The rows, the script and the counters keep their types.
THEOREM FlowTypeCorrect == Spec => []TypeOK
  <1>1. Inv => TypeOK
    BY DEF Inv
  <1> QED BY <1>1, FlowInvariance, PTL

\* A session has the one outcome its closing event names.
THEOREM OneOutcomeTheorem == Spec => []OneOutcome
  <1>1. Inv => OneOutcome
    BY DEF Inv, RowsInv, RowGood, OneOutcome
  <1> QED BY <1>1, FlowInvariance, PTL

\* An open session has what the handlers of its step need.
THEOREM RowCompleteTheorem == Spec => []RowComplete
  <1>1. Inv => RowComplete
    BY DEF Inv, RowsInv, RowGood, RowComplete, OpenIds
  <1> QED BY <1>1, FlowInvariance, PTL

\* The appointment keeps the reason of the offer the citizen accepted.
THEOREM ReasonAsOfferedTheorem == Spec => []ReasonAsOffered
  <1>1. Inv => ReasonAsOffered
    BY DEF Inv
  <1> QED BY <1>1, FlowInvariance, PTL

\* Without failures the citizen was told the step the session is at.
THEOREM ToldMatchesRowTheorem == Spec => []ToldMatchesRow
  <1>1. Inv => ToldMatchesRow
    BY DEF Inv
  <1> QED BY <1>1, FlowInvariance, PTL

\* Without failures the events tell how a session got to its step.
THEOREM TrailFollowsStepsTheorem == Spec => []TrailFollowsSteps
  <1>1. Inv => TrailFollowsSteps
    BY DEF Inv
  <1> QED BY <1>1, FlowInvariance, PTL

\* A closed session only gets more events.
THEOREM ClosedIsFinalTheorem == Spec => ClosedIsFinal
  <1> DEFINE Kept == \A i \in DOMAIN sessions : ~IsOpen(sessions[i]) =>
                        \E more \in {sessions[i].events, sessions'[i].events} :
                            sessions'[i] = [sessions[i] EXCEPT !.events = more]
  <1>1. ASSUME Inv, [Next]_vars PROVE [Kept]_vars
    <2>0. /\ sessions \in Seq(Row) /\ Len(sessions) \in Nat /\ DOMAIN sessions = 1 .. Len(sessions)
          /\ \A i \in DOMAIN sessions : sessions[i] \in Row
      BY <1>1, LenProperties, ElementOfSeq DEF Inv, TypeOK
    <2>1. ASSUME \A i \in DOMAIN sessions : ~IsOpen(sessions[i]) => sessions'[i] = sessions[i]
          PROVE  Kept
      <3>1. \A r \in Row : r = [r EXCEPT !.events = r.events]
        BY DEF Row
      <3> QED BY <2>0, <2>1, <3>1
    <2>2. ASSUME NEW q, ~AtRest, Write(q),
                 \/ IsOpen(Current)
                 \/ \E more : q = [Current EXCEPT !.events = more]
          PROVE  Kept
      <3>1. handler.sid \in DOMAIN sessions /\ Current = sessions[handler.sid] /\ Current \in Row
        BY <1>1, <2>2, CurrentFacts DEF Current
      <3>2. \A i \in DOMAIN sessions : sessions'[i] = IF i = handler.sid THEN q ELSE sessions[i]
        BY <2>0, <2>2, <3>1 DEF Write
      <3>3. CASE IsOpen(Current)
        BY <2>1, <3>1, <3>2, <3>3
      <3>4. CASE \E more : q = [Current EXCEPT !.events = more]
        <4>1. PICK more : q = [Current EXCEPT !.events = more]
          BY <3>4
        <4>2. q.events = more
          BY <3>1, <4>1 DEF Row
        <4>3. \A r \in Row : r = [r EXCEPT !.events = r.events]
          BY DEF Row
        <4> QED BY <2>0, <3>1, <3>2, <4>1, <4>2, <4>3
      <3> QED BY <2>2, <3>3, <3>4
    <2> HIDE DEF Kept
    <2>3. CASE UNCHANGED sessions
      BY <2>1, <2>3
    <2>4. CASE Receive
      <3>1. CASE sessions' = Append(WithoutStale, NewRow)
        <4>1. \A i \in DOMAIN sessions : ~IsOpen(sessions[i]) => WithoutStale[i] = sessions[i]
          BY DEF WithoutStale
        <4>2. \A i \in DOMAIN sessions : sessions'[i] = WithoutStale[i]
          BY <1>1, <3>1, WithoutStaleFacts, NewRowGood, AppendFacts
        <4> QED BY <2>1, <4>1, <4>2
      <3> QED BY <2>3, <2>4, <3>1 DEF Receive
    <2>5. CASE TouchSession
      BY <2>2, <2>3, <2>5 DEF TouchSession, AtOp, AtRest
    <2>6. CASE Navigate
      BY <2>2, <2>3, <2>6 DEF Navigate, AtOp, AtRest
    <2>7. CASE RecordEvent
      BY <2>2, <2>3, <2>7 DEF RecordEvent, AtOp, AtRest, Recorded
    <2>8. CASE FinishSession
      BY <2>2, <2>3, <2>8 DEF FinishSession, AtOp, AtRest
    <2>9. CASE BookSlot
      BY <2>2, <2>3, <2>9 DEF BookSlot, AtOp, AtRest
    <2>10. CASE GrowIdle
      BY <2>0, <2>1, <2>10 DEF GrowIdle, OpenIds
    <2>11. CASE Sweep
      BY <2>1, <2>11 DEF Sweep, WithoutStale
    <2>12. CASE SendReply \/ Abort \/ SweepTick \/ SweepFails \/ ClearRunning \/ EditQuestion
                 \/ UNCHANGED vars
      BY <2>3, <2>12 DEF SendReply, Abort, SweepTick, SweepFails, ClearRunning, EditQuestion, vars
    <2>13. CASE Handle
      BY <2>5, <2>6, <2>7, <2>8, <2>9, <2>12, <2>13 DEF Handle
    <2> QED BY <1>1, <2>4, <2>10, <2>11, <2>12, <2>13 DEF Next
  <1>2. Inv /\ [Next]_vars => [Kept]_vars
    BY <1>1
  <1> QED BY <1>2, FlowInvariance, PTL DEF Spec, ClosedIsFinal

-----------------------------------------------------------------------------
(* The lock of a phone                                                     *)

\* The inductive invariant of the lock holds before any call.
LEMMA LockInit ==
    QueueInit => QueueInv
BY QueueAssumption DEF
       QueueInit, QueueInv, QueueTypeOK, Stage, AheadIsEarlier, WaitsForAll, RunsInTurn,
       CallsOrdered, TailIsLast, CallsOf

\* run() puts the call behind all earlier calls of its phone.
LEMMA LockRun ==
    ASSUME QueueInv, NEW t \in Task, Run(t)
    PROVE  QueueInv'
<1> DEFINE p == PhoneOf[t]
<1>1. /\ p \in Phone
      /\ QueueTypeOK
      /\ stage[t] = "unborn"
      /\ previous' = [previous EXCEPT ![t] = tails[p]]
      /\ tails' = [tails EXCEPT ![p] = t]
      /\ stage' = [stage EXCEPT ![t] = "waiting"]
      /\ ahead' = [ahead EXCEPT ![t] = CallsOf(p)]
    BY QueueAssumption DEF Run, QueueInv
<1>2. QueueTypeOK'
    BY <1>1, QueueAssumption DEF QueueTypeOK, Stage, CallsOf
<1>3. /\ stage'[t] = "waiting" /\ previous'[t] = tails[p] /\ ahead'[t] = CallsOf(p)
      /\ \A u \in Task \ {t} :
            stage'[u] = stage[u] /\ previous'[u] = previous[u] /\ ahead'[u] = ahead[u]
      /\ \A u \in Task : t \notin ahead[u]
      /\ t \notin CallsOf(p)
    BY <1>1 DEF QueueTypeOK, QueueInv, AheadIsEarlier, CallsOf
<1>4. AheadIsEarlier'
    BY <1>1, <1>3 DEF QueueInv, AheadIsEarlier, CallsOf, QueueTypeOK
<1>5. WaitsForAll'
  <2>1. ASSUME tails[p] # NoTask, NEW u \in CallsOf(p)
        PROVE  u = tails[p] \/ u \in ahead'[tails[p]]
    <3>1. tails[p] \in CallsOf(p) /\ (u = tails[p] \/ u \in ahead[tails[p]])
        BY <1>1, <2>1 DEF QueueInv, TailIsLast
    <3> QED
        BY <1>3, <3>1 DEF CallsOf
  <2>2. ASSUME tails[p] = NoTask, NEW u \in CallsOf(p)
        PROVE  stage'[u] = "done"
    <3>1. stage[u] = "done"
        BY <1>1, <2>2 DEF QueueInv, TailIsLast
    <3> QED
        BY <1>3, <3>1 DEF CallsOf
  <2>3. ASSUME NEW u \in Task \ {t}, stage[u] = "waiting", previous[u] = NoTask,
               NEW v \in ahead[u]
        PROVE  stage'[v] = "done"
    <3>1. stage[v] = "done" /\ v \in Task \ {t}
        BY <1>1, <1>3, <2>3 DEF QueueInv, WaitsForAll, QueueTypeOK
    <3> QED
        BY <1>3, <3>1
  <2>4. ASSUME NEW u \in Task \ {t}, stage[u] = "waiting", previous[u] # NoTask,
               NEW v \in ahead[u]
        PROVE  stage'[v] = "done" \/ v = previous[u] \/ v \in ahead'[previous[u]]
    <3>1. /\ stage[v] = "done" \/ v = previous[u] \/ v \in ahead[previous[u]]
          /\ v \in Task \ {t}
          /\ previous[u] \in Task
        BY <1>1, <1>3, <2>4 DEF QueueInv, WaitsForAll, QueueTypeOK
    <3>2. ahead[t] = {}
        BY <1>1 DEF QueueInv, AheadIsEarlier
    <3> QED
        BY <1>3, <3>1, <3>2
  <2> QED
      BY <1>3, <2>1, <2>2, <2>3, <2>4 DEF WaitsForAll
<1>6. RunsInTurn'
    BY <1>1, <1>3 DEF QueueInv, RunsInTurn, QueueTypeOK
<1>7. CallsOrdered'
    BY <1>1, <1>3 DEF QueueInv, CallsOrdered, CallsOf, QueueTypeOK
<1>8. TailIsLast'
  <2>1. CallsOf(p)' = CallsOf(p) \cup {t}
      BY <1>1, <1>3 DEF CallsOf, QueueTypeOK
  <2>2. \A q \in Phone \ {p} : tails'[q] = tails[q] /\ CallsOf(q)' = CallsOf(q)
      BY <1>1, <1>3 DEF CallsOf, QueueTypeOK
  <2>3. \A q \in Phone : \A u \in CallsOf(q) : u \in Task /\ (q # p => u # t)
      BY DEF CallsOf
  <2>4. tails'[p] = t
      BY <1>1 DEF QueueTypeOK
  <2>5. \A q \in Phone \ {p} : (tails[q] # NoTask => tails[q] # t)
      BY <1>1, <2>3 DEF QueueInv, TailIsLast, CallsOf
  <2> QED
      BY <1>1, <1>3, <2>1, <2>2, <2>3, <2>4, <2>5, QueueAssumption DEF QueueInv, TailIsLast, QueueTypeOK
<1> QED
    BY <1>2, <1>4, <1>5, <1>6, <1>7, <1>8 DEF QueueInv

\* The task starts only when all calls before it are done.
LEMMA LockStart ==
    ASSUME QueueInv, NEW t \in Task, Start(t)
    PROVE  QueueInv'
<1>1. /\ QueueTypeOK
      /\ stage[t] = "waiting"
      /\ stage' = [stage EXCEPT ![t] = "running"]
      /\ UNCHANGED <<tails, previous, ahead>>
    BY DEF Start, QueueInv
<1>2. stage'[t] = "running" /\ \A u \in Task \ {t} : stage'[u] = stage[u]
    BY <1>1 DEF QueueTypeOK
<1>3. \A p \in Phone : CallsOf(p)' = CallsOf(p)
    BY <1>1, <1>2 DEF CallsOf
<1>4. \A u \in ahead[t] : stage[u] = "done"
  <2>1. CASE previous[t] = NoTask
      BY <1>1, <2>1 DEF QueueInv, WaitsForAll
  <2>2. CASE previous[t] # NoTask
    <3>1. previous[t] \in Task /\ stage[previous[t]] = "done"
        BY <1>1, <2>2 DEF Start, Resolved, QueueTypeOK
    <3>2. \A u \in ahead[previous[t]] : stage[u] = "done"
        BY <3>1 DEF QueueInv, RunsInTurn
    <3> QED
        BY <1>1, <2>2, <3>1, <3>2 DEF QueueInv, WaitsForAll
  <2> QED
      BY <2>1, <2>2
<1>5. QueueTypeOK'
    BY <1>1 DEF QueueTypeOK, Stage
<1>6. \A u \in Task : ahead[u] \in SUBSET Task
    BY <1>1 DEF QueueTypeOK
<1>7. AheadIsEarlier' /\ WaitsForAll'
    BY <1>1, <1>2, <1>6 DEF QueueInv, AheadIsEarlier, WaitsForAll
<1>8. RunsInTurn'
    BY <1>1, <1>2, <1>4, <1>6 DEF QueueInv, RunsInTurn
<1>9. CallsOrdered'
    BY <1>1, <1>2 DEF QueueInv, CallsOrdered
<1>10. TailIsLast'
    BY <1>1, <1>2, <1>3 DEF QueueInv, TailIsLast, CallsOf
<1> QED
    BY <1>5, <1>7, <1>8, <1>9, <1>10 DEF QueueInv

\* The entry leaves the map only with the phone's last call.
LEMMA LockFinish ==
    ASSUME QueueInv, NEW t \in Task, Settle(t)
    PROVE  QueueInv'
<1> DEFINE p == PhoneOf[t]
<1>1. /\ QueueTypeOK /\ p \in Phone
      /\ stage[t] = "running"
      /\ stage' = [stage EXCEPT ![t] = "done"]
      /\ tails' = Forget(t)
      /\ UNCHANGED <<previous, ahead>>
    BY QueueAssumption DEF Settle, QueueInv
<1>2. stage'[t] = "done" /\ \A u \in Task \ {t} : stage'[u] = stage[u]
    BY <1>1 DEF QueueTypeOK
<1>3. \A q \in Phone : CallsOf(q)' = CallsOf(q)
    BY <1>1, <1>2 DEF CallsOf
<1>4. \A q \in Phone : tails'[q] = IF q = p /\ tails[q] = t THEN NoTask ELSE tails[q]
    BY <1>1 DEF Forget, QueueTypeOK
<1>5. \A u \in ahead[t] : stage[u] = "done"
    BY <1>1 DEF QueueInv, RunsInTurn
<1>6. QueueTypeOK'
    BY <1>1 DEF QueueTypeOK, Stage, Forget
<1>7. \A u \in Task : ahead[u] \in SUBSET Task
    BY <1>1 DEF QueueTypeOK
<1>8. AheadIsEarlier' /\ WaitsForAll' /\ RunsInTurn'
    BY <1>1, <1>2, <1>5, <1>7 DEF QueueInv, AheadIsEarlier, WaitsForAll, RunsInTurn
<1>9. CallsOrdered'
    BY <1>1, <1>2 DEF QueueInv, CallsOrdered
<1>10. TailIsLast'
  <2> SUFFICES ASSUME NEW q \in Phone
               PROVE  IF tails'[q] = NoTask
                      THEN \A u \in CallsOf(q) : stage'[u] = "done"
                      ELSE /\ tails'[q] \in CallsOf(q)
                           /\ stage'[tails'[q]] # "done"
                           /\ \A u \in CallsOf(q) : u = tails'[q] \/ u \in ahead[tails'[q]]
      BY <1>1, <1>3 DEF TailIsLast
  <2>1. CASE q = p /\ tails[q] = t
    <3>1. \A u \in CallsOf(q) : u = t \/ u \in ahead[t]
        BY <2>1, QueueAssumption DEF QueueInv, TailIsLast
    <3> QED
        BY <2>1, <3>1, <1>2, <1>4, <1>5, QueueAssumption DEF CallsOf
  <2>2. CASE ~(q = p /\ tails[q] = t)
    <3>1. tails'[q] = tails[q]
        BY <2>2, <1>4
    <3>2. tails[q] # NoTask => tails[q] \in CallsOf(q) /\ tails[q] # t
        BY <2>2 DEF QueueInv, TailIsLast, CallsOf
    <3> QED
        BY <1>2, <3>1, <3>2 DEF QueueInv, TailIsLast, CallsOf
  <2> QED
      BY <2>1, <2>2
<1> QED
    BY <1>6, <1>8, <1>9, <1>10 DEF QueueInv

\* The inductive invariant holds in every reachable state of the queue.
THEOREM LockInvariance ==
    QueueSpec => []QueueInv
<1>1. QueueInv /\ [QueueNext]_(queueVars) => QueueInv'
  <2> SUFFICES ASSUME QueueInv, [QueueNext]_(queueVars) PROVE QueueInv'
      OBVIOUS
  <2>1. CASE UNCHANGED queueVars
      BY <2>1 DEF queueVars, QueueInv, QueueTypeOK, AheadIsEarlier, WaitsForAll, RunsInTurn,
                  CallsOrdered, TailIsLast, CallsOf
  <2> QED
      BY <2>1, LockRun, LockStart, LockFinish DEF QueueNext
<1> QED
    BY <1>1, LockInit, PTL DEF QueueSpec

\* Two tasks of one phone never run together, however many calls there are:
\* run() of phoneQueue.ts and withPhoneLock.
THEOREM OneAtATimeTheorem ==
    QueueSpec => []OneAtATime
<1>1. QueueInv => OneAtATime
    BY DEF QueueInv, OneAtATime, CallsOrdered, RunsInTurn
<1> QED
    BY <1>1, LockInvariance, PTL

\* The map of tails has an entry for a phone exactly while the phone has work:
\* nothing leaks (size() of phoneQueue.ts) and nobody can overtake.
THEOREM MapTheorem ==
    QueueSpec => []MapHoldsTheBusy
<1>1. QueueInv => MapHoldsTheBusy
    BY QueueAssumption DEF QueueInv, MapHoldsTheBusy, TailIsLast, CallsOf, QueueTypeOK
<1> QED
    BY <1>1, LockInvariance, PTL

\* The chain of promises implements taking turns: calls of a phone start in
\* the order in which run() was called, each when all before it are done.
THEOREM TurnsTheorem ==
    QueueSpec => ImplementsTurns
<1>1. QueueInit => Turns!Init
    BY DEF QueueInit, Turns!Init
<1>2. QueueInv /\ QueueInv' /\ [QueueNext]_(queueVars) => [Turns!Next]_(Turns!turns)
  <2> SUFFICES ASSUME QueueInv, QueueInv', [QueueNext]_(queueVars) PROVE [Turns!Next]_(Turns!turns)
      OBVIOUS
  <2>1. ASSUME NEW t \in Task, Run(t) PROVE Turns!HandOver(t)
      BY <2>1 DEF Run, Turns!HandOver, CallsOf, Turns!SamePhone
  <2>2. ASSUME NEW t \in Task, Start(t) PROVE Turns!Begin(t)
    <3>1. stage'[t] = "running" /\ ahead' = ahead
        BY <2>2 DEF Start, QueueInv, QueueTypeOK
    <3>2. \A u \in ahead[t] : stage'[u] = "done"
        BY <3>1 DEF QueueInv, RunsInTurn
    <3>3. \A u \in ahead[t] : stage[u] = "done"
        BY <2>2, <3>1, <3>2 DEF Start, QueueInv, QueueTypeOK
    <3> QED
        BY <2>2, <3>3 DEF Start, Turns!Begin
  <2>3. ASSUME NEW t \in Task, Settle(t) PROVE Turns!End(t)
      BY <2>3 DEF Settle, Turns!End
  <2>4. CASE UNCHANGED queueVars
      BY <2>4 DEF queueVars, Turns!turns
  <2> QED
      BY <2>1, <2>2, <2>3, <2>4 DEF QueueNext, Turns!Next
<1> QED
    BY <1>1, <1>2, LockInvariance, PTL DEF QueueSpec, ImplementsTurns, Turns!Spec

=============================================================================

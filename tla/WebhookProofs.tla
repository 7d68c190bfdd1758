---------------------------- MODULE WebhookProofs ----------------------------
(***************************************************************************)
(* What module WebhookDelivery promises, for every number of batches,      *)
(* deliveries, messages, phones and failures: a message is handled once    *)
(* for each mark that was lost and once more, and again only if it has no  *)
(* timestamp and its mark ran out; a phone gets its replies in the order   *)
(* in which its messages were handled, and what Meta is told to be done is *)
(* done.                                                                   *)
(***************************************************************************)
EXTENDS WebhookDelivery, SequenceTheorems, FiniteSetTheorems, TLAPS

-----------------------------------------------------------------------------
(* The inductive invariant                                                 *)

Working(d) == stage[d] \in {"calling", "replying"}

\* The queue of a phone, position by position; who works in it is its first.
QueueInv ==
    /\ \A p \in Phone, d \in Delivery, i \in Nat :
          i \in DOMAIN queue[p] /\ queue[p][i] = d => InLine(d) /\ Line(d) = p
    /\ \A p \in Phone, i, j \in Nat :
          i \in DOMAIN queue[p] /\ j \in DOMAIN queue[p] /\ queue[p][i] = queue[p][j] => i = j
    /\ \A d \in Delivery : InLine(d) =>
          /\ pos[d] <= Len(inbox[d])
          /\ \E i \in DOMAIN queue[Line(d)] : queue[Line(d)][i] = d
    /\ \A d \in Delivery : Working(d) => queue[Line(d)][1] = d

\* A delivery has at most one call at the backend, for the message it is at; a
\* call without its delivery is one that the gateway has given up.
CallsInv ==
    /\ \A p \in Phone, d \in Delivery, m \in Message, i \in Nat :
          i \in DOMAIN calls[p] /\ calls[p][i] = <<d, m>> =>
             /\ stage[d] \in {"calling", "failed"}
             /\ pos[d] <= Len(inbox[d]) /\ m = Msg(d) /\ From[m] = p
    /\ \A p \in Phone, i, j \in Nat :
          i \in DOMAIN calls[p] /\ j \in DOMAIN calls[p] /\ calls[p][i][1] = calls[p][j][1] => i = j

Reached(m) == \E i \in DOMAIN handled[From[m]] : handled[From[m]][i] = m

\* A mark stands for a message that reached the conversation, is too old or is
\* with a delivery.
MarkInv ==
    /\ \A d \in Delivery : Running(d) => clock > 0
    /\ \A m \in Message : cache[m] <= clock
    /\ \A m \in Message : cache[m] # 0 =>
          \/ Reached(m) \/ m \in tooOld
          \/ \E d \in Delivery : InLine(d) /\ Msg(d) = m
    /\ \A d \in Delivery : stage[d] = "replying" => Reached(Msg(d))

\* The deliveries that will make, or have made, a call for a message that has
\* not been answered.
Pending(d) ==
    \/ stage[d] = "queued"
    \/ \E i \in DOMAIN calls[Line(d)] : calls[Line(d)][i][1] = d
Asks(d, m) == pos[d] <= Len(inbox[d]) /\ Msg(d) = m /\ Pending(d)
Outstanding(m) == {d \in Delivery : Asks(d, m)}
Marks(m) == forgotten[m] + (IF cache[m] = 0 THEN 0 ELSE 1)

Uses(m) == TimesHandled(m) + Cardinality(Outstanding(m))

\* Up to when marks of m can have run out: the present one was set then.
Since(m) == IF cache[m] = 0 THEN clock ELSE cache[m]
\* n marks of m ran out, one after the other; no mark of a dated message does
\* before the message is too old.
RanOut(n, m) == n = 0 \/ (m \notin Dated /\ n * MaxAge < Since(m))

\* What was handled and what may still be is covered by marks.
Covered(m) == \E n \in Nat : RanOut(n, m) /\ Uses(m) <= Marks(m) + n
CountInv == \A m \in Message : Covered(m)

Settled(m) == Reached(m) \/ m \in tooOld

\* A message of two running deliveries makes both rushed; what a delivery that
\* is not has behind it is settled.
DeliveryInv ==
    /\ \A d \in Delivery : stage[d] = "unborn" => pos[d] = 1 /\ inbox[d] = <<>>
    /\ \A d, e \in Delivery : d # e /\ Running(d) /\ Running(e) =>
          d[1] \in rushed \/ MessagesOf[d[1]] \cap MessagesOf[e[1]] = {}
    /\ \A d \in Delivery : Running(d) =>
          /\ \A k \in DOMAIN inbox[d] : inbox[d][k] \in MessagesOf[d[1]]
          /\ \A m \in MessagesOf[d[1]] :
                m \in elsewhere \/ \E k \in DOMAIN inbox[d] : inbox[d][k] = m
    /\ \A d \in Delivery, i \in Nat, m \in Message :
          Running(d) /\ d[1] \notin rushed /\ i < pos[d]
             /\ i \in DOMAIN inbox[d] /\ inbox[d][i] = m => Settled(m)
    /\ \A b \in acked \ rushed : \A m \in MessagesOf[b] : Settled(m) \/ m \in elsewhere

\* Without failures what has been handled and what waits in the queue is, in this
\* order, what has entered the queue.
Ahead(p) == Len(queued[p]) - Len(queue[p])
InReply(p) == \E d \in Delivery : queue[p] # <<>> /\ queue[p][1] = d /\ stage[d] = "replying"
InOrder(p) ==
    /\ Len(queue[p]) <= Len(queued[p])
    /\ Len(handled[p]) = Ahead(p) + (IF InReply(p) THEN 1 ELSE 0)
    /\ \A d \in Delivery, i \in Nat :
          i \in DOMAIN queue[p] /\ queue[p][i] = d => queued[p][Ahead(p) + i] = Msg(d)
    /\ \A i \in DOMAIN handled[p] : handled[p][i] = queued[p][i]
OrderInv == faults = 0 =>
    /\ \A d \in Delivery : stage[d] # "failed"
    /\ \A p \in Phone : InOrder(p)

\* What a phone was sent last is not of a later reply than the one being sent.
LastTold(p) == told[p][Len(told[p])]
ToldAs(p) == \A i \in Nat : i \in DOMAIN told[p] =>
    /\ told[p][i].of <= Len(handled[p])
    /\ \/ told[p][i].sent = 1
       \/ /\ i > 1
          /\ told[p][i] = [of |-> told[p][i - 1].of, sent |-> told[p][i - 1].sent + 1]
    /\ i > 1 => told[p][i - 1].of <= told[p][i].of
\* t is the part of a reply to p that has been sent so far.
Sending(p, t) ==
    /\ t.of <= Len(handled[p])
    /\ told[p] # <<>> => LastTold(p).of <= t.of
    /\ \/ t.sent = 0
       \/ told[p] # <<>> /\ LastTold(p) = t
ToldInv ==
    /\ \A d \in Delivery : stage[d] # "replying" => turn[d] = NoTurn
    /\ \A p \in Phone : ToldAs(p)
    /\ \A d \in Delivery, p \in Phone :
          stage[d] = "replying" /\ Line(d) = p => Sending(p, turn[d])

Inv == TypeOK /\ QueueInv /\ CallsInv /\ MarkInv /\ CountInv /\ DeliveryInv /\ OrderInv /\ ToldInv

-----------------------------------------------------------------------------
(* Lemmas                                                                  *)

\* The deliveries are finitely many, each of a batch.
LEMMA DeliveryFacts ==
  /\ IsFiniteSet(Delivery)
  /\ \A d \in Delivery : d[1] \in Batch
  <1>1. IsFiniteSet(1 .. Deliveries)
    BY DeliveryAssumption, FS_Interval
  <1>2. IsFiniteSet(Batch)
    BY DeliveryAssumption
  <1> QED BY <1>1, <1>2, FS_Product DEF Delivery

\* What is found in a batch are messages of it.
LEMMA FoundFacts ==
  /\ \A b \in Batch, used \in Settings :
        /\ Found[b][used] \in Seq(Message)
        /\ \A i \in DOMAIN Found[b][used] : Found[b][used][i] \in MessagesOf[b]
  /\ \A b \in Batch : MessagesOf[b] \subseteq Message
  <1>1. ASSUME NEW b \in Batch, NEW used \in Settings
        PROVE  /\ Found[b][used] \in Seq(Message)
               /\ \A i \in DOMAIN Found[b][used] : Found[b][used][i] \in Message
               /\ \A i \in DOMAIN Found[b][used] : Found[b][used][i] \in MessagesOf[b]
    <2>1. Found[b][used] = ParseIncoming(Post[b], used)
      BY DEF Found
    <2>2. Found[b][used] \in Seq(Message)
      BY <2>1, DeliveryAssumption
    <2>3. ToSet(Found[b][used]) \subseteq MessagesOf[b]
      BY DEF MessagesOf
    <2> QED BY <2>2, <2>3, ElementOfSeq, LenProperties DEF ToSet
  <1>2. ASSUME NEW b \in Batch PROVE MessagesOf[b] \subseteq Message
    <2> SUFFICES ASSUME NEW m \in MessagesOf[b] PROVE m \in Message
      OBVIOUS
    <2>1. PICK used \in Settings : m \in ToSet(Found[b][used])
      BY DEF MessagesOf
    <2> QED BY <1>1, <2>1 DEF ToSet
  <1> QED BY <1>1, <1>2

\* The message a delivery is at, and its phone.
LEMMA MsgType ==
  ASSUME TypeOK, NEW d \in Delivery, pos[d] <= Len(inbox[d])
  PROVE  /\ Msg(d) \in Message /\ Line(d) \in Phone
         /\ pos[d] \in DOMAIN inbox[d]
  <1>1. inbox[d] \in Seq(Message) /\ pos[d] \in Nat \ {0}
    BY DEF TypeOK
  <1>2. pos[d] \in 1 .. Len(inbox[d])
    BY <1>1, LenProperties
  <1>3. Msg(d) \in Message
    BY <1>1, <1>2, ElementOfSeq DEF Msg
  <1> QED BY <1>1, <1>2, <1>3, LenProperties, DeliveryAssumption DEF Line

\* t is s with e put in at position i.
Inserted(t, s, i, e, S) ==
    /\ t \in Seq(S) /\ Len(t) = Len(s) + 1
    /\ \A j \in 1 .. Len(s) + 1 :
          t[j] = IF j < i THEN s[j] ELSE IF j = i THEN e ELSE s[j - 1]

\* What an insertion into a line leaves.
LEMMA InsertAtFacts ==
  ASSUME NEW S, NEW s \in Seq(S), NEW e \in S, NEW i \in 1 .. Len(s) + 1
  PROVE  Inserted(InsertAt(s, i, e), s, i, e, S)
  <1> DEFINE front == SubSeq(s, 1, i - 1)
             back  == SubSeq(s, i, Len(s))
             start == front \o <<e>>
  <1>0. Len(s) \in Nat /\ \A k \in 1 .. Len(s) : s[k] \in S
    BY LenProperties, ElementOfSeq
  <1>1. front \in Seq(S) /\ Len(front) = i - 1 /\ \A k \in 1 .. i - 1 : front[k] = s[k]
    <2>1. \A k \in 1 .. i - 1 : s[k] \in S
      BY <1>0
    <2> QED BY <1>0, <2>1, SubSeqProperties
  <1>2. /\ back \in Seq(S) /\ Len(back) = Len(s) - i + 1
        /\ \A k \in 1 .. Len(s) - i + 1 : back[k] = s[k + i - 1]
    <2>1. \A k \in i .. Len(s) : s[k] \in S
      BY <1>0
    <2>2. Len(back) = IF i <= Len(s) THEN Len(s) - i + 1 ELSE 0
      BY <1>0, <2>1, SubSeqProperties
    <2>3. back \in Seq(S) /\ \A k \in 1 .. Len(s) - i + 1 : back[k] = s[i + k - 1]
      BY <1>0, <2>1, SubSeqProperties
    <2> QED BY <1>0, <2>2, <2>3
  <1>3. <<e>> \in Seq(S) /\ Len(<<e>>) = 1 /\ <<e>>[1] = e
    OBVIOUS
  <1> HIDE DEF front, back
  <1>4. /\ start \in Seq(S) /\ Len(start) = i
        /\ \A k \in 1 .. i : start[k] = IF k < i THEN s[k] ELSE e
    <2>1. start \in Seq(S) /\ Len(start) = i
      BY <1>0, <1>1, <1>3, ConcatProperties
    <2>2. ASSUME NEW k \in 1 .. i PROVE start[k] = IF k < i THEN s[k] ELSE e
      <3>1. start[k] = IF k <= i - 1 THEN front[k] ELSE <<e>>[k - (i - 1)]
        BY <1>0, <1>1, <1>3, ConcatProperties
      <3> QED BY <3>1, <1>0, <1>1, <1>3
    <2> QED BY <2>1, <2>2
  <1> HIDE DEF start
  <1>5. /\ start \o back \in Seq(S) /\ Len(start \o back) = Len(s) + 1
        /\ \A j \in 1 .. Len(s) + 1 :
              (start \o back)[j] = IF j <= i THEN start[j] ELSE back[j - i]
    <2>1. start \o back \in Seq(S) /\ Len(start \o back) = Len(s) + 1
      BY <1>0, <1>2, <1>4, ConcatProperties
    <2>2. Len(start) + Len(back) = Len(s) + 1
      BY <1>0, <1>2, <1>4
    <2>3. \A j \in 1 .. Len(start) + Len(back) :
             (start \o back)[j] = IF j <= Len(start) THEN start[j] ELSE back[j - Len(start)]
      BY <1>2, <1>4, ConcatProperties
    <2> QED BY <1>4, <2>1, <2>2, <2>3
  <1>6. InsertAt(s, i, e) = start \o back
    BY DEF InsertAt, start, front, back
  <1> QED BY <1>0, <1>2, <1>4, <1>5, <1>6 DEF Inserted

Count(s, m) == Cardinality({i \in DOMAIN s : s[i] = m})

\* How often a message is in a line.
LEMMA CountType ==
  ASSUME NEW s \in Seq(Message), NEW m \in Message
  PROVE  /\ Count(s, m) \in Nat
         /\ Count(s, m) > 0 <=> \E i \in DOMAIN s : s[i] = m
  <1> DEFINE I == {i \in DOMAIN s : s[i] = m}
  <1>1. IsFiniteSet(1 .. Len(s)) /\ DOMAIN s = 1 .. Len(s)
    BY LenProperties, FS_Interval
  <1>2. IsFiniteSet(I)
    BY <1>1, FS_Subset
  <1>3. Cardinality(I) \in Nat
    BY <1>2, FS_CardinalityType
  <1>4. Cardinality(I) = 0 <=> I = {}
    BY <1>2, FS_EmptySet
  <1> QED BY <1>3, <1>4 DEF Count

\* The count with one more at the end.
LEMMA CountAppend ==
  ASSUME NEW s \in Seq(Message), NEW e \in Message, NEW m \in Message
  PROVE  Count(Append(s, e), m) = Count(s, m) + (IF e = m THEN 1 ELSE 0)
  <1> DEFINE I == {i \in DOMAIN s : s[i] = m}
             J == {i \in DOMAIN Append(s, e) : Append(s, e)[i] = m}
  <1>1. Len(s) \in Nat /\ DOMAIN s = 1 .. Len(s)
    BY LenProperties
  <1>2. /\ DOMAIN Append(s, e) = 1 .. Len(s) + 1 /\ Append(s, e)[Len(s) + 1] = e
        /\ \A i \in 1 .. Len(s) : Append(s, e)[i] = s[i]
    BY <1>1, AppendProperties, LenProperties
  <1>3. IsFiniteSet(I)
    <2>1. IsFiniteSet(1 .. Len(s))
      BY <1>1, FS_Interval
    <2>2. I \in SUBSET (1 .. Len(s))
      BY <1>1
    <2> QED BY <2>1, <2>2, FS_Subset
  <1>4. J = IF e = m THEN I \cup {Len(s) + 1} ELSE I
    BY <1>1, <1>2
  <1>5. Len(s) + 1 \notin I
    BY <1>1
  <1>6. Cardinality(I) \in Nat
    BY <1>3, FS_CardinalityType
  <1>7. Count(s, m) = Cardinality(I) /\ Count(Append(s, e), m) = Cardinality(J)
    BY DEF Count
  <1> HIDE DEF I, J
  <1>8. Cardinality(I \cup {Len(s) + 1}) = Cardinality(I) + 1
    BY <1>3, <1>5, FS_AddElement
  <1> QED BY <1>4, <1>6, <1>7, <1>8

\* A message was handled as often as its phone's history says.
LEMMA TimesHandledFacts ==
  ASSUME TypeOK, NEW m \in Message
  PROVE  /\ TimesHandled(m) = Count(handled[From[m]], m)
         /\ TimesHandled(m) \in Nat
         /\ TimesHandled(m) > 0 <=> Reached(m)
  <1>1. handled[From[m]] \in Seq(Message)
    BY DeliveryAssumption DEF TypeOK
  <1>2. TimesHandled(m) = Count(handled[From[m]], m)
    BY DEF TimesHandled, Count
  <1> QED BY <1>1, <1>2, CountType DEF Reached

\* The first call at the backend, and what remains when it is answered.
LEMMA HeadFacts ==
  ASSUME NEW S, NEW s \in Seq(S), s # <<>>
  PROVE  /\ Head(s) = s[1] /\ s[1] \in S /\ 1 \in DOMAIN s
         /\ Tail(s) \in Seq(S) /\ DOMAIN s = 1 .. Len(s)
         /\ Len(s) \in Nat \ {0} /\ Len(Tail(s)) = Len(s) - 1
         /\ DOMAIN Tail(s) = 1 .. Len(s) - 1
         /\ \A i \in DOMAIN Tail(s) : Tail(s)[i] = s[i + 1] /\ i + 1 \in DOMAIN s
  <1>1. Len(s) \in Nat \ {0} /\ DOMAIN s = 1 .. Len(s)
    BY EmptySeq, LenProperties
  <1>2. Tail(s) \in Seq(S) /\ Len(Tail(s)) = Len(s) - 1 /\ Head(s) \in S
    BY HeadTailProperties
  <1>3. DOMAIN Tail(s) = 1 .. Len(s) - 1
    BY <1>2, LenProperties
  <1>4. \A i \in 1 .. Len(s) - 1 : Tail(s)[i] = s[i + 1]
    BY <1>2, HeadTailProperties
  <1>5. Head(s) = s[1] /\ s[1] \in S
    BY <1>1, ElementOfSeq
  <1> QED BY <1>1, <1>2, <1>3, <1>4, <1>5

\* A line with one more at the end.
LEMMA AppendFacts ==
  ASSUME NEW S, NEW s \in Seq(S), NEW e \in S
  PROVE  /\ Append(s, e) \in Seq(S) /\ Len(s) \in Nat
         /\ Append(s, e) # <<>>
         /\ DOMAIN s = 1 .. Len(s) /\ DOMAIN Append(s, e) = 1 .. Len(s) + 1
         /\ Len(Append(s, e)) = Len(s) + 1
         /\ \A i \in DOMAIN s : Append(s, e)[i] = s[i]
         /\ Append(s, e)[Len(s) + 1] = e
  BY AppendProperties, LenProperties

-----------------------------------------------------------------------------
(* The types                                                               *)

\* The initial state is well typed.
LEMMA InitType == Init => TypeOK
  <1> SUFFICES ASSUME Init PROVE TypeOK
    OBVIOUS
  <1>1. \A S : <<>> \in Seq(S)
    BY EmptySeq
  <1> QED BY <1>1, DeliveryAssumption DEF Init, TypeOK, Stage, Finished, NoTurn, ReplyTo, SentAt

\* A delivery that fails: its stage, its mark and its queue.
LEMMA FailType ==
  ASSUME TypeOK, QueueInv, NEW d \in Delivery, stage[d] = "calling", FailDelivery(d)
  PROVE  /\ stage' \in [Delivery -> Stage]
         /\ cache' \in [Message -> 0 .. MaxClock]
         /\ queue' \in [Phone -> Seq(Delivery)]
         /\ forgotten' \in [Message -> Nat]
  <1>1. Msg(d) \in Message /\ Line(d) \in Phone /\ queue[Line(d)] # <<>>
    BY MsgType DEF QueueInv, InLine
  <1>2. Tail(queue[Line(d)]) \in Seq(Delivery)
    BY <1>1, HeadFacts DEF TypeOK
  <1>3. 0 \in 0 .. MaxClock
    BY DeliveryAssumption
  <1>4. stage' \in [Delivery -> Stage]
    BY DEF FailDelivery, TypeOK, Stage, Finished
  <1>5. cache' \in [Message -> 0 .. MaxClock]
    BY <1>1, <1>3 DEF FailDelivery, Unmark, TypeOK
  <1>6. queue' \in [Phone -> Seq(Delivery)]
    BY <1>1, <1>2 DEF FailDelivery, LeaveOnError, TypeOK
  <1>7. forgotten' \in [Message -> Nat]
    <2>1. forgotten \in [Message -> Nat] /\ forgotten' = [forgotten EXCEPT ![Msg(d)] = @ + 1]
      BY DEF FailDelivery, TypeOK
    <2>2. forgotten[Msg(d)] + 1 \in Nat
      BY <1>1, <2>1
    <2> QED BY <2>1, <2>2
  <1> QED BY <1>4, <1>5, <1>6, <1>7

\* A reply that ends keeps the state well typed.
LEMMA EndType ==
  ASSUME TypeOK, QueueInv, NEW d \in Delivery, stage[d] = "replying", EndReply(d)
  PROVE  /\ stage' \in [Delivery -> Stage]
         /\ pos' \in [Delivery -> Nat \ {0}]
         /\ turn' \in [Delivery -> [of : Nat, sent : Nat]]
         /\ queue' \in [Phone -> Seq(Delivery)]
  <1>1. Line(d) \in Phone /\ queue[Line(d)] # <<>>
    BY MsgType DEF QueueInv, InLine
  <1>2. Tail(queue[Line(d)]) \in Seq(Delivery)
    BY <1>1, HeadFacts DEF TypeOK
  <1>3. stage' \in [Delivery -> Stage]
    BY DEF EndReply, TypeOK, Stage, Finished
  <1>4. pos' \in [Delivery -> Nat \ {0}]
    BY DEF EndReply, TypeOK
  <1>5. turn' \in [Delivery -> [of : Nat, sent : Nat]]
    BY DEF EndReply, NoTurn, ReplyTo, TypeOK
  <1>6. queue' \in [Phone -> Seq(Delivery)]
    BY <1>1, <1>2 DEF EndReply, TypeOK
  <1> QED BY <1>3, <1>4, <1>5, <1>6

\* One more sent of the reply that is being sent.
LEMMA SentType ==
  ASSUME TypeOK, QueueInv, NEW d \in Delivery, stage[d] = "replying"
  PROVE  LET t == [turn[d] EXCEPT !.sent = @ + 1]
         IN  /\ Line(d) \in Phone /\ told[Line(d)] \in Seq([of : Nat, sent : Nat])
             /\ t \in [of : Nat, sent : Nat]
             /\ t = [of |-> turn[d].of, sent |-> turn[d].sent + 1]
             /\ Append(told[Line(d)], t) \in Seq([of : Nat, sent : Nat])
             /\ turn[d] \in [of : Nat, sent : Nat]
  <1> DEFINE t == [turn[d] EXCEPT !.sent = @ + 1]
  <1>1. turn[d] \in [of : Nat, sent : Nat]
    BY DEF TypeOK
  <1>2. t \in [of : Nat, sent : Nat] /\ t = [of |-> turn[d].of, sent |-> turn[d].sent + 1]
    BY <1>1
  <1>3. Line(d) \in Phone /\ told[Line(d)] \in Seq([of : Nat, sent : Nat])
    BY MsgType DEF QueueInv, InLine, TypeOK
  <1> HIDE DEF t
  <1>4. Append(told[Line(d)], t) \in Seq([of : Nat, sent : Nat])
    BY <1>2, <1>3, AppendFacts
  <1> QED BY <1>1, <1>2, <1>3, <1>4 DEF t

\* Every step keeps the state well typed.
LEMMA TypeStep == TypeOK /\ QueueInv /\ [Next]_vars => TypeOK'
  <1> SUFFICES ASSUME TypeOK, QueueInv, [Next]_vars PROVE TypeOK'
    OBVIOUS
  <1> USE DEF TypeOK
  <1>1. CASE UNCHANGED vars
    BY <1>1 DEF vars, gateway, dropped, history
  <1>2. ASSUME NEW d \in Delivery, Deliver(d) PROVE TypeOK'
    <2>1. Found[d[1]][settings] \in Seq(Message) /\ d[1] \in Batch
      BY DeliveryFacts, FoundFacts
    <2>2. rushed' \subseteq Batch
      BY <1>2, DeliveryFacts DEF Deliver, Alongside
    <2>3. elsewhere' \subseteq Message
      BY <1>2, <2>1, FoundFacts DEF Deliver
    <2> QED BY <1>2, <2>1, <2>2, <2>3 DEF Deliver, Stage, Finished
  <1>3. ASSUME NEW d \in Delivery, Refuse(d) PROVE TypeOK'
    <2>1. faults' \in 0 .. MaxFaults
      BY <1>3, DeliveryAssumption DEF Refuse, Fault
    <2>2. stage' \in [Delivery -> Stage]
      BY <1>3 DEF Refuse, Stage, Finished
    <2> QED BY <1>3, <2>1, <2>2 DEF Refuse, history, dropped
  <1>4. ASSUME NEW d \in Delivery, Drop(d) PROVE TypeOK'
    <2>1. Msg(d) \in Message
      BY <1>4, MsgType DEF Drop
    <2>2. clock \in 0 .. MaxClock /\ pos[d] + 1 \in Nat \ {0}
      OBVIOUS
    <2>3. cache' \in [Message -> 0 .. MaxClock] /\ tooOld' \subseteq Message
      BY <1>4, <2>1, <2>2 DEF Drop
    <2>4. pos' \in [Delivery -> Nat \ {0}]
      BY <1>4, <2>2 DEF Drop
    <2> QED BY <1>4, <2>3, <2>4 DEF Drop
  <1>5. ASSUME NEW d \in Delivery, Enqueue(d) PROVE TypeOK'
    <2>1. Msg(d) \in Message /\ Line(d) \in Phone
      BY <1>5, MsgType DEF Enqueue
    <2>2. /\ Append(queue[Line(d)], d) \in Seq(Delivery)
          /\ Append(queued[Line(d)], Msg(d)) \in Seq(Message)
      BY <2>1, AppendFacts
    <2>3. queue' \in [Phone -> Seq(Delivery)] /\ queued' \in [Phone -> Seq(Message)]
      BY <1>5, <2>1, <2>2 DEF Enqueue, Line
    <2> QED BY <1>5, <2>1, <2>3 DEF Enqueue, dropped, Stage, Finished
  <1>6. ASSUME NEW d \in Delivery, Call(d) PROVE TypeOK'
    <2>1. Msg(d) \in Message /\ Line(d) \in Phone
      BY <1>6, MsgType DEF Call, HasTurn, QueueInv, InLine
    <2>2. PICK i \in 1 .. Len(calls[Line(d)]) + 1 :
             calls' = [calls EXCEPT ![Line(d)] = InsertAt(@, i, <<d, Msg(d)>>)]
      BY <1>6 DEF Call
    <2>3. <<d, Msg(d)>> \in Delivery \X Message
      BY <2>1
    <2>4. InsertAt(calls[Line(d)], i, <<d, Msg(d)>>) \in Seq(Delivery \X Message)
      BY <2>1, <2>3, InsertAtFacts DEF Inserted
    <2>5. calls' \in [Phone -> Seq(Delivery \X Message)]
      BY <2>1, <2>2, <2>4
    <2> QED BY <1>6, <2>5 DEF Call, history, dropped, Stage, Finished
  <1>7. ASSUME NEW d \in Delivery, Timeout(d) PROVE TypeOK'
    <2>1. stage[d] = "calling" /\ FailDelivery(d)
      BY <1>7 DEF Timeout
    <2>2. faults' \in 0 .. MaxFaults
      BY <1>7, DeliveryAssumption DEF Timeout, Fault
    <2> QED BY <1>7, <2>1, <2>2, FailType DEF Timeout
  <1>8. ASSUME NEW d \in Delivery, SendReply(d) PROVE TypeOK'
    <2>0. stage[d] = "replying"
      BY <1>8 DEF SendReply
    <2>1. CASE turn[d].sent < Len(ToOutgoing(Reply[Msg(d)]))
      <3>1. turn' = [turn EXCEPT ![d].sent = @ + 1] /\ Tell(d) /\ UNCHANGED <<stage, pos, queue>>
        BY <1>8, <2>1 DEF SendReply
      <3>2. turn' \in [Delivery -> [of : Nat, sent : Nat]]
        <4> DEFINE t == [turn[d] EXCEPT !.sent = @ + 1]
        <4>1. turn' = [turn EXCEPT ![d] = t]
          BY <3>1
        <4>2. t \in [of : Nat, sent : Nat]
          BY <2>0, SentType
        <4>3. turn \in [Delivery -> [of : Nat, sent : Nat]]
          OBVIOUS
        <4> HIDE DEF t
        <4> QED BY <4>1, <4>2, <4>3
      <3>3. turn'[d] = [turn[d] EXCEPT !.sent = @ + 1]
        <4>1. turn \in [Delivery -> [of : Nat, sent : Nat]]
          OBVIOUS
        <4>2. turn'[d] = [of |-> turn[d].of, sent |-> turn[d].sent + 1]
          BY <3>1, <4>1
        <4> QED BY <4>2, <2>0, SentType
      <3>4. told' \in [Phone -> Seq([of : Nat, sent : Nat])]
        BY <2>0, <3>1, <3>3, SentType DEF Tell
      <3> QED BY <1>8, <3>1, <3>2, <3>4 DEF SendReply, dropped
    <2>2. CASE ~(turn[d].sent < Len(ToOutgoing(Reply[Msg(d)])))
      <3>1. EndReply(d) /\ UNCHANGED told
        BY <1>8, <2>2 DEF SendReply
      <3> QED BY <1>8, <2>0, <3>1, EndType DEF SendReply, dropped
    <2> QED BY <2>1, <2>2
  <1>9. ASSUME NEW d \in Delivery, SendFails(d) PROVE TypeOK'
    <2>1. stage[d] = "replying" /\ EndReply(d)
      BY <1>9 DEF SendFails
    <2>2. faults' \in 0 .. MaxFaults
      BY <1>9, DeliveryAssumption DEF SendFails, Fault
    <2>3. told' \in [Phone -> Seq([of : Nat, sent : Nat])]
      BY ZenonT(30), <1>9, <2>1, SentType DEF SendFails
    <2> QED BY <1>9, <2>1, <2>2, <2>3, EndType DEF SendFails, dropped
  <1>10. ASSUME NEW d \in Delivery, Answer(d) PROVE TypeOK'
    <2>1. faults' \in 0 .. MaxFaults
      BY <1>10, DeliveryAssumption DEF Answer, Fault
    <2>2. stage' \in [Delivery -> Stage]
      BY <1>10 DEF Answer, Stage, Finished
    <2>3. acked' \subseteq Batch
      BY ZenonT(30), <1>10, DeliveryFacts DEF Answer
    <2> QED BY <1>10, <2>1, <2>2, <2>3 DEF Answer, history, dropped
  <1>11. ASSUME NEW p \in Phone, Handle(p) PROVE TypeOK'
    <2> DEFINE d == calls[p][1][1]
               m == calls[p][1][2]
    <2>1. /\ calls[p] # <<>> /\ Head(calls[p]) = calls[p][1] /\ d \in Delivery /\ m \in Message
          /\ Tail(calls[p]) \in Seq(Delivery \X Message)
      <3>1. calls[p] # <<>> /\ calls[p] \in Seq(Delivery \X Message)
        BY <1>11 DEF Handle
      <3>2. calls[p][1] \in Delivery \X Message
        BY <3>1, HeadFacts
      <3> QED BY <3>1, <3>2, HeadFacts
    <2>2. handled' = [handled EXCEPT ![p] = Append(@, m)] /\ calls' = [calls EXCEPT ![p] = Tail(@)]
      BY <1>11, <2>1 DEF Handle
    <2>3. Append(handled[p], m) \in Seq(Message) /\ Len(Append(handled[p], m)) \in Nat
      BY <2>1, AppendFacts
    <2>4. handled' \in [Phone -> Seq(Message)] /\ calls' \in [Phone -> Seq(Delivery \X Message)]
      BY <2>1, <2>2, <2>3
    <2>5. Len(handled'[p]) \in Nat
      BY <2>2, <2>3
    <2>6. /\ stage' = IF stage[d] = "calling" THEN [stage EXCEPT ![d] = "replying"] ELSE stage
          /\ turn' = IF stage[d] = "calling" THEN [turn EXCEPT ![d] = ReplyTo(Len(handled'[p]))] ELSE turn
      BY <1>11, <2>1 DEF Handle
    <2>7. stage' \in [Delivery -> Stage] /\ turn' \in [Delivery -> [of : Nat, sent : Nat]]
      BY <2>1, <2>5, <2>6 DEF Stage, Finished, ReplyTo
    <2> QED BY <1>11, <2>4, <2>7 DEF Handle, dropped
  <1>12. ASSUME NEW p \in Phone, HandleFails(p) PROVE TypeOK'
    <2> DEFINE d == calls[p][1][1]
               m == calls[p][1][2]
    <2>1. /\ calls[p] # <<>> /\ Head(calls[p]) = calls[p][1] /\ d \in Delivery /\ m \in Message
          /\ Tail(calls[p]) \in Seq(Delivery \X Message)
      <3>1. calls[p] # <<>> /\ calls[p] \in Seq(Delivery \X Message)
        BY <1>12 DEF HandleFails
      <3>2. calls[p][1] \in Delivery \X Message
        BY <3>1, HeadFacts
      <3> QED BY <3>1, <3>2, HeadFacts
    <2>2. Append(handled[p], m) \in Seq(Message)
      BY <2>1, AppendFacts
    <2>3. /\ handled' \in {handled, [handled EXCEPT ![p] = Append(@, m)]}
          /\ calls' = [calls EXCEPT ![p] = Tail(@)]
      BY <1>12, <2>1 DEF HandleFails
    <2>4. handled' \in [Phone -> Seq(Message)] /\ calls' \in [Phone -> Seq(Delivery \X Message)]
      BY <2>1, <2>2, <2>3
    <2>5. \/ stage[d] = "calling" /\ FailDelivery(d)
          \/ UNCHANGED <<stage, cache, queue, forgotten>>
      BY <1>12, <2>1 DEF HandleFails
    <2>6. /\ stage' \in [Delivery -> Stage] /\ cache' \in [Message -> 0 .. MaxClock]
          /\ queue' \in [Phone -> Seq(Delivery)] /\ forgotten' \in [Message -> Nat]
      BY <2>1, <2>5, FailType
    <2>7. faults' \in 0 .. MaxFaults
      BY <1>12, DeliveryAssumption DEF HandleFails, Fault
    <2> QED BY <1>12, <2>4, <2>6, <2>7 DEF HandleFails
  <1>13. CASE Reconfigure \/ Restore
    BY <1>13, DeliveryAssumption DEF Reconfigure, Restore, Fault, gateway, history, dropped
  <1>14. CASE Tick
    BY <1>14, DeliveryAssumption DEF Tick, gateway, history, dropped
  <1>15. CASE Crash
    <2>1. \A q \in Phone : <<>> \in Seq(Delivery)
      BY EmptySeq
    <2>2. 0 \in 0 .. MaxClock /\ NoTurn \in [of : Nat, sent : Nat]
      BY DeliveryAssumption DEF NoTurn, ReplyTo
    <2>3. stage' \in [Delivery -> Stage] /\ faults' \in 0 .. MaxFaults
      BY <1>15, DeliveryAssumption DEF Crash, Fault, Stage, Finished
    <2>4. forgotten' \in [Message -> Nat]
      BY <1>15 DEF Crash
    <2> QED BY <1>15, <2>1, <2>2, <2>3, <2>4 DEF Crash
  <1> QED
    BY <1>1, <1>2, <1>3, <1>4, <1>5, <1>6, <1>7, <1>8, <1>9, <1>10, <1>11, <1>12, <1>13,
       <1>14, <1>15 DEF Next, Process

-----------------------------------------------------------------------------
(* The queues                                                              *)

\* The delivery stays as it is, or goes on without the queue taking part.
KeepsPlace(e) ==
    /\ InLine(e)' <=> InLine(e)
    /\ InLine(e) => /\ pos'[e] = pos[e] /\ inbox'[e] = inbox[e]
                    /\ Working(e)' => Working(e) \/ queue[Line(e)][1] = e

\* A step that moves no delivery in its line keeps the queues in order.
LEMMA QueueFrame ==
  ASSUME TypeOK, QueueInv, queue' = queue, \A e \in Delivery : KeepsPlace(e)
  PROVE  QueueInv'
  <1>1. ASSUME NEW e \in Delivery, InLine(e)
        PROVE  Msg(e)' = Msg(e) /\ Line(e)' = Line(e) /\ InLine(e)'
    BY <1>1 DEF KeepsPlace, Msg, Line
  <1>2. ASSUME NEW p \in Phone, NEW e \in Delivery, NEW i \in Nat,
               i \in DOMAIN queue'[p], queue'[p][i] = e
        PROVE  InLine(e)' /\ Line(e)' = p
    <2>1. InLine(e) /\ Line(e) = p
      BY <1>2 DEF QueueInv
    <2> QED BY <1>1, <2>1
  <1>3. ASSUME NEW e \in Delivery, InLine(e)'
        PROVE  /\ pos'[e] <= Len(inbox'[e])
               /\ \E i \in DOMAIN queue'[Line(e)'] : queue'[Line(e)'][i] = e
               /\ Working(e)' => queue'[Line(e)'][1] = e
    <2>1. InLine(e)
      BY <1>3 DEF KeepsPlace
    <2> QED BY <1>1, <2>1 DEF KeepsPlace, QueueInv
  <1>4. \A e \in Delivery : Working(e)' => InLine(e)'
    BY DEF Working, InLine
  <1> QED BY <1>2, <1>3, <1>4 DEF QueueInv, Line, Msg

\* Who has its turn gives it back.
LEMMA QueueLeave ==
  ASSUME TypeOK, QueueInv, NEW d \in Delivery, Working(d),
         queue' = [queue EXCEPT ![Line(d)] = Tail(@)], inbox' = inbox,
         ~InLine(d)', \A e \in Delivery \ {d} : stage'[e] = stage[e] /\ pos'[e] = pos[e]
  PROVE  QueueInv'
  <1> DEFINE l == Line(d)
  <1>1. /\ l \in Phone /\ queue[l] # <<>> /\ queue[l] \in Seq(Delivery)
        /\ queue[l][1] = d
    BY SMTT(30), MsgType DEF QueueInv, InLine, Working, TypeOK
  <1> HIDE DEF l
  <1>2. /\ queue'[l] = Tail(queue[l]) /\ DOMAIN queue[l] = 1 .. Len(queue[l])
        /\ DOMAIN queue'[l] = 1 .. Len(queue[l]) - 1
        /\ \A i \in DOMAIN queue'[l] : queue'[l][i] = queue[l][i + 1] /\ i + 1 \in DOMAIN queue[l]
        /\ Len(queue[l]) \in Nat \ {0}
    BY <1>1, HeadFacts DEF l, TypeOK
  <1>3. \A p \in Phone : p # l => queue'[p] = queue[p]
    BY DEF l, TypeOK
  <1>4. ASSUME NEW e \in Delivery \ {d}
        PROVE  /\ Msg(e)' = Msg(e) /\ Line(e)' = Line(e)
               /\ InLine(e)' <=> InLine(e)
               /\ Working(e)' <=> Working(e)
    BY <1>4 DEF Msg, Line, InLine, Working
  <1> DEFINE Was(p, i) == IF p = l THEN i + 1 ELSE i
  <1>5. ASSUME NEW p \in Phone, NEW i \in Nat, i \in DOMAIN queue'[p]
        PROVE  /\ Was(p, i) \in Nat /\ Was(p, i) \in DOMAIN queue[p]
               /\ queue'[p][i] = queue[p][Was(p, i)]
               /\ queue[p][Was(p, i)] \in Delivery /\ queue[p][Was(p, i)] # d
    <2>1. CASE p = l
      <3>1. i + 1 \in DOMAIN queue[l] /\ queue'[p][i] = queue[l][i + 1] /\ 1 \in DOMAIN queue[l]
        BY <1>2, <1>5, <2>1
      <3>2. queue[l][i + 1] # d
        <4>1. \A k \in Nat : k \in DOMAIN queue[l] /\ queue[l][k] = queue[l][1] => k = 1
          BY <1>1, <3>1 DEF QueueInv
        <4>2. i + 1 \in Nat /\ i + 1 # 1
          BY <1>2, <1>5, <2>1
        <4> QED BY <1>1, <3>1, <4>1, <4>2
      <3>3. queue[l][i + 1] \in Delivery
        BY <1>1, <1>2, <3>1, ElementOfSeq
      <3>4. i + 1 \in Nat
        OBVIOUS
      <3> QED BY <2>1, <3>1, <3>2, <3>3, <3>4
    <2>2. CASE p # l
      <3>1. i \in DOMAIN queue[p] /\ queue'[p][i] = queue[p][i]
        BY <1>3, <1>5, <2>2
      <3>2. queue[p][i] # d
        BY <2>2, <3>1 DEF QueueInv, l
      <3>3. queue[p][i] \in Delivery
        BY <3>1, ElementOfSeq, LenProperties DEF TypeOK
      <3> QED BY <2>2, <3>1, <3>2, <3>3
    <2> QED BY <2>1, <2>2
  <1>6. ASSUME NEW p \in Phone, NEW e \in Delivery, NEW i \in Nat,
               i \in DOMAIN queue'[p], queue'[p][i] = e
        PROVE  InLine(e)' /\ Line(e)' = p
    <2> HIDE DEF Was
    <2>1. PICK j \in Nat : j \in DOMAIN queue[p] /\ queue[p][j] = e /\ e # d
      BY <1>5, <1>6
    <2>2. InLine(e) /\ Line(e) = p
      BY <2>1 DEF QueueInv
    <2> QED BY <1>4, <2>1, <2>2
  <1>7. ASSUME NEW p \in Phone, NEW i \in Nat, NEW j \in Nat, i \in DOMAIN queue'[p],
               j \in DOMAIN queue'[p], queue'[p][i] = queue'[p][j]
        PROVE  i = j
    <2> HIDE DEF Was
    <2>1. Was(p, i) \in Nat /\ Was(p, i) \in DOMAIN queue[p] /\ queue'[p][i] = queue[p][Was(p, i)]
      BY <1>5, <1>7
    <2>2. Was(p, j) \in Nat /\ Was(p, j) \in DOMAIN queue[p] /\ queue'[p][j] = queue[p][Was(p, j)]
      BY <1>5, <1>7
    <2>3. Was(p, i) = Was(p, j)
      BY <1>7, <2>1, <2>2 DEF QueueInv
    <2> QED BY <2>3 DEF Was
  <1>8. ASSUME NEW e \in Delivery, InLine(e)'
        PROVE  /\ pos'[e] <= Len(inbox'[e])
               /\ \E i \in DOMAIN queue'[Line(e)'] : queue'[Line(e)'][i] = e
               /\ Working(e)' => queue'[Line(e)'][1] = e
    <2>1. e # d /\ InLine(e) /\ Line(e)' = Line(e) /\ (Working(e)' <=> Working(e))
      BY <1>4, <1>8
    <2>2. Line(e) \in Phone
      BY <2>1, MsgType DEF QueueInv
    <2>3. PICK i \in DOMAIN queue[Line(e)] : queue[Line(e)][i] = e
      BY <2>1 DEF QueueInv
    <2>4. pos'[e] <= Len(inbox'[e])
      BY <2>1 DEF QueueInv
    <2>5. CASE Line(e) = l
      <3>1. i \in 1 .. Len(queue[l]) /\ i # 1
        BY <1>1, <1>2, <2>1, <2>3, <2>5
      <3>2. i - 1 \in DOMAIN queue'[l] /\ queue'[l][i - 1] = e
        BY <1>2, <2>3, <2>5, <3>1
      <3>3. ~Working(e)
        BY <1>1, <2>1, <2>5 DEF QueueInv
      <3> QED BY <2>1, <2>4, <2>5, <3>2, <3>3
    <2>6. CASE Line(e) # l
      <3>1. queue'[Line(e)] = queue[Line(e)]
        BY <1>3, <2>2, <2>6
      <3>2. Working(e) => queue[Line(e)][1] = e
        BY DEF QueueInv
      <3> QED BY <2>1, <2>3, <2>4, <3>1, <3>2
    <2> QED BY <2>5, <2>6
  <1>9. \A e \in Delivery : Working(e)' => InLine(e)'
    BY DEF Working, InLine
  <1> QED BY <1>6, <1>7, <1>8, <1>9 DEF QueueInv

\* A delivery whose call fails, or whose reply ends, gives its turn back.
LEMMA FailLeaves ==
  ASSUME TypeOK, QueueInv, NEW d \in Delivery, stage[d] = "calling", FailDelivery(d),
         UNCHANGED <<inbox, pos>>
  PROVE  QueueInv'
  <1>1. Working(d) /\ ~InLine(d)' /\ \A e \in Delivery \ {d} : stage'[e] = stage[e]
    BY DEF FailDelivery, Working, InLine, TypeOK
  <1>2. queue' = [queue EXCEPT ![Line(d)] = Tail(@)]
    BY DEF FailDelivery, LeaveOnError
  <1> QED BY <1>1, <1>2, QueueLeave

\* A reply that ends leaves its queue in order.
LEMMA EndLeaves ==
  ASSUME TypeOK, QueueInv, NEW d \in Delivery, stage[d] = "replying", EndReply(d),
         UNCHANGED inbox
  PROVE  QueueInv'
  <1>1. /\ Working(d) /\ ~InLine(d)'
        /\ \A e \in Delivery \ {d} : stage'[e] = stage[e] /\ pos'[e] = pos[e]
    BY DEF EndReply, Working, InLine, TypeOK
  <1>2. queue' = [queue EXCEPT ![Line(d)] = Tail(@)]
    BY DEF EndReply
  <1> QED BY <1>1, <1>2, QueueLeave

\* A message comes to the end of its phone's queue.
LEMMA EnqueueKeepsQueues ==
  ASSUME TypeOK, QueueInv, NEW d \in Delivery, Enqueue(d)
  PROVE  QueueInv'
  <1> DEFINE l == Line(d)
  <1>1. /\ l \in Phone /\ queue[l] \in Seq(Delivery) /\ stage[d] = "next"
        /\ pos[d] <= Len(inbox[d])
    BY MsgType DEF Enqueue, TypeOK
  <1>2. /\ stage' = [stage EXCEPT ![d] = "queued"] /\ inbox' = inbox /\ pos' = pos
        /\ queue' = [queue EXCEPT ![l] = Append(@, d)]
    BY DEF Enqueue, Line
  <1>3. \A e \in Delivery : Msg(e)' = Msg(e) /\ Line(e)' = Line(e)
    BY <1>2 DEF Msg, Line
  <1>4. /\ InLine(d)' /\ ~InLine(d) /\ ~Working(d)'
        /\ \A e \in Delivery \ {d} : /\ InLine(e)' <=> InLine(e)
                                     /\ Working(e)' <=> Working(e)
    BY <1>1, <1>2 DEF InLine, Working, TypeOK
  <1>5. Line(d)' = l
    BY <1>3
  <1> HIDE DEF l
  <1>6. /\ queue'[l] = Append(queue[l], d) /\ Len(queue[l]) \in Nat
        /\ DOMAIN queue[l] = 1 .. Len(queue[l]) /\ DOMAIN queue'[l] = 1 .. Len(queue[l]) + 1
        /\ \A i \in DOMAIN queue[l] : queue'[l][i] = queue[l][i]
        /\ queue'[l][Len(queue[l]) + 1] = d
    <2>1. queue'[l] = Append(queue[l], d)
      BY <1>1, <1>2 DEF TypeOK
    <2> QED BY <1>1, <2>1, AppendFacts
  <1>7. \A q \in Phone : q # l => queue'[q] = queue[q]
    BY <1>2 DEF TypeOK
  <1>8. \A q \in Phone, e \in Delivery, i \in Nat : i \in DOMAIN queue'[q] /\ queue'[q][i] = e =>
           \/ i \in DOMAIN queue[q] /\ queue[q][i] = e /\ e # d
           \/ q = l /\ e = d /\ i = Len(queue[l]) + 1
    <2> SUFFICES ASSUME NEW q \in Phone, NEW e \in Delivery, NEW i \in Nat,
                        i \in DOMAIN queue'[q], queue'[q][i] = e
                 PROVE  \/ i \in DOMAIN queue[q] /\ queue[q][i] = e /\ e # d
                        \/ q = l /\ e = d /\ i = Len(queue[l]) + 1
      OBVIOUS
    <2>1. \A j \in DOMAIN queue[q] : queue[q][j] # d
      BY SMTT(30), <1>4, LenProperties DEF QueueInv, TypeOK
    <2>2. CASE q = l
      BY <1>6, <2>1, <2>2
    <2>3. CASE q # l
      BY <1>7, <2>1, <2>3
    <2> QED BY <2>2, <2>3
  <1>9. \A q \in Phone, e \in Delivery, i \in Nat :
           i \in DOMAIN queue'[q] /\ queue'[q][i] = e => InLine(e)' /\ Line(e)' = q
    BY <1>3, <1>4, <1>5, <1>8 DEF QueueInv
  <1>10. \A q \in Phone, i, j \in Nat :
            i \in DOMAIN queue'[q] /\ j \in DOMAIN queue'[q] /\ queue'[q][i] = queue'[q][j] => i = j
    <2> SUFFICES ASSUME NEW q \in Phone, NEW i \in Nat, NEW j \in Nat, i \in DOMAIN queue'[q],
                        j \in DOMAIN queue'[q], queue'[q][i] = queue'[q][j]
                 PROVE  i = j
      OBVIOUS
    <2>1. queue'[q] \in Seq(Delivery)
      BY <1>1, <1>2, AppendFacts DEF TypeOK
    <2>2. queue'[q][i] \in Delivery
      BY <2>1, ElementOfSeq, LenProperties
    <2> QED BY <1>8, <2>2 DEF QueueInv
  <1>11. ASSUME NEW e \in Delivery, InLine(e)'
         PROVE  /\ pos'[e] <= Len(inbox'[e])
                /\ \E i \in DOMAIN queue'[Line(e)'] : queue'[Line(e)'][i] = e
                /\ Working(e)' => queue'[Line(e)'][1] = e
    <2>1. CASE e = d
      <3>1. Len(queue[l]) + 1 \in DOMAIN queue'[l]
        BY <1>6
      <3> QED BY <1>1, <1>2, <1>4, <1>5, <1>6, <2>1, <3>1
    <2>2. CASE e # d
      <3>1. InLine(e) /\ Line(e)' = Line(e) /\ (Working(e)' <=> Working(e))
        BY <1>3, <1>4, <1>11, <2>2
      <3>2. /\ Line(e) \in Phone /\ pos[e] <= Len(inbox[e])
            /\ Working(e) => queue[Line(e)][1] = e
        BY <3>1, MsgType DEF QueueInv
      <3>3. PICK i \in DOMAIN queue[Line(e)] : queue[Line(e)][i] = e
        BY <3>1 DEF QueueInv
      <3>4. /\ i \in DOMAIN queue'[Line(e)] /\ queue'[Line(e)][i] = e
            /\ queue'[Line(e)][1] = queue[Line(e)][1]
        BY <1>6, <1>7, <3>2, <3>3
      <3> QED BY <1>2, <3>1, <3>2, <3>4
    <2> QED BY <2>1, <2>2
  <1>12. \A e \in Delivery : Working(e)' => InLine(e)'
    BY DEF Working, InLine
  <1> QED BY <1>9, <1>10, <1>11, <1>12 DEF QueueInv

\* Every step keeps the queues in order.
LEMMA QueueStep == TypeOK /\ QueueInv /\ [Next]_vars => QueueInv'
  <1> SUFFICES ASSUME TypeOK, QueueInv, [Next]_vars PROVE QueueInv'
    OBVIOUS
  <1>1. CASE UNCHANGED vars
    BY <1>1, QueueFrame DEF vars, gateway, KeepsPlace, InLine, Working
  <1>2. ASSUME NEW d \in Delivery, Deliver(d) PROVE QueueInv'
    <2>1. \A e \in Delivery : KeepsPlace(e)
      BY <1>2 DEF Deliver, Posts, KeepsPlace, InLine, Working, TypeOK
    <2> QED BY <1>2, <2>1, QueueFrame DEF Deliver
  <1>3. ASSUME NEW d \in Delivery, Refuse(d) PROVE QueueInv'
    <2>1. \A e \in Delivery : KeepsPlace(e)
      BY <1>3 DEF Refuse, Posts, KeepsPlace, InLine, Working, TypeOK
    <2> QED BY <1>3, <2>1, QueueFrame DEF Refuse
  <1>4. ASSUME NEW d \in Delivery, Drop(d) PROVE QueueInv'
    <2>1. \A e \in Delivery : KeepsPlace(e)
      BY <1>4 DEF Drop, KeepsPlace, InLine, Working, TypeOK
    <2> QED BY <1>4, <2>1, QueueFrame DEF Drop
  <1>5. ASSUME NEW d \in Delivery, Call(d) PROVE QueueInv'
    <2>1. stage[d] = "queued" /\ Head(queue[Line(d)]) = d
      BY <1>5 DEF Call, HasTurn
    <2>2. queue[Line(d)] # <<>> /\ queue[Line(d)] \in Seq(Delivery)
      BY SMTT(30), <2>1, MsgType DEF QueueInv, InLine, TypeOK
    <2>3. queue[Line(d)][1] = d
      BY <2>1, <2>2, HeadFacts
    <2>4. \A e \in Delivery : KeepsPlace(e)
      BY <1>5, <2>1, <2>3 DEF Call, KeepsPlace, InLine, Working, TypeOK
    <2> QED BY <1>5, <2>4, QueueFrame DEF Call
  <1>6. ASSUME NEW d \in Delivery, Timeout(d) PROVE QueueInv'
    BY <1>6, FailLeaves DEF Timeout
  <1>7. ASSUME NEW d \in Delivery, SendReply(d) PROVE QueueInv'
    <2>1. CASE EndReply(d)
      BY <1>7, <2>1, EndLeaves DEF SendReply
    <2>2. CASE UNCHANGED <<stage, pos, queue>>
      BY <1>7, <2>2, QueueFrame DEF SendReply, KeepsPlace, InLine, Working
    <2> QED BY <1>7, <2>1, <2>2 DEF SendReply
  <1>8. ASSUME NEW d \in Delivery, SendFails(d) PROVE QueueInv'
    BY <1>8, EndLeaves DEF SendFails
  <1>9. ASSUME NEW d \in Delivery, Answer(d) PROVE QueueInv'
    <2>1. \A e \in Delivery : KeepsPlace(e)
      BY <1>9 DEF Answer, KeepsPlace, InLine, Working, TypeOK
    <2> QED BY <1>9, <2>1, QueueFrame DEF Answer
  <1>10. ASSUME NEW p \in Phone, Handle(p) PROVE QueueInv'
    <2>1. \A e \in Delivery : KeepsPlace(e)
      BY <1>10 DEF Handle, KeepsPlace, InLine, Working, TypeOK
    <2> QED BY <1>10, <2>1, QueueFrame DEF Handle
  <1>11. ASSUME NEW p \in Phone, HandleFails(p) PROVE QueueInv'
    <2>1. Head(calls[p])[1] \in Delivery
      BY <1>11, HeadFacts DEF HandleFails, TypeOK
    <2>2. CASE UNCHANGED <<stage, cache, queue, forgotten>>
      BY <1>11, <2>2, QueueFrame DEF HandleFails, KeepsPlace, InLine, Working
    <2>3. CASE stage[Head(calls[p])[1]] = "calling" /\ FailDelivery(Head(calls[p])[1])
      BY <1>11, <2>1, <2>3, FailLeaves DEF HandleFails
    <2> QED BY <1>11, <2>2, <2>3 DEF HandleFails
  <1>12. CASE Reconfigure \/ Restore \/ Tick
    BY <1>12, QueueFrame DEF Reconfigure, Restore, Tick, gateway, KeepsPlace, InLine, Working
  <1>13. CASE Crash
    <2>1. \A e \in Delivery : ~InLine(e)' /\ ~Working(e)'
      BY <1>13 DEF Crash, Running, Finished, InLine, Working, TypeOK, Stage
    <2>2. \A q \in Phone : DOMAIN queue'[q] = {}
      BY <1>13 DEF Crash
    <2> QED BY <2>1, <2>2 DEF QueueInv
  <1> QED
    BY <1>1, <1>2, <1>3, <1>4, <1>5, <1>6, <1>7, <1>8, <1>9, <1>10, <1>11, <1>12, <1>13,
       EnqueueKeepsQueues DEF Next, Process

-----------------------------------------------------------------------------
(* The calls                                                               *)

\* A delivery with a call at the backend is still calling, or has failed.
LEMMA CallsFrame ==
  ASSUME TypeOK, CallsInv, calls' = calls,
         \A e \in Delivery : stage[e] \in {"calling", "failed"} =>
            stage'[e] \in {"calling", "failed"} /\ inbox'[e] = inbox[e] /\ pos'[e] = pos[e]
  PROVE  CallsInv'
  <1>1. \A e \in Delivery : stage[e] \in {"calling", "failed"} => Msg(e)' = Msg(e)
    BY DEF Msg
  <1>2. \A p \in Phone, e \in Delivery, m \in Message, i \in Nat :
          i \in DOMAIN calls'[p] /\ calls'[p][i] = <<e, m>> =>
             /\ stage'[e] \in {"calling", "failed"}
             /\ pos'[e] <= Len(inbox'[e]) /\ m = Msg(e)' /\ From[m] = p
    BY <1>1 DEF CallsInv
  <1>3. \A p \in Phone, i, j \in Nat :
          i \in DOMAIN calls'[p] /\ j \in DOMAIN calls'[p] /\ calls'[p][i][1] = calls'[p][j][1] => i = j
    BY DEF CallsInv
  <1> QED BY <1>2, <1>3 DEF CallsInv

\* The backend has taken the first call of a phone.
LEMMA CallsTake ==
  ASSUME TypeOK, CallsInv, NEW p \in Phone, calls[p] # <<>>,
         calls' = [calls EXCEPT ![p] = Tail(@)], UNCHANGED <<inbox, pos>>,
         \A e \in Delivery : e # calls[p][1][1] /\ stage[e] \in {"calling", "failed"} =>
            stage'[e] \in {"calling", "failed"}
  PROVE  /\ CallsInv'
         /\ \A q \in Phone, i \in Nat : i \in DOMAIN calls'[q] =>
               \E j \in Nat : /\ j \in DOMAIN calls[q] /\ calls'[q][i] = calls[q][j]
                              /\ j = (IF q = p THEN i + 1 ELSE i)
                              /\ calls[q][j][1] # calls[p][1][1]
  <1>0. /\ \A q \in Phone, e \in Delivery, m \in Message, i \in Nat :
              i \in DOMAIN calls[q] /\ calls[q][i] = <<e, m>> =>
                 /\ stage[e] \in {"calling", "failed"}
                 /\ pos[e] <= Len(inbox[e]) /\ m = Msg(e) /\ From[m] = q
        /\ \A q \in Phone, i, j \in Nat :
              i \in DOMAIN calls[q] /\ j \in DOMAIN calls[q] /\ calls[q][i][1] = calls[q][j][1] => i = j
    BY DEF CallsInv
  <1>1. /\ calls'[p] = Tail(calls[p]) /\ calls[p] \in Seq(Delivery \X Message)
        /\ \A q \in Phone : q # p => calls'[q] = calls[q]
    BY DEF TypeOK
  <1>2. /\ DOMAIN calls[p] = 1 .. Len(calls[p]) /\ 1 \in DOMAIN calls[p]
        /\ DOMAIN calls'[p] = 1 .. Len(calls[p]) - 1 /\ Len(calls[p]) \in Nat \ {0}
        /\ \A i \in DOMAIN calls'[p] : calls'[p][i] = calls[p][i + 1] /\ i + 1 \in DOMAIN calls[p]
    <2> DEFINE s == calls[p]
               S == Delivery \X Message
    <2>1. s \in Seq(S) /\ s # <<>> /\ calls'[p] = Tail(s)
      BY <1>1
    <2> HIDE DEF s, S
    <2>2. /\ DOMAIN s = 1 .. Len(s) /\ 1 \in DOMAIN s
          /\ DOMAIN Tail(s) = 1 .. Len(s) - 1 /\ Len(s) \in Nat \ {0}
          /\ \A i \in DOMAIN Tail(s) : Tail(s)[i] = s[i + 1] /\ i + 1 \in DOMAIN s
      BY <2>1, HeadFacts
    <2> QED BY <2>1, <2>2 DEF s
  <1>3. \A q \in Phone, i \in Nat : i \in DOMAIN calls[q] =>
           calls[q][i] \in Delivery \X Message
    BY SMTT(30), ElementOfSeq, LenProperties DEF TypeOK
  <1>4. \A q \in Phone, i \in Nat : i \in DOMAIN calls[q] =>
           \E e \in Delivery, m \in Message : calls[q][i] = <<e, m>> /\ From[m] = q /\ m = Msg(e)
    BY <1>0, <1>3
  <1>5. ASSUME NEW q \in Phone, NEW i \in Nat, i \in DOMAIN calls'[q]
        PROVE  \E j \in Nat : /\ j \in DOMAIN calls[q] /\ calls'[q][i] = calls[q][j]
                              /\ j = (IF q = p THEN i + 1 ELSE i)
                              /\ calls[q][j][1] # calls[p][1][1]
    <2>1. CASE q = p
      <3>1. i + 1 \in DOMAIN calls[p] /\ calls'[p][i] = calls[p][i + 1] /\ i + 1 # 1 /\ i + 1 \in Nat
        BY <1>2, <1>5, <2>1
      <3>2. calls[p][i + 1][1] # calls[p][1][1]
        BY <1>0, <1>2, <3>1
      <3> QED BY <2>1, <3>1, <3>2
    <2>2. CASE q # p
      <3>1. i \in DOMAIN calls[q] /\ calls'[q][i] = calls[q][i]
        BY <1>1, <1>5, <2>2
      <3>2. PICK e \in Delivery, m \in Message : calls[q][i] = <<e, m>> /\ From[m] = q /\ m = Msg(e)
        BY <1>4, <3>1
      <3>3. PICK f \in Delivery, n \in Message : calls[p][1] = <<f, n>> /\ From[n] = p /\ n = Msg(f)
        BY <1>2, <1>4
      <3>4. e # f
        BY <2>2, <3>2, <3>3
      <3> QED BY <2>2, <3>1, <3>2, <3>3, <3>4
    <2> QED BY <2>1, <2>2
  <1>6. ASSUME NEW q \in Phone, NEW e \in Delivery, NEW m \in Message, NEW i \in Nat,
               i \in DOMAIN calls'[q], calls'[q][i] = <<e, m>>
        PROVE  /\ stage'[e] \in {"calling", "failed"}
               /\ pos'[e] <= Len(inbox'[e]) /\ m = Msg(e)' /\ From[m] = q
    <2>1. PICK j \in Nat : /\ j \in DOMAIN calls[q] /\ calls'[q][i] = calls[q][j]
                           /\ calls[q][j][1] # calls[p][1][1]
      BY <1>5, <1>6
    <2>2. calls[q][j] = <<e, m>> /\ e # calls[p][1][1]
      BY <1>6, <2>1
    <2>3. /\ stage[e] \in {"calling", "failed"}
          /\ pos[e] <= Len(inbox[e]) /\ m = Msg(e) /\ From[m] = q
      BY <1>0, <2>1, <2>2
    <2> QED BY <2>2, <2>3 DEF Msg
  <1>7. ASSUME NEW q \in Phone, NEW i \in Nat, NEW j \in Nat, i \in DOMAIN calls'[q],
               j \in DOMAIN calls'[q], calls'[q][i][1] = calls'[q][j][1]
        PROVE  i = j
    <2>1. PICK k \in Nat : /\ k \in DOMAIN calls[q] /\ calls'[q][i] = calls[q][k]
                           /\ k = (IF q = p THEN i + 1 ELSE i)
      BY <1>5, <1>7
    <2>2. PICK n \in Nat : /\ n \in DOMAIN calls[q] /\ calls'[q][j] = calls[q][n]
                           /\ n = (IF q = p THEN j + 1 ELSE j)
      BY <1>5, <1>7
    <2>3. k = n
      BY <1>0, <1>7, <2>1, <2>2
    <2> QED BY <2>1, <2>2, <2>3
  <1>8. CallsInv'
    <2>1. \A q \in Phone, e \in Delivery, m \in Message, i \in Nat :
             i \in DOMAIN calls'[q] /\ calls'[q][i] = <<e, m>> =>
                /\ stage'[e] \in {"calling", "failed"}
                /\ pos'[e] <= Len(inbox'[e]) /\ m = Msg(e)' /\ From[m] = q
      BY <1>6
    <2>2. \A q \in Phone, i, j \in Nat :
             i \in DOMAIN calls'[q] /\ j \in DOMAIN calls'[q] /\ calls'[q][i][1] = calls'[q][j][1]
                => i = j
      BY <1>7
    <2> QED BY <2>1, <2>2 DEF CallsInv
  <1> QED BY <1>5, <1>8

\* A call comes to the backend.
LEMMA CallFacts ==
  ASSUME TypeOK, QueueInv, CallsInv, NEW d \in Delivery, Call(d)
  PROVE  /\ Msg(d) \in Message /\ Line(d) \in Phone /\ pos[d] <= Len(inbox[d])
         /\ stage[d] = "queued" /\ stage' = [stage EXCEPT ![d] = "calling"]
         /\ \A q \in Phone : q # Line(d) => calls'[q] = calls[q]
         /\ \E k \in 1 .. Len(calls[Line(d)]) + 1 : \A i \in Nat :
               i \in DOMAIN calls'[Line(d)] =>
                  \/ i = k /\ calls'[Line(d)][i] = <<d, Msg(d)>>
                  \/ i < k /\ i \in DOMAIN calls[Line(d)] /\ calls'[Line(d)][i] = calls[Line(d)][i]
                  \/ /\ i > k /\ i - 1 \in DOMAIN calls[Line(d)]
                     /\ calls'[Line(d)][i] = calls[Line(d)][i - 1]
         /\ \A i \in DOMAIN calls[Line(d)] : \E j \in DOMAIN calls'[Line(d)] :
               calls'[Line(d)][j] = calls[Line(d)][i]
         /\ \E j \in DOMAIN calls'[Line(d)] : calls'[Line(d)][j] = <<d, Msg(d)>>
         /\ \A i \in DOMAIN calls[Line(d)] : calls[Line(d)][i][1] # d
  <1> DEFINE l == Line(d)
  <1>1. stage[d] = "queued" /\ stage' = [stage EXCEPT ![d] = "calling"]
    BY DEF Call, HasTurn
  <1>2. Msg(d) \in Message /\ l \in Phone /\ pos[d] <= Len(inbox[d])
    BY <1>1, MsgType DEF QueueInv, InLine
  <1>3. PICK k \in 1 .. Len(calls[l]) + 1 :
           calls' = [calls EXCEPT ![l] = InsertAt(@, k, <<d, Msg(d)>>)]
    BY DEF Call
  <1> HIDE DEF l
  <1>4. <<d, Msg(d)>> \in Delivery \X Message /\ calls[l] \in Seq(Delivery \X Message)
    BY <1>2 DEF TypeOK
  <1>5. calls'[l] = InsertAt(calls[l], k, <<d, Msg(d)>>) /\ \A q \in Phone : q # l => calls'[q] = calls[q]
    BY <1>2, <1>3 DEF TypeOK
  <1>6. /\ calls'[l] \in Seq(Delivery \X Message) /\ Len(calls'[l]) = Len(calls[l]) + 1
        /\ \A j \in 1 .. Len(calls[l]) + 1 :
              calls'[l][j] = IF j < k THEN calls[l][j]
                             ELSE IF j = k THEN <<d, Msg(d)>> ELSE calls[l][j - 1]
    <2> DEFINE c == <<d, Msg(d)>>
               s == calls[l]
               S == Delivery \X Message
    <2>1. /\ c \in S /\ s \in Seq(S) /\ k \in 1 .. Len(s) + 1
          /\ calls'[l] = InsertAt(s, k, c)
      BY <1>3, <1>4, <1>5
    <2> HIDE DEF c, s, S
    <2>2. Inserted(InsertAt(s, k, c), s, k, c, S)
      BY <2>1, InsertAtFacts
    <2> QED BY <2>1, <2>2 DEF Inserted, c, s, S
  <1>7. /\ Len(calls[l]) \in Nat /\ DOMAIN calls[l] = 1 .. Len(calls[l])
        /\ DOMAIN calls'[l] = 1 .. Len(calls[l]) + 1
    BY <1>4, <1>6, LenProperties
  <1>8. \A i \in Nat : i \in DOMAIN calls'[l] =>
           \/ i = k /\ calls'[l][i] = <<d, Msg(d)>>
           \/ i < k /\ i \in DOMAIN calls[l] /\ calls'[l][i] = calls[l][i]
           \/ i > k /\ i - 1 \in DOMAIN calls[l] /\ calls'[l][i] = calls[l][i - 1]
    BY <1>6, <1>7
  <1>9. \A i \in DOMAIN calls[l] : \E j \in DOMAIN calls'[l] : calls'[l][j] = calls[l][i]
    <2> SUFFICES ASSUME NEW i \in DOMAIN calls[l]
                 PROVE  \E j \in DOMAIN calls'[l] : calls'[l][j] = calls[l][i]
      OBVIOUS
    <2>1. CASE i < k
      BY <1>6, <1>7, <2>1
    <2>2. CASE ~(i < k)
      <3>1. i + 1 \in DOMAIN calls'[l] /\ calls'[l][i + 1] = calls[l][i]
        BY SMTT(30), <1>6, <1>7, <2>2
      <3> QED BY <3>1
    <2> QED BY <2>1, <2>2
  <1>10. k \in DOMAIN calls'[l] /\ calls'[l][k] = <<d, Msg(d)>>
    BY <1>6, <1>7
  <1>11. \A i \in DOMAIN calls[l] : calls[l][i][1] # d
    <2> SUFFICES ASSUME NEW i \in DOMAIN calls[l], calls[l][i][1] = d PROVE FALSE
      OBVIOUS
    <2>1. i \in Nat /\ calls[l][i] \in Delivery \X Message
      BY <1>4, <1>7, ElementOfSeq
    <2>2. PICK m \in Message : calls[l][i] = <<d, m>>
      BY <2>1
    <2>3. stage[d] \in {"calling", "failed"}
      BY <1>2, <2>1, <2>2 DEF CallsInv
    <2> QED BY <1>1, <2>3
  <1> QED BY <1>1, <1>2, <1>5, <1>8, <1>9, <1>10, <1>11 DEF l

\* A call to the backend keeps the calls in order.
LEMMA CallKeepsCalls ==
  ASSUME TypeOK, QueueInv, CallsInv, NEW d \in Delivery, Call(d)
  PROVE  CallsInv'
  <1> DEFINE l == Line(d)
  <1>1. /\ Msg(d) \in Message /\ l \in Phone /\ pos[d] <= Len(inbox[d]) /\ From[Msg(d)] = l
        /\ stage[d] = "queued" /\ stage' = [stage EXCEPT ![d] = "calling"]
        /\ \A q \in Phone : q # l => calls'[q] = calls[q]
        /\ \A i \in DOMAIN calls[l] : calls[l][i][1] # d
    BY CallFacts DEF Line
  <1>2. PICK k \in 1 .. Len(calls[l]) + 1 : \A i \in Nat :
           i \in DOMAIN calls'[l] =>
              \/ i = k /\ calls'[l][i] = <<d, Msg(d)>>
              \/ i < k /\ i \in DOMAIN calls[l] /\ calls'[l][i] = calls[l][i]
              \/ i > k /\ i - 1 \in DOMAIN calls[l] /\ calls'[l][i] = calls[l][i - 1]
    BY CallFacts
  <1> HIDE DEF l
  <1>3. inbox' = inbox /\ pos' = pos /\ \A e \in Delivery : Msg(e)' = Msg(e)
    BY DEF Call, Msg
  <1>4. Len(calls[l]) \in Nat /\ DOMAIN calls[l] = 1 .. Len(calls[l])
    BY <1>1, LenProperties DEF TypeOK
  <1>5. ASSUME NEW q \in Phone, NEW e \in Delivery, NEW m \in Message, NEW i \in Nat,
               i \in DOMAIN calls'[q], calls'[q][i] = <<e, m>>
        PROVE  /\ stage'[e] \in {"calling", "failed"}
               /\ pos'[e] <= Len(inbox'[e]) /\ m = Msg(e)' /\ From[m] = q
    <2>1. CASE q = l /\ i = k /\ calls'[l][i] = <<d, Msg(d)>>
      <3>1. e = d /\ m = Msg(d)
        BY <1>5, <2>1
      <3>2. stage'[d] = "calling"
        BY <1>1 DEF TypeOK
      <3> QED BY <1>1, <1>3, <2>1, <3>1, <3>2
    <2>2. ASSUME NEW j \in Nat, j \in DOMAIN calls[q], calls[q][j] = <<e, m>>
          PROVE  /\ stage'[e] \in {"calling", "failed"}
                 /\ pos'[e] <= Len(inbox'[e]) /\ m = Msg(e)' /\ From[m] = q
      <3>1. /\ stage[e] \in {"calling", "failed"}
            /\ pos[e] <= Len(inbox[e]) /\ m = Msg(e) /\ From[m] = q
        BY <2>2 DEF CallsInv
      <3>2. stage'[e] = stage[e]
        BY <1>1, <3>1 DEF TypeOK
      <3> QED BY <1>3, <3>1, <3>2
    <2>3. CASE q = l /\ i < k /\ i \in DOMAIN calls[l] /\ calls'[l][i] = calls[l][i]
      BY <1>5, <2>2, <2>3
    <2>4. CASE q = l /\ i > k /\ i - 1 \in DOMAIN calls[l] /\ calls'[l][i] = calls[l][i - 1]
      <3>1. i - 1 \in Nat /\ calls[q][i - 1] = <<e, m>>
        BY <1>4, <1>5, <2>4
      <3> QED BY <2>2, <2>4, <3>1
    <2>5. CASE q # l
      BY <1>1, <1>5, <2>2, <2>5
    <2> QED BY <1>2, <1>5, <2>1, <2>3, <2>4, <2>5
  <1>6. ASSUME NEW q \in Phone, NEW i \in Nat, NEW j \in Nat, i \in DOMAIN calls'[q],
               j \in DOMAIN calls'[q], calls'[q][i][1] = calls'[q][j][1]
        PROVE  i = j
    <2>0. \A a, b \in Nat : a \in DOMAIN calls[q] /\ b \in DOMAIN calls[q]
                              /\ calls[q][a][1] = calls[q][b][1] => a = b
      BY DEF CallsInv
    <2>1. CASE q # l
      BY <1>1, <1>6, <2>0, <2>1
    <2>2. CASE q = l
      <3>1. \/ i = k /\ calls'[l][i][1] = d
            \/ i < k /\ i \in DOMAIN calls[l] /\ calls'[l][i] = calls[l][i]
            \/ i > k /\ i - 1 \in DOMAIN calls[l] /\ calls'[l][i] = calls[l][i - 1]
        BY <1>2, <1>6, <2>2
      <3>2. \/ j = k /\ calls'[l][j][1] = d
            \/ j < k /\ j \in DOMAIN calls[l] /\ calls'[l][j] = calls[l][j]
            \/ j > k /\ j - 1 \in DOMAIN calls[l] /\ calls'[l][j] = calls[l][j - 1]
        BY <1>2, <1>6, <2>2
      <3>3. i = k => j = k
        BY <1>1, <1>6, <2>2, <3>1, <3>2
      <3>4. j = k => i = k
        BY <1>1, <1>6, <2>2, <3>1, <3>2
      <3>5. CASE i # k /\ j # k
        <4> DEFINE a == IF i < k THEN i ELSE i - 1
                   b == IF j < k THEN j ELSE j - 1
        <4>1. a \in Nat /\ a \in DOMAIN calls[l] /\ calls'[l][i] = calls[l][a]
          BY <1>4, <3>1, <3>5
        <4>2. b \in Nat /\ b \in DOMAIN calls[l] /\ calls'[l][j] = calls[l][b]
          BY <1>4, <3>2, <3>5
        <4>3. a = b
          BY <1>6, <2>0, <2>2, <4>1, <4>2
        <4> QED BY <1>2, <1>4, <3>1, <3>2, <3>5, <4>3
      <3> QED BY <3>3, <3>4, <3>5
    <2> QED BY <2>1, <2>2
  <1>7. \A q \in Phone, e \in Delivery, m \in Message, i \in Nat :
           i \in DOMAIN calls'[q] /\ calls'[q][i] = <<e, m>> =>
              /\ stage'[e] \in {"calling", "failed"}
              /\ pos'[e] <= Len(inbox'[e]) /\ m = Msg(e)' /\ From[m] = q
    BY <1>5
  <1>8. \A q \in Phone, i, j \in Nat :
           i \in DOMAIN calls'[q] /\ j \in DOMAIN calls'[q] /\ calls'[q][i][1] = calls'[q][j][1]
              => i = j
    BY <1>6
  <1> QED BY <1>7, <1>8 DEF CallsInv

\* The caller of the first call of a phone, and what it called for.
LEMMA FirstCall ==
  ASSUME TypeOK, CallsInv, NEW p \in Phone, calls[p] # <<>>
  PROVE  LET d == calls[p][1][1]
             m == calls[p][1][2]
         IN  /\ Head(calls[p]) = calls[p][1] /\ calls[p][1] = <<d, m>> /\ 1 \in DOMAIN calls[p]
             /\ d \in Delivery /\ m \in Message /\ stage[d] \in {"calling", "failed"}
             /\ pos[d] <= Len(inbox[d]) /\ m = Msg(d) /\ From[m] = p /\ Line(d) = p
  <1>1. calls[p] \in Seq(Delivery \X Message)
    BY DEF TypeOK
  <1>2. Head(calls[p]) = calls[p][1] /\ calls[p][1] \in Delivery \X Message /\ 1 \in DOMAIN calls[p]
    BY <1>1, HeadFacts
  <1>3. PICK d \in Delivery, m \in Message : calls[p][1] = <<d, m>>
    BY <1>2
  <1>4. /\ stage[d] \in {"calling", "failed"} /\ pos[d] <= Len(inbox[d]) /\ m = Msg(d)
        /\ From[m] = p
    BY <1>2, <1>3 DEF CallsInv
  <1> QED BY <1>2, <1>3, <1>4 DEF Line

\* Call d of phone p, for message m, is answered.
Handles(p, d, m) ==
    /\ calls[p] # <<>> /\ calls[p][1] = <<d, m>> /\ 1 \in DOMAIN calls[p]
    /\ stage[d] \in {"calling", "failed"} /\ pos[d] <= Len(inbox[d])
    /\ m = Msg(d) /\ From[m] = p /\ Line(d) = p
    /\ calls' = [calls EXCEPT ![p] = Tail(@)]
    /\ handled' = [handled EXCEPT ![p] = Append(@, m)]
    /\ stage' = IF stage[d] = "calling" THEN [stage EXCEPT ![d] = "replying"] ELSE stage
    /\ turn' = IF stage[d] = "calling" THEN [turn EXCEPT ![d] = ReplyTo(Len(handled'[p]))] ELSE turn

\* What it is to handle a call.
LEMMA HandleFacts ==
  ASSUME TypeOK, CallsInv, NEW p \in Phone, Handle(p)
  PROVE  \E d \in Delivery, m \in Message : Handles(p, d, m)
  <1>1. calls[p] # <<>>
    BY DEF Handle
  <1>2. PICK d \in Delivery, m \in Message :
           /\ calls[p][1] = <<d, m>> /\ Head(calls[p]) = <<d, m>> /\ 1 \in DOMAIN calls[p]
           /\ stage[d] \in {"calling", "failed"} /\ pos[d] <= Len(inbox[d])
           /\ m = Msg(d) /\ From[m] = p /\ Line(d) = p
    BY <1>1, FirstCall
  <1>3. Head(calls[p])[1] = d /\ Head(calls[p])[2] = m
    BY <1>2
  <1>4. /\ calls' = [calls EXCEPT ![p] = Tail(@)]
        /\ handled' = [handled EXCEPT ![p] = Append(@, m)]
        /\ stage' = IF stage[d] = "calling" THEN [stage EXCEPT ![d] = "replying"] ELSE stage
        /\ turn' = IF stage[d] = "calling" THEN [turn EXCEPT ![d] = ReplyTo(Len(handled'[p]))] ELSE turn
    <2>1. handled' = [handled EXCEPT ![p] = Append(@, m)]
      BY <1>3, Zenon DEF Handle
    <2>2. stage' = IF stage[d] = "calling" THEN [stage EXCEPT ![d] = "replying"] ELSE stage
      BY <1>3, Zenon DEF Handle
    <2>3. turn' = IF stage[d] = "calling" THEN [turn EXCEPT ![d] = ReplyTo(Len(handled'[p]))] ELSE turn
      <3>1. CASE stage[d] = "calling"
        <4>1. turn' = [turn EXCEPT ![d] = ReplyTo(Len(handled'[p]))]
          BY <1>3, <3>1 DEF Handle
        <4> QED BY <3>1, <4>1
      <3>2. CASE stage[d] # "calling"
        <4>1. turn' = turn
          BY <1>3, <3>2 DEF Handle
        <4> QED BY <3>2, <4>1
      <3> QED BY <3>1, <3>2
    <2>4. calls' = [calls EXCEPT ![p] = Tail(@)]
      BY DEF Handle
    <2> QED BY <2>1, <2>2, <2>3, <2>4
  <1> QED BY <1>1, <1>2, <1>4 DEF Handles

\* Every step keeps the calls in order.
LEMMA CallsStep == TypeOK /\ QueueInv /\ CallsInv /\ [Next]_vars => CallsInv'
  <1> SUFFICES ASSUME TypeOK, QueueInv, CallsInv, [Next]_vars PROVE CallsInv'
    OBVIOUS
  <1>1. CASE UNCHANGED vars
    BY <1>1, CallsFrame DEF vars, gateway
  <1>2. ASSUME NEW d \in Delivery, Deliver(d) PROVE CallsInv'
    BY <1>2, CallsFrame DEF Deliver, Posts, TypeOK
  <1>3. ASSUME NEW d \in Delivery, Refuse(d) PROVE CallsInv'
    BY <1>3, CallsFrame DEF Refuse, Posts, TypeOK
  <1>4. ASSUME NEW d \in Delivery, Drop(d) PROVE CallsInv'
    BY <1>4, CallsFrame DEF Drop, TypeOK
  <1>5. ASSUME NEW d \in Delivery, Enqueue(d) PROVE CallsInv'
    BY <1>5, CallsFrame DEF Enqueue, TypeOK
  <1>6. ASSUME NEW d \in Delivery, Timeout(d) PROVE CallsInv'
    BY <1>6, CallsFrame DEF Timeout, FailDelivery, TypeOK
  <1>7. ASSUME NEW d \in Delivery, SendReply(d) \/ SendFails(d) PROVE CallsInv'
    <2>1. stage[d] = "replying" /\ UNCHANGED <<calls, inbox>>
      BY <1>7 DEF SendReply, SendFails
    <2>2. CASE EndReply(d)
      BY <2>1, <2>2, CallsFrame DEF EndReply, TypeOK
    <2>3. CASE UNCHANGED <<stage, pos>>
      BY <2>1, <2>3, CallsFrame
    <2> QED BY <1>7, <2>2, <2>3 DEF SendReply, SendFails
  <1>8. ASSUME NEW d \in Delivery, Answer(d) PROVE CallsInv'
    BY <1>8, CallsFrame DEF Answer, TypeOK
  <1>9. ASSUME NEW p \in Phone, Handle(p) PROVE CallsInv'
    <2>1. calls[p] # <<>> /\ calls' = [calls EXCEPT ![p] = Tail(@)] /\ UNCHANGED <<inbox, pos>>
      BY <1>9 DEF Handle
    <2>2. Head(calls[p]) = calls[p][1]
      BY <2>1, FirstCall
    <2>3. \A e \in Delivery : e # calls[p][1][1] => stage'[e] = stage[e]
      BY <1>9, <2>2 DEF Handle, TypeOK
    <2> QED BY <2>1, <2>3, CallsTake
  <1>10. ASSUME NEW p \in Phone, HandleFails(p) PROVE CallsInv'
    <2>1. calls[p] # <<>> /\ calls' = [calls EXCEPT ![p] = Tail(@)] /\ UNCHANGED <<inbox, pos>>
      BY <1>10 DEF HandleFails
    <2>2. Head(calls[p]) = calls[p][1]
      BY <2>1, FirstCall
    <2>3. \A e \in Delivery : e # calls[p][1][1] => stage'[e] = stage[e]
      BY <1>10, <2>2 DEF HandleFails, FailDelivery, TypeOK
    <2> QED BY <2>1, <2>3, CallsTake
  <1>11. CASE Reconfigure \/ Restore \/ Tick
    BY <1>11, CallsFrame DEF Reconfigure, Restore, Tick, gateway
  <1>12. CASE Crash
    BY <1>12, CallsFrame DEF Crash, TypeOK
  <1> QED
    BY <1>1, <1>2, <1>3, <1>4, <1>5, <1>6, <1>7, <1>8, <1>9, <1>10, <1>11, <1>12,
       CallKeepsCalls DEF Next, Process

-----------------------------------------------------------------------------
(* The marks                                                               *)

\* What the conversation of a phone has handled only grows.
LEMMA HandledGrows ==
  ASSUME TypeOK, CallsInv, [Next]_vars
  PROVE  \A p \in Phone : \/ handled'[p] = handled[p]
                          \/ \E m \in Message : handled'[p] = Append(handled[p], m)
  <1>1. CASE handled' = handled
    BY <1>1
  <1>2. ASSUME NEW q \in Phone, Handle(q) \/ HandleFails(q)
        PROVE  \A p \in Phone : \/ handled'[p] = handled[p]
                                \/ \E m \in Message : handled'[p] = Append(handled[p], m)
    <2> DEFINE m == calls[q][1][2]
    <2>1. Head(calls[q])[2] = m /\ m \in Message
      BY <1>2, FirstCall DEF Handle, HandleFails
    <2>2. handled' \in {handled, [handled EXCEPT ![q] = Append(@, m)]}
      BY <1>2, <2>1 DEF Handle, HandleFails
    <2> QED BY <2>1, <2>2 DEF TypeOK
  <1>3. handled' = handled \/ \E q \in Phone : Handle(q) \/ HandleFails(q)
    BY DEF Next, Process, vars, gateway, history, dropped, Deliver, Refuse, Drop, Enqueue, Call,
           SendReply, SendFails, Answer, Timeout, Reconfigure, Restore, Tick, Crash
  <1> QED BY <1>1, <1>2, <1>3

\* What has reached the conversation has reached it for good.
LEMMA ReachedGrows ==
  ASSUME TypeOK, CallsInv, [Next]_vars, NEW m \in Message, Reached(m)
  PROVE  Reached(m)'
  <1> DEFINE h == handled[From[m]]
  <1>1. From[m] \in Phone /\ h \in Seq(Message)
    BY DeliveryAssumption DEF TypeOK
  <1>2. PICK i \in DOMAIN h : h[i] = m
    BY DEF Reached
  <1>3. handled'[From[m]] = h \/ \E n \in Message : handled'[From[m]] = Append(h, n)
    BY <1>1, HandledGrows
  <1> HIDE DEF h
  <1>4. CASE handled'[From[m]] = h
    BY <1>2, <1>4 DEF Reached
  <1>5. ASSUME NEW n \in Message, handled'[From[m]] = Append(h, n) PROVE Reached(m)'
    <2>1. i \in DOMAIN Append(h, n) /\ Append(h, n)[i] = m
      BY <1>1, <1>2, AppendFacts
    <2> QED BY <1>5, <2>1 DEF Reached
  <1> QED BY <1>3, <1>4, <1>5

\* A delivery keeps its message, and replies only to what has been handled.
KeepsMessage(e) ==
    /\ InLine(e)' <=> InLine(e)
    /\ InLine(e) => Msg(e)' = Msg(e)
    /\ stage'[e] = "replying" => stage[e] = "replying" \/ Reached(Msg(e))'

\* Time goes on, and a mark stays, goes or is set anew.
LEMMA ClockGrows ==
  ASSUME TypeOK, QueueInv, CallsInv, [Next]_vars
  PROVE  /\ clock \in Nat /\ clock' \in Nat /\ clock' >= clock
         /\ \A m \in Message : cache'[m] \in {cache[m], 0, clock}
  <1>1. clock \in Nat /\ (clock' = clock \/ clock' = clock + 1)
    <2>1. ASSUME NEW d \in Delivery,
                 \/ Deliver(d) \/ Refuse(d) \/ Drop(d) \/ Enqueue(d) \/ Call(d) \/ SendReply(d)
                 \/ Answer(d) \/ Timeout(d) \/ SendFails(d)
          PROVE  clock' = clock
      BY <2>1 DEF Deliver, Refuse, Drop, Enqueue, Call, SendReply, Answer, Timeout, SendFails
    <2>2. ASSUME NEW p \in Phone, Handle(p) \/ HandleFails(p) PROVE clock' = clock
      BY <2>2 DEF Handle, HandleFails
    <2>3. CASE UNCHANGED vars \/ Reconfigure \/ Restore \/ Crash
      BY <2>3 DEF vars, Reconfigure, Restore, Crash, TypeOK
    <2>4. CASE Tick
      BY <2>4 DEF Tick, TypeOK
    <2> QED BY <2>1, <2>2, <2>3, <2>4 DEF Next, Process, TypeOK
  <1>2. \/ cache' = cache \/ cache' = [m \in Message |-> 0]
        \/ \E m \in Message, t \in {0, clock} : cache' = [cache EXCEPT ![m] = t]
    <2> DEFINE Moves == \E m \in Message, t \in {0, clock} : cache' = [cache EXCEPT ![m] = t]
    <2>1. ASSUME NEW d \in Delivery, Drop(d) \/ Enqueue(d) PROVE cache' = cache \/ Moves
      BY <2>1, MsgType DEF Drop, Enqueue
    <2>2. ASSUME NEW d \in Delivery, stage[d] = "calling", FailDelivery(d) PROVE Moves
      BY <2>2, MsgType DEF FailDelivery, Unmark, QueueInv, InLine
    <2>3. ASSUME NEW d \in Delivery, Timeout(d) PROVE Moves
      BY <2>2, <2>3 DEF Timeout
    <2>4. ASSUME NEW p \in Phone, HandleFails(p) PROVE cache' = cache \/ Moves
      <3>1. Head(calls[p])[1] \in Delivery
        BY <2>4, FirstCall DEF HandleFails
      <3> QED BY <2>2, <2>4, <3>1 DEF HandleFails
    <2> DEFINE Emptied == cache' = [m \in Message |-> 0]
    <2>5. Crash => Emptied
      BY DEF Crash
    <2> HIDE DEF Moves, Emptied
    <2>6. UNCHANGED vars \/ Reconfigure \/ Restore \/ Tick => cache' = cache
      BY DEF vars, gateway, Reconfigure, Restore, Tick
    <2>7. ASSUME NEW d \in Delivery,
                 \/ Deliver(d) \/ Refuse(d) \/ Call(d) \/ SendReply(d) \/ Answer(d) \/ SendFails(d)
          PROVE  cache' = cache
      BY <2>7 DEF Deliver, Refuse, Call, SendReply, Answer, SendFails
    <2>8. ASSUME NEW p \in Phone, Handle(p) PROVE cache' = cache
      BY <2>8 DEF Handle
    <2>9. cache' = cache \/ Emptied \/ Moves
      BY <2>1, <2>3, <2>4, <2>5, <2>6, <2>7, <2>8 DEF Next, Process
    <2> QED BY <2>9 DEF Moves, Emptied
  <1> QED BY <1>1, <1>2 DEF TypeOK

\* No mark is of a time to come.
LEMMA MarksArePast ==
  ASSUME TypeOK, QueueInv, CallsInv, MarkInv, [Next]_vars
  PROVE  \A m \in Message : cache'[m] <= clock'
  <1> SUFFICES ASSUME NEW m \in Message PROVE cache'[m] <= clock'
    OBVIOUS
  <1>1. cache[m] \in Nat /\ cache[m] <= clock
    BY DEF TypeOK, MarkInv
  <1>2. /\ clock \in Nat /\ clock' \in Nat /\ clock' >= clock
        /\ cache'[m] \in {cache[m], 0, clock}
    BY ClockGrows
  <1> QED BY <1>1, <1>2

\* A step that leaves the marks and the messages at work keeps what marks mean.
LEMMA MarkFrame ==
  ASSUME TypeOK, QueueInv, CallsInv, MarkInv, [Next]_vars, cache' = cache, tooOld \subseteq tooOld',
         \A e \in Delivery : KeepsMessage(e),
         \A e \in Delivery : Running(e)' => clock' > 0
  PROVE  MarkInv'
  <1>1. ASSUME NEW e \in Delivery, InLine(e)
        PROVE  Msg(e) \in Message /\ Msg(e)' = Msg(e) /\ InLine(e)'
    BY <1>1, MsgType DEF KeepsMessage, QueueInv
  <1>2. \A m \in Message : cache'[m] <= clock'
    BY MarksArePast
  <1>4. ASSUME NEW m \in Message, cache'[m] # 0
        PROVE  \/ Reached(m)' \/ m \in tooOld'
               \/ \E d \in Delivery : InLine(d)' /\ Msg(d)' = m
    BY <1>1, <1>4, ReachedGrows DEF MarkInv
  <1>5. ASSUME NEW e \in Delivery, stage'[e] = "replying"
        PROVE  Reached(Msg(e))'
    <2>1. CASE stage[e] = "replying"
      <3>1. InLine(e) /\ Reached(Msg(e))
        BY <2>1 DEF InLine, MarkInv
      <3>2. \A m \in Message : Reached(m) => Reached(m)'
        BY ReachedGrows
      <3> QED BY <1>1, <3>1, <3>2 DEF Reached
    <2> QED BY <1>5, <2>1 DEF KeepsMessage
  <1> QED BY <1>2, <1>4, <1>5 DEF MarkInv

\* A message that is neither a duplicate nor too old has no mark, or one that
\* ran out; only a message without a timestamp outlives its mark.
LEMMA FreshHasNoMark ==
  ASSUME TypeOK, NEW m \in Message, ~IsDuplicate(m), ~IsStale(m), cache[m] # 0
  PROVE  m \notin Dated /\ cache[m] + MaxAge <= clock
  <1>1. clock \in Nat /\ cache[m] \in Nat /\ MaxAge \in Nat
    BY DeliveryAssumption DEF TypeOK
  <1> QED BY <1>1 DEF IsDuplicate, IsStale, SentAt

\* A delivery comes to a message and marks it.
LEMMA EnqueueKeepsMarks ==
  ASSUME TypeOK, QueueInv, CallsInv, MarkInv, [Next]_vars, NEW d \in Delivery, Enqueue(d)
  PROVE  MarkInv'
  <1> DEFINE n == Msg(d)
  <1>1. /\ n \in Message /\ stage[d] = "next" /\ cache' = [cache EXCEPT ![n] = clock]
        /\ stage' = [stage EXCEPT ![d] = "queued"]
        /\ UNCHANGED <<clock, inbox, pos, handled, tooOld>>
    BY MsgType DEF Enqueue, dropped
  <1>2. clock > 0
    BY <1>1 DEF MarkInv, Running, Finished
  <1>3. \A e \in Delivery : Msg(e)' = Msg(e) /\ (InLine(e) => Msg(e) \in Message)
    BY <1>1, MsgType DEF Msg, QueueInv
  <1>4. /\ InLine(d)' /\ Running(d)
        /\ \A e \in Delivery \ {d} : /\ InLine(e)' <=> InLine(e)
                                     /\ stage'[e] = stage[e]
    BY <1>1 DEF InLine, Running, Finished, TypeOK
  <1>5. \A m \in Message : cache'[m] = IF m = n THEN clock ELSE cache[m]
    BY <1>1 DEF TypeOK
  <1>6. \A m \in Message : cache'[m] <= clock'
    BY MarksArePast
  <1>9. ASSUME NEW m \in Message, cache'[m] # 0
        PROVE  \/ Reached(m)' \/ m \in tooOld'
               \/ \E e \in Delivery : InLine(e)' /\ Msg(e)' = m
    <2>1. CASE m = n
      BY <1>3, <1>4, <2>1
    <2>2. CASE m # n
      <3>1. \/ Reached(m) \/ m \in tooOld
            \/ \E e \in Delivery : InLine(e) /\ Msg(e) = m
        BY <1>5, <1>9, <2>2 DEF MarkInv
      <3>2. Reached(m)' <=> Reached(m)
        BY <1>1 DEF Reached
      <3> QED BY <1>1, <1>3, <1>4, <3>1, <3>2
    <2> QED BY <2>1, <2>2
  <1>10. \A e \in Delivery : stage'[e] = "replying" => Reached(Msg(e))'
    <2> SUFFICES ASSUME NEW e \in Delivery, stage'[e] = "replying" PROVE Reached(Msg(e))'
      OBVIOUS
    <2>1. stage[e] = "replying"
      BY <1>1 DEF TypeOK
    <2>2. Reached(Msg(e)) /\ Msg(e)' = Msg(e)
      BY <1>3, <2>1 DEF MarkInv
    <2> QED BY <1>1, <2>2 DEF Reached
  <1>11. \A e \in Delivery : Running(e)' => clock' > 0
    BY <1>1, <1>2
  <1> QED BY <1>6, <1>9, <1>10, <1>11 DEF MarkInv

\* A delivery leaves its message, and takes the mark with it if nothing came of it.
LEMMA LeaveKeepsMarks ==
  ASSUME TypeOK, QueueInv, CallsInv, MarkInv, [Next]_vars, NEW d \in Delivery, Working(d),
         UNCHANGED <<clock, inbox>>, ~InLine(d)', tooOld \subseteq tooOld',
         \A e \in Delivery \ {d} : stage'[e] = stage[e] /\ pos'[e] = pos[e],
         \/ cache' = [cache EXCEPT ![Msg(d)] = 0]
         \/ cache' = cache /\ Reached(Msg(d))
  PROVE  MarkInv'
  <1> DEFINE n == Msg(d)
  <1>1. /\ n \in Message /\ InLine(d) /\ clock > 0
        /\ \A m \in Message : m # n => cache'[m] = cache[m]
        /\ cache'[n] # 0 => Reached(n)
    <2>1. InLine(d) /\ Running(d)
      BY DEF Working, InLine, Running, Finished
    <2>2. n \in Message /\ clock > 0
      BY <2>1, MsgType DEF QueueInv, MarkInv
    <2>3. \A m \in Message : m # n => cache'[m] = cache[m]
      BY DEF TypeOK
    <2>4. cache'[n] # 0 => Reached(n)
      BY <2>2 DEF TypeOK
    <2> QED BY <2>1, <2>2, <2>3, <2>4
  <1>2. \A e \in Delivery \ {d} : /\ Msg(e)' = Msg(e) /\ (InLine(e)' <=> InLine(e))
                                  /\ (InLine(e) => Msg(e) \in Message)
    BY MsgType DEF Msg, QueueInv, InLine
  <1>3. \A m \in Message : cache'[m] <= clock'
    BY MarksArePast
  <1>5. ASSUME NEW m \in Message, cache'[m] # 0
        PROVE  \/ Reached(m)' \/ m \in tooOld'
               \/ \E e \in Delivery : InLine(e)' /\ Msg(e)' = m
    <2>1. CASE m = n
      BY <1>1, <1>5, <2>1, ReachedGrows
    <2>2. CASE m # n
      <3>1. \/ Reached(m) \/ m \in tooOld
            \/ \E e \in Delivery : InLine(e) /\ Msg(e) = m
        BY <1>1, <1>5, <2>2 DEF MarkInv
      <3> QED BY <1>2, <2>2, <3>1, ReachedGrows
    <2> QED BY <2>1, <2>2
  <1>6. ASSUME NEW e \in Delivery, stage'[e] = "replying" PROVE Reached(Msg(e))'
    <2>1. e # d /\ stage[e] = "replying"
      BY <1>6 DEF InLine
    <2>2. Reached(Msg(e)) /\ Msg(e) \in Message /\ Msg(e)' = Msg(e)
      BY <1>2, <2>1 DEF MarkInv, InLine
    <2>3. \A m \in Message : Reached(m) => Reached(m)'
      BY ReachedGrows
    <2> QED BY <2>2, <2>3 DEF Reached
  <1>7. \A e \in Delivery : Running(e)' => clock' > 0
    BY <1>1
  <1> QED BY <1>3, <1>5, <1>6, <1>7 DEF MarkInv

\* Every step keeps what marks mean.
LEMMA MarkStep ==
  ASSUME TypeOK, QueueInv, CallsInv, MarkInv, [Next]_vars
  PROVE  MarkInv'
  <1>0. clock \in Nat /\ \A e \in Delivery : Running(e) => clock > 0
    BY DEF MarkInv, TypeOK
  <1>1. CASE UNCHANGED vars
    BY <1>0, <1>1, MarkFrame
       DEF vars, gateway, history, dropped, KeepsMessage, InLine, Msg, Running
  <1>2. ASSUME NEW d \in Delivery, Deliver(d) PROVE MarkInv'
    <2>1. \A e \in Delivery : KeepsMessage(e)
      BY <1>2 DEF Deliver, Posts, KeepsMessage, InLine, Msg, TypeOK
    <2>2. clock' > 0 /\ cache' = cache /\ tooOld \subseteq tooOld'
      BY <1>2, <1>0 DEF Deliver, Posts, SentAt
    <2> QED BY <2>1, <2>2, MarkFrame
  <1>3. ASSUME NEW d \in Delivery, Refuse(d) PROVE MarkInv'
    <2>1. \A e \in Delivery : KeepsMessage(e)
      BY <1>3 DEF Refuse, Posts, KeepsMessage, InLine, Msg, TypeOK
    <2>2. clock' > 0 /\ cache' = cache /\ tooOld \subseteq tooOld'
      BY <1>3, <1>0 DEF Refuse, Posts, SentAt, history, dropped
    <2> QED BY <2>1, <2>2, MarkFrame
  <1>4. ASSUME NEW d \in Delivery, Drop(d) PROVE MarkInv'
    <2>1. /\ stage[d] = "next" /\ UNCHANGED <<clock, stage, inbox, handled>> /\ clock > 0
          /\ pos' = [pos EXCEPT ![d] = @ + 1]
      BY <1>0, <1>4 DEF Drop, Running, Finished
    <2>2. \A e \in Delivery : KeepsMessage(e) /\ (Running(e)' <=> Running(e))
      BY <2>1 DEF KeepsMessage, InLine, Msg, Running, TypeOK
    <2>3. CASE UNCHANGED <<cache, tooOld>>
      BY <2>1, <2>2, <2>3, MarkFrame
    <2>4. CASE ~IsDuplicate(Msg(d))
      <3>1. /\ Msg(d) \in Message /\ cache' = [cache EXCEPT ![Msg(d)] = clock]
            /\ tooOld' = tooOld \cup {Msg(d)}
        BY <1>4, <2>4, MsgType DEF Drop
      <3>2. \A m \in Message : cache'[m] = IF m = Msg(d) THEN clock ELSE cache[m]
        BY <3>1 DEF TypeOK
      <3>3. \A m \in Message : cache'[m] <= clock'
        BY MarksArePast
      <3>6. ASSUME NEW m \in Message, cache'[m] # 0
            PROVE  \/ Reached(m)' \/ m \in tooOld'
                   \/ \E e \in Delivery : InLine(e)' /\ Msg(e)' = m
        <4>1. CASE m = Msg(d)
          BY <3>1, <4>1
        <4>2. CASE m # Msg(d)
          <5>1. \/ Reached(m) \/ m \in tooOld
                \/ \E e \in Delivery : InLine(e) /\ Msg(e) = m
            BY <3>2, <3>6, <4>2 DEF MarkInv
          <5> QED BY <2>2, <3>1, <5>1, ReachedGrows DEF KeepsMessage
        <4> QED BY <4>1, <4>2
      <3>7. ASSUME NEW e \in Delivery, stage'[e] = "replying" PROVE Reached(Msg(e))'
        <4>1. stage[e] = "replying" /\ InLine(e)
          BY <2>1, <3>7 DEF InLine
        <4>2. Reached(Msg(e)) /\ Msg(e)' = Msg(e)
          BY <2>2, <4>1 DEF MarkInv, KeepsMessage
        <4> QED BY <2>1, <4>2 DEF Reached
      <3> QED BY <2>1, <3>3, <3>6, <3>7 DEF MarkInv
    <2> QED BY <1>4, <2>3, <2>4 DEF Drop
  <1>5. ASSUME NEW d \in Delivery, Call(d) PROVE MarkInv'
    <2>1. \A e \in Delivery : KeepsMessage(e) /\ (Running(e)' <=> Running(e))
      BY <1>5 DEF Call, HasTurn, KeepsMessage, InLine, Msg, Running, Finished, TypeOK
    <2>2. UNCHANGED <<clock, cache, tooOld>>
      BY <1>5 DEF Call, history, dropped
    <2> QED BY <1>0, <2>1, <2>2, MarkFrame
  <1>6. ASSUME NEW d \in Delivery, stage[d] = "calling", FailDelivery(d),
               UNCHANGED <<clock, inbox, pos, tooOld>>
        PROVE  MarkInv'
    <2>1. /\ Working(d) /\ ~InLine(d)' /\ cache' = [cache EXCEPT ![Msg(d)] = 0]
          /\ \A e \in Delivery \ {d} : stage'[e] = stage[e] /\ pos'[e] = pos[e]
      BY <1>6 DEF FailDelivery, Unmark, Working, InLine, TypeOK
    <2> QED BY <1>6, <2>1, LeaveKeepsMarks
  <1>7. ASSUME NEW d \in Delivery, SendReply(d) \/ SendFails(d) PROVE MarkInv'
    <2>1. stage[d] = "replying" /\ UNCHANGED <<clock, inbox, cache, handled, tooOld>>
      BY <1>7 DEF SendReply, SendFails, dropped
    <2>2. CASE EndReply(d)
      <3>1. /\ Working(d) /\ ~InLine(d)'
            /\ \A e \in Delivery \ {d} : stage'[e] = stage[e] /\ pos'[e] = pos[e]
        BY <2>1, <2>2 DEF EndReply, Working, InLine, TypeOK
      <3>2. Reached(Msg(d))
        BY <2>1 DEF MarkInv
      <3> QED BY <2>1, <3>1, <3>2, LeaveKeepsMarks
    <2>3. CASE UNCHANGED <<stage, pos>>
      <3>1. \A e \in Delivery : KeepsMessage(e) /\ (Running(e)' <=> Running(e))
        BY <2>1, <2>3 DEF KeepsMessage, InLine, Msg, Running
      <3> QED BY <1>0, <2>1, <3>1, MarkFrame
    <2> QED BY <1>7, <2>2, <2>3 DEF SendReply, SendFails
  <1>8. ASSUME NEW d \in Delivery, Answer(d) PROVE MarkInv'
    <2>1. \A e \in Delivery : KeepsMessage(e) /\ (Running(e)' => Running(e))
      BY <1>8 DEF Answer, KeepsMessage, InLine, Msg, Running, Finished, TypeOK
    <2>2. UNCHANGED <<clock, cache, tooOld>>
      BY <1>8 DEF Answer, history, dropped
    <2> QED BY <1>0, <2>1, <2>2, MarkFrame
  <1>9. ASSUME NEW p \in Phone, Handle(p) PROVE MarkInv'
    <2>1. PICK d \in Delivery, m \in Message : Handles(p, d, m)
      BY <1>9, HandleFacts
    <2>2. /\ handled' = [handled EXCEPT ![p] = Append(@, m)]
          /\ stage' = IF stage[d] = "calling" THEN [stage EXCEPT ![d] = "replying"] ELSE stage
          /\ UNCHANGED <<clock, inbox, pos, cache, tooOld>>
          /\ m = Msg(d) /\ From[m] = p /\ handled[p] \in Seq(Message)
      BY <1>9, <2>1 DEF Handle, Handles, dropped, TypeOK
    <2>3. Reached(m)'
      <3>1. handled'[p] = Append(handled[p], m)
        BY <2>2 DEF TypeOK
      <3>2. Len(handled[p]) + 1 \in DOMAIN handled'[p] /\ handled'[p][Len(handled[p]) + 1] = m
        BY <2>2, <3>1, AppendFacts
      <3> QED BY <2>2, <3>2 DEF Reached
    <2>4. \A e \in Delivery : /\ InLine(e)' <=> InLine(e)
                              /\ Msg(e)' = Msg(e)
                              /\ stage'[e] = "replying" => stage[e] = "replying" \/ e = d
                              /\ Running(e)' <=> Running(e)
      BY <2>2 DEF InLine, Msg, Running, Finished, TypeOK
    <2>5. Msg(d)' = m
      BY <2>2, <2>4
    <2>6. Reached(Msg(d))'
      BY <2>3, <2>5 DEF Reached
    <2>7. \A e \in Delivery : KeepsMessage(e)
      BY <2>4, <2>6 DEF KeepsMessage
    <2> QED BY <1>0, <2>2, <2>4, <2>7, MarkFrame
  <1>10. ASSUME NEW p \in Phone, HandleFails(p) PROVE MarkInv'
    <2> DEFINE d == calls[p][1][1]
    <2>1. Head(calls[p])[1] = d /\ d \in Delivery /\ UNCHANGED <<clock, inbox, pos, tooOld>>
      BY <1>10, FirstCall DEF HandleFails
    <2>2. CASE stage[d] = "calling" /\ FailDelivery(d)
      BY <1>6, <2>1, <2>2
    <2>3. CASE UNCHANGED <<stage, cache, queue, forgotten>>
      <3>1. \A e \in Delivery : KeepsMessage(e) /\ (Running(e)' <=> Running(e))
        BY <2>1, <2>3 DEF KeepsMessage, InLine, Msg, Running
      <3> QED BY <1>0, <2>1, <2>3, <3>1, MarkFrame
    <2> QED BY <1>10, <2>1, <2>2, <2>3 DEF HandleFails
  <1>11. CASE Reconfigure \/ Restore \/ Tick
    <2>1. /\ UNCHANGED <<stage, inbox, pos, cache, tooOld>>
          /\ clock' = clock \/ clock' = clock + 1
      BY <1>11 DEF Reconfigure, Restore, Tick, gateway, history, dropped
    <2>2. \A e \in Delivery : KeepsMessage(e) /\ (Running(e)' <=> Running(e))
      BY <2>1 DEF KeepsMessage, InLine, Msg, Running
    <2> QED BY <1>0, <2>1, <2>2, MarkFrame
  <1>12. CASE Crash
    <2>1. \A e \in Delivery : ~InLine(e)' /\ stage'[e] # "replying" /\ ~Running(e)'
      BY <1>12 DEF Crash, Running, Finished, InLine, TypeOK, Stage
    <2>2. clock' = clock /\ \A m \in Message : cache'[m] = 0
      BY <1>12 DEF Crash
    <2> QED BY <1>0, <2>1, <2>2 DEF MarkInv
  <1>13. ASSUME NEW d \in Delivery, Timeout(d) PROVE MarkInv'
    BY <1>6, <1>13 DEF Timeout
  <1> QED
    BY <1>1, <1>2, <1>3, <1>4, <1>5, <1>7, <1>8, <1>9, <1>10, <1>11, <1>12, <1>13,
       EnqueueKeepsMarks DEF Next, Process

-----------------------------------------------------------------------------
(* The counts                                                              *)

\* A delivery that is not calling has no call at the backend.
LEMMA NotCalled ==
  ASSUME TypeOK, CallsInv, NEW e \in Delivery, stage[e] \notin {"calling", "failed"},
         NEW p \in Phone, NEW i \in DOMAIN calls[p]
  PROVE  calls[p][i][1] # e
  <1>1. i \in Nat /\ calls[p][i] \in Delivery \X Message
    <2>1. calls[p] \in Seq(Delivery \X Message)
      BY DEF TypeOK
    <2>2. i \in 1 .. Len(calls[p]) /\ Len(calls[p]) \in Nat
      BY <2>1, LenProperties
    <2> QED BY <2>1, <2>2, ElementOfSeq
  <1>2. PICK f \in Delivery, m \in Message : calls[p][i] = <<f, m>>
    BY <1>1
  <1>3. stage[f] \in {"calling", "failed"}
    BY <1>1, <1>2 DEF CallsInv
  <1> QED BY <1>2, <1>3

\* The calls outstanding for a message can be counted.
LEMMA OutstandingType ==
  ASSUME NEW m \in Message
  PROVE  /\ IsFiniteSet(Outstanding(m)) /\ Cardinality(Outstanding(m)) \in Nat
         /\ IsFiniteSet(Outstanding(m)') /\ Cardinality(Outstanding(m)') \in Nat
  <1>1. Outstanding(m) \in SUBSET Delivery /\ Outstanding(m)' \in SUBSET Delivery
    BY DEF Outstanding
  <1> QED BY <1>1, DeliveryFacts, FS_Subset, FS_CardinalityType

\* The counts before and after a step are naturals.
LEMMA TimesFacts ==
  ASSUME TypeOK, TypeOK'
  PROVE  \A m \in Message : /\ TimesHandled(m) \in Nat /\ TimesHandled(m)' \in Nat
                            /\ TimesHandled(m) = Count(handled[From[m]], m)
                            /\ TimesHandled(m)' = Count(handled'[From[m]], m)
  <1>1. \A m \in Message : /\ TimesHandled(m) \in Nat
                           /\ TimesHandled(m) = Count(handled[From[m]], m)
    BY TimesHandledFacts
  <1>2. \A m \in Message : handled'[From[m]] \in Seq(Message)
    BY DeliveryAssumption DEF TypeOK
  <1>3. \A m \in Message : TimesHandled(m)' = Count(handled'[From[m]], m)
    BY DEF TimesHandled, Count
  <1>4. \A m \in Message : Count(handled'[From[m]], m) \in Nat
    BY <1>2, CountType
  <1> QED BY <1>1, <1>3, <1>4

\* The marks ever set are counted by naturals.
LEMMA MarksType ==
  ASSUME TypeOK, TypeOK', NEW m \in Message
  PROVE  Marks(m) \in Nat /\ Marks(m)' \in Nat
  BY DEF Marks, TypeOK

\* Marks that ran out stay so: the time up to which they did only moves on.
LEMMA RanOutStays ==
  ASSUME TypeOK, QueueInv, CallsInv, MarkInv, [Next]_vars, NEW m \in Message, NEW n \in Nat,
         RanOut(n, m)
  PROVE  RanOut(n, m)'
  <1>1. /\ cache[m] \in Nat /\ clock \in Nat /\ clock' \in Nat /\ clock' >= clock
        /\ cache'[m] \in {cache[m], 0, clock} /\ cache[m] <= clock
    BY ClockGrows DEF TypeOK, MarkInv
  <1>2. Since(m)' >= Since(m) /\ Since(m) \in Nat /\ Since(m)' \in Nat
    BY <1>1 DEF Since
  <1>3. n * MaxAge \in Nat
    BY DeliveryAssumption
  <1> QED BY <1>2, <1>3 DEF RanOut

\* A message stays covered if its uses grow by no more than its marks.
LEMMA CoveredStays ==
  ASSUME TypeOK, TypeOK', QueueInv, CallsInv, MarkInv, CountInv, [Next]_vars, NEW m \in Message,
         Uses(m)' - Uses(m) <= Marks(m)' - Marks(m)
  PROVE  Covered(m)'
  <1>1. PICK n \in Nat : RanOut(n, m) /\ Uses(m) <= Marks(m) + n
    BY DEF CountInv, Covered
  <1>2. RanOut(n, m)'
    BY <1>1, RanOutStays
  <1>3. /\ Uses(m) \in Nat /\ Uses(m)' \in Nat
        /\ Marks(m) \in Nat /\ Marks(m)' \in Nat
    BY TimesFacts, OutstandingType, MarksType DEF Uses
  <1> QED BY <1>1, <1>2, <1>3 DEF Covered

\* Nobody asks that did not before, nothing is handled, no mark is lost.
LEMMA CountFrame ==
  ASSUME TypeOK, TypeOK', QueueInv, CallsInv, MarkInv, CountInv, [Next]_vars, handled' = handled,
         \A e \in Delivery, m \in Message : Asks(e, m)' => Asks(e, m),
         \A m \in Message : Marks(m)' >= Marks(m)
  PROVE  CountInv'
  <1> SUFFICES ASSUME NEW m \in Message PROVE Uses(m)' - Uses(m) <= Marks(m)' - Marks(m)
    BY CoveredStays DEF CountInv
  <1>1. Outstanding(m)' \in SUBSET Outstanding(m)
    BY DEF Outstanding
  <1>2. Cardinality(Outstanding(m)') <= Cardinality(Outstanding(m))
    BY <1>1, OutstandingType, FS_Subset
  <1>3. TimesHandled(m)' = TimesHandled(m) /\ TimesHandled(m) \in Nat
    BY TimesFacts
  <1>4. Marks(m) \in Nat /\ Marks(m)' \in Nat
    BY MarksType
  <1> QED BY <1>2, <1>3, <1>4, OutstandingType DEF Uses

\* Who asks keeps its message and its call.
LEMMA AsksFrame ==
  ASSUME TypeOK, calls' = calls, NEW e \in Delivery, inbox'[e] = inbox[e], pos'[e] = pos[e],
         stage'[e] = "queued" => stage[e] = "queued"
  PROVE  \A m \in Message : Asks(e, m)' => Asks(e, m)
  <1>1. Msg(e)' = Msg(e) /\ Line(e)' = Line(e)
    BY DEF Msg, Line
  <1>2. Pending(e)' => Pending(e)
    BY <1>1 DEF Pending
  <1> QED BY <1>1, <1>2 DEF Asks

\* Who moves on, or begins, did not ask and does not ask.
LEMMA SilentFrame ==
  ASSUME TypeOK, TypeOK', CallsInv, calls' = calls, NEW e \in Delivery,
         stage[e] \notin {"calling", "failed"}, stage'[e] # "queued"
  PROVE  \A m \in Message : ~Asks(e, m)'
  <1> SUFFICES ASSUME NEW m \in Message, Asks(e, m)' PROVE FALSE
    OBVIOUS
  <1>1. Line(e)' \in Phone
    <2>1. Line(e)' = From[m]
      BY DEF Asks, Line
    <2> QED BY <2>1, DeliveryAssumption
  <1>2. \A i \in DOMAIN calls'[Line(e)'] : calls'[Line(e)'][i][1] # e
    BY <1>1, NotCalled
  <1> QED BY <1>2 DEF Asks, Pending

\* A mark that goes is counted as forgotten.
LEMMA FailMarks ==
  ASSUME TypeOK, QueueInv, NEW d \in Delivery, stage[d] = "calling", FailDelivery(d)
  PROVE  \A m \in Message : Marks(m)' >= Marks(m)
  <1>1. Msg(d) \in Message
    BY MsgType DEF QueueInv, InLine
  <1>2. /\ cache' = [cache EXCEPT ![Msg(d)] = 0]
        /\ forgotten' = [forgotten EXCEPT ![Msg(d)] = @ + 1]
    BY DEF FailDelivery, Unmark
  <1> SUFFICES ASSUME NEW m \in Message PROVE Marks(m)' >= Marks(m)
    OBVIOUS
  <1>3. CASE m = Msg(d)
    <2>1. cache'[m] = 0 /\ forgotten'[m] = forgotten[m] + 1 /\ forgotten[m] \in Nat
      BY <1>1, <1>2, <1>3 DEF TypeOK
    <2> QED BY <2>1 DEF Marks
  <1>4. CASE m # Msg(d)
    <2>1. cache'[m] = cache[m] /\ forgotten'[m] = forgotten[m] /\ forgotten[m] \in Nat
      BY <1>1, <1>2, <1>4 DEF TypeOK
    <2> QED BY <2>1 DEF Marks
  <1> QED BY <1>3, <1>4

\* The first call of a phone is answered, for its caller or for nobody.
Takes(p, d, n) ==
    /\ calls[p] # <<>> /\ calls[p][1] = <<d, n>> /\ 1 \in DOMAIN calls[p]
    /\ calls' = [calls EXCEPT ![p] = Tail(@)] /\ UNCHANGED <<inbox, pos>>
    /\ \A e \in Delivery : e # d => stage'[e] = stage[e]
    /\ stage'[d] \notin {"queued"}

\* What is handled was asked for by the caller, who no longer asks.
LEMMA TakenAsks ==
  ASSUME TypeOK, TypeOK', CallsInv, NEW p \in Phone, NEW d \in Delivery, NEW n \in Message,
         Takes(p, d, n)
  PROVE  /\ Asks(d, n) /\ From[n] = p
         /\ \A e \in Delivery, m \in Message : Asks(e, m)' => Asks(e, m) /\ e # d
  <1> USE DEF Takes
  <1>1. n = Msg(d) /\ From[n] = p /\ pos[d] <= Len(inbox[d]) /\ Line(d) = p
    BY DEF CallsInv, Line
  <1>2. Asks(d, n)
    BY <1>1 DEF Asks, Pending
  <1>3. calls[p][1][1] = d
    OBVIOUS
  <1>4. \A q \in Phone, i \in Nat : i \in DOMAIN calls'[q] =>
           \E j \in Nat : /\ j \in DOMAIN calls[q] /\ calls'[q][i] = calls[q][j]
                          /\ calls[q][j][1] # d
    <2>1. \A e \in Delivery : e # calls[p][1][1] /\ stage[e] \in {"calling", "failed"} =>
             stage'[e] \in {"calling", "failed"}
      BY <1>3
    <2>2. \A q \in Phone, i \in Nat : i \in DOMAIN calls'[q] =>
             \E j \in Nat : /\ j \in DOMAIN calls[q] /\ calls'[q][i] = calls[q][j]
                            /\ j = (IF q = p THEN i + 1 ELSE i)
                            /\ calls[q][j][1] # calls[p][1][1]
      BY <2>1, CallsTake
    <2> QED BY <1>3, <2>2
  <1>5. ASSUME NEW e \in Delivery, NEW m \in Message, Asks(e, m)'
        PROVE  Asks(e, m) /\ e # d
    <2>1. Msg(e)' = Msg(e) /\ Line(e)' = Line(e) /\ Line(e) = From[m] /\ Line(e) \in Phone
      BY <1>5, DeliveryAssumption DEF Asks, Msg, Line
    <2>2. CASE stage'[e] = "queued"
      BY <1>5, <2>1, <2>2 DEF Asks, Pending
    <2>3. ASSUME NEW i \in DOMAIN calls'[Line(e)], calls'[Line(e)][i][1] = e
          PROVE  Asks(e, m) /\ e # d
      <3>1. i \in Nat
        <4>1. calls'[Line(e)] \in Seq(Delivery \X Message)
          BY <2>1 DEF TypeOK
        <4> QED BY <4>1, <2>3, LenProperties
      <3>2. PICK j \in Nat : /\ j \in DOMAIN calls[Line(e)]
                             /\ calls'[Line(e)][i] = calls[Line(e)][j]
                             /\ calls[Line(e)][j][1] # d
        BY <1>4, <2>1, <2>3, <3>1
      <3>3. Pending(e)
        BY <2>3, <3>2 DEF Pending
      <3> QED BY <1>5, <2>1, <2>3, <3>2, <3>3 DEF Asks
    <2> QED BY <1>5, <2>1, <2>2, <2>3 DEF Asks, Pending
  <1> QED BY <1>1, <1>2, <1>5

\* One message more is handled, and one delivery less asks for it.
LEMMA HandledCounts ==
  ASSUME TypeOK, TypeOK', QueueInv, CallsInv, MarkInv, CountInv, [Next]_vars,
         NEW p \in Phone, NEW d \in Delivery,
         NEW n \in Message, Asks(d, n), From[n] = p,
         handled' = [handled EXCEPT ![p] = Append(@, n)],
         \A e \in Delivery, m \in Message : Asks(e, m)' => Asks(e, m) /\ e # d,
         \A m \in Message : Marks(m)' >= Marks(m)
  PROVE  CountInv'
  <1> SUFFICES ASSUME NEW m \in Message PROVE Uses(m)' - Uses(m) <= Marks(m)' - Marks(m)
    BY CoveredStays DEF CountInv
  <1> DEFINE O == Outstanding(m)
  <1>1. /\ IsFiniteSet(O) /\ Cardinality(O) \in Nat
        /\ TimesHandled(m) \in Nat /\ Cardinality(Outstanding(m)') \in Nat
        /\ Marks(m) \in Nat /\ Marks(m)' \in Nat
        /\ Uses(m) = TimesHandled(m) + Cardinality(O)
        /\ Uses(m)' = TimesHandled(m)' + Cardinality(Outstanding(m)')
    BY OutstandingType, TimesFacts, MarksType DEF Uses
  <1>2. handled[p] \in Seq(Message) /\ handled'[p] = Append(handled[p], n)
    BY DEF TypeOK
  <1>3. TimesHandled(m)' = TimesHandled(m) + (IF m = n THEN 1 ELSE 0)
    <2>1. CASE From[m] = p
      <3>1. Count(Append(handled[p], n), m) = Count(handled[p], m) + (IF n = m THEN 1 ELSE 0)
        BY <1>2, CountAppend
      <3> QED BY <1>2, <2>1, <3>1, TimesFacts
    <2>2. CASE From[m] # p
      <3>1. handled'[From[m]] = handled[From[m]] /\ m # n
        BY <2>2, DeliveryAssumption DEF TypeOK
      <3>2. TimesHandled(m)' = TimesHandled(m)
        BY <3>1, TimesFacts
      <3> QED BY <1>1, <3>1, <3>2
    <2> QED BY <2>1, <2>2
  <1>4. Outstanding(m)' \in SUBSET O
    BY DEF Outstanding
  <1>5. CASE m = n
    <2>1. Outstanding(m)' \in SUBSET (O \ {d}) /\ d \in O
      BY <1>5 DEF Outstanding
    <2> HIDE DEF O
    <2>2. IsFiniteSet(O \ {d}) /\ Cardinality(O \ {d}) = Cardinality(O) - 1
      BY <1>1, <2>1, FS_RemoveElement
    <2>3. Cardinality(Outstanding(m)') <= Cardinality(O \ {d})
      BY <2>1, <2>2, FS_Subset
    <2> QED BY <1>1, <1>3, <1>5, <2>2, <2>3
  <1>6. CASE m # n
    <2> HIDE DEF O
    <2>1. Cardinality(Outstanding(m)') <= Cardinality(O)
      BY <1>1, <1>4, FS_Subset
    <2> QED BY <1>1, <1>3, <1>6, <2>1
  <1> QED BY <1>5, <1>6

\* A message gets a mark and one delivery that asks for it; if it had a mark,
\* that ran out.
LEMMA EnqueueCounts ==
  ASSUME TypeOK, TypeOK', QueueInv, CallsInv, MarkInv, CountInv, [Next]_vars, NEW d \in Delivery, Enqueue(d)
  PROVE  CountInv'
  <1> DEFINE n == Msg(d)
  <1>1. /\ n \in Message /\ stage[d] = "next" /\ cache' = [cache EXCEPT ![n] = clock]
        /\ ~IsDuplicate(n) /\ ~IsStale(n) /\ stage' = [stage EXCEPT ![d] = "queued"]
        /\ UNCHANGED <<clock, inbox, pos, handled, forgotten, calls>>
    BY MsgType DEF Enqueue, dropped
  <1>2. clock \in Nat /\ clock > 0
    <2>1. Running(d) /\ clock \in Nat
      BY <1>1 DEF Running, Finished, TypeOK
    <2> QED BY <2>1 DEF MarkInv
  <1>3. \A e \in Delivery, m \in Message : Asks(e, m)' => Asks(e, m) \/ (e = d /\ m = n)
    <2> SUFFICES ASSUME NEW e \in Delivery, NEW m \in Message, Asks(e, m)'
                 PROVE  Asks(e, m) \/ (e = d /\ m = n)
      OBVIOUS
    <2>1. CASE e = d
      BY <1>1, <2>1 DEF Asks, Msg
    <2>2. CASE e # d
      <3>1. stage'[e] = stage[e] /\ inbox'[e] = inbox[e] /\ pos'[e] = pos[e] /\ calls' = calls
        BY <1>1, <2>2 DEF TypeOK
      <3> QED BY <3>1, AsksFrame
    <2> QED BY <2>1, <2>2
  <1>4. ASSUME NEW m \in Message
        PROVE  Covered(m)'
    <2> DEFINE O == Outstanding(m)
    <2>1. /\ IsFiniteSet(O) /\ Cardinality(O) \in Nat
          /\ TimesHandled(m) \in Nat /\ Cardinality(Outstanding(m)') \in Nat
          /\ Marks(m) \in Nat /\ Marks(m)' \in Nat
          /\ Uses(m) = TimesHandled(m) + Cardinality(O)
          /\ Uses(m)' = TimesHandled(m)' + Cardinality(Outstanding(m)')
      BY OutstandingType, TimesFacts, MarksType DEF Uses
    <2>2. TimesHandled(m)' = TimesHandled(m)
      BY <1>1, TimesFacts
    <2>3. CASE m = n
      <3>1. Outstanding(m)' \in SUBSET (O \cup {d})
        BY <1>3 DEF Outstanding
      <3> HIDE DEF O
      <3>4. /\ IsFiniteSet(O \cup {d})
            /\ Cardinality(O \cup {d}) = IF d \in O THEN Cardinality(O) ELSE Cardinality(O) + 1
        BY <2>1, FS_AddElement
      <3>5. Cardinality(Outstanding(m)') <= Cardinality(O \cup {d})
        BY <3>1, <3>4, FS_Subset
      <3>6. Uses(m)' <= Uses(m) + 1
        BY <2>1, <2>2, <3>4, <3>5
      <3>7. forgotten'[m] = forgotten[m] /\ cache'[m] = clock /\ forgotten[m] \in Nat
        BY <1>1, <2>3 DEF TypeOK
      <3>8. CASE cache[m] = 0
        <4>1. Marks(m)' = Marks(m) + 1
          BY <1>2, <3>7, <3>8 DEF Marks
        <4>2. Uses(m)' - Uses(m) <= Marks(m)' - Marks(m)
          BY <2>1, <2>2, <3>6, <4>1
        <4> QED BY <4>2, CoveredStays
      <3>9. CASE cache[m] # 0
        <4>1. PICK k \in Nat : RanOut(k, m) /\ Uses(m) <= Marks(m) + k
          BY DEF CountInv, Covered
        <4>2. m \notin Dated /\ cache[m] + MaxAge <= clock /\ cache[m] \in Nat
          <5>1. ~IsDuplicate(m) /\ ~IsStale(m)
            BY <1>1, <2>3
          <5>2. cache[m] \in Nat
            BY DEF TypeOK
          <5> QED BY <3>9, <5>1, <5>2, FreshHasNoMark
        <4>3. k * MaxAge < cache[m]
          BY <3>9, <4>1, <4>2, DeliveryAssumption DEF RanOut, Since
        <4>4. (k + 1) * MaxAge = k * MaxAge + MaxAge /\ k * MaxAge \in Nat
          BY DeliveryAssumption
        <4>5. (k + 1) * MaxAge < clock
          BY <1>2, <4>2, <4>3, <4>4, DeliveryAssumption
        <4>6. RanOut(k + 1, m)'
          BY <1>2, <3>7, <4>2, <4>5 DEF RanOut, Since
        <4>7. Marks(m)' = Marks(m)
          BY <1>2, <3>7, <3>9 DEF Marks
        <4>8. Uses(m)' <= Marks(m)' + (k + 1)
          BY <2>1, <2>2, <3>6, <4>1, <4>7
        <4> QED BY <4>6, <4>8 DEF Covered
      <3> QED BY <3>8, <3>9
    <2>4. CASE m # n
      <3>1. Outstanding(m)' \in SUBSET O
        BY <1>3, <2>4 DEF Outstanding
      <3>2. cache'[m] = cache[m] /\ forgotten' = forgotten
        BY <1>1, <2>4 DEF TypeOK
      <3>3. Marks(m)' = Marks(m)
        BY <3>2 DEF Marks
      <3> HIDE DEF O
      <3>4. Cardinality(Outstanding(m)') <= Cardinality(O)
        BY <2>1, <3>1, FS_Subset
      <3>5. Uses(m)' - Uses(m) <= Marks(m)' - Marks(m)
        BY <2>1, <2>2, <3>3, <3>4
      <3> QED BY <3>5, CoveredStays
    <2> QED BY <2>3, <2>4
  <1> QED BY <1>4 DEF CountInv

\* Every step keeps the count of the handlings under that of the marks, those
\* that ran out included.
LEMMA CountStep ==
  ASSUME TypeOK, TypeOK', QueueInv, CallsInv, MarkInv, CountInv, [Next]_vars
  PROVE  CountInv'
  <1>0. \A m \in Message : Marks(m) \in Nat /\ Marks(m)' \in Nat
    BY MarksType
  <1>1. CASE UNCHANGED <<stage, inbox, pos, cache, calls, handled, forgotten>>
    <2>1. \A e \in Delivery, m \in Message : Asks(e, m)' => Asks(e, m)
      BY <1>1, AsksFrame
    <2>2. \A m \in Message : Marks(m)' >= Marks(m)
      BY <1>0, <1>1 DEF Marks
    <2> QED BY <1>1, <2>1, <2>2, CountFrame
  <1>2. ASSUME NEW d \in Delivery, stage[d] \notin {"calling", "failed"}, stage'[d] # "queued",
               \A e \in Delivery \ {d} : /\ stage'[e] = stage[e]
                                         /\ inbox'[e] = inbox[e] /\ pos'[e] = pos[e],
               UNCHANGED <<calls, handled, forgotten>>,
               \A m \in Message : cache'[m] # cache[m] => cache'[m] # 0
        PROVE  CountInv'
    <2>1. \A m \in Message : ~Asks(d, m)'
      BY <1>2, SilentFrame
    <2>2. \A e \in Delivery, m \in Message : Asks(e, m)' => Asks(e, m)
      <3> SUFFICES ASSUME NEW e \in Delivery, NEW m \in Message, Asks(e, m)' PROVE Asks(e, m)
        OBVIOUS
      <3>1. e # d
        BY <2>1
      <3> QED BY <1>2, <3>1, AsksFrame
    <2>3. \A m \in Message : Marks(m)' >= Marks(m)
      BY SMTT(30), <1>2 DEF Marks, TypeOK
    <2> QED BY <1>2, <2>2, <2>3, CountFrame
  <1>3. ASSUME NEW d \in Delivery, Deliver(d) PROVE CountInv'
    BY <1>2, <1>3 DEF Deliver, Posts, TypeOK
  <1>4. ASSUME NEW d \in Delivery, Refuse(d) PROVE CountInv'
    <2>1. /\ stage[d] = "unborn" /\ stage' = [stage EXCEPT ![d] = "failed"]
          /\ UNCHANGED <<inbox, pos, cache, calls, handled, forgotten>>
      BY <1>4 DEF Refuse, Posts, history, dropped
    <2> QED BY <1>2, <2>1 DEF TypeOK
  <1>5. ASSUME NEW d \in Delivery, Drop(d) PROVE CountInv'
    <2>1. /\ stage[d] = "next" /\ pos' = [pos EXCEPT ![d] = @ + 1]
          /\ UNCHANGED <<stage, inbox, calls, handled, forgotten>>
      BY <1>5 DEF Drop
    <2>2. clock > 0
      BY <2>1 DEF MarkInv, Running, Finished
    <2>3. cache' = cache \/ cache' = [cache EXCEPT ![Msg(d)] = clock]
      BY <1>5 DEF Drop
    <2>4. \A m \in Message : cache'[m] # cache[m] => cache'[m] # 0
      BY SMTT(30), <2>2, <2>3 DEF TypeOK
    <2> QED BY <1>2, <2>1, <2>4 DEF TypeOK
  <1>6. ASSUME NEW d \in Delivery, SendReply(d) \/ SendFails(d) PROVE CountInv'
    <2>1. stage[d] = "replying" /\ UNCHANGED <<inbox, cache, calls, handled, forgotten>>
      BY <1>6 DEF SendReply, SendFails, dropped
    <2>2. CASE EndReply(d)
      BY <1>2, <2>1, <2>2 DEF EndReply, TypeOK
    <2>3. CASE UNCHANGED <<stage, pos>>
      BY <1>1, <2>1, <2>3
    <2> QED BY <1>6, <2>2, <2>3 DEF SendReply, SendFails
  <1>7. ASSUME NEW d \in Delivery, Answer(d) PROVE CountInv'
    <2>1. /\ stage[d] = "next" /\ stage' = [stage EXCEPT ![d] = "answered"]
          /\ UNCHANGED <<inbox, pos, cache, calls, handled, forgotten>>
      BY <1>7 DEF Answer, history, dropped
    <2> QED BY <1>2, <2>1 DEF TypeOK
  <1>8. ASSUME NEW d \in Delivery, Call(d) PROVE CountInv'
    <2>1. /\ stage[d] = "queued" /\ Line(d) \in Phone
          /\ \A q \in Phone : q # Line(d) => calls'[q] = calls[q]
      BY <1>8, CallFacts
    <2>2. PICK k \in 1 .. Len(calls[Line(d)]) + 1 : \A i \in Nat :
             i \in DOMAIN calls'[Line(d)] =>
                \/ i = k /\ calls'[Line(d)][i] = <<d, Msg(d)>>
                \/ i < k /\ i \in DOMAIN calls[Line(d)] /\ calls'[Line(d)][i] = calls[Line(d)][i]
                \/ /\ i > k /\ i - 1 \in DOMAIN calls[Line(d)]
                   /\ calls'[Line(d)][i] = calls[Line(d)][i - 1]
      BY <1>8, CallFacts
    <2>3. /\ UNCHANGED <<inbox, pos, cache, handled, forgotten>>
          /\ stage' = [stage EXCEPT ![d] = "calling"]
      BY <1>8 DEF Call, history, dropped
    <2>4. ASSUME NEW e \in Delivery, NEW m \in Message, Asks(e, m)' PROVE Asks(e, m)
      <3>1. Msg(e)' = Msg(e) /\ Line(e)' = Line(e) /\ Line(e) \in Phone
        BY <2>3, <2>4, DeliveryAssumption DEF Msg, Line, Asks
      <3>2. CASE e = d
        BY <2>1, <2>3, <2>4, <3>1, <3>2 DEF Asks, Pending
      <3>3. CASE e # d
        <4>1. stage'[e] = stage[e]
          BY <2>3, <3>3 DEF TypeOK
        <4>2. ASSUME NEW i \in DOMAIN calls'[Line(e)], calls'[Line(e)][i][1] = e
              PROVE  \E j \in DOMAIN calls[Line(e)] : calls[Line(e)][j][1] = e
          <5>1. i \in Nat
            <6>1. calls'[Line(e)] \in Seq(Delivery \X Message)
              BY <3>1 DEF TypeOK
            <6> QED BY <4>2, <6>1, LenProperties
          <5>2. CASE Line(e) = Line(d)
            <6>1. ~(i = k /\ calls'[Line(d)][i] = <<d, Msg(d)>>)
              BY <3>3, <4>2, <5>2
            <6> QED BY <2>2, <4>2, <5>1, <5>2, <6>1
          <5>3. CASE Line(e) # Line(d)
            BY <2>1, <3>1, <4>2, <5>3
          <5> QED BY <5>2, <5>3
        <4>3. Pending(e)
          BY <2>4, <3>1, <4>1, <4>2 DEF Asks, Pending
        <4> QED BY <2>3, <2>4, <3>1, <4>3 DEF Asks
      <3> QED BY <3>2, <3>3
    <2>5. \A m \in Message : Marks(m)' >= Marks(m)
      BY <1>0, <2>3 DEF Marks
    <2> QED BY <2>3, <2>4, <2>5, CountFrame
  <1>9. ASSUME NEW d \in Delivery, Timeout(d) PROVE CountInv'
    <2>1. stage[d] = "calling" /\ FailDelivery(d) /\ UNCHANGED <<inbox, pos, calls, handled>>
      BY <1>9 DEF Timeout
    <2>2. \A e \in Delivery : stage'[e] = "queued" => stage[e] = "queued"
      BY <2>1 DEF FailDelivery, TypeOK
    <2>3. \A e \in Delivery, m \in Message : Asks(e, m)' => Asks(e, m)
      BY <2>1, <2>2, AsksFrame
    <2> QED BY <2>1, <2>3, FailMarks, CountFrame
  <1>10. ASSUME NEW p \in Phone, Handle(p) PROVE CountInv'
    <2>1. PICK d \in Delivery, m \in Message : Handles(p, d, m)
      BY <1>10, HandleFacts
    <2>2. UNCHANGED <<inbox, pos, cache, forgotten>>
      BY <1>10 DEF Handle, dropped
    <2>3. /\ \A e \in Delivery : e # d => stage'[e] = stage[e]
          /\ stage'[d] \notin {"queued"}
      BY <2>1 DEF Handles, TypeOK
    <2>4. /\ Asks(d, m) /\ From[m] = p
          /\ \A e \in Delivery, n \in Message : Asks(e, n)' => Asks(e, n) /\ e # d
      <3>1. Takes(p, d, m)
        BY <2>1, <2>2, <2>3 DEF Handles, Takes
      <3> QED BY <3>1, TakenAsks
    <2>5. \A n \in Message : Marks(n)' >= Marks(n)
      BY <1>0, <2>2 DEF Marks
    <2>6. handled' = [handled EXCEPT ![p] = Append(@, m)]
      BY <2>1 DEF Handles
    <2> QED BY <2>4, <2>5, <2>6, HandledCounts
  <1>11. ASSUME NEW p \in Phone, HandleFails(p) PROVE CountInv'
    <2>1. calls[p] # <<>> /\ calls' = [calls EXCEPT ![p] = Tail(@)] /\ UNCHANGED <<inbox, pos>>
      BY <1>11 DEF HandleFails
    <2>2. PICK d \in Delivery, m \in Message :
             /\ Head(calls[p]) = <<d, m>> /\ calls[p][1] = <<d, m>> /\ 1 \in DOMAIN calls[p]
             /\ stage[d] \in {"calling", "failed"}
      BY <2>1, FirstCall
    <2>3. Head(calls[p])[1] = d /\ Head(calls[p])[2] = m
      BY <2>2
    <2>4. handled' \in {handled, [handled EXCEPT ![p] = Append(@, m)]}
      BY <1>11, <2>3 DEF HandleFails
    <2>5. \/ stage[d] = "calling" /\ FailDelivery(d)
          \/ UNCHANGED <<stage, cache, queue, forgotten>>
      BY <1>11, <2>3 DEF HandleFails
    <2>6. /\ \A e \in Delivery : e # d => stage'[e] = stage[e]
          /\ stage'[d] \notin {"queued"}
      BY <2>2, <2>5 DEF FailDelivery, TypeOK
    <2>7. /\ Asks(d, m) /\ From[m] = p
          /\ \A e \in Delivery, n \in Message : Asks(e, n)' => Asks(e, n) /\ e # d
      <3>1. Takes(p, d, m)
        BY <2>1, <2>2, <2>6 DEF Takes
      <3> QED BY <3>1, TakenAsks
    <2>8. \A n \in Message : Marks(n)' >= Marks(n)
      <3>1. CASE stage[d] = "calling" /\ FailDelivery(d)
        BY <3>1, FailMarks
      <3>2. CASE UNCHANGED <<stage, cache, queue, forgotten>>
        BY <1>0, <3>2 DEF Marks
      <3> QED BY <2>5, <3>1, <3>2
    <2>9. CASE handled' = handled
      BY <2>7, <2>8, <2>9, CountFrame
    <2>10. CASE handled' = [handled EXCEPT ![p] = Append(@, m)]
      BY <2>7, <2>8, <2>10, HandledCounts
    <2> QED BY <2>4, <2>9, <2>10
  <1>12. CASE Crash
    <2>1. /\ UNCHANGED <<inbox, pos, calls, handled>> /\ \A m \in Message : cache'[m] = 0
          /\ forgotten' = [m \in Message |-> forgotten[m] + (IF cache[m] # 0 THEN 1 ELSE 0)]
      BY <1>12 DEF Crash
    <2>2. \A e \in Delivery : stage'[e] = "queued" => stage[e] = "queued"
      BY <1>12 DEF Crash, Running, Finished
    <2>3. \A e \in Delivery, m \in Message : Asks(e, m)' => Asks(e, m)
      BY <2>1, <2>2, AsksFrame
    <2>4. \A m \in Message : Marks(m)' >= Marks(m)
      BY <1>0, <2>1 DEF Marks, TypeOK
    <2> QED BY <2>1, <2>3, <2>4, CountFrame
  <1>13. CASE UNCHANGED vars \/ Reconfigure \/ Restore \/ Tick
    BY <1>1, <1>13 DEF vars, gateway, history, dropped, Reconfigure, Restore, Tick
  <1> QED
    BY <1>3, <1>4, <1>5, <1>6, <1>7, <1>8, <1>9, <1>10, <1>11, <1>12, <1>13,
       EnqueueCounts DEF Next, Process

-----------------------------------------------------------------------------
(* The deliveries                                                          *)

\* Who runs goes on where it was, or ends; what is settled stays so.
LEMMA DeliveryFrame ==
  ASSUME TypeOK, CallsInv, DeliveryInv, [Next]_vars, acked' = acked, rushed' = rushed,
         tooOld \subseteq tooOld', elsewhere \subseteq elsewhere',
         \A e \in Delivery :
            /\ inbox'[e] = inbox[e] /\ (Running(e)' => Running(e))
            /\ stage'[e] = "unborn" => stage[e] = "unborn" /\ pos'[e] = pos[e],
         \A e \in Delivery, m \in Message :
            \/ pos'[e] = pos[e]
            \/ /\ pos'[e] = pos[e] + 1
               /\ Running(e) /\ e[1] \notin rushed /\ Msg(e) = m => Settled(m)'
  PROVE  DeliveryInv'
  <1>1. \A m \in Message : Settled(m) => Settled(m)'
    BY ReachedGrows DEF Settled
  <1>2. \A e \in Delivery : stage'[e] = "unborn" => pos'[e] = 1 /\ inbox'[e] = <<>>
    BY DEF DeliveryInv
  <1>3. \A d, e \in Delivery : d # e /\ Running(d)' /\ Running(e)' =>
           d[1] \in rushed' \/ MessagesOf[d[1]] \cap MessagesOf[e[1]] = {}
    BY DEF DeliveryInv
  <1>4. ASSUME NEW d \in Delivery, Running(d)'
        PROVE  /\ \A k \in DOMAIN inbox'[d] : inbox'[d][k] \in MessagesOf[d[1]]
               /\ \A m \in MessagesOf[d[1]] :
                     m \in elsewhere' \/ \E k \in DOMAIN inbox'[d] : inbox'[d][k] = m
    BY <1>4 DEF DeliveryInv
  <1>5. ASSUME NEW d \in Delivery, NEW i \in Nat, NEW m \in Message, Running(d)',
               d[1] \notin rushed', i < pos'[d], i \in DOMAIN inbox'[d], inbox'[d][i] = m
        PROVE  Settled(m)'
    <2>1. inbox[d][i] = m /\ i \in DOMAIN inbox[d] /\ Running(d) /\ pos[d] \in Nat
      BY <1>5 DEF TypeOK
    <2>2. CASE i < pos[d]
      <3>1. Settled(m)
        BY <1>5, <2>1, <2>2 DEF DeliveryInv
      <3> QED BY <1>1, <3>1
    <2>3. CASE ~(i < pos[d])
      <3>1. i = pos[d] /\ pos'[d] = pos[d] + 1
        BY <1>5, <2>1, <2>3
      <3>2. Msg(d) = m
        BY <2>1, <3>1 DEF Msg
      <3> QED BY <1>5, <2>1, <3>1, <3>2
    <2> QED BY <2>2, <2>3
  <1>6. ASSUME NEW b \in acked' \ rushed', NEW m \in MessagesOf[b]
        PROVE  Settled(m)' \/ m \in elsewhere'
    <2>1. b \in Batch /\ m \in Message
      BY <1>6, FoundFacts DEF TypeOK
    <2>2. Settled(m) \/ m \in elsewhere
      BY <1>6 DEF DeliveryInv
    <2> QED BY <1>1, <2>1, <2>2
  <1> QED BY <1>2, <1>3, <1>4, <1>5, <1>6 DEF DeliveryInv

\* A batch is delivered: what is found in it is all that is for the settings in use.
LEMMA DeliverKeepsDeliveries ==
  ASSUME TypeOK, CallsInv, DeliveryInv, NEW d \in Delivery, Deliver(d), [Next]_vars
  PROVE  DeliveryInv'
  <1>1. /\ stage[d] = "unborn" /\ pos[d] = 1 /\ d[1] \in Batch /\ settings \in Settings
        /\ stage' = [stage EXCEPT ![d] = "next"]
        /\ inbox' = [inbox EXCEPT ![d] = Found[d[1]][settings]]
        /\ elsewhere' = elsewhere \cup (MessagesOf[d[1]] \ ToSet(inbox'[d]))
        /\ rushed' = rushed \cup UNION {{d[1], e[1]} : e \in Alongside(d)}
        /\ UNCHANGED <<pos, acked, handled, tooOld>>
    BY DeliveryFacts DEF Deliver, Posts, DeliveryInv, TypeOK
  <1>2. /\ inbox'[d] = Found[d[1]][settings] /\ stage'[d] = "next"
        /\ \A e \in Delivery \ {d} : inbox'[e] = inbox[e] /\ stage'[e] = stage[e]
    BY <1>1 DEF TypeOK
  <1>3. rushed \subseteq rushed' /\ elsewhere \subseteq elsewhere'
    BY <1>1
  <1>4. \A m : Settled(m) => Settled(m)'
    BY <1>1 DEF Settled, Reached
  <1>5. \A e \in Delivery : stage'[e] = "unborn" => pos'[e] = 1 /\ inbox'[e] = <<>>
    BY <1>1, <1>2 DEF DeliveryInv
  <1>6. ASSUME NEW e \in Delivery, e # d, Running(e)
        PROVE  {d[1], e[1]} \subseteq rushed' \/ MessagesOf[d[1]] \cap MessagesOf[e[1]] = {}
    <2>1. CASE MessagesOf[e[1]] \cap MessagesOf[d[1]] # {}
      <3>1. e \in Alongside(d)
        BY <1>6, <2>1 DEF Alongside
      <3> QED BY <1>1, <3>1
    <2> QED BY <2>1
  <1>7. ASSUME NEW e \in Delivery, NEW f \in Delivery, e # f, Running(e)', Running(f)'
        PROVE  e[1] \in rushed' \/ MessagesOf[e[1]] \cap MessagesOf[f[1]] = {}
    <2>1. CASE e = d
      <3>1. Running(f)
        BY <1>2, <1>7, <2>1 DEF Running
      <3> QED BY <1>6, <1>7, <2>1, <3>1
    <2>2. CASE f = d
      <3>1. Running(e)
        BY <1>2, <1>7, <2>2 DEF Running
      <3> QED BY <1>6, <1>7, <2>2, <3>1
    <2>3. CASE e # d /\ f # d
      <3>1. Running(e) /\ Running(f)
        BY <1>2, <1>7, <2>3 DEF Running
      <3> QED BY <1>3, <1>7, <3>1 DEF DeliveryInv
    <2> QED BY <2>1, <2>2, <2>3
  <1>8. ASSUME NEW e \in Delivery, Running(e)'
        PROVE  /\ \A k \in DOMAIN inbox'[e] : inbox'[e][k] \in MessagesOf[e[1]]
               /\ \A m \in MessagesOf[e[1]] :
                     m \in elsewhere' \/ \E k \in DOMAIN inbox'[e] : inbox'[e][k] = m
    <2>1. CASE e = d
      <3>1. \A k \in DOMAIN inbox'[d] : inbox'[d][k] \in MessagesOf[d[1]]
        BY <1>1, <1>2, FoundFacts
      <3>2. \A m \in MessagesOf[d[1]] :
               m \in elsewhere' \/ \E k \in DOMAIN inbox'[d] : inbox'[d][k] = m
        BY <1>1 DEF ToSet
      <3> QED BY <2>1, <3>1, <3>2
    <2>2. CASE e # d
      <3>1. Running(e)
        BY <1>2, <1>8, <2>2 DEF Running
      <3> QED BY <1>2, <1>3, <2>2, <3>1 DEF DeliveryInv
    <2> QED BY <2>1, <2>2
  <1>9. ASSUME NEW e \in Delivery, NEW i \in Nat, NEW m \in Message, Running(e)',
               e[1] \notin rushed', i < pos'[e], i \in DOMAIN inbox'[e], inbox'[e][i] = m
        PROVE  Settled(m)'
    <2>1. e # d
      <3>1. inbox'[d] \in Seq(Message)
        BY <1>1, <1>2, FoundFacts
      <3>2. DOMAIN inbox'[d] = 1 .. Len(inbox'[d])
        BY <3>1, LenProperties
      <3> QED BY <1>1, <1>9, <3>2
    <2>2. Running(e) /\ e[1] \notin rushed /\ inbox'[e] = inbox[e] /\ pos'[e] = pos[e]
      BY <1>1, <1>2, <1>3, <1>9, <2>1 DEF Running
    <2>3. Settled(m)
      BY <1>9, <2>2 DEF DeliveryInv
    <2> QED BY <1>4, <2>3
  <1>10. ASSUME NEW b \in acked' \ rushed', NEW m \in MessagesOf[b]
         PROVE  Settled(m)' \/ m \in elsewhere'
    <2>1. b \in acked \ rushed
      BY <1>1, <1>3, <1>10
    <2>2. Settled(m) \/ m \in elsewhere
      BY <2>1 DEF DeliveryInv
    <2> QED BY <1>3, <1>4, <2>2
  <1> QED BY <1>5, <1>7, <1>8, <1>9, <1>10 DEF DeliveryInv

\* A batch is answered: all that was found in it lies behind.
LEMMA AnswerKeepsDeliveries ==
  ASSUME TypeOK, CallsInv, DeliveryInv, NEW d \in Delivery, Answer(d), [Next]_vars
  PROVE  DeliveryInv'
  <1>1. /\ stage[d] = "next" /\ pos[d] > Len(inbox[d])
        /\ stage' = [stage EXCEPT ![d] = "answered"]
        /\ acked' \in {acked, acked \cup {d[1]}}
        /\ UNCHANGED <<inbox, pos, handled, tooOld, elsewhere, rushed>>
    BY DEF Answer, history, dropped
  <1>2. /\ \A e \in Delivery : Running(e)' => Running(e)
        /\ \A e \in Delivery : stage'[e] = "unborn" => stage[e] = "unborn"
    BY <1>1 DEF Running, Finished, TypeOK
  <1>3. \A m : Settled(m) => Settled(m)'
    BY <1>1 DEF Settled, Reached
  <1>4. \A e \in Delivery : stage'[e] = "unborn" => pos'[e] = 1 /\ inbox'[e] = <<>>
    BY <1>1, <1>2 DEF DeliveryInv
  <1>5. ASSUME NEW e \in Delivery, NEW f \in Delivery, e # f, Running(e)', Running(f)'
        PROVE  e[1] \in rushed' \/ MessagesOf[e[1]] \cap MessagesOf[f[1]] = {}
    BY <1>1, <1>2, <1>5 DEF DeliveryInv
  <1>6. ASSUME NEW e \in Delivery, Running(e)'
        PROVE  /\ \A k \in DOMAIN inbox'[e] : inbox'[e][k] \in MessagesOf[e[1]]
               /\ \A m \in MessagesOf[e[1]] :
                     m \in elsewhere' \/ \E k \in DOMAIN inbox'[e] : inbox'[e][k] = m
    BY <1>1, <1>2, <1>6 DEF DeliveryInv
  <1>7. ASSUME NEW e \in Delivery, NEW i \in Nat, NEW m \in Message, Running(e)',
               e[1] \notin rushed', i < pos'[e], i \in DOMAIN inbox'[e], inbox'[e][i] = m
        PROVE  Settled(m)'
    <2>1. Running(e) /\ e[1] \notin rushed /\ inbox'[e] = inbox[e] /\ pos'[e] = pos[e]
      BY <1>1, <1>2, <1>7
    <2>2. Settled(m)
      BY <1>7, <2>1 DEF DeliveryInv
    <2> QED BY <1>3, <2>2
  <1>8. ASSUME NEW b \in acked' \ rushed', NEW m \in MessagesOf[b]
        PROVE  Settled(m)' \/ m \in elsewhere'
    <2>1. CASE b \in acked
      <3>1. Settled(m) \/ m \in elsewhere
        BY <1>1, <1>8, <2>1 DEF DeliveryInv
      <3> QED BY <1>1, <1>3, <3>1
    <2>2. CASE b = d[1]
      <3>1. Running(d) /\ m \in MessagesOf[d[1]] /\ d[1] \notin rushed /\ m \in Message
        BY <1>1, <1>8, <2>2, DeliveryFacts, FoundFacts DEF Running, Finished
      <3>2. m \in elsewhere \/ \E k \in DOMAIN inbox[d] : inbox[d][k] = m
        BY <3>1 DEF DeliveryInv
      <3>3. ASSUME NEW k \in DOMAIN inbox[d], inbox[d][k] = m PROVE Settled(m)
        <4>1. k \in Nat /\ k < pos[d]
          <5>1. inbox[d] \in Seq(Message) /\ pos[d] \in Nat
            BY DEF TypeOK
          <5>2. DOMAIN inbox[d] = 1 .. Len(inbox[d]) /\ Len(inbox[d]) \in Nat
            BY <5>1, LenProperties
          <5> QED BY <1>1, <3>3, <5>1, <5>2
        <4> QED BY <3>1, <3>3, <4>1 DEF DeliveryInv
      <3> QED BY <1>1, <1>3, <3>2, <3>3
    <2> QED BY <1>1, <1>8, <2>1, <2>2
  <1> QED BY <1>4, <1>5, <1>6, <1>7, <1>8 DEF DeliveryInv

\* A message that is dropped is settled, unless it is with another delivery: then
\* the batch is rushed.
LEMMA DroppedIsSettled ==
  ASSUME TypeOK, QueueInv, CallsInv, MarkInv, DeliveryInv, NEW d \in Delivery, Drop(d),
         d[1] \notin rushed, NEW m \in Message, Msg(d) = m, [Next]_vars
  PROVE  Settled(m)'
  <1>1. /\ stage[d] = "next" /\ pos[d] <= Len(inbox[d]) /\ handled' = handled
        /\ \/ IsDuplicate(m) /\ tooOld' = tooOld
           \/ tooOld' = tooOld \cup {m}
    BY DEF Drop
  <1>2. CASE IsDuplicate(m) /\ tooOld' = tooOld
    <2>1. \/ Settled(m)
          \/ \E e \in Delivery : InLine(e) /\ Msg(e) = m
      BY <1>2 DEF IsDuplicate, MarkInv, Settled
    <2>2. ASSUME NEW e \in Delivery, InLine(e), Msg(e) = m PROVE FALSE
      <3>1. d # e /\ Running(d) /\ Running(e)
        BY <1>1, <2>2 DEF InLine, Running, Finished
      <3>2. pos[d] \in DOMAIN inbox[d] /\ pos[e] \in DOMAIN inbox[e]
        BY <1>1, <2>2, MsgType DEF QueueInv
      <3>3. m \in MessagesOf[d[1]] /\ m \in MessagesOf[e[1]]
        BY <2>2, <3>1, <3>2 DEF DeliveryInv, Msg
      <3> QED BY <3>1, <3>3 DEF DeliveryInv
    <2>3. Settled(m)
      BY <2>1, <2>2
    <2> QED BY <1>1, <1>2, <2>3 DEF Settled, Reached
  <1>3. CASE tooOld' = tooOld \cup {m}
    BY <1>3 DEF Settled
  <1> QED BY <1>1, <1>2, <1>3

\* Every step keeps what a delivery has done.
LEMMA DeliveryStep ==
  ASSUME TypeOK, QueueInv, CallsInv, MarkInv, DeliveryInv, [Next]_vars
  PROVE  DeliveryInv'
  <1> DEFINE Kept == UNCHANGED <<inbox, acked, rushed, tooOld, elsewhere>>
             Runs == \A e \in Delivery :
                        /\ Running(e)' => Running(e)
                        /\ stage'[e] = "unborn" => stage[e] = "unborn"
  <1>1. ASSUME Kept, Runs, pos' = pos PROVE DeliveryInv'
    BY <1>1, DeliveryFrame
  <1>2. CASE UNCHANGED vars \/ Reconfigure \/ Restore \/ Tick
    <2>1. Kept /\ stage' = stage /\ pos' = pos
      BY <1>2 DEF vars, gateway, history, dropped, Reconfigure, Restore, Tick
    <2> QED BY <1>1, <2>1 DEF Running
  <1>3. ASSUME NEW d \in Delivery, Refuse(d) PROVE DeliveryInv'
    <2>1. /\ stage' = [stage EXCEPT ![d] = "failed"] /\ Kept /\ pos' = pos
      BY <1>3 DEF Refuse, history, dropped
    <2>2. Runs
      BY <2>1 DEF Running, Finished, TypeOK
    <2> QED BY <1>1, <2>1, <2>2
  <1>4. ASSUME NEW d \in Delivery, Drop(d) PROVE DeliveryInv'
    <2>1. /\ stage[d] = "next" /\ stage' = stage /\ pos' = [pos EXCEPT ![d] = @ + 1]
          /\ UNCHANGED <<inbox, acked, rushed, elsewhere>> /\ tooOld \subseteq tooOld'
      BY <1>4 DEF Drop
    <2>2. \A e \in Delivery : pos'[e] = IF e = d THEN pos[d] + 1 ELSE pos[e]
      BY <2>1 DEF TypeOK
    <2>3. \A e \in Delivery : stage'[e] = "unborn" => stage[e] = "unborn" /\ pos'[e] = pos[e]
      BY <2>1, <2>2
    <2>4. \A e \in Delivery : inbox'[e] = inbox[e] /\ (Running(e)' => Running(e))
      BY <2>1 DEF Running
    <2>5. \A m \in Message : d[1] \notin rushed /\ Msg(d) = m => Settled(m)'
      BY <1>4, DroppedIsSettled
    <2> QED BY <2>1, <2>2, <2>3, <2>4, <2>5, DeliveryFrame
  <1>5. ASSUME NEW d \in Delivery, Enqueue(d) \/ Call(d) PROVE DeliveryInv'
    <2>1. /\ stage[d] \in {"next", "queued"} /\ Kept /\ pos' = pos
          /\ stage' \in {[stage EXCEPT ![d] = "queued"], [stage EXCEPT ![d] = "calling"]}
      BY <1>5 DEF Enqueue, Call, HasTurn, history, dropped
    <2>2. Runs
      BY <2>1 DEF Running, Finished, TypeOK
    <2> QED BY <1>1, <2>1, <2>2
  <1>6. ASSUME NEW d \in Delivery, stage[d] = "calling", FailDelivery(d), Kept, pos' = pos
        PROVE  DeliveryInv'
    <2>1. Runs
      BY <1>6 DEF FailDelivery, Running, Finished, TypeOK
    <2> QED BY <1>1, <1>6, <2>1
  <1>7. ASSUME NEW d \in Delivery, SendReply(d) \/ SendFails(d) PROVE DeliveryInv'
    <2>1. stage[d] = "replying" /\ Kept
      BY <1>7 DEF SendReply, SendFails, dropped
    <2>2. CASE EndReply(d)
      <3>1. /\ \A e \in Delivery : stage'[e] = IF e = d THEN "next" ELSE stage[e]
            /\ \A e \in Delivery : pos'[e] = IF e = d THEN pos[d] + 1 ELSE pos[e]
        BY <2>2 DEF EndReply, TypeOK
      <3>2. \A e \in Delivery : stage'[e] = "unborn" => stage[e] = "unborn" /\ pos'[e] = pos[e]
        BY <3>1
      <3>3. \A e \in Delivery : inbox'[e] = inbox[e] /\ (Running(e)' => Running(e))
        BY <2>1, <3>1 DEF Running, Finished
      <3>4. ASSUME NEW m \in Message, Msg(d) = m PROVE Settled(m)'
        <4>1. Reached(m)
          BY <2>1, <3>4 DEF MarkInv, Reached
        <4> QED BY <4>1, ReachedGrows DEF Settled
      <3> QED BY <2>1, <3>1, <3>2, <3>3, <3>4, DeliveryFrame
    <2>3. CASE UNCHANGED <<stage, pos>>
      BY <1>1, <2>1, <2>3 DEF Running
    <2> QED BY <1>7, <2>2, <2>3 DEF SendReply, SendFails
  <1>8. ASSUME NEW p \in Phone, Handle(p) PROVE DeliveryInv'
    <2>1. PICK d \in Delivery, m \in Message : Handles(p, d, m)
      BY <1>8, HandleFacts
    <2>2. /\ Kept /\ pos' = pos
          /\ stage' = IF stage[d] = "calling" THEN [stage EXCEPT ![d] = "replying"] ELSE stage
      BY <1>8, <2>1 DEF Handle, Handles, dropped
    <2>3. Runs
      BY <2>2 DEF Running, Finished, TypeOK
    <2> QED BY <1>1, <2>2, <2>3
  <1>9. ASSUME NEW p \in Phone, HandleFails(p) PROVE DeliveryInv'
    <2> DEFINE d == calls[p][1][1]
    <2>1. Head(calls[p])[1] = d /\ d \in Delivery /\ Kept /\ pos' = pos
      BY <1>9, FirstCall DEF HandleFails
    <2>2. CASE stage[d] = "calling" /\ FailDelivery(d)
      BY <1>6, <2>1, <2>2
    <2>3. CASE UNCHANGED <<stage, cache, queue, forgotten>>
      BY <1>1, <2>1, <2>3 DEF Running
    <2> QED BY <1>9, <2>1, <2>2, <2>3 DEF HandleFails
  <1>10. ASSUME NEW d \in Delivery, Timeout(d) PROVE DeliveryInv'
    BY <1>6, <1>10 DEF Timeout
  <1>11. CASE Crash
    <2>1. Kept /\ pos' = pos
      BY <1>11 DEF Crash
    <2>2. Runs
      BY <1>11 DEF Crash, Running, Finished
    <2> QED BY <1>1, <2>1, <2>2
  <1> QED
    BY <1>2, <1>3, <1>4, <1>5, <1>7, <1>8, <1>9, <1>10, <1>11,
       DeliverKeepsDeliveries, AnswerKeepsDeliveries DEF Next, Process

-----------------------------------------------------------------------------
(* The order of the messages                                               *)

\* A queue that is left alone, as those that wait in it are.
LEMMA OrderFrame ==
  ASSUME TypeOK, QueueInv, NEW p \in Phone, InOrder(p),
         queue'[p] = queue[p], queued'[p] = queued[p], handled'[p] = handled[p],
         \A e \in Delivery : InLine(e) /\ Line(e) = p =>
             Msg(e)' = Msg(e) /\ (stage'[e] = "replying" <=> stage[e] = "replying")
  PROVE  InOrder(p)'
  <1>1. \A e \in Delivery, i \in Nat : i \in DOMAIN queue[p] /\ queue[p][i] = e =>
           Msg(e)' = Msg(e) /\ (stage'[e] = "replying" <=> stage[e] = "replying")
    BY DEF QueueInv
  <1>2. queue[p] # <<>> => 1 \in DOMAIN queue[p]
    BY HeadFacts DEF TypeOK
  <1>3. InReply(p)' <=> InReply(p)
    BY <1>1, <1>2 DEF InReply
  <1>4. Ahead(p)' = Ahead(p)
    BY DEF Ahead
  <1>5. \A e \in Delivery, i \in Nat : i \in DOMAIN queue'[p] /\ queue'[p][i] = e =>
           queued'[p][Ahead(p)' + i] = Msg(e)'
    BY <1>1, <1>4 DEF InOrder
  <1> QED BY <1>3, <1>4, <1>5 DEF InOrder

\* A message put in line keeps the order.
LEMMA EnqueueKeepsOrder ==
  ASSUME TypeOK, QueueInv, NEW d \in Delivery, Enqueue(d), NEW p \in Phone, InOrder(p)
  PROVE  InOrder(p)'
  <1> DEFINE m == Msg(d)
  <1>1. /\ stage[d] = "next" /\ m \in Message /\ From[m] \in Phone
        /\ stage' = [stage EXCEPT ![d] = "queued"]
        /\ queue' = [queue EXCEPT ![From[m]] = Append(@, d)]
        /\ queued' = [queued EXCEPT ![From[m]] = Append(@, m)]
        /\ UNCHANGED <<inbox, pos, handled>>
    BY MsgType, DeliveryAssumption DEF Enqueue
  <1>2. \A e \in Delivery : InLine(e) => e # d
    BY <1>1 DEF InLine
  <1>3. \A e \in Delivery : Msg(e)' = Msg(e)
    BY <1>1 DEF Msg
  <1>4. \A e \in Delivery : e # d => stage'[e] = stage[e]
    BY <1>1 DEF TypeOK
  <1>5. stage'[d] = "queued"
    BY <1>1 DEF TypeOK
  <1>6. CASE From[m] # p
    <2>1. queue'[p] = queue[p] /\ queued'[p] = queued[p] /\ handled'[p] = handled[p]
      BY <1>1, <1>6 DEF TypeOK
    <2> QED BY <2>1, <1>2, <1>3, <1>4, OrderFrame
  <1>7. CASE From[m] = p
    <2>1. /\ queue[p] \in Seq(Delivery) /\ queued[p] \in Seq(Message) /\ handled[p] \in Seq(Message)
          /\ queue'[p] = Append(queue[p], d) /\ queued'[p] = Append(queued[p], m)
      BY <1>1, <1>7 DEF TypeOK
    <2> HIDE DEF m
    <2>2. /\ Len(queue[p]) \in Nat /\ DOMAIN queue[p] = 1 .. Len(queue[p])
          /\ Len(queue'[p]) = Len(queue[p]) + 1 /\ DOMAIN queue'[p] = 1 .. Len(queue[p]) + 1
          /\ \A i \in DOMAIN queue[p] : queue'[p][i] = queue[p][i]
          /\ queue'[p][Len(queue[p]) + 1] = d /\ queue'[p] # <<>>
      BY SMTT(30), <2>1, AppendFacts
    <2>3. /\ Len(queued[p]) \in Nat /\ Len(queued'[p]) = Len(queued[p]) + 1
          /\ DOMAIN queued[p] = 1 .. Len(queued[p])
          /\ \A i \in DOMAIN queued[p] : queued'[p][i] = queued[p][i]
          /\ queued'[p][Len(queued[p]) + 1] = m
      BY <1>1, <2>1, AppendFacts
    <2>4. /\ Ahead(p)' = Ahead(p) /\ Ahead(p) \in Nat
          /\ Ahead(p) + Len(queue[p]) = Len(queued[p])
      BY <2>2, <2>3 DEF Ahead, InOrder
    <2>5. InReply(p)' <=> InReply(p)
      <3>1. CASE queue[p] = <<>>
        <4>1. Len(queue[p]) = 0
          BY <2>1, <3>1, EmptySeq
        <4>2. queue'[p][1] = d
          BY <2>2, <4>1
        <4> QED BY <1>5, <3>1, <4>2 DEF InReply
      <3>2. CASE queue[p] # <<>>
        <4>1. 1 \in DOMAIN queue[p] /\ queue[p][1] \in Delivery
          BY <2>1, <3>2, HeadFacts
        <4>2. queue'[p][1] = queue[p][1]
          BY <2>2, <4>1
        <4>3. InLine(queue[p][1])
          BY <4>1 DEF QueueInv, InLine
        <4>4. queue[p][1] # d
          BY <1>1, <4>3 DEF InLine
        <4>5. stage'[queue[p][1]] = stage[queue[p][1]]
          BY <1>4, <4>1, <4>4
        <4> QED BY <2>2, <3>2, <4>1, <4>2, <4>5 DEF InReply
      <3> QED BY <3>1, <3>2
    <2>6. ASSUME NEW e \in Delivery, NEW i \in Nat, i \in DOMAIN queue'[p], queue'[p][i] = e
          PROVE  queued'[p][Ahead(p)' + i] = Msg(e)'
      <3>1. CASE i \in DOMAIN queue[p]
        <4>1. queue[p][i] = e /\ queued[p][Ahead(p) + i] = Msg(e)
          BY <2>2, <2>6, <3>1 DEF InOrder
        <4>2. Ahead(p) + i \in DOMAIN queued[p]
          BY <2>2, <2>3, <2>4, <3>1
        <4> QED BY <1>3, <2>3, <2>4, <4>1, <4>2
      <3>2. CASE i \notin DOMAIN queue[p]
        <4>1. i = Len(queue[p]) + 1 /\ e = d
          BY <2>2, <2>6, <3>2
        <4>2. Ahead(p) + i = Len(queued[p]) + 1
          <5>1. Len(queue[p]) \in Nat /\ Len(queued[p]) \in Nat /\ i = Len(queue[p]) + 1
            BY <2>2, <2>3, <4>1
          <5>2. Ahead(p) \in Nat /\ Ahead(p) + Len(queue[p]) = Len(queued[p])
            BY <2>4
          <5> QED BY <5>1, <5>2
        <4>3. m = Msg(d)
          BY DEF m
        <4> QED BY <1>3, <2>3, <2>4, <4>1, <4>2, <4>3
      <3> QED BY <3>1, <3>2
    <2>7. \A i \in DOMAIN handled'[p] : handled'[p][i] = queued'[p][i]
      <3>1. Len(handled[p]) <= Len(queued[p])
        <4>1. InReply(p) => Len(queue[p]) >= 1
          <5>1. queue[p] # <<>> => Len(queue[p]) >= 1
            BY <2>1, HeadFacts
          <5> QED BY <5>1 DEF InReply
        <4> QED BY <2>2, <2>3, <4>1 DEF InOrder, Ahead
      <3>2. DOMAIN handled[p] = 1 .. Len(handled[p]) /\ Len(handled[p]) \in Nat
        BY <2>1, LenProperties
      <3> QED BY <1>1, <2>3, <3>1, <3>2 DEF InOrder
    <2>8. /\ Len(queue'[p]) <= Len(queued'[p])
          /\ Len(handled'[p]) = Ahead(p)' + (IF InReply(p)' THEN 1 ELSE 0)
      BY <1>1, <2>2, <2>3, <2>4, <2>5 DEF InOrder
    <2> QED BY <2>6, <2>7, <2>8 DEF InOrder
  <1> QED BY <1>6, <1>7

\* A reply that ends keeps the order.
LEMMA EndReplyKeepsOrder ==
  ASSUME TypeOK, QueueInv, NEW d \in Delivery, stage[d] = "replying", EndReply(d),
         UNCHANGED <<inbox, queued, handled>>, NEW p \in Phone, InOrder(p)
  PROVE  InOrder(p)'
  <1>1. /\ Line(d) \in Phone /\ queue[Line(d)] # <<>> /\ queue[Line(d)][1] = d
    BY MsgType DEF QueueInv, InLine, Working
  <1>2. /\ \A e \in Delivery : stage'[e] = IF e = d THEN "next" ELSE stage[e]
        /\ \A e \in Delivery : e # d => pos'[e] = pos[e]
        /\ queue' = [queue EXCEPT ![Line(d)] = Tail(@)]
    BY DEF EndReply, TypeOK
  <1>3. \A e \in Delivery : e # d => Msg(e)' = Msg(e)
    BY <1>2 DEF Msg
  <1>4. CASE Line(d) # p
    <2>1. queue'[p] = queue[p] /\ queued'[p] = queued[p] /\ handled'[p] = handled[p]
      BY <1>2, <1>4 DEF TypeOK
    <2>2. \A e \in Delivery : InLine(e) /\ Line(e) = p =>
             Msg(e)' = Msg(e) /\ (stage'[e] = "replying" <=> stage[e] = "replying")
      BY <1>2, <1>3, <1>4
    <2> QED BY <2>1, <2>2, OrderFrame
  <1>5. CASE Line(d) = p
    <2>1. /\ queue[p] \in Seq(Delivery) /\ queue[p] # <<>> /\ queue'[p] = Tail(queue[p])
          /\ queue[p][1] = d /\ queued[p] \in Seq(Message) /\ handled[p] \in Seq(Message)
      BY <1>1, <1>2, <1>5 DEF TypeOK
    <2>2. /\ Len(queue[p]) \in Nat \ {0} /\ Len(queue'[p]) = Len(queue[p]) - 1
          /\ DOMAIN queue'[p] = 1 .. Len(queue[p]) - 1 /\ queue'[p] \in Seq(Delivery)
          /\ \A i \in DOMAIN queue'[p] :
                queue'[p][i] = queue[p][i + 1] /\ i + 1 \in DOMAIN queue[p]
          /\ 1 \in DOMAIN queue[p]
      BY <2>1, HeadFacts
    <2>3. \A i \in DOMAIN queue'[p] : queue'[p][i] # d
      <3> SUFFICES ASSUME NEW i \in DOMAIN queue'[p], queue'[p][i] = d PROVE FALSE
        OBVIOUS
      <3>1. i \in Nat /\ i + 1 \in Nat /\ i + 1 # 1
        BY <2>2
      <3>2. queue[p][i + 1] = queue[p][1] /\ i + 1 \in DOMAIN queue[p]
        BY <2>1, <2>2
      <3> QED BY <2>2, <3>1, <3>2 DEF QueueInv
    <2>4. ~InReply(p)'
      <3> SUFFICES ASSUME NEW e \in Delivery, queue'[p] # <<>>, queue'[p][1] = e,
                          stage'[e] = "replying"
                   PROVE  FALSE
        BY DEF InReply
      <3>1. 1 \in DOMAIN queue'[p]
        BY <2>2, HeadFacts
      <3>2. /\ e # d /\ stage[e] = "replying" /\ queue[p][2] = e /\ 2 \in DOMAIN queue[p]
        BY <1>2, <2>2, <2>3, <3>1
      <3>3. queue[Line(e)][1] = e /\ Line(e) = p
        BY <3>2 DEF QueueInv, Working
      <3> QED BY <2>1, <3>2, <3>3
    <2>5. InReply(p)
      BY <2>1 DEF InReply
    <2>6. /\ Ahead(p)' = Ahead(p) + 1 /\ Ahead(p) \in Nat
          /\ Len(queue'[p]) <= Len(queued'[p])
      <3>1. Len(queued[p]) \in Nat /\ Len(queue[p]) <= Len(queued[p]) /\ queued' = queued
        BY <2>1, LenProperties DEF InOrder
      <3>2. Len(queue[p]) \in Nat /\ Len(queue'[p]) = Len(queue[p]) - 1
        BY <2>2
      <3> QED BY <3>1, <3>2 DEF Ahead
    <2>7. Len(handled'[p]) = Ahead(p)'
      BY <2>5, <2>6 DEF InOrder
    <2>8. ASSUME NEW e \in Delivery, NEW i \in Nat, i \in DOMAIN queue'[p], queue'[p][i] = e
          PROVE  queued'[p][Ahead(p)' + i] = Msg(e)'
      <3>0. e # d
        BY <2>3, <2>8
      <3>1. queue[p][i + 1] = e /\ i + 1 \in DOMAIN queue[p] /\ i + 1 \in Nat /\ e # d
        BY <2>2, <2>8, <3>0
      <3>2. queued[p][Ahead(p) + (i + 1)] = Msg(e)
        BY <3>1 DEF InOrder
      <3>3. Ahead(p)' + i = Ahead(p) + (i + 1)
        BY <2>6
      <3> QED BY <1>3, <3>1, <3>2, <3>3
    <2>9. \A i \in DOMAIN handled'[p] : handled'[p][i] = queued'[p][i]
      BY DEF InOrder
    <2> QED BY <2>4, <2>6, <2>7, <2>8, <2>9 DEF InOrder
  <1> QED BY <1>4, <1>5

\* A message handled keeps the order.
LEMMA HandleKeepsOrder ==
  ASSUME TypeOK, QueueInv, NEW r \in Phone, NEW d \in Delivery, NEW m \in Message,
         Handles(r, d, m), stage[d] = "calling", UNCHANGED <<inbox, pos, queue, queued>>,
         NEW p \in Phone, InOrder(p)
  PROVE  InOrder(p)'
  <1>1. /\ Line(d) = r /\ m = Msg(d) /\ queue[r] # <<>> /\ queue[r][1] = d
        /\ handled' = [handled EXCEPT ![r] = Append(@, m)]
        /\ stage' = [stage EXCEPT ![d] = "replying"]
    BY DEF Handles, QueueInv, InLine, Working
  <1>2. \A e \in Delivery : Msg(e)' = Msg(e)
    BY DEF Msg
  <1>3. CASE r # p
    <2>1. queue'[p] = queue[p] /\ queued'[p] = queued[p] /\ handled'[p] = handled[p]
      BY <1>1, <1>3 DEF TypeOK
    <2>2. \A e \in Delivery : InLine(e) /\ Line(e) = p =>
             Msg(e)' = Msg(e) /\ (stage'[e] = "replying" <=> stage[e] = "replying")
      BY <1>1, <1>2, <1>3 DEF TypeOK
    <2> QED BY <2>1, <2>2, OrderFrame
  <1>4. CASE r = p
    <2>1. /\ queue[p] \in Seq(Delivery) /\ handled[p] \in Seq(Message)
          /\ handled'[p] = Append(handled[p], m) /\ stage'[d] = "replying"
          /\ queue[p] # <<>> /\ queue[p][1] = d /\ queued[p] \in Seq(Message)
      BY <1>1, <1>4 DEF TypeOK
    <2>2. 1 \in DOMAIN queue[p] /\ Len(queue[p]) \in Nat \ {0}
      BY <2>1, HeadFacts
    <2>3. InReply(p)' /\ ~InReply(p)
      BY <2>1 DEF InReply
    <2>4. /\ Len(handled[p]) \in Nat /\ Len(handled'[p]) = Len(handled[p]) + 1
          /\ DOMAIN handled[p] = 1 .. Len(handled[p])
          /\ DOMAIN handled'[p] = 1 .. Len(handled[p]) + 1
          /\ \A i \in DOMAIN handled[p] : handled'[p][i] = handled[p][i]
          /\ handled'[p][Len(handled[p]) + 1] = m
      BY <2>1, AppendFacts
    <2>5. Ahead(p) = Len(handled[p]) /\ Ahead(p)' = Ahead(p)
      <3>1. Ahead(p) \in Int
        BY <2>1, <2>2, LenProperties DEF Ahead
      <3>2. Ahead(p)' = Ahead(p)
        BY DEF Ahead
      <3> QED BY <2>3, <3>1, <3>2 DEF InOrder
    <2>6. queued[p][Len(handled[p]) + 1] = m
      BY <1>1, <2>1, <2>2, <2>5 DEF InOrder
    <2>7. \A i \in DOMAIN handled'[p] : handled'[p][i] = queued'[p][i]
      BY <2>4, <2>6 DEF InOrder
    <2>8. \A e \in Delivery, i \in Nat : i \in DOMAIN queue'[p] /\ queue'[p][i] = e =>
             queued'[p][Ahead(p)' + i] = Msg(e)'
      BY <1>2, <2>5 DEF InOrder
    <2>9. Len(queue'[p]) <= Len(queued'[p])
      BY DEF InOrder
    <2> QED BY <2>3, <2>4, <2>5, <2>7, <2>8, <2>9 DEF InOrder
  <1> QED BY <1>3, <1>4

\* Every step keeps the order.
LEMMA OrderStep ==
  ASSUME TypeOK, QueueInv, CallsInv, OrderInv, [Next]_vars
  PROVE  OrderInv'
  <1> SUFFICES ASSUME faults' = 0
               PROVE  /\ \A d \in Delivery : stage'[d] # "failed"
                      /\ \A p \in Phone : InOrder(p)'
    BY DEF OrderInv
  <1>1. ~Fault
    BY DEF Fault, TypeOK
  <1>2. faults = 0
    BY <1>1
       DEF Next, vars, Process, Deliver, Drop, Enqueue, Call, SendReply, Answer, Refuse, Timeout,
           SendFails, Handle, HandleFails, Reconfigure, Restore, Tick, Crash
  <1>3. /\ \A d \in Delivery : stage[d] # "failed"
        /\ \A p \in Phone : InOrder(p)
    BY <1>2 DEF OrderInv
  <1>4. CASE UNCHANGED vars \/ Restore \/ Tick
    <2>1. UNCHANGED <<stage, inbox, pos, queue, queued, handled>>
      BY <1>4 DEF vars, gateway, history, dropped, Restore, Tick
    <2> QED BY <1>3, <2>1, OrderFrame DEF Msg
  <1>5. ASSUME NEW d \in Delivery, NEW next \in Stage, stage[d] \in {"unborn", "next", "queued"},
               ~InLine(d) \/ UNCHANGED <<inbox, pos>>, next \notin {"failed", "replying"},
               stage' = [stage EXCEPT ![d] = next], UNCHANGED <<queue, queued, handled>>,
               \A e \in Delivery : e # d => inbox'[e] = inbox[e] /\ pos'[e] = pos[e]
        PROVE  /\ \A e \in Delivery : stage'[e] # "failed"
               /\ \A p \in Phone : InOrder(p)'
    <2>1. \A e \in Delivery : stage'[e] = IF e = d THEN next ELSE stage[e]
      BY <1>5 DEF TypeOK
    <2>2. \A e \in Delivery : InLine(e) => Msg(e)' = Msg(e)
      BY <1>5 DEF Msg
    <2>3. \A e \in Delivery : stage'[e] = "replying" <=> stage[e] = "replying"
      BY <1>5, <2>1
    <2> QED BY <1>3, <1>5, <2>1, <2>2, <2>3, OrderFrame
  <1>6. ASSUME NEW d \in Delivery, Deliver(d)
        PROVE  /\ \A e \in Delivery : stage'[e] # "failed"
               /\ \A p \in Phone : InOrder(p)'
    <2>1. /\ stage[d] = "unborn" /\ stage' = [stage EXCEPT ![d] = "next"] /\ "next" \in Stage
          /\ UNCHANGED <<queue, queued, handled>> /\ ~InLine(d)
      BY <1>6 DEF Deliver, Posts, Stage, InLine
    <2>2. \A e \in Delivery : e # d => inbox'[e] = inbox[e] /\ pos'[e] = pos[e]
      BY <1>6 DEF Deliver, TypeOK
    <2> QED BY <1>5, <2>1, <2>2
  <1>7. ASSUME NEW d \in Delivery, Drop(d)
        PROVE  /\ \A e \in Delivery : stage'[e] # "failed"
               /\ \A p \in Phone : InOrder(p)'
    <2>1. /\ stage[d] = "next" /\ stage' = [stage EXCEPT ![d] = "next"] /\ "next" \in Stage
          /\ UNCHANGED <<queue, queued, handled>> /\ ~InLine(d)
      BY <1>7 DEF Drop, Stage, InLine, TypeOK
    <2>2. \A e \in Delivery : e # d => inbox'[e] = inbox[e] /\ pos'[e] = pos[e]
      BY <1>7 DEF Drop, TypeOK
    <2> QED BY <1>5, <2>1, <2>2
  <1>8. ASSUME NEW d \in Delivery, Call(d) \/ Answer(d)
        PROVE  /\ \A e \in Delivery : stage'[e] # "failed"
               /\ \A p \in Phone : InOrder(p)'
    <2>1. /\ stage[d] \in {"next", "queued"} /\ UNCHANGED <<inbox, pos, queue, queued, handled>>
          /\ stage' = [stage EXCEPT ![d] = "calling"] \/ stage' = [stage EXCEPT ![d] = "answered"]
          /\ "calling" \in Stage /\ "answered" \in Stage
      BY <1>8 DEF Call, Answer, HasTurn, Stage, Finished, history, dropped
    <2> QED BY <1>5, <2>1
  <1>9. ASSUME NEW d \in Delivery, Enqueue(d)
        PROVE  /\ \A e \in Delivery : stage'[e] # "failed"
               /\ \A p \in Phone : InOrder(p)'
    <2>1. \A e \in Delivery : stage'[e] # "failed"
      BY <1>3, <1>9 DEF Enqueue, TypeOK
    <2> QED BY <1>3, <1>9, <2>1, EnqueueKeepsOrder
  <1>10. ASSUME NEW d \in Delivery, SendReply(d)
         PROVE  /\ \A e \in Delivery : stage'[e] # "failed"
                /\ \A p \in Phone : InOrder(p)'
    <2>1. stage[d] = "replying" /\ UNCHANGED <<inbox, queued, handled>>
      BY <1>10 DEF SendReply, dropped
    <2>2. CASE EndReply(d)
      <3>1. \A e \in Delivery : stage'[e] # "failed"
        BY <1>3, <2>2 DEF EndReply, TypeOK
      <3> QED BY <1>3, <2>1, <2>2, <3>1, EndReplyKeepsOrder
    <2>3. CASE UNCHANGED <<stage, pos, queue>>
      BY <1>3, <2>1, <2>3, OrderFrame DEF Msg
    <2> QED BY <1>10, <2>2, <2>3 DEF SendReply
  <1>11. ASSUME NEW r \in Phone, Handle(r)
         PROVE  /\ \A e \in Delivery : stage'[e] # "failed"
                /\ \A p \in Phone : InOrder(p)'
    <2>1. PICK d \in Delivery, m \in Message : Handles(r, d, m)
      BY <1>11, HandleFacts
    <2>2. stage[d] = "calling" /\ stage' = [stage EXCEPT ![d] = "replying"]
      BY <1>3, <2>1 DEF Handles
    <2>3. UNCHANGED <<inbox, pos, queue, queued>>
      BY <1>11 DEF Handle
    <2>4. \A e \in Delivery : stage'[e] # "failed"
      BY <1>3, <2>2 DEF TypeOK
    <2> QED BY <1>3, <2>1, <2>2, <2>3, <2>4, HandleKeepsOrder
  <1> QED
    BY <1>1, <1>4, <1>6, <1>7, <1>8, <1>9, <1>10, <1>11
       DEF Next, Process, Refuse, Timeout, SendFails, HandleFails, Reconfigure, Crash

-----------------------------------------------------------------------------
(* The replies                                                             *)

\* The history of a phone only grows.
LEMMA LengthGrows ==
  ASSUME TypeOK, CallsInv, [Next]_vars, NEW p \in Phone
  PROVE  Len(handled[p]) \in Nat /\ Len(handled'[p]) \in Nat /\ Len(handled[p]) <= Len(handled'[p])
  <1>1. handled[p] \in Seq(Message) /\ Len(handled[p]) \in Nat
    BY LenProperties DEF TypeOK
  <1>2. handled'[p] = handled[p] \/ \E n \in Message : handled'[p] = Append(handled[p], n)
    BY HandledGrows
  <1> QED BY <1>1, <1>2, AppendFacts

\* What is sent so far, and the history of what was sent, when nothing is sent.
LEMMA ToldFrame ==
  ASSUME TypeOK, NEW p \in Phone, told'[p] = told[p], Len(handled[p]) <= Len(handled'[p]),
         Len(handled[p]) \in Nat, Len(handled'[p]) \in Nat
  PROVE  /\ ToldAs(p) => ToldAs(p)'
         /\ \A t \in [of : Nat, sent : Nat] : Sending(p, t) => Sending(p, t)'
  <1>1. \A i \in Nat : i \in DOMAIN told[p] => told[p][i].of \in Nat
    <2>1. told[p] \in Seq([of : Nat, sent : Nat])
      BY DEF TypeOK
    <2>2. \A i \in 1 .. Len(told[p]) : told[p][i] \in [of : Nat, sent : Nat]
      BY <2>1, ElementOfSeq
    <2> QED BY <2>1, <2>2, LenProperties
  <1>2. ToldAs(p) => ToldAs(p)'
    BY <1>1 DEF ToldAs
  <1>3. \A t \in [of : Nat, sent : Nat] : t.of \in Nat
    OBVIOUS
  <1> QED BY <1>2, <1>3 DEF Sending, LastTold

\* One message more of the reply that is being sent.
LEMMA ToldAppend ==
  ASSUME TypeOK, NEW p \in Phone, NEW t \in [of : Nat, sent : Nat], ToldAs(p), Sending(p, t),
         told'[p] = Append(told[p], [of |-> t.of, sent |-> t.sent + 1]), handled' = handled
  PROVE  ToldAs(p)' /\ Sending(p, [of |-> t.of, sent |-> t.sent + 1])'
  <1> DEFINE r == [of |-> t.of, sent |-> t.sent + 1]
             R == [of : Nat, sent : Nat]
  <1>1. r \in R /\ r.of = t.of /\ r.sent = t.sent + 1 /\ told[p] \in Seq(R)
    BY DEF TypeOK
  <1>2. t.of \in Nat /\ t.sent \in Nat
    OBVIOUS
  <1> HIDE DEF r, R
  <1>3. /\ told'[p] # <<>> /\ Len(told[p]) \in Nat /\ DOMAIN told[p] = 1 .. Len(told[p])
        /\ DOMAIN told'[p] = 1 .. Len(told[p]) + 1 /\ Len(told'[p]) = Len(told[p]) + 1
        /\ \A i \in DOMAIN told[p] : told'[p][i] = told[p][i]
        /\ told'[p][Len(told[p]) + 1] = r
    BY SMTT(30), <1>1, AppendFacts DEF r
  <1>4. ASSUME NEW i \in Nat, i \in DOMAIN told'[p]
        PROVE  /\ told'[p][i].of <= Len(handled'[p])
               /\ \/ told'[p][i].sent = 1
                  \/ /\ i > 1
                     /\ told'[p][i] = [of |-> told'[p][i - 1].of, sent |-> told'[p][i - 1].sent + 1]
               /\ i > 1 => told'[p][i - 1].of <= told'[p][i].of
    <2>1. CASE i \in DOMAIN told[p]
      <3>1. told'[p][i] = told[p][i] /\ (i > 1 => told'[p][i - 1] = told[p][i - 1])
        BY <1>3, <2>1
      <3> QED BY <2>1, <3>1 DEF ToldAs
    <2>2. CASE i \notin DOMAIN told[p]
      <3>1. i = Len(told[p]) + 1 /\ told'[p][i] = r
        BY <1>3, <1>4, <2>2
      <3>2. CASE told[p] = <<>>
        <4>1. i = 1 /\ r.sent = 1 /\ r.of <= Len(handled'[p])
          BY <1>1, <1>2, <3>1, <3>2, EmptySeq DEF Sending
        <4> QED BY <3>1, <4>1
      <3>3. CASE told[p] # <<>>
        <4>1. i > 1 /\ i - 1 = Len(told[p]) /\ told'[p][i - 1] = LastTold(p)
          <5>1. Len(told[p]) \in Nat \ {0}
            BY <1>1, <3>3, HeadFacts
          <5> QED BY <1>3, <3>1, <5>1 DEF LastTold
        <4>2. LastTold(p).of <= t.of /\ (t.sent = 0 \/ LastTold(p) = t) /\ t.of <= Len(handled[p])
          BY <3>3 DEF Sending
        <4>3. r.sent = 1 \/ r = [of |-> LastTold(p).of, sent |-> LastTold(p).sent + 1]
          BY <1>1, <1>2, <4>2 DEF r
        <4> QED BY <1>1, <3>1, <4>1, <4>2, <4>3
      <3> QED BY <3>2, <3>3
    <2> QED BY <2>1, <2>2
  <1>5. ToldAs(p)'
    BY <1>4 DEF ToldAs
  <1>6. LastTold(p)' = r
    BY <1>3 DEF LastTold
  <1>7. r.of <= Len(handled'[p])
    BY <1>1 DEF Sending
  <1>8. Sending(p, r)'
    BY <1>1, <1>2, <1>3, <1>6, <1>7 DEF Sending
  <1> QED BY <1>5, <1>8 DEF r

\* What is to be shown for the invariant of the replies after a step.
LEMMA ToldNext ==
  ASSUME TypeOK',
         \A d \in Delivery : stage'[d] # "replying" => turn'[d] = NoTurn,
         \A p \in Phone : ToldAs(p)',
         \A d \in Delivery, p \in Phone, t \in [of : Nat, sent : Nat] :
            stage'[d] = "replying" /\ Line(d)' = p /\ turn'[d] = t => Sending(p, t)'
  PROVE  ToldInv'
  <1>1. ASSUME NEW d \in Delivery, NEW p \in Phone, stage'[d] = "replying", Line(d)' = p
        PROVE  /\ turn'[d].of <= Len(handled'[p])
               /\ told'[p] # <<>> => LastTold(p)'.of <= turn'[d].of
               /\ \/ turn'[d].sent = 0
                  \/ told'[p] # <<>> /\ LastTold(p)' = turn'[d]
    <2>1. PICK t \in [of : Nat, sent : Nat] : t = turn'[d]
      BY DEF TypeOK
    <2>2. Sending(p, t)'
      BY <1>1, <2>1
    <2> QED BY <2>1, <2>2 DEF Sending
  <1> QED BY <1>1 DEF ToldInv, Sending

\* Nothing is sent: who replies goes on as before, or has ended.
LEMMA ToldStays ==
  ASSUME TypeOK, TypeOK', CallsInv, ToldInv, [Next]_vars, told' = told,
         \A d \in Delivery :
            \/ /\ stage'[d] = "replying" <=> stage[d] = "replying"
               /\ turn'[d] = turn[d]
            \/ stage'[d] # "replying" /\ turn'[d] = NoTurn,
         \A d \in Delivery : stage'[d] = "replying" => Line(d)' = Line(d)
  PROVE  ToldInv'
  <1>1. \A p \in Phone :
           /\ Len(handled[p]) \in Nat /\ Len(handled'[p]) \in Nat
           /\ Len(handled[p]) <= Len(handled'[p])
    BY LengthGrows
  <1>2. \A p \in Phone : ToldAs(p)'
    BY <1>1, ToldFrame DEF ToldInv
  <1>3. \A d \in Delivery : stage'[d] # "replying" => turn'[d] = NoTurn
    BY DEF ToldInv
  <1>4. ASSUME NEW d \in Delivery, NEW p \in Phone, NEW t \in [of : Nat, sent : Nat],
               stage'[d] = "replying", Line(d)' = p, turn'[d] = t
        PROVE  Sending(p, t)'
    <2>1. stage[d] = "replying" /\ turn[d] = t /\ Line(d) = p
      BY <1>4
    <2>2. Sending(p, t)
      BY <2>1 DEF ToldInv
    <2> QED BY <1>1, <2>2, ToldFrame
  <1> QED BY <1>2, <1>3, <1>4, ToldNext

\* A message handled keeps the replies in order.
LEMMA HandleKeepsTold ==
  ASSUME TypeOK, TypeOK', CallsInv, ToldInv, NEW r \in Phone, Handle(r), [Next]_vars
  PROVE  ToldInv'
  <1>1. PICK d \in Delivery, m \in Message : Handles(r, d, m)
    BY HandleFacts
  <1>2. /\ Line(d) = r /\ handled' = [handled EXCEPT ![r] = Append(@, m)]
        /\ UNCHANGED <<inbox, pos, told>>
        /\ stage' = IF stage[d] = "calling" THEN [stage EXCEPT ![d] = "replying"] ELSE stage
        /\ turn' = IF stage[d] = "calling"
                   THEN [turn EXCEPT ![d] = ReplyTo(Len(handled'[r]))] ELSE turn
    BY <1>1 DEF Handle, Handles
  <1>3. \A e \in Delivery : Line(e)' = Line(e)
    BY <1>2 DEF Line, Msg
  <1>4. CASE stage[d] # "calling"
    BY <1>2, <1>3, <1>4, ToldStays
  <1>5. CASE stage[d] = "calling"
    <2>1. \A p \in Phone :
             /\ Len(handled[p]) \in Nat /\ Len(handled'[p]) \in Nat
             /\ Len(handled[p]) <= Len(handled'[p])
      BY LengthGrows
    <2>2. \A p \in Phone : ToldAs(p)'
      BY <1>2, <2>1, ToldFrame DEF ToldInv
    <2>3. /\ \A e \in Delivery : e # d => stage'[e] = stage[e] /\ turn'[e] = turn[e]
          /\ stage'[d] = "replying" /\ turn'[d] = ReplyTo(Len(handled'[r]))
      BY <1>2, <1>5 DEF TypeOK
    <2>4. \A e \in Delivery : stage'[e] # "replying" => turn'[e] = NoTurn
      BY <2>3 DEF ToldInv
    <2>5. ASSUME NEW e \in Delivery, NEW p \in Phone, NEW t \in [of : Nat, sent : Nat],
                 stage'[e] = "replying", Line(e)' = p, turn'[e] = t
          PROVE  Sending(p, t)'
      <3>1. CASE e = d
        <4>1. p = r /\ t.of = Len(handled'[r]) /\ t.sent = 0
          BY <1>2, <1>3, <2>3, <2>5, <3>1 DEF ReplyTo
        <4>2. told'[r] # <<>> => LastTold(r)'.of <= Len(handled'[r])
          <5> SUFFICES ASSUME told[r] # <<>> PROVE told[r][Len(told[r])].of <= Len(handled'[r])
            BY <1>2 DEF LastTold
          <5>1. /\ told[r] \in Seq([of : Nat, sent : Nat])
                /\ Len(told[r]) \in DOMAIN told[r] /\ Len(told[r]) \in Nat
            <6>1. told[r] \in Seq([of : Nat, sent : Nat])
              BY DEF TypeOK
            <6>2. DOMAIN told[r] = 1 .. Len(told[r]) /\ Len(told[r]) \in Nat \ {0}
              BY <6>1, HeadFacts
            <6> QED BY <6>1, <6>2
          <5>2. told[r][Len(told[r])].of <= Len(handled[r])
            BY <5>1 DEF ToldInv, ToldAs
          <5>3. told[r][Len(told[r])].of \in Nat
            <6>1. told[r][Len(told[r])] \in [of : Nat, sent : Nat]
              BY <5>1, ElementOfSeq, LenProperties
            <6> QED BY <6>1
          <5> QED BY <2>1, <5>2, <5>3
        <4> QED BY <2>1, <4>1, <4>2 DEF Sending
      <3>2. CASE e # d
        <4>1. stage[e] = "replying" /\ turn[e] = t /\ Line(e) = p
          BY <1>3, <2>3, <2>5, <3>2
        <4>2. Sending(p, t)
          BY <4>1 DEF ToldInv
        <4> QED BY <1>2, <2>1, <4>2, ToldFrame
      <3> QED BY <3>1, <3>2
    <2> QED BY <2>2, <2>4, <2>5, ToldNext
  <1> QED BY <1>4, <1>5

\* One message of a reply is sent; the reply goes on or ends with it.
LEMMA SendKeepsTold ==
  ASSUME TypeOK, TypeOK', QueueInv, CallsInv, ToldInv, [Next]_vars, NEW d \in Delivery,
         stage[d] = "replying", UNCHANGED <<inbox, handled>>,
         told' = [told EXCEPT ![Line(d)] = Append(@, [of |-> turn[d].of, sent |-> turn[d].sent + 1])],
         \A e \in Delivery : e # d =>
             stage'[e] = stage[e] /\ pos'[e] = pos[e] /\ turn'[e] = turn[e],
         \/ stage'[d] # "replying" /\ turn'[d] = NoTurn
         \/ /\ stage'[d] = "replying" /\ pos'[d] = pos[d]
            /\ turn'[d] = [of |-> turn[d].of, sent |-> turn[d].sent + 1]
  PROVE  ToldInv'
  <1>1. Line(d) \in Phone /\ queue[Line(d)][1] = d
    BY MsgType DEF QueueInv, InLine, Working
  <1>2. PICK t \in [of : Nat, sent : Nat] : t = turn[d]
    BY DEF TypeOK
  <1>3. PICK q \in Phone : q = Line(d)
    BY <1>1
  <1>4. /\ told'[q] = Append(told[q], [of |-> t.of, sent |-> t.sent + 1])
        /\ \A p \in Phone : p # q => told'[p] = told[p]
    BY <1>2, <1>3 DEF TypeOK
  <1>5. ToldAs(q) /\ Sending(q, t)
    BY <1>2, <1>3 DEF ToldInv
  <1>6. ToldAs(q)' /\ Sending(q, [of |-> t.of, sent |-> t.sent + 1])'
    BY <1>4, <1>5, ToldAppend
  <1>7. \A p \in Phone :
           /\ Len(handled[p]) \in Nat /\ Len(handled'[p]) \in Nat
           /\ Len(handled[p]) <= Len(handled'[p])
    BY LengthGrows
  <1>8. \A p \in Phone : ToldAs(p)'
    <2> SUFFICES ASSUME NEW p \in Phone, p # q PROVE ToldAs(p)'
      BY <1>6
    <2>1. ToldAs(p)
      BY DEF ToldInv
    <2> QED BY <1>4, <1>7, <2>1, ToldFrame
  <1>9. \A e \in Delivery : stage'[e] # "replying" => turn'[e] = NoTurn
    BY DEF ToldInv
  <1>10. ASSUME NEW e \in Delivery, NEW p \in Phone, NEW u \in [of : Nat, sent : Nat],
                stage'[e] = "replying", Line(e)' = p, turn'[e] = u
         PROVE  Sending(p, u)'
    <2>1. Line(e)' = Line(e)
      BY <1>10 DEF Line, Msg
    <2>2. CASE e = d
      BY <1>2, <1>3, <1>6, <1>10, <2>1, <2>2
    <2>3. CASE e # d
      <3>1. stage[e] = "replying" /\ turn[e] = u /\ Line(e) = p
        BY <1>10, <2>1, <2>3
      <3>2. p # q
        <4>1. queue[Line(e)][1] = e
          BY <3>1 DEF QueueInv, Working
        <4> QED BY <1>1, <1>3, <2>3, <3>1, <4>1
      <3>3. Sending(p, u)
        BY <3>1 DEF ToldInv
      <3> QED BY <1>4, <1>7, <3>2, <3>3, ToldFrame
    <2> QED BY <2>2, <2>3
  <1> QED BY <1>8, <1>9, <1>10, ToldNext

\* Every step keeps the replies in order.
LEMMA ToldStep ==
  ASSUME TypeOK, TypeOK', QueueInv, CallsInv, ToldInv, [Next]_vars
  PROVE  ToldInv'
  <1>1. CASE UNCHANGED vars \/ Reconfigure \/ Restore \/ Tick
    <2>1. UNCHANGED <<stage, inbox, pos, turn, told>>
      BY <1>1 DEF vars, gateway, history, dropped, Reconfigure, Restore, Tick
    <2> QED BY <2>1, ToldStays DEF Line, Msg
  <1>2. ASSUME NEW d \in Delivery, NEW next \in Stage, stage[d] # "replying", next # "replying",
               stage' = [stage EXCEPT ![d] = next], turn' = turn, told' = told,
               \A e \in Delivery : e # d => inbox'[e] = inbox[e] /\ pos'[e] = pos[e]
        PROVE  ToldInv'
    <2>1. \A e \in Delivery : stage'[e] = IF e = d THEN next ELSE stage[e]
      BY <1>2 DEF TypeOK
    <2>2. \A e \in Delivery : e # d => Line(e)' = Line(e)
      BY <1>2 DEF Line, Msg
    <2> QED BY <1>2, <2>1, <2>2, ToldStays
  <1>3. ASSUME NEW d \in Delivery, Deliver(d) \/ Refuse(d) \/ Drop(d) PROVE ToldInv'
    <2>1. /\ stage[d] # "replying" /\ turn' = turn /\ told' = told
          /\ \E next \in Stage : next # "replying" /\ stage' = [stage EXCEPT ![d] = next]
      BY <1>3 DEF Deliver, Refuse, Drop, Posts, Stage, Finished, TypeOK, history, dropped
    <2>2. \A e \in Delivery : e # d => inbox'[e] = inbox[e] /\ pos'[e] = pos[e]
      BY <1>3 DEF Deliver, Refuse, Drop, TypeOK
    <2> QED BY <1>2, <2>1, <2>2
  <1>4. ASSUME NEW d \in Delivery, Enqueue(d) \/ Call(d) \/ Answer(d) PROVE ToldInv'
    <2>1. /\ stage[d] # "replying" /\ UNCHANGED <<inbox, pos, turn, told>>
          /\ \E next \in Stage : next # "replying" /\ stage' = [stage EXCEPT ![d] = next]
      BY <1>4 DEF Enqueue, Call, Answer, HasTurn, Stage, Finished, history, dropped
    <2> QED BY <1>2, <2>1
  <1>5. ASSUME NEW d \in Delivery, stage[d] = "calling", FailDelivery(d),
               UNCHANGED <<inbox, pos, turn, told>>
        PROVE  ToldInv'
    BY <1>2, <1>5 DEF FailDelivery, Stage, Finished
  <1>6. ASSUME NEW d \in Delivery, Timeout(d) PROVE ToldInv'
    BY <1>5, <1>6 DEF Timeout
  <1>7. ASSUME NEW d \in Delivery, SendReply(d) \/ SendFails(d) PROVE ToldInv'
    <2>1. /\ stage[d] = "replying" /\ UNCHANGED <<inbox, handled>>
          /\ turn[d] \in [of : Nat, sent : Nat]
      BY <1>7 DEF SendReply, SendFails, TypeOK
    <2>2. CASE EndReply(d) /\ told' = told
      <3>1. /\ \A e \in Delivery : stage'[e] = IF e = d THEN "next" ELSE stage[e]
            /\ \A e \in Delivery : turn'[e] = IF e = d THEN NoTurn ELSE turn[e]
            /\ \A e \in Delivery : e # d => pos'[e] = pos[e]
        BY <2>2 DEF EndReply, TypeOK
      <3>2. \A e \in Delivery : stage'[e] = "replying" => Line(e)' = Line(e)
        BY <2>1, <3>1 DEF Line, Msg
      <3> QED BY <2>2, <3>1, <3>2, ToldStays
    <2>3. CASE EndReply(d) /\ told' = [told EXCEPT ![Line(d)] =
                                          Append(@, [turn[d] EXCEPT !.sent = @ + 1])]
      <3>1. /\ \A e \in Delivery : stage'[e] = IF e = d THEN "next" ELSE stage[e]
            /\ \A e \in Delivery : turn'[e] = IF e = d THEN NoTurn ELSE turn[e]
            /\ \A e \in Delivery : e # d => pos'[e] = pos[e]
        BY <2>3 DEF EndReply, TypeOK
      <3>2. [turn[d] EXCEPT !.sent = @ + 1] = [of |-> turn[d].of, sent |-> turn[d].sent + 1]
        BY <2>1
      <3> QED BY <2>1, <2>3, <3>1, <3>2, SendKeepsTold
    <2>4. CASE /\ turn' = [turn EXCEPT ![d].sent = @ + 1] /\ Tell(d)
               /\ UNCHANGED <<stage, pos, queue>>
      <3>1. /\ \A e \in Delivery : e # d => turn'[e] = turn[e]
            /\ turn'[d] = [of |-> turn[d].of, sent |-> turn[d].sent + 1]
        BY <2>1, <2>4 DEF TypeOK
      <3>2. told' = [told EXCEPT ![Line(d)] =
                        Append(@, [of |-> turn[d].of, sent |-> turn[d].sent + 1])]
        BY <2>4, <3>1 DEF Tell
      <3> QED BY <2>1, <2>4, <3>1, <3>2, SendKeepsTold
    <2> QED BY <1>7, <2>2, <2>3, <2>4 DEF SendReply, SendFails
  <1>8. ASSUME NEW p \in Phone, HandleFails(p) PROVE ToldInv'
    <2> DEFINE d == calls[p][1][1]
    <2>1. Head(calls[p])[1] = d /\ d \in Delivery /\ UNCHANGED <<inbox, pos, turn, told>>
      BY <1>8, FirstCall DEF HandleFails
    <2>2. CASE stage[d] = "calling" /\ FailDelivery(d)
      BY <1>5, <2>1, <2>2
    <2>3. CASE UNCHANGED <<stage, cache, queue, forgotten>>
      BY <2>1, <2>3, ToldStays DEF Line, Msg
    <2> QED BY <1>8, <2>1, <2>2, <2>3 DEF HandleFails
  <1>9. CASE Crash
    <2>1. /\ \A d \in Delivery : stage'[d] # "replying" /\ turn'[d] = NoTurn
          /\ told' = told
      BY <1>9 DEF Crash, Running, Finished
    <2> QED BY <2>1, ToldStays
  <1> QED
    BY <1>1, <1>3, <1>4, <1>6, <1>7, <1>8, <1>9, HandleKeepsTold DEF Next, Process

-----------------------------------------------------------------------------
(* The theorems                                                            *)

\* The invariant holds before the first delivery.
LEMMA InitInv == Init => Inv
  <1> SUFFICES ASSUME Init PROVE Inv
    OBVIOUS
  <1>1. TypeOK
    BY InitType
  <1>2. \A d \in Delivery : stage[d] = "unborn"
    BY DEF Init
  <1>3. /\ \A p \in Phone : queue[p] = <<>> /\ calls[p] = <<>> /\ handled[p] = <<>>
        /\ \A p \in Phone : queued[p] = <<>> /\ told[p] = <<>>
        /\ \A d \in Delivery : pos[d] = 1 /\ inbox[d] = <<>> /\ turn[d] = NoTurn
        /\ \A m \in Message : cache[m] = 0 /\ forgotten[m] = 0
        /\ acked = {}
    BY DEF Init
  <1>4. Len(<<>>) = 0 /\ DOMAIN <<>> = {}
    BY EmptySeq
  <1>5. \A d \in Delivery : ~Running(d) /\ ~InLine(d) /\ ~Working(d)
    BY <1>2 DEF Running, InLine, Working, Finished
  <1>6. QueueInv /\ CallsInv
    BY <1>3, <1>4, <1>5 DEF QueueInv, CallsInv
  <1>7. MarkInv
    BY <1>2, <1>3, <1>5 DEF MarkInv, Init
  <1>8. CountInv
    <2> SUFFICES ASSUME NEW m \in Message
                 PROVE  RanOut(0, m) /\ Uses(m) <= Marks(m) + 0
      BY DEF CountInv, Covered
    <2>1. Outstanding(m) = {}
      BY <1>3, <1>4 DEF Outstanding, Asks
    <2>2. TimesHandled(m) \in Nat /\ ~(TimesHandled(m) > 0)
      BY <1>1, <1>3, <1>4, TimesHandledFacts, DeliveryAssumption DEF Reached
    <2>3. Marks(m) = 0
      BY <1>3 DEF Marks
    <2> QED BY <2>1, <2>2, <2>3, FS_EmptySet DEF RanOut, Uses
  <1>9. DeliveryInv
    BY <1>2, <1>3, <1>5 DEF DeliveryInv
  <1>10. OrderInv
    <2>1. \A d \in Delivery : stage[d] # "failed"
      BY <1>2
    <2>2. ASSUME NEW p \in Phone PROVE InOrder(p)
      <3>1. Ahead(p) = 0 /\ ~InReply(p)
        BY <1>3, <1>4 DEF Ahead, InReply
      <3>2. /\ Len(queue[p]) = 0 /\ Len(queued[p]) = 0 /\ Len(handled[p]) = 0
            /\ DOMAIN queue[p] = {} /\ DOMAIN handled[p] = {}
        BY <1>3, <1>4
      <3> QED BY <3>1, <3>2 DEF InOrder
    <2> QED BY <2>1, <2>2 DEF OrderInv
  <1>11. ToldInv
    BY <1>2, <1>3, <1>4 DEF ToldInv, ToldAs
  <1> QED BY <1>1, <1>6, <1>7, <1>8, <1>9, <1>10, <1>11 DEF Inv

\* Every step keeps the invariant.
LEMMA InvStep == Inv /\ [Next]_vars => Inv'
  <1> SUFFICES ASSUME Inv, [Next]_vars PROVE Inv'
    OBVIOUS
  <1> USE DEF Inv
  <1>1. TypeOK'
    BY TypeStep
  <1>2. QueueInv'
    BY QueueStep
  <1>3. CallsInv'
    BY CallsStep
  <1>4. MarkInv'
    BY MarkStep
  <1>5. CountInv'
    BY <1>1, CountStep
  <1>6. DeliveryInv'
    BY DeliveryStep
  <1>7. OrderInv'
    BY OrderStep
  <1>8. ToldInv'
    BY <1>1, ToldStep
  <1> QED BY <1>1, <1>2, <1>3, <1>4, <1>5, <1>6, <1>7, <1>8

\* The inductive invariant of the module: every reachable state is well typed,
\* the queues of the gateway and the calls at the backend agree with what each
\* delivery is doing, and marks, counts and replies follow from them.
THEOREM WebhookInvariance == Spec => []Inv
  <1>1. Init => Inv
    BY InitInv
  <1>2. Inv /\ [Next]_vars => Inv'
    BY InvStep
  <1> QED BY <1>1, <1>2, PTL DEF Spec

\* Every reachable state is well typed.
THEOREM TypeCorrect == Spec => []TypeOK
  <1>1. Inv => TypeOK
    BY DEF Inv
  <1> QED BY <1>1, WebhookInvariance, PTL

\* However often Meta repeats a message, and whatever fails, the conversation
\* handles it at most once more than its mark was lost or taken back; a message
\* without a timestamp also again when its mark ran out, hence no oftener than
\* MaxAge has passed.
THEOREM MarkedOnceHandledOnce == Spec => []HandledOncePerMark
  <1>1. Inv => HandledOncePerMark
    <2> SUFFICES ASSUME Inv, NEW m \in Message
                 PROVE  LET again == TimesHandled(m) - (1 + forgotten[m])
                        IN  again <= 0 \/ (m \notin Dated /\ again * MaxAge < clock)
      BY DEF HandledOncePerMark
    <2> DEFINE again == TimesHandled(m) - (1 + forgotten[m])
    <2>1. TypeOK /\ MarkInv /\ CountInv
      BY DEF Inv
    <2>2. /\ TimesHandled(m) \in Nat /\ Cardinality(Outstanding(m)) \in Nat
          /\ forgotten[m] \in Nat /\ MaxAge \in Nat
      BY <2>1, TimesHandledFacts, OutstandingType, DeliveryAssumption DEF TypeOK
    <2>3. PICK n \in Nat : RanOut(n, m) /\ Uses(m) <= Marks(m) + n
      BY <2>1 DEF CountInv, Covered
    <2>4. Marks(m) <= 1 + forgotten[m] /\ Marks(m) \in Nat
      BY <2>1, <2>2 DEF Marks, TypeOK
    <2>5. again <= n /\ again \in Int
      BY <2>2, <2>3, <2>4 DEF Uses
    <2> HIDE DEF again
    <2>6. ASSUME again > 0 PROVE m \notin Dated /\ again * MaxAge < clock
      <3>1. m \notin Dated /\ n * MaxAge < Since(m)
        BY <2>3, <2>5, <2>6 DEF RanOut
      <3>2. Since(m) <= clock /\ Since(m) \in Nat /\ clock \in Nat
        BY <2>1 DEF Since, MarkInv, TypeOK
      <3>3. again * MaxAge <= n * MaxAge
        <4>1. PICK j \in Nat : n = again + j
          BY <2>5, <2>6
        <4>2. n * MaxAge = again * MaxAge + j * MaxAge /\ j * MaxAge \in Nat
          BY <2>2, <2>5, <4>1
        <4>3. again * MaxAge \in Int
          BY <2>2, <2>5
        <4> QED BY <4>2, <4>3
      <3>4. again * MaxAge \in Int /\ n * MaxAge \in Int
        BY <2>2, <2>5
      <3> QED BY <3>1, <3>2, <3>3, <3>4
    <2> QED BY <2>5, <2>6 DEF again
  <1> QED BY <1>1, WebhookInvariance, PTL

\* A phone gets its replies in the order in which its messages were handled, and
\* of each a beginning; without failures they are handled as they came.
THEOREM RepliesComeInOrder == Spec => []AnsweredInOrder
  <1>1. Inv => AnsweredInOrder
    <2> SUFFICES ASSUME Inv, NEW p \in Phone
                 PROVE  /\ faults = 0 => IsPrefix(handled[p], queued[p])
                        /\ \A i \in DOMAIN told[p] :
                              /\ \/ told[p][i].sent = 1
                                 \/ i > 1 /\ told[p][i] = [told[p][i - 1] EXCEPT !.sent = @ + 1]
                              /\ i > 1 => told[p][i - 1].of <= told[p][i].of
      BY DEF AnsweredInOrder
    <2>1. TypeOK /\ QueueInv /\ OrderInv /\ ToldInv
      BY DEF Inv
    <2>2. ASSUME faults = 0 PROVE IsPrefix(handled[p], queued[p])
      <3> DEFINE s == handled[p]
                 t == queued[p]
      <3>1. InOrder(p)
        BY <2>1, <2>2 DEF OrderInv
      <3>2. s \in Seq(Message) /\ t \in Seq(Message) /\ queue[p] \in Seq(Delivery)
        BY <2>1 DEF TypeOK
      <3>3. Len(s) \in Nat /\ Len(t) \in Nat /\ Len(queue[p]) \in Nat /\ DOMAIN s = 1 .. Len(s)
        BY <3>2, LenProperties
      <3>4. InReply(p) => Len(queue[p]) >= 1
        <4>1. queue[p] # <<>> => Len(queue[p]) \in Nat \ {0}
          BY <3>2, HeadFacts
        <4> QED BY <4>1 DEF InReply
      <3>5. Len(s) <= Len(t)
        BY <3>1, <3>3, <3>4 DEF InOrder, Ahead
      <3>6. \A i \in 1 .. Len(s) : s[i] = t[i]
        BY <3>1, <3>3 DEF InOrder
      <3> HIDE DEF s, t
      <3>7. SubSeq(s, 1, Len(s)) = SubSeq(t, 1, Len(s))
        BY <3>2, <3>3, <3>5, <3>6
      <3> QED BY <3>5, <3>7 DEF IsPrefix, s, t
    <2>3. ASSUME NEW i \in DOMAIN told[p]
          PROVE  /\ \/ told[p][i].sent = 1
                    \/ i > 1 /\ told[p][i] = [told[p][i - 1] EXCEPT !.sent = @ + 1]
                 /\ i > 1 => told[p][i - 1].of <= told[p][i].of
      <3>1. told[p] \in Seq([of : Nat, sent : Nat])
        BY <2>1 DEF TypeOK
      <3>2. /\ i \in Nat
            /\ i > 1 => told[p][i - 1] \in [of : Nat, sent : Nat]
        <4>1. DOMAIN told[p] = 1 .. Len(told[p]) /\ Len(told[p]) \in Nat
          BY <3>1, LenProperties
        <4>2. \A j \in 1 .. Len(told[p]) : told[p][j] \in [of : Nat, sent : Nat]
          BY <3>1, ElementOfSeq
        <4>3. i > 1 => i - 1 \in 1 .. Len(told[p])
          BY <2>3, <4>1
        <4> QED BY <2>3, <4>1, <4>2, <4>3
      <3>3. /\ \/ told[p][i].sent = 1
               \/ /\ i > 1
                  /\ told[p][i] = [of |-> told[p][i - 1].of, sent |-> told[p][i - 1].sent + 1]
            /\ i > 1 => told[p][i - 1].of <= told[p][i].of
        BY <2>1, <2>3, <3>2 DEF ToldInv, ToldAs
      <3>4. i > 1 => [told[p][i - 1] EXCEPT !.sent = @ + 1]
                       = [of |-> told[p][i - 1].of, sent |-> told[p][i - 1].sent + 1]
        BY <3>2
      <3> QED BY <3>3, <3>4
    <2> QED BY <2>2, <2>3
  <1> QED BY <1>1, WebhookInvariance, PTL

\* When Meta is told that a batch is done, each of its messages reached the
\* conversation, was too old or is for the number of other settings, unless two
\* deliveries that ran side by side had one of its messages.
THEOREM AcknowledgedIsDone == Spec => []AckedIsHandled
  <1>1. Inv => AckedIsHandled
    <2> SUFFICES ASSUME Inv, NEW b \in acked \ rushed, NEW m \in MessagesOf[b]
                 PROVE  TimesHandled(m) > 0 \/ m \in tooOld \/ m \in elsewhere
      BY DEF AckedIsHandled, Done
    <2>1. TypeOK /\ DeliveryInv
      BY DEF Inv
    <2>2. m \in Message
      BY <2>1, FoundFacts DEF TypeOK
    <2>3. Settled(m) \/ m \in elsewhere
      BY <2>1 DEF DeliveryInv
    <2> QED BY <2>1, <2>2, <2>3, TimesHandledFacts DEF Settled
  <1> QED BY <1>1, WebhookInvariance, PTL

=============================================================================

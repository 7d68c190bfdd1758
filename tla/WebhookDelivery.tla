--------------------------- MODULE WebhookDelivery ---------------------------
(***************************************************************************)
(* A citizen's message on its way through the gateway: Meta delivers a     *)
(* batch by POST and repeats it until it gets a 200; the controller takes  *)
(* the batch if the settings in use have the secret it is signed with;     *)
(* services/whatsappWebhook.service.ts goes through its messages, drops    *)
(* what the deduplicator knows or what is too old, queues the rest by      *)
(* phone, calls the backend with a timeout and sends its reply, message    *)
(* by message.                                                             *)
(*                                                                         *)
(* The queue by phone is the one of module PhoneQueue, here as the         *)
(* sequence of deliveries waiting their turn. The backend is seen through  *)
(* the calls it has received: it takes those of a phone one at a time, and *)
(* goes on with a call whose caller gave up.                               *)
(***************************************************************************)
EXTENDS CloudApi, Naturals, FiniteSets

CONSTANTS Message, Phone, Batch,
          From,         \* the phone of each message
          Dated,        \* the messages with a timestamp that is a number
          Post,         \* the body of each batch
          Reply,        \* the answer of the backend to each message
          Settings,     \* what the staff may save: secret and number
          Right,        \* the settings of the app that Meta delivers for
          Deliveries,   \* bound: how often Meta delivers a batch
          MaxAge,       \* MESSAGE_MAX_AGE_MS, also the deduplicator's ttlMs, in ticks
          MaxClock,     \* bound: the clock
          MaxFaults     \* bound: posts refused, failed calls, unheard
                        \* answers, crashes, changes to wrong settings

ASSUME DeliveryAssumption ==
    /\ From \in [Message -> Phone] /\ Dated \subseteq Message
    /\ DOMAIN Post = Batch /\ DOMAIN Reply = Message /\ Right \in Settings
    /\ \A b \in Batch, used \in Settings :
          /\ ParseIncoming(Post[b], used) \in Seq(Message)
          /\ VerifySignature(Post[b], Right)
    /\ MaxAge \in Nat \ {0}
    /\ {Deliveries, MaxClock, MaxFaults} \subseteq Nat
    /\ IsFiniteSet(Batch)

Delivery == Batch \X (1 .. Deliveries)

VARIABLES
    clock,
    settings,   \* in use: whatsappConfigStore's, loaded for each post
    stage,      \* where the handler of a delivery stands
    inbox,      \* the messages found in it
    pos,        \* the message it is at
    turn,       \* while it sends a reply: which one of the phone, and how much is sent
    cache,      \* MemoryMessageDeduplicator: when an id was marked, 0 if it is not
    queue,      \* deliveries in the queue of a phone; the first one has its turn
    calls,      \* calls the backend has received and not answered, by phone
    acked,      \* batches for which Meta got a 200
    handled,    \* history: the messages the conversation of a phone handled
    queued,     \* history: the messages that entered the queue of a phone
    told,       \* history: the messages of the replies that a phone received
    tooOld,     \* history: messages dropped as stale
    elsewhere,  \* history: messages that are for the number of other settings
    forgotten,  \* history: how often the mark of a message was lost or taken back
    rushed,     \* history: batches with a message that two running deliveries had
    faults

gateway == <<stage, inbox, pos, turn, cache, queue>>
dropped == <<tooOld, elsewhere, forgotten, rushed>>
history == <<handled, queued, told, dropped>>
vars == <<clock, settings, gateway, calls, acked, history, faults>>

\* A message's timestamp, if it has one, is 0: it was sent before any delivery.
SentAt == 0

Finished == {"unborn", "answered", "failed"}
Stage    == Finished \cup {"next", "queued", "calling", "replying"}

Running(d) == stage[d] \notin Finished
InLine(d)  == stage[d] \in {"queued", "calling", "replying"}
Msg(d)     == inbox[d][pos[d]]
Line(d)    == From[Msg(d)]

\* What is sent of a reply, at first nothing.
ReplyTo(n) == [of |-> n, sent |-> 0]
NoTurn     == ReplyTo(0)

TypeOK ==
    /\ clock \in 0 .. MaxClock /\ faults \in 0 .. MaxFaults
    /\ settings \in Settings
    /\ stage \in [Delivery -> Stage] /\ inbox \in [Delivery -> Seq(Message)]
    /\ pos \in [Delivery -> Nat \ {0}]
    /\ turn \in [Delivery -> [of : Nat, sent : Nat]]
    /\ cache \in [Message -> 0 .. MaxClock]
    /\ queue \in [Phone -> Seq(Delivery)]
    /\ calls \in [Phone -> Seq(Delivery \X Message)]
    /\ handled \in [Phone -> Seq(Message)] /\ queued \in [Phone -> Seq(Message)]
    /\ told \in [Phone -> Seq([of : Nat, sent : Nat])]
    /\ acked \subseteq Batch /\ rushed \subseteq Batch
    /\ tooOld \subseteq Message /\ elsewhere \subseteq Message
    /\ forgotten \in [Message -> Nat]

Init ==
    /\ clock = 0
    /\ settings = Right
    /\ stage = [d \in Delivery |-> "unborn"]
    /\ inbox = [d \in Delivery |-> <<>>]
    /\ pos = [d \in Delivery |-> 1]
    /\ turn = [d \in Delivery |-> NoTurn]
    /\ cache = [m \in Message |-> 0]
    /\ queue = [p \in Phone |-> <<>>]
    /\ calls = [p \in Phone |-> <<>>]
    /\ acked = {}
    /\ handled = [p \in Phone |-> <<>>]
    /\ queued = [p \in Phone |-> <<>>]
    /\ told = [p \in Phone |-> <<>>]
    /\ tooOld = {} /\ elsewhere = {} /\ rushed = {}
    /\ forgotten = [m \in Message |-> 0]
    /\ faults = 0

Fault == faults < MaxFaults /\ faults' = faults + 1

-----------------------------------------------------------------------------
(* Meta                                                                    *)

\* Meta posts a batch, or posts it again: because the last answer was not a
\* 200 or was lost, or because there was none in time.
Posts(d) ==
    /\ clock > SentAt
    /\ stage[d] = "unborn" /\ d[1] \notin acked
    /\ \A n \in 1 .. d[2] - 1 : stage[<<d[1], n>>] # "unborn"

\* The messages of each batch under each settings.
Found == [b \in Batch |-> [used \in Settings |-> ParseIncoming(Post[b], used)]]
MessagesOf == [b \in Batch |-> UNION {ToSet(Found[b][used]) : used \in Settings}]

\* The deliveries that are running while one with a message of theirs comes.
Alongside(d) ==
    {e \in Delivery : /\ Running(e)
                      /\ e[1] = d[1] \/ MessagesOf[e[1]] \cap MessagesOf[d[1]] # {}}

\* receive: the settings are loaded, the signature is checked and the messages
\* are found, nothing in between.
Deliver(d) ==
    /\ Posts(d)
    /\ VerifySignature(Post[d[1]], settings)
    /\ stage' = [stage EXCEPT ![d] = "next"]
    /\ inbox' = [inbox EXCEPT ![d] = Found[d[1]][settings]]
    /\ elsewhere' = elsewhere \cup (MessagesOf[d[1]] \ ToSet(inbox'[d]))
    /\ rushed' = rushed \cup UNION {{d[1], e[1]} : e \in Alongside(d)}
    /\ UNCHANGED <<clock, settings, pos, turn, cache, queue, calls, acked, handled, queued,
                   told, tooOld, forgotten, faults>>

\* 401 under another secret, or an error because the settings cannot be loaded.
Refuse(d) ==
    /\ Posts(d)
    /\ Fault
    /\ stage' = [stage EXCEPT ![d] = "failed"]
    /\ UNCHANGED <<clock, settings, inbox, pos, turn, cache, queue, calls, acked, history>>

\* The staff saves other settings, and sooner or later those of the app.
Reconfigure ==
    /\ settings' \in Settings \ {settings, Right}
    /\ Fault
    /\ UNCHANGED <<clock, gateway, calls, acked, history>>

Restore ==
    /\ settings # Right /\ settings' = Right
    /\ UNCHANGED <<clock, gateway, calls, acked, history, faults>>

Tick ==
    /\ clock < MaxClock
    /\ clock' = clock + 1
    /\ UNCHANGED <<settings, gateway, calls, acked, history, faults>>

-----------------------------------------------------------------------------
(* The gateway                                                             *)

\* Variant: the mark of a message runs out one tick too early.
IsDuplicate_ShortTtl(m) == cache[m] # 0 /\ clock - cache[m] < MaxAge - 1

IsDuplicate(m) == cache[m] # 0 /\ clock - cache[m] < MaxAge

\* A message whose age is not known is never too old.
IsStale(m) == m \in Dated /\ clock - SentAt > MaxAge

\* Duplicates leave the mark as it is; any other message is marked, also one
\* that is then found to be too old.
Drop(d) ==
    LET m == Msg(d) IN
    /\ stage[d] = "next" /\ pos[d] <= Len(inbox[d])
    /\ IsDuplicate(m) \/ IsStale(m)
    /\ IF IsDuplicate(m)
       THEN UNCHANGED <<cache, tooOld>>
       ELSE cache' = [cache EXCEPT ![m] = clock] /\ tooOld' = tooOld \cup {m}
    /\ pos' = [pos EXCEPT ![d] = @ + 1]
    /\ UNCHANGED <<clock, settings, stage, inbox, turn, queue, calls, acked, handled, queued,
                   told, elsewhere, forgotten, rushed, faults>>

\* From isDuplicate to the await in the queue's run nothing comes in between.
Enqueue(d) ==
    LET m == Msg(d) IN
    /\ stage[d] = "next" /\ pos[d] <= Len(inbox[d])
    /\ ~IsDuplicate(m) /\ ~IsStale(m)
    /\ stage' = [stage EXCEPT ![d] = "queued"]
    /\ cache' = [cache EXCEPT ![m] = clock]
    /\ queue' = [queue EXCEPT ![From[m]] = Append(@, d)]
    /\ queued' = [queued EXCEPT ![From[m]] = Append(@, m)]
    /\ UNCHANGED <<clock, settings, inbox, pos, turn, calls, acked, handled, told, dropped, faults>>

\* Variant: the backend is called without waiting for the phone's turn.
HasTurn_Always(d) == stage[d] = "queued"

HasTurn(d) == stage[d] = "queued" /\ Head(queue[Line(d)]) = d

\* createWhatsappSession. The network may bring a call to the backend before
\* others that are under way.
Call(d) ==
    /\ HasTurn(d)
    /\ stage' = [stage EXCEPT ![d] = "calling"]
    /\ \E i \in 1 .. Len(calls[Line(d)]) + 1 :
          calls' = [calls EXCEPT ![Line(d)] = InsertAt(@, i, <<d, Msg(d)>>)]
    /\ UNCHANGED <<clock, settings, inbox, pos, turn, cache, queue, acked, history, faults>>

\* Variant: a message that failed stays marked.
Unmark_Never(m) == cache

\* forget
Unmark(m) == [cache EXCEPT ![m] = 0]

\* Variant: the turn is given back only when the backend answered.
LeaveOnError_Never(d) == queue

\* release in the finally of the queue's run: who works in a queue is its first.
LeaveOnError(d) == [queue EXCEPT ![Line(d)] = Tail(@)]

\* The catch around the call: the message may come again, and the 500 leaves
\* the rest of the batch unprocessed.
FailDelivery(d) ==
    /\ stage' = [stage EXCEPT ![d] = "failed"]
    /\ cache' = Unmark(Msg(d))
    /\ queue' = LeaveOnError(d)
    /\ forgotten' = [forgotten EXCEPT ![Msg(d)] = @ + 1]

\* AbortSignal.timeout: the gateway gives up, the backend does not know.
Timeout(d) ==
    /\ stage[d] = "calling"
    /\ Fault
    /\ FailDelivery(d)
    /\ UNCHANGED <<clock, settings, inbox, pos, turn, calls, acked, handled, queued, told,
                   tooOld, elsewhere, rushed>>

EndReply(d) ==
    /\ stage' = [stage EXCEPT ![d] = "next"]
    /\ pos' = [pos EXCEPT ![d] = @ + 1]
    /\ turn' = [turn EXCEPT ![d] = NoTurn]
    /\ queue' = [queue EXCEPT ![Line(d)] = Tail(@)]

Tell(d) == told' = [told EXCEPT ![Line(d)] = Append(@, turn'[d])]

\* sendReply: one message after the other. After one that fails, or whose answer
\* comes too late, the rest is left out; for the batch it makes no difference.
SendReply(d) ==
    /\ stage[d] = "replying"
    /\ IF turn[d].sent < Len(ToOutgoing(Reply[Msg(d)]))
       THEN /\ turn' = [turn EXCEPT ![d].sent = @ + 1]
            /\ Tell(d)
            /\ UNCHANGED <<stage, pos, queue>>
       ELSE EndReply(d) /\ UNCHANGED told
    /\ UNCHANGED <<clock, settings, inbox, cache, calls, acked, handled, queued, dropped, faults>>

SendFails(d) ==
    /\ stage[d] = "replying" /\ turn[d].sent < Len(ToOutgoing(Reply[Msg(d)]))
    /\ Fault
    /\ EndReply(d)
    /\ \/ told' = [told EXCEPT ![Line(d)] = Append(@, [turn[d] EXCEPT !.sent = @ + 1])]
       \/ UNCHANGED told
    /\ UNCHANGED <<clock, settings, inbox, cache, calls, acked, handled, queued, dropped>>

\* 200 with the results; the answer may not reach Meta.
Answer(d) ==
    /\ stage[d] = "next" /\ pos[d] > Len(inbox[d])
    /\ stage' = [stage EXCEPT ![d] = "answered"]
    /\ \/ acked' = acked \cup {d[1]} /\ UNCHANGED faults
       \/ Fault /\ UNCHANGED acked
    /\ UNCHANGED <<clock, settings, inbox, pos, turn, cache, queue, calls, history>>

\* The process dies (or is forced out by shutdown) and starts again empty.
Crash ==
    /\ Fault
    /\ stage' = [d \in Delivery |-> IF Running(d) THEN "failed" ELSE stage[d]]
    /\ forgotten' = [m \in Message |-> forgotten[m] + (IF cache[m] # 0 THEN 1 ELSE 0)]
    /\ cache' = [m \in Message |-> 0]
    /\ queue' = [p \in Phone |-> <<>>]
    /\ turn' = [d \in Delivery |-> NoTurn]
    /\ UNCHANGED <<clock, settings, inbox, pos, calls, acked, handled, queued, told, tooOld,
                   elsewhere, rushed>>

-----------------------------------------------------------------------------
(* The backend                                                             *)

\* The conversation handles the first call of a phone and answers; its answer
\* is of no use to a caller that has given up.
Handle(p) ==
    /\ calls[p] # <<>>
    /\ LET d == Head(calls[p])[1]
           m == Head(calls[p])[2]
           waits == stage[d] = "calling"
       IN  /\ handled' = [handled EXCEPT ![p] = Append(@, m)]
           /\ stage' = IF waits THEN [stage EXCEPT ![d] = "replying"] ELSE stage
           /\ turn' = IF waits THEN [turn EXCEPT ![d] = ReplyTo(Len(handled'[p]))] ELSE turn
    /\ calls' = [calls EXCEPT ![p] = Tail(@)]
    /\ UNCHANGED <<clock, settings, inbox, pos, cache, queue, acked, queued, told, dropped, faults>>

\* It answers with an error, before or after the message had its effect (the
\* statement that fails may come after others that are committed).
HandleFails(p) ==
    /\ calls[p] # <<>>
    /\ Fault
    /\ LET d == Head(calls[p])[1]
           m == Head(calls[p])[2]
       IN  /\ \E effect \in BOOLEAN :
                 handled' = IF effect THEN [handled EXCEPT ![p] = Append(@, m)] ELSE handled
           /\ IF stage[d] = "calling"
              THEN FailDelivery(d)
              ELSE UNCHANGED <<stage, cache, queue, forgotten>>
    /\ calls' = [calls EXCEPT ![p] = Tail(@)]
    /\ UNCHANGED <<clock, settings, inbox, pos, turn, acked, queued, told, tooOld, elsewhere, rushed>>

-----------------------------------------------------------------------------
Process(d) == Drop(d) \/ Enqueue(d) \/ Call(d) \/ SendReply(d) \/ Answer(d)

Next ==
    \/ \E d \in Delivery : Deliver(d) \/ Refuse(d) \/ Process(d) \/ Timeout(d) \/ SendFails(d)
    \/ \E p \in Phone : Handle(p) \/ HandleFails(p)
    \/ Reconfigure \/ Restore
    \/ Tick \/ Crash

Spec == Init /\ [][Next]_vars

\* Time passes, the staff restores the settings of the app, Meta delivers until
\* it is answered, the gateway goes on and calls to the backend are answered (or
\* time out): no order among these is assumed, only that something goes on.
GoesOn ==
    \/ Tick \/ Restore
    \/ \E d \in Delivery : Deliver(d) \/ Process(d)
    \/ \E p \in Phone : Handle(p)

FairSpec == Spec /\ WF_vars(GoesOn)

-----------------------------------------------------------------------------
(* Properties                                                              *)

TimesHandled(m) == Cardinality({i \in DOMAIN handled[From[m]] : handled[From[m]][i] = m})

\* However often Meta delivers a message, the conversation handles it once,
\* and once more for each time its mark was lost or taken back: the mark lasts
\* until the message is too old to be accepted (ttlMs = maxAgeMs). A message
\* without a timestamp is never too old; it is handled again when its mark has
\* run out, hence no oftener than a mark runs out.
HandledOncePerMark ==
    \A m \in Message :
        LET again == TimesHandled(m) - (1 + forgotten[m])
        IN  again <= 0 \/ (m \notin Dated /\ again * MaxAge < clock)

\* A phone receives the replies in the order in which the conversation handled
\* its messages, one after the other, and of each reply a beginning; without
\* failures they are handled in the order in which they came, also when they
\* came in batches handled side by side.
AnsweredInOrder ==
    \A p \in Phone :
        /\ faults = 0 => IsPrefix(handled[p], queued[p])
        /\ \A i \in DOMAIN told[p] :
              /\ \/ told[p][i].sent = 1
                 \/ i > 1 /\ told[p][i] = [told[p][i - 1] EXCEPT !.sent = @ + 1]
              /\ i > 1 => told[p][i - 1].of <= told[p][i].of

Done(b) == \A m \in MessagesOf[b] :
               TimesHandled(m) > 0 \/ m \in tooOld \/ m \in elsewhere

\* Meta is told that a batch is done only when each of its messages reached
\* the conversation, was too old or found the settings of another number,
\* provided that it repeats a message only after the answer to the delivery
\* before.
AckedIsHandled == \A b \in acked \ rushed : Done(b)

\* Every batch that Meta repeats until it is answered is acknowledged in the
\* end; no failure leaves a phone's queue stuck.
EventuallyAcked == <>(Batch \subseteq acked \cup rushed)

=============================================================================

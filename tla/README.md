# Verification of ProconChat

ProconChat is the WhatsApp service of the Procon of Jacareí: a citizen writes to
a number, an automatic conversation leads through categories and questions to an
answer, and, if that does not settle the matter, to an appointment; the staff
follow the appointments in a web panel. This directory holds TLA+ models of the
parts of it whose correctness depends on order, concurrency and failure, the TLC
runs that check them on small instances, and TLAPS proofs of what matters most
for every instance.

Paths below are relative to the repository (`PROJECT.json` writes them with one
more `src/` in front). `B` stands for `src/backend`, `G` for `src/gateway`, `F`
for `src/frontend/src`.

## 1. Inventory

### How the parts work together

```
 citizen -- Meta Cloud API --> gateway ----------------> backend ---------> PostgreSQL
               (webhook,        signature, marks,        phone lock,        Sessions
                repeated        phone queue, backend     conversation       ConversationEvents
                until 200)      call with timeout,       flow, booking      Appointments
                                replies                   ^   |   ^         AppointmentEvents
                                   |   ^                  |   |   |         WhatsAppSettings
                                   |   | reload notice    |   |   |         Users
                                   +---+------------------+   |   +-- sweep of abandoned sessions
                                    configuration             |       (timer, every minute)
                                                        panel in the browser
                                    (session and its renewal, list and detail of appointments,
                                     WhatsApp settings)
 deploy: migrate, then seed, then backend -------------------------------> PostgreSQL
```

| Part | State | Operations | Talks to | Correct when |
|---|---|---|---|---|
| Webhook processing (`G/services/whatsappWebhook.service.ts`, `messageDeduplicator.ts`, `controllers/whatsappWebhook.controller.ts`, `clients/backend.client.ts`, `gateways/cloudApi.gateway.ts`) | marks of seen messages with their time; deliveries that are running | check the signature, find the messages for our number, drop duplicates and old ones, queue by phone, call the backend with a timeout, send replies, answer 200 or an error, crash | Meta, phone queue, configuration store, backend | a batch answered 200 reached the conversation; nothing is handled twice under one mark; a phone gets its replies in turn |
| Queues by phone (`G/services/phoneQueue.ts`, its twin `createPhoneLock` in `B/services/conversationFlow.service.ts`) | map from phone to the last promise | run a task after the previous one of the phone | webhook, conversation flow | one task of a phone at a time, in order of arrival; the map does not grow; a failing task stops nobody |
| Conversation flow (`B/services/conversationFlow.service.ts`, `schedulingFlow.service.ts`, `conversationClosing.service.ts`, `scheduleOfferReason.ts`) | the open row of `Sessions` of the phone, its events | one handler per step, from the categories to the choice of a slot | session and event repositories, booking | one outcome per conversation; the citizen reads what the row says; the trail of events matches the steps |
| Lists of the conversation (`B/services/messageFormatter.service.ts`, the list handlers) | step and page of the session | show a page, read a number or a tapped row against the list as it is now | flow, catalogue, offer of slots | each item reached, and what was tapped is what happens |
| Session repository (`B/repositories/session.repository.ts`) | `Sessions` | find or create, navigate, touch, finish, sweep | flow, booking, sweep | a closed session never changes |
| Conversation events (`B/services/conversationEvent.service.ts`, `B/utils/conversationEventData.ts`) | `ConversationEvents` | record (a failure is logged only), list | flow, detail of an appointment | what is recorded is admitted by the table and read back as meant |
| Sweep (`B/services/abandonedSessionsSweep.service.ts`) | flag `running` | tick | session repository | every silent session is closed in the end |
| Booking transaction (`B/repositories/schedule.repository.ts`) | `Appointments`, advisory lock per slot | lock, count, check CPF, insert, finish session, commit, roll back | session repository | no overselling, no CPF twice in a slot, session and appointment together |
| Offer of slots (`B/services/schedule.service.ts`) | none | compute the grid of free slots | booking counts | exactly the slots that can be booked |
| Appointment actions (`B/services/appointmentTransitions.ts`, `appointment.service.ts`, `B/repositories/appointment.repository.ts`) | a row of `Appointments`, its `AppointmentEvents` | claim, attended, no-show, detail | panel | the history is lawful and tells status and responsible |
| Appointment list (the list query of the same files, `F/pages/hooks/useAppointments.ts`, `useAppointmentSearch.ts`) | URL, cache of lists, search term, claims under way | filter, sort, page, search, claim | backend | rows belong to the filters on screen; claims show; the page comes to rest |
| Detail of an appointment (`F/pages/hooks/useAppointmentDetail.ts`, `useAppointmentActions.ts`, `F/store/api/appointments.api.ts`) | cached detail, dialog, message | open, retry, act, confirm, read again | backend | the screen catches up with what was answered |
| Configuration store (`G/services/whatsappConfigStore.ts`) | cached configuration, age, staleness, generation, shared fetch | load, invalidate | backend (`GET` configuration, reload notice) | after a notice nobody gets the old configuration |
| WhatsApp settings (`B/services/whatsappSettings.service.ts`) and their page (`F/pages/hooks/useWhatsAppSettings.ts`) | the row of settings; draft, test results and their signature | read, test, save, notify, pause | Meta Graph, gateway | what is marked valid was accepted by Meta |
| Accounts (`B/services/auth.service.ts`, `middleware/auth.middleware.ts`, `F/services/http/*.ts`) | users with a session version; the cookies of a browser | login, refresh, logout, change and reset of the password, shared renewal | panel | an old session ends with a password change; a good one is not lost |
| Schema, seeds, deployment (`B/db/migrations`, `B/db/seeds`, `deploy/deploy.sh`, `compose.prod.yaml`) | the tables and what earlier programs wrote in them | migrate, take back, seed, start the backend | PostgreSQL, the programs that still run | rows keep their meaning, panel edits stay, the backend finds what it needs |
| Login attempt counter, HTTP shell, CPF and crypto helpers, language model, other pages | small, pure or external | – | – | not modelled, see section 7 |

### What is hard about it

* **Concurrent transactions.** Two conversations and the staff act on one slot;
  the sweep may close a session in the middle of its booking; two members of the
  staff act on one appointment.
* **Writes without a transaction.** A handler of the conversation records
  events, navigates and replies in separate statements; the process can die
  between any two, and a lost event is only logged.
* **A slow call between reading and writing.** A save or test of the settings
  reads the row, asks Meta, and writes by what it read.
* **Messages that come again.** Meta repeats a batch until it is answered 200,
  also while the first delivery still runs; the gateway gives up on a call that
  the backend goes on serving; a restart forgets all marks.
* **Answers that come late, or not at all.** A fetch that began before a reload
  notice answers after it; a list that was read before a claim arrives after it;
  a test of credentials returns to a form that was edited meanwhile; a cookie is
  set by an answer that was overtaken; the answer to COMMIT is lost.
* **Lists that stay in the chat.** A row shown long ago may be tapped when the
  conversation has moved on and the list has changed.
* **Rows of earlier programs.** Migrations convert what programs of several
  versions wrote, are taken back, and run while a program still writes.

`PROJECT.json` lists each hazard at its line with the properties that watch it.

## 2. Plan

| Order | Module | What | State |
|---|---|---|---|
| 1 | `SlotLedger` | abstract: atomic bookings, closings and status changes | done |
| 2 | `SlotBooking` | the transaction, statement by statement; implements `SlotLedger` | done, proved |
| 3 | `ConversationFlow` | all handlers as scripts of statements with failures | done, proved |
| 4 | `TurnTaking`, `PhoneQueue` | abstract turns; the promise chain that implements them | done, proved |
| 5 | `CloudApi`, `WebhookDelivery` | what a body holds; deliveries, marks, queue, timeout, changed settings, crash | done, proved |
| 6 | `ConfigStore` | cache with generations and reload notices | done, proved |
| 7 | `AppointmentLifecycle` | staff actions under the row lock, and the detail read | done, proved |
| 8 | `AppointmentDetail` | the page that shows one and acts on it; implements the life cycle | done, proved |
| 9 | `AppointmentList` | the list query and its page | done, proved |
| 10 | `WhatsAppSettings`, `SettingsForm` | save, test and pause across the call to Meta; the form | done, proved |
| 11 | `AccountSessions` | accounts, tokens, cookies, shared renewal | done, proved |
| 12 | `ListPages`, `SlotOffer`, `CitizenMenus` | pages and slots against reference definitions, in the conversation that shows them | done, proved |
| 13 | `ConversationEventData`, `Timeline`, `SchemaMigrations`, `ContentSeed`, `Deployment` | rows across versions and as the panel shows them, the seed, the deploy | done, proved |
| 14 | proofs for `ConversationFlow` | its five invariants and `ClosedIsFinal` | done |
| 15 | proof of `SteadySessionIsKept` | of which requests are repeated with which cookie | done |
| 16 | proofs for `Deployment` | its five invariants | done |
| 17 | proofs for `CitizenMenus` | what the functions of `ListPages` and `SlotOffer` return, and its three invariants | done |

Compositions. `SlotBooking` and `ConversationFlow` meet in one action each way
(the flow takes the booking as one atomic step, which `ImplementsLedger`
justifies; the booking takes the rest of the conversation as the choice of a
slot). `CitizenMenus` takes the steps between a question and the slots as one,
and composes `ListPages` and `SlotOffer`. `WebhookDelivery` uses turn taking by
phone as one guard, which `ImplementsTurns` justifies, and parses by `CloudApi`.
`SettingsForm` runs the requests of `WhatsAppSettings`, `AppointmentDetail` those
of `AppointmentLifecycle`, and `Deployment` runs `SchemaMigrations` (over
`ConversationEventData`) and `ContentSeed` beside the programs that write.

## 3. The modules

### `SlotLedger`, `SlotBooking`

State: where each conversation stands in the handler and its transaction (`pc`,
from which what it has written but not committed follows), the slot it wants and
the CPF of its draft, the committed outcome in `Sessions` and status in
`Appointments`, the holder of the advisory lock of each slot, whether the sweep
may take the session (`idle`), the phase of each slot (future, today, past), and
what the citizen was told.

| Action | Code |
|---|---|
| `ChooseSlot`, `ShowSlotsAgain` | `handleAwaitingSlot`: the chosen number is read against a fresh list |
| `LockSlot` | `pg_advisory_xact_lock` for the slot |
| `CountSeats`, `CheckCpf` | the two reads after it, with their rollbacks |
| `InsertAppointment`, `FinishSession` | the writes; `FinishSession` waits for the row and fails unless it is open |
| `Commit` | COMMIT, whose answer may be lost |
| `FailBooking`, `AfterSlotFull` | what the handler does with each error |
| `Abandon`, `GrowIdle` | the sweep, one UPDATE over open sessions that are silent |
| `Claim`, `Attended`, `NoShow` | the staff, who free a seat when they record |

Under READ COMMITTED a statement sees what was committed before it started, so
every statement is an action. `SlotLedger` is what the transaction promises: a
booking takes the session, the seat and the CPF at once.

### `ConversationFlow`

One phone and its conversations in a row. A handler is a *script*: a sequence of
statements (navigate, record an event, touch, close, book, reply). `Receive` runs
`findOrCreateActive` and picks a script of the step the row is at; each
statement is an action; `Abort` kills the handler before any of them. `Scripts`
has one alternative per way through each handler, so that every order of writes
in the code is there and no other. Questions are three kinds (answered by text,
by an appointment, outside the competence of the Procon), pages of a list
belong to their step, and names, CPFs and texts are one value each.
The sweep beside it has the timer (`SweepTick`), the UPDATE (`Sweep`, or
`SweepFails`) and the `finally` that clears its flag (`ClearRunning`) as four
actions; the timer does nothing while the flag is set.

### `ListPages`, `SlotOffer`, `CitizenMenus`

`ListPages` is `paginate` with the two rows that the pages themselves take, and
the checks of `outgoingMessage.validation.ts`. `SlotOffer` is the grid: ranges of
the weekdays cut into slots, minus blocks, past, notice, window and full slots;
beside it `Bookable` states, slot by slot, what may be booked, and `OfferIsExact`
compares the two. `CitizenMenus` is the conversation from the categories to the
questions and at the list of slots: the session keeps step and page, the list is
read again for every message, and every row ever shown may still be tapped.
`Booked` is every end of `bookChosenSlot`: an appointment, with its answer heard
or not, a slot filled meanwhile, a CPF that has an appointment (which shows the
list the slot was tapped in), another failure, and an incomplete draft.
`MeantIsDone` says that what happens is what the tapped row, or the number in the
last list shown, stood for; or the list is shown again.

### `TurnTaking`, `PhoneQueue`

`PhoneQueue` is the promise chain: `Run` takes the tail of the phone and puts
its own promise there in one synchronous step; `Start` when the promise before
it is resolved; `Finish` resolves, and removes the tail when it is still its
own. The same code is in the gateway and, as `createPhoneLock`, in the backend.
`TurnTaking` is what it promises.

### `CloudApi`, `WebhookDelivery`

`CloudApi` is the signature, the messages found in a body under the settings in
use (only text and tapped rows, only for our number), and what becomes of a
reply. In `WebhookDelivery` the messages of a batch are processed one after
another, through the mark, the age, the queue, the call (which may time out) and
the replies; an error ends the batch. The backend goes on after the gateway has
given up. The HTTP status is of the whole batch, 200 only if every message was
settled. A message whose timestamp is missing or not a number (one that is not in
`Dated`) is never too old, whenever it comes. Meta delivers again as long as it has not read a 200, also before the
first answer. The settings may be changed at any time, to wrong ones too; a
crash loses marks and running deliveries.

### `ConfigStore`

The cache with its `stale` flag, `generation` and shared `inFlight` fetch.
`Save` is the save in the panel, with the notice that follows in the same
request; `LoseNotice` is the best-effort call that fails. `LoadCached` and
`LoadFetching` are the two ways through `load`, `Answer` and `Fail` the two ends
of a fetch. A fetch `Read`s the database some time before its answer arrives.

### `AppointmentLifecycle`, `AppointmentDetail`

`AppointmentLifecycle` is one appointment and the requests of the panel. A
request takes its time when it arrives (`Ask`), then waits for the row (`Lock`,
`Refuse`); what its transaction writes becomes visible together (`Write`), or not
at all (`Fail`). The answer is a detail read by separate queries (`ReadRow`,
`ReadEvents`), between which others write. `ShownAbove` is the order of the
history in that detail. `CANCELED` is in the schema and in the decisions, but
nothing in the code sets it.

`AppointmentDetail` is the page that makes such requests, and other people who
make theirs. `Get` is a forced GET, which joins one that is pending; `Open`,
`Retry`, `Leave` mount and unmount; `Choose`, `Cancel`, `Confirm` are the dialog;
`HearDone`, `HearFailed`, `HearGet` are the ends of requests as the browser hears
them: the answer of a PATCH is put into the cached detail, a failed PATCH makes
the page read again before it shows its message. The history variable `older`
has the requests that were under way when an action was answered: these, and
these only, may bring an older detail.

### `AppointmentList`

The service counts, then reads a page, in two queries between which others book
and claim. The page keeps filters, order and page in the URL; `SettleTerm` is the
pause after typing; `Request` starts a fetch for arguments that have none;
`ReceiveList` and `ReceiveClaim` end one, and what a claim invalidated is fetched
again once nothing is under way (`After`). A claim that the page gave up before
the service did it (`LoseClaim`, `Abandon`) may never be done, or may be done
later (`ServeLate`): to the page it is then a change made elsewhere. `Render` is the rule by which the rows
of the last list stay while another loads. `CorrectPage` is the effect that
brings a page past the end back.

### `WhatsAppSettings`, `SettingsForm`

The service as requests that read (`PrepareCheck`), ask Meta twice
(`CheckConnection`, `InspectAccessToken`) and write (`RecordCredentialsCheck`,
`SaveCredentials`, then `NotifyGateway`). `SavedRow` is the UPDATE with its
COALESCEs: which columns come from the request, which from the row that is there
now. The page adds the view, the draft, the results of tests with the signature
of what was tested, and the switch that pauses the replies. A save of another
window may fall anywhere.

### `AccountSessions`

An account is its password and session version; a session is the version its
token carries, with the password it was opened by, which no code reads. `Login`,
`ChangePassword`, `Logout`, `Refresh` and the reset by script are the server's
steps, `Receive...` the browser's, with one jar of cookies for all tabs. A call
refused with 401 waits for the renewal of its tab and is then repeated once.

### `ConversationEventData`, `Timeline`, `SchemaMigrations`, `ContentSeed`, `Deployment`

`ConversationEventData` is the builder and the reader of event rows in
TypeScript, and beside it the CHECKs in SQL. `Timeline` is what becomes of such a
row on the page of an appointment: the backend adds the titles of its category
and question, and the panel chooses texts by fields it reads from an untyped
record. `EventsReadAsMeant` follows an event all the way: recorded by one version,
migrated by another, checked, read, and shown as what it says. `SchemaMigrations` runs migrations
11, 12 and 13 statement by statement over one row of each table, in one
transaction that takes locks as it goes; rows were written by programs of any
earlier version from 10 on (`OldWrites`), or by this one (`NewWrites`); `Rollback`
takes them back. The schema may rest at 10, 11, 12 and the latest version, for an
operator may migrate by hand to any of them, or back.
`ContentSeed` is the seed's transaction, row by row, beside the panel: the
documents of a question are read in one statement and replaced in the next ones,
and what the panel saves in between may stay beside them. `Deployment` is
`deploy.sh` and compose: migrate, seed, backend, each after the one before
succeeded; deploys that fail and are repeated; migrations by hand, up and down,
as long as a deploy can follow.
Questions are looked at twice: in `SchemaMigrations` for their short title, in
`ContentSeed` for the texts that are filed.

## 4. The runs

All but two cfgs have `CHECK_DEADLOCK FALSE`: conversations, calls, batches and
clocks are bounded, and a behaviour that has used them up stops. In
`MCSettingsForm` and `MCAccountSessions` the user always has something to do, and
TLC checks that nothing gets stuck.

| Run | Bounds | Shows |
|---|---|---|
| `MCSlotBooking` | 2 conversations, 2 CPFs, 2 slots of 1 seat | no overselling; outcome and appointment together; confirmations true; `ImplementsLedger`; every transaction that waits for a slot ends |
| `MCConversationFlow` | 1 conversation, 8 events, 1 upset (an event lost or a question changed) | rows, trail, told and reason agree |
| `MCConversationAgain` | 2 conversations of a phone, 4 events each way | closed is final, silent is closed |
| `MCPhoneQueue` | 3 calls of one phone, 2 of another | one at a time, in order, and all of them run |
| `MCWebhookDelivery` | 2 batches with 3 messages of 2 phones, 2 deliveries each, one message without a timestamp, 3 settings, 1 fault, clock to 3 | handled once per mark, answered in order, a 200 means handled, and all is acknowledged in the end |
| `MCConfigStore` | 2 requests, 2 fetches, 2 versions, TTL and timeout of 1 | late answers never undo a notice; a lost notice has a limit; the new configuration is loaded in the end |
| `MCAppointmentDetail` | 3 requests of the page, 1 of somebody else, 1 failure, clock to 1 | lawful history, whole details, the screen catches up, the dialog closes |
| `MCAppointmentList` | 2 appointments on pages of 1, 2 filters, 1 term, 3 moves of the user or of others, claims done late | rows of the filters on screen, claims shown, the page comes to rest |
| `MCSettingsForm` | 1 page and another window, 2 numbers, 2 tokens, 2 edits of secrets | valid means accepted by Meta; a save is offered for tested values only |
| `MCAccountSessions` | 2 tabs, 3 calls, 2 passwords, 1 change, with symmetry | old sessions end with the password; good ones are kept |
| `MCCitizenMenus` | lists of 4 rows, 7 categories, 5 schedules, 3 times, 5 messages, bookings with every outcome | every list can be sent and reaches every item; what was meant is done; the offer is exact |
| `MCDeployment` | 7 kinds of events, 1 row of each table, 3 writes, 2 deploys, 1 rollback (to 10, 11 or 12), migrations by hand to 11, 12 or the latest before the last deploy, 2 seeds, 2 edits | rows keep their meaning and their end, refusals have a reason, edits stay, the backend finds schema and content |

Why these bounds are enough to see what may go wrong:

* Two conversations that may want the same single seat or different ones, and
  may choose again, are the least in which one must be turned away, wait for the
  other's lock, or be swept in the middle of its transaction. More seats and
  more conversations are what `SeatsTheorem` and `CpfTheorem` are for.
* Eight events lead from the greeting through either kind of offer to the list
  of slots; one upset is enough for a loss anywhere, and handlers may die
  without bound. Two conversations of one phone are needed for what is closed to
  be opened again; they are kept short.
* A third call of a phone comes between the end of the last and the removal of
  its tail; a second phone shows that phones do not wait for each other.
* Two deliveries of a batch overlap or follow each other; with `MaxAge = 2` and
  the clock at 3 a mark can run out, and a message can grow too old or, without a
  timestamp, come when its mark has run out. Three
  settings are the right ones, a wrong secret and a wrong number.
* Two fetches and two versions let the older fetch answer last.
* A GET, an action, and a second one from a later visit of the page, with a
  request of somebody else that makes one of them refused; a no-show is possible
  only after a tick, so that a page can be older than its hour.
* One appointment more than fits a page makes a second page, which a claim
  under the filter of the pending ones empties.
* Meta takes the second token for the first number only, so that values of two
  saves may be mixed into a triple nobody tested; two edits bring the form back
  to values it had.
* Two tabs are needed for one to renew with a cookie the other replaced; one
  change of the password makes a version old.
* With four rows, seven categories are a first, a middle and a last page; four
  questions fill one page and five need two. The schedules have a window, a
  notice, whole days and parts blocked, and a rest that holds no slot; the times
  lie before, at and after the first slot.
* The rows that migrations convert do not depend on each other, so one of each
  table is enough; three writes may fall before, in and after the migrations.
  The content has a question filed twice and one not yet filed.

The bounds that TLC needs are named in the cfgs (`Max...`, `Deliveries`). None of
them stands for a limit in the code, but for `MaxAge`, `Ttl` and `Timeout`, which
are its durations in units of the models' clocks; `Rows` is 10 in the code.

Each property of a run has a *variant* of a definition with a plausible slip of
the code (`Lock_NoForUpdate`, `Bounds_SkipsOne`, `Repeat_OldCookie`, ...).
`PROJECT.json` pairs them under "mutants"; with the variant in place of the
definition the property fails.

## 5. Fairness

* `SlotBooking`: a statement that was sent is answered or fails, and PostgreSQL
  grants locks in the order of the requests, hence strong fairness of taking a
  lock and weak fairness of the rest of a transaction.
* `ConversationFlow`: the timer of the sweep fires again and again, the clock
  goes on, and a database that keeps failing is not assumed away but for the
  sweep in the long run (strong fairness of a sweep that succeeds). The `finally` of
  a sweep runs after it has ended, well or badly.
* `PhoneQueue`: the event loop runs every continuation whose promise is
  resolved, and a task settles (`fetch` has a timeout; a handler that fails
  throws).
* `WebhookDelivery`: something goes on (`GoesOn`: a running delivery, the
  backend, or Meta, which repeats a batch without a 200). Crashes and failures
  are bounded by `MaxFaults`, changes of the settings by leading back to the
  right ones.
* `ConfigStore`: the clock goes on, requests keep coming, and a fetch ends, if
  need be by its timeout; it succeeds now and then.
* `AppointmentDetail`: the server goes on with some request it was sent, and the
  browser hears the end of one that is over. As the requests are finitely many
  this is enough; no order among those that wait for the row is assumed.
* `AppointmentList`: service and browser go on, the pause after typing ends, and
  the effect on the page runs after the render.
* The other modules state safety only and assume nothing.

Nothing is assumed of citizens and staff elsewhere: none of them has to write, or
to act. The exception is the store: its requests come with the messages of
citizens, and `EventuallyReloaded` says of a gateway that gets messages that it
loads the new configuration.

## 6. What is proved

The proofs are checked by TLAPS, for every value of the constants that meets the
assumption of the module.

| Module | Assumption | Theorems |
|---|---|---|
| `SlotBookingProofs` | `BookingAssumption` | `Invariance`, `SeatsTheorem`, `CpfTheorem`, `OutcomeTheorem`, `ConfirmationTheorem`, `Refinement` |
| the same, of the menus (`CitizenMenus`) | `RowsAssumption`, `DayAssumption`, `MenusAssumption` | `MenusInvariance`, `MenusTypeTheorem`, `MeantTheorem`, `PagesTheorem`, `OfferTheorem` |
| `ConversationProofs` | `FlowAssumption` | `FlowInvariance`, `FlowTypeCorrect`, `OneOutcomeTheorem`, `RowCompleteTheorem`, `ReasonAsOfferedTheorem`, `ToldMatchesRowTheorem`, `TrailFollowsStepsTheorem`, `ClosedIsFinalTheorem` |
| the same, of the lock (`PhoneQueue`) | `QueueAssumption` | `LockInvariance`, `OneAtATimeTheorem`, `MapTheorem`, `TurnsTheorem` |
| `ConfigStoreProofs` | `StoreAssumption` | `StoreInvariance`, `ServedTheorem`, `StaleTheorem` |
| `WebhookProofs` | `DeliveryAssumption` | `WebhookInvariance`, `TypeCorrect`, `MarkedOnceHandledOnce`, `RepliesComeInOrder`, `AcknowledgedIsDone` |
| `AppointmentProofs` | `LifecycleAssumption`, for the page also `PageAssumption` | `LifecycleInvariance`, `HistoryTheorem`, `DetailTheorem`, `NewestFirstTheorem`, `ResponsibleTheorem`, `PageImplements`, `PageInvariance`, `ScreenTheorem` |
| `SettingsFormProofs` | those of `WhatsAppSettings` and `SettingsForm` | `FormInvariance`, `TypeCorrect`, `AcceptedOnly`, `TestedBeforeSaved` |
| `PanelProofs` | that of `AccountSessions` | `TypeCorrect`, `SessionsKnowThePassword`, `SteadySessionTheorem` |
| the same, of the list | those of `AppointmentList` | `ListInvariance`, `ListTypeCorrect`, `RowsBelong`, `FreshAfter` |
| `DeploymentProofs` | `MigrationAssumption`, `SeedAssumption`, `DeployAssumption` | `DeploymentInvariant`, `RefusedTheorem`, `SessionsTheorem`, `EventsTheorem`, `PanelEditsTheorem`, `ServesTheorem` |

Each rests on one inductive invariant, checked by TLC before it was proved, and
the other theorems follow from it.

* **Booking.** `SeatsRespected` alone is not inductive: a conversation that has
  counted must know that the count still holds when it commits. `IInv` adds who
  holds which lock at which stage, that a count below the number of seats stays
  true while its lock is held, that a CPF read as free stays free, and that a row
  of `Sessions` touched by a transaction is closed by nobody else. The bound on
  seats is carried over a COMMIT by facts about the cardinality of finite sets.
  `Refinement` maps `CountSeats` to `FinishSession` to stutters and `Commit` to
  the atomic booking of `SlotLedger`.
* **Menus.** The pages and slots shown come from loops over rows, ranges and
  days, modelled as recursive functions, so that something must be proved about
  them for lists of every length and schedules of every size. The induction is
  done over sets (`LeastNat`: a set of naturals that is not empty has a least
  member, from the well-foundedness of `<`), and a recursive function is shown to
  meet its equations by building one that does (`Recursion`, `Upward`). On these
  rest `KeptFacts` (what a filter keeps), `BoundsFacts` and `PagesJoin` (the pages
  follow each other without a gap, each with room for its rows), `NumberMeansRow`,
  `FirstDayFacts` (the loop over the days of the notice counts business days) and
  `OfferFacts`. `OfferTheorem` and the part of `PagesTheorem` on the pages follow
  from these for every well typed state; `MeantIsDone` needs the inductive
  `MenusInv`: at a menu the list last sent is the one the session would show
  now, so that the number typed means the row that was read. It holds of
  categories and questions only: the list of slots changes while it is read, and
  no number is taken there. `IsSchedule` asks that the ranges of
  a weekday follow each other, which the checks of the table
  (`B/db/migrations/11_sprint2_schema.sql:320`) do not enforce: the seed
  (`B/db/seeds/data/configuracao-inicial.data.ts`) is the only writer, and its
  two ranges a day do. The rest are checks of the tables and primary keys.
* **Conversation.** A handler read the row long before it writes it, so no
  property of rows is inductive alone: what the rest of the script will do must be
  known to fit the row as it is now. `Inv` says that only the latest session can be
  open and that it is the one being handled (`OneOpen`), hence that the row is
  written by its script, or closed by the sweep, after which any script fits. A
  script leads an open row to the step of its answer, with the data that step
  needs (`LeadsThere`); the last event it records is the one before that step
  (`LeavesTrail`); one write of the row comes after all events of a choice or an
  offer, and agrees with them (`KeepsReason`). For `ReasonAsOffered` the reason
  must be known in two places (`Agrees`): by the events if none is lost, by the
  question if none was changed, and with one event lost the events name that
  reason or none, never another. `ScriptsFit` shows that each script of each
  handler fits the row it was made for, and the lemmas on the rest of a script
  that each statement, written or failed, leaves one that fits. Among what this
  proves for every catalogue: the branch of `bookChosenSlot` that starts over
  because of an incomplete draft is never taken.
* **Queue.** The calls of a phone form a chain: each waits for the promise of
  the one before it, only the last is in the map. `IInv` says that the order of
  arrival and the chain of promises agree.
* **Webhook.** The assumption says that the messages of a batch, as parsed under
  any settings, are messages of the model, and that Meta signs with the secret of
  the right settings; nothing is assumed of how bodies, phones and batches
  overlap. A delivery may take part of a batch only because the settings changed
  meanwhile; `elsewhere` records those it left out. The invariant has a part for
  each thing that could go wrong. `QueueInv`: exactly the deliveries in line are
  in the queue of the phone of their message, once. `CallsInv`: a delivery has at
  most one call at the backend, also after it has given up. `MarkInv`: a mark
  belongs to one delivery that is at its message, or the message was handled or
  too old. `CountInv` is what makes `HandledOncePerMark` inductive: what was
  handled *and what may still be* are covered by marks, so that a mark taken back
  after a timeout, while the call goes on, is counted for the second handling it
  permits. A message without a timestamp may be handled again after its mark has
  run out; the invariant counts how often marks can have run out by now
  (`RanOut`). `DeliveryInv`: what a delivery has behind it is settled, unless another
  one with the same message ran beside it; such a batch is in `rushed`, and a 200
  for it means less (section 8, 2). `OrderInv`: without failures what was handled
  and what waits is, in this order, what came. `ToldInv`: what a phone was sent is
  a beginning of each reply, replies in the order of handling.
* **Store.** `IInv` relates the generation a fetch started in to the notices
  since, and the age of what is cached to the clock. With it, a fetch of the
  current generation has read what the last notice announced.
* **Appointment.** Under the row lock the decision stays valid until COMMIT
  (`LockDiscipline`); the history determines the row (`LawfulHistory`); and what
  was read of it is a part of what is there (`SeenIsPast`), for events are only
  added. `TimesInOrder` gives the order of the history.
* **Detail.** `PageImplements` shows that each step of the page is a step of the
  life cycle, so that its theorems hold with the page. `ScreenCatchesUp` needs
  two facts more. What was asked for after an action was heard reads what the
  action did (`ReadAfterwards`). And a refusal is for good (`RefusedForGood`): the
  page asks no earlier than its buttons allowed by the clock, so that a refusal
  means that the status was closed to the action, and a closed status never
  opens again (`ClosedKept`).
* **Settings.** A request carries the row it read over its calls to Meta; the
  invariant says which triples it may write back. With the signature of a test it
  says of the form that what a save sends was accepted as sent.
* **Accounts.** A session of the current version was opened with the current
  password, wherever it is: in a cookie, in a request, in an answer on its way.
  `SteadySessionIsKept` rests on `KeptInv`: a renewal that was granted gave a
  session no older than the renewal, a request that waits is no younger than the
  renewal it waits for, and so a repeated request is refused again only if the
  account has changed since the request was sent.
* **List.** A list in the cache that is not marked for a new fetch was read
  after the claims whose answer was heard; what is kept on screen belongs to the
  same filters and term.

* **Deployment.** The assumptions say of the recorded events that they have the
  fields of their type, and of the filed content that no key is filed twice and a
  question comes after its category; what is there before the first seed are rows
  without a key, as the program before left them. Nothing is assumed of how many
  rows there are or who writes when. The invariant has three parts.
  `MigrationInv` takes the statements of the three migrations as one list and
  says, for each place in it, what a session, a question and an event are before
  that statement (`SessionAt`, `QuestionAt`, `EventAt`): which columns they have,
  what the program that wrote them meant, and which checks they pass. A committed
  row is at the start of a version's script, a row in the view of a transaction
  that runs is at its next statement, and a write that comes beside it touches
  only what the locks of the statements so far leave open. `StageInv` says which
  of runner, seed and program stands still while another goes on. `SeedInv` says
  what the items behind the seed have become (`SeedProgress`), that a key or a
  title and its category lead to one row (`Table`), what of a saved row a seed at
  work may still write (`OwnedInv`), and that the content stays filed after a
  commit whatever the panel saves (`FiledInv`). `EventsReadAsMeant` needs besides
  that a row that meets the check of migration 13 and was written with the old
  keys is the row of today's keys (`BuiltIsLeft`), that a row is read back as the
  event it was built from (`ReadBack`), and that two events the page shows alike
  are of one type and say the same (`Shown`), each for every event.

Only model-checked: liveness (`BookingAnswered`, `SilentIsClosed`,
`EveryCallRuns`, `EventuallyAcked`, `EventuallyReloaded`, `DialogCloses`,
`ListSettles`), which the installed provers cannot do under fairness. Every
invariant and every action property of the runs is stated by a theorem, and so
are the two refinements.

## 7. What is not modelled, and why

* **Texts.** Wording is left out, and what a citizen types is the choice it
  makes, but for numbers and rows of lists (`CitizenMenus`).
* **Login attempt counter**: a table in memory with two windows by time. Attempts
  side by side pass its check together, at most as many as are in progress; the
  rest of it is arithmetic that tests with a fake clock cover.
* **CPF digits, encryption, hashing, policy of passwords**: functions of one
  value, or calls of a library.
* **Explanations by a language model**: in the repository, but not called by the
  conversation (its events say `NOT_CALLED`).
* **HTTP shell**: routing, error bodies, logs, health, start-up checks.
* **Of the panel**: menus, translations, forms without state of their own; on the
  list, the counts on the filters and the dropping of unused cache entries after a
  minute (a page that is opened again starts from its URL); on the detail, the
  answers 403 and 404, other people's reading, and the same dropping.
* **Of the catalogue**: its pages in the panel have no code yet; their effect on
  rows is external in `ContentSeed`.
* **Of the deployment**: the build of images, the backup, the reverse proxy; a
  backend of the old image may be up through a deploy, which is the program that
  writes beside the migrations in `SchemaMigrations`.
* **PostgreSQL, Meta, RTK Query, the browser's cookies, the clock**: modelled
  from how the code uses them. A transaction is READ COMMITTED, `FOR UPDATE` and
  the advisory lock exclude each other, and an unfinished transaction of a lost
  connection is rolled back. RTK Query has one request at a time for each
  argument and takes the answer of the last one started.

* **Data that the properties do not tell apart.** The checks of migration 11 on
  the length of answers and such, and those on categories (on questions, those of
  the titles are modelled); the numbers that `idFromColumn` makes of the strings
  of a `BIGINT` column, the same ids as long as they are safe integers
  (`B/utils/conversationEventData.ts:218`); all but two instants of the dates in
  events; the reasons that Meta gives.
* **Steps taken together.** `BackfillOrInsert` reads the rows without a key and
  sets the key of one in one step, though the code has two statements
  (`B/db/seeds/content.seed.ts:48`, `:57`). A panel save between them needs a
  backend that serves while an item has no key, and `ServesFiledContent` says
  that there is none.

Two things the models show without a property of their own: `ATTENDED` is allowed
from the start of the day of the appointment (`B/services/appointmentTransitions.ts:56`),
so that a seat of a slot later that day is offered again; and a handler that dies
after `findOrCreateActive` and before its reply
(`B/services/conversationFlow.service.ts:707`) leaves a conversation whose citizen
has not read the list that the next message will be read against.

## 8. Where code and documents disagree, and what to know

These came up while modelling; the models take the step in each case, and the
properties say what holds in spite of it.

1. **Nothing saved after a failure.** The documents promise it
   (`.docs/sprints/sprint2/fluxo-conversa.md`, the backend's README). If the answer to COMMIT is
   lost, the appointment exists and the citizen reads that it does not
   (`B/repositories/schedule.repository.ts:243`). The session is closed as
   scheduled, so the next message opens another conversation.
2. **A failed message is free for its redelivery**, says a test of the webhook
   service. A redelivery that comes while the first call is still running is
   taken for a duplicate and answered 200
   (`G/services/whatsappWebhook.service.ts:79`); if the call fails then, nobody
   delivers the message again.
3. **Messages for another number** are acknowledged and dropped
   (`G/gateways/cloudApi.gateway.ts:174`): while the settings name a wrong number,
   messages to the right one are not repeated by Meta.
4. **The next request after a save fetches the new configuration**, says the
   gateway's README. If another notice comes during that fetch, the answer is put
   aside and the request is served the older cached one
   (`G/services/whatsappConfigStore.ts:42`).
5. **The history is newest first.** Events carry the time at which their request
   arrived, so a request that waited for the row is listed below the one it
   waited for. `NewestFirstInTurn` is what does hold, and is proved.
6. **The detail after an action.** The page is said to show the answer of the
   action. A GET that is still under way, because the page was left and opened
   again, puts its older detail on top (`F/store/api/appointments.api.ts:72`), and
   a refusal that joins such a GET shows the refused button again
   (`F/pages/hooks/useAppointmentActions.ts:95`). `ScreenCatchesUp` excepts exactly
   these.
7. **The switch beside a save.** A save that waits for its notice to the gateway
   answers with a view from before a pause, and overwrites on screen what the
   pause has answered meanwhile (`F/pages/hooks/useWhatsAppSettings.ts:292`,
   `B/services/whatsappSettings.service.ts:271`). A late test of an old token may
   write its lifetime, or that Meta refused it, beside a new one; and of two saves
   that keep the saved secret, or replace it, the later one may write back the
   secret of before, together with the ids it was accepted with
   (`B/services/whatsappSettings.service.ts:255`). What holds is `SavedWasAccepted`.
8. **Renewal.** A refresh with an old cookie that answers 401 late clears the
   cookies of a newer login (`B/controllers/auth.controller.ts:56`); one that is
   answered after a logout sets the access cookie again. These are two of the
   reasons that `SteadySessionIsKept` names.
9. **Rows edited in the panel are not touched by the seed**, says its README. The
   documents of a question that is edited while the seed runs are rewritten all
   the same, or stay mixed with the filed ones (`B/db/seeds/content.seed.ts:97`,
   `:189`). After a migration back below 11
   the mark of the edit (`updated_by`) is gone and the next seed overwrites it;
   and the seed fails there, for the Admin of the same `ROOT_EMAIL` exists.
10. **Migration 11** checks that there are no appointments, and drops the table
    some statements later without a lock in between: one that is inserted there
    is lost.
11. **Messages without a timestamp.** Such a message has no age
    (`G/services/whatsappWebhook.service.ts:84`, and line 169 of its test): when
    it comes again after its mark has run out, it is handled again.
    `HandledOncePerMark` bounds how often.

## 9. Running it

```
tlc -workers 2 -config MCSlotBooking.cfg MCSlotBooking
tlapm SlotBookingProofs.tla
```

A run's name is that of its cfg; `PROJECT.json` names its module.

---------------------------- MODULE CitizenMenus ----------------------------
(***************************************************************************)
(* The lists a citizen chooses from: categories, the questions of one, and *)
(* the free slots.  The session keeps the step and the page; every message *)
(* of the citizen is answered against the list as it is now, read again.   *)
(* Lists stay in the chat: a row of any of them may be tapped later.       *)
(*                                                                         *)
(* The steps between a question and the slots, and what they write, are    *)
(* module ConversationFlow; here they are one step, OTHER.  Messages of a  *)
(* phone are handled one at a time (module PhoneQueue).                    *)
(***************************************************************************)
EXTENDS ListPages, SlotOffer

CONSTANTS
    Categories,     \* the ids of the categories, in order
    Questions,      \* the ids of the questions of each category, in order
    Schedules,      \* the schedules to start from
    Times,          \* the times to start from and to reach
    Slots,          \* the slots whose bookings vary
    MaxMessages,    \* bound: messages of the citizen
    None

Steps == {"AWAITING_CATEGORY", "AWAITING_QUESTION", "OTHER", "AWAITING_SLOT", "FINISHED"}

Distinct(s) == \A i, j \in 1..Len(s) : s[i] = s[j] => i = j

\* Ids are primary keys.
ASSUME MenusAssumption ==
    /\ Categories \in Seq(Nat) /\ Distinct(Categories)
    /\ Range(Categories) \subseteq DOMAIN Questions
    /\ \A c \in DOMAIN Questions : Questions[c] \in Seq(Nat) /\ Distinct(Questions[c])
    /\ \A s \in Schedules : IsSchedule(s)
    /\ Times \subseteq Nat /\ Slots \subseteq Nat /\ MaxMessages \in Nat

VARIABLES
    schedule, now,
    active,     \* active appointments of each slot
    step, category, page,       \* the session
    shown,      \* the rows of the last list sent
    sent,       \* the rows of every list sent
    chosen,     \* the slot whose booking is under way, with the list it was tapped in
    last,       \* what the last message meant and what was done; no code reads it
    messages    \* messages of the citizen so far, for the bound

menuVars == <<schedule, now, active, step, category, page, shown, sent, chosen, last, messages>>

Options == [kind: {"category", "question", "slot", "page"}, of: Nat]
Booking == [slot: Nat, offer: {s \in Seq(Nat) : Distinct(s)}]
Told == [meant: Options \cup {None}, done: Options \cup {None}, number: BOOLEAN]

MenusTypeOK ==
    /\ schedule \in Schedules /\ now \in Times
    /\ active \in [Slots -> 0..schedule.seats]
    /\ step \in Steps
    /\ category \in DOMAIN Questions \cup {None}
    /\ page \in Nat \ {0}
    /\ shown \in Seq(Options) /\ Range(shown) \subseteq sent /\ sent \subseteq Options
    /\ chosen \in Booking \cup {None}
    /\ last \in Told
    /\ messages \in 0..MaxMessages

Offered == Offer(schedule, now, active)

\* The list of the step, read for every message.
Items == CASE step = "AWAITING_CATEGORY" -> Categories
           [] step = "AWAITING_QUESTION" -> Questions[category]
           [] step = "AWAITING_SLOT"     -> Offered
           [] OTHER -> <<>>

KindOf(st) == CASE st = "AWAITING_CATEGORY" -> "category"
                [] st = "AWAITING_QUESTION" -> "question"
                [] OTHER -> "slot"

Current == Paginate(Items, page)

\* A list message; only a change of the page is saved.
ShowAs(st, rows, at) ==
    /\ step' = st /\ page' = at
    /\ shown' = rows /\ sent' = sent \cup Range(rows)

Show(st, items, at) == ShowAs(st, RowsOf(Paginate(items, at), KindOf(st)), at)

Prompt == ShowAs(step, RowsOf(Current, KindOf(step)), page)

Finish == step' = "FINISHED" /\ UNCHANGED <<page, shown, sent>>

\* The slots, or the end of the conversation when there is none.
ShowSlots(at) == IF Offered = <<>> THEN Finish ELSE Show("AWAITING_SLOT", Offered, at)

\* Variant: the page of the categories is kept.
ChooseCategory_KeepsPage(c) ==
    IF Questions[c] = <<>>
    THEN UNCHANGED <<step, category, page, shown, sent>>
    ELSE /\ category' = c
         /\ ShowAs("AWAITING_QUESTION", RowsOf(Paginate(Questions[c], 1), "question"), page)

\* transitionToQuestions: a category without questions keeps the list.
ChooseCategory(c) ==
    IF Questions[c] = <<>>
    THEN UNCHANGED <<step, category, page, shown, sent>>
    ELSE category' = c /\ Show("AWAITING_QUESTION", Questions[c], 1)

ChooseQuestion ==
    /\ step' = "OTHER" /\ category' = None /\ page' = 1
    /\ UNCHANGED <<shown, sent>>

\* The page or the item that an option stands for in the step, if any.
Valid(o) ==
    \/ o.kind = "page" /\ o.of \in 1..Current.pages
    \/ o.kind = KindOf(step) /\ o.of \in Range(Items)

\* handleAwaitingCategory and handleAwaitingQuestion.
Choose(o) ==
    CASE o.kind = "page"     -> Show(step, Items, o.of) /\ UNCHANGED category
      [] o.kind = "category" -> ChooseCategory(o.of)
      [] o.kind = "question" -> ChooseQuestion

Menu == {"AWAITING_CATEGORY", "AWAITING_QUESTION"}

Message == chosen = None /\ messages < MaxMessages /\ messages' = messages + 1

TapInMenu(o) ==
    /\ step \in Menu
    /\ Message
    /\ IF Valid(o) THEN Choose(o) ELSE Prompt /\ UNCHANGED category
    /\ last' = [meant |-> o, done |-> IF Valid(o) THEN o ELSE None, number |-> FALSE]
    /\ UNCHANGED <<schedule, now, active, chosen>>

\* A number means the line of the last list; 0 stands for any other text.
TypeInMenu(n) ==
    LET o == ByNumber(Current, KindOf(step), n, None) IN
    /\ step \in Menu
    /\ Message
    /\ IF o # None THEN Choose(o) ELSE Prompt /\ UNCHANGED category
    /\ last' = [meant |-> IF n \in 1..Len(shown) THEN shown[n] ELSE None,
                done |-> o, number |-> TRUE]
    /\ UNCHANGED <<schedule, now, active, chosen>>

\* handleAwaitingHolderCpf, after the steps in between.
AskSlots ==
    /\ step = "OTHER"
    /\ Message
    /\ ShowSlots(1)
    /\ last' = [meant |-> None, done |-> None, number |-> FALSE]
    /\ UNCHANGED <<schedule, now, active, category, chosen>>

\* handleAwaitingSlot: a page; a slot that is still offered, to be booked; one
\* that is gone, answered with the first page; anything else, with the prompt.
TapSlotList(o) ==
    /\ step = "AWAITING_SLOT"
    /\ Message
    /\ IF Offered = <<>> THEN Finish /\ UNCHANGED chosen
       ELSE \/ /\ Valid(o) /\ o.kind = "page"
               /\ Show(step, Offered, o.of) /\ UNCHANGED chosen
            \/ /\ Valid(o) /\ o.kind = "slot"
               /\ chosen' = [slot |-> o.of, offer |-> Offered]
               /\ UNCHANGED <<step, page, shown, sent>>
            \/ /\ ~Valid(o) /\ o.kind = "slot"
               /\ Show(step, Offered, 1) /\ UNCHANGED chosen
            \/ /\ ~Valid(o) /\ o.kind # "slot"
               /\ Prompt /\ UNCHANGED chosen
    /\ last' = [meant |-> o, number |-> FALSE,
                done |-> IF Offered # <<>> /\ Valid(o) THEN o ELSE None]
    /\ UNCHANGED <<schedule, now, active, category>>

TypeInSlotList ==
    /\ step = "AWAITING_SLOT"
    /\ Message
    /\ IF Offered = <<>> THEN Finish ELSE Prompt
    /\ last' = [meant |-> None, done |-> None, number |-> FALSE]
    /\ UNCHANGED <<schedule, now, active, category, chosen>>

HasSeat(slot) == slot \in Slots => active[slot] < schedule.seats
TakeSeat(slot) ==
    active' = IF slot \in Slots THEN [active EXCEPT ![slot] = @ + 1] ELSE active

\* bookChosenSlot, with the transaction of module SlotBooking: an appointment,
\* and the end unless its COMMIT seemed to fail; a slot filled meanwhile,
\* answered with the slots of now; a CPF that has an appointment, with the list
\* the slot was tapped in; any other failure, with a text; a draft that is
\* incomplete, with the question who comes.
Booked ==
    /\ chosen # None /\ chosen' = None
    /\ \/ /\ HasSeat(chosen.slot) /\ TakeSeat(chosen.slot)
          /\ Finish \/ UNCHANGED <<step, page, shown, sent>>
       \/ ~HasSeat(chosen.slot) /\ ShowSlots(1) /\ UNCHANGED active
       \/ Show("AWAITING_SLOT", chosen.offer, page) /\ UNCHANGED active
       \/ UNCHANGED <<active, step, page, shown, sent>>
       \/ step' = "OTHER" /\ page' = 1 /\ UNCHANGED <<active, shown, sent>>
    /\ UNCHANGED <<schedule, now, category, last, messages>>

\* After the end the next message starts over, whatever it says.
StartOver ==
    /\ step = "FINISHED"
    /\ Message
    /\ category' = None /\ Show("AWAITING_CATEGORY", Categories, 1)
    /\ last' = [meant |-> None, done |-> None, number |-> FALSE]
    /\ UNCHANGED <<schedule, now, active, chosen>>

\* Other citizens and the staff; the clock.
OthersBook(slot) ==
    /\ active[slot] < schedule.seats
    /\ active' = [active EXCEPT ![slot] = @ + 1]
    /\ UNCHANGED <<schedule, now, step, category, page, shown, sent, chosen, last, messages>>

OthersCancel(slot) ==
    /\ active[slot] > 0
    /\ active' = [active EXCEPT ![slot] = @ - 1]
    /\ UNCHANGED <<schedule, now, step, category, page, shown, sent, chosen, last, messages>>

TimePasses ==
    /\ \E t \in Times : t > now /\ now' = t
    /\ UNCHANGED <<schedule, active, step, category, page, shown, sent, chosen, last, messages>>

\* A conversation that ended, or one on its way to the slots; the lists sent
\* before are not in the chat any more.
MenusInit ==
    /\ schedule \in Schedules /\ now \in Times
    /\ active \in [Slots -> 0..1]
    /\ step \in {"FINISHED", "OTHER"} /\ category = None /\ page = 1
    /\ shown = <<>> /\ sent = {}
    /\ chosen = None
    /\ last = [meant |-> None, done |-> None, number |-> FALSE]
    /\ messages = 0

MenusNext ==
    \/ \E o \in sent : TapInMenu(o) \/ TapSlotList(o)
    \/ \E n \in 0..Rows : TypeInMenu(n)
    \/ AskSlots \/ TypeInSlotList \/ Booked \/ StartOver
    \/ \E slot \in Slots : OthersBook(slot) \/ OthersCancel(slot)
    \/ TimePasses

MenusSpec == MenusInit /\ [][MenusNext]_menuVars

-----------------------------------------------------------------------------
(* Properties. *)

\* Walking "back" and "more" the citizen reaches every item of the list of
\* the step, each on exactly one page (messageFormatter.service.ts:105); and
\* every list sent is one the gateway sends on, never empty, never longer than
\* WhatsApp takes, no id twice (outgoingMessage.validation.ts:43): on any other
\* it would fail and the citizen would see nothing.
PagesCover ==
    LET items == Items
        pages == [p \in 1..Paginate(items, page).pages |-> Paginate(items, p)] IN
    /\ shown # <<>> => Accepted(shown)
    /\ FlattenSeq([p \in DOMAIN pages |-> pages[p].items]) = items
    /\ \A p \in DOMAIN pages :
          {o.of : o \in {x \in Range(RowsOf(pages[p], KindOf(step))) : x.kind = "page"}}
            = {p - 1, p + 1} \cap DOMAIN pages

\* A number typed does what that line of the last list says, although the list
\* is read and cut again from the page of the session; a row tapped, of however
\* old a list, does what it says or only repeats the list.
MeantIsDone ==
    /\ last.done \in {last.meant, None}
    /\ last.number => last.done = last.meant

\* The offer is exactly what can be booked: inside the ranges, not blocked, not
\* begun, within the window, after the notice, with a seat left; in the order of
\* time (.docs/regras/08-horarios-de-atendimento.md).
OfferIsExact ==
    LET offered == Offered IN
    /\ Range(offered) = {slot \in 0..((DayOf(now) + schedule.window + 2) * DayLength) :
                            Bookable(schedule, now, active, slot)}
    /\ \A i \in 2..Len(offered) : offered[i - 1] < offered[i]
=============================================================================

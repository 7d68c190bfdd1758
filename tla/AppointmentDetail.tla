-------------------------- MODULE AppointmentDetail --------------------------
(***************************************************************************)
(* The page of one appointment in a browser, together with the requests it *)
(* makes (AppointmentLifecycle) while others work on the same appointment: *)
(* pages/hooks/useAppointmentDetail.ts, pages/hooks/useAppointmentActions  *)
(* .ts and store/api/appointments.api.ts of the panel.                     *)
(*                                                                         *)
(* The detail on the screen is an entry of RTK Query's cache, which is     *)
(* external: a GET is started unless one is pending, and its answer is     *)
(* taken when it is the last GET started. The answer of a PATCH is written *)
(* into the entry, which leaves the last GET started the same: when that   *)
(* GET is still under way, its older detail comes on top.                  *)
(***************************************************************************)
EXTENDS AppointmentLifecycle, FiniteSets

CONSTANTS Page,  \* the requests of this page; the others are other people's
          Me,    \* the member of the staff at this page
          MaxFailed  \* bound: requests that fail

ASSUME PageAssumption == Page \subseteq Request /\ Me \in User /\ MaxFailed \in Nat

VARIABLES
    mounted,   \* the page is open
    current,   \* the last GET started, requestId of the cache entry
    loading,   \* the status of the entry is "pending"
    shown,     \* the request whose detail the entry holds
    heard,     \* the requests whose end reached the browser
    pending,   \* the action the dialog asks about
    mine,      \* the PATCH this instance of the page waits for (inFlight)
    reread,    \* the GET it waits for after the PATCH failed
    told,      \* the failed PATCH its message is about (errorKey)
    older      \* history: requests under way when a PATCH was heard

entry  == <<current, loading, shown>>
dialog == <<pending, mine, reread, told>>
page   == <<mounted, entry, heard, dialog, older>>
all    == <<vars, page>>

PageTypeOK ==
    /\ mounted \in BOOLEAN /\ loading \in BOOLEAN
    /\ {current, shown, mine, reread, told} \subseteq Page \cup {NoOne}
    /\ heard \subseteq Page /\ older \subseteq Page
    /\ pending \in (Action \ {"view"}) \cup {"none"}

-----------------------------------------------------------------------------
\* The buttons of the page: available_actions of the detail, decided by the
\* time its request arrived.
Offered(a) == Allowed(a, seenStatus[shown], at[shown])

\* The next request of the page, one of those it has not made yet.
IsNext(r) ==
    LET unused == {q \in Page : stage[q] = "idle"}
    IN  unused # {} /\ r = CHOOSE q \in unused : TRUE

UnderWay == {r \in Page : stage[r] # "idle"} \ heard

PageInit ==
    /\ Init
    /\ \A r \in Request : actor[r] = Me <=> r \in Page
    /\ mounted = FALSE /\ loading = FALSE
    /\ current = NoOne /\ shown = NoOne
    /\ heard = {} /\ older = {}
    /\ pending = "none"
    /\ mine = NoOne /\ reread = NoOne /\ told = NoOne

\* A forced GET, which joins the one that is pending.
Get ==
    IF loading
    THEN UNCHANGED <<vars, entry>>
    ELSE \E g \in Page :
            /\ IsNext(g) /\ Ask(g, "view")
            /\ current' = g /\ loading' = TRUE
            /\ UNCHANGED shown

\* refetchOnMountOrArgChange. A detail in the cache is shown meanwhile.
Open ==
    /\ ~mounted
    /\ mounted' = TRUE
    /\ Get
    /\ UNCHANGED <<heard, dialog, older>>

\* "Tentar novamente", offered when there is no detail to show.
Retry ==
    /\ mounted /\ ~loading /\ shown = NoOne
    /\ Get
    /\ UNCHANGED <<mounted, heard, dialog, older>>

\* What the page waits for goes on without it.
Leave ==
    /\ mounted
    /\ mounted' = FALSE
    /\ pending' = "none"
    /\ mine' = NoOne /\ reread' = NoOne /\ told' = NoOne
    /\ UNCHANGED <<vars, entry, heard, older>>

Choose(a) ==
    /\ mounted /\ pending = "none" /\ shown # NoOne
    /\ Offered(a)
    /\ pending' = a
    /\ UNCHANGED <<vars, mounted, entry, heard, mine, reread, told, older>>

Cancel ==
    /\ pending # "none" /\ mine = NoOne
    /\ pending' = "none"
    /\ UNCHANGED <<vars, mounted, entry, heard, mine, reread, told, older>>

Confirm(r) ==
    /\ pending # "none" /\ mine = NoOne
    /\ IsNext(r) /\ Ask(r, pending)
    /\ mine' = r /\ told' = NoOne
    /\ UNCHANGED <<mounted, entry, heard, pending, reread, older>>

\* inFlight = false, setBusy(false), setPending(null) of the page that waits.
Settle ==
    /\ mine' = NoOne /\ reread' = NoOne
    /\ pending' = "none"

Hear(r) ==
    /\ r \in UnderWay
    /\ heard' = heard \cup {r}
    /\ UNCHANGED mounted

\* onQueryStarted: the detail that answers the PATCH goes into the entry.
HearDone(r) ==
    /\ Hear(r) /\ action[r] # "view" /\ Shown(r)
    /\ shown' = r /\ loading' = FALSE
    /\ older' = older \cup (UnderWay \ {r})
    /\ IF mine = r THEN Settle ELSE UNCHANGED <<pending, mine, reread>>
    /\ UNCHANGED <<vars, current, told>>

\* Variant: the message is shown at once, with the detail as it is.
HearFailed_NoReread(r) ==
    /\ Hear(r) /\ action[r] # "view" /\ stage[r] \in {"refused", "failed"}
    /\ older' = older \cup (UnderWay \ {r})
    /\ IF mine = r THEN Settle /\ told' = r ELSE UNCHANGED dialog
    /\ UNCHANGED <<vars, entry>>

\* 409, 500 or no answer: the detail is read again, and its dialog waits.
HearFailed(r) ==
    /\ Hear(r) /\ action[r] # "view" /\ stage[r] \in {"refused", "failed"}
    /\ older' = older \cup (UnderWay \ {r})
    /\ Get
    /\ reread' = IF mine = r THEN current' ELSE reread
    /\ UNCHANGED <<pending, mine, told>>

\* The answer of a GET; a failed one leaves the detail there is.
HearGet(g) ==
    /\ Hear(g) /\ action[g] = "view" /\ (Shown(g) \/ stage[g] = "failed")
    /\ shown' = IF g = current /\ Shown(g) THEN g ELSE shown
    /\ loading' = (loading /\ g # current)
    /\ IF reread = g THEN Settle /\ told' = mine ELSE UNCHANGED dialog
    /\ UNCHANGED <<vars, current, older>>

\* What the server does with the requests. How the answers of other people's
\* are read is left to AppointmentLifecycle.
Serve ==
    \/ \E r \in Request : Lock(r) \/ Refuse(r) \/ Write(r)
    \/ \E r \in Page : ReadRow(r) \/ ReadEvents(r)

\* The server, the clock, failures and other people.
Elsewhere ==
    /\ \/ Serve
       \/ Tick
       \/ \E r \in UnderWay \cup {q \in Request \ Page : stage[q] # "reading"} : Fail(r)
       \/ \E r \in Request \ Page, a \in Action \ {"view"} : Ask(r, a)
    /\ Cardinality({r \in Request : stage'[r] = "failed"}) <= MaxFailed
    /\ UNCHANGED page

PageNext ==
    \/ Elsewhere
    \/ Open \/ Retry \/ Leave \/ Cancel
    \/ \E a \in Action \ {"view"} : Choose(a)
    \/ \E r \in Page : Confirm(r) \/ HearDone(r) \/ HearFailed(r) \/ HearGet(r)

PageSpec == PageInit /\ [][PageNext]_all

\* The server goes on with what it was sent, and the browser hears the end.
PageFairSpec ==
    /\ PageSpec
    /\ WF_vars(Serve)
    /\ WF_all(\E r \in Page : HearDone(r) \/ HearFailed(r) \/ HearGet(r))

-----------------------------------------------------------------------------
(* Properties                                                              *)

\* The detail on the screen has every action of the page that was answered, and
\* when it was read again after a refusal, no button offers the refused action
\* any more. Only a request that was already under way when an action was
\* answered may bring an older detail: the GET of a page that was opened again,
\* or the action of an earlier visit.
ScreenCatchesUp ==
    shown \notin older \cup {NoOne} =>
        /\ \A r \in heard : action[r] # "view" /\ stage[r] = "reading" =>
               \E i \in 1 .. seenEvents[shown] : events[i].by = r
        /\ told # NoOne /\ stage[told] = "refused" /\ shown = current =>
               ~Offered(action[told])

\* No request is left to read the detail again with (a bound of the model).
OutOfRequests ==
    /\ mine \in UnderWay /\ stage[mine] \in {"refused", "failed"}
    /\ ~loading /\ \A r \in Page : stage[r] # "idle"

\* The dialog does not stay busy: whatever becomes of an action, of the row it
\* waits for and of the detail that is read again, the page comes to rest.
DialogCloses == mine # NoOne ~> mine = NoOne \/ OutOfRequests

-----------------------------------------------------------------------------
(* The inductive invariant behind ScreenCatchesUp.                         *)

\* What the page has heard is over; what it shows it has heard; what it loads is
\* under way; and its message is about a PATCH it has heard.
PageInOrder ==
    /\ \A r \in heard : Shown(r) \/ stage[r] \in {"refused", "failed"}
    /\ shown # NoOne => shown \in heard /\ Shown(shown)
    /\ loading => current \in UnderWay
    /\ current # NoOne => action[current] = "view" /\ stage[current] # "idle"
    /\ reread # NoOne => mine \in heard
    /\ told # NoOne => told \in heard

\* The moment from which an action is possible, whatever the status.
InTime(a, time) == (a = "attended" => time >= Day) /\ (a = "no_show" => time >= Hour)

\* A status that rules the action out for good.
Closed(a, status) ==
    IF a = "claim" THEN status # "PENDING" ELSE status \notin Active

\* The page asks for what is possible by its time, so that a refusal is for good.
RefusedForGood ==
    /\ pending # "none" => InTime(pending, now)
    /\ \A r \in Page : stage[r] # "idle" => InTime(action[r], at[r])
    /\ \A r \in Page :
           /\ stage[r] \in {"asked", "refused"} => action[r] # "view"
           /\ stage[r] = "refused" => Closed(action[r], row.status)

\* What was asked for after an action was heard reads what the action did.
ReadAfterwards ==
    /\ \A g \in UnderWay \ older, r \in heard :
           action[r] # "view" /\ stage[r] = "reading" /\ seenEvents[g] # 0 =>
               \E i \in 1 .. seenEvents[g] : events[i].by = r
    /\ \A r \in heard : stage[r] = "refused" =>
           \/ current \in older \cup {NoOne}
           \/ seenStatus[current] = "none"
           \/ Closed(action[r], seenStatus[current])

PageInv == PageTypeOK /\ PageInOrder /\ RefusedForGood /\ ReadAfterwards /\ ScreenCatchesUp

=============================================================================

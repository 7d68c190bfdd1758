-------------------------- MODULE AppointmentList ---------------------------
(***************************************************************************)
(* The page that lists the appointments: filters, order and page in the    *)
(* URL, a search term that settles after a pause, the cache of lists by    *)
(* their arguments, the list that stays on screen while the next page      *)
(* loads, and the button that claims a row.  The service counts and reads  *)
(* the rows in two queries while others book and claim.                    *)
(*                                                                         *)
(* A filter (status, period and responsible together) and a term stand for *)
(* the statuses and the appointments they select, an order for the place   *)
(* of each appointment in it.  The cache (RTK Query) is external: one      *)
(* request at a time for each argument, and what a claim invalidates is    *)
(* fetched again or dropped once nothing is under way.                     *)
(***************************************************************************)
EXTENDS Naturals, FiniteSets

CONSTANTS
    Appointment,
    Filter, Admits,    \* Admits[f]: the statuses that filter f selects
    Term, Finds,       \* Finds[t]: the appointments that term t finds
    Undefined,         \* no term long enough to search; no list
    AllFilter,         \* the filter that selects every status
    Order, Rank,       \* Rank[o]: the place of each appointment in order o
    DefaultOrder,      \* the order of an URL that names none
    PageSize,
    MaxPage,           \* bound: the last page an URL names
    MaxMoves,          \* bound: what people do, on this page and elsewhere
    RepliesLost        \* whether requests may fail on their way back

Status == {"absent", "PENDING", "CONFIRMED"}
Page == 1..MaxPage

ASSUME ListAssumption ==
    /\ IsFiniteSet(Appointment) /\ PageSize \in Nat \ {0} /\ MaxMoves \in Nat
    /\ MaxPage \in Nat \ {0} /\ Cardinality(Appointment) <= MaxPage * PageSize
    /\ Admits \in [Filter -> SUBSET (Status \ {"absent"})]
    /\ Finds \in [Term -> SUBSET Appointment] /\ Undefined \notin Term
    /\ AllFilter \in Filter /\ Admits[AllFilter] = Status \ {"absent"}
    /\ Rank \in [Order -> [Appointment -> Nat]] /\ DefaultOrder \in Order
    /\ RepliesLost \in BOOLEAN

VARIABLES
    status,     \* status of each appointment in the database
    url,        \* filter, order and page
    term,       \* the term typed
    settled,    \* the term searched for
    cache,      \* lists by arguments
    fetch,      \* requests for a list by arguments
    failed,     \* arguments whose last request failed
    shown,      \* the last list on screen with its arguments
    claim,      \* request of the button of each row
    late,       \* claims that the page has given up and the service may still do
    invalid,    \* lists wait to be invalidated
    moves       \* what people did so far, for the bound

listVars == <<status, url, term, settled, cache, fetch, failed, shown, claim, late, invalid, moves>>

Url == [filter: Filter, order: Order, page: Page]
Args == [search: Term \cup {Undefined}, filter: Filter, order: Order, page: Page]
ArgsOf(u, search) ==
    [search |-> search, filter |-> u.filter, order |-> u.order, page |-> u.page]
args == ArgsOf(url, settled)

\* A list as it was answered.  current is false once a claim for which this page
\* waits was done that the list does not show; no code reads it.
List == [total: 0..Cardinality(Appointment),
         items: [Appointment -> Status], current: BOOLEAN]
NoItems == [a \in Appointment |-> "absent"]

Fetch == [pc: {"sent", "counted", "answered"}, list: List]
Sent == [pc |-> "sent", list |-> [total |-> 0, items |-> NoItems, current |-> TRUE]]

ListTypeOK ==
    /\ status \in [Appointment -> Status]
    /\ url \in Url
    /\ term \in Term \cup {Undefined} /\ settled \in Term \cup {Undefined}
    /\ cache \in [Args -> List \cup {Undefined}]
    /\ fetch \in [Args -> Fetch \cup {Undefined}]
    /\ failed \subseteq Args
    /\ shown \in [args: Args, list: List] \cup {Undefined}
    /\ claim \in [Appointment -> {"none", "sent", "answered"}] /\ late \subseteq Appointment
    /\ invalid \in BOOLEAN
    /\ moves \in 0..MaxMoves

ASSUME UndefinedAssumption ==
    Undefined \notin List \cup Fetch \cup [args: Args, list: List]

-----------------------------------------------------------------------------
(* The service. *)

\* The conditions of findList: a search ignores the filters.
Selected(a, s, k) ==
    IF k.search # Undefined THEN s # "absent" /\ a \in Finds[k.search]
    ELSE s \in Admits[k.filter]

Matching(k) == {a \in Appointment : Selected(a, status[a], k)}

\* ORDER BY ... LIMIT limit OFFSET (page - 1) * limit.
PageItems(k) ==
    LET before(a) == Cardinality({b \in Matching(k) : Rank[k.order][b] < Rank[k.order][a]})
        onPage(a) == a \in Matching(k) /\ (before(a) \div PageSize) + 1 = k.page
    IN  [a \in Appointment |-> IF onPage(a) THEN status[a] ELSE "absent"]

\* Math.ceil(total / limit) || 1
TotalPages(list) == IF list.total = 0 THEN 1
                    ELSE (list.total + PageSize - 1) \div PageSize

Count(k) ==
    /\ fetch[k] # Undefined /\ fetch[k].pc = "sent"
    /\ fetch' = [fetch EXCEPT ![k].pc = "counted", ![k].list.total = Cardinality(Matching(k))]
    /\ UNCHANGED <<status, url, term, settled, cache, failed, shown, claim, late, invalid, moves>>

ReadItems(k) ==
    /\ fetch[k] # Undefined /\ fetch[k].pc = "counted"
    /\ fetch' = [fetch EXCEPT ![k].pc = "answered", ![k].list.items = PageItems(k)]
    /\ UNCHANGED <<status, url, term, settled, cache, failed, shown, claim, late, invalid, moves>>

\* Lists answered or counted before a claim of this page do not show it.
Outdated(list) == [list EXCEPT !.current = FALSE]

\* The transaction of a claim (AppointmentLifecycle): allowed while PENDING.
ServeClaim(a) ==
    /\ claim[a] = "sent"
    /\ claim' = [claim EXCEPT ![a] = "answered"]
    /\ IF status[a] = "PENDING"
       THEN /\ status' = [status EXCEPT ![a] = "CONFIRMED"]
            /\ cache' = [k \in Args |-> IF cache[k] = Undefined THEN Undefined ELSE Outdated(cache[k])]
            /\ fetch' = [k \in Args |->
                            IF fetch[k] = Undefined \/ Sent = fetch[k] THEN fetch[k]
                            ELSE [fetch[k] EXCEPT !.list = Outdated(@)]]
            /\ shown' = IF shown = Undefined THEN Undefined ELSE [shown EXCEPT !.list = Outdated(@)]
       ELSE UNCHANGED <<status, cache, fetch, shown>>
    /\ UNCHANGED <<url, term, settled, failed, late, invalid, moves>>

\* A claim done after the page gave it up: no list of the page hears of it, as of
\* a claim of another member of the staff.
ServeLate(a) ==
    /\ a \in late /\ late' = late \ {a}
    /\ status' = IF status[a] = "PENDING" THEN [status EXCEPT ![a] = "CONFIRMED"] ELSE status
    /\ UNCHANGED <<url, term, settled, cache, fetch, failed, shown, claim, invalid, moves>>

Move == moves < MaxMoves /\ moves' = moves + 1

\* A citizen books; another member of the staff claims.
OthersAct ==
    /\ Move
    /\ \E a \in Appointment :
        \/ status[a] = "absent" /\ status' = [status EXCEPT ![a] = "PENDING"]
        \/ status[a] = "PENDING" /\ status' = [status EXCEPT ![a] = "CONFIRMED"]
    /\ UNCHANGED <<url, term, settled, cache, fetch, failed, shown, claim, late, invalid>>

-----------------------------------------------------------------------------
(* The cache and the page. *)

\* What the page takes for the list of its arguments: never that of others.
CurrentData(c, k) == c[k]

\* Variant: another search is the same result set.
SameResultSet_AnySearch(j, k) == j.filter = k.filter
SameResultSet(j, k) == j.search = k.search /\ j.filter = k.filter

\* Every render remembers the list of its arguments, if there is one.
Render(c, k) ==
    shown' = IF CurrentData(c, k) = Undefined THEN shown
             ELSE [args |-> k, list |-> CurrentData(c, k)]

Data ==
    IF CurrentData(cache, args) # Undefined THEN CurrentData(cache, args)
    ELSE IF shown # Undefined /\ SameResultSet(shown.args, args) THEN shown.list
    ELSE Undefined

\* The page number of that list (data.page).
DataPage == IF CurrentData(cache, args) # Undefined THEN args.page ELSE shown.args.page

Error == args \in failed /\ fetch[args] = Undefined
Searching == settled # Undefined

\* The table and its buttons.
TableShown == ~Error /\ Data # Undefined /\ Data.total > 0

\* The page asks for the list k, unless it is under way.
Request(f, k) == IF f[k] = Undefined THEN [f EXCEPT ![k] = Sent] ELSE f

\* A change of the arguments: ask again even for what is cached.
Go(u, search) ==
    LET k == ArgsOf(u, search) IN
    /\ url' = u /\ settled' = search
    /\ IF k = args THEN UNCHANGED <<fetch, failed, shown>>
       ELSE /\ fetch' = Request(fetch, k)
            /\ failed' = failed \ {k}
            /\ Render(cache, k)
    /\ UNCHANGED <<status, cache, claim, late, invalid>>

\* withoutOrder keeps the filter and goes back to the first page.
First(f) == [filter |-> f, order |-> DefaultOrder, page |-> 1]

\* The filters are hidden during a search.
SelectFilter(f) ==
    /\ Move
    /\ ~Searching
    /\ Go(First(f), settled)
    /\ UNCHANGED term

SortBy(o) ==
    /\ Move
    /\ TableShown
    /\ Go([url EXCEPT !.order = o, !.page = 1], settled)
    /\ UNCHANGED term

\* "Previous" and "next" count from the list on screen.
GoToPage(p) ==
    /\ Move
    /\ TableShown
    /\ \/ p = DataPage - 1 /\ p >= 1
       \/ p = DataPage + 1 /\ p <= TotalPages(Data)
    /\ Go([url EXCEPT !.page = p], settled)
    /\ UNCHANGED term

\* The back button or a link to any URL of the page.
Navigate(u) ==
    /\ Move
    /\ u # url
    /\ Go(u, settled)
    /\ UNCHANGED term

Type(t) ==
    /\ Move
    /\ t # term /\ term' = t
    /\ UNCHANGED <<status, url, settled, cache, fetch, failed, shown, claim, late, invalid>>

\* The pause after typing ends: another search starts without order at page 1.
SettleTerm ==
    /\ term # settled
    /\ Go(First(url.filter), term)
    /\ UNCHANGED <<term, moves>>

\* The clear button and Escape.
ClearSearch ==
    /\ Move
    /\ term # Undefined /\ term' = Undefined
    /\ Go(IF Searching THEN First(url.filter) ELSE url, Undefined)

\* Offered when the filters leave nothing.
ClearFilters ==
    /\ Move
    /\ ~Error /\ Data # Undefined /\ Data.total = 0
    /\ ~Searching /\ url.filter # AllFilter
    /\ term' = Undefined
    /\ Go(First(AllFilter), Undefined)

\* Variant: one page past the end is not brought back.
CorrectPage_OffByOne ==
    LET current == CurrentData(cache, args) IN
    /\ current # Undefined /\ current.total > 0 /\ url.page > TotalPages(current) + 1
    /\ Go([url EXCEPT !.page = TotalPages(current)], settled)
    /\ UNCHANGED <<term, moves>>

\* The effect that brings a page past the end back to the last one.
CorrectPage ==
    LET current == CurrentData(cache, args) IN
    /\ current # Undefined /\ current.total > 0 /\ url.page > TotalPages(current)
    /\ Go([url EXCEPT !.page = TotalPages(current)], settled)
    /\ UNCHANGED <<term, moves>>

Retry ==
    /\ Move
    /\ Error
    /\ fetch' = Request(fetch, args) /\ failed' = failed \ {args}
    /\ UNCHANGED <<status, url, term, settled, cache, shown, claim, late, invalid>>

\* The button of a row that is pending in the list on screen.
CanClaim(a) == TableShown /\ Data.items[a] = "PENDING"

Claim(a) ==
    /\ Move
    /\ CanClaim(a)
    /\ claim[a] = "none" /\ claim' = [claim EXCEPT ![a] = "sent"]
    /\ UNCHANGED <<status, url, term, settled, cache, fetch, failed, shown, late, invalid>>

-----------------------------------------------------------------------------
(* Answers. *)

QuietWith(f, cl) == (\A k \in Args : f[k] = Undefined) /\ (\A a \in Appointment : cl[a] = "none")
Quiet == QuietWith(fetch, claim)

\* What a claim invalidates waits until nothing is under way; then the list of
\* the page is asked for again and the others are dropped.
After(c, f, cl, fl, inv) ==
    /\ claim' = cl
    /\ IF inv /\ QuietWith(f, cl)
       THEN /\ cache' = [k \in Args |-> IF k = args THEN c[k] ELSE Undefined]
            /\ fetch' = [f EXCEPT ![args] = Sent]
            /\ failed' = {} /\ invalid' = FALSE
       ELSE cache' = c /\ fetch' = f /\ failed' = fl /\ invalid' = inv
    /\ Render(c, args)

ReceiveList(k) ==
    /\ fetch[k] # Undefined /\ fetch[k].pc = "answered"
    /\ After([cache EXCEPT ![k] = fetch[k].list], [fetch EXCEPT ![k] = Undefined],
             claim, failed \ {k}, invalid)
    /\ UNCHANGED <<status, url, term, settled, late, moves>>

FailFetch(k) ==
    /\ RepliesLost /\ fetch[k] # Undefined
    /\ After(cache, [fetch EXCEPT ![k] = Undefined], claim, failed \cup {k}, invalid)
    /\ UNCHANGED <<status, url, term, settled, late, moves>>

\* The claim invalidates the lists when it succeeds, is refused or is lost.
ReceiveClaim(a) ==
    /\ claim[a] = "answered"
    /\ After(cache, fetch, [claim EXCEPT ![a] = "none"], failed, TRUE)
    /\ UNCHANGED <<status, url, term, settled, late, moves>>

\* A request given up before the service did it may be lost or come later.
Abandon(a) ==
    \/ late' = late
    \/ claim[a] = "sent" /\ late' = late \cup {a}

\* Variant: a claim without an answer invalidates no list.
LoseClaim_KeepsLists(a) ==
    /\ RepliesLost /\ claim[a] # "none"
    /\ Abandon(a)
    /\ After(cache, fetch, [claim EXCEPT ![a] = "none"], failed, invalid)
    /\ UNCHANGED <<status, url, term, settled, moves>>

LoseClaim(a) ==
    /\ RepliesLost /\ claim[a] # "none"
    /\ Abandon(a)
    /\ After(cache, fetch, [claim EXCEPT ![a] = "none"], failed, TRUE)
    /\ UNCHANGED <<status, url, term, settled, moves>>

-----------------------------------------------------------------------------
\* The page opened from a link of the panel, nothing searched for yet.
ListInit ==
    /\ status \in [Appointment -> {"absent", "PENDING"}]
    /\ url \in {First(f) : f \in Filter}
    /\ term = Undefined /\ settled = Undefined
    /\ cache = [k \in Args |-> Undefined]
    /\ fetch = [k \in Args |-> IF k = ArgsOf(url, Undefined) THEN Sent ELSE Undefined]
    /\ failed = {}
    /\ shown = Undefined
    /\ claim = [a \in Appointment |-> "none"] /\ late = {}
    /\ invalid = FALSE
    /\ moves = 0

Service == \/ \E k \in Args : Count(k) \/ ReadItems(k)
           \/ \E a \in Appointment : ServeClaim(a) \/ ServeLate(a)

Answers == \/ \E k \in Args : ReceiveList(k) \/ FailFetch(k)
           \/ \E a \in Appointment : ReceiveClaim(a) \/ LoseClaim(a)

ListNext ==
    \/ \E f \in Filter : SelectFilter(f)
    \/ \E o \in Order : SortBy(o)
    \/ \E p \in Page : GoToPage(p)
    \/ \E u \in Url : Navigate(u)
    \/ \E t \in Term \cup {Undefined} : Type(t)
    \/ SettleTerm \/ ClearSearch \/ ClearFilters \/ CorrectPage \/ Retry
    \/ \E a \in Appointment : Claim(a)
    \/ Service \/ Answers
    \/ OthersAct

\* Requests are served and answered, the pause of the search ends and effects
\* run; what people do is not promised.
Fairness ==
    WF_listVars(Service) /\ WF_listVars(Answers) /\ WF_listVars(SettleTerm) /\ WF_listVars(CorrectPage)

ListSpec == ListInit /\ [][ListNext]_listVars /\ Fairness

-----------------------------------------------------------------------------
(* Properties. *)

\* While another list loads the rows on screen stay (useAppointments.ts:131);
\* still no row is ever shown that the filter, or the search, on screen would
\* not select.
RowsMatchFilters ==
    ~Error /\ Data # Undefined =>
        \A a \in Appointment : Data.items[a] # "absent" => Selected(a, Data.items[a], args)

\* A claim that the service did while the page waited for it, answered, refused or
\* its answer lost, with fetches under way that had read the rows before it: once
\* nothing is under way the list shown was read after it.
FreshAfterClaim ==
    Quiet /\ ~Error /\ Data # Undefined => Data.current

\* Whatever is typed, selected, claimed and lost, the page comes to rest: no
\* request under way, the typed term searched for, and the page of the URL in
\* the range of its list.
ListSettles ==
    <>[](/\ Quiet /\ ~invalid /\ term = settled
         /\ ~Error => (Data # Undefined /\ (Data.total > 0 => url.page <= TotalPages(Data))))
=============================================================================

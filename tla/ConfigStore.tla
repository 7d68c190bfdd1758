----------------------------- MODULE ConfigStore -----------------------------
(***************************************************************************)
(* The WhatsApp configuration on its way from the panel to the gateway:    *)
(* the backend saves a version and notifies (services/whatsappSettings     *)
(* .service.ts, clients/gateway.client.ts), the gateway keeps the last one *)
(* it fetched (services/whatsappConfigStore.ts), and each webhook request  *)
(* loads it first.                                                         *)
(*                                                                         *)
(* A version stands for the whole configuration. Time is counted in ticks: *)
(* "loadedAt" is kept as the age it gives, and ages stop at the largest    *)
(* one the code or a property tells apart.                                 *)
(***************************************************************************)
EXTENDS Integers

CONSTANTS Request,      \* webhook requests; each may load again and again
          Fetch,        \* fetches that may be under way together
          NoFetch,      \* inFlight is undefined
          Ttl,          \* ttlMs
          Timeout,      \* BACKEND_TIMEOUT_MS
          MaxVersion    \* bound: configurations saved

ASSUME StoreAssumption ==
    /\ NoFetch \notin Fetch
    /\ {Ttl, Timeout, MaxVersion} \subseteq Nat \ {0}

VARIABLES
    version,      \* the configuration in the database
    notices,      \* reload notices under way
    noticed,      \* history: the newest configuration a notice was about
    savedFor,     \* history: ticks since each version was saved
    cached,       \* the store: the configuration, 0 if undefined
    cachedAge,    \* now() - loadedAt
    stale, inFlight, generation,
    asking,       \* what each fetch is doing
    startedAt,    \* its generation
    value,        \* what it read
    elapsed,      \* how long it has been under way
    stage,        \* how far each request is, or how its load ended
    waitsFor,     \* the fetch whose promise load() gave it
    loadedIn,     \* history: the generation in which it loaded
    floor,        \* history: "noticed" at that time
    got           \* the configuration it was given

backend  == <<version, notices, noticed, savedFor>>
store    == <<cached, cachedAge, stale, inFlight, generation>>
fetches  == <<asking, startedAt, value, elapsed>>
requests == <<stage, waitsFor, loadedIn, floor, got>>
vars == <<backend, store, fetches, requests>>

Version == 1 .. MaxVersion
Limit   == Ttl + Timeout

\* "overtaken": a notice came while the request waited; "kept": the fetch
\* failed and the last good configuration is used; "refused": 503.
Ended == {"served", "overtaken", "kept", "refused"}

TypeOK ==
    /\ version \in Version
    /\ notices \subseteq Version
    /\ noticed \in 0 .. MaxVersion
    /\ savedFor \in [Version -> 0 .. Limit]
    /\ cached \in 0 .. MaxVersion
    /\ cachedAge \in 0 .. Ttl
    /\ stale \in BOOLEAN
    /\ inFlight \in Fetch \cup {NoFetch}
    /\ generation \in Nat
    /\ asking \in [Fetch -> {"free", "sent", "read"}]
    /\ startedAt \in [Fetch -> Nat]
    /\ value \in [Fetch -> 0 .. MaxVersion]
    /\ elapsed \in [Fetch -> 0 .. Timeout]
    /\ stage \in [Request -> Ended \cup {"idle", "waiting"}]
    /\ waitsFor \in [Request -> Fetch \cup {NoFetch}]
    /\ loadedIn \in [Request -> Nat]
    /\ floor \in [Request -> 0 .. MaxVersion]
    /\ got \in [Request -> 0 .. MaxVersion]

Init ==
    /\ version = 1
    /\ notices = {}
    /\ noticed = 0
    /\ savedFor = [v \in Version |-> 0]
    /\ cached = 0 /\ cachedAge = 0 /\ stale = TRUE
    /\ inFlight = NoFetch
    /\ generation = 0
    /\ asking = [f \in Fetch |-> "free"]
    /\ startedAt = [f \in Fetch |-> 0]
    /\ value = [f \in Fetch |-> 0]
    /\ elapsed = [f \in Fetch |-> 0]
    /\ stage = [r \in Request |-> "idle"]
    /\ waitsFor = [r \in Request |-> NoFetch]
    /\ loadedIn = [r \in Request |-> 0]
    /\ floor = [r \in Request |-> 0]
    /\ got = [r \in Request |-> 0]

-----------------------------------------------------------------------------
(* The backend                                                             *)

\* save: the UPDATE, then notifyGateway.
Save ==
    /\ version < MaxVersion
    /\ version' = version + 1
    /\ notices' = notices \cup {version + 1}
    /\ UNCHANGED <<noticed, savedFor, store, fetches, requests>>

\* The notice is lost: gateway down, timeout, answer that is not ok.
LoseNotice(v) ==
    /\ v \in notices
    /\ notices' = notices \ {v}
    /\ UNCHANGED <<version, noticed, savedFor, store, fetches, requests>>

\* getInternalConfig, for a fetch under way.
Read(f) ==
    /\ asking[f] = "sent"
    /\ asking' = [asking EXCEPT ![f] = "read"]
    /\ value' = [value EXCEPT ![f] = version]
    /\ UNCHANGED <<backend, store, startedAt, elapsed, requests>>

-----------------------------------------------------------------------------
(* The store                                                               *)

\* Variant: a loaded configuration is good until a notice comes.
IsFresh_NoTtl == cached # 0 /\ ~stale

IsFresh == cached # 0 /\ ~stale /\ cachedAge < Ttl

\* Variant: a fetch that is under way goes on serving new requests.
Invalidate_KeepInFlight(v) ==
    /\ v \in notices
    /\ notices' = notices \ {v}
    /\ noticed' = IF v > noticed THEN v ELSE noticed
    /\ generation' = generation + 1
    /\ stale' = TRUE
    /\ UNCHANGED <<version, savedFor, cached, cachedAge, inFlight, fetches, requests>>

\* invalidate, called by the controller of /internal/whatsapp/config/reload.
Invalidate(v) ==
    /\ v \in notices
    /\ notices' = notices \ {v}
    /\ noticed' = IF v > noticed THEN v ELSE noticed
    /\ generation' = generation + 1
    /\ stale' = TRUE
    /\ inFlight' = NoFetch
    /\ UNCHANGED <<version, savedFor, cached, cachedAge, fetches, requests>>

LoadCached(r) ==
    /\ stage[r] # "waiting"
    /\ IsFresh
    /\ stage' = [stage EXCEPT ![r] = "served"]
    /\ got' = [got EXCEPT ![r] = cached]
    /\ loadedIn' = [loadedIn EXCEPT ![r] = generation]
    /\ floor' = [floor EXCEPT ![r] = noticed]
    /\ UNCHANGED <<backend, store, fetches, waitsFor>>

\* The request waits for the fetch under way, or starts one.
LoadFetching(r, f) ==
    /\ stage[r] # "waiting"
    /\ ~IsFresh
    /\ IF inFlight = NoFetch
       THEN /\ asking[f] = "free"
            /\ asking' = [asking EXCEPT ![f] = "sent"]
            /\ startedAt' = [startedAt EXCEPT ![f] = generation]
            /\ elapsed' = [elapsed EXCEPT ![f] = 0]
            /\ inFlight' = f
       ELSE /\ f = inFlight
            /\ UNCHANGED <<asking, startedAt, elapsed, inFlight>>
    /\ stage' = [stage EXCEPT ![r] = "waiting"]
    /\ waitsFor' = [waitsFor EXCEPT ![r] = f]
    /\ loadedIn' = [loadedIn EXCEPT ![r] = generation]
    /\ floor' = [floor EXCEPT ![r] = noticed]
    /\ UNCHANGED <<backend, cached, cachedAge, stale, generation, value, got>>

IsCurrent(f) == startedAt[f] = generation

\* An old answer may fill the empty store, and has to be fetched again.
StaleAfter(f) == ~IsCurrent(f)

\* The promise of f settles: whoever waits for it gets the configuration, and
\* the finally clears inFlight.
Settle(f, config, end) ==
    LET waits(r) == stage[r] = "waiting" /\ waitsFor[r] = f IN
    /\ asking' = [asking EXCEPT ![f] = "free"]
    /\ inFlight' = IF inFlight = f THEN NoFetch ELSE inFlight
    /\ stage' = [r \in Request |-> IF waits(r) THEN end[r] ELSE stage[r]]
    /\ got' = [r \in Request |-> IF waits(r) THEN config ELSE got[r]]

Served ==
    [r \in Request |-> IF loadedIn[r] = generation THEN "served" ELSE "overtaken"]
NotServed == [r \in Request |-> IF cached # 0 THEN "kept" ELSE "refused"]

\* refresh takes the configuration it was given ...
AnswerTaken(f) ==
    /\ asking[f] = "read"
    /\ IsCurrent(f) \/ cached = 0
    /\ cached' = value[f]
    /\ cachedAge' = 0
    /\ stale' = StaleAfter(f)
    /\ Settle(f, value[f], Served)
    /\ UNCHANGED <<backend, generation, startedAt, value, elapsed, waitsFor, loadedIn, floor>>

\* ... or, when a notice came since, leaves it and returns the one it has.
AnswerLeft(f) ==
    /\ asking[f] = "read"
    /\ ~IsCurrent(f) /\ cached # 0
    /\ Settle(f, cached, Served)
    /\ UNCHANGED <<backend, cached, cachedAge, stale, generation,
                   startedAt, value, elapsed, waitsFor, loadedIn, floor>>

Answer(f) == AnswerTaken(f) \/ AnswerLeft(f)

\* The catch: no answer in time, or none that is a configuration.
Fail(f) ==
    /\ asking[f] # "free"
    /\ Settle(f, cached, NotServed)
    /\ UNCHANGED <<backend, cached, cachedAge, stale, generation,
                   startedAt, value, elapsed, waitsFor, loadedIn, floor>>

-----------------------------------------------------------------------------
Older(age, max) == IF age < max THEN age + 1 ELSE max

\* Time passes; a fetch that has reached its timeout fails first.
Tick ==
    /\ \A f \in Fetch : asking[f] # "free" => elapsed[f] < Timeout
    /\ elapsed' = [f \in Fetch |-> IF asking[f] # "free" THEN elapsed[f] + 1 ELSE elapsed[f]]
    /\ cachedAge' = Older(cachedAge, Ttl)
    /\ savedFor' = [v \in Version |->
                           IF v <= version THEN Older(savedFor[v], Limit) ELSE 0]
    /\ UNCHANGED <<version, notices, noticed, cached, stale, inFlight, generation,
                   asking, startedAt, value, requests>>

Next ==
    \/ Save \/ Tick
    \/ \E v \in Version : LoseNotice(v) \/ Invalidate(v)
    \/ \E f \in Fetch : Read(f) \/ Answer(f) \/ Fail(f)
    \/ \E r \in Request : LoadCached(r) \/ \E f \in Fetch : LoadFetching(r, f)

Spec == Init /\ [][Next]_vars

\* Time passes, a fetch ends at its timeout, and, what the network and the
\* citizens owe, requests keep coming and the backend does not fail for ever.
FairSpec ==
    /\ Spec
    /\ WF_vars(Tick)
    /\ \A r \in Request : WF_vars(LoadCached(r) \/ \E f \in Fetch : LoadFetching(r, f))
    /\ \A f \in Fetch :
          /\ WF_vars(elapsed[f] = Timeout /\ Fail(f))
          /\ SF_vars(Read(f)) /\ SF_vars(Answer(f))

-----------------------------------------------------------------------------
(* Properties                                                              *)

\* A request that comes after a reload notice gets the configuration the
\* notice was about, or a newer one: neither an old fetch answering late nor
\* sharing one with earlier requests gives it an older one. Excepted are
\* failed fetches, and requests during whose wait another notice came.
ServedAsNoticed ==
    \A r \in Request : stage[r] = "served" => got[r] >= floor[r]

\* Even when the notice is lost, a configuration is in use no longer than the
\* TTL and one fetch after it was replaced, as long as the backend answers.
StaleIsBounded ==
    IsFresh => \A v \in 1 .. version : savedFor[v] = Limit => cached >= v

\* "Se o aviso falhar, o TTL garante a recarga."
EventuallyReloaded == \A v \in Version : (version = v) ~> (cached >= v)

-----------------------------------------------------------------------------
(* Why the safety properties hold.                                         *)

\* Notices are about versions that were saved, and nothing newer is known.
VersionsSaved ==
    /\ noticed <= version /\ cached <= version
    /\ \A v \in notices : v <= version
    /\ \A f \in Fetch : asking[f] = "read" => value[f] \in 1 .. version

\* A current fetch reads what it will answer after the last notice came.
CurrentIsNoticed ==
    /\ \A f \in Fetch :
          /\ startedAt[f] <= generation
          /\ asking[f] = "read" /\ IsCurrent(f) => value[f] >= noticed
    /\ cached # 0 /\ ~stale => cached >= noticed

\* inFlight is under way and current; who waits loaded in its generation.
SharedIsCurrent ==
    /\ inFlight # NoFetch => asking[inFlight] # "free" /\ IsCurrent(inFlight)
    /\ \A r \in Request :
          /\ floor[r] <= noticed
          /\ stage[r] = "waiting" =>
                /\ waitsFor[r] \in Fetch
                /\ asking[waitsFor[r]] # "free"
                /\ loadedIn[r] = startedAt[waitsFor[r]]

\* What a fetch read was replaced no earlier than the fetch began, and what
\* the store holds no earlier than its fetch.
ReplacedSince ==
    /\ \A v \in Version : v > version => savedFor[v] = 0
    /\ \A f \in Fetch : asking[f] = "read" =>
          \A v \in Version : v > value[f] => savedFor[v] <= elapsed[f]
    /\ cached # 0 => \A v \in Version : v > cached => savedFor[v] <= Timeout + cachedAge

IInv ==
    /\ TypeOK
    /\ VersionsSaved /\ CurrentIsNoticed /\ SharedIsCurrent /\ ReplacedSince
    /\ ServedAsNoticed

=============================================================================

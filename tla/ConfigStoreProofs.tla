-------------------------- MODULE ConfigStoreProofs --------------------------
(***************************************************************************)
(* The safety of ConfigStore for every number of requests, fetches and     *)
(* versions and for every TTL and timeout. IInv is inductive; each lemma   *)
(* shows that a step preserves one of its conjuncts.                       *)
(***************************************************************************)
EXTENDS ConfigStore, TLAPS

\* What refresh does with an answer, either way.
Ends(f) == AnswerTaken(f) \/ AnswerLeft(f) \/ Fail(f)

\* The kinds of step, for the case splits below.
LEMMA Steps ==
    ASSUME [Next]_vars
    PROVE  \/ Save \/ Tick \/ UNCHANGED vars
           \/ \E v \in Version : LoseNotice(v) \/ Invalidate(v)
           \/ \E f \in Fetch : Read(f) \/ AnswerTaken(f) \/ AnswerLeft(f) \/ Fail(f)
           \/ \E r \in Request : LoadCached(r) \/ \E f \in Fetch : LoadFetching(r, f)
BY DEF Next, Answer

\* The constants and the versions are natural numbers.
LEMMA Constants ==
    /\ NoFetch \notin Fetch
    /\ Ttl \in Nat /\ Ttl > 0
    /\ Timeout \in Nat /\ Timeout > 0
    /\ MaxVersion \in Nat /\ MaxVersion > 0
    /\ Limit = Ttl + Timeout /\ Limit \in Nat
BY StoreAssumption DEF Limit

\* What the end of a fetch changes besides the stored configuration.
EndChange(f) ==
    /\ asking[f] # "free" /\ asking'[f] = "free"
    /\ \A g \in Fetch \ {f} : asking'[g] = asking[g]
    /\ inFlight' = IF inFlight = f THEN NoFetch ELSE inFlight
    /\ \A r \in Request :
          IF stage[r] = "waiting" /\ waitsFor[r] = f
          THEN stage'[r] # "waiting"
          ELSE stage'[r] = stage[r] /\ got'[r] = got[r]
    /\ version' = version /\ notices' = notices /\ noticed' = noticed
    /\ savedFor' = savedFor /\ generation' = generation
    /\ startedAt' = startedAt /\ value' = value /\ elapsed' = elapsed
    /\ waitsFor' = waitsFor /\ loadedIn' = loadedIn /\ floor' = floor

\* The stored configuration changes only when the answer is taken.
StoreChange(f) ==
    \/ cached' = cached /\ cachedAge' = cachedAge /\ stale' = stale
    \/ /\ asking[f] = "read"
       /\ cached' = value[f] /\ cachedAge' = 0
       /\ ~stale' => startedAt[f] = generation

\* What a load that has to wait changes.
FetchingChange(r, f) ==
    /\ \/ /\ inFlight = NoFetch /\ inFlight' = f
          /\ asking[f] = "free" /\ asking'[f] = "sent"
          /\ startedAt'[f] = generation /\ elapsed'[f] = 0
          /\ \A g \in Fetch \ {f} : /\ asking'[g] = asking[g]
                                   /\ startedAt'[g] = startedAt[g]
                                   /\ elapsed'[g] = elapsed[g]
       \/ /\ f = inFlight /\ inFlight' = inFlight
          /\ asking' = asking /\ startedAt' = startedAt /\ elapsed' = elapsed
    /\ stage'[r] = "waiting" /\ waitsFor'[r] = f
    /\ loadedIn'[r] = generation /\ floor'[r] = noticed
    /\ \A q \in Request \ {r} :
          /\ stage'[q] = stage[q] /\ waitsFor'[q] = waitsFor[q]
          /\ loadedIn'[q] = loadedIn[q] /\ floor'[q] = floor[q]
    /\ version' = version /\ notices' = notices /\ noticed' = noticed
    /\ savedFor' = savedFor /\ generation' = generation /\ value' = value
    /\ cached' = cached /\ cachedAge' = cachedAge /\ stale' = stale /\ got' = got

\* refresh ends the fetch, whether it was answered or failed.
LEMMA EndsShape ==
    ASSUME TypeOK, NEW f \in Fetch, Ends(f)
    PROVE  EndChange(f) /\ StoreChange(f)
<1>1. asking \in [Fetch -> {"free", "sent", "read"}]
    BY DEF TypeOK
<1>2. CASE AnswerTaken(f)
    BY <1>1, <1>2 DEF AnswerTaken, Settle, Served, StaleAfter, IsCurrent, backend,
                      EndChange, StoreChange
<1>3. CASE AnswerLeft(f)
    BY <1>1, <1>3 DEF AnswerLeft, Settle, Served, backend, EndChange, StoreChange
<1>4. CASE Fail(f)
    BY <1>1, <1>4 DEF Fail, Settle, NotServed, backend, EndChange, StoreChange
<1> QED
    BY <1>2, <1>3, <1>4 DEF Ends

\* load starts a fetch or joins the one under way.
LEMMA FetchingShape ==
    ASSUME TypeOK, NEW r \in Request, NEW f \in Fetch, LoadFetching(r, f)
    PROVE  FetchingChange(r, f)
BY DEF LoadFetching, TypeOK, backend, FetchingChange

\* The types, with the store's and the fetches' states.
LEMMA TypeStep ==
    ASSUME TypeOK, [Next]_vars
    PROVE  TypeOK'
<1> USE Constants DEF TypeOK, Version, Ended
<1>1. CASE Save
    BY <1>1 DEF Save, store, fetches, requests
<1>2. CASE Tick
  <2>1. elapsed' \in [Fetch -> 0 .. Timeout]
      BY <1>2 DEF Tick
  <2>2. cachedAge' \in 0 .. Ttl
      BY <1>2 DEF Tick, Older
  <2>3. savedFor' \in [Version -> 0 .. Limit]
    <3>1. Limit \in Nat
        OBVIOUS
    <3>2. \A v \in Version : (IF v <= version THEN Older(savedFor[v], Limit) ELSE 0) \in 0 .. Limit
        BY <3>1 DEF Older
    <3> QED
        BY <1>2, <3>2 DEF Tick
  <2> QED
      BY <1>2, <2>1, <2>2, <2>3 DEF Tick, requests
<1>3. ASSUME NEW v \in Version, LoseNotice(v) \/ Invalidate(v) PROVE TypeOK'
  <2>1. CASE LoseNotice(v)
      BY <2>1 DEF LoseNotice, store, fetches, requests
  <2>2. CASE Invalidate(v)
      BY <2>2 DEF Invalidate, fetches, requests
  <2> QED
      BY <1>3, <2>1, <2>2
<1>4. ASSUME NEW f \in Fetch, Read(f) PROVE TypeOK'
  <2>1. version \in 0 .. MaxVersion
      OBVIOUS
  <2>2. value' \in [Fetch -> 0 .. MaxVersion] /\ asking' \in [Fetch -> {"free", "sent", "read"}]
      BY <1>4, <2>1 DEF Read
  <2> QED
      BY <1>4, <2>2 DEF Read, backend, store, requests
<1>5. ASSUME NEW f \in Fetch, AnswerTaken(f) PROVE TypeOK'
    BY <1>5 DEF AnswerTaken, Settle, Served, StaleAfter, IsCurrent, backend
<1>6. ASSUME NEW f \in Fetch, AnswerLeft(f) PROVE TypeOK'
    BY <1>6 DEF AnswerLeft, Settle, Served, backend
<1>7. ASSUME NEW f \in Fetch, Fail(f) PROVE TypeOK'
    BY <1>7 DEF Fail, Settle, NotServed, backend
<1>8. ASSUME NEW r \in Request, LoadCached(r) PROVE TypeOK'
    BY <1>8 DEF LoadCached, backend, store, fetches
<1>9. ASSUME NEW r \in Request, NEW f \in Fetch, LoadFetching(r, f) PROVE TypeOK'
  <2>1. asking' \in [Fetch -> {"free", "sent", "read"}] /\ inFlight' \in Fetch \cup {NoFetch}
      BY <1>9 DEF LoadFetching
  <2>2. startedAt' \in [Fetch -> Nat] /\ elapsed' \in [Fetch -> 0 .. Timeout]
    <3>1. 0 \in 0 .. Timeout
        OBVIOUS
    <3>2. [elapsed EXCEPT ![f] = 0] \in [Fetch -> 0 .. Timeout]
        BY <3>1
    <3>3. [startedAt EXCEPT ![f] = generation] \in [Fetch -> Nat]
        OBVIOUS
    <3> QED
        BY <1>9, <3>2, <3>3 DEF LoadFetching
  <2>3. /\ stage' \in [Request -> Ended \cup {"idle", "waiting"}]
        /\ waitsFor' \in [Request -> Fetch \cup {NoFetch}]
        /\ loadedIn' \in [Request -> Nat]
        /\ floor' \in [Request -> 0 .. MaxVersion]
      BY <1>9 DEF LoadFetching
  <2> QED
      BY <1>9, <2>1, <2>2, <2>3 DEF LoadFetching, backend
<1>10. CASE UNCHANGED vars
    BY <1>10 DEF vars, backend, store, fetches, requests
<1> QED
    BY <1>1, <1>2, <1>3, <1>4, <1>5, <1>6, <1>7, <1>8, <1>9, <1>10, Steps

\* Nothing is known of versions that were not saved.
LEMMA VersionsStep ==
    ASSUME TypeOK, VersionsSaved, [Next]_vars
    PROVE  VersionsSaved'
<1> USE Constants DEF TypeOK, Version, VersionsSaved
<1>1. CASE Save
    BY <1>1 DEF Save, store, fetches
<1>2. CASE Tick
    BY <1>2 DEF Tick
<1>3. ASSUME NEW v \in Version, LoseNotice(v) \/ Invalidate(v) PROVE VersionsSaved'
    BY <1>3 DEF LoseNotice, Invalidate, store, fetches
<1>4. ASSUME NEW f \in Fetch, Read(f) PROVE VersionsSaved'
    BY <1>4 DEF Read, backend, store
<1>5. ASSUME NEW f \in Fetch, Ends(f) PROVE VersionsSaved'
  <2>1. EndChange(f) /\ StoreChange(f)
      BY <1>5, EndsShape
  <2> QED
      BY <2>1 DEF EndChange, StoreChange
<1>6. ASSUME NEW r \in Request, LoadCached(r) PROVE VersionsSaved'
    BY <1>6 DEF LoadCached, backend, store, fetches
<1>7. ASSUME NEW r \in Request, NEW f \in Fetch, LoadFetching(r, f) PROVE VersionsSaved'
  <2>1. FetchingChange(r, f)
      BY <1>7, FetchingShape
  <2> QED
      BY <2>1 DEF FetchingChange
<1>8. CASE UNCHANGED vars
    BY <1>8 DEF vars, backend, store, fetches
<1> QED
    BY <1>1, <1>2, <1>3, <1>4, <1>5, <1>6, <1>7, <1>8, Steps DEF Ends

\* invalidate makes every fetch under way an old one; a fetch that begins
\* after it reads what the notice was about.
LEMMA NoticedStep ==
    ASSUME TypeOK, VersionsSaved, CurrentIsNoticed, [Next]_vars
    PROVE  CurrentIsNoticed'
<1> USE Constants DEF TypeOK, Version, CurrentIsNoticed, IsCurrent
<1>1. CASE Save
    BY <1>1 DEF Save, store, fetches
<1>2. CASE Tick
    BY <1>2 DEF Tick
<1>3. ASSUME NEW v \in Version, LoseNotice(v) PROVE CurrentIsNoticed'
    BY <1>3 DEF LoseNotice, store, fetches
<1>4. ASSUME NEW v \in Version, Invalidate(v) PROVE CurrentIsNoticed'
    BY <1>4 DEF Invalidate, fetches
<1>5. ASSUME NEW f \in Fetch, Read(f) PROVE CurrentIsNoticed'
    BY <1>5 DEF Read, backend, store, VersionsSaved
<1>6. ASSUME NEW f \in Fetch, Ends(f) PROVE CurrentIsNoticed'
  <2>1. EndChange(f) /\ StoreChange(f)
      BY <1>6, EndsShape
  <2>2. \A g \in Fetch : asking'[g] = "read" => asking[g] = "read"
      BY <2>1 DEF EndChange
  <2>3. /\ startedAt' = startedAt /\ generation' = generation
        /\ value' = value /\ noticed' = noticed
      BY <2>1 DEF EndChange
  <2>4. cached' # 0 /\ ~stale' => cached' >= noticed'
    <3>1. CASE cached' = cached /\ stale' = stale
        BY <2>3, <3>1
    <3>2. CASE asking[f] = "read" /\ cached' = value[f] /\ (~stale' => startedAt[f] = generation)
        BY <2>3, <3>2
    <3> QED
        BY <2>1, <3>1, <3>2 DEF StoreChange
  <2> QED
      BY <2>2, <2>3, <2>4
<1>7. ASSUME NEW r \in Request, LoadCached(r) PROVE CurrentIsNoticed'
    BY <1>7 DEF LoadCached, backend, store, fetches
<1>8. ASSUME NEW r \in Request, NEW f \in Fetch, LoadFetching(r, f) PROVE CurrentIsNoticed'
  <2>1. FetchingChange(r, f)
      BY <1>8, FetchingShape
  <2>2. /\ generation' = generation /\ value' = value /\ noticed' = noticed
        /\ cached' = cached /\ stale' = stale
      BY <2>1 DEF FetchingChange
  <2>3. ASSUME NEW g \in Fetch
        PROVE  /\ startedAt'[g] = startedAt[g] \/ startedAt'[g] = generation
               /\ asking'[g] = "read" => asking[g] = "read" /\ startedAt'[g] = startedAt[g]
      BY <2>1 DEF FetchingChange
  <2>4. ASSUME NEW g \in Fetch PROVE startedAt'[g] <= generation
    <3>1. startedAt[g] <= generation /\ generation <= generation
        OBVIOUS
    <3>2. CASE startedAt'[g] = startedAt[g]
        BY <3>1, <3>2
    <3>3. CASE startedAt'[g] = generation
        BY <3>1, <3>3
    <3> QED
        BY <2>3, <3>2, <3>3
  <2> QED
      BY <2>2, <2>3, <2>4
<1>9. CASE UNCHANGED vars
    BY <1>9 DEF vars, backend, store, fetches
<1> QED
    BY <1>1, <1>2, <1>3, <1>4, <1>5, <1>6, <1>7, <1>8, <1>9, Steps DEF Ends

\* A fetch is shared only by requests of its generation.
LEMMA SharedStep ==
    ASSUME TypeOK, CurrentIsNoticed, SharedIsCurrent, [Next]_vars
    PROVE  SharedIsCurrent'
<1> USE Constants DEF TypeOK, Version, SharedIsCurrent, IsCurrent
<1>1. CASE Save
    BY <1>1 DEF Save, store, fetches, requests
<1>2. CASE Tick
    BY <1>2 DEF Tick, requests
<1>3. ASSUME NEW v \in Version, LoseNotice(v) PROVE SharedIsCurrent'
    BY <1>3 DEF LoseNotice, store, fetches, requests
<1>4. ASSUME NEW v \in Version, Invalidate(v) PROVE SharedIsCurrent'
    BY <1>4 DEF Invalidate, fetches, requests
<1>5. ASSUME NEW f \in Fetch, Read(f) PROVE SharedIsCurrent'
    BY <1>5 DEF Read, backend, store, requests
<1>6. ASSUME NEW f \in Fetch, Ends(f) PROVE SharedIsCurrent'
  <2>1. EndChange(f) /\ StoreChange(f)
      BY <1>6, EndsShape
  <2> QED
      BY <2>1 DEF EndChange, StoreChange
<1>7. ASSUME NEW r \in Request, LoadCached(r) PROVE SharedIsCurrent'
    BY <1>7 DEF LoadCached, backend, store, fetches
<1>8. ASSUME NEW r \in Request, NEW f \in Fetch, LoadFetching(r, f) PROVE SharedIsCurrent'
  <2>1. FetchingChange(r, f)
      BY <1>8, FetchingShape
  <2>2. noticed' = noticed /\ generation' = generation
      BY <2>1 DEF FetchingChange
  <2>3. inFlight' = f /\ asking'[f] # "free" /\ startedAt'[f] = generation
      BY <2>1 DEF FetchingChange
  <2>4. \A g \in Fetch : asking[g] # "free" =>
            asking'[g] # "free" /\ startedAt'[g] = startedAt[g]
      BY <2>1 DEF FetchingChange
  <2>5. ASSUME NEW q \in Request
        PROVE  /\ floor'[q] <= noticed
               /\ stage'[q] = "waiting" =>
                     /\ waitsFor'[q] \in Fetch
                     /\ asking'[waitsFor'[q]] # "free"
                     /\ loadedIn'[q] = startedAt'[waitsFor'[q]]
    <3>1. CASE q = r
        BY <2>1, <2>3, <3>1 DEF FetchingChange
    <3>2. CASE q # r
      <4>1. /\ stage'[q] = stage[q] /\ waitsFor'[q] = waitsFor[q]
            /\ loadedIn'[q] = loadedIn[q] /\ floor'[q] = floor[q]
          BY <2>1, <3>2 DEF FetchingChange
      <4> QED
          BY <2>4, <4>1
    <3> QED
        BY <3>1, <3>2
  <2> QED
      BY <2>2, <2>3, <2>5
<1>9. CASE UNCHANGED vars
    BY <1>9 DEF vars, backend, store, fetches, requests
<1> QED
    BY <1>1, <1>2, <1>3, <1>4, <1>5, <1>6, <1>7, <1>8, <1>9, Steps DEF Ends

\* What was replaced ages no faster than the fetch that read it.
LEMMA ReplacedStep ==
    ASSUME TypeOK, VersionsSaved, ReplacedSince, [Next]_vars
    PROVE  ReplacedSince'
<1> USE Constants DEF TypeOK, Version, ReplacedSince
<1>1. CASE Save
    BY <1>1 DEF Save, store, fetches
<1>2. CASE Tick
  <2>0. Limit \in Nat
      OBVIOUS
  <2>1. \A v \in Version : /\ v > version => savedFor'[v] = 0
                           /\ savedFor'[v] <= savedFor[v] + 1
                           /\ savedFor'[v] <= Limit
      BY <1>2, <2>0 DEF Tick, Older
  <2>2. \A f \in Fetch : asking[f] # "free" => elapsed'[f] = elapsed[f] + 1
      BY <1>2 DEF Tick
  <2>3. cachedAge' = cachedAge + 1 \/ (cachedAge = Ttl /\ cachedAge' = Ttl)
      BY <1>2 DEF Tick, Older
  <2>4. UNCHANGED <<version, cached, asking, value>>
      BY <1>2 DEF Tick
  <2>5. \A f \in Fetch : asking[f] = "read" =>
            \A v \in Version : v > value[f] => savedFor'[v] <= elapsed'[f]
    <3> SUFFICES ASSUME NEW f \in Fetch, asking[f] = "read", NEW v \in Version, v > value[f]
                 PROVE  savedFor'[v] <= elapsed'[f]
        OBVIOUS
    <3>1. savedFor[v] <= elapsed[f] /\ savedFor[v] \in Nat /\ elapsed[f] \in Nat
        OBVIOUS
    <3>2. savedFor'[v] \in Nat
        BY <1>2, <2>0 DEF Tick, Older
    <3>3. elapsed'[f] = elapsed[f] + 1
        BY <2>2
    <3> QED
        BY <2>1, <3>1, <3>2, <3>3
  <2>6. cached # 0 => \A v \in Version : v > cached => savedFor'[v] <= Timeout + cachedAge'
    <3> SUFFICES ASSUME cached # 0, NEW v \in Version, v > cached
                 PROVE  savedFor'[v] <= Timeout + cachedAge'
        OBVIOUS
    <3>1. savedFor[v] <= Timeout + cachedAge /\ savedFor[v] \in Nat /\ cachedAge \in Nat
        OBVIOUS
    <3>2. savedFor'[v] \in Nat
        BY <1>2, <2>0 DEF Tick, Older
    <3> QED
        BY <2>0, <2>1, <2>3, <3>1, <3>2
  <2> QED
      BY <2>1, <2>4, <2>5, <2>6
<1>3. ASSUME NEW v \in Version, LoseNotice(v) \/ Invalidate(v) PROVE ReplacedSince'
    BY <1>3 DEF LoseNotice, Invalidate, store, fetches
<1>4. ASSUME NEW f \in Fetch, Read(f) PROVE ReplacedSince'
    BY <1>4 DEF Read, backend, store
<1>6. ASSUME NEW f \in Fetch, Ends(f) PROVE ReplacedSince'
  <2>1. EndChange(f) /\ StoreChange(f)
      BY <1>6, EndsShape
  <2>2. \A g \in Fetch : asking'[g] = "read" => asking[g] = "read"
      BY <2>1 DEF EndChange
  <2>3. /\ version' = version /\ savedFor' = savedFor
        /\ value' = value /\ elapsed' = elapsed
      BY <2>1 DEF EndChange
  <2>4. ASSUME cached' # 0, NEW v \in Version, v > cached'
        PROVE  savedFor[v] <= Timeout + cachedAge'
    <3>1. CASE cached' = cached /\ cachedAge' = cachedAge
        BY <2>4, <3>1
    <3>2. CASE asking[f] = "read" /\ cached' = value[f] /\ cachedAge' = 0
      <4>1. savedFor[v] <= elapsed[f] /\ elapsed[f] <= Timeout
          BY <2>4, <3>2
      <4> QED
          BY <3>2, <4>1
    <3> QED
        BY <2>1, <3>1, <3>2 DEF StoreChange
  <2> QED
      BY <2>2, <2>3, <2>4
<1>7. ASSUME NEW r \in Request, LoadCached(r) PROVE ReplacedSince'
    BY <1>7 DEF LoadCached, backend, store, fetches
<1>8. ASSUME NEW r \in Request, NEW f \in Fetch, LoadFetching(r, f) PROVE ReplacedSince'
  <2>1. FetchingChange(r, f)
      BY <1>8, FetchingShape
  <2> QED
      BY <2>1 DEF FetchingChange
<1>9. CASE UNCHANGED vars
    BY <1>9 DEF vars, backend, store, fetches
<1> QED
    BY <1>1, <1>2, <1>3, <1>4, <1>6, <1>7, <1>8, <1>9, Steps DEF Ends

\* A request is served what its own generation fetched, or what is fresh.
LEMMA ServedStep ==
    ASSUME IInv, [Next]_vars
    PROVE  ServedAsNoticed'
<1> USE Constants DEF IInv, TypeOK, Version, ServedAsNoticed
<1>1. ASSUME NEW f \in Fetch, AnswerTaken(f), NEW r \in Request, stage'[r] = "served"
      PROVE  got'[r] >= floor'[r]
  <2>1. CASE stage[r] = "waiting" /\ waitsFor[r] = f
    <3>1. loadedIn[r] = generation /\ got'[r] = value[f] /\ floor'[r] = floor[r]
        BY <1>1, <2>1 DEF AnswerTaken, Settle, Served
    <3>2. IsCurrent(f) /\ asking[f] = "read"
        BY <1>1, <2>1, <3>1 DEF AnswerTaken, SharedIsCurrent, IsCurrent
    <3>3. value[f] >= noticed /\ noticed >= floor[r]
        BY <3>2 DEF CurrentIsNoticed, SharedIsCurrent
    <3> QED
        BY <3>1, <3>3
  <2>2. CASE ~(stage[r] = "waiting" /\ waitsFor[r] = f)
      BY <1>1, <2>2 DEF AnswerTaken, Settle
  <2> QED
      BY <2>1, <2>2
<1>2. ASSUME NEW f \in Fetch, AnswerLeft(f) PROVE ServedAsNoticed'
    BY <1>2 DEF AnswerLeft, Settle, Served, SharedIsCurrent, IsCurrent
<1>3. ASSUME NEW f \in Fetch, Fail(f) PROVE ServedAsNoticed'
    BY <1>3 DEF Fail, Settle, NotServed
<1>4. ASSUME NEW r \in Request, LoadCached(r) PROVE ServedAsNoticed'
    BY <1>4 DEF LoadCached, IsFresh, CurrentIsNoticed
<1>5. ASSUME NEW r \in Request, NEW f \in Fetch, LoadFetching(r, f) PROVE ServedAsNoticed'
    BY <1>5 DEF LoadFetching
<1>6. CASE UNCHANGED requests
    BY <1>6 DEF requests
<1>7. Save \/ Tick \/ UNCHANGED vars => UNCHANGED requests
    BY DEF Save, Tick, vars
<1>8. \A v \in Version : LoseNotice(v) \/ Invalidate(v) => UNCHANGED requests
    BY DEF LoseNotice, Invalidate
<1>9. \A f \in Fetch : Read(f) => UNCHANGED requests
    BY DEF Read
<1> QED
    BY <1>1, <1>2, <1>3, <1>4, <1>5, <1>6, <1>7, <1>8, <1>9, Steps

\* The inductive invariant, with the types, holds in every reachable state.
THEOREM StoreInvariance == Spec => []IInv
<1>1. Init => IInv
    BY Constants
       DEF Init, IInv, TypeOK, Version, Limit, VersionsSaved, CurrentIsNoticed,
           SharedIsCurrent, ReplacedSince, ServedAsNoticed, IsCurrent
<1>2. IInv /\ [Next]_vars => IInv'
    BY TypeStep, VersionsStep, NoticedStep, SharedStep, ReplacedStep, ServedStep DEF IInv
<1> QED
    BY <1>1, <1>2, PTL DEF Spec

\* A request made after a reload notice is served what the notice was about:
\* generation, stale and inFlight of whatsappConfigStore.ts do their work.
THEOREM ServedTheorem == Spec => []ServedAsNoticed
<1>1. IInv => ServedAsNoticed
    BY DEF IInv
<1> QED
    BY <1>1, StoreInvariance, PTL

\* Without any notice a replaced configuration is in use no longer than one
\* TTL and one fetch.
THEOREM StaleTheorem == Spec => []StaleIsBounded
<1>1. IInv => StaleIsBounded
  <2> SUFFICES ASSUME IInv, IsFresh, NEW v \in 1 .. version, savedFor[v] = Limit
               PROVE  cached >= v
      BY DEF StaleIsBounded
  <2>1. v \in Version /\ v \in Nat /\ cached \in Nat
      BY Constants DEF IInv, TypeOK, Version
  <2>2. cachedAge \in Nat /\ cachedAge < Ttl /\ cached # 0
      BY Constants DEF IInv, TypeOK, IsFresh
  <2>3. v > cached => savedFor[v] <= Timeout + cachedAge
      BY <2>1, <2>2 DEF IInv, ReplacedSince
  <2> QED
      BY <2>1, <2>2, <2>3, Constants
<1> QED
    BY <1>1, StoreInvariance, PTL

==============================================================================

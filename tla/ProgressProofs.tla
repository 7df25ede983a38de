---------------------------- MODULE ProgressProofs ----------------------------
(***************************************************************************)
(* The bounds of the pools, for any number of pages, hosts, browsers,      *)
(* requests, threads, processes and collections: the fetches of a batch of *)
(* the content worker, the requests of the dashboard's server, and the     *)
(* collections on a host.                                                  *)
(***************************************************************************)
EXTENDS MCProgress, TLAPS, FiniteSetTheorems

\* A module that is instantiated brings its own copy of FiniteSets.
LEMMA SameFinite ==
    \A S : /\ Fetches!IsFiniteSet(S) <=> IsFiniteSet(S)
           /\ Pool!IsFiniteSet(S) <=> IsFiniteSet(S)
           /\ Host!IsFiniteSet(S) <=> IsFiniteSet(S)
BY DEF Fetches!IsFiniteSet, Pool!IsFiniteSet, Host!IsFiniteSet, IsFiniteSet

LEMMA SameCardinality ==
    \A S : /\ Fetches!Cardinality(S) = Cardinality(S)
           /\ Pool!Cardinality(S) = Cardinality(S)
           /\ Host!Cardinality(S) = Cardinality(S)
BY DEF Fetches!Cardinality, Pool!Cardinality, Host!Cardinality, Cardinality

\* An element more, an element less.
LEMMA AddingOne ==
    ASSUME NEW S, IsFiniteSet(S), NEW x
    PROVE  /\ IsFiniteSet(S \cup {x}) /\ IsFiniteSet(S \ {x})
           /\ Cardinality(S) \in Nat
           /\ Cardinality(S \cup {x}) \in Nat /\ Cardinality(S \ {x}) \in Nat
           /\ Cardinality(S \cup {x}) <= Cardinality(S) + 1
           /\ x \notin S => Cardinality(S \cup {x}) = Cardinality(S) + 1
           /\ x \in S => Cardinality(S) = Cardinality(S \ {x}) + 1
<1>1. IsFiniteSet(S \cup {x}) /\ IsFiniteSet(S \ {x})
  BY FS_AddElement, FS_RemoveElement
<1>2. /\ Cardinality(S) \in Nat
      /\ Cardinality(S \cup {x}) \in Nat /\ Cardinality(S \ {x}) \in Nat
  BY <1>1, FS_CardinalityType
<1>3. Cardinality(S \cup {x}) = IF x \in S THEN Cardinality(S) ELSE Cardinality(S) + 1
  BY FS_AddElement
<1>4. Cardinality(S \ {x}) = IF x \in S THEN Cardinality(S) - 1 ELSE Cardinality(S)
  BY FS_RemoveElement
<1>5. QED
  BY <1>1, <1>2, <1>3, <1>4

-----------------------------------------------------------------------------
(* Fetches.                                                                 *)

FetchPlaces == {"start", "host", "request", "browser", "render", "answer",
                "host again", "rendered", "done"}
Talking == {"request", "browser", "render"}

Rendering == {f \in Pages : fetch[f].pc = "render"}

\* A fetch that talks holds its host, one that renders a browser too, and no
\* two fetches hold a host.
FetchInv ==
    /\ fetch \in [Pages -> [pc : FetchPlaces, host : BOOLEAN, browser : BOOLEAN]]
    /\ page \in [Pages -> Fetches!Responses \cup {"none"}]
    /\ \A f \in Pages :
          /\ fetch[f].host <=> fetch[f].pc \in Talking
          /\ fetch[f].browser <=> fetch[f].pc = "render"
    /\ \A f, g \in Pages :
          fetch[f].host /\ fetch[g].host /\ HostOfPage[f] = HostOfPage[g] => f = g
    /\ Cardinality(Rendering) <= Browsers

LEMMA FetchSizes == IsFiniteSet(Pages) /\ Browsers \in Nat
BY FetchAssumption, SameFinite DEF Fetches!PoolAssumption

LEMMA FetchInit == Fetches!Init => FetchInv
<1> SUFFICES ASSUME Fetches!Init PROVE FetchInv
  OBVIOUS
<1>0. fetch = [f \in Pages |-> [pc |-> "start", host |-> FALSE, browser |-> FALSE]]
  BY DEF Fetches!Init, Fetches!Started
<1>1. Rendering = {}
  BY <1>0 DEF Rendering
<1>2. Cardinality(Rendering) <= Browsers
  BY <1>1, FS_EmptySet, FetchSizes
<1>3. \A f \in Pages : fetch[f].pc = "start" /\ fetch[f].host = FALSE /\ fetch[f].browser = FALSE
  BY <1>0
<1>4. fetch \in [Pages -> [pc : FetchPlaces, host : BOOLEAN, browser : BOOLEAN]]
  BY <1>0 DEF FetchPlaces
<1>5. page \in [Pages -> Fetches!Responses \cup {"none"}]
  BY DEF Fetches!Init
<1>6. QED
  BY <1>2, <1>3, <1>4, <1>5 DEF FetchInv, Talking

\* Rendering pages after a step of one fetch.
LEMMA RendersAfter ==
    ASSUME FetchInv, NEW f \in Pages, NEW to,
           \A g \in Pages : fetch'[g].pc = IF g = f THEN to ELSE fetch[g].pc,
           to = "render" => Fetches!BrowserFree
    PROVE  Cardinality(Rendering') <= Browsers
<1>1. IsFiniteSet(Rendering) /\ Cardinality(Rendering) <= Browsers /\ Browsers \in Nat
  BY FS_Subset, FetchSizes DEF FetchInv, Rendering
<1>2. CASE to # "render"
  <2>1. Rendering' \subseteq Rendering
    BY <1>2 DEF Rendering
  <2>2. QED
    BY <1>1, <2>1, FS_Subset, FS_CardinalityType
<1>3. CASE to = "render"
  <2>1. Rendering' = Rendering \cup {f}
    BY <1>3 DEF Rendering
  <2>2. Rendering = {g \in Pages : fetch[g].browser}
    BY DEF FetchInv, Rendering
  <2>3. Cardinality(Rendering) < Browsers
    BY <1>3, <2>2, SameCardinality DEF Fetches!BrowserFree
  <2>4. /\ Cardinality(Rendering') <= Cardinality(Rendering) + 1
        /\ Cardinality(Rendering') \in Nat /\ Cardinality(Rendering) \in Nat
    BY <1>1, <2>1, AddingOne
  <2>5. QED
    BY <1>1, <2>3, <2>4
<1>4. QED
  BY <1>2, <1>3

\* A fetch goes on to a place, with what belongs to it.
LEMMA FetchMoves ==
    ASSUME FetchInv, NEW f \in Pages, NEW to \in FetchPlaces,
           page' \in [Pages -> Fetches!Responses \cup {"none"}],
           \/ to \notin Talking /\ Fetches!Becomes(f, to, FALSE, FALSE)
           \/ /\ to \in {"request", "browser"} /\ Fetches!Becomes(f, to, TRUE, FALSE)
              /\ fetch[f].host \/ Fetches!HostFree(HostOfPage[f])
           \/ /\ to = "render" /\ Fetches!Becomes(f, to, TRUE, TRUE)
              /\ fetch[f].host /\ Fetches!BrowserFree
    PROVE  FetchInv'
<1>1. PICK row \in [pc : FetchPlaces, host : BOOLEAN, browser : BOOLEAN] :
        /\ fetch' = [fetch EXCEPT ![f] = row]
        /\ row.pc = to
        /\ row.host <=> to \in Talking
        /\ row.browser <=> to = "render"
  <2>1. CASE to \notin Talking /\ Fetches!Becomes(f, to, FALSE, FALSE)
    <3> WITNESS [pc |-> to, host |-> FALSE, browser |-> FALSE]
                  \in [pc : FetchPlaces, host : BOOLEAN, browser : BOOLEAN]
    <3> QED
      BY <2>1 DEF Fetches!Becomes, Talking
  <2>2. CASE to \in {"request", "browser"} /\ Fetches!Becomes(f, to, TRUE, FALSE)
    <3> WITNESS [pc |-> to, host |-> TRUE, browser |-> FALSE]
                  \in [pc : FetchPlaces, host : BOOLEAN, browser : BOOLEAN]
    <3> QED
      BY <2>2 DEF Fetches!Becomes, Talking
  <2>3. CASE to = "render" /\ Fetches!Becomes(f, to, TRUE, TRUE)
    <3> WITNESS [pc |-> to, host |-> TRUE, browser |-> TRUE]
                  \in [pc : FetchPlaces, host : BOOLEAN, browser : BOOLEAN]
    <3> QED
      BY <2>3 DEF Fetches!Becomes, Talking
  <2>4. QED
    BY <2>1, <2>2, <2>3
<1>2. /\ fetch' \in [Pages -> [pc : FetchPlaces, host : BOOLEAN, browser : BOOLEAN]]
      /\ \A g \in Pages : fetch'[g] = IF g = f THEN row ELSE fetch[g]
  BY <1>1 DEF FetchInv
<1>3. Cardinality(Rendering') <= Browsers
  BY <1>1, <1>2, RendersAfter DEF Talking
<1>4. \A g \in Pages : /\ fetch'[g].host <=> fetch'[g].pc \in Talking
                       /\ fetch'[g].browser <=> fetch'[g].pc = "render"
  BY <1>1, <1>2 DEF FetchInv
<1>5. row.host => fetch[f].host \/ Fetches!HostFree(HostOfPage[f])
  BY <1>1
<1>6. ASSUME NEW g \in Pages, NEW h \in Pages, fetch'[g].host, fetch'[h].host,
             HostOfPage[g] = HostOfPage[h]
      PROVE  g = h
  <2>1. CASE fetch[f].host
    BY <1>2, <1>6, <2>1 DEF FetchInv
  <2>2. CASE Fetches!HostFree(HostOfPage[f])
    BY <1>2, <1>6, <2>2 DEF FetchInv, Fetches!HostFree, Fetches!Holds
  <2>3. CASE ~row.host
    BY <1>2, <1>6, <2>3 DEF FetchInv
  <2>4. QED
    BY <1>5, <2>1, <2>2, <2>3
<1>7. QED
  BY <1>2, <1>3, <1>4, <1>6 DEF FetchInv

LEMMA FetchStep == FetchInv /\ Fetches!Next => FetchInv'
<1> SUFFICES ASSUME FetchInv, NEW f \in Pages, Fetches!Step(f) PROVE FetchInv'
  BY DEF Fetches!Next
<1> USE DEF Talking, FetchPlaces
<1>0. /\ page \in [Pages -> Fetches!Responses \cup {"none"}]
      /\ fetch[f].host <=> fetch[f].pc \in Talking
  BY DEF FetchInv
<1>1. ASSUME NEW safe \in BOOLEAN, Fetches!Check(f, safe) PROVE FetchInv'
  BY <1>0, <1>1, FetchMoves DEF Fetches!Check
<1>2. CASE Fetches!LockHost(f)
  BY <1>0, <1>2, FetchMoves DEF Fetches!LockHost
<1>3. CASE Fetches!Request(f)
  <2>1. fetch[f].host
    BY <1>0, <1>3 DEF Fetches!Request
  <2>2. CASE Fetches!Fails(f) /\ UNCHANGED page
    BY <1>0, <2>2, FetchMoves DEF Fetches!Fails
  <2>3. ASSUME NEW r \in Fetches!Responses, page' = [page EXCEPT ![f] = r],
               \/ Fetches!Becomes(f, "browser", TRUE, FALSE)
               \/ Fetches!Becomes(f, "answer", FALSE, FALSE)
        PROVE  FetchInv'
    <3>1. page' \in [Pages -> Fetches!Responses \cup {"none"}]
      BY <1>0, <2>3
    <3>2. QED
      BY <2>1, <2>3, <3>1, FetchMoves
  <2>4. QED
    BY <1>3, <2>2, <2>3 DEF Fetches!Request
<1>4. CASE Fetches!TakeBrowser(f)
  BY <1>0, <1>4, FetchMoves DEF Fetches!TakeBrowser
<1>5. CASE Fetches!Render(f)
  <2>1. page' \in [Pages -> Fetches!Responses \cup {"none"}]
    BY <1>0, <1>5 DEF Fetches!Render, Fetches!Responses
  <2>2. QED
    BY <1>5, <2>1, FetchMoves DEF Fetches!Render
<1>6. CASE Fetches!Answer(f)
  BY <1>0, <1>6, FetchMoves DEF Fetches!Answer
<1>7. CASE Fetches!Return(f)
  BY <1>0, <1>7, FetchMoves DEF Fetches!Return, Fetches!Fails
<1>8. QED
  BY <1>1, <1>2, <1>3, <1>4, <1>5, <1>6, <1>7 DEF Fetches!Step

LEMMA FetchHolds ==
    FetchInv => Fetches!TypeOK /\ Fetches!OnePerHost /\ Fetches!BrowsersBounded
BY SameCardinality
   DEF FetchInv, Rendering, FetchPlaces, Talking,
       Fetches!TypeOK, Fetches!OnePerHost, Fetches!BrowsersBounded

-----------------------------------------------------------------------------
(* Requests.                                                                *)

RequestPlaces == {"new", "rejected", "counted", "queued", "refused", "started",
                  "served", "broken", "cancelled"}
HoldingPlaces == {"counted", "queued", "started", "cancelled"}

\* The requests at some places.
At(places) == {r \in Requests : request[r] \in places}

\* The counters of the pool count the requests.
RequestInv ==
    /\ request \in [Requests -> RequestPlaces]
    /\ slots = MaxPending - Cardinality(At(HoldingPlaces))
    /\ slots \in 0..MaxPending
    /\ active = Cardinality(At({"started"})) /\ active \in 0..MaxWorkers
    /\ accepted \in Nat /\ rejected \in Nat
    /\ accepted + rejected = Cardinality(Requests) - Cardinality(At({"new"}))

LEMMA RequestSizes ==
    /\ IsFiniteSet(Requests) /\ MaxWorkers \in Nat /\ MaxPending \in Nat
    /\ \A places : /\ IsFiniteSet(At(places)) /\ Cardinality(At(places)) \in Nat
                   /\ Cardinality(At(places)') \in Nat
    /\ Cardinality(Requests) \in Nat
<1>1. IsFiniteSet(Requests) /\ MaxWorkers \in Nat /\ MaxPending \in Nat
  BY RequestAssumption, SameFinite DEF Pool!PoolAssumption
<1>2. ASSUME NEW places PROVE IsFiniteSet(At(places)) /\ IsFiniteSet(At(places)')
  BY <1>1, FS_Subset DEF At
<1>3. QED
  BY <1>1, <1>2, FS_CardinalityType

LEMMA RequestInit == Pool!Init => RequestInv
<1> SUFFICES ASSUME Pool!Init PROVE RequestInv
  OBVIOUS
<1>1. request = [r \in Requests |-> "new"]
  BY DEF Pool!Init
<1>2. At(HoldingPlaces) = {} /\ At({"started"}) = {} /\ At({"new"}) = Requests
  BY <1>1 DEF At, HoldingPlaces
<1>3. QED
  BY <1>1, <1>2, RequestSizes, FS_EmptySet DEF Pool!Init, RequestInv, RequestPlaces

\* How the requests at some places change when one request moves.
LEMMA CountAfterMove ==
    ASSUME request \in [Requests -> RequestPlaces], NEW r \in Requests, NEW to \in RequestPlaces,
           Pool!Move(r, to), NEW places
    PROVE  /\ request' \in [Requests -> RequestPlaces]
           /\ (request[r] \in places <=> to \in places) => At(places)' = At(places)
           /\ request[r] \notin places /\ to \in places =>
                 Cardinality(At(places)') = Cardinality(At(places)) + 1
           /\ request[r] \in places /\ to \notin places =>
                 Cardinality(At(places)') = Cardinality(At(places)) - 1
<1>1. /\ request' \in [Requests -> RequestPlaces]
      /\ \A q \in Requests : request'[q] = IF q = r THEN to ELSE request[q]
  BY DEF Pool!Move
<1>2. (request[r] \in places <=> to \in places) => At(places)' = At(places)
  BY <1>1 DEF At
<1>3. IsFiniteSet(At(places)) /\ Cardinality(At(places)) \in Nat
  BY RequestSizes
<1>4. ASSUME request[r] \notin places, to \in places
      PROVE  Cardinality(At(places)') = Cardinality(At(places)) + 1
  <2>1. At(places)' = At(places) \cup {r} /\ r \notin At(places)
    BY <1>1, <1>4 DEF At
  <2>2. QED
    BY <1>3, <2>1, AddingOne
<1>5. ASSUME request[r] \in places, to \notin places
      PROVE  Cardinality(At(places)') = Cardinality(At(places)) - 1
  <2>1. At(places)' = At(places) \ {r} /\ r \in At(places)
    BY <1>1, <1>5 DEF At
  <2>2. Cardinality(At(places)) = Cardinality(At(places)') + 1
    BY <1>3, <2>1, AddingOne
  <2>3. Cardinality(At(places)') \in Nat
    BY <1>3, <2>1, AddingOne
  <2>4. QED
    BY <1>3, <2>2, <2>3
<1>6. QED
  BY <1>1, <1>2, <1>4, <1>5

LEMMA RequestStep == RequestInv /\ Pool!Next => RequestInv'
<1> SUFFICES ASSUME RequestInv, Pool!Next PROVE RequestInv'
  OBVIOUS
<1> DEFINE held == Cardinality(At(HoldingPlaces))
           busy == Cardinality(At({"started"}))
           fresh == Cardinality(At({"new"}))
<1>0. /\ held \in Nat /\ busy \in Nat /\ fresh \in Nat
      /\ held' \in Nat /\ busy' \in Nat /\ fresh' \in Nat
      /\ MaxWorkers \in Nat /\ MaxPending \in Nat /\ Cardinality(Requests) \in Nat
  BY RequestSizes
<1>1. CASE Pool!Close
  <2>1. \A r \in Requests : request'[r] = IF request[r] = "queued" THEN "cancelled" ELSE request[r]
    BY <1>1 DEF Pool!Close
  <2>2. request' \in [Requests -> RequestPlaces]
    BY <1>1 DEF Pool!Close, RequestInv, RequestPlaces
  <2>3. /\ At(HoldingPlaces)' = At(HoldingPlaces)
        /\ At({"started"})' = At({"started"})
        /\ At({"new"})' = At({"new"})
    BY <2>1 DEF At, HoldingPlaces
  <2>4. QED
    BY <1>1, <2>2, <2>3 DEF Pool!Close, RequestInv
<1>2. ASSUME NEW r \in Requests, Pool!Step(r) PROVE RequestInv'
  <2>0. request \in [Requests -> RequestPlaces]
    BY DEF RequestInv
  <2>1. CASE Pool!Reject(r)
    <3>1. /\ request' \in [Requests -> RequestPlaces]
          /\ held' = held /\ busy' = busy /\ fresh' = fresh - 1
      BY <2>0, <2>1, CountAfterMove DEF Pool!Reject, RequestPlaces, HoldingPlaces
    <3> HIDE DEF held, busy, fresh
    <3>2. QED
      BY <1>0, <2>1, <3>1 DEF Pool!Reject, RequestInv, held, busy, fresh
  <2>2. CASE Pool!Accept(r)
    <3>1. /\ request' \in [Requests -> RequestPlaces]
          /\ held' = held + 1 /\ busy' = busy /\ fresh' = fresh - 1
      BY <2>0, <2>2, CountAfterMove DEF Pool!Accept, RequestPlaces, HoldingPlaces
    <3>2. QED
      BY <1>0, <2>2, <3>1 DEF Pool!Accept, RequestInv
  <2>3. CASE Pool!Submit(r)
    <3>1. /\ request' \in [Requests -> RequestPlaces]
          /\ held' = held /\ busy' = busy /\ fresh' = fresh
      BY <2>0, <2>3, CountAfterMove DEF Pool!Submit, RequestPlaces, HoldingPlaces
    <3>2. QED
      BY <1>0, <2>3, <3>1 DEF Pool!Submit, RequestInv
  <2>4. CASE Pool!Refuse(r)
    <3>1. /\ request' \in [Requests -> RequestPlaces]
          /\ held' = held - 1 /\ busy' = busy /\ fresh' = fresh
      BY <2>0, <2>4, CountAfterMove DEF Pool!Refuse, RequestPlaces, HoldingPlaces
    <3>2. QED
      BY <1>0, <2>4, <3>1 DEF Pool!Refuse, RequestInv
  <2>5. CASE Pool!Start(r)
    <3>1. /\ request' \in [Requests -> RequestPlaces]
          /\ held' = held /\ busy' = busy + 1 /\ fresh' = fresh
      BY <2>0, <2>5, CountAfterMove DEF Pool!Start, RequestPlaces, HoldingPlaces
    <3>2. Pool!Are("started") = At({"started"})
      BY DEF Pool!Are, At
    <3>3. busy < MaxWorkers
      BY <2>5, <3>2, SameCardinality DEF Pool!Start
    <3>4. QED
      BY <1>0, <2>5, <3>1, <3>3 DEF Pool!Start, RequestInv
  <2>6. CASE Pool!End(r)
    <3>1. /\ request' \in [Requests -> RequestPlaces]
          /\ held' = held - 1 /\ busy' = busy - 1 /\ fresh' = fresh
      BY <2>0, <2>6, CountAfterMove DEF Pool!End, RequestPlaces, HoldingPlaces
    <3>2. QED
      BY <1>0, <2>6, <3>1 DEF Pool!End, RequestInv
  <2>7. QED
    BY <1>2, <2>1, <2>2, <2>3, <2>4, <2>5, <2>6 DEF Pool!Step
<1>3. QED
  BY <1>1, <1>2 DEF Pool!Next

LEMMA RequestHolds == RequestInv => Pool!TypeOK /\ Pool!SlotsReturn
<1>1. Pool!Are("new") = At({"new"})
  BY DEF Pool!Are, At
<1>2. Pool!Are("counted") \cup Pool!Are("queued") \cup Pool!Are("started") \cup Pool!Are("cancelled")
        = At(HoldingPlaces)
  BY DEF Pool!Are, At, HoldingPlaces
<1>3. QED
  BY <1>1, <1>2, SameCardinality DEF RequestInv, Pool!TypeOK, Pool!SlotsReturn

-----------------------------------------------------------------------------
(* Collections on a host.                                                   *)

HostPlaces == {"idle", "waiting", "gate", "child", "leaving"}

\* The collections of a process that hold a slot.
SlotHolders(p) == {m \in Collectors : collecting[p, m] \in {"gate", "child"}}

HostInv ==
    /\ collecting \in [Host!Collections -> HostPlaces]
    /\ announced \in [Processes -> SUBSET Collectors]
    /\ marker \in [Collectors \X Host!Pids -> Host!Ages]
    /\ pid \in [Processes -> Host!Pids]
    /\ free \in [Processes -> 0..Slots]
    /\ running \subseteq Host!Programs
    /\ wrote \in [Host!Collections -> Host!Ages]
    /\ hosted \in 0..MaxRuns /\ died \in 0..MaxDeaths
    /\ \A p \in Processes : free[p] = Slots - Cardinality(SlotHolders(p))

LEMMA HostSizes ==
    /\ IsFiniteSet(Collectors)
    /\ Slots \in Nat /\ MaxRuns \in Nat /\ MaxDeaths \in Nat
    /\ \A p : /\ Cardinality(SlotHolders(p)) \in Nat /\ IsFiniteSet(SlotHolders(p))
              /\ Cardinality(SlotHolders(p)') \in Nat
<1>1. /\ IsFiniteSet(Collectors)
      /\ Slots \in Nat /\ MaxRuns \in Nat /\ MaxDeaths \in Nat
  BY HostAssumption, SameFinite DEF Host!HostAssumption
<1>2. ASSUME NEW p PROVE IsFiniteSet(SlotHolders(p)) /\ IsFiniteSet(SlotHolders(p)')
  BY <1>1, FS_Subset DEF SlotHolders
<1>3. QED
  BY <1>1, <1>2, FS_CardinalityType

\* The first processes and their successors have process ids.
LEMMA HostPids ==
    /\ \A p \in Processes : p \in Host!Pids
    /\ \A d \in 0..MaxDeaths : Cardinality(Processes) + d \in Host!Pids
<1>1. /\ IsFiniteSet(Processes)
      /\ Processes = 1..Cardinality(Processes) /\ MaxDeaths \in Nat
      /\ Host!Pids = 0..(Cardinality(Processes) + MaxDeaths)
  BY HostAssumption, SameFinite, SameCardinality DEF Host!HostAssumption, Host!Pids
<1>2. Cardinality(Processes) \in Nat
  BY <1>1, FS_CardinalityType
<1> DEFINE n == Cardinality(Processes)
<1>3. /\ Processes = 1..n /\ n \in Nat /\ MaxDeaths \in Nat
      /\ Host!Pids = 0..(n + MaxDeaths)
  BY <1>1, <1>2
<1> HIDE DEF n
<1>4. (\A p \in 1..n : p \in 0..(n + MaxDeaths)) /\ \A d \in 0..MaxDeaths : n + d \in 0..(n + MaxDeaths)
  BY <1>3
<1>5. QED
  BY <1>3, <1>4 DEF n

LEMMA HostInit == Host!Init => HostInv
<1> SUFFICES ASSUME Host!Init PROVE HostInv
  OBVIOUS
<1>1. collecting = [c \in Processes \X Collectors |-> "idle"]
  BY DEF Host!Init, Host!Collections
<1>2. \A p \in Processes : SlotHolders(p) = {}
  BY <1>1 DEF SlotHolders
<1>3. \A p \in Processes : free[p] = Slots - Cardinality(SlotHolders(p))
  BY <1>2, HostSizes, FS_EmptySet DEF Host!Init
<1>4. free \in [Processes -> 0..Slots] /\ hosted \in 0..MaxRuns /\ died \in 0..MaxDeaths
  BY HostSizes DEF Host!Init
<1>5. pid \in [Processes -> Host!Pids]
  BY HostPids DEF Host!Init
<1>6. QED
  BY <1>3, <1>4, <1>5 DEF Host!Init, HostInv, HostPlaces, Host!Ages

\* What a move of one collection does to the holders of slots.
LEMMA HoldersAfter ==
    ASSUME HostInv, NEW c \in Host!Collections, NEW to \in HostPlaces, Host!Goes(c, to)
    PROVE  /\ collecting' \in [Host!Collections -> HostPlaces]
           /\ \A p \in Processes : p # c[1] => SlotHolders(p)' = SlotHolders(p)
           /\ (collecting[c] \in {"gate", "child"} <=> to \in {"gate", "child"}) =>
                 SlotHolders(c[1])' = SlotHolders(c[1])
           /\ collecting[c] \notin {"gate", "child"} /\ to \in {"gate", "child"} =>
                 Cardinality(SlotHolders(c[1])') = Cardinality(SlotHolders(c[1])) + 1
           /\ collecting[c] \in {"gate", "child"} /\ to \notin {"gate", "child"} =>
                 Cardinality(SlotHolders(c[1])') = Cardinality(SlotHolders(c[1])) - 1
<1>1. PICK q \in Processes, m \in Collectors : c = <<q, m>>
  BY DEF Host!Collections
<1>2. /\ collecting' \in [Host!Collections -> HostPlaces]
      /\ \A p \in Processes, n \in Collectors :
            collecting'[p, n] = IF p = q /\ n = m THEN to ELSE collecting[p, n]
  BY <1>1 DEF Host!Goes, HostInv, Host!Collections
<1>3. \A p \in Processes : p # q => SlotHolders(p)' = SlotHolders(p)
  BY <1>2 DEF SlotHolders
<1>4. (collecting[q, m] \in {"gate", "child"} <=> to \in {"gate", "child"}) =>
        SlotHolders(q)' = SlotHolders(q)
  BY <1>2 DEF SlotHolders
<1>5. ASSUME collecting[q, m] \notin {"gate", "child"}, to \in {"gate", "child"}
      PROVE  Cardinality(SlotHolders(q)') = Cardinality(SlotHolders(q)) + 1
  <2>1. SlotHolders(q)' = SlotHolders(q) \cup {m} /\ m \notin SlotHolders(q)
    BY <1>2, <1>5 DEF SlotHolders
  <2>2. QED
    BY <2>1, HostSizes, AddingOne
<1>6. ASSUME collecting[q, m] \in {"gate", "child"}, to \notin {"gate", "child"}
      PROVE  Cardinality(SlotHolders(q)') = Cardinality(SlotHolders(q)) - 1
  <2>1. SlotHolders(q)' = SlotHolders(q) \ {m} /\ m \in SlotHolders(q)
    BY <1>2, <1>6 DEF SlotHolders
  <2>2. Cardinality(SlotHolders(q)) = Cardinality(SlotHolders(q)') + 1
    BY <2>1, HostSizes, AddingOne
  <2>3. QED
    BY <2>2, HostSizes
<1>7. QED
  BY <1>1, <1>2, <1>3, <1>4, <1>5, <1>6

\* The counter of a process follows the holders of its slots.
LEMMA FreeAfter ==
    ASSUME HostInv, NEW q \in Processes,
           \A p \in Processes : p # q => SlotHolders(p)' = SlotHolders(p),
           \/ /\ free[q] > 0 /\ free' = [free EXCEPT ![q] = free[q] - 1]
              /\ Cardinality(SlotHolders(q)') = Cardinality(SlotHolders(q)) + 1
           \/ /\ free' = [free EXCEPT ![q] = free[q] + 1]
              /\ Cardinality(SlotHolders(q)') = Cardinality(SlotHolders(q)) - 1
    PROVE  /\ free' \in [Processes -> 0..Slots]
           /\ \A p \in Processes : free'[p] = Slots - Cardinality(SlotHolders(p)')
<1> DEFINE held == Cardinality(SlotHolders(q))
<1>1. held \in Nat /\ held' \in Nat /\ Slots \in Nat
  BY HostSizes
<1>2. free \in [Processes -> 0..Slots] /\ free[q] = Slots - held
  BY DEF HostInv
<1>3. PICK n \in 0..Slots : free' = [free EXCEPT ![q] = n] /\ n = Slots - held'
  <2>1. CASE free[q] > 0 /\ free' = [free EXCEPT ![q] = free[q] - 1] /\ held' = held + 1
    <3>1. free[q] - 1 \in 0..Slots /\ free[q] - 1 = Slots - held'
      BY <1>1, <1>2, <2>1
    <3>2. QED
      BY <2>1, <3>1
  <2>2. CASE free' = [free EXCEPT ![q] = free[q] + 1] /\ held' = held - 1
    <3>1. free[q] + 1 \in 0..Slots /\ free[q] + 1 = Slots - held'
      BY <1>1, <1>2, <2>2
    <3>2. QED
      BY <2>2, <3>1
  <2>3. QED
    BY <2>1, <2>2
<1>4. QED
  BY <1>2, <1>3 DEF HostInv

\* A collection that comes, waits, runs or leaves keeps the count.
LEMMA CollectionStep ==
    ASSUME HostInv, NEW c \in Host!Collections, Host!Enter(c) \/ Host!Step(c)
    PROVE  HostInv'
<1>0. c[1] \in Processes /\ c[2] \in Collectors
  BY DEF Host!Collections
<1>1. \A p \in Processes : Cardinality(SlotHolders(p)) \in Nat /\ Cardinality(SlotHolders(p)') \in Nat
  BY HostSizes
<1>2. CASE Host!Enter(c)
  <2>1. /\ collecting' \in [Host!Collections -> HostPlaces]
        /\ \A p \in Processes : SlotHolders(p)' = SlotHolders(p)
    BY <1>2, HoldersAfter DEF Host!Enter, HostPlaces
  <2>2. /\ announced' \in [Processes -> SUBSET Collectors]
        /\ marker' \in [Collectors \X Host!Pids -> Host!Ages]
        /\ wrote' \in [Host!Collections -> Host!Ages]
    BY <1>0, <1>2 DEF Host!Enter, HostInv, Host!Ages
  <2>3. hosted' \in 0..MaxRuns
    BY <1>2, HostSizes DEF Host!Enter, HostInv
  <2>4. QED
    BY <1>2, <2>1, <2>2, <2>3 DEF Host!Enter, Host!Calm, HostInv
<1>3. CASE Host!TakeSlot(c)
  <2>1. /\ collecting' \in [Host!Collections -> HostPlaces]
        /\ \A p \in Processes : p # c[1] => SlotHolders(p)' = SlotHolders(p)
        /\ Cardinality(SlotHolders(c[1])') = Cardinality(SlotHolders(c[1])) + 1
    BY <1>3, HoldersAfter DEF Host!TakeSlot, HostPlaces
  <2>2. free' = [free EXCEPT ![c[1]] = free[c[1]] - 1] /\ free[c[1]] > 0
    BY <1>3 DEF Host!TakeSlot
  <2>3. /\ free' \in [Processes -> 0..Slots]
        /\ \A p \in Processes : free'[p] = Slots - Cardinality(SlotHolders(p)')
    BY <1>0, <2>1, <2>2, FreeAfter
  <2>4. QED
    BY <1>3, <2>1, <2>3 DEF Host!TakeSlot, Host!Calm, HostInv
<1>4. ASSUME Host!Goes(c, "leaving"), collecting[c] \in {"gate", "child"},
             free' = [free EXCEPT ![c[1]] = @ + 1]
      PROVE  /\ collecting' \in [Host!Collections -> HostPlaces]
             /\ free' \in [Processes -> 0..Slots]
             /\ \A p \in Processes : free'[p] = Slots - Cardinality(SlotHolders(p)')
  <2>1. /\ collecting' \in [Host!Collections -> HostPlaces]
        /\ \A p \in Processes : p # c[1] => SlotHolders(p)' = SlotHolders(p)
        /\ Cardinality(SlotHolders(c[1])') = Cardinality(SlotHolders(c[1])) - 1
    BY <1>4, HoldersAfter DEF HostPlaces
  <2>2. QED
    BY <1>0, <1>4, <2>1, FreeAfter
<1>5. CASE Host!Gate(c)
  <2>1. collecting[c] \in {"gate", "child"}
    BY <1>5 DEF Host!Gate
  <2>2. CASE Host!Goes(c, "child") /\ UNCHANGED free /\ running' = running \cup ({c[2]} \cap Host!Programs)
    <3>1. /\ collecting' \in [Host!Collections -> HostPlaces]
          /\ \A p \in Processes : SlotHolders(p)' = SlotHolders(p)
      BY <2>1, <2>2, HoldersAfter DEF HostPlaces
    <3>2. QED
      BY <1>5, <2>2, <3>1 DEF Host!Gate, Host!Calm, HostInv
  <2>3. CASE Host!Goes(c, "leaving") /\ UNCHANGED running /\ free' = [free EXCEPT ![c[1]] = @ + 1]
    BY <1>4, <1>5, <2>1, <2>3 DEF Host!Gate, Host!Calm, HostInv
  <2>4. QED
    BY <1>5, <2>2, <2>3 DEF Host!Gate
<1>6. CASE Host!ChildEnds(c)
  BY <1>4, <1>6 DEF Host!ChildEnds, Host!Calm, HostInv
<1>7. CASE Host!Leave(c)
  <2>1. /\ collecting' \in [Host!Collections -> HostPlaces]
        /\ \A p \in Processes : SlotHolders(p)' = SlotHolders(p)
    BY <1>7, HoldersAfter DEF Host!Leave, HostPlaces
  <2>2. /\ announced' \in [Processes -> SUBSET Collectors]
        /\ marker' \in [Collectors \X Host!Pids -> Host!Ages]
        /\ wrote' \in [Host!Collections -> Host!Ages]
    BY <1>0, <1>7 DEF Host!Leave, HostInv, Host!Ages
  <2>3. QED
    BY <1>7, <2>1, <2>2 DEF Host!Leave, Host!Calm, HostInv
<1>8. QED
  BY <1>2, <1>3, <1>5, <1>6, <1>7 DEF Host!Step

LEMMA HostStepKeeps == HostInv /\ Host!Next => HostInv'
<1> SUFFICES ASSUME HostInv, Host!Next PROVE HostInv'
  OBVIOUS
<1>1. \A f \in DOMAIN marker : f \in Collectors \X Host!Pids
  BY DEF HostInv
<1>2. Host!Tidied \in [Collectors \X Host!Pids -> Host!Ages]
  BY DEF Host!Tidied, HostInv, Host!Ages
<1>3. collecting' = collecting => \A p \in Processes : SlotHolders(p)' = SlotHolders(p)
  BY DEF SlotHolders
<1>4. ASSUME NEW p \in Processes, Host!Supervise(p) PROVE HostInv'
  <2>1. marker' \in [Collectors \X Host!Pids -> Host!Ages] /\ running' \subseteq Host!Programs
    BY <1>2, <1>4 DEF Host!Supervise, Host!Look, Host!List, Host!Measure, Host!Close, HostInv
  <2>2. Host!Apart
    BY <1>4 DEF Host!Supervise, Host!Look, Host!List, Host!Measure, Host!Close
  <2>3. QED
    BY <1>3, <2>1, <2>2 DEF Host!Apart, HostInv
<1>5. ASSUME NEW p \in Processes, Host!Die(p) PROVE HostInv'
  <2>1. /\ died' \in 0..MaxDeaths
        /\ Cardinality(Processes) + died' \in Host!Pids
    BY <1>5, HostSizes, HostPids DEF Host!Die, HostInv
  <2>2. /\ pid' \in [Processes -> Host!Pids]
        /\ announced' \in [Processes -> SUBSET Collectors]
    BY <1>5, <2>1, SameCardinality DEF Host!Die, HostInv
  <2>3. /\ collecting' \in [Host!Collections -> HostPlaces]
        /\ wrote' \in [Host!Collections -> Host!Ages]
        /\ \A q \in Processes, m \in Collectors :
              collecting'[q, m] = IF q = p THEN "idle" ELSE collecting[q, m]
    BY <1>5 DEF Host!Die, HostInv, HostPlaces, Host!Ages, Host!Collections
  <2>4. SlotHolders(p)' = {} /\ \A q \in Processes : q # p => SlotHolders(q)' = SlotHolders(q)
    BY <2>3 DEF SlotHolders
  <2>5. /\ free' \in [Processes -> 0..Slots]
        /\ \A q \in Processes : free'[q] = IF q = p THEN Slots ELSE free[q]
    BY <1>5, HostSizes DEF Host!Die, HostInv
  <2>6. \A q \in Processes : free'[q] = Slots - Cardinality(SlotHolders(q)')
    <3>1. Cardinality(SlotHolders(p)') = 0 /\ Slots = Slots - 0
      BY <2>4, HostSizes, FS_EmptySet
    <3>2. QED
      BY <2>4, <2>5, <3>1 DEF HostInv
  <2>7. QED
    BY <1>5, <2>1, <2>2, <2>3, <2>5, <2>6 DEF Host!Die, HostInv
<1>6. CASE Host!Expire
  <2>1. /\ marker' \in [Collectors \X Host!Pids -> Host!Ages]
        /\ wrote' \in [Host!Collections -> Host!Ages]
    BY <1>1, <1>6 DEF Host!Expire, HostInv, Host!Ages
  <2>2. QED
    BY <1>3, <1>6, <2>1 DEF Host!Expire, HostInv
<1>7. QED
  BY <1>4, <1>5, <1>6, CollectionStep DEF Host!Next

LEMMA HostHolds == HostInv => Host!TypeOK /\ Host!SlotsCounted
<1> SUFFICES ASSUME HostInv PROVE Host!TypeOK /\ Host!SlotsCounted
  OBVIOUS
<1>1. Host!TypeOK
  BY DEF HostInv, HostPlaces, Host!TypeOK
<1>2. \A p \in Processes : free[p] + Cardinality(SlotHolders(p)) = Slots
  BY HostSizes DEF HostInv
<1>3. QED
  BY <1>1, <1>2, SameCardinality DEF Host!SlotsCounted, SlotHolders

-----------------------------------------------------------------------------
PoolsInv ==
    /\ part = "fetched" => FetchInv
    /\ part = "hosted" => HostInv
    /\ part = "answered" => RequestInv

\* However many pages, hosts, browsers, requests, threads, processes and
\* collections there are, the pools keep their bounds and lose no slot.
THEOREM PoolsBounded == SuiteSpec => []PoolsHold
<1>1. SuiteInit => PoolsInv
  BY FetchInit, HostInit, RequestInit DEF SuiteInit, PoolsInv
<1>2. PoolsInv /\ [SuiteNext]_suiteVars => PoolsInv'
  <2> SUFFICES ASSUME PoolsInv, [SuiteNext]_suiteVars PROVE PoolsInv'
    OBVIOUS
  <2>1. CASE FetchesStep
    BY <2>1, FetchStep DEF FetchesStep, OnlyFetch, PoolsInv
  <2>2. CASE HostStep
    BY <2>2, HostStepKeeps DEF HostStep, OnlyHost, PoolsInv
  <2>3. CASE PoolStep
    BY <2>3, RequestStep DEF PoolStep, OnlyPool, PoolsInv
  <2>4. CASE part \notin {"fetched", "hosted", "answered"} /\ part' = part
    BY <2>4 DEF PoolsInv
  <2>5. CASE UNCHANGED suiteVars
    <3>1. UNCHANGED <<part, fetchVars, hostVars, poolVars>>
      BY <2>5 DEF suiteVars
    <3>2. FetchInv => FetchInv'
      BY <3>1 DEF fetchVars, FetchInv, Rendering
    <3>3. HostInv => HostInv'
      BY <3>1 DEF hostVars, HostInv, SlotHolders
    <3>4. RequestInv => RequestInv'
      BY <3>1 DEF poolVars, RequestInv, At
    <3>5. QED
      BY <3>1, <3>2, <3>3, <3>4 DEF PoolsInv
  <2>6. QED
    BY <2>1, <2>2, <2>3, <2>4, <2>5
       DEF SuiteNext, CollectStep, LoginStep, ReviewsStep, LockStep, ContentStep, BatchStep,
           OnlyRun, OnlyLogin, OnlyReview, OnlyLock, OnlyContent, OnlyBatch
<1>3. PoolsInv => PoolsHold
  BY FetchHolds, HostHolds, RequestHolds DEF PoolsInv, PoolsHold
<1>4. QED
  BY <1>1, <1>2, <1>3, PTL DEF SuiteSpec
=============================================================================

---------------------------- MODULE ClientsProofs ----------------------------
(***************************************************************************)
(* What the agents that collect answers tell the server, for every number  *)
(* of models, rounds, tickets and processes and all bounds on faults and   *)
(* restarts: they heed a stop, ask a question once for a round, report as  *)
(* completed what is whole, and upload nothing an operator deleted.        *)
(***************************************************************************)
EXTENDS WorkersProofs, SequenceTheorems

-----------------------------------------------------------------------------
(* The tabs of the extension. While no model was told to stop, a model that *)
(* did not fail has the rounds behind it on the server; once one was told,  *)
(* the others have at most one more question, that of a heartbeat on its    *)
(* way.                                                                     *)

TabPlaces == {"idle", "next", "beat", "heard", "ask", "upload", "stored", "over"}
TabTold == {"nothing", "pause", "cancel"}
TabSet(R) == [at : TabPlaces, round : 1..R, attempt : Nat, word : TabTold, failed : BOOLEAN]
IdleTab == [at |-> "idle", round |-> 1, attempt |-> 1, word |-> "nothing", failed |-> FALSE]
Busy == {"running", "excuse"}

TabTypes(M, R) ==
    /\ tab \in [M -> TabSet(R)] /\ told \in TabTold /\ server \subseteq M \X (1..R)
    /\ more \in [M -> 0..1]
Held(m, n) == \A q \in 1..n : <<m, q>> \in server
TabRight(m, R) ==
    /\ phase \in Busy /\ told = "nothing" => more[m] = 0
    /\ tab[m].at \in {"beat", "heard"} => more[m] = 0
    /\ told = "nothing" /\ ~tab[m].failed =>
          /\ tab[m].at \in TabPlaces \ {"idle", "over"} => Held(m, tab[m].round - 1)
          /\ tab[m].at = "stored" /\ tab[m].word # "cancel" => <<m, tab[m].round>> \in server
          /\ tab[m].at = "over" => Held(m, R)
TabTidy(M, R) ==
    /\ phase \notin Busy => \A m \in M : tab[m].at = "idle"
    /\ \A m \in M : TabRight(m, R)
    /\ state = "completed" => server = M \X (1..R)

\* What a step does to the tabs, and to what they share.
Firmer(a, b) == IF "cancel" \in {a, b} THEN "cancel" ELSE IF b = "nothing" THEN a ELSE b
Turns(m, p, r, w, f) ==
    \E a \in Nat : tab' = [tab EXCEPT ![m] =
                             [at |-> p, round |-> r, attempt |-> a, word |-> w, failed |-> f]]
Goes(m, p) == Turns(m, p, tab[m].round, tab[m].word, tab[m].failed)
Left(m, R) == {r \in 1..R : r >= tab[m].round /\ <<m, r>> \notin server}
TabPasses(m, R) ==
    /\ tab[m].at = "next" /\ UNCHANGED <<server, told, more>>
    /\ \/ (Left(m, R) = {} \/ told # "nothing") /\ Goes(m, "over")
       \/ \E r \in Left(m, R) :
             /\ told = "nothing" /\ \A q \in Left(m, R) : r <= q
             /\ Turns(m, "beat", r, tab[m].word, tab[m].failed)
TabBeats(m) ==
    /\ tab[m].at = "beat" /\ UNCHANGED <<server, told, more>>
    /\ \E w \in TabTold : Turns(m, "heard", tab[m].round, w, tab[m].failed)
TabHears(m) ==
    /\ tab[m].at = "heard" /\ UNCHANGED server
    /\ \/ /\ Goes(m, "ask") /\ UNCHANGED told
          /\ more' = [more EXCEPT ![m] = IF told = "nothing" THEN @ ELSE @ + 1]
       \/ /\ tab[m].word # "nothing" /\ Goes(m, "over")
          /\ told' = Firmer(told, tab[m].word) /\ UNCHANGED more
TabAsks(m) ==
    /\ tab[m].at = "ask" /\ UNCHANGED <<server, told, more>>
    /\ Goes(m, "upload") \/ Goes(m, "ask")
TabUploads(m) ==
    /\ tab[m].at = "upload" /\ UNCHANGED <<told, more>>
    /\ \E w \in TabTold :
          /\ Turns(m, "stored", tab[m].round, w, tab[m].failed)
          /\ server' = IF w = "cancel" THEN server ELSE server \cup {<<m, tab[m].round>>}
TabStores(m, R) ==
    /\ tab[m].at = "stored" /\ UNCHANGED <<server, more>>
    /\ told' = Firmer(told, tab[m].word)
    /\ \/ tab[m].round = R /\ Goes(m, "over")
       \/ tab[m].round # R /\ Turns(m, "next", tab[m].round + 1, tab[m].word, tab[m].failed)
TabRejects(m) ==
    /\ tab[m].at \in {"beat", "ask", "upload"} /\ UNCHANGED <<told, more>>
    /\ server' = server \/ server' = server \cup {<<m, tab[m].round>>}
    /\ Turns(m, "over", tab[m].round, tab[m].word, TRUE)
TabModels(M, R) ==
    /\ UNCHANGED <<phase, state>>
    /\ \E m \in M : \/ TabPasses(m, R) \/ TabBeats(m) \/ TabHears(m) \/ TabAsks(m)
                    \/ TabUploads(m) \/ TabStores(m, R) \/ TabRejects(m)
TabClaims(M) ==
    /\ phase \notin Busy /\ (state' = state \/ state' # "completed")
    /\ \/ phase' = "running" /\ tab' = [m \in M |-> [IdleTab EXCEPT !.at = "next"]]
       \/ phase' = "awake" /\ tab' = tab
    /\ told' = "nothing" /\ more' = [m \in M |-> 0] /\ server' = server
TabReports(M) ==
    /\ \/ state' = state \/ state' # "completed"
       \/ told = "nothing" /\ \A m \in M : tab[m].at = "over" /\ ~tab[m].failed
    /\ \/ phase' = "awake" /\ tab' = [m \in M |-> IdleTab]
       \/ phase = "running" /\ phase' = "excuse" /\ tab' = tab
    /\ UNCHANGED <<server, told, more>>
TabEnds(M) ==
    /\ phase' = "asleep" /\ told' = "nothing" /\ tab' = [m \in M |-> IdleTab]
    /\ UNCHANGED <<server, more, state>>
TabElse ==
    /\ state' = state \/ state' # "completed"
    /\ phase' = phase \/ (phase \notin Busy /\ phase' \notin Busy)
    /\ UNCHANGED <<tab, server, told, more>>
TabMoves(M, R) == TabModels(M, R) \/ TabClaims(M) \/ TabReports(M) \/ TabEnds(M) \/ TabElse

LEMMA TabTyped ==
    ASSUME NEW M, NEW R \in Nat \ {0}, TabTypes(M, R), TabTidy(M, R), TabMoves(M, R)
    PROVE  TabTypes(M, R)'
<1> USE DEF TabTypes
<1>1. CASE TabModels(M, R)
  <2>1. PICK m \in M : \/ TabPasses(m, R) \/ TabBeats(m) \/ TabHears(m) \/ TabAsks(m)
                       \/ TabUploads(m) \/ TabStores(m, R) \/ TabRejects(m)
    BY <1>1 DEF TabModels
  <2>2. /\ tab[m].at \in TabPlaces /\ tab[m].round \in 1..R
        /\ tab[m].word \in TabTold /\ tab[m].failed \in BOOLEAN
    BY DEF TabSet
  <2>3. ASSUME NEW p \in TabPlaces, NEW r \in 1..R, NEW w \in TabTold, NEW f \in BOOLEAN,
               Turns(m, p, r, w, f)
        PROVE  tab' \in [M -> TabSet(R)]
    BY <2>3 DEF Turns, TabSet
  <2>4. ASSUME NEW p \in TabPlaces, Goes(m, p) PROVE tab' \in [M -> TabSet(R)]
    BY <2>2, <2>3, <2>4 DEF Goes
  <2>5. CASE TabPasses(m, R)
    <3>1. tab' \in [M -> TabSet(R)]
      <4>1. CASE Goes(m, "over")
        BY <2>4, <4>1 DEF TabPlaces
      <4>2. ASSUME NEW r \in Left(m, R), Turns(m, "beat", r, tab[m].word, tab[m].failed)
            PROVE  tab' \in [M -> TabSet(R)]
        BY <2>2, <2>3, <4>2 DEF TabPlaces, Left
      <4>3. QED
        BY <2>5, <4>1, <4>2 DEF TabPasses
    <3>2. QED
      BY <2>5, <3>1 DEF TabPasses
  <2>6. CASE TabBeats(m)
    BY <2>2, <2>3, <2>6 DEF TabBeats, TabPlaces
  <2>7. CASE TabHears(m)
    <3>1. tab' \in [M -> TabSet(R)]
      BY <2>4, <2>7 DEF TabHears, TabPlaces
    <3>2. told' \in TabTold
      BY <2>2, <2>7 DEF TabHears, Firmer, TabTold
    <3>3. more[m] = 0
      BY <2>7 DEF TabHears, TabTidy, TabRight
    <3>4. CASE more' = [more EXCEPT ![m] = IF told = "nothing" THEN @ ELSE @ + 1]
      <4>1. more' \in [M -> 0..1]
        <5>1. CASE told = "nothing"
          BY <3>4, <5>1
        <5>2. CASE told # "nothing"
          <6>1. more' = [more EXCEPT ![m] = 1]
            BY <3>3, <3>4, <5>2
          <6>2. QED
            BY <6>1
        <5>3. QED
          BY <5>1, <5>2
      <4>2. QED
        BY <2>7, <3>1, <3>2, <4>1 DEF TabHears
    <3>5. QED
      BY <2>7, <3>1, <3>2, <3>4 DEF TabHears
  <2>8. CASE TabAsks(m)
    BY <2>4, <2>8 DEF TabAsks, TabPlaces
  <2>9. CASE TabUploads(m)
    <3>1. tab' \in [M -> TabSet(R)]
      BY <2>2, <2>3, <2>9 DEF TabUploads, TabPlaces
    <3>2. QED
      BY <2>2, <2>9, <3>1 DEF TabUploads
  <2>10. CASE TabStores(m, R)
    <3>1. tab' \in [M -> TabSet(R)]
      <4>1. tab[m].round # R => tab[m].round + 1 \in 1..R
        BY <2>2
      <4>2. QED
        BY <2>2, <2>3, <2>4, <2>10, <4>1 DEF TabStores, TabPlaces
    <3>2. told' \in TabTold
      BY <2>2, <2>10 DEF TabStores, Firmer, TabTold
    <3>3. QED
      BY <2>10, <3>1, <3>2 DEF TabStores
  <2>11. CASE TabRejects(m)
    <3>1. tab' \in [M -> TabSet(R)]
      BY <2>2, <2>3, <2>11 DEF TabRejects, TabPlaces
    <3>2. QED
      BY <2>2, <2>11, <3>1 DEF TabRejects
  <2>12. QED
    BY <2>1, <2>5, <2>6, <2>7, <2>8, <2>9, <2>10, <2>11
<1>2. IdleTab \in TabSet(R) /\ [IdleTab EXCEPT !.at = "next"] \in TabSet(R)
  <2>1. 1 \in 1..R
    OBVIOUS
  <2>2. QED
    BY <2>1 DEF IdleTab, TabSet, TabPlaces, TabTold
<1>3. CASE TabClaims(M)
  BY <1>2, <1>3 DEF TabClaims, TabTold
<1>4. CASE TabReports(M) \/ TabEnds(M) \/ TabElse
  BY <1>2, <1>4 DEF TabReports, TabEnds, TabElse, TabTold
<1>5. QED
  BY <1>1, <1>3, <1>4 DEF TabMoves

LEMMA TabKept ==
    ASSUME NEW M, NEW R \in Nat \ {0}, TabTypes(M, R), TabTidy(M, R), TabMoves(M, R)
    PROVE  TabTidy(M, R)'
<1>1. CASE TabModels(M, R)
  <2>1. PICK m \in M : \/ TabPasses(m, R) \/ TabBeats(m) \/ TabHears(m) \/ TabAsks(m)
                       \/ TabUploads(m) \/ TabStores(m, R) \/ TabRejects(m)
    BY <1>1 DEF TabModels
  <2>2. tab[m].at # "idle" /\ phase \in Busy
    BY <2>1 DEF TabPasses, TabBeats, TabHears, TabAsks, TabUploads, TabStores, TabRejects, TabTidy
  <2>3. phase' \in Busy /\ state' = state
    BY <1>1, <2>2 DEF TabModels
  <2>10. TabTypes(M, R)'
    BY <1>1, TabTyped DEF TabMoves
  <2>4. /\ server \subseteq server' /\ server' \subseteq M \X (1..R)
        /\ told' = "nothing" => told = "nothing"
    BY <2>1, <2>10
       DEF TabPasses, TabBeats, TabHears, TabAsks, TabUploads, TabStores, TabRejects, Firmer,
           TabTypes, TabTold
  <2>5. \A i \in M \ {m} : tab'[i] = tab[i] /\ more'[i] = more[i]
    BY <2>1 DEF TabPasses, TabBeats, TabHears, TabAsks, TabUploads, TabStores, TabRejects, Goes,
       Turns, TabTypes
  <2>6. ASSUME NEW i \in M \ {m} PROVE TabRight(i, R)'
    BY <2>2, <2>4, <2>5 DEF TabRight, TabTidy, Held
  <2>7. TabRight(m, R)'
    <3>1. TabRight(m, R)
      BY DEF TabTidy
    <3>2. /\ tab[m].at \in TabPlaces /\ tab[m].round \in 1..R
          /\ tab[m].word \in TabTold /\ tab[m].failed \in BOOLEAN
      BY DEF TabTypes, TabSet
    <3>3. ASSUME NEW p, NEW r, NEW w, NEW f, Turns(m, p, r, w, f)
          PROVE  /\ tab'[m].at = p /\ tab'[m].round = r /\ tab'[m].word = w
                 /\ tab'[m].failed = f
      BY <3>3 DEF Turns, TabTypes
    <3>4. ASSUME NEW p, Goes(m, p)
          PROVE  /\ tab'[m].at = p /\ tab'[m].round = tab[m].round
                 /\ tab'[m].word = tab[m].word /\ tab'[m].failed = tab[m].failed
      BY <3>3, <3>4 DEF Goes
    <3>5. CASE TabPasses(m, R)
      <4>1. CASE (Left(m, R) = {} \/ told # "nothing") /\ Goes(m, "over")
        <5>1. told = "nothing" /\ ~tab[m].failed => Held(m, R)
          BY <3>1, <3>2, <3>5, <4>1 DEF TabRight, TabPasses, Left, Held, TabPlaces
        <5>2. QED
          BY <2>2, <2>4, <3>1, <3>4, <3>5, <4>1, <5>1 DEF TabRight, TabPasses, Held
      <4>2. ASSUME NEW r \in Left(m, R), told = "nothing", \A q \in Left(m, R) : r <= q,
                   Turns(m, "beat", r, tab[m].word, tab[m].failed)
            PROVE  TabRight(m, R)'
        <5>1. ~tab[m].failed => Held(m, r - 1)
          BY <3>1, <3>2, <3>5, <4>2 DEF TabRight, TabPasses, Left, Held, TabPlaces
        <5>2. more[m] = 0
          BY <2>2, <3>1, <4>2 DEF TabRight
        <5>3. QED
          BY <2>2, <2>4, <3>3, <3>5, <4>2, <5>1, <5>2 DEF TabRight, TabPasses, Held
      <4>3. QED
        BY <3>5, <4>1, <4>2 DEF TabPasses
    <3>6. CASE TabBeats(m)
      BY <2>4, <3>1, <3>3, <3>6 DEF TabBeats, TabRight, Held, TabPlaces
    <3>7. CASE TabHears(m)
      <4>1. CASE tab[m].word # "nothing" /\ told' = Firmer(told, tab[m].word) /\ Goes(m, "over")
                 /\ UNCHANGED more
        <5>1. told' # "nothing"
          BY <3>2, <4>1 DEF Firmer, TabTold
        <5>2. QED
          BY <3>4, <4>1, <5>1 DEF TabRight
      <4>2. CASE Goes(m, "ask") /\ UNCHANGED told
                 /\ more' = [more EXCEPT ![m] = IF told = "nothing" THEN @ ELSE @ + 1]
        <5>1. told = "nothing" => more'[m] = more[m]
          BY <4>2 DEF TabTypes
        <5>2. QED
          BY <2>2, <2>3, <2>4, <3>1, <3>4, <3>7, <4>2, <5>1
             DEF TabHears, TabRight, Held, TabPlaces
      <4>3. QED
        BY <3>7, <4>1, <4>2 DEF TabHears
    <3>8. CASE TabAsks(m)
      BY <2>2, <2>4, <3>1, <3>4, <3>8 DEF TabAsks, TabRight, Held, TabPlaces
    <3>9. CASE TabUploads(m)
      <4>1. PICK w \in TabTold :
               /\ Turns(m, "stored", tab[m].round, w, tab[m].failed)
               /\ server' = IF w = "cancel" THEN server ELSE server \cup {<<m, tab[m].round>>}
        BY <3>9 DEF TabUploads
      <4>2. QED
        BY <2>2, <2>4, <3>1, <3>3, <3>9, <4>1 DEF TabUploads, TabRight, Held, TabPlaces
    <3>10. CASE TabStores(m, R)
      <4>1. told' = "nothing" => told = "nothing" /\ tab[m].word = "nothing"
        BY <3>2, <3>10 DEF TabStores, Firmer, TabTold
      <4>2. told' = "nothing" /\ ~tab[m].failed => Held(m, tab[m].round)
        BY <3>1, <3>2, <3>10, <4>1 DEF TabStores, TabRight, Held, TabPlaces
      <4>3. CASE tab[m].round = R /\ Goes(m, "over")
        BY <2>2, <2>4, <3>1, <3>4, <3>10, <4>2, <4>3 DEF TabStores, TabRight, Held
      <4>4. CASE Turns(m, "next", tab[m].round + 1, tab[m].word, tab[m].failed)
        <5>1. tab'[m].round - 1 = tab[m].round
          BY <3>2, <3>3, <4>4
        <5>2. QED
          BY <2>2, <2>4, <3>1, <3>3, <3>10, <4>2, <4>4, <5>1 DEF TabStores, TabRight, Held
      <4>5. QED
        BY <3>10, <4>3, <4>4 DEF TabStores
    <3>11. CASE TabRejects(m)
      BY <2>2, <3>1, <3>3, <3>11 DEF TabRejects, TabRight
    <3>12. QED
      BY <2>1, <3>5, <3>6, <3>7, <3>8, <3>9, <3>10, <3>11
  <2>8. state' = "completed" => server' = M \X (1..R)
    BY <2>3, <2>4 DEF TabTidy
  <2>9. QED
    BY <2>3, <2>6, <2>7, <2>8 DEF TabTidy
<1>2. \A i \in M : [j \in M |-> IdleTab][i].at = "idle"
  BY DEF IdleTab
<1>3. CASE TabClaims(M)
  <2>1. /\ told' = "nothing" /\ server' = server /\ \A i \in M : more'[i] = 0
        /\ state' = "completed" => state = "completed"
    BY <1>3 DEF TabClaims
  <2>2. CASE phase' = "awake" /\ tab' = tab
    <3>0. \A i \in M : tab[i].at = "idle"
      BY <1>3 DEF TabClaims, TabTidy
    <3>1. \A i \in M : tab'[i].at = "idle"
      BY <2>2, <3>0
    <3>2. \A i \in M : TabRight(i, R)'
      BY <2>1, <3>1 DEF TabRight, TabPlaces
    <3>3. QED
      BY <2>1, <2>2, <3>1, <3>2 DEF TabTidy
  <2>3. CASE phase' = "running" /\ tab' = [m \in M |-> [IdleTab EXCEPT !.at = "next"]]
    <3>1. \A i \in M : tab'[i].at = "next" /\ tab'[i].round = 1
      BY <2>3 DEF IdleTab
    <3>2. \A i \in M : TabRight(i, R)'
      BY <2>1, <3>1 DEF TabRight, Held
    <3>3. QED
      BY <2>1, <2>3, <3>2 DEF TabTidy, Busy
  <2>4. QED
    BY <1>3, <2>2, <2>3 DEF TabClaims
<1>4. CASE TabReports(M)
  <2>1. state' = "completed" => server' = M \X (1..R)
    <3>1. CASE state' = state \/ state' # "completed"
      BY <1>4, <3>1 DEF TabReports, TabTidy
    <3>2. CASE told = "nothing" /\ \A m \in M : tab[m].at = "over" /\ ~tab[m].failed
      <4>1. \A m \in M : Held(m, R)
        BY <3>2 DEF TabTidy, TabRight
      <4>2. QED
        BY <1>4, <4>1 DEF Held, TabReports, TabTypes
    <3>3. QED
      BY <1>4, <3>1, <3>2 DEF TabReports
  <2>2. CASE phase' = "awake" /\ tab' = [m \in M |-> IdleTab]
    BY <1>2, <1>4, <2>1, <2>2 DEF TabReports, TabTidy, TabRight, Busy
  <2>3. CASE phase = "running" /\ phase' = "excuse" /\ tab' = tab
    BY <1>4, <2>1, <2>3 DEF TabReports, TabTidy, TabRight, Busy, Held
  <2>4. QED
    BY <1>4, <2>2, <2>3 DEF TabReports
<1>5. CASE TabEnds(M)
  BY <1>2, <1>5 DEF TabEnds, TabTidy, TabRight, Busy, TabPlaces
<1>6. CASE TabElse
  BY <1>6 DEF TabElse, TabTidy, TabRight, Held
<1>7. QED
  BY <1>1, <1>3, <1>4, <1>5, <1>6 DEF TabMoves
LEMMA TabFields ==
    ASSUME NEW M, NEW R, TabTypes(M, R), NEW m \in M
    PROVE  /\ \A p \in TabPlaces :
                 tab' = [tab EXCEPT ![m] = [tab[m] EXCEPT !.at = p]]
                 => Goes(m, p)
           /\ \A p \in TabPlaces, w \in TabTold :
                 tab' = [tab EXCEPT ![m] = [tab[m] EXCEPT !.at = p, !.word = w]]
                 => Turns(m, p, tab[m].round, w, tab[m].failed)
           /\ \A p \in TabPlaces, r \in 1..R :
                 tab' = [tab EXCEPT ![m] = [tab[m] EXCEPT !.at = p, !.round = r]]
                 => Turns(m, p, r, tab[m].word, tab[m].failed)
           /\ \A p \in TabPlaces, r \in 1..R :
                 tab' = [tab EXCEPT ![m] = [tab[m] EXCEPT !.at = p, !.round = r, !.attempt = 1]]
                 => Turns(m, p, r, tab[m].word, tab[m].failed)
           /\ \A p \in TabPlaces, f \in BOOLEAN :
                 tab' = [tab EXCEPT ![m] = [tab[m] EXCEPT !.at = p, !.failed = f]]
                 => Turns(m, p, tab[m].round, tab[m].word, f)
           /\ tab' = [tab EXCEPT ![m] = [tab[m] EXCEPT !.attempt = @ + 1]] => Goes(m, tab[m].at)
<1>1. PICK u \in TabSet(R) : u = tab[m]
  BY DEF TabTypes
<1>2. u.attempt \in Nat /\ u.attempt + 1 \in Nat /\ 1 \in Nat
  BY DEF TabSet
<1>3. ASSUME NEW v \in TabSet(R), tab' = [tab EXCEPT ![m] = v]
      PROVE  Turns(m, v.at, v.round, v.word, v.failed)
  <2>1. v = [at |-> v.at, round |-> v.round, attempt |-> v.attempt, word |-> v.word,
             failed |-> v.failed] /\ v.attempt \in Nat
    BY DEF TabSet
  <2>2. QED
    BY <1>3, <2>1 DEF Turns
<1>4. ASSUME NEW p \in TabPlaces,
             tab' = [tab EXCEPT ![m] = [u EXCEPT !.at = p]]
      PROVE  Turns(m, p, u.round, u.word, u.failed)
  <2>1. PICK v : v = [u EXCEPT !.at = p]
    OBVIOUS
  <2>2. v \in TabSet(R)
    BY <1>2, <2>1 DEF TabSet
  <2>3. v.at = p /\ v.round = u.round /\ v.word = u.word /\ v.failed = u.failed
    BY <2>1 DEF TabSet
  <2>4. QED
    BY <1>3, <1>4, <2>1, <2>2, <2>3
<1>5. ASSUME NEW p \in TabPlaces, NEW w \in TabTold,
             tab' = [tab EXCEPT ![m] = [u EXCEPT !.at = p, !.word = w]]
      PROVE  Turns(m, p, u.round, w, u.failed)
  <2>1. PICK v : v = [u EXCEPT !.at = p, !.word = w]
    OBVIOUS
  <2>2. v \in TabSet(R)
    BY <1>2, <2>1 DEF TabSet
  <2>3. v.at = p /\ v.round = u.round /\ v.word = w /\ v.failed = u.failed
    BY <2>1 DEF TabSet
  <2>4. QED
    BY <1>3, <1>5, <2>1, <2>2, <2>3
<1>6. ASSUME NEW p \in TabPlaces, NEW r \in 1..R,
             tab' = [tab EXCEPT ![m] = [u EXCEPT !.at = p, !.round = r]]
      PROVE  Turns(m, p, r, u.word, u.failed)
  <2>1. PICK v : v = [u EXCEPT !.at = p, !.round = r]
    OBVIOUS
  <2>2. v \in TabSet(R)
    BY <1>2, <2>1 DEF TabSet
  <2>3. v.at = p /\ v.round = r /\ v.word = u.word /\ v.failed = u.failed
    BY <2>1 DEF TabSet
  <2>4. QED
    BY <1>3, <1>6, <2>1, <2>2, <2>3
<1>7. ASSUME NEW p \in TabPlaces, NEW r \in 1..R,
             tab' = [tab EXCEPT ![m] = [u EXCEPT !.at = p, !.round = r, !.attempt = 1]]
      PROVE  Turns(m, p, r, u.word, u.failed)
  <2>1. PICK v : v = [u EXCEPT !.at = p, !.round = r, !.attempt = 1]
    OBVIOUS
  <2>2. v \in TabSet(R)
    BY <1>2, <2>1 DEF TabSet
  <2>3. v.at = p /\ v.round = r /\ v.word = u.word /\ v.failed = u.failed
    BY <2>1 DEF TabSet
  <2>4. QED
    BY <1>3, <1>7, <2>1, <2>2, <2>3
<1>8. ASSUME NEW p \in TabPlaces, NEW f \in BOOLEAN,
             tab' = [tab EXCEPT ![m] = [u EXCEPT !.at = p, !.failed = f]]
      PROVE  Turns(m, p, u.round, u.word, f)
  <2>1. PICK v : v = [u EXCEPT !.at = p, !.failed = f]
    OBVIOUS
  <2>2. v \in TabSet(R)
    BY <1>2, <2>1 DEF TabSet
  <2>3. v.at = p /\ v.round = u.round /\ v.word = u.word /\ v.failed = f
    BY <2>1 DEF TabSet
  <2>4. QED
    BY <1>3, <1>8, <2>1, <2>2, <2>3
<1>9. ASSUME tab' = [tab EXCEPT ![m] = [u EXCEPT !.attempt = @ + 1]]
      PROVE  Turns(m, u.at, u.round, u.word, u.failed)
  <2>1. PICK v : v = [u EXCEPT !.attempt = @ + 1]
    OBVIOUS
  <2>2. v \in TabSet(R)
    BY <1>2, <2>1 DEF TabSet
  <2>3. v.at = u.at /\ v.round = u.round /\ v.word = u.word /\ v.failed = u.failed
    BY <2>1 DEF TabSet
  <2>4. QED
    BY <1>3, <1>9, <2>1, <2>2, <2>3
<1>10. QED
  BY <1>1, <1>4, <1>5, <1>6, <1>7, <1>8, <1>9 DEF Goes

LEMMA ChromeMoves ==
    ASSUME TabTypes(ChromeModels, ChromeRounds), TabTidy(ChromeModels, ChromeRounds),
           wish \in Chrome!Wishes, Chrome!Next
    PROVE  TabMoves(ChromeModels, ChromeRounds) /\ wish' \in Chrome!Wishes
<1>1. ChromeRounds \in Nat \ {0}
  BY ChromeAssumption DEF Chrome!ExtensionAssumption
<1>2. CASE \E m \in ChromeModels : Chrome!Model(m)
  <2>1. PICK m \in ChromeModels : Chrome!Model(m)
    BY <1>2
  <2>2. /\ UNCHANGED <<phase, state, wish>>
    BY <2>1 DEF Chrome!Model, Chrome!NextRound, Chrome!Beat, Chrome!Hear, Chrome!Ask, Chrome!Upload, Chrome!Stored,
       Chrome!Apart
  <2>3. Chrome!Word \in TabTold /\ (Chrome!Word = "cancel" <=> wish = "cancel")
    BY DEF Chrome!Word, Chrome!Wishes, TabTold
  <2> USE DEF Chrome!Becomes, Chrome!Goes, Chrome!Rejects
  <2>11. tab' = [tab EXCEPT ![m] = [tab[m] EXCEPT !.at = "over", !.failed = TRUE]]
         => Turns(m, "over", tab[m].round, tab[m].word, TRUE)
    BY TabFields DEF TabPlaces
  <2>4. CASE Chrome!NextRound(m)
    <3>1. Chrome!Todo(m) = Left(m, ChromeRounds)
      BY DEF Chrome!Todo, Chrome!RoundNos, Left
    <3>2. TabPasses(m, ChromeRounds)
      <4>1. tab' = [tab EXCEPT ![m] = [tab[m] EXCEPT !.at = "over"]] => Goes(m, "over")
        BY TabFields DEF TabPlaces
      <4>2. \A r \in 1..ChromeRounds :
               tab' = [tab EXCEPT ![m] = [tab[m] EXCEPT !.at = "beat", !.round = r, !.attempt = 1]]
               => Turns(m, "beat", r, tab[m].word, tab[m].failed)
        BY TabFields DEF TabPlaces
      <4>3. QED
        BY <2>4, <3>1, <4>1, <4>2 DEF Chrome!NextRound, TabPasses, Left
    <3>3. QED
      BY <2>2, <3>2 DEF TabMoves, TabModels
  <2>5. CASE Chrome!Beat(m)
    <3>1. TabBeats(m) \/ TabRejects(m)
      BY <2>3, <2>5, <2>11, TabFields DEF Chrome!Beat, TabBeats, TabRejects, TabPlaces
    <3>2. QED
      BY <2>2, <3>1 DEF TabMoves, TabModels
  <2>6. CASE Chrome!Hear(m)
    <3>1. TabHears(m)
      BY <2>6, TabFields DEF Chrome!Hear, Chrome!Stronger, TabHears, Firmer, TabPlaces
    <3>2. QED
      BY <2>2, <3>1 DEF TabMoves, TabModels
  <2>7. CASE Chrome!Ask(m)
    <3>1. TabAsks(m) \/ TabRejects(m)
      BY <2>7, <2>11, TabFields DEF Chrome!Ask, TabAsks, TabRejects, TabPlaces
    <3>2. QED
      BY <2>2, <3>1 DEF TabMoves, TabModels
  <2>8. CASE Chrome!Upload(m)
    <3>1. TabUploads(m) \/ TabRejects(m)
      <4>1. tab' = [tab EXCEPT ![m] = [tab[m] EXCEPT !.at = "stored", !.word = Chrome!Word]]
            => Turns(m, "stored", tab[m].round, Chrome!Word, tab[m].failed)
        BY <2>3, TabFields DEF TabPlaces
      <4>2. QED
        BY <2>3, <2>8, <2>11, <4>1 DEF Chrome!Upload, TabUploads, TabRejects
    <3>2. QED
      BY <2>2, <3>1 DEF TabMoves, TabModels
  <2>9. CASE Chrome!Stored(m)
    <3>1. TabStores(m, ChromeRounds)
      <4>1. tab' = [tab EXCEPT ![m] = [tab[m] EXCEPT !.at = "over"]] => Goes(m, "over")
        BY TabFields DEF TabPlaces
      <4>2. tab[m].round # ChromeRounds => tab[m].round + 1 \in 1..ChromeRounds
        BY <1>1 DEF TabTypes, TabSet
      <4>3. /\ tab[m].round # ChromeRounds
            /\ tab' = [tab EXCEPT ![m] = [tab[m] EXCEPT !.at = "next", !.round = @ + 1]]
            => Turns(m, "next", tab[m].round + 1, tab[m].word, tab[m].failed)
        BY <4>2, TabFields DEF TabPlaces
      <4>4. QED
        BY <2>9, <4>1, <4>3 DEF Chrome!Stored, Chrome!Stronger, TabStores, Firmer
    <3>2. QED
      BY <2>2, <3>1 DEF TabMoves, TabModels
  <2>10. QED
    BY <2>1, <2>2, <2>4, <2>5, <2>6, <2>7, <2>8, <2>9 DEF Chrome!Model
<1>3. CASE Chrome!Wake \/ Chrome!ReadSession
  <2>1. TabElse /\ UNCHANGED wish
    BY <1>3 DEF Chrome!Wake, Chrome!ReadSession, Chrome!row, Chrome!history, TabElse, Busy
  <2>2. QED
    BY <2>1 DEF TabMoves
<1>4. CASE Chrome!Claim
  <2>1. TabClaims(ChromeModels)
    BY <1>4 DEF Chrome!Claim, Chrome!Ended, TabClaims, Busy, Chrome!Idle, IdleTab
  <2>2. QED
    BY <1>4, <2>1 DEF Chrome!Claim, Chrome!Wishes, TabMoves
<1>5. CASE Chrome!Finish \/ Chrome!Excuse
  <2>1. \A report : Chrome!Calls(report) \/ UNCHANGED <<state, wish, leased>> =>
           /\ wish' \in Chrome!Wishes
           /\ state' = "completed" => state' = state \/ report = "completed"
    BY DEF Chrome!Calls, Chrome!Finished, Chrome!Wishes
  <2>2. Chrome!Report = "completed" => told = "nothing" /\ \A m \in ChromeModels : ~tab[m].failed
    BY DEF Chrome!Report, TabTypes, TabTold
  <2>3. CASE Chrome!Finish
    <3>1. \A m \in ChromeModels : tab[m].at = "over"
      BY <2>3 DEF Chrome!Finish
    <3>2. UNCHANGED <<server, told, more>>
      BY <2>3 DEF Chrome!Finish, Chrome!Rest, Chrome!history
    <3>3. \/ phase' = "awake" /\ tab' = [m \in ChromeModels |-> IdleTab]
          \/ phase = "running" /\ phase' = "excuse" /\ tab' = tab
      BY <2>3 DEF Chrome!Finish, Chrome!Rest, Chrome!Idle, IdleTab
    <3>4. Chrome!Calls(Chrome!Report) \/ UNCHANGED <<state, wish, leased>>
      BY <2>3 DEF Chrome!Finish
    <3>5. QED
      BY <2>1, <2>2, <3>1, <3>2, <3>3, <3>4 DEF TabMoves, TabReports
  <2>4. CASE Chrome!Excuse
    BY <2>1, <2>4 DEF Chrome!Excuse, Chrome!Rest, Chrome!history, Chrome!Idle, IdleTab, TabMoves, TabReports
  <2>5. QED
    BY <1>5, <2>3, <2>4
<1>6. CASE Chrome!Start \/ Chrome!Stop \/ Chrome!Forget
  BY <1>6 DEF Chrome!Start, Chrome!Stop, Chrome!Forget, Chrome!Order, Chrome!OnlySettings, Chrome!row, TabMoves,
     TabElse
<1>7. CASE Chrome!End
  BY <1>7 DEF Chrome!End, Chrome!history, Chrome!Idle, IdleTab, TabMoves, TabEnds
<1>8. CASE Chrome!Operator
  <2>1. PICK wanting, new : Chrome!Asks(wanting, new) /\ new # "completed" /\ wanting \in Chrome!Wishes
    BY <1>8 DEF Chrome!Operator, Chrome!Stronger, Chrome!Ended, Chrome!Wishes
  <2>2. QED
    BY <2>1 DEF Chrome!Asks, Chrome!history, TabMoves, TabElse
<1>9. QED
  BY <1>2, <1>3, <1>4, <1>5, <1>6, <1>7, <1>8 DEF Chrome!Next, Chrome!Poll

LEMMA BrowserMoves ==
    ASSUME TabTypes(BrowserModels, BrowserRounds), TabTidy(BrowserModels, BrowserRounds),
           wish \in Browser!Wishes, Browser!Next
    PROVE  TabMoves(BrowserModels, BrowserRounds) /\ wish' \in Browser!Wishes
<1>1. BrowserRounds \in Nat \ {0}
  BY ChromeAssumption DEF Browser!ExtensionAssumption
<1>2. CASE \E m \in BrowserModels : Browser!Model(m)
  <2>1. PICK m \in BrowserModels : Browser!Model(m)
    BY <1>2
  <2>2. /\ UNCHANGED <<phase, state, wish>>
    BY <2>1 DEF Browser!Model, Browser!NextRound, Browser!Beat, Browser!Hear, Browser!Ask, Browser!Upload, Browser!Stored,
       Browser!Apart
  <2>3. Browser!Word \in TabTold /\ (Browser!Word = "cancel" <=> wish = "cancel")
    BY DEF Browser!Word, Browser!Wishes, TabTold
  <2> USE DEF Browser!Becomes, Browser!Goes, Browser!Rejects
  <2>11. tab' = [tab EXCEPT ![m] = [tab[m] EXCEPT !.at = "over", !.failed = TRUE]]
         => Turns(m, "over", tab[m].round, tab[m].word, TRUE)
    BY TabFields DEF TabPlaces
  <2>4. CASE Browser!NextRound(m)
    <3>1. Browser!Todo(m) = Left(m, BrowserRounds)
      BY DEF Browser!Todo, Browser!RoundNos, Left
    <3>2. TabPasses(m, BrowserRounds)
      <4>1. tab' = [tab EXCEPT ![m] = [tab[m] EXCEPT !.at = "over"]] => Goes(m, "over")
        BY TabFields DEF TabPlaces
      <4>2. \A r \in 1..BrowserRounds :
               tab' = [tab EXCEPT ![m] = [tab[m] EXCEPT !.at = "beat", !.round = r, !.attempt = 1]]
               => Turns(m, "beat", r, tab[m].word, tab[m].failed)
        BY TabFields DEF TabPlaces
      <4>3. QED
        BY <2>4, <3>1, <4>1, <4>2 DEF Browser!NextRound, TabPasses, Left
    <3>3. QED
      BY <2>2, <3>2 DEF TabMoves, TabModels
  <2>5. CASE Browser!Beat(m)
    <3>1. TabBeats(m) \/ TabRejects(m)
      BY <2>3, <2>5, <2>11, TabFields DEF Browser!Beat, TabBeats, TabRejects, TabPlaces
    <3>2. QED
      BY <2>2, <3>1 DEF TabMoves, TabModels
  <2>6. CASE Browser!Hear(m)
    <3>1. TabHears(m)
      BY <2>6, TabFields DEF Browser!Hear, Browser!Stronger, TabHears, Firmer, TabPlaces
    <3>2. QED
      BY <2>2, <3>1 DEF TabMoves, TabModels
  <2>7. CASE Browser!Ask(m)
    <3>1. TabAsks(m) \/ TabRejects(m)
      BY <2>7, <2>11, TabFields DEF Browser!Ask, TabAsks, TabRejects, TabPlaces
    <3>2. QED
      BY <2>2, <3>1 DEF TabMoves, TabModels
  <2>8. CASE Browser!Upload(m)
    <3>1. TabUploads(m) \/ TabRejects(m)
      <4>1. tab' = [tab EXCEPT ![m] = [tab[m] EXCEPT !.at = "stored", !.word = Browser!Word]]
            => Turns(m, "stored", tab[m].round, Browser!Word, tab[m].failed)
        BY <2>3, TabFields DEF TabPlaces
      <4>2. QED
        BY <2>3, <2>8, <2>11, <4>1 DEF Browser!Upload, TabUploads, TabRejects
    <3>2. QED
      BY <2>2, <3>1 DEF TabMoves, TabModels
  <2>9. CASE Browser!Stored(m)
    <3>1. TabStores(m, BrowserRounds)
      <4>1. tab' = [tab EXCEPT ![m] = [tab[m] EXCEPT !.at = "over"]] => Goes(m, "over")
        BY TabFields DEF TabPlaces
      <4>2. tab[m].round # BrowserRounds => tab[m].round + 1 \in 1..BrowserRounds
        BY <1>1 DEF TabTypes, TabSet
      <4>3. /\ tab[m].round # BrowserRounds
            /\ tab' = [tab EXCEPT ![m] = [tab[m] EXCEPT !.at = "next", !.round = @ + 1]]
            => Turns(m, "next", tab[m].round + 1, tab[m].word, tab[m].failed)
        BY <4>2, TabFields DEF TabPlaces
      <4>4. QED
        BY <2>9, <4>1, <4>3 DEF Browser!Stored, Browser!Stronger, TabStores, Firmer
    <3>2. QED
      BY <2>2, <3>1 DEF TabMoves, TabModels
  <2>10. QED
    BY <2>1, <2>2, <2>4, <2>5, <2>6, <2>7, <2>8, <2>9 DEF Browser!Model
<1>3. CASE Browser!Wake \/ Browser!ReadSession
  <2>1. TabElse /\ UNCHANGED wish
    BY <1>3 DEF Browser!Wake, Browser!ReadSession, Browser!row, Browser!history, TabElse, Busy
  <2>2. QED
    BY <2>1 DEF TabMoves
<1>4. CASE Browser!Claim
  <2>1. TabClaims(BrowserModels)
    BY <1>4 DEF Browser!Claim, Browser!Ended, TabClaims, Busy, Browser!Idle, IdleTab
  <2>2. QED
    BY <1>4, <2>1 DEF Browser!Claim, Browser!Wishes, TabMoves
<1>5. CASE Browser!Finish \/ Browser!Excuse
  <2>1. \A report : Browser!Calls(report) \/ UNCHANGED <<state, wish, leased>> =>
           /\ wish' \in Browser!Wishes
           /\ state' = "completed" => state' = state \/ report = "completed"
    BY DEF Browser!Calls, Browser!Finished, Browser!Wishes
  <2>2. Browser!Report = "completed" => told = "nothing" /\ \A m \in BrowserModels : ~tab[m].failed
    BY DEF Browser!Report, TabTypes, TabTold
  <2>3. CASE Browser!Finish
    <3>1. \A m \in BrowserModels : tab[m].at = "over"
      BY <2>3 DEF Browser!Finish
    <3>2. UNCHANGED <<server, told, more>>
      BY <2>3 DEF Browser!Finish, Browser!Rest, Browser!history
    <3>3. \/ phase' = "awake" /\ tab' = [m \in BrowserModels |-> IdleTab]
          \/ phase = "running" /\ phase' = "excuse" /\ tab' = tab
      BY <2>3 DEF Browser!Finish, Browser!Rest, Browser!Idle, IdleTab
    <3>4. Browser!Calls(Browser!Report) \/ UNCHANGED <<state, wish, leased>>
      BY <2>3 DEF Browser!Finish
    <3>5. QED
      BY <2>1, <2>2, <3>1, <3>2, <3>3, <3>4 DEF TabMoves, TabReports
  <2>4. CASE Browser!Excuse
    BY <2>1, <2>4 DEF Browser!Excuse, Browser!Rest, Browser!history, Browser!Idle, IdleTab, TabMoves, TabReports
  <2>5. QED
    BY <1>5, <2>3, <2>4
<1>6. CASE Browser!Start \/ Browser!Stop \/ Browser!Forget
  BY <1>6 DEF Browser!Start, Browser!Stop, Browser!Forget, Browser!Order, Browser!OnlySettings, Browser!row, TabMoves,
     TabElse
<1>7. CASE Browser!End
  BY <1>7 DEF Browser!End, Browser!history, Browser!Idle, IdleTab, TabMoves, TabEnds
<1>8. CASE Browser!Operator
  <2>1. PICK wanting, new : Browser!Asks(wanting, new) /\ new # "completed" /\ wanting \in Browser!Wishes
    BY <1>8 DEF Browser!Operator, Browser!Stronger, Browser!Ended, Browser!Wishes
  <2>2. QED
    BY <2>1 DEF Browser!Asks, Browser!history, TabMoves, TabElse
<1>9. QED
  BY <1>2, <1>3, <1>4, <1>5, <1>6, <1>7, <1>8 DEF Browser!Next, Browser!Poll

TabInv(M, R) == TabTypes(M, R) /\ TabTidy(M, R) /\ wish \in {"nothing", "pause", "preempt", "cancel"}

LEMMA TabStart ==
    /\ SuiteInit /\ part = "chrome" => TabInv(ChromeModels, ChromeRounds)
    /\ SuiteInit /\ part = "browser" => TabInv(BrowserModels, BrowserRounds)
<1> USE DEF TabInv, TabTypes, TabTidy, TabRight, Held, TabSet, TabPlaces, TabTold, Busy
<1>0. /\ ChromeRounds \in Nat \ {0} /\ BrowserRounds \in Nat \ {0}
  BY ChromeAssumption DEF Chrome!ExtensionAssumption, Browser!ExtensionAssumption
<1>1. ASSUME Chrome!Init PROVE TabInv(ChromeModels, ChromeRounds)
  BY <1>0, <1>1 DEF Chrome!Init, Chrome!Idle
<1>2. ASSUME Browser!Init PROVE TabInv(BrowserModels, BrowserRounds)
  BY <1>0, <1>2 DEF Browser!Init, Browser!Idle
<1>3. SuiteInit /\ part = "chrome" => Chrome!Init
  BY DEF SuiteInit
<1>4. SuiteInit /\ part = "browser" => Browser!Init
  BY DEF SuiteInit
<1>5. QED
  BY <1>1, <1>2, <1>3, <1>4

LEMMA TabKeeps ==
    /\ TabInv(ChromeModels, ChromeRounds) /\ Chrome!Next => TabInv(ChromeModels, ChromeRounds)'
    /\ TabInv(BrowserModels, BrowserRounds) /\ Browser!Next
       => TabInv(BrowserModels, BrowserRounds)'
<1>0. /\ ChromeRounds \in Nat \ {0} /\ BrowserRounds \in Nat \ {0}
  BY ChromeAssumption DEF Chrome!ExtensionAssumption, Browser!ExtensionAssumption
<1>1. ASSUME TabInv(ChromeModels, ChromeRounds), Chrome!Next
      PROVE  TabInv(ChromeModels, ChromeRounds)'
  <2>1. TabMoves(ChromeModels, ChromeRounds) /\ wish' \in Chrome!Wishes
    BY <1>1, ChromeMoves DEF TabInv, Chrome!Wishes
  <2>2. QED
    BY <1>0, <1>1, <2>1, TabTyped, TabKept DEF TabInv, Chrome!Wishes
<1>2. ASSUME TabInv(BrowserModels, BrowserRounds), Browser!Next
      PROVE  TabInv(BrowserModels, BrowserRounds)'
  <2>1. TabMoves(BrowserModels, BrowserRounds) /\ wish' \in Browser!Wishes
    BY <1>2, BrowserMoves DEF TabInv, Browser!Wishes
  <2>2. QED
    BY <1>0, <1>2, <2>1, TabTyped, TabKept DEF TabInv, Browser!Wishes
<1>3. QED
  BY <1>1, <1>2

LEMMA TabHolds ==
    /\ TabInv(ChromeModels, ChromeRounds) => Chrome!StopsSoon /\ Chrome!CompletedIsWhole
    /\ TabInv(BrowserModels, BrowserRounds) => Browser!CompletedIsWhole
BY DEF TabInv, TabTypes, TabTidy, Chrome!StopsSoon, Chrome!CompletedIsWhole, Chrome!Steps,
   Chrome!RoundNos, Browser!CompletedIsWhole, Browser!Steps, Browser!RoundNos

-----------------------------------------------------------------------------
(* The user of the browser. Stopped or forgotten, the extension does not    *)
(* run, nor after the browser was closed; one poll may be past the question *)
(* whether it runs.                                                         *)

OrderInv ==
    /\ wanted \in BOOLEAN /\ since \in Nat
    /\ ~wanted => /\ ~auto /\ on \in {"no", "unset"}
                  /\ since <= 1
                  /\ since = 1 => phase # "ready"

LEMMA OrderStart == SuiteInit /\ part = "browser" => OrderInv
<1> SUFFICES ASSUME SuiteInit, part = "browser" PROVE OrderInv
  OBVIOUS
<1>1. Browser!Init
  BY DEF SuiteInit
<1>2. QED
  BY <1>1 DEF Browser!Init, OrderInv

LEMMA OrderKeeps == OrderInv /\ Browser!Next => OrderInv'
<1> SUFFICES ASSUME OrderInv, Browser!Next PROVE OrderInv'
  OBVIOUS
<1> USE DEF OrderInv
<1>1. CASE Browser!Wake
  BY <1>1 DEF Browser!Wake, Browser!settings, Browser!history
<1>2. CASE Browser!ReadSession
  BY <1>2 DEF Browser!ReadSession, Browser!Running, Browser!Unset, Browser!settings,
     Browser!history
<1>3. CASE Browser!Claim
  BY <1>3 DEF Browser!Claim, Browser!settings
<1>4. CASE Browser!Finish \/ Browser!Excuse
  BY <1>4 DEF Browser!Finish, Browser!Excuse, Browser!Rest, Browser!settings, Browser!history
<1>5. CASE \E m \in BrowserModels : Browser!Model(m)
  <2>1. UNCHANGED <<auto, on, phase, wanted, since>>
    BY <1>5 DEF Browser!Model, Browser!NextRound, Browser!Beat, Browser!Hear, Browser!Ask,
       Browser!Upload, Browser!Stored, Browser!Apart, Browser!settings
  <2>2. QED
    BY <2>1
<1>6. CASE Browser!Start \/ Browser!Stop \/ Browser!Forget
  <2>1. CASE Browser!Start
    <3>1. wanted' = TRUE /\ since' = 0
      BY <2>1 DEF Browser!Start, Browser!Order
    <3>2. QED
      BY <3>1
  <2>2. CASE Browser!Stop \/ Browser!Forget
    <3>1. wanted' = FALSE /\ since' = 0
      BY <2>2 DEF Browser!Stop, Browser!Forget, Browser!Order
    <3>2. auto' = FALSE /\ on' \in {"no", "unset"}
      BY <2>2 DEF Browser!Stop, Browser!Forget, Browser!Unset
    <3>3. wanted' \in BOOLEAN
      BY <3>1
    <3>4. ~auto'
      BY <3>2
    <3>5. since' \in Nat /\ since' <= 1 /\ since' # 1
      BY <3>1
    <3>6. QED
      BY <3>2, <3>3, <3>4, <3>5
  <2>3. QED
    BY <1>6, <2>1, <2>2
<1>7. CASE Browser!End
  BY <1>7 DEF Browser!End, Browser!history, Browser!Unset
<1>8. CASE Browser!Operator
  <2>1. UNCHANGED <<auto, on, phase, wanted, since>>
    BY <1>8 DEF Browser!Operator, Browser!Asks, Browser!settings, Browser!history
  <2>2. QED
    BY <2>1
<1>9. QED
  BY <1>1, <1>2, <1>3, <1>4, <1>5, <1>6, <1>7, <1>8 DEF Browser!Next, Browser!Poll

LEMMA OrderHolds == OrderInv => Browser!StaysStopped
BY DEF OrderInv, Browser!StaysStopped

-----------------------------------------------------------------------------
(* The worker of the local browser. The slots come in one order; those      *)
(* before the worker's own the server has, and of those it has yet to ask   *)
(* the disk holds no copy of this claim.                                    *)

Sites == 1..Len(Selected)
Turned == 1..Schedule
\* What comes before the i-th question of the k-th model, in the same run.
Earlier(m, j, k, i) == m < k \/ (m = k /\ j < i)
Onward == {"model", "ready", "round", "ask", "upload"}

LEMMA WebShape ==
    /\ Len(Selected) \in Nat \ {0} /\ Schedule \in Nat \ {0}
    /\ Web!Slots = {<<Selected[k], i>> : k \in Sites, i \in Turned}
    /\ \A k, m \in Sites, i, j \in Turned :
          <<Selected[k], i>> = <<Selected[m], j>> => k = m /\ i = j
<1>1. Selected \in Seq(Web!Range(Selected)) /\ Selected # <<>> /\ Schedule \in Nat \ {0}
  BY WebAssumption DEF Web!WorkAssumption
<1>2. Len(Selected) \in Nat \ {0} /\ DOMAIN Selected = Sites
  BY <1>1 DEF Sites
<1>3. \A k, m \in Sites : Selected[k] = Selected[m] => k = m
  BY <1>2, WebAssumption DEF Web!WorkAssumption, Web!IsInjective
<1>4. Web!Slots = {<<Selected[k], i>> : k \in Sites, i \in Turned}
  BY <1>2 DEF Web!Slots, Web!Range, Turned
<1>5. QED
  BY <1>1, <1>2, <1>3, <1>4

WebTypes ==
    /\ ticket \in [status : {"queued", "running", "completed", "failed", "cancelled"},
                   lease : Nat, cancel : BOOLEAN]
    /\ uploaded \subseteq Web!Slots /\ claims \in Nat
    /\ copies \in [Web!Slots -> Nat]
    /\ \/ agent = [at |-> "idle", lease |-> 0]
       \/ agent \in [at : Onward \cup {"finish", "fail", "cancelled"}, lease : Nat,
                     model : Sites, index : Turned, try : Nat]
WebStored ==
    /\ agent.at \in Onward => \A m \in Sites, j \in Turned :
          Earlier(m, j, agent.model, agent.index) => <<Selected[m], j>> \in uploaded
    /\ agent.at = "finish" => uploaded = Web!Slots
    /\ ticket.status = "completed" => uploaded = Web!Slots
WebCopied ==
    /\ \A s \in Web!Slots : copies[s] <= claims /\ (s \in uploaded => copies[s] > 0)
    /\ agent.at = "upload" => copies[<<Selected[agent.model], agent.index>>] > 0
    /\ agent.at \in Onward => \A m \in Sites, j \in Turned :
          \/ Earlier(agent.model, agent.index, m, j)
          \/ m = agent.model /\ j = agent.index /\ agent.at # "upload"
          => copies[<<Selected[m], j>>] < claims
WebInv == WebTypes /\ WebStored /\ WebCopied

LEMMA WebStart == SuiteInit => WebInv
<1> SUFFICES ASSUME SuiteInit PROVE WebInv
  OBVIOUS
<1>1. Web!Init
  BY DEF SuiteInit
<1>2. QED
  BY <1>1 DEF Web!Init, Web!Waiting, WebInv, WebTypes, WebStored, WebCopied, Onward

\* What a step does to the agent of the worker, its slot kept in hand.
Keeps(spot, n) ==
    agent' = [at |-> spot, lease |-> agent.lease, model |-> agent.model,
              index |-> agent.index, try |-> n]
WebReturns == agent' = [at |-> "idle", lease |-> 0]
WebFollows ==
    \/ /\ agent.index < Schedule
       /\ agent' = [at |-> "round", lease |-> agent.lease, model |-> agent.model,
                    index |-> agent.index + 1, try |-> 1]
    \/ /\ agent.index = Schedule /\ agent.model < Len(Selected)
       /\ agent' = [at |-> "model", lease |-> agent.lease, model |-> agent.model + 1,
                    index |-> 1, try |-> 1]
    \/ /\ agent.index = Schedule /\ agent.model = Len(Selected) /\ Keeps("finish", agent.try)
SlotInHand == <<Selected[agent.model], agent.index>>

LEMMA AgentFields ==
    ASSUME WebTypes, agent.at # "idle"
    PROVE  /\ agent.model \in Sites /\ agent.index \in Turned /\ agent.try \in Nat
           /\ agent.lease \in Nat
           /\ \A p : [agent EXCEPT !.at = p] =
                 [at |-> p, lease |-> agent.lease, model |-> agent.model,
                  index |-> agent.index, try |-> agent.try]
           /\ \A n : [agent EXCEPT !.try = n] =
                 [at |-> agent.at, lease |-> agent.lease, model |-> agent.model,
                  index |-> agent.index, try |-> n]
<1>1. PICK u \in [at : Onward \cup {"finish", "fail", "cancelled"}, lease : Nat,
                  model : Sites, index : Turned, try : Nat] : u = agent
  BY DEF WebTypes
<1>2. \A p : [u EXCEPT !.at = p] =
         [at |-> p, lease |-> u.lease, model |-> u.model, index |-> u.index, try |-> u.try]
  OBVIOUS
<1>3. \A n : [u EXCEPT !.try = n] =
         [at |-> u.at, lease |-> u.lease, model |-> u.model, index |-> u.index, try |-> n]
  OBVIOUS
<1>4. QED
  BY <1>1, <1>2, <1>3

WebServes ==
    /\ ticket' \in [status : {"queued", "running", "failed"}, lease : Nat, cancel : BOOLEAN]
       \/ (ticket'.status = ticket.status
           /\ ticket' \in [status : {"queued", "running", "completed", "failed", "cancelled"},
                           lease : Nat, cancel : BOOLEAN])
    /\ UNCHANGED <<uploaded, agent, copies, claims>>
WebClaims ==
    /\ ticket' \in [status : {"running"}, lease : Nat, cancel : BOOLEAN]
    /\ claims' = claims + 1
    /\ agent' = [at |-> "model", lease |-> claims + 1, model |-> 1, index |-> 1, try |-> 1]
    /\ UNCHANGED <<uploaded, copies>>
WebLeaves ==
    /\ agent.at # "idle"
    /\ ticket' \in [status : {"queued", "running", "completed", "failed", "cancelled"},
                    lease : Nat, cancel : BOOLEAN]
    /\ ticket'.status = "completed" => ticket.status = "completed" \/ agent.at = "finish"
    /\ WebReturns \/ Keeps("fail", agent.try) \/ Keeps("cancelled", agent.try)
    /\ UNCHANGED <<uploaded, copies, claims>>
WebWalks ==
    /\ \/ agent.at = "model" /\ Keeps("ready", agent.try)
       \/ agent.at = "ready" /\ Keeps("round", agent.try)
       \/ agent.at = "round" /\ Keeps("ask", agent.try)
       \/ agent.at = "ask" /\ Keeps("ask", agent.try + 1)
    /\ UNCHANGED <<ticket, uploaded, copies, claims>>
WebAnswers ==
    /\ agent.at = "ask" /\ Keeps("upload", 1)
    /\ copies' = [copies EXCEPT ![SlotInHand] = @ + 1]
    /\ UNCHANGED <<ticket, uploaded, claims>>
WebUploads ==
    /\ agent.at = "upload"
    /\ \/ uploaded' = uploaded \cup {SlotInHand} /\ WebFollows
       \/ /\ uploaded' = uploaded \/ uploaded' = uploaded \cup {SlotInHand}
          /\ Keeps("upload", agent.try + 1) \/ Keeps("fail", agent.try)
    /\ UNCHANGED <<ticket, copies, claims>>
WebMoves ==
    \/ WebServes \/ WebClaims \/ WebLeaves \/ WebWalks \/ WebAnswers \/ WebUploads

LEMMA WebTyped == WebInv /\ WebMoves => WebTypes'
<1> SUFFICES ASSUME WebInv, WebMoves PROVE WebTypes'
  OBVIOUS
<1>0. /\ WebTypes /\ 1 \in Sites /\ 1 \in Turned
      /\ agent.at # "idle" => SlotInHand \in Web!Slots
  BY WebShape, AgentFields DEF WebInv, Sites, Turned, SlotInHand
<1>1. CASE WebServes
  BY <1>0, <1>1 DEF WebServes, WebTypes
<1>2. CASE WebClaims
  BY <1>0, <1>2 DEF WebClaims, WebTypes, Onward
<1>3. CASE WebLeaves
  BY <1>0, <1>3, AgentFields DEF WebLeaves, WebReturns, Keeps, WebTypes
<1>4. CASE WebWalks
  BY <1>0, <1>4, AgentFields DEF WebWalks, Keeps, WebTypes, Onward
<1>5. CASE WebAnswers
  BY <1>0, <1>5, AgentFields DEF WebAnswers, Keeps, WebTypes, Onward
<1>6. CASE WebUploads
  <2>1. /\ agent.index < Schedule => agent.index + 1 \in Turned
        /\ agent.model < Len(Selected) => agent.model + 1 \in Sites
    BY <1>0, <1>6, AgentFields, WebShape DEF WebUploads, Sites, Turned
  <2>2. agent' \in [at : Onward \cup {"finish", "fail", "cancelled"}, lease : Nat,
                    model : Sites, index : Turned, try : Nat]
    BY <1>0, <1>6, <2>1, AgentFields DEF WebUploads, WebFollows, Keeps, Onward
  <2>3. QED
    BY <1>0, <1>6, <2>2 DEF WebUploads, WebTypes
<1>7. QED
  BY <1>1, <1>2, <1>3, <1>4, <1>5, <1>6 DEF WebMoves

LEMMA WebStoredKept == WebInv /\ WebMoves => WebStored'
<1> SUFFICES ASSUME WebInv, WebMoves PROVE WebStored'
  OBVIOUS
<1>0. /\ WebTypes /\ WebStored /\ WebTypes'
  BY WebTyped DEF WebInv
<1>1. CASE WebServes
  BY <1>0, <1>1 DEF WebServes, WebStored
<1>2. CASE WebClaims
  BY <1>0, <1>2 DEF WebClaims, WebStored, Earlier, Sites, Turned
<1>3. CASE WebLeaves
  BY <1>0, <1>3 DEF WebLeaves, WebReturns, Keeps, WebStored, Onward
<1>4. CASE WebWalks
  BY <1>0, <1>4 DEF WebWalks, Keeps, WebStored, Onward
<1>5. CASE WebAnswers
  BY <1>0, <1>5 DEF WebAnswers, Keeps, WebStored, Onward
<1>6. CASE WebUploads
  <2>0. /\ uploaded \subseteq uploaded' /\ uploaded' \subseteq Web!Slots
        /\ ticket'.status = "completed" => uploaded' = Web!Slots
    BY <1>0, <1>6 DEF WebUploads, WebStored, WebTypes
  <2>1. agent.model \in Sites /\ agent.index \in Turned
    BY <1>0, <1>6, AgentFields DEF WebUploads
  <2>2. \A m \in Sites, j \in Turned :
           Earlier(m, j, agent.model, agent.index) => <<Selected[m], j>> \in uploaded
    BY <1>0, <1>6 DEF WebUploads, WebStored, Onward
  <2>3. CASE Keeps("upload", agent.try + 1) \/ Keeps("fail", agent.try)
    BY <2>0, <2>2, <2>3 DEF Keeps, WebStored, Onward
  <2>4. CASE uploaded' = uploaded \cup {SlotInHand} /\ WebFollows
    <3>1. \A m \in Sites, j \in Turned :
             Earlier(m, j, agent.model, agent.index + 1) => <<Selected[m], j>> \in uploaded'
      BY <2>1, <2>2, <2>4 DEF Earlier, SlotInHand, Sites, Turned
    <3>2. CASE agent.index < Schedule
      <4>1. agent'.at = "round" /\ agent'.model = agent.model /\ agent'.index = agent.index + 1
        BY <2>1, <2>4, <3>2, WebShape DEF WebFollows, Turned
      <4>2. QED
        BY <2>0, <3>1, <4>1 DEF WebStored
    <3>3. CASE agent.index = Schedule /\ agent.model < Len(Selected)
      <4>1. agent'.at = "model" /\ agent'.model = agent.model + 1 /\ agent'.index = 1
        BY <2>1, <2>4, <3>3, WebShape DEF WebFollows, Sites, Turned
      <4>2. \A m \in Sites, j \in Turned :
               Earlier(m, j, agent.model + 1, 1) => <<Selected[m], j>> \in uploaded'
        BY <2>1, <3>1, <3>3, WebShape DEF Earlier, Sites, Turned
      <4>3. QED
        BY <2>0, <4>1, <4>2 DEF WebStored
    <3>4. CASE agent.index = Schedule /\ agent.model = Len(Selected) /\ Keeps("finish", agent.try)
      <4>1. \A m \in Sites, j \in Turned : <<Selected[m], j>> \in uploaded'
        BY <2>1, <3>1, <3>4, WebShape DEF Earlier, Sites, Turned
      <4>2. uploaded' = Web!Slots
        BY <2>0, <4>1, WebShape
      <4>3. QED
        BY <2>0, <3>4, <4>2 DEF WebStored, Keeps, Onward
    <3>5. QED
      BY <2>4, <3>2, <3>3, <3>4 DEF WebFollows
  <2>5. QED
    BY <1>6, <2>3, <2>4 DEF WebUploads
<1>7. QED
  BY <1>1, <1>2, <1>3, <1>4, <1>5, <1>6 DEF WebMoves

LEMMA WebCopiedKept == WebInv /\ WebMoves => WebCopied'
<1> SUFFICES ASSUME WebInv, WebMoves PROVE WebCopied'
  OBVIOUS
<1>0. /\ WebTypes /\ WebCopied /\ WebTypes'
  BY WebTyped DEF WebInv
<1>1. CASE WebServes
  BY <1>0, <1>1 DEF WebServes, WebCopied
<1>2. CASE WebClaims
  <2>1. \A s \in Web!Slots : copies'[s] <= claims /\ copies'[s] < claims'
    BY <1>0, <1>2 DEF WebClaims, WebCopied, WebTypes
  <2>2. agent'.at = "model"
    BY <1>2 DEF WebClaims
  <2>3. \A m \in Sites, j \in Turned : <<Selected[m], j>> \in Web!Slots
    BY WebShape
  <2>4. \A s \in Web!Slots : copies'[s] <= claims' /\ (s \in uploaded' => copies'[s] > 0)
    BY <1>0, <1>2 DEF WebClaims, WebCopied, WebTypes
  <2>5. QED
    BY <2>1, <2>2, <2>3, <2>4 DEF WebCopied
<1>3. CASE WebLeaves
  BY <1>0, <1>3 DEF WebLeaves, WebReturns, Keeps, WebCopied, Onward
<1>4. CASE WebWalks
  BY <1>0, <1>4 DEF WebWalks, Keeps, WebCopied, Onward
<1>5. CASE WebAnswers
  <2>1. agent.model \in Sites /\ agent.index \in Turned
    BY <1>0, <1>5, AgentFields DEF WebAnswers
  <2>2. SlotInHand \in Web!Slots
    BY <2>1, WebShape DEF SlotInHand
  <2>3. \A s \in Web!Slots : copies'[s] = IF s = SlotInHand THEN copies[s] + 1 ELSE copies[s]
    BY <1>0, <1>5, <2>2 DEF WebAnswers, WebTypes
  <2>4. copies[SlotInHand] < claims
    BY <1>0, <1>5, <2>1 DEF WebAnswers, WebCopied, Onward, SlotInHand
  <2>5. /\ agent'.at = "upload" /\ agent'.model = agent.model /\ agent'.index = agent.index
        /\ UNCHANGED <<uploaded, claims>>
    BY <1>5 DEF WebAnswers, Keeps
  <2>6. \A s \in Web!Slots : copies'[s] <= claims' /\ (s \in uploaded' => copies'[s] > 0)
    BY <1>0, <2>3, <2>4, <2>5 DEF WebCopied, WebTypes
  <2>7. copies'[SlotInHand] > 0
    BY <1>0, <2>2, <2>3 DEF WebTypes
  <2>8. ASSUME NEW m \in Sites, NEW j \in Turned, Earlier(agent.model, agent.index, m, j)
        PROVE  copies'[<<Selected[m], j>>] < claims'
    <3>1. <<Selected[m], j>> # SlotInHand
      <4>1. PICK k \in Sites, i \in Turned : k = agent.model /\ i = agent.index
        BY <2>1
      <4>2. ~(m = k /\ j = i)
        BY <2>8, <4>1 DEF Earlier, Sites, Turned
      <4>3. QED
        BY <4>1, <4>2, WebShape DEF SlotInHand
    <3>2. copies[<<Selected[m], j>>] < claims
      BY <1>0, <1>5, <2>8 DEF WebAnswers, WebCopied, Onward
    <3>3. <<Selected[m], j>> \in Web!Slots
      BY WebShape
    <3>4. QED
      BY <2>3, <2>5, <3>1, <3>2, <3>3
  <2>9. QED
    BY <2>5, <2>6, <2>7, <2>8 DEF WebCopied, SlotInHand
<1>6. CASE WebUploads
  <2>1. agent.model \in Sites /\ agent.index \in Turned
    BY <1>0, <1>6, AgentFields DEF WebUploads
  <2>2. \A s \in Web!Slots : copies'[s] <= claims' /\ (s \in uploaded' => copies'[s] > 0)
    <3>1. copies[SlotInHand] > 0
      BY <1>0, <1>6 DEF WebUploads, WebCopied, SlotInHand
    <3>2. QED
      BY <1>0, <1>6, <3>1 DEF WebUploads, WebCopied
  <2>3. \A m \in Sites, j \in Turned :
           Earlier(agent.model, agent.index, m, j) => copies'[<<Selected[m], j>>] < claims'
    BY <1>0, <1>6 DEF WebUploads, WebCopied, Onward
  <2>4. CASE Keeps("upload", agent.try + 1)
    <3>1. agent'.at = "upload" /\ agent'.model = agent.model /\ agent'.index = agent.index
      BY <2>4 DEF Keeps
    <3>2. copies'[<<Selected[agent.model], agent.index>>] > 0
      BY <1>0, <1>6 DEF WebUploads, WebCopied
    <3>3. QED
      BY <2>2, <2>3, <3>1, <3>2 DEF WebCopied
  <2>5. CASE Keeps("fail", agent.try)
    BY <2>2, <2>5 DEF Keeps, WebCopied, Onward
  <2>6. CASE WebFollows
    <3>1. CASE agent.index < Schedule
      <4>1. agent'.at = "round" /\ agent'.model = agent.model /\ agent'.index = agent.index + 1
        BY <2>1, <2>6, <3>1, WebShape DEF WebFollows, Turned
      <4>2. \A m \in Sites, j \in Turned :
               Earlier(agent'.model, agent'.index, m, j) \/ (m = agent'.model /\ j = agent'.index)
               => Earlier(agent.model, agent.index, m, j)
        BY <2>1, <4>1 DEF Earlier, Sites, Turned
      <4>3. QED
        BY <2>2, <2>3, <4>1, <4>2 DEF WebCopied
    <3>2. CASE agent.index = Schedule /\ agent.model < Len(Selected)
      <4>1. agent'.at = "model" /\ agent'.model = agent.model + 1 /\ agent'.index = 1
        BY <2>1, <2>6, <3>2, WebShape DEF WebFollows, Sites, Turned
      <4>2. \A m \in Sites, j \in Turned :
               Earlier(agent'.model, agent'.index, m, j) \/ (m = agent'.model /\ j = agent'.index)
               => Earlier(agent.model, agent.index, m, j)
        BY <2>1, <4>1 DEF Earlier, Sites, Turned
      <4>3. QED
        BY <2>2, <2>3, <4>1, <4>2 DEF WebCopied
    <3>3. CASE Keeps("finish", agent.try)
      BY <2>2, <3>3 DEF Keeps, WebCopied, Onward
    <3>4. QED
      BY <2>6, <3>1, <3>2, <3>3 DEF WebFollows
  <2>7. QED
    BY <1>6, <2>4, <2>5, <2>6 DEF WebUploads
<1>7. QED
  BY <1>1, <1>2, <1>3, <1>4, <1>5, <1>6 DEF WebMoves

LEMMA WebKeeps == WebInv /\ Web!Next => WebInv'
<1> SUFFICES ASSUME WebInv, Web!Next PROVE WebMoves
  BY WebTyped, WebStoredKept, WebCopiedKept DEF WebInv
<1>0. WebTypes
  BY DEF WebInv
<1>1. PICK t \in [status : {"queued", "running", "completed", "failed", "cancelled"},
                  lease : Nat, cancel : BOOLEAN] : t = ticket
  BY <1>0 DEF WebTypes
<1>2. CASE Web!Expire \/ Web!RequestCancel \/ Web!Retry
  <2>1. UNCHANGED <<uploaded, agent, copies, claims>>
    BY <1>2 DEF Web!Expire, Web!RequestCancel, Web!Retry
  <2>2. [t EXCEPT !.cancel = TRUE] \in [status : {t.status}, lease : Nat, cancel : BOOLEAN]
    OBVIOUS
  <2>3. [t EXCEPT !.status = "queued", !.lease = 0]
        \in [status : {"queued"}, lease : Nat, cancel : BOOLEAN]
    OBVIOUS
  <2>4. CASE Web!Expire
    BY <1>1, <2>1, <2>3, <2>4 DEF Web!Expire, WebServes, WebMoves
  <2>5. CASE Web!RequestCancel
    BY <1>1, <2>1, <2>2, <2>5 DEF Web!RequestCancel, WebServes, WebMoves
  <2>6. CASE Web!Retry
    BY <2>1, <2>6 DEF Web!Retry, WebServes, WebMoves
  <2>7. QED
    BY <1>2, <2>4, <2>5, <2>6
<1>3. CASE Web!Claim
  <2>1. claims + 1 \in Nat
    BY <1>0 DEF WebTypes
  <2>2. QED
    BY <1>1, <1>3, <2>1 DEF Web!Claim, Web!Goes, WebClaims, WebMoves
<1>4. CASE Web!StartModel \/ Web!StartRound \/ Web!CheckReady
  BY <1>0, <1>1, <1>4, AgentFields DEF Web!StartModel, Web!StartRound, Web!CheckReady,
     Web!Heartbeat, Web!At, Web!Local, Web!Goes, Web!Raise, WebLeaves, WebWalks, WebMoves,
     Keeps
<1>5. CASE Web!Ask
  <2>1. agent.at = "ask" /\ UNCHANGED <<ticket, uploaded, claims>>
    BY <1>5 DEF Web!Ask, Web!At
  <2>2. CASE agent' = Web!NextTry /\ UNCHANGED copies
    <3>1. Keeps("ask", agent.try + 1) \/ Keeps("fail", agent.try)
      BY <1>0, <2>1, <2>2, AgentFields DEF Web!NextTry, Web!Raise, Keeps
    <3>2. QED
      BY <1>1, <2>1, <2>2, <3>1 DEF WebWalks, WebLeaves, WebMoves
  <2>3. CASE Web!Answered /\ agent' = Web!Uploading
    <3>1. Keeps("upload", 1)
      <4>1. PICK u : u = [agent EXCEPT !.at = "upload", !.try = 1]
        OBVIOUS
      <4>2. u = [at |-> "upload", lease |-> agent.lease, model |-> agent.model,
                 index |-> agent.index, try |-> 1]
        <5>1. u = [[agent EXCEPT !.at = "upload"] EXCEPT !.try = 1]
          BY <4>1
        <5>2. QED
          BY <1>0, <2>1, <5>1, AgentFields
      <4>3. QED
        BY <2>3, <4>1, <4>2 DEF Keeps, Web!Uploading
    <3>2. QED
      BY <2>1, <2>3, <3>1 DEF Web!Answered, Web!Slot, WebAnswers, SlotInHand, WebMoves
  <2>4. QED
    BY <1>5, <2>2, <2>3 DEF Web!Ask, Web!Goes
<1>6. CASE Web!Upload
  <2>1. agent.at = "upload" /\ UNCHANGED <<ticket, copies, claims>>
    BY <1>6 DEF Web!Upload, Web!At
  <2>2. Web!GiveUp = agent' => Keeps("upload", agent.try + 1) \/ Keeps("fail", agent.try)
    BY <1>0, <2>1, AgentFields DEF Web!GiveUp, Web!Raise, Keeps
  <2>3. Web!Following = agent' => WebFollows
    <3>1. agent.model \in Sites /\ agent.index \in Turned
      BY <1>0, <2>1, AgentFields
    <3>2. PICK u \in [at : Onward \cup {"finish", "fail", "cancelled"}, lease : Nat,
                      model : Sites, index : Turned, try : Nat] : u = agent
      BY <1>0, <2>1 DEF WebTypes
    <3>3. ASSUME NEW p \in Onward, NEW i \in Turned
          PROVE  [u EXCEPT !.at = p, !.index = i, !.try = 1] =
                    [at |-> p, lease |-> u.lease, model |-> u.model, index |-> i, try |-> 1]
      <4>1. PICK v : v = [u EXCEPT !.at = p, !.index = i, !.try = 1]
        OBVIOUS
      <4>2. v \in [at : Onward, lease : Nat, model : Sites, index : Turned, try : Nat]
        BY <4>1
      <4>3. v = [at |-> v.at, lease |-> v.lease, model |-> v.model, index |-> v.index,
                 try |-> v.try]
        BY <4>2
      <4>4. QED
        BY <4>1, <4>3
    <3>4. ASSUME NEW k \in Sites
          PROVE  [u EXCEPT !.at = "model", !.model = k, !.index = 1, !.try = 1] =
                    [at |-> "model", lease |-> u.lease, model |-> k, index |-> 1, try |-> 1]
      <4>1. PICK v : v = [u EXCEPT !.at = "model", !.model = k, !.index = 1, !.try = 1]
        OBVIOUS
      <4>2. v \in [at : Onward, lease : Nat, model : Sites, index : Turned, try : Nat]
        <5>1. 1 \in Turned /\ "model" \in Onward
          BY WebShape DEF Onward, Turned
        <5>2. QED
          BY <4>1, <5>1
      <4>3. v = [at |-> v.at, lease |-> v.lease, model |-> v.model, index |-> v.index,
                 try |-> v.try]
        BY <4>2
      <4>4. QED
        BY <4>1, <4>3
    <3>5. CASE agent.index < Schedule
      <4>1. agent.index + 1 \in Turned /\ "round" \in Onward
        BY <3>1, <3>5, WebShape DEF Turned, Onward
      <4>2. [u EXCEPT !.at = "round", !.index = u.index + 1, !.try = 1] =
               [at |-> "round", lease |-> u.lease, model |-> u.model, index |-> u.index + 1,
                try |-> 1]
        BY <3>2, <3>3, <4>1
      <4>3. Web!Following = [u EXCEPT !.at = "round", !.index = u.index + 1, !.try = 1]
        BY <3>2, <3>5 DEF Web!Following
      <4>4. QED
        BY <3>2, <3>5, <4>2, <4>3 DEF WebFollows
    <3>6. CASE ~(agent.index < Schedule) /\ agent.model < Len(Selected)
      <4>1. agent.model + 1 \in Sites /\ agent.index = Schedule
        BY <3>1, <3>6, WebShape DEF Sites, Turned
      <4>2. [u EXCEPT !.at = "model", !.model = u.model + 1, !.index = 1, !.try = 1] =
               [at |-> "model", lease |-> u.lease, model |-> u.model + 1, index |-> 1, try |-> 1]
        BY <3>2, <3>4, <4>1
      <4>3. Web!Following = [u EXCEPT !.at = "model", !.model = u.model + 1, !.index = 1, !.try = 1]
        BY <3>2, <3>6 DEF Web!Following
      <4>4. QED
        BY <3>2, <3>6, <4>1, <4>2, <4>3 DEF WebFollows
    <3>7. CASE ~(agent.index < Schedule) /\ ~(agent.model < Len(Selected))
      BY <3>1, <3>2, <3>7, WebShape DEF Web!Following, WebFollows, Keeps, Sites, Turned
    <3>8. QED
      BY <3>5, <3>6, <3>7
  <2>4. QED
    BY <1>6, <2>1, <2>2, <2>3 DEF Web!Upload, Web!Goes, Web!Slot, SlotInHand, WebUploads, WebMoves
<1>7. CASE Web!Finish \/ Web!Fail \/ Web!Cancel \/ Web!Killed
  <2>1. agent.at # "idle" /\ UNCHANGED <<uploaded, copies, claims>>
    BY <1>7 DEF Web!Finish, Web!Fail, Web!Cancel, Web!Killed, Web!At, Web!Local
  <2>2. WebReturns \/ Keeps("fail", agent.try)
    BY <1>0, <1>7, <2>1, AgentFields
       DEF Web!Finish, Web!Fail, Web!Cancel, Web!Killed, Web!Goes, Web!Waiting, Web!Raise,
           WebReturns, Keeps
  <2>3. \A p \in {"completed", "failed", "cancelled"} : Web!Reported(p) \in
           [status : {"queued", "running", "completed", "failed", "cancelled"},
            lease : Nat, cancel : BOOLEAN] /\ Web!Reported(p).status \in {p, ticket.status}
    BY <1>1 DEF Web!Reported
  <2>4. /\ ticket' \in [status : {"queued", "running", "completed", "failed", "cancelled"},
                        lease : Nat, cancel : BOOLEAN]
        /\ ticket'.status = "completed" => ticket.status = "completed" \/ agent.at = "finish"
    BY <1>1, <1>7, <2>3 DEF Web!Finish, Web!Fail, Web!Cancel, Web!Killed, Web!At, Web!Local
  <2>5. QED
    BY <2>1, <2>2, <2>4 DEF WebLeaves, WebMoves
<1>8. QED
  BY <1>2, <1>3, <1>4, <1>5, <1>6, <1>7 DEF Web!Next

LEMMA WebHolds == WebInv => Web!CompletedIsWhole /\ Web!OneCopyPerClaim
BY DEF WebInv, WebStored, WebCopied, Web!CompletedIsWhole, Web!OneCopyPerClaim

-----------------------------------------------------------------------------
(* The collector of Doubao. Every number of a conversation is used for one  *)
(* round: those the rounds have, those the rows of the child still hold,    *)
(* and those the collector keeps. It keeps some only while one round is     *)
(* left to ask for, and for the question of that round.                     *)

Asks == {Questions[r] : r \in 1..Len(Questions)}
AskSlots == 1..Len(Questions)
NoTalk == [task |-> 0, question |-> "none", number |-> 0]
Talk == [task : Nat, question : Asks \cup {"none"}, number : Nat]
Talked(r, n) == [task |-> turn, question |-> Questions[r], number |-> n]
Collecting == {"batch", "child", "over"}

\* The row of the child that belongs to round r.
Rank(r) == Cardinality({q \in chunk : q <= r})

TalkTypes ==
    /\ turn \in Nat \ {0} /\ talks \in Nat /\ size \in Nat \ {0}
    /\ had \in [AskSlots -> Talk] /\ spooled \in [AskSlots -> Talk]
    /\ kept \in Seq(Talk) /\ rows \in Seq(Nat) /\ chunk \subseteq AskSlots
    /\ where \in Collecting \cup {"rest", "serial"} /\ try \in Nat /\ round \in Nat \ {0}

\* The answer a belongs to round r.
Suits(r, a) ==
    a = NoTalk \/ (a.task = turn /\ a.question = Questions[r] /\ a.number \in 1..talks)
Uses(r, n) == had[r].number = n \/ spooled[r].number = n
Unused(n) == \A q \in AskSlots : ~Uses(q, n)
TalksSuit ==
    /\ \A r \in AskSlots : Suits(r, had[r]) /\ Suits(r, spooled[r])
    /\ \A r, q \in AskSlots, n \in 1..talks : Uses(r, n) /\ Uses(q, n) => r = q
RowsUnused ==
    where \in {"child", "over"} =>
        /\ \A i \in 1..Len(rows) : rows[i] \in 0..talks
        /\ \A i, j \in 1..Len(rows) : rows[i] = rows[j] /\ rows[i] # 0 => i = j
        /\ \A r \in chunk \ emitted :
              Rank(r) \in 1..Len(rows) /\ rows[Rank(r)] # 0 => Unused(rows[Rank(r)])
Answered(r) == had[r] # NoTalk \/ spooled[r] # NoTalk
\* Round o is the only one that may still be asked for.
OneLeft(o) ==
    /\ \A r \in AskSlots : r # o => Answered(r)
    /\ kept # <<>> => key = Questions[o]
    /\ try > 1 => round = o
KeptFine(i) ==
    /\ kept[i].task = turn /\ kept[i].question = key
    /\ kept[i].number \in 1..talks /\ Unused(kept[i].number)
KeptUnused ==
    /\ where \in Collecting => kept = <<>> /\ try = 1
    /\ where = "serial" =>
        /\ \A i \in 1..Len(kept) : KeptFine(i)
        /\ \A i, j \in 1..Len(kept) : kept[i].number = kept[j].number => i = j
        /\ (size = 1 /\ kept = <<>>) \/ \E o \in AskSlots : OneLeft(o)
BurstInv == TalkTypes /\ TalksSuit /\ RowsUnused /\ KeptUnused

-----------------------------------------------------------------------------
LEMMA BurstShape ==
    /\ Len(Questions) \in Nat \ {0} /\ Chunk \in Nat \ {0} /\ BurstAttempts \in Nat \ {0}
    /\ AskSlots # {} /\ IsFiniteSet(AskSlots)
    /\ Burst!RoundNos = AskSlots /\ Burst!None = NoTalk
<1>1. Questions \in Seq(Burst!Range(Questions)) /\ Questions # <<>>
      /\ Chunk \in Nat \ {0} /\ BurstAttempts \in Nat \ {0}
  BY CollectorAssumption DEF Burst!BurstAssumption
<1>2. Len(Questions) \in Nat \ {0}
  BY <1>1
<1>3. 1 \in AskSlots
  BY <1>2 DEF AskSlots
<1>5. IsFiniteSet(1..Len(Questions))
  BY <1>2, FS_Interval
<1>4. QED
  BY <1>1, <1>2, <1>3, <1>5 DEF Burst!RoundNos, AskSlots, Burst!None, Burst!NoQuestion, NoTalk

LEMMA NoTalkTyped == NoTalk \in Talk
  BY DEF NoTalk, Talk

\* The rows of a child are of different rounds.
LEMMA RanksDiffer ==
    ASSUME TalkTypes, NEW r \in chunk, NEW q \in chunk, r # q
    PROVE  Rank(r) \in Nat /\ Rank(r) # Rank(q)
<1> DEFINE B(n) == {p \in chunk : p <= n}
<1>0. chunk \subseteq AskSlots /\ \A p \in chunk : p \in Nat
  BY DEF TalkTypes, AskSlots
<1>1. IsFiniteSet(chunk)
  BY <1>0, BurstShape, FS_Subset
<1>2. \A n : IsFiniteSet(B(n)) /\ Cardinality(B(n)) \in Nat
  BY <1>1, FS_Subset, FS_CardinalityType
<1>3. ASSUME NEW a \in chunk, NEW b \in chunk, a < b PROVE Cardinality(B(a)) # Cardinality(B(b))
  <2>1. B(a) \in SUBSET B(b) /\ b \in B(b) /\ b \notin B(a)
    BY <1>0, <1>3
  <2>2. B(a) # B(b)
    BY <2>1
  <2>3. QED
    BY <1>2, <2>1, <2>2, FS_Subset
<1>4. r < q \/ q < r
  BY <1>0
<1>5. QED
  BY <1>2, <1>3, <1>4 DEF Rank

LEMMA BurstStart == SuiteInit => BurstInv
<1> SUFFICES ASSUME SuiteInit PROVE BurstInv
  OBVIOUS
<1>1. Burst!Init
  BY DEF SuiteInit
<1>2. /\ turn = 1 /\ size = 1 /\ kept = <<>> /\ where = "rest" /\ chunk = {} /\ rows = <<>>
      /\ round = 1 /\ try = 1 /\ talks = 0
      /\ had = [r \in AskSlots |-> NoTalk] /\ spooled = [r \in AskSlots |-> NoTalk]
  BY <1>1, BurstShape DEF Burst!Init
<1>3. TalkTypes
  BY <1>2, NoTalkTyped DEF TalkTypes, Collecting
<1>4. QED
  BY <1>2, <1>3 DEF BurstInv, TalksSuit, RowsUnused, KeptUnused, Suits, Uses, Collecting, NoTalk

-----------------------------------------------------------------------------
(* What a step does.                                                        *)

\* An answer is stored, waits in the spool, or is lost.
Put(r, a) ==
    \/ UNCHANGED <<had, spooled>>
    \/ UNCHANGED had /\ spooled' = [spooled EXCEPT ![r] = a]
    \/ /\ had[r] # NoTalk /\ UNCHANGED had
       /\ spooled' = [spooled EXCEPT ![r] = NoTalk]
    \/ /\ had[r] = NoTalk /\ had' = [had EXCEPT ![r] = a]
       /\ spooled' = [spooled EXCEPT ![r] = NoTalk]

TakesOff ==
    /\ where = "rest" /\ UNCHANGED <<size, kept, where, chunk, rows, emitted, round, try, talks>>
    /\ turn' = turn + 1
    /\ had' = [r \in AskSlots |-> NoTalk] /\ spooled' = [r \in AskSlots |-> NoTalk]
SetsOut ==
    /\ where = "rest" /\ UNCHANGED <<turn, had, spooled, chunk, rows, emitted, talks>>
    /\ size' \in Nat \ {0} /\ kept' = <<>> /\ round' = 1 /\ try' = 1
    /\ \/ where' = "batch"
       \/ /\ where' = "serial"
          /\ size' = 1 \/ \E o \in AskSlots : \A r \in AskSlots : r # o => Answered(r)
Rests ==
    /\ where' = "rest" /\ UNCHANGED <<turn, had, spooled, round, try, talks>>
    /\ UNCHANGED <<size, kept>> \/ (size' = 1 /\ kept' = <<>>)
    /\ chunk' = {} /\ rows' = <<>> /\ emitted' = {}
TurnsSerial == chunk' = {} /\ rows' = <<>> /\ where' = "serial" /\ size' = 1 /\ kept' = <<>>
Batches ==
    /\ where \in Collecting /\ UNCHANGED <<turn, had, spooled, round, try, talks>>
    /\ \/ TurnsSerial
       \/ /\ where = "batch" /\ where' = "serial" /\ \A r \in AskSlots : Answered(r)
          /\ UNCHANGED <<size, key, kept, chunk, rows>>
       \/ /\ where' \in {"batch", "child"} /\ chunk' \subseteq AskSlots /\ rows' = <<>>
          /\ UNCHANGED <<size, kept>>
       \/ where' = "over" /\ where = "child" /\ UNCHANGED <<size, kept, chunk, rows, emitted>>
Rows ==
    /\ where = "child" /\ talks' = talks + 1
    /\ \E n \in {0, talks + 1} : rows' = Append(rows, n)
    /\ UNCHANGED <<turn, had, spooled, size, kept, where, chunk, emitted, round, try>>
Publishes ==
    /\ where \in {"child", "over"}
    /\ \E r \in chunk \ emitted :
          /\ Rank(r) \in 1..Len(rows) /\ rows[Rank(r)] # 0
          /\ Put(r, Talked(r, rows[Rank(r)]))
          /\ \/ /\ emitted' = emitted \cup {r}
                /\ UNCHANGED <<where, chunk, rows, size, kept>>
             \/ TurnsSerial
    /\ UNCHANGED <<turn, round, try, talks>>
Advances == where' = "serial" /\ round' = round + 1 /\ try' = 1
Skips ==
    /\ where = "serial" /\ Advances
    /\ UNCHANGED <<turn, had, spooled, size, key, kept, chunk, rows, emitted, talks>>
Resends ==
    /\ where = "serial" /\ Advances
    /\ round \in AskSlots /\ spooled[round] # NoTalk /\ Put(round, spooled[round])
    /\ UNCHANGED <<turn, size, key, kept, chunk, rows, emitted, talks>>
Wants ==
    /\ where = "serial" /\ round \in AskSlots
    /\ had[round] = NoTalk /\ (spooled[round] = NoTalk \/ try > 1)
Hands ==
    \/ Advances
    \/ where' = "serial" /\ round' = round /\ try' = try + 1
    \/ where' = "rest" /\ UNCHANGED <<round, try>>
TakesKept ==
    /\ Wants /\ Hands /\ kept # <<>> /\ key = Questions[round]
    /\ kept' = Tail(kept) /\ Put(round, Head(kept))
    /\ UNCHANGED <<turn, size, key, chunk, rows, emitted, talks>>
AsksMore ==
    /\ Wants /\ Hands /\ (kept = <<>> \/ key # Questions[round])
    /\ talks' = talks + size /\ key' = Questions[round]
    /\ kept' = kept \o [i \in 1..(size - 1) |-> Talked(round, talks + 1 + i)]
    /\ Put(round, Talked(round, talks + 1))
    /\ UNCHANGED <<turn, size, chunk, rows, emitted>>
Misses ==
    /\ Wants /\ Hands
    /\ UNCHANGED <<turn, had, spooled, size, key, kept, chunk, rows, emitted, talks>>
BurstMoves ==
    \/ TakesOff \/ SetsOut \/ Rests \/ Batches \/ Rows \/ Publishes
    \/ Skips \/ Resends \/ TakesKept \/ AsksMore \/ Misses

LEMMA BurstPuts ==
    ASSUME TalkTypes, NEW r \in AskSlots, NEW a \in Talk, NEW result \in Burst!Results,
           Burst!Persist(r, a, result)
    PROVE  Put(r, a)
<1>1. CASE result = "stored"
  <2>1. /\ had' = [had EXCEPT ![r] = IF had[r] = NoTalk THEN a ELSE had[r]]
        /\ spooled' = [spooled EXCEPT ![r] = NoTalk]
    BY <1>1, BurstShape DEF Burst!Persist, TalkTypes
  <2>2. had[r] # NoTalk => [had EXCEPT ![r] = had[r]] = had
    BY DEF TalkTypes
  <2>3. QED
    BY <2>1, <2>2 DEF Put
<1>2. CASE result = "spooled"
  BY <1>2 DEF Burst!Persist, Put
<1>3. CASE result = "refused"
  BY <1>3 DEF Burst!Persist, Put
<1>4. QED
  BY <1>1, <1>2, <1>3 DEF Burst!Results

LEMMA BurstFallsBack == Burst!FallBack => TurnsSerial
<1>1. Burst!Min({Chunk, 1}) = 1
  BY BurstShape DEF Burst!Min
<1>2. QED
  BY <1>1 DEF Burst!FallBack, Burst!Prepare, TurnsSerial

LEMMA BurstMapped ==
    ASSUME TalkTypes, Burst!Next PROVE BurstMoves
<1> USE BurstShape, NoTalkTyped
<1>0. \A r \in AskSlots : Questions[r] \in Asks
  BY DEF AskSlots, Asks
<1>1. CASE Burst!NewTask
  BY <1>1 DEF Burst!NewTask, Burst!collector, Burst!child, Burst!loop, BurstMoves, TakesOff
<1>2. CASE Burst!Start
  <2>1. ASSUME NEW n \in Nat \ {0} PROVE Burst!Min({Chunk, n}) \in Nat \ {0}
    <3>1. \E x \in {Chunk, n} : \A y \in {Chunk, n} : x <= y
      <4>1. Chunk <= n \/ n <= Chunk
        OBVIOUS
      <4>2. QED
        BY <4>1
    <3>2. Burst!Min({Chunk, n}) \in {Chunk, n}
      BY <3>1 DEF Burst!Min
    <3>3. QED
      BY <3>2
  <2>2. Burst!Min({Chunk, 1}) = 1
    BY DEF Burst!Min
  <2>3. Burst!Cardinality(AskSlots \ Burst!Done) \in Nat \ {0}
    <3>1. IsFiniteSet(AskSlots \ Burst!Done) /\ AskSlots \ Burst!Done # {}
      BY <1>2, FS_Difference DEF Burst!Start, Burst!Done
    <3>2. Cardinality(AskSlots \ Burst!Done) \in Nat \ {0}
      BY <3>1, FS_CardinalityType, FS_EmptySet
    <3>3. QED
      BY <3>2 DEF Burst!Cardinality, Cardinality
  <2>4. size' \in Nat \ {0} /\ (kind # "diagnosis" => size' = 1)
    <3>1. size' = Burst!Min({Chunk, IF kind = "diagnosis"
                                    THEN Burst!Cardinality(AskSlots \ Burst!Done) ELSE 1})
      BY <1>2 DEF Burst!Start, Burst!Prepare
    <3>2. CASE kind = "diagnosis"
      BY <2>1, <2>3, <3>1, <3>2
    <3>3. CASE kind # "diagnosis"
      BY <2>2, <3>1, <3>3
    <3>4. QED
      BY <3>2, <3>3
  <2>5. ASSUME kind = "diagnosis", ~(Burst!Cardinality(Burst!Missing) > 1)
        PROVE  \E o \in AskSlots : \A r \in AskSlots : r # o => Answered(r)
    <3>1. Burst!Missing = {r \in AskSlots : ~Answered(r)}
      BY DEF Burst!Missing, Burst!Done, Answered
    <3>2. IsFiniteSet(Burst!Missing) /\ Cardinality(Burst!Missing) \in Nat
      BY <3>1, FS_Subset, FS_CardinalityType
    <3>3. Cardinality(Burst!Missing) <= 1
      BY <2>5, <3>2 DEF Burst!Cardinality, Cardinality
    <3>4. Burst!Missing = {} \/ \E o : Burst!Missing = {o}
      <4>1. Cardinality(Burst!Missing) = 0 \/ Cardinality(Burst!Missing) = 1
        BY <3>2, <3>3
      <4>2. QED
        BY <3>2, <4>1, FS_EmptySet, FS_Singleton
    <3>5. QED
      BY <3>1, <3>4
  <2>6. SetsOut
    BY <1>2, <2>4, <2>5 DEF Burst!Start, Burst!Prepare, Burst!child, SetsOut
  <2>7. QED
    BY <2>6 DEF BurstMoves
<1>3. CASE Burst!Stops
  BY <1>3 DEF Burst!Stops, Burst!collector, Burst!loop, BurstMoves, Rests
<1>4. CASE Burst!StartChunk
  BY <1>4 DEF Burst!StartChunk, Burst!NextChunk, Burst!Missing, Burst!collector, Burst!loop,
       BurstMoves, Batches, Collecting
<1>5. CASE Burst!Row
  BY <1>5 DEF Burst!Row, Burst!Failed, Burst!collector, Burst!loop, BurstMoves, Rows
<1>6. CASE Burst!Publish
  <2>1. PICK r \in chunk \ emitted, result \in Burst!Results :
           /\ Burst!Ready(r)
           /\ Burst!Persist(r, Burst!Answer(Questions[r], Burst!RowOf(r)), result)
           /\ \/ /\ emitted' = emitted \cup {r}
                 /\ UNCHANGED <<where, chunk, rows, size, kept, round, try>>
              \/ TurnsSerial /\ UNCHANGED <<round, try>>
    BY <1>6, BurstFallsBack DEF Burst!Publish, Burst!collector, Burst!loop, Burst!FallBack
  <2>2. Burst!Cardinality({q \in chunk : q <= r}) = Rank(r)
    BY DEF Rank, Burst!Cardinality, Cardinality
  <2>3. r \in AskSlots /\ Rank(r) \in Nat
    <3>1. IsFiniteSet(chunk)
      BY FS_Subset DEF TalkTypes
    <3>2. IsFiniteSet({q \in chunk : q <= r})
      BY <3>1, FS_Subset
    <3>3. QED
      BY <3>2, FS_CardinalityType DEF Rank, TalkTypes
  <2>4. Rank(r) # 0
    <3>1. r \in {q \in chunk : q <= r}
      BY <2>3 DEF AskSlots
    <3>2. IsFiniteSet({q \in chunk : q <= r})
      BY FS_Subset DEF TalkTypes
    <3>3. QED
      BY <3>1, <3>2, FS_EmptySet DEF Rank
  <2>5. /\ Burst!RowOf(r) = rows[Rank(r)] /\ Rank(r) \in 1..Len(rows) /\ rows[Rank(r)] # 0
        /\ rows[Rank(r)] \in Nat
    BY <2>1, <2>2, <2>3, <2>4 DEF Burst!Ready, Burst!RowOf, Burst!Failed, TalkTypes
  <2>6. Talked(r, rows[Rank(r)]) \in Talk
    BY <1>0, <2>3, <2>5 DEF Talked, Talk, TalkTypes
  <2>7. Put(r, Talked(r, rows[Rank(r)]))
    BY <2>1, <2>3, <2>5, <2>6, BurstPuts DEF Burst!Answer, Talked
  <2>8. QED
    BY <1>6, <2>1, <2>5, <2>7 DEF Burst!Publish, BurstMoves, Publishes
<1>7. CASE Burst!ChildEnds
  BY <1>7, BurstFallsBack
     DEF Burst!ChildEnds, Burst!FallBack, Burst!collector, Burst!loop, BurstMoves, Batches,
         Collecting
<1>8. CASE Burst!ChunkEnds
  BY <1>8, BurstFallsBack
     DEF Burst!ChunkEnds, Burst!FallBack, Burst!collector, Burst!loop, BurstMoves, Batches,
         Collecting
<1>9. CASE Burst!BatchEnds
  <2>1. \A r \in AskSlots : Answered(r)
    BY <1>9 DEF Burst!BatchEnds, Burst!Missing, Burst!Done, Answered
  <2>2. QED
    BY <1>9, <2>1 DEF Burst!BatchEnds, Burst!collector, Burst!child, Burst!loop, BurstMoves,
       Batches, Collecting
<1> USE DEF Burst!InHand, Burst!Onward, Burst!collector, Burst!child, Burst!loop
<1>10. CASE Burst!Skip
  BY <1>10 DEF Burst!Skip, BurstMoves, Skips, Advances
<1>11. CASE Burst!Replay
  <2>1. round \in AskSlots /\ spooled[round] \in Talk
    BY <1>11 DEF Burst!Replay, TalkTypes
  <2>2. Put(round, spooled[round])
    BY <1>11, <2>1, BurstPuts DEF Burst!Replay, Burst!Results
  <2>3. QED
    BY <1>11, <2>2 DEF Burst!Replay, BurstMoves, Resends, Advances
<1>12. ASSUME NEW a \in Talk, Burst!Collects, Burst!Handed(a)
       PROVE  Wants /\ Hands /\ Put(round, a)
  <2>1. Wants
    BY <1>12 DEF Burst!Collects, Wants
  <2>2. PICK result \in Burst!Results :
           /\ Burst!Persist(round, a, result)
           /\ IF result = "stored" THEN Burst!Onward /\ UNCHANGED where
              ELSE IF try < BurstAttempts THEN try' = try + 1 /\ UNCHANGED <<round, where>>
              ELSE where' = "rest" /\ UNCHANGED Burst!loop
    BY <1>12 DEF Burst!Handed
  <2>3. Put(round, a)
    BY <2>1, <2>2, BurstPuts DEF Wants
  <2>4. QED
    BY <2>1, <2>2, <2>3 DEF Wants, Hands, Advances
<1>13. CASE Burst!TakeKept
  <2>1. Head(kept) \in Talk
    BY <1>13 DEF Burst!TakeKept, TalkTypes
  <2>2. Wants /\ Hands /\ Put(round, Head(kept))
    BY <1>12, <1>13, <2>1 DEF Burst!TakeKept
  <2>3. QED
    BY <1>13, <2>2 DEF Burst!TakeKept, BurstMoves, TakesKept
<1>14. CASE Burst!AskBatch
  <2>1. Talked(round, talks + 1) \in Talk
    BY <1>0, <1>14 DEF Burst!AskBatch, Burst!Collects, Talked, Talk, TalkTypes
  <2>2. Wants /\ Hands /\ Put(round, Talked(round, talks + 1))
    BY <1>12, <1>14, <2>1 DEF Burst!AskBatch, Burst!Answer, Talked
  <2>3. QED
    BY <1>14, <2>2 DEF Burst!AskBatch, Burst!Answer, Talked, BurstMoves, AsksMore
<1>15. CASE Burst!AskFails
  BY <1>15 DEF Burst!AskFails, Burst!Collects, BurstMoves, Misses, Wants, Hands
<1>16. QED
  BY <1>1, <1>2, <1>3, <1>4, <1>5, <1>6, <1>7, <1>8, <1>9, <1>10, <1>11, <1>13, <1>14, <1>15
     DEF Burst!Next, Burst!Batch, Burst!Serial

-----------------------------------------------------------------------------
LEMMA BurstTyped == TalkTypes /\ BurstMoves => TalkTypes'
<1> SUFFICES ASSUME TalkTypes, BurstMoves PROVE TalkTypes'
  OBVIOUS
<1> USE BurstShape, NoTalkTyped DEF TalkTypes, Collecting
<1>0. \A r \in AskSlots : Questions[r] \in Asks
  BY DEF AskSlots, Asks
<1> <<>> \in Seq(Talk)
  OBVIOUS
<1> <<>> \in Seq(Nat)
  OBVIOUS
<1>1. CASE TakesOff
  BY <1>1 DEF TakesOff
<1>2. CASE SetsOut
  BY <1>2 DEF SetsOut
<1>3. CASE Rests
  <2>1. /\ UNCHANGED <<turn, had, spooled, round, try, talks>>
        /\ where' = "rest" /\ chunk' = {} /\ rows' = <<>>
    BY <1>3 DEF Rests
  <2>2. size' \in Nat \ {0} /\ kept' \in Seq(Talk)
    <3>1. CASE UNCHANGED <<size, kept>>
      BY <3>1
    <3>2. CASE size' = 1 /\ kept' = <<>>
      BY <3>2
    <3>3. QED
      BY <1>3, <3>1, <3>2 DEF Rests
  <2>3. QED
    BY <2>1, <2>2
<1>15. TurnsSerial => /\ size' \in Nat \ {0} /\ kept' \in Seq(Talk) /\ rows' \in Seq(Nat)
                      /\ chunk' \subseteq AskSlots /\ where' = "serial"
  BY DEF TurnsSerial
<1>4. CASE Batches
  <2>1. UNCHANGED <<turn, had, spooled, round, try, talks>>
    BY <1>4 DEF Batches
  <2>2. size' \in Nat \ {0} /\ kept' \in Seq(Talk)
    BY <1>4, <1>15 DEF Batches
  <2>3. rows' \in Seq(Nat)
    BY <1>4, <1>15 DEF Batches
  <2>4. chunk' \subseteq AskSlots /\ where' \in Collecting \cup {"rest", "serial"}
    BY <1>4, <1>15 DEF Batches
  <2>5. QED
    BY <2>1, <2>2, <2>3, <2>4
<1>5. CASE Rows
  BY <1>5 DEF Rows
<1>6. ASSUME NEW r \in AskSlots, NEW a \in Talk, Put(r, a)
      PROVE  had' \in [AskSlots -> Talk] /\ spooled' \in [AskSlots -> Talk]
  BY <1>6 DEF Put
<1>7. CASE Publishes
  <2>1. PICK r \in chunk \ emitted :
           /\ Rank(r) \in 1..Len(rows) /\ rows[Rank(r)] # 0
           /\ Put(r, Talked(r, rows[Rank(r)]))
           /\ \/ UNCHANGED <<where, chunk, rows, size, kept>>
              \/ TurnsSerial
    BY <1>7 DEF Publishes
  <2>6. r \in AskSlots /\ rows[Rank(r)] \in Nat
    BY <2>1
  <2>2. r \in AskSlots /\ Talked(r, rows[Rank(r)]) \in Talk
    BY <1>0, <2>6 DEF Talked, Talk
  <2>3. had' \in [AskSlots -> Talk] /\ spooled' \in [AskSlots -> Talk]
    BY <1>6, <2>1, <2>2
  <2>4. UNCHANGED <<turn, round, try, talks>>
    BY <1>7 DEF Publishes
  <2>7. /\ size' \in Nat \ {0} /\ kept' \in Seq(Talk) /\ rows' \in Seq(Nat)
        /\ chunk' \subseteq AskSlots /\ where' \in Collecting \cup {"rest", "serial"}
    BY <1>15, <2>1
  <2>5. QED
    BY <2>3, <2>4, <2>7
<1>8. CASE Skips
  BY <1>8 DEF Skips, Advances
<1>9. CASE Resends
  <2>1. had' \in [AskSlots -> Talk] /\ spooled' \in [AskSlots -> Talk]
    BY <1>6, <1>9 DEF Resends
  <2>2. QED
    BY <1>9, <2>1 DEF Resends, Advances
<1>10. Hands => where' \in {"serial", "rest"} /\ round' \in Nat \ {0} /\ try' \in Nat
  BY DEF Hands, Advances
<1>11. CASE TakesKept
  <2>1. Head(kept) \in Talk /\ Tail(kept) \in Seq(Talk)
    BY <1>11 DEF TakesKept
  <2>2. had' \in [AskSlots -> Talk] /\ spooled' \in [AskSlots -> Talk]
    BY <1>6, <1>11, <2>1 DEF TakesKept, Wants
  <2>3. QED
    BY <1>10, <1>11, <2>1, <2>2 DEF TakesKept
<1>12. CASE AsksMore
  <2>0. round \in AskSlots /\ size \in Nat \ {0} /\ talks \in Nat
    BY <1>12 DEF AsksMore, Wants
  <2>1. Talked(round, talks + 1) \in Talk
    BY <1>0, <2>0 DEF Talked, Talk
  <2>2. had' \in [AskSlots -> Talk] /\ spooled' \in [AskSlots -> Talk]
    BY <1>6, <1>12, <2>0, <2>1 DEF AsksMore
  <2>3. \A i \in 1..(size - 1) : Talked(round, talks + 1 + i) \in Talk
    BY <1>0, <2>0 DEF Talked, Talk
  <2>4. size - 1 \in Nat
    BY <2>0
  <2>5. [i \in 1..(size - 1) |-> Talked(round, talks + 1 + i)] \in Seq(Talk)
    BY <2>3, <2>4, IsASeq
  <2>6. kept' \in Seq(Talk)
    BY <1>12, <2>5 DEF AsksMore
  <2>7. QED
    BY <1>10, <1>12, <2>0, <2>2, <2>6 DEF AsksMore
<1>13. CASE Misses
  BY <1>10, <1>13 DEF Misses
<1>14. QED
  BY <1>1, <1>2, <1>3, <1>4, <1>5, <1>7, <1>8, <1>9, <1>11, <1>12, <1>13 DEF BurstMoves

\* A number no other round uses may be put to a round.
LEMMA PutSuits ==
    ASSUME TalkTypes, TalkTypes', TalksSuit, NEW r \in AskSlots, NEW a \in Talk,
           Put(r, a) /\ turn' = turn /\ talks' >= talks,
           a.task = turn /\ a.question = Questions[r] /\ a.number \in 1..talks',
           \A q \in AskSlots : q # r => ~Uses(q, a.number)
    PROVE  /\ TalksSuit'
           /\ \A n \in Nat \ {0} : n # a.number /\ Unused(n) => Unused(n)'
           /\ \A q \in AskSlots : Answered(q) => Answered(q)'
<1> talks \in Nat /\ talks' \in Nat
  BY DEF TalkTypes
<1>0. NoTalk.number = 0 /\ a # NoTalk
  BY DEF NoTalk
<1>1. \A q \in AskSlots : /\ had'[q] \in {NoTalk, had[q]} \/ (q = r /\ had'[q] = a)
                          /\ spooled'[q] \in {NoTalk, spooled[q]} \/ (q = r /\ spooled'[q] = a)
  BY DEF Put, TalkTypes
<1>2. \A q \in AskSlots : Suits(q, had[q]) /\ Suits(q, spooled[q])
  BY DEF TalksSuit
<1>3. \A q \in AskSlots : Suits(q, had[q])' /\ Suits(q, spooled[q])'
  BY <1>1, <1>2 DEF Suits
<1>4. \A q \in AskSlots, n \in Nat \ {0} : Uses(q, n)' => Uses(q, n) \/ (q = r /\ n = a.number)
  BY <1>0, <1>1 DEF Uses
<1>5. \A q \in AskSlots, n \in Nat \ {0} : Uses(q, n) => n \in 1..talks
  BY <1>0, <1>2 DEF Uses, Suits
<1>6. \A i, j \in AskSlots, n \in 1..talks' : Uses(i, n)' /\ Uses(j, n)' => i = j
  BY <1>4, <1>5 DEF TalksSuit
<1>7. TalksSuit'
  BY <1>3, <1>6 DEF TalksSuit
<1>8. \A n \in Nat \ {0} : n # a.number /\ Unused(n) => Unused(n)'
  BY <1>4 DEF Unused
<1>9. \A q \in AskSlots : Answered(q) => Answered(q)'
  <2>1. ASSUME NEW q \in AskSlots, Answered(q) PROVE had'[q] # NoTalk \/ spooled'[q] # NoTalk
    <3>1. CASE q # r
      BY <2>1, <3>1 DEF Put, TalkTypes, Answered
    <3>2. CASE q = r
      BY <1>0, <2>1, <3>2 DEF Put, TalkTypes, Answered
    <3>3. QED
      BY <3>1, <3>2
  <2>2. QED
    BY <2>1 DEF Answered
<1>10. QED
  BY <1>7, <1>8, <1>9

LEMMA BurstKept ==
    ASSUME BurstInv, TalkTypes', BurstMoves PROVE BurstInv'
<1> TalkTypes /\ TalksSuit /\ RowsUnused /\ KeptUnused
  BY DEF BurstInv
<1> SUFFICES TalksSuit' /\ RowsUnused' /\ KeptUnused'
  BY DEF BurstInv
<1> talks \in Nat /\ talks' \in Nat /\ turn \in Nat \ {0} /\ try \in Nat
  BY DEF TalkTypes
<1>20. UNCHANGED <<turn, talks, had, spooled>> => TalksSuit'
  BY DEF TalksSuit, Suits, Uses
<1>21. UNCHANGED <<had, spooled>>
       => /\ \A n : Unused(n) => Unused(n)'
          /\ \A q \in AskSlots : Answered(q) => Answered(q)'
  BY DEF Unused, Uses, Answered
<1>22. where' \notin {"child", "over"} => RowsUnused'
  BY DEF RowsUnused
<1>23. where' = "rest" => KeptUnused'
  BY DEF KeptUnused, Collecting
<1>24. where' = "serial" /\ size' = 1 /\ kept' = <<>> => KeptUnused'
  BY DEF KeptUnused, Collecting
<1>25. where' = "serial" \/ where' = "rest" => RowsUnused'
  BY <1>22
<1>1. CASE TakesOff
  <2>1. /\ where' = "rest" /\ talks' = talks
        /\ \A r \in AskSlots : had'[r] = NoTalk /\ spooled'[r] = NoTalk
    BY <1>1 DEF TakesOff
  <2>2. TalksSuit'
    BY <2>1 DEF TalksSuit, Suits, Uses, NoTalk
  <2>3. QED
    BY <1>23, <1>25, <2>1, <2>2
<1>2. CASE SetsOut
  <2>1. TalksSuit'
    BY <1>2, <1>20 DEF SetsOut
  <2>2. kept' = <<>> /\ try' = 1 /\ UNCHANGED <<had, spooled>>
    BY <1>2 DEF SetsOut
  <2>3. CASE where' = "batch"
    BY <1>22, <2>1, <2>2, <2>3 DEF KeptUnused, Collecting
  <2>4. CASE where' = "serial"
    <3>1. CASE size' = 1
      BY <1>24, <1>25, <2>1, <2>2, <2>4, <3>1
    <3>2. CASE size' # 1
      <4>1. PICK o \in AskSlots : \A r \in AskSlots : r # o => Answered(r)
        BY <1>2, <2>4, <3>2 DEF SetsOut
      <4>2. OneLeft(o)'
        BY <1>21, <2>2, <4>1 DEF OneLeft
      <4>3. KeptUnused'
        BY <2>2, <2>4, <4>2 DEF KeptUnused, Collecting
      <4>4. QED
        BY <1>25, <2>1, <2>4, <4>3
    <3>3. QED
      BY <3>1, <3>2
  <2>5. QED
    BY <1>2, <2>3, <2>4 DEF SetsOut
<1>3. CASE Rests
  BY <1>3, <1>20, <1>23, <1>25 DEF Rests
<1>4. CASE Batches
  <2>1. TalksSuit'
    BY <1>4, <1>20 DEF Batches
  <2>2. UNCHANGED <<turn, had, spooled, try, talks>> /\ kept = <<>> /\ try = 1
    BY <1>4 DEF Batches, KeptUnused
  <2>3. CASE TurnsSerial
    BY <1>24, <1>25, <2>1, <2>3 DEF TurnsSerial
  <2>4. CASE /\ where' = "serial" /\ \A r \in AskSlots : Answered(r)
             /\ UNCHANGED <<size, key, kept, chunk, rows>>
    <3>1. PICK o \in AskSlots : TRUE
      BY BurstShape
    <3>2. OneLeft(o)'
      BY <1>21, <2>2, <2>4 DEF OneLeft
    <3>3. KeptUnused'
      BY <2>2, <2>4, <3>2 DEF KeptUnused, Collecting
    <3>4. QED
      BY <1>25, <2>1, <2>4, <3>3
  <2>5. CASE /\ where' \in {"batch", "child"} /\ rows' = <<>> /\ UNCHANGED <<size, kept>>
    <3>1. KeptUnused'
      BY <2>2, <2>5 DEF KeptUnused, Collecting
    <3>2. RowsUnused'
      BY <2>5 DEF RowsUnused
    <3>3. QED
      BY <2>1, <3>1, <3>2
  <2>6. CASE where' = "over" /\ where = "child" /\ UNCHANGED <<size, kept, chunk, rows, emitted>>
    <3>1. KeptUnused'
      BY <2>2, <2>6 DEF KeptUnused, Collecting
    <3>2. RowsUnused'
      BY <1>21, <2>2, <2>6 DEF RowsUnused, Rank
    <3>3. QED
      BY <2>1, <3>1, <3>2
  <2>7. QED
    BY <1>4, <2>3, <2>4, <2>5, <2>6 DEF Batches
<1>5. CASE Rows
  <2>1. PICK n \in {0, talks + 1} : rows' = Append(rows, n)
    BY <1>5 DEF Rows
  <2>2. /\ where = "child" /\ where' = "child" /\ talks' = talks + 1
        /\ UNCHANGED <<turn, had, spooled, kept, chunk, emitted, try>>
    BY <1>5 DEF Rows
  <2>3. TalksSuit'
    <3>1. \A r \in AskSlots : Suits(r, had[r])' /\ Suits(r, spooled[r])'
      BY <2>2 DEF TalksSuit, Suits
    <3>2. \A r \in AskSlots, i \in 1..talks' : Uses(r, i)' => Uses(r, i) /\ i \in 1..talks
      BY <2>2 DEF TalksSuit, Suits, Uses, NoTalk
    <3>3. QED
      BY <3>1, <3>2 DEF TalksSuit
  <2>4. KeptUnused'
    BY <2>2 DEF KeptUnused, Collecting
  <2>5. Unused(talks + 1)
    BY DEF TalksSuit, Suits, Uses, Unused, NoTalk
  <2>6. RowsUnused'
    <3>1. /\ Len(rows) \in Nat /\ Len(rows') = Len(rows) + 1 /\ rows'[Len(rows) + 1] = n
          /\ \A i \in 1..Len(rows) : rows'[i] = rows[i] /\ rows[i] \in 0..talks
      BY <2>1, <2>2 DEF RowsUnused, TalkTypes
    <3>2. \A i \in 1..Len(rows') : rows'[i] \in 0..talks'
      BY <2>2, <3>1
    <3>3. \A i, j \in 1..Len(rows') : rows'[i] = rows'[j] /\ rows'[i] # 0 => i = j
      BY <2>2, <3>1 DEF RowsUnused
    <3>4. ASSUME NEW r \in chunk \ emitted, Rank(r) \in 1..Len(rows'), rows'[Rank(r)] # 0
          PROVE  Unused(rows'[Rank(r)])
      BY <2>2, <2>5, <3>1, <3>4 DEF RowsUnused
    <3>6. QED
      BY <1>21, <2>2, <3>2, <3>3, <3>4 DEF RowsUnused, Rank
  <2>7. QED
    BY <2>3, <2>4, <2>6
<1>26. ASSUME NEW o \in AskSlots, OneLeft(o), Wants PROVE round = o
  BY <1>26 DEF OneLeft, Wants, Answered
<1>27. Hands => \/ where' = "rest"
                \/ where' = "serial" /\ (try' > 1 => round' = round)
  BY DEF Hands, Advances
<1>28. \A n : n \in 1..talks /\ UNCHANGED talks => n \in 1..talks'
  OBVIOUS
<1>6. CASE Publishes
  <2>1. PICK r \in chunk \ emitted :
           /\ Rank(r) \in 1..Len(rows) /\ rows[Rank(r)] # 0
           /\ Put(r, Talked(r, rows[Rank(r)]))
           /\ \/ /\ emitted' = emitted \cup {r}
                 /\ UNCHANGED <<where, chunk, rows, size, kept>>
              \/ TurnsSerial
    BY <1>6 DEF Publishes
  <2>2. where \in {"child", "over"} /\ UNCHANGED <<turn, round, try, talks>>
    BY <1>6 DEF Publishes
  <2>3. PICK n \in Nat : n = rows[Rank(r)]
    BY <2>1 DEF TalkTypes
  <2>4. n \in 1..talks /\ Unused(n)
    BY <2>1, <2>2, <2>3 DEF RowsUnused
  <2>5. r \in AskSlots /\ Questions[r] \in Asks
    BY <2>1 DEF TalkTypes, AskSlots, Asks
  <2>6. PICK a \in Talk : a = Talked(r, n)
    BY <2>4, <2>5 DEF Talked, Talk
  <2>7. /\ a.task = turn /\ a.question = Questions[r] /\ a.number = n /\ n \in 1..talks'
        /\ \A q \in AskSlots : q # r => ~Uses(q, a.number)
    BY <2>2, <2>4, <2>6 DEF Talked, Unused
  <2>8. Put(r, a) /\ turn' = turn /\ talks' >= talks
    BY <2>1, <2>2, <2>3, <2>6
  <2>9. TalksSuit' /\ \A i \in Nat \ {0} : i # n /\ Unused(i) => Unused(i)'
    BY <2>5, <2>7, <2>8, PutSuits
  <2>10. CASE TurnsSerial
    BY <1>24, <1>25, <2>9, <2>10 DEF TurnsSerial
  <2>11. CASE emitted' = emitted \cup {r} /\ UNCHANGED <<where, chunk, rows, size, kept>>
    <3>1. KeptUnused'
      BY <2>2, <2>11 DEF KeptUnused, Collecting
    <3>2. ASSUME NEW q \in chunk \ emitted', Rank(q) \in 1..Len(rows), rows[Rank(q)] # 0
          PROVE  Unused(rows[Rank(q)])'
      <4>1. q \in chunk \ emitted /\ q # r /\ r \in chunk
        BY <2>1, <2>11, <3>2
      <4>2. Rank(q) # Rank(r)
        BY <4>1, RanksDiffer
      <4>3. rows[Rank(q)] \in 0..talks /\ rows[Rank(q)] # n
        BY <2>1, <2>2, <2>3, <3>2, <4>2 DEF RowsUnused
      <4>4. Unused(rows[Rank(q)])
        BY <2>2, <3>2, <4>1 DEF RowsUnused
      <4>5. PICK i \in Nat \ {0} : i = rows[Rank(q)]
        BY <3>2, <4>3
      <4>6. Unused(i)'
        BY <2>9, <4>3, <4>4, <4>5
      <4>7. rows'[Rank(q)'] = i
        BY <2>11, <4>5 DEF Rank
      <4>8. QED
        BY <4>6, <4>7 DEF Unused, Uses
    <3>3. RowsUnused'
      BY <2>2, <2>11, <3>2 DEF RowsUnused, Rank
    <3>4. QED
      BY <2>9, <3>1, <3>3
  <2>12. QED
    BY <2>1, <2>10, <2>11
<1>7. CASE Skips
  <2>1. /\ where = "serial" /\ where' = "serial" /\ try' = 1
        /\ UNCHANGED <<turn, had, spooled, size, key, kept, talks>>
    BY <1>7 DEF Skips, Advances
  <2>2. \A o \in AskSlots : OneLeft(o) => OneLeft(o)'
    BY <1>21, <2>1 DEF OneLeft
  <2>3. KeptUnused'
    BY <1>21, <2>1, <2>2 DEF KeptUnused, KeptFine, Collecting
  <2>4. QED
    BY <1>20, <1>25, <2>1, <2>3
<1>8. CASE Resends
  <2>1. /\ where = "serial" /\ where' = "serial" /\ try' = 1
        /\ UNCHANGED <<turn, size, key, kept, talks>>
    BY <1>8 DEF Resends, Advances
  <2>2. PICK a \in Talk : a = spooled[round]
    BY <1>8 DEF Resends, TalkTypes
  <2>3. round \in AskSlots /\ a # NoTalk /\ Put(round, a)
    BY <1>8, <2>2 DEF Resends
  <2>4. a.task = turn /\ a.question = Questions[round] /\ a.number \in 1..talks
    BY <2>2, <2>3 DEF TalksSuit, Suits
  <2>5. Uses(round, a.number)
    BY <2>2 DEF Uses
  <2>6. \A q \in AskSlots : q # round => ~Uses(q, a.number)
    BY <2>3, <2>4, <2>5 DEF TalksSuit
  <2>7. /\ TalksSuit'
        /\ \A i \in Nat \ {0} : i # a.number /\ Unused(i) => Unused(i)'
        /\ \A q \in AskSlots : Answered(q) => Answered(q)'
    BY <2>1, <2>3, <2>4, <2>6, PutSuits
  <2>8. \A i \in 1..Len(kept) : Unused(kept[i].number)'
    <3>1. \A i \in 1..Len(kept) : kept[i].number \in 1..talks /\ Unused(kept[i].number)
      BY <2>1 DEF KeptUnused, KeptFine
    <3>2. ~Unused(a.number)
      BY <2>3, <2>5 DEF Unused
    <3>3. \A i \in 1..Len(kept) : \A n \in Nat \ {0} : n = kept[i].number => Unused(n)'
      BY <2>7, <3>1, <3>2
    <3>4. QED
      BY <2>1, <3>1, <3>3 DEF Unused, Uses
  <2>9. \A o \in AskSlots : OneLeft(o) => OneLeft(o)'
    BY <2>1, <2>7 DEF OneLeft
  <2>10. KeptUnused'
    BY <2>1, <2>8, <2>9 DEF KeptUnused, KeptFine, Collecting
  <2>11. QED
    BY <1>25, <2>1, <2>7, <2>10
<1>9. CASE TakesKept
  <2>1. /\ Wants /\ Hands /\ where = "serial" /\ round \in AskSlots
        /\ kept # <<>> /\ key = Questions[round] /\ kept' = Tail(kept)
        /\ UNCHANGED <<turn, size, key, talks>>
    BY <1>9 DEF TakesKept, Wants
  <2>2. /\ Len(kept) \in Nat \ {0} /\ Len(kept') = Len(kept) - 1
        /\ \A i \in 1..(Len(kept) - 1) : kept'[i] = kept[i + 1]
    BY <2>1, HeadTailProperties DEF TalkTypes
  <2>3. PICK a \in Talk : a = Head(kept) /\ a = kept[1]
    BY <2>1, <2>2 DEF TalkTypes
  <2>4. /\ a.task = turn /\ a.question = Questions[round] /\ a.number \in 1..talks
        /\ Unused(a.number)
    BY <2>1, <2>2, <2>3 DEF KeptUnused, KeptFine
  <2>5. Put(round, a) /\ turn' = turn /\ talks' >= talks
    BY <1>9, <2>1, <2>3 DEF TakesKept
  <2>6. /\ a.number \in 1..talks' /\ \A q \in AskSlots : q # round => ~Uses(q, a.number)
    BY <2>1, <2>4 DEF Unused
  <2>7. /\ TalksSuit'
        /\ \A i \in Nat \ {0} : i # a.number /\ Unused(i) => Unused(i)'
        /\ \A q \in AskSlots : Answered(q) => Answered(q)'
    BY <2>1, <2>4, <2>5, <2>6, PutSuits
  <2>8. PICK o \in AskSlots : OneLeft(o)
    BY <2>1 DEF KeptUnused
  <2>9. round = o
    BY <1>26, <2>1, <2>8
  <2>10. CASE where' = "rest"
    BY <1>23, <1>25, <2>7, <2>10
  <2>11. CASE where' = "serial" /\ (try' > 1 => round' = round)
    <3>1. OneLeft(o)'
      BY <2>1, <2>7, <2>8, <2>9, <2>11 DEF OneLeft
    <3>2. ASSUME NEW i \in 1..Len(kept') PROVE KeptFine(i)'
      <4>1. i + 1 \in 1..Len(kept) /\ 1 \in 1..Len(kept) /\ i + 1 # 1 /\ kept'[i] = kept[i + 1]
        BY <2>2
      <4>2. KeptFine(i + 1)
        BY <2>1, <4>1 DEF KeptUnused
      <4>3. kept[i + 1].number # kept[1].number
        BY <2>1, <4>1 DEF KeptUnused
      <4>4. PICK n \in Nat \ {0} : n = kept[i + 1].number
        BY <4>2 DEF KeptFine
      <4>5. Unused(n) /\ n # a.number
        BY <2>3, <4>2, <4>3, <4>4 DEF KeptFine
      <4>6. Unused(n)'
        BY <2>7, <4>5
      <4>7. kept'[i].number = n
        BY <4>1, <4>4
      <4>8. Unused(kept[i].number)'
        BY <4>6, <4>7 DEF Unused, Uses
      <4>9. kept'[i].task = turn /\ kept'[i].question = key /\ kept'[i].number \in 1..talks
        BY <4>1, <4>2 DEF KeptFine
      <4>10. QED
        BY <2>1, <4>8, <4>9 DEF KeptFine
    <3>3. \A i, j \in 1..Len(kept') : kept'[i].number = kept'[j].number => i = j
      <4>1. \A i \in 1..Len(kept') : i + 1 \in 1..Len(kept) /\ kept'[i] = kept[i + 1]
        BY <2>2
      <4>2. \A i, j \in 1..Len(kept) : kept[i].number = kept[j].number => i = j
        BY <2>1 DEF KeptUnused
      <4>3. ASSUME NEW i \in 1..Len(kept'), NEW j \in 1..Len(kept'),
                   kept'[i].number = kept'[j].number
            PROVE  i = j
        <5>1. i + 1 = j + 1
          BY <4>1, <4>2, <4>3
        <5>2. QED
          BY <2>2, <5>1
      <4>4. QED
        BY <4>3
    <3>4. KeptUnused'
      BY <2>1, <2>11, <3>1, <3>2, <3>3 DEF KeptUnused, Collecting
    <3>5. QED
      BY <1>25, <2>7, <2>11, <3>4
  <2>12. QED
    BY <1>27, <2>1, <2>10, <2>11
<1>10. CASE AsksMore
  <2>1. /\ Wants /\ Hands /\ where = "serial" /\ round \in AskSlots
        /\ kept = <<>> \/ key # Questions[round]
        /\ talks' = talks + size /\ key' = Questions[round]
        /\ kept' = kept \o [i \in 1..(size - 1) |-> Talked(round, talks + 1 + i)]
        /\ turn' = turn /\ size' = size
    BY <1>10 DEF AsksMore, Wants
  <2>2. size \in Nat \ {0} /\ Questions[round] \in Asks
    BY <2>1 DEF TalkTypes, AskSlots, Asks
  <2>3. Unused(talks + 1) /\ \A i \in Nat \ {0} : Unused(talks + i)
    BY DEF TalksSuit, Suits, Uses, Unused, NoTalk
  <2>12. talks' = talks + size
    BY <2>1
  <2>13. Talked(round, talks + 1) \in Talk
    BY <2>2 DEF Talked, Talk
  <2>4. PICK a \in Talk : a = Talked(round, talks + 1)
    BY <2>13
  <2>5. a.task = turn /\ a.question = Questions[round] /\ a.number = talks + 1
    BY <2>4 DEF Talked
  <2>6. Put(round, a) /\ turn' = turn /\ talks' >= talks
    BY <1>10, <2>1, <2>2, <2>4 DEF AsksMore
  <2>7. a.number \in 1..talks' /\ \A q \in AskSlots : q # round => ~Uses(q, a.number)
    <3>1. talks + 1 \in 1..(talks + size)
      BY <2>2
    <3>2. \A q \in AskSlots : ~Uses(q, talks + 1)
      BY <2>3 DEF Unused
    <3>3. QED
      BY <2>1, <2>5, <3>1, <3>2
  <2>8. /\ TalksSuit'
        /\ \A i \in Nat \ {0} : i # a.number /\ Unused(i) => Unused(i)'
        /\ \A q \in AskSlots : Answered(q) => Answered(q)'
    BY <2>1, <2>5, <2>6, <2>7, PutSuits
  <2>9. CASE where' = "rest"
    BY <1>23, <1>25, <2>8, <2>9
  <2>10. CASE where' = "serial" /\ (try' > 1 => round' = round)
    <3>0. PICK n \in Nat : n = size - 1
      BY <2>2
    <3>1. kept = <<>>
      <4>1. ASSUME NEW o \in AskSlots, OneLeft(o) PROVE kept = <<>>
        BY <1>26, <2>1, <4>1 DEF OneLeft
      <4>2. QED
        BY <2>1, <4>1 DEF KeptUnused
    <3>2. [i \in 1..n |-> Talked(round, talks + 1 + i)] \in Seq(Talk)
      <4>1. \A i \in 1..n : Talked(round, talks + 1 + i) \in Talk
        BY <2>1, <2>2 DEF Talked, Talk, TalkTypes
      <4>2. QED
        BY <4>1, IsASeq
    <3>3. kept' = [i \in 1..n |-> Talked(round, talks + 1 + i)]
      BY <2>1, <3>0, <3>1, <3>2, ConcatEmptySeq
    <3>4. Len(kept') = n /\ \A i \in 1..n : kept'[i] = Talked(round, talks + 1 + i)
      BY <3>3
    <3>5. ASSUME NEW i \in 1..n PROVE KeptFine(i)' /\ kept'[i].number = talks + 1 + i
      <4>1. /\ kept'[i].task = turn /\ kept'[i].question = Questions[round]
            /\ kept'[i].number = talks + 1 + i
        BY <3>4 DEF Talked
      <4>2. PICK k \in Nat \ {0} : k = talks + 1 + i
        OBVIOUS
      <4>3. k # a.number /\ k <= talks + size
        BY <2>2, <2>5, <3>0, <4>2
      <4>4. Unused(k)
        <5>1. 1 + i \in Nat \ {0} /\ k = talks + (1 + i)
          BY <4>2
        <5>2. QED
          BY <2>3, <5>1
      <4>5. Unused(k)'
        BY <2>8, <4>3, <4>4
      <4>6. Unused(kept[i].number)'
        BY <4>1, <4>2, <4>5 DEF Unused, Uses
      <4>7. kept'[i].number \in 1..talks'
        BY <2>2, <2>12, <4>1, <4>2, <4>3
      <4>8. QED
        BY <2>1, <4>1, <4>6, <4>7 DEF KeptFine
    <3>6. CASE n = 0
      BY <1>24, <1>25, <2>1, <2>2, <2>8, <2>10, <3>0, <3>3, <3>4, <3>6
    <3>7. CASE n # 0
      <4>1. PICK o \in AskSlots : OneLeft(o)
        BY <2>1, <3>0, <3>7 DEF KeptUnused
      <4>2. round = o
        BY <1>26, <2>1, <4>1
      <4>3. OneLeft(o)'
        BY <2>1, <2>8, <2>10, <4>1, <4>2 DEF OneLeft
      <4>4. \A i, j \in 1..Len(kept') : kept'[i].number = kept'[j].number => i = j
        <5>1. Len(kept') = n /\ \A i \in 1..n : kept'[i].number = talks + 1 + i
          BY <3>4, <3>5
        <5>2. QED
          BY <5>1
      <4>5. KeptUnused'
        BY <2>1, <2>10, <3>4, <3>5, <4>3, <4>4 DEF KeptUnused, Collecting
      <4>6. QED
        BY <1>25, <2>8, <2>10, <4>5
    <3>8. QED
      BY <3>6, <3>7
  <2>11. QED
    BY <1>27, <2>1, <2>9, <2>10
<1>11. CASE Misses
  <2>1. /\ Wants /\ Hands /\ where = "serial"
        /\ UNCHANGED <<turn, had, spooled, size, key, kept, talks>>
    BY <1>11 DEF Misses, Wants
  <2>2. CASE where' = "rest"
    BY <1>20, <1>23, <1>25, <2>1, <2>2
  <2>3. CASE where' = "serial" /\ (try' > 1 => round' = round)
    <3>1. \A o \in AskSlots : OneLeft(o) => OneLeft(o)'
      BY <1>21, <1>26, <2>1, <2>3 DEF OneLeft
    <3>2. KeptUnused'
      BY <1>21, <2>1, <2>3, <3>1 DEF KeptUnused, KeptFine, Collecting
    <3>3. QED
      BY <1>20, <1>25, <2>1, <2>3, <3>2
  <2>4. QED
    BY <1>27, <2>1, <2>2, <2>3
<1>12. QED
  BY <1>1, <1>2, <1>3, <1>4, <1>5, <1>6, <1>7, <1>8, <1>9, <1>10, <1>11 DEF BurstMoves

LEMMA BurstKeeps == BurstInv /\ Burst!Next => BurstInv'
<1> SUFFICES ASSUME BurstInv, Burst!Next PROVE BurstInv'
  OBVIOUS
<1>1. TalkTypes /\ BurstMoves
  BY BurstMapped DEF BurstInv
<1>2. TalkTypes'
  BY <1>1, BurstTyped
<1>3. QED
  BY <1>1, <1>2, BurstKept

LEMMA BurstHolds == BurstInv => Burst!AnswersBelong
<1> SUFFICES ASSUME BurstInv PROVE Burst!AnswersBelong
  OBVIOUS
<1>1. Burst!Done = {r \in AskSlots : had[r] # NoTalk}
  BY BurstShape DEF Burst!Done
<1>2. \A r \in AskSlots : had[r] # NoTalk
         => had[r].task = turn /\ had[r].question = Questions[r] /\ had[r].number \in 1..talks
  BY DEF BurstInv, TalksSuit, Suits
<1>3. \A r, q \in AskSlots : had[r] # NoTalk /\ had[r] = had[q] => r = q
  BY <1>2 DEF BurstInv, TalksSuit, Uses
<1>4. QED
  BY <1>1, <1>2, <1>3 DEF Burst!AnswersBelong

-----------------------------------------------------------------------------
(* The round loop: what WorkerRunProofs shows of any instance, for the two  *)
(* of the suite.                                                            *)

MonitorRun == INSTANCE WorkerRunProofs WITH
    Models <- MonitorModels, Rounds <- MonitorRounds, Attempts <- MonitorAttempts,
    Kind <- "paid_monitor", Stale <- FALSE, MaxAnswers <- MonitorAnswers,
    MaxOps <- MonitorOps,
    Ops <- {"pause", "preempt", "resume", "reap"}
FreshRun == INSTANCE WorkerRunProofs WITH
    Models <- LoopModels, Rounds <- LoopRounds, Attempts <- LoopAttempts,
    Kind <- "diagnosis", Stale <- FALSE, MaxAnswers <- LoopAnswers,
    MaxFaults <- 0, MaxCrashes <- 0, MaxOps <- LoopOps,
    Ops <- {"pause", "resume", "delete", "cancel", "reap"}
StaleRun == INSTANCE WorkerRunProofs WITH
    Models <- LoopModels, Rounds <- StaleRounds, Attempts <- LoopAttempts,
    Kind <- "diagnosis", Stale <- TRUE, MaxAnswers <- LoopAnswers,
    MaxFaults <- 0, MaxCrashes <- 0, MaxOps <- StaleOps,
    Ops <- {"pause", "resume", "delete"}

LEMMA MonitorSteps == MonitorLoop!Next => MonitorRun!Next
  BY DEF MonitorLoop!Next, MonitorRun!Next,
         MonitorLoop!RoundNos, MonitorRun!RoundNos, MonitorLoop!None, MonitorRun!None,
         MonitorLoop!Answers, MonitorRun!Answers, MonitorLoop!NoFlags, MonitorRun!NoFlags,
         MonitorLoop!Unheard, MonitorRun!Unheard, MonitorLoop!Become, MonitorRun!Become,
         MonitorLoop!Go, MonitorRun!Go, MonitorLoop!End, MonitorRun!End, MonitorLoop!Fault,
         MonitorRun!Fault, MonitorLoop!LeaveBatch, MonitorRun!LeaveBatch, MonitorLoop!Failing,
         MonitorRun!Failing, MonitorLoop!Fail, MonitorRun!Fail, MonitorLoop!Missing,
         MonitorRun!Missing, MonitorLoop!Write, MonitorRun!Write, MonitorLoop!Heed,
         MonitorRun!Heed, MonitorLoop!Check, MonitorRun!Check, MonitorLoop!Error,
         MonitorRun!Error, MonitorLoop!Progress, MonitorRun!Progress, MonitorLoop!Claimed,
         MonitorRun!Claimed, MonitorLoop!Ended, MonitorRun!Ended, MonitorLoop!FlagsAfter,
         MonitorRun!FlagsAfter, MonitorLoop!Claim, MonitorRun!Claim, MonitorLoop!Stop,
         MonitorRun!Stop, MonitorLoop!Report, MonitorRun!Report, MonitorLoop!AllStored,
         MonitorRun!AllStored, MonitorLoop!Finished, MonitorRun!Finished, MonitorLoop!Finish,
         MonitorRun!Finish, MonitorLoop!Begin, MonitorRun!Begin, MonitorLoop!NotReady,
         MonitorRun!NotReady, MonitorLoop!BatchCheck, MonitorRun!BatchCheck, MonitorLoop!Taken,
         MonitorRun!Taken, MonitorLoop!Persist, MonitorRun!Persist, MonitorLoop!BatchPublish,
         MonitorRun!BatchPublish, MonitorLoop!BatchReturn, MonitorRun!BatchReturn,
         MonitorLoop!Fallback, MonitorRun!Fallback, MonitorLoop!Round, MonitorRun!Round,
         MonitorLoop!ReplayCheck, MonitorRun!ReplayCheck, MonitorLoop!CollectCheck,
         MonitorRun!CollectCheck, MonitorLoop!Capture, MonitorRun!Capture,
         MonitorLoop!CaptureFails, MonitorRun!CaptureFails, MonitorLoop!ProgressCheck,
         MonitorRun!ProgressCheck, MonitorLoop!RetryCheck, MonitorRun!RetryCheck,
         MonitorLoop!AppendRecord, MonitorRun!AppendRecord, MonitorLoop!Accepted,
         MonitorRun!Accepted, MonitorLoop!Submit, MonitorRun!Submit, MonitorLoop!Marked,
         MonitorRun!Marked, MonitorLoop!MarkSubmitted, MonitorRun!MarkSubmitted,
         MonitorLoop!Crash, MonitorRun!Crash, MonitorLoop!Operate, MonitorRun!Operate,
         MonitorLoop!Deletable, MonitorRun!Deletable, MonitorLoop!OperatorAsks,
         MonitorRun!OperatorAsks, MonitorLoop!Operator, MonitorRun!Operator, MonitorLoop!Control,
         MonitorRun!Control, MonitorLoop!Step, MonitorRun!Step, MonitorLoop!Rest,
         MonitorRun!Rest, MonitorLoop!server, MonitorRun!server, MonitorLoop!disk,
         MonitorRun!disk, MonitorLoop!bounds, MonitorRun!bounds, MonitorLoop!Cardinality,
         MonitorRun!Cardinality
LEMMA MonitorBegins == MonitorLoop!Init => MonitorRun!Init
  BY DEF
         MonitorLoop!Init, MonitorRun!Init, MonitorLoop!Empty, MonitorRun!Empty,
         MonitorLoop!None, MonitorRun!None, MonitorLoop!RoundNos, MonitorRun!RoundNos,
         MonitorLoop!NoFlags, MonitorRun!NoFlags, MonitorLoop!Unheard, MonitorRun!Unheard,
         MonitorLoop!Rest, MonitorRun!Rest
LEMMA MonitorAllowed == MonitorRun!RunAssumption
  BY LoopAssumption DEF MonitorRun!RunAssumption,
         MonitorLoop!RoundsAssumption, MonitorRun!RoundsAssumption, MonitorLoop!KindAssumption,
         MonitorRun!KindAssumption, MonitorLoop!BoundsAssumption, MonitorRun!BoundsAssumption,
         MonitorLoop!OpsAssumption, MonitorRun!OpsAssumption, MonitorLoop!AllOps,
         MonitorRun!AllOps
LEMMA FreshSteps == RoundLoop!Next => FreshRun!Next
  BY DEF RoundLoop!Next, FreshRun!Next,
         RoundLoop!RoundNos, FreshRun!RoundNos, RoundLoop!None, FreshRun!None, RoundLoop!Answers,
         FreshRun!Answers, RoundLoop!NoFlags, FreshRun!NoFlags, RoundLoop!Unheard,
         FreshRun!Unheard, RoundLoop!Become, FreshRun!Become, RoundLoop!Go, FreshRun!Go,
         RoundLoop!End, FreshRun!End, RoundLoop!Fault, FreshRun!Fault, RoundLoop!LeaveBatch,
         FreshRun!LeaveBatch, RoundLoop!Failing, FreshRun!Failing, RoundLoop!Fail, FreshRun!Fail,
         RoundLoop!Missing, FreshRun!Missing, RoundLoop!Write, FreshRun!Write, RoundLoop!Heed,
         FreshRun!Heed, RoundLoop!Check, FreshRun!Check, RoundLoop!Error, FreshRun!Error,
         RoundLoop!Progress, FreshRun!Progress, RoundLoop!Claimed, FreshRun!Claimed,
         RoundLoop!Ended, FreshRun!Ended, RoundLoop!FlagsAfter, FreshRun!FlagsAfter,
         RoundLoop!Claim, FreshRun!Claim, RoundLoop!Stop, FreshRun!Stop, RoundLoop!Report,
         FreshRun!Report, RoundLoop!AllStored, FreshRun!AllStored, RoundLoop!Finished,
         FreshRun!Finished, RoundLoop!Finish, FreshRun!Finish, RoundLoop!Begin, FreshRun!Begin,
         RoundLoop!NotReady, FreshRun!NotReady, RoundLoop!BatchCheck, FreshRun!BatchCheck,
         RoundLoop!Taken, FreshRun!Taken, RoundLoop!Persist, FreshRun!Persist,
         RoundLoop!BatchPublish, FreshRun!BatchPublish, RoundLoop!BatchReturn,
         FreshRun!BatchReturn, RoundLoop!Fallback, FreshRun!Fallback, RoundLoop!Round,
         FreshRun!Round, RoundLoop!ReplayCheck, FreshRun!ReplayCheck, RoundLoop!CollectCheck,
         FreshRun!CollectCheck, RoundLoop!Capture, FreshRun!Capture, RoundLoop!CaptureFails,
         FreshRun!CaptureFails, RoundLoop!ProgressCheck, FreshRun!ProgressCheck,
         RoundLoop!RetryCheck, FreshRun!RetryCheck, RoundLoop!AppendRecord,
         FreshRun!AppendRecord, RoundLoop!Accepted, FreshRun!Accepted, RoundLoop!Submit,
         FreshRun!Submit, RoundLoop!Marked, FreshRun!Marked, RoundLoop!MarkSubmitted,
         FreshRun!MarkSubmitted, RoundLoop!Crash, FreshRun!Crash, RoundLoop!Operate,
         FreshRun!Operate, RoundLoop!Deletable, FreshRun!Deletable, RoundLoop!OperatorAsks,
         FreshRun!OperatorAsks, RoundLoop!Operator, FreshRun!Operator, RoundLoop!Control,
         FreshRun!Control, RoundLoop!Step, FreshRun!Step, RoundLoop!Rest, FreshRun!Rest,
         RoundLoop!server, FreshRun!server, RoundLoop!disk, FreshRun!disk, RoundLoop!bounds,
         FreshRun!bounds, RoundLoop!Cardinality, FreshRun!Cardinality
LEMMA FreshBegins == RoundLoop!Init => FreshRun!Init
  BY DEF
         RoundLoop!Init, FreshRun!Init, RoundLoop!Empty, FreshRun!Empty, RoundLoop!None,
         FreshRun!None, RoundLoop!RoundNos, FreshRun!RoundNos, RoundLoop!NoFlags,
         FreshRun!NoFlags, RoundLoop!Unheard, FreshRun!Unheard, RoundLoop!Rest, FreshRun!Rest
LEMMA FreshAllowed == FreshRun!RunAssumption
  BY LoopAssumption DEF FreshRun!RunAssumption,
         RoundLoop!RoundsAssumption, FreshRun!RoundsAssumption, RoundLoop!KindAssumption,
         FreshRun!KindAssumption, RoundLoop!BoundsAssumption, FreshRun!BoundsAssumption,
         RoundLoop!OpsAssumption, FreshRun!OpsAssumption, RoundLoop!AllOps, FreshRun!AllOps
LEMMA StaleSteps == StaleLoop!Next => StaleRun!Next
  BY DEF StaleLoop!Next, StaleRun!Next,
         StaleLoop!RoundNos, StaleRun!RoundNos, StaleLoop!None, StaleRun!None, StaleLoop!Answers,
         StaleRun!Answers, StaleLoop!NoFlags, StaleRun!NoFlags, StaleLoop!Unheard,
         StaleRun!Unheard, StaleLoop!Become, StaleRun!Become, StaleLoop!Go, StaleRun!Go,
         StaleLoop!End, StaleRun!End, StaleLoop!Fault, StaleRun!Fault, StaleLoop!LeaveBatch,
         StaleRun!LeaveBatch, StaleLoop!Failing, StaleRun!Failing, StaleLoop!Fail, StaleRun!Fail,
         StaleLoop!Missing, StaleRun!Missing, StaleLoop!Write, StaleRun!Write, StaleLoop!Heed,
         StaleRun!Heed, StaleLoop!Check, StaleRun!Check, StaleLoop!Error, StaleRun!Error,
         StaleLoop!Progress, StaleRun!Progress, StaleLoop!Claimed, StaleRun!Claimed,
         StaleLoop!Ended, StaleRun!Ended, StaleLoop!FlagsAfter, StaleRun!FlagsAfter,
         StaleLoop!Claim, StaleRun!Claim, StaleLoop!Stop, StaleRun!Stop, StaleLoop!Report,
         StaleRun!Report, StaleLoop!AllStored, StaleRun!AllStored, StaleLoop!Finished,
         StaleRun!Finished, StaleLoop!Finish, StaleRun!Finish, StaleLoop!Begin, StaleRun!Begin,
         StaleLoop!NotReady, StaleRun!NotReady, StaleLoop!BatchCheck, StaleRun!BatchCheck,
         StaleLoop!Taken, StaleRun!Taken, StaleLoop!Persist, StaleRun!Persist,
         StaleLoop!BatchPublish, StaleRun!BatchPublish, StaleLoop!BatchReturn,
         StaleRun!BatchReturn, StaleLoop!Fallback, StaleRun!Fallback, StaleLoop!Round,
         StaleRun!Round, StaleLoop!ReplayCheck, StaleRun!ReplayCheck, StaleLoop!CollectCheck,
         StaleRun!CollectCheck, StaleLoop!Capture, StaleRun!Capture, StaleLoop!CaptureFails,
         StaleRun!CaptureFails, StaleLoop!ProgressCheck, StaleRun!ProgressCheck,
         StaleLoop!RetryCheck, StaleRun!RetryCheck, StaleLoop!AppendRecord,
         StaleRun!AppendRecord, StaleLoop!Accepted, StaleRun!Accepted, StaleLoop!Submit,
         StaleRun!Submit, StaleLoop!Marked, StaleRun!Marked, StaleLoop!MarkSubmitted,
         StaleRun!MarkSubmitted, StaleLoop!Crash, StaleRun!Crash, StaleLoop!Operate,
         StaleRun!Operate, StaleLoop!Deletable, StaleRun!Deletable, StaleLoop!OperatorAsks,
         StaleRun!OperatorAsks, StaleLoop!Operator, StaleRun!Operator, StaleLoop!Control,
         StaleRun!Control, StaleLoop!Step, StaleRun!Step, StaleLoop!Rest, StaleRun!Rest,
         StaleLoop!server, StaleRun!server, StaleLoop!disk, StaleRun!disk, StaleLoop!bounds,
         StaleRun!bounds, StaleLoop!Cardinality, StaleRun!Cardinality
LEMMA StaleBegins == StaleLoop!Init => StaleRun!Init
  BY DEF
         StaleLoop!Init, StaleRun!Init, StaleLoop!Empty, StaleRun!Empty, StaleLoop!None,
         StaleRun!None, StaleLoop!RoundNos, StaleRun!RoundNos, StaleLoop!NoFlags,
         StaleRun!NoFlags, StaleLoop!Unheard, StaleRun!Unheard, StaleLoop!Rest, StaleRun!Rest
LEMMA StaleAllowed == StaleRun!RunAssumption
  BY LoopAssumption DEF StaleRun!RunAssumption,
         StaleLoop!RoundsAssumption, StaleRun!RoundsAssumption, StaleLoop!KindAssumption,
         StaleRun!KindAssumption, StaleLoop!BoundsAssumption, StaleRun!BoundsAssumption,
         StaleLoop!OpsAssumption, StaleRun!OpsAssumption, StaleLoop!AllOps, StaleRun!AllOps

MonitorInv == MonitorRun!RunTyped /\ MonitorRun!MonitorWhole
FreshInv == FreshRun!RunTyped /\ FreshRun!RoundFresh
StaleInv == StaleRun!RunTyped /\ StaleRun!StaleSeen

LEMMA MonitorStarts == SuiteInit /\ part = "monitor" => MonitorInv
  BY MonitorBegins, MonitorAllowed, MonitorRun!MonitorStart DEF SuiteInit, MonitorInv
LEMMA FreshStarts == SuiteInit /\ part = "rounds" => FreshInv
  BY FreshBegins, FreshAllowed, FreshRun!FreshStart DEF SuiteInit, FreshInv
LEMMA StaleStarts == SuiteInit /\ part = "stale" => StaleInv
  BY StaleBegins, StaleAllowed, StaleRun!StaleStart DEF SuiteInit, StaleInv

LEMMA MonitorKeeps == MonitorInv /\ MonitorLoop!Next => MonitorInv'
<1> SUFFICES ASSUME MonitorInv, MonitorLoop!Next PROVE MonitorInv'
  OBVIOUS
<1>1. MonitorRun!RunAssumption /\ MonitorRun!Next
  BY MonitorSteps, MonitorAllowed
<1>2. MonitorRun!RunTyped' /\ MonitorRun!LoopMoves
  BY <1>1, MonitorRun!RunTypedKept DEF MonitorInv
<1>3. MonitorRun!MonitorCase
  BY DEF MonitorRun!MonitorCase
<1>4. MonitorRun!MonitorWhole'
  BY <1>1, <1>2, <1>3, MonitorRun!MonitorKept DEF MonitorInv, MonitorRun!RunTyped
<1>5. QED
  BY <1>2, <1>4 DEF MonitorInv

LEMMA FreshKeeps == FreshInv /\ RoundLoop!Next => FreshInv'
<1> SUFFICES ASSUME FreshInv, RoundLoop!Next PROVE FreshInv'
  OBVIOUS
<1>1. FreshRun!RunAssumption /\ FreshRun!Next
  BY FreshSteps, FreshAllowed
<1>2. FreshRun!RunTyped' /\ FreshRun!LoopMoves
  BY <1>1, FreshRun!RunTypedKept DEF FreshInv
<1>3. FreshRun!FreshCase
  BY DEF FreshRun!FreshCase, FreshRun!Lossy
<1>4. FreshRun!RoundFresh'
  BY <1>1, <1>2, <1>3, FreshRun!FreshKept DEF FreshInv, FreshRun!RunTyped
<1>5. QED
  BY <1>2, <1>4 DEF FreshInv

LEMMA StaleKeeps == StaleInv /\ StaleLoop!Next => StaleInv'
<1> SUFFICES ASSUME StaleInv, StaleLoop!Next PROVE StaleInv'
  OBVIOUS
<1>1. StaleRun!RunAssumption /\ StaleRun!Next
  BY StaleSteps, StaleAllowed
<1>2. StaleRun!RunTyped' /\ StaleRun!LoopMoves
  BY <1>1, StaleRun!RunTypedKept DEF StaleInv
<1>3. StaleRun!StaleCase
  BY DEF StaleRun!StaleCase, StaleRun!Lossy
<1>4. StaleRun!StaleSeen'
  BY <1>1, <1>2, <1>3, StaleRun!SeenKept DEF StaleInv, StaleRun!RunTyped
<1>5. QED
  BY <1>2, <1>4 DEF StaleInv

LEMMA LoopHolds ==
    /\ MonitorInv => MonitorLoop!CompletedIsWhole
    /\ FreshInv => RoundLoop!DeletedStaysDeleted
    /\ StaleInv => StaleLoop!NoCaptureTwice
<1>1. MonitorInv => MonitorLoop!CompletedIsWhole
  BY MonitorRun!RunHolds DEF MonitorInv,
         MonitorLoop!CompletedIsWhole, MonitorRun!CompletedIsWhole, MonitorLoop!AllStored,
         MonitorRun!AllStored, MonitorLoop!Progress, MonitorRun!Progress, MonitorLoop!RoundNos,
         MonitorRun!RoundNos, MonitorLoop!None, MonitorRun!None
<1>2. FreshInv => RoundLoop!DeletedStaysDeleted
  BY FreshRun!RunHolds DEF FreshInv,
         RoundLoop!DeletedStaysDeleted, FreshRun!DeletedStaysDeleted, RoundLoop!RoundNos,
         FreshRun!RoundNos
<1>3. StaleInv => StaleLoop!NoCaptureTwice
  BY StaleRun!RunHolds DEF StaleInv,
         StaleLoop!NoCaptureTwice, StaleRun!NoCaptureTwice, StaleLoop!RoundNos,
         StaleRun!RoundNos, StaleLoop!None, StaleRun!None
<1>4. QED
  BY <1>1, <1>2, <1>3

-----------------------------------------------------------------------------
(* The parts together: what a step of a part keeps, a step of the suite     *)
(* keeps, which leaves the other parts alone.                               *)

ClientInv ==
    /\ part = "monitor" => MonitorInv
    /\ part = "rounds" => FreshInv
    /\ part = "stale" => StaleInv
    /\ part = "deepseek" => WaitInv
    /\ part = "web" => WebInv
    /\ part = "burst" => BurstInv
    /\ part = "batch" => QueryInv(BatchRounds, Replacements)
    /\ part = "single" => QueryInv(LoneRounds, 0)
    /\ part = "chrome" => TabInv(ChromeModels, ChromeRounds)
    /\ part = "browser" => TabInv(BrowserModels, BrowserRounds) /\ OrderInv
    /\ part = "patient" => JobInv
    /\ part = "hasty" => LossInv

LEMMA ClientStart == SuiteInit => ClientInv
  BY MonitorStarts, FreshStarts, StaleStarts, WaitStart, WebStart, BurstStart, QueryStart,
     TabStart, OrderStart, JobStart, LossStart DEF ClientInv

LEMMA ClientKeeps == ClientInv /\ [SuiteNext]_suiteVars => ClientInv'
<1> SUFFICES ASSUME ClientInv, [SuiteNext]_suiteVars PROVE ClientInv'
  OBVIOUS
<1>0. part' = part
  BY StepOfPart
<1>1. part = "deepseek" => WaitInv'
  <2>1. CASE UNCHANGED slotVars
    BY <2>1 DEF ClientInv, WaitInv, slotVars
  <2>2. CASE ~UNCHANGED slotVars
    BY <2>2, StepOfPart, WaitKeeps DEF ClientInv, DeepseekStep
  <2>3. QED
    BY <2>1, <2>2
<1>2. /\ part = "batch" => QueryInv(BatchRounds, Replacements)'
      /\ part = "single" => QueryInv(LoneRounds, 0)'
  <2>1. CASE UNCHANGED batchVars
    BY <2>1 DEF ClientInv, QueryInv, QueryTypes, QueryTidy, batchVars
  <2>2. CASE ~UNCHANGED batchVars
    BY <2>2, StepOfPart, QueryKeeps DEF ClientInv, BatchStep, SingleStep
  <2>3. QED
    BY <2>1, <2>2
<1>3. /\ part = "chrome" => TabInv(ChromeModels, ChromeRounds)'
      /\ part = "browser" => TabInv(BrowserModels, BrowserRounds)' /\ OrderInv'
  <2>1. CASE UNCHANGED chromeVars
    <3>1. \A M, R : TabInv(M, R) => TabInv(M, R)'
      BY <2>1 DEF TabInv, TabTypes, TabTidy, TabRight, Held, chromeVars
    <3>2. OrderInv => OrderInv'
      BY <2>1 DEF OrderInv, chromeVars
    <3>3. QED
      BY <3>1, <3>2 DEF ClientInv
  <2>2. CASE ~UNCHANGED chromeVars
    BY <2>2, StepOfPart, TabKeeps, OrderKeeps DEF ClientInv, ChromeStep, BrowserStep
  <2>3. QED
    BY <2>1, <2>2
<1>4. /\ part = "patient" => JobInv'
      /\ part = "hasty" => LossInv'
  <2>1. CASE UNCHANGED localVars
    <3>1. JobInv => JobInv'
      BY <2>1 DEF JobInv, JobTypes, JobOwned, JobCounted, localVars
    <3>2. LossInv => LossInv'
      BY <2>1 DEF LossInv, Recorded, localVars
    <3>3. QED
      BY <3>1, <3>2 DEF ClientInv
  <2>2. CASE ~UNCHANGED localVars
    BY <2>2, StepOfPart, JobKeeps, LossKeeps DEF ClientInv, PatientJobStep, HastyJobStep
  <2>3. QED
    BY <2>1, <2>2
<1>5. part = "web" => WebInv'
  <2>1. CASE UNCHANGED webVars
    BY <2>1 DEF ClientInv, WebInv, WebTypes, WebStored, WebCopied, webVars
  <2>2. CASE ~UNCHANGED webVars
    BY <2>2, StepOfPart, WebKeeps DEF ClientInv, WebStep
  <2>3. QED
    BY <2>1, <2>2
<1>6. part = "burst" => BurstInv'
  <2>1. CASE UNCHANGED burstVars
    <3>1. TalkTypes => TalkTypes'
      BY <2>1 DEF TalkTypes, burstVars
    <3>2. TalksSuit => TalksSuit'
      BY <2>1 DEF TalksSuit, Suits, Uses, burstVars
    <3>3. RowsUnused => RowsUnused'
      BY <2>1 DEF RowsUnused, Unused, Uses, Rank, burstVars
    <3>4. KeptUnused => KeptUnused'
      BY <2>1 DEF KeptUnused, KeptFine, OneLeft, Answered, Unused, Uses, burstVars
    <3>5. QED
      BY <3>1, <3>2, <3>3, <3>4 DEF ClientInv, BurstInv
  <2>2. CASE ~UNCHANGED burstVars
    BY <2>2, StepOfPart, BurstKeeps DEF ClientInv, BurstStep
  <2>3. QED
    BY <2>1, <2>2
<1>7. /\ part = "monitor" => MonitorInv'
      /\ part = "rounds" => FreshInv'
      /\ part = "stale" => StaleInv'
  <2>1. CASE UNCHANGED runVars
    <3>1. MonitorInv => MonitorInv'
      BY <2>1 DEF MonitorInv, MonitorRun!RunTyped, MonitorRun!LoopTypes,
         MonitorRun!MonitorWhole, MonitorRun!ThreadWhole, MonitorRun!Whole, runVars
    <3>2. FreshInv => FreshInv'
      BY <2>1 DEF FreshInv, FreshRun!RunTyped, FreshRun!LoopTypes, FreshRun!RoundFresh,
         FreshRun!TablesFresh, FreshRun!ThreadFresh, FreshRun!Gone, runVars
    <3>3. StaleInv => StaleInv'
      BY <2>1 DEF StaleInv, StaleRun!RunTyped, StaleRun!LoopTypes, StaleRun!StaleSeen,
         StaleRun!ThreadSeen, runVars
    <3>4. QED
      BY <3>1, <3>2, <3>3 DEF ClientInv
  <2>2. CASE ~UNCHANGED runVars
    BY <2>2, StepOfPart, MonitorKeeps, FreshKeeps, StaleKeeps
       DEF ClientInv, MonitorLoopStep, RoundLoopStep, StaleLoopStep
  <2>3. QED
    BY <2>1, <2>2
<1>8. QED
  BY <1>0, <1>1, <1>2, <1>3, <1>4, <1>5, <1>6, <1>7 DEF ClientInv

\* A stop is heeded, for every number of models, rounds and tickets and every
\* length of a lease and a wait: a wait ends with the tick a pause came in and
\* within the lease, a withdrawn batch leaves no question, the extension asks
\* one question more and stays stopped, and a stopped job has no process.
THEOREM StopsAreHeeded == SuiteSpec => []StopsHeeded
<1>1. ClientInv => StopsHeeded
  BY WaitHolds, QueryHolds, TabHolds, OrderHolds, JobHolds DEF ClientInv, StopsHeeded
<1>2. QED
  BY <1>1, ClientStart, ClientKeeps, PTL DEF SuiteSpec

\* What a worker reports as completed the server has: for every number of
\* models and rounds, over any number of lost calls, restarts, ended leases,
\* pauses and late uploads.
THEOREM ReportedIsWhole == SuiteSpec => []CompletedIsWhole
<1>1. ClientInv => CompletedIsWhole
  BY LoopHolds, WebHolds, TabHolds DEF ClientInv, CompletedIsWhole
<1>2. QED
  BY <1>1, ClientStart, ClientKeeps, PTL DEF SuiteSpec

\* A question is asked once for each of its rounds, and the answer of a round
\* was given to it: whatever the collector kept of earlier batches, the page
\* shows of old conversations, and stopped, replaced or resumed in between.
THEOREM QuestionsAskedOnce == SuiteSpec => []AskedOnce
<1>1. ClientInv => AskedOnce
  BY LoopHolds, BurstHolds, QueryHolds, WebHolds, JobHolds, LossHolds DEF ClientInv, AskedOnce
<1>2. QED
  BY <1>1, ClientStart, ClientKeeps, PTL DEF SuiteSpec

\* A deleted answer is collected anew: no upload from a spool brings it back.
THEOREM DeletedNotReplayed == SuiteSpec => []DeletedStaysDeleted
<1>1. ClientInv => DeletedStaysDeleted
  BY LoopHolds DEF ClientInv, DeletedStaysDeleted
<1>2. QED
  BY <1>1, ClientStart, ClientKeeps, PTL DEF SuiteSpec
==============================================================================

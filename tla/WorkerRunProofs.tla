--------------------------- MODULE WorkerRunProofs ---------------------------
(***************************************************************************)
(* WorkerRun for every number of models, rounds and attempts and every     *)
(* bound on answers, lost calls, restarts and orders.                      *)
(***************************************************************************)
EXTENDS WorkerRun, TLAPS

RunAssumption == RoundsAssumption /\ KindAssumption /\ BoundsAssumption /\ OpsAssumption

\* Calls may fail or the process may die.
Lossy == MaxFaults > 0 \/ MaxCrashes > 0

-----------------------------------------------------------------------------
(* What a step does to the answers, on the server, on the disk and in the  *)
(* threads, without the places and attempts that do not matter for them.   *)

LoopPlaces == {"idle", "begin", "batch_check", "batch", "fallback", "round", "replay", "check",
               "collect", "append", "submit", "mark", "retry", "ended"}
LoopWays == {"serial", "batch", "replay"}
LoopEnds == {"ok", "error", "cancelled", "paused"}
LoopThread ==
    [at : LoopPlaces, r : 1..Rounds, how : LoopWays, attempt : Nat, answer : Nat,
     completed : SUBSET (1..Rounds), seen : SUBSET Nat, outcome : LoopEnds]
LoopStates == {"queued", "running", "completed", "failed", "cancelled", "paused"}
LoopFlags == [cancel : BOOLEAN, pause : BOOLEAN, preempt : BOOLEAN]

LoopTypes ==
    /\ status \in LoopStates /\ flags \in LoopFlags
    /\ stored \in [Models -> [1..Rounds -> Nat]] /\ spool \in [Models -> [1..Rounds -> Nat]]
    /\ erased \in [Models -> SUBSET Nat] /\ answers \in [Models -> Nat]
    /\ holds \in BOOLEAN /\ torn \in BOOLEAN /\ stopped \in BOOLEAN
    /\ run \in {"poll", "running"} /\ th \in [Models -> LoopThread]

\* How the state t of a thread becomes u.
Kept(t, u) == u.completed = t.completed /\ u.seen = t.seen
Stays(t, u) == Kept(t, u) /\ u.r = t.r /\ u.how = t.how /\ u.answer = t.answer
Stops(t, u) == Kept(t, u) /\ u.at = "ended" /\ u.outcome # "ok"
FallsBack(t, u) == Kept(t, u) /\ u.at = "fallback" /\ u.r = 1 /\ u.how = "serial"
FallsAs(way, r, t, u) ==
    \/ way = "batch" /\ FallsBack(t, u)
    \/ way = "serial" /\ Kept(t, u) /\ u.at = "retry" /\ u.r = r /\ u.how = "serial"
    \/ way # "batch" /\ Stops(t, u)
Falls(t, u) == FallsAs(t.how, t.r, t, u)

Checkings == {"batch_check", "batch", "fallback", "replay", "check", "collect", "retry"}
LoopChecks(t, u) ==
    /\ t.at \in Checkings /\ UNCHANGED <<stored, spool, torn, answers>>
    /\ \/ Stops(t, u)
       \/ t.at \in {"batch_check", "batch"} /\ FallsBack(t, u)
       \/ t.at = "collect" /\ Falls(t, u)
       \/ /\ Stays(t, u)
          /\ \/ t.at \in {"batch_check", "batch"} /\ u.at = "batch"
             \/ t.at = "fallback" /\ u.at = "round"
             \/ t.at = "replay" /\ u.at = "submit"
             \/ t.at \in {"check", "collect", "retry"} /\ u.at = "collect"
LoopBegins(t, u) ==
    /\ t.at = "begin" /\ UNCHANGED <<stored, spool, torn, answers>>
    /\ \/ t.completed = 1..Rounds /\ Kept(t, u) /\ u.at = "ended" /\ u.outcome = "ok"
       \/ Stays(t, u) /\ u.at = "round"
       \/ Kind = "diagnosis" /\ Stays(t, u) /\ u.at = "batch_check"
       \/ Stops(t, u)
LoopTakes(m, a) ==
    \/ a = answers[m] + 1 /\ answers' = [answers EXCEPT ![m] = a]
    \/ Stale /\ a <= answers[m] /\ UNCHANGED answers
LoopCaptures(m, t, u) ==
    /\ UNCHANGED <<stored, spool, torn>>
    /\ \E a \in Nat \ {0}, r \in 1..Rounds, way \in {"serial", "batch"} :
          /\ LoopTakes(m, a)
          /\ \/ t.at = "batch" /\ way = "batch" /\ spool[m][r] = 0
             \/ t.at = "collect" /\ way = "serial" /\ r = t.r
          /\ \/ FallsAs(way, r, t, u)
             \/ /\ a \notin t.seen /\ Kept(t, u)
                /\ u.at = "append" /\ u.r = r /\ u.how = way /\ u.answer = a
LoopReturns(t, u) ==
    /\ t.at = "batch" /\ UNCHANGED <<stored, spool, torn, answers>>
    /\ Kept(t, u) /\ u.at = "round" /\ u.r = 1 /\ u.how = "serial"
LoopRoundOf(m, t, u) ==
    /\ t.at = "round" /\ Kept(t, u) /\ UNCHANGED <<stored, spool, torn, answers>>
    /\ \/ /\ stopped \/ \A q \in 1..Rounds : q >= t.r => q \in t.completed
          /\ u.at = "ended" /\ u.outcome = "ok"
       \/ /\ u.r >= t.r /\ \A q \in 1..Rounds : q >= t.r /\ q < u.r => q \in t.completed
          /\ \/ /\ spool[m][u.r] # 0 /\ u.answer = spool[m][u.r]
                /\ u.at = "replay" /\ u.how = "replay"
             \/ spool[m][u.r] = 0 /\ u.at = "check" /\ u.how = "serial"
LoopAppends(m, t, u) ==
    /\ t.at = "append" /\ Stays(t, u) /\ u.at = "submit" /\ UNCHANGED <<stored, answers>>
    /\ spool' = (IF torn THEN spool ELSE [spool EXCEPT ![m][t.r] = t.answer]) /\ torn' = FALSE
LoopSubmits(m, t, u) ==
    /\ t.at = "submit" /\ UNCHANGED <<spool, torn, answers>>
    /\ \/ /\ holds
          /\ stored' = IF flags.cancel \/ stored[m][t.r] # 0 THEN stored
                       ELSE [stored EXCEPT ![m][t.r] = t.answer]
          /\ (Stays(t, u) /\ u.at = "mark") \/ (Lossy /\ Falls(t, u))
       \/ (Lossy \/ ~holds) /\ Falls(t, u) /\ UNCHANGED stored
LoopMarks(m, t, u) ==
    /\ t.at = "mark" /\ UNCHANGED <<stored, answers>>
    /\ spool' = (IF torn THEN spool ELSE [spool EXCEPT ![m][t.r] = 0]) /\ torn' = FALSE
    /\ u.how = t.how
    /\ u.completed = IF t.how = "replay" THEN t.completed ELSE t.completed \cup {t.r}
    /\ u.seen = IF t.how = "replay" THEN t.seen ELSE t.seen \cup {t.answer}
    /\ \/ t.how = "batch" /\ u.at = "batch"
       \/ t.how # "batch" /\ t.r = Rounds /\ u.at = "ended" /\ u.outcome = "ok"
       \/ t.how # "batch" /\ t.r # Rounds /\ u.at = "round" /\ u.r = t.r + 1

LoopWorks(m, t, u) ==
    \/ LoopChecks(t, u) \/ LoopBegins(t, u) \/ LoopCaptures(m, t, u)
    \/ LoopReturns(t, u) \/ LoopRoundOf(m, t, u) \/ LoopAppends(m, t, u)
    \/ LoopSubmits(m, t, u) \/ LoopMarks(m, t, u)
LoopThreads ==
    /\ UNCHANGED <<status, flags, erased, holds, run, stopped>>
    /\ \E m \in Models, u \in LoopThread :
          th' = [th EXCEPT ![m] = u] /\ LoopWorks(m, th[m], u)

LoopIdle == th' \in [Models -> LoopThread] /\ \A m \in Models : th'[m].at = "idle"
LoopClaims ==
    /\ run = "poll" /\ UNCHANGED <<stored, erased, spool, torn, answers>>
    /\ \/ /\ status \in {"queued", "running"} /\ ~flags.cancel
          /\ status' = "running" /\ flags' = flags
          /\ run' = "running" /\ stopped' = FALSE /\ holds' = TRUE
          /\ th' \in [Models -> LoopThread]
          /\ \A m \in Models :
                /\ th'[m].at = "begin" /\ th'[m].r = 1 /\ th'[m].how = "serial"
                /\ th'[m].completed = {r \in 1..Rounds : stored[m][r] # 0}
                /\ th'[m].seen = {stored[m][r] : r \in {q \in 1..Rounds : stored[m][q] # 0}}
       \/ /\ status' \in LoopStates \ {"completed"}
          /\ flags' \in LoopFlags /\ (flags'.cancel => flags.cancel)
          /\ UNCHANGED <<run, stopped, holds, th>>
LoopStops ==
    /\ run = "running" /\ stopped' = TRUE
    /\ \E m \in Models : th[m].at = "ended" /\ th[m].outcome # "ok"
    /\ UNCHANGED <<status, flags, stored, erased, holds, spool, torn, run, th, answers>>
LoopFinishes ==
    /\ run = "running" /\ run' = "poll" /\ LoopIdle
    /\ status' \in LoopStates /\ flags' \in LoopFlags /\ (flags'.cancel => flags.cancel)
    /\ holds' = FALSE
    /\ \A m \in Models : th[m].at = "ended"
    /\ status' = "completed" => status = "completed" \/ \A m \in Models : th[m].outcome = "ok"
    /\ UNCHANGED <<stored, erased, spool, torn, stopped, answers>>
LoopCrashes ==
    /\ Lossy /\ run' = "poll" /\ holds' = FALSE /\ LoopIdle
    /\ spool' \in [Models -> [1..Rounds -> Nat]] /\ torn' \in BOOLEAN
    /\ UNCHANGED <<status, flags, stored, erased, stopped, answers>>
LoopOperates ==
    /\ UNCHANGED <<spool, torn, run, stopped, th, answers>>
    /\ status' \in LoopStates /\ (status' = "completed" => status = "completed")
    /\ flags' \in LoopFlags /\ (flags'.cancel => flags.cancel \/ "cancel" \in Ops)
    /\ \/ /\ UNCHANGED <<stored, erased, holds>>
          /\ status = "running" => status' = "running"
       \/ "reap" \in Ops /\ UNCHANGED <<stored, erased>> /\ holds' = FALSE
       \/ /\ "delete" \in Ops /\ status # "running" /\ holds' = holds
          /\ \E m \in Models, r \in 1..Rounds :
                /\ stored[m][r] # 0
                /\ stored' = [stored EXCEPT ![m][r] = 0]
                /\ erased' = [erased EXCEPT ![m] = @ \cup {stored[m][r]}]

LoopMoves ==
    \/ LoopThreads \/ LoopClaims \/ LoopStops \/ LoopFinishes
    \/ LoopCrashes \/ LoopOperates

\* One place of a table of answers written.
LEMMA CellSet ==
    ASSUME NEW f \in [Models -> [1..Rounds -> Nat]], NEW m \in Models, NEW r \in 1..Rounds, NEW a \in Nat
    PROVE  /\ [f EXCEPT ![m][r] = a] \in [Models -> [1..Rounds -> Nat]]
           /\ \A i \in Models, q \in 1..Rounds :
                 [f EXCEPT ![m][r] = a][i][q] = IF i = m /\ q = r THEN a ELSE f[i][q]
  OBVIOUS

LEMMA LoopTyped ==
    ASSUME RunAssumption, LoopTypes, LoopMoves
    PROVE  LoopTypes'
<1> USE DEF LoopTypes
<1>1. CASE LoopThreads
  <2>1. PICK m \in Models, u \in LoopThread :
           th' = [th EXCEPT ![m] = u] /\ LoopWorks(m, th[m], u)
    BY <1>1 DEF LoopThreads
  <2>2. th' \in [Models -> LoopThread]
    BY <2>1
  <2>3. PICK t \in LoopThread : t = th[m]
    OBVIOUS
  <2>4. t.r \in 1..Rounds /\ t.answer \in Nat /\ 0 \in Nat
    BY DEF LoopThread
  <2>5. /\ [spool EXCEPT ![m][t.r] = t.answer] \in [Models -> [1..Rounds -> Nat]]
        /\ [spool EXCEPT ![m][t.r] = 0] \in [Models -> [1..Rounds -> Nat]]
        /\ [stored EXCEPT ![m][t.r] = t.answer] \in [Models -> [1..Rounds -> Nat]]
    <3>1. PICK r \in 1..Rounds, a \in Nat : r = t.r /\ a = t.answer
      BY <2>4
    <3>2. [spool EXCEPT ![m][r] = a] \in [Models -> [1..Rounds -> Nat]]
      OBVIOUS
    <3>3. [spool EXCEPT ![m][r] = 0] \in [Models -> [1..Rounds -> Nat]]
      OBVIOUS
    <3>4. [stored EXCEPT ![m][r] = a] \in [Models -> [1..Rounds -> Nat]]
      OBVIOUS
    <3>5. QED
      BY <3>1, <3>2, <3>3, <3>4
  <2>6. /\ \/ spool' = spool \/ spool' = [spool EXCEPT ![m][t.r] = t.answer]
           \/ spool' = [spool EXCEPT ![m][t.r] = 0]
        /\ stored' = stored \/ stored' = [stored EXCEPT ![m][t.r] = t.answer]
    BY <2>1, <2>3 DEF LoopWorks, LoopChecks, LoopBegins, LoopCaptures, LoopReturns, LoopRoundOf,
       LoopAppends, LoopSubmits, LoopMarks
  <2>7. torn' \in BOOLEAN
    BY <2>1 DEF LoopWorks, LoopChecks, LoopBegins, LoopCaptures, LoopReturns, LoopRoundOf,
       LoopAppends, LoopSubmits, LoopMarks
  <2>8. answers' \in [Models -> Nat]
    BY <2>1 DEF LoopWorks, LoopChecks, LoopBegins, LoopCaptures, LoopReturns, LoopRoundOf,
       LoopAppends, LoopSubmits, LoopMarks, LoopTakes
  <2>9. QED
    BY <1>1, <2>2, <2>5, <2>6, <2>7, <2>8 DEF LoopThreads
<1>2. CASE LoopClaims
  BY <1>2 DEF LoopClaims, LoopStates
<1>3. CASE LoopStops
  BY <1>3 DEF LoopStops
<1>4. CASE LoopFinishes
  BY <1>4 DEF LoopFinishes, LoopIdle
<1>5. CASE LoopCrashes
  BY <1>5 DEF LoopCrashes, LoopIdle
<1>6. CASE LoopOperates
  <2>1. CASE UNCHANGED <<stored, erased>>
    BY <1>6, <2>1 DEF LoopOperates
  <2>2. ASSUME NEW m \in Models, NEW r \in 1..Rounds, stored' = [stored EXCEPT ![m][r] = 0],
               erased' = [erased EXCEPT ![m] = @ \cup {stored[m][r]}], holds' = holds
        PROVE  LoopTypes'
    <3>1. stored' \in [Models -> [1..Rounds -> Nat]]
      BY <2>2, CellSet
    <3>2. erased' \in [Models -> SUBSET Nat]
      <4>1. PICK a \in Nat : a = stored[m][r]
        OBVIOUS
      <4>2. erased' = [erased EXCEPT ![m] = @ \cup {a}]
        BY <2>2, <4>1
      <4>3. QED
        BY <4>2
    <3>3. QED
      BY <1>6, <2>2, <3>1, <3>2 DEF LoopOperates
  <2>3. QED
    BY <1>6, <2>1, <2>2 DEF LoopOperates
<1>7. QED
  BY <1>1, <1>2, <1>3, <1>4, <1>5, <1>6 DEF LoopMoves

-----------------------------------------------------------------------------
(* The steps of the runs as moves.  First how a thread is rewritten.        *)

LEMMA ThreadAt ==
    ASSUME Rounds \in Nat \ {0}, NEW t \in LoopThread, NEW p \in LoopPlaces
    PROVE  \E u \in LoopThread : u = [t EXCEPT !.at = p] /\ Stays(t, u) /\ u.at = p
<1>1. PICK u : u = [t EXCEPT !.at = p]
  OBVIOUS
<1>2. u \in LoopThread
  BY <1>1 DEF LoopThread
<1>3. Stays(t, u) /\ u.at = p
  BY <1>1 DEF LoopThread, Stays, Kept
<1>4. QED
  BY <1>1, <1>2, <1>3

Ends(t, e) == [t EXCEPT !.at = "ended", !.outcome = e]
LEMMA ThreadEnds ==
    ASSUME Rounds \in Nat \ {0}, NEW t \in LoopThread, NEW e \in LoopEnds
    PROVE  /\ Ends(t, e) \in LoopThread
           /\ Stays(t, Ends(t, e)) /\ Ends(t, e).at = "ended" /\ Ends(t, e).outcome = e
<1>1. PICK u : u = [t EXCEPT !.at = "ended", !.outcome = e]
  OBVIOUS
<1>2. u \in LoopThread
  BY <1>1 DEF LoopThread, LoopPlaces
<1>3. Stays(t, u) /\ u.at = "ended" /\ u.outcome = e
  BY <1>1 DEF LoopThread, Stays, Kept
<1>4. u = Ends(t, e)
  BY <1>1 DEF Ends
<1>5. QED
  BY <1>2, <1>3, <1>4

LEMMA ThreadFallsBack ==
    ASSUME Rounds \in Nat \ {0}, NEW t \in LoopThread
    PROVE  \E u \in LoopThread : /\ u = [t EXCEPT !.at = "fallback", !.r = 1, !.how = "serial"]
                                    /\ FallsBack(t, u)
<1>1. PICK u : u = [t EXCEPT !.at = "fallback", !.r = 1, !.how = "serial"]
  OBVIOUS
<1>2. u \in LoopThread
  <2>1. 1 \in 1..Rounds /\ "fallback" \in LoopPlaces /\ "serial" \in LoopWays
    BY DEF LoopPlaces, LoopWays
  <2>2. QED
    BY <1>1, <2>1 DEF LoopThread
<1>3. FallsBack(t, u)
  BY <1>1 DEF LoopThread, FallsBack, Kept
<1>4. QED
  BY <1>1, <1>2, <1>3

LEMMA ThreadAgain ==
    ASSUME Rounds \in Nat \ {0}, NEW t \in LoopThread
    PROVE  \E u \in LoopThread : /\ u = [t EXCEPT !.at = "retry", !.attempt = @ + 1]
                                    /\ Stays(t, u) /\ u.at = "retry"
<1>1. PICK u : u = [t EXCEPT !.at = "retry", !.attempt = @ + 1]
  OBVIOUS
<1>2. u \in LoopThread
  <2>1. PICK k \in Nat : k = t.attempt + 1
    BY DEF LoopThread
  <2>2. u = [t EXCEPT !.at = "retry", !.attempt = k] /\ "retry" \in LoopPlaces
    BY <1>1, <2>1 DEF LoopPlaces
  <2>3. QED
    BY <2>2 DEF LoopThread
<1>3. Stays(t, u) /\ u.at = "retry"
  BY <1>1 DEF LoopThread, Stays, Kept
<1>4. QED
  BY <1>1, <1>2, <1>3

Takes(t, r, way, a) == [t EXCEPT !.r = r, !.how = way, !.answer = a]
LEMMA ThreadTakes ==
    ASSUME Rounds \in Nat \ {0}, NEW t \in LoopThread, NEW r \in 1..Rounds, NEW way \in LoopWays,
           NEW a \in Nat
    PROVE  /\ Takes(t, r, way, a) \in LoopThread /\ Kept(t, Takes(t, r, way, a))
           /\ Takes(t, r, way, a).r = r /\ Takes(t, r, way, a).how = way
           /\ Takes(t, r, way, a).answer = a
<1>1. PICK u : u = [t EXCEPT !.r = r, !.how = way, !.answer = a]
  OBVIOUS
<1>2. u \in LoopThread
  BY <1>1 DEF LoopThread
<1>3. Kept(t, u) /\ u.r = r /\ u.how = way /\ u.answer = a
  BY <1>1 DEF LoopThread, Kept
<1>4. u = Takes(t, r, way, a)
  BY <1>1 DEF Takes
<1>5. QED
  BY <1>2, <1>3, <1>4

LEMMA ThreadForgets ==
    ASSUME Rounds \in Nat \ {0}, NEW t \in LoopThread
    PROVE  \E u \in LoopThread : u = [t EXCEPT !.answer = 0] /\ Kept(t, u)
                                    /\ u.r = t.r /\ u.how = t.how
<1>1. PICK u : u = [t EXCEPT !.answer = 0]
  OBVIOUS
<1>2. u \in LoopThread
  BY <1>1 DEF LoopThread
<1>3. Kept(t, u) /\ u.r = t.r /\ u.how = t.how
  BY <1>1 DEF LoopThread, Kept
<1>4. QED
  BY <1>1, <1>2, <1>3

LEMMA ThreadRenews ==
    ASSUME Rounds \in Nat \ {0}, NEW t \in LoopThread
    PROVE  \E u \in LoopThread : /\ u = [t EXCEPT !.attempt = 1, !.answer = 0, !.how = "serial"]
                                    /\ Kept(t, u) /\ u.r = t.r /\ u.how = "serial"
<1>1. PICK u : u = [t EXCEPT !.attempt = 1, !.answer = 0, !.how = "serial"]
  OBVIOUS
<1>2. u \in LoopThread
  BY <1>1 DEF LoopThread, LoopWays
<1>3. Kept(t, u) /\ u.r = t.r /\ u.how = "serial"
  BY <1>1 DEF LoopThread, Kept
<1>4. QED
  BY <1>1, <1>2, <1>3

Looks(t, r) == [t EXCEPT !.r = r, !.at = "check"]
Replays(t, r, a) == [t EXCEPT !.r = r, !.at = "replay", !.how = "replay", !.answer = a]
LEMMA ThreadRounds ==
    ASSUME Rounds \in Nat \ {0}, NEW t \in LoopThread, NEW r \in 1..Rounds, NEW a \in Nat
    PROVE  /\ Looks(t, r) \in LoopThread /\ Kept(t, Looks(t, r))
           /\ Looks(t, r).r = r /\ Looks(t, r).at = "check" /\ Looks(t, r).how = t.how
           /\ Replays(t, r, a) \in LoopThread /\ Kept(t, Replays(t, r, a))
           /\ Replays(t, r, a).r = r /\ Replays(t, r, a).at = "replay"
           /\ Replays(t, r, a).how = "replay" /\ Replays(t, r, a).answer = a
<1>1. PICK u : u = [t EXCEPT !.r = r, !.at = "check"]
  OBVIOUS
<1>2. u \in LoopThread
  BY <1>1 DEF LoopThread, LoopPlaces
<1>3. Kept(t, u) /\ u.r = r /\ u.at = "check" /\ u.how = t.how
  BY <1>1 DEF LoopThread, Kept
<1>4. PICK v : v = [t EXCEPT !.r = r, !.at = "replay", !.how = "replay", !.answer = a]
  OBVIOUS
<1>5. v \in LoopThread
  <2>1. "replay" \in LoopPlaces /\ "replay" \in LoopWays
    BY DEF LoopPlaces, LoopWays
  <2>2. QED
    BY <1>4, <2>1 DEF LoopThread
<1>6. Kept(t, v) /\ v.r = r /\ v.at = "replay" /\ v.how = "replay" /\ v.answer = a
  BY <1>4 DEF LoopThread, Kept
<1>7. u = Looks(t, r) /\ v = Replays(t, r, a)
  BY <1>1, <1>4 DEF Looks, Replays
<1>8. QED
  BY <1>2, <1>3, <1>5, <1>6, <1>7

LEMMA ThreadDoes ==
    ASSUME Rounds \in Nat \ {0}, NEW t \in LoopThread
    PROVE  \E u \in LoopThread :
              /\ u = [t EXCEPT !.completed = @ \cup {t.r}, !.seen = @ \cup {t.answer}]
              /\ u.completed = t.completed \cup {t.r} /\ u.seen = t.seen \cup {t.answer}
              /\ u.r = t.r /\ u.how = t.how /\ u.answer = t.answer
<1>1. PICK u : u = [t EXCEPT !.completed = @ \cup {t.r}, !.seen = @ \cup {t.answer}]
  OBVIOUS
<1>2. u \in LoopThread
  BY <1>1 DEF LoopThread
<1>3. /\ u.completed = t.completed \cup {t.r} /\ u.seen = t.seen \cup {t.answer}
      /\ u.r = t.r /\ u.how = t.how /\ u.answer = t.answer
  BY <1>1 DEF LoopThread
<1>4. QED
  BY <1>1, <1>2, <1>3

Onward(t) == [t EXCEPT !.at = "round", !.r = @ + 1]
LEMMA ThreadNext ==
    ASSUME Rounds \in Nat \ {0}, NEW t \in LoopThread, t.r # Rounds
    PROVE  /\ Onward(t) \in LoopThread /\ Kept(t, Onward(t))
           /\ Onward(t).at = "round" /\ Onward(t).r = t.r + 1 /\ Onward(t).how = t.how
<1>1. PICK u : u = [t EXCEPT !.at = "round", !.r = @ + 1]
  OBVIOUS
<1>2. t.r + 1 \in 1..Rounds
  BY DEF LoopThread
<1>3. u \in LoopThread
  BY <1>1, <1>2 DEF LoopThread, LoopPlaces
<1>4. Kept(t, u) /\ u.at = "round" /\ u.r = t.r + 1 /\ u.how = t.how
  BY <1>1 DEF LoopThread, Kept
<1>5. u = Onward(t)
  BY <1>1 DEF Onward
<1>6. QED
  BY <1>3, <1>4, <1>5

-----------------------------------------------------------------------------
(* The steps.                                                              *)

\* The thread of model m becomes u.
LEMMA RunSizes ==
    ASSUME RunAssumption PROVE Rounds \in Nat \ {0}
  BY DEF RunAssumption, RoundsAssumption

LEMMA RunFault ==
    ASSUME RunAssumption, faults \in Nat, Fault PROVE Lossy /\ faults' \in Nat
  BY DEF RunAssumption, Fault, BoundsAssumption, Lossy

LEMMA RunHeeds ==
    ASSUME RunAssumption, NEW m \in Models, NEW answer, NEW p \in LoopPlaces, LoopTypes,
           Heed(m, answer, p)
    PROVE  \E u \in LoopThread :
              /\ th' = [th EXCEPT ![m] = u]
              /\ Stops(th[m], u) \/ (Stays(th[m], u) /\ u.at = p)
<1>1. PICK t \in LoopThread : t = th[m]
  BY DEF LoopTypes
<1>2. ASSUME NEW e \in {"cancelled", "paused"},
             th' = [th EXCEPT ![m] = [t EXCEPT !.at = "ended", !.outcome = e]]
      PROVE  \E u \in LoopThread : th' = [th EXCEPT ![m] = u] /\ Stops(t, u)
  <2>1. e \in LoopEnds /\ e # "ok"
    BY DEF LoopEnds
  <2>2. th' = [th EXCEPT ![m] = Ends(t, e)]
    BY <1>2 DEF Ends
  <2>3. QED
    BY <2>1, <2>2, RunSizes, ThreadEnds DEF Stops, Stays
<1>3. ASSUME th' = [th EXCEPT ![m] = [t EXCEPT !.at = p]]
      PROVE  \E u \in LoopThread :
                th' = [th EXCEPT ![m] = u] /\ Stays(t, u) /\ u.at = p
  <2>1. PICK u \in LoopThread : u = [t EXCEPT !.at = p] /\ Stays(t, u) /\ u.at = p
    BY RunSizes, ThreadAt
  <2>2. QED
    BY <1>3, <2>1
<1>4. \/ th' = [th EXCEPT ![m] = [t EXCEPT !.at = "ended", !.outcome = "cancelled"]]
      \/ th' = [th EXCEPT ![m] = [t EXCEPT !.at = "ended", !.outcome = "paused"]]
      \/ th' = [th EXCEPT ![m] = [t EXCEPT !.at = p]]
  BY <1>1 DEF Heed, End, Go, Become
<1>5. QED
  BY <1>1, <1>2, <1>3, <1>4

LEMMA RunChecks ==
    ASSUME RunAssumption, NEW m \in Models, NEW force, NEW p \in LoopPlaces, NEW fail, LoopTypes,
           faults \in Nat, Check(m, force, p, fail)
    PROVE  /\ \/ th' = [th EXCEPT ![m] = fail]
              \/ \E u \in LoopThread :
                    /\ th' = [th EXCEPT ![m] = u]
                    /\ Stops(th[m], u) \/ (Stays(th[m], u) /\ u.at = p)
           /\ faults' \in Nat
<1>1. \/ th' = [th EXCEPT ![m] = fail]
      \/ \E answer : Heed(m, answer, p)
  BY DEF Check, Become
<1>2. faults' \in Nat
  BY RunFault DEF Check
<1>3. QED
  BY <1>1, <1>2, RunHeeds

LEMMA RunFails ==
    ASSUME RunAssumption, NEW t \in LoopThread
    PROVE  \E u \in LoopThread : u = Failing(t) /\ Falls(t, u)
<1>1. CASE t.how = "batch"
  BY <1>1, RunSizes, ThreadFallsBack DEF Failing, LeaveBatch, Falls, FallsAs
<1>2. CASE t.how = "serial" /\ t.attempt < Attempts
  <2>1. Failing(t) = [t EXCEPT !.at = "retry", !.attempt = @ + 1]
    BY <1>2 DEF Failing
  <2>2. QED
    BY <1>2, <2>1, RunSizes, ThreadAgain DEF Falls, FallsAs, Stays
<1>3. CASE t.how # "batch" /\ ~(t.how = "serial" /\ t.attempt < Attempts)
  <2>1. Failing(t) = [t EXCEPT !.at = "ended", !.outcome = "error"]
    BY <1>3 DEF Failing
  <2>2. "error" \in LoopEnds
    BY DEF LoopEnds
  <2>3. Failing(t) = Ends(t, "error")
    BY <2>1 DEF Ends
  <2>4. QED
    BY <1>3, <2>2, <2>3, RunSizes, ThreadEnds DEF Falls, FallsAs, Stays, Stops
<1>4. QED
  BY <1>1, <1>2, <1>3

LEMMA RunErrs ==
    ASSUME RunAssumption, NEW m \in Models, LoopTypes
    PROVE  \E u \in LoopThread : u = Error(m) /\ Stops(th[m], u)
<1>1. "error" \in LoopEnds /\ th[m] \in LoopThread
  BY DEF LoopEnds, LoopTypes
<1>2. PICK t \in LoopThread : t = th[m]
  BY <1>1
<1>3. Error(m) = Ends(t, "error")
  BY <1>2 DEF Error, Ends
<1>4. QED
  BY <1>1, <1>2, <1>3, RunSizes, ThreadEnds DEF Stays, Stops

\* _check_control, wherever a thread calls it.
LEMMA RunControls ==
    ASSUME RunAssumption, NEW m \in Models, LoopTypes, faults \in Nat,
           Control(m) \/ ProgressCheck(m)
    PROVE  /\ \E u \in LoopThread : th' = [th EXCEPT ![m] = u] /\ LoopChecks(th[m], u)
           /\ UNCHANGED <<status, flags, stored, erased, holds, spool, torn, run, stopped,
                          answers, crashes>>
           /\ faults' \in Nat
<1>1. PICK t \in LoopThread : t = th[m]
  BY DEF LoopTypes
<1> DEFINE Meets(p, fail) == /\ \/ th' = [th EXCEPT ![m] = fail]
                                \/ \E u \in LoopThread :
                                      /\ th' = [th EXCEPT ![m] = u]
                                      /\ Stops(t, u) \/ (Stays(t, u) /\ u.at = p)
                             /\ faults' \in Nat
<1>2. \A p \in LoopPlaces, force \in BOOLEAN :
         \A fail : Check(m, force, p, fail) => Meets(p, fail)
  BY <1>1, RunChecks
<1>3. "batch" \in LoopPlaces /\ "round" \in LoopPlaces /\ "submit" \in LoopPlaces
      /\ "collect" \in LoopPlaces
  BY DEF LoopPlaces
<1>4. UNCHANGED <<status, flags, stored, erased, holds, spool, torn, run, stopped, answers, crashes>>
  BY DEF Control, ProgressCheck, BatchCheck, Fallback, ReplayCheck,
     CollectCheck, RetryCheck, server, disk
<1>5. \/ t.at \in {"batch_check", "batch"} /\ Meets("batch", LeaveBatch(t))
      \/ t.at = "fallback" /\ Meets("round", Error(m))
      \/ t.at = "replay" /\ Meets("submit", Error(m))
      \/ t.at = "check" /\ Meets("collect", Error(m))
      \/ t.at = "retry" /\ Meets("collect", Error(m))
      \/ t.at = "collect" /\ Meets("collect", Failing(t))
  <2> HIDE DEF Meets
  <2>1. QED
    BY <1>1, <1>2, <1>3 DEF Control, ProgressCheck, BatchCheck, Fallback, ReplayCheck,
     CollectCheck, RetryCheck
<1>6. PICK e \in LoopThread : e = Error(m) /\ Stops(t, e)
  BY <1>1, RunErrs
<1>7. PICK f \in LoopThread : f = Failing(t) /\ Falls(t, f)
  BY RunFails
<1>8. PICK b \in LoopThread : b = LeaveBatch(t) /\ FallsBack(t, b)
  BY RunSizes, ThreadFallsBack DEF LeaveBatch
<1>9. \E u \in LoopThread : th' = [th EXCEPT ![m] = u] /\ LoopChecks(t, u)
  BY <1>4, <1>5, <1>6, <1>7, <1>8 DEF LoopChecks, Checkings
<1>10. faults' \in Nat
  BY <1>5
<1>11. QED
  BY <1>1, <1>4, <1>9, <1>10

LEMMA RunBegun ==
    ASSUME RunAssumption, NEW m \in Models, LoopTypes, Begin(m) \/ NotReady(m)
    PROVE  \E u \in LoopThread :
              th' = [th EXCEPT ![m] = u] /\ LoopBegins(th[m], u)
<1>1. PICK t \in LoopThread : t = th[m]
  BY DEF LoopTypes
<1>2. t.at = "begin" /\ UNCHANGED <<stored, spool, torn, answers>>
  BY <1>1 DEF Begin, NotReady, server, disk
<1>3. \A e \in LoopEnds : Ends(t, e) \in LoopThread
         /\ Stays(t, Ends(t, e)) /\ Ends(t, e).at = "ended" /\ Ends(t, e).outcome = e
  BY RunSizes, ThreadEnds
<1>4. \A p \in LoopPlaces : \E u \in LoopThread :
         u = [t EXCEPT !.at = p] /\ Stays(t, u) /\ u.at = p
  BY RunSizes, ThreadAt
<1>5. \/ t.completed = 1..Rounds /\ th' = [th EXCEPT ![m] = Ends(t, "ok")]
      \/ th' = [th EXCEPT ![m] = Ends(t, "error")]
      \/ th' = [th EXCEPT ![m] = [t EXCEPT !.at = "round"]]
      \/ Kind = "diagnosis" /\ th' = [th EXCEPT ![m] = [t EXCEPT !.at = "batch_check"]]
  BY <1>1 DEF Begin, NotReady, End, Go, Become, RoundNos, Ends
<1>6. CASE t.completed = 1..Rounds /\ th' = [th EXCEPT ![m] = Ends(t, "ok")]
  BY <1>1, <1>2, <1>3, <1>6 DEF LoopBegins, LoopEnds, Stays
<1>7. CASE th' = [th EXCEPT ![m] = Ends(t, "error")]
  BY <1>1, <1>2, <1>3, <1>7 DEF LoopBegins, LoopEnds, Stays, Stops
<1>8. CASE th' = [th EXCEPT ![m] = [t EXCEPT !.at = "round"]]
  BY <1>1, <1>2, <1>4, <1>8 DEF LoopBegins, LoopPlaces
<1>9. CASE Kind = "diagnosis" /\ th' = [th EXCEPT ![m] = [t EXCEPT !.at = "batch_check"]]
  BY <1>1, <1>2, <1>4, <1>9 DEF LoopBegins, LoopPlaces
<1>10. QED
  BY <1>5, <1>6, <1>7, <1>8, <1>9

LEMMA RunPersists ==
    ASSUME RunAssumption, NEW m \in Models, NEW r \in 1..Rounds, NEW way \in {"serial", "batch"}, NEW a \in Nat,
           LoopTypes, Persist(m, r, way, a)
    PROVE  \E u \in LoopThread :
              /\ th' = [th EXCEPT ![m] = u]
              /\ \/ FallsAs(way, r, th[m], u)
                 \/ /\ a \notin th[m].seen /\ Kept(th[m], u)
                    /\ u.at = "append" /\ u.r = r /\ u.how = way /\ u.answer = a
<1>1. PICK t \in LoopThread : t = th[m]
  BY DEF LoopTypes
<1>2. PICK v \in LoopThread :
         v = Takes(t, r, way, a) /\ Kept(t, v) /\ v.r = r /\ v.how = way /\ v.answer = a
  <2>1. way \in LoopWays
    BY DEF LoopWays
  <2>2. QED
    BY <2>1, RunSizes, ThreadTakes
<1>3. th' = [th EXCEPT ![m] = IF a \in t.seen THEN Failing([v EXCEPT !.answer = 0])
                              ELSE [v EXCEPT !.at = "append"]]
  BY <1>1, <1>2 DEF Persist, Become, None, Takes
<1>4. CASE a \in t.seen
  <2>1. PICK w \in LoopThread : w = [v EXCEPT !.answer = 0] /\ Kept(v, w) /\ w.r = v.r /\ w.how = v.how
    BY RunSizes, ThreadForgets
  <2>2. PICK u \in LoopThread : u = Failing(w) /\ Falls(w, u)
    BY RunFails
  <2>3. FallsAs(way, r, t, u)
    BY <1>2, <2>1, <2>2 DEF Falls, FallsAs, FallsBack, Stops, Kept
  <2>4. QED
    BY <1>1, <1>3, <1>4, <2>1, <2>2, <2>3
<1>5. CASE a \notin t.seen
  <2>1. PICK u \in LoopThread : u = [v EXCEPT !.at = "append"] /\ Stays(v, u) /\ u.at = "append"
    <3>1. "append" \in LoopPlaces
      BY DEF LoopPlaces
    <3>2. QED
      BY <3>1, RunSizes, ThreadAt
  <2>2. QED
    BY <1>1, <1>2, <1>3, <1>5, <2>1 DEF Stays, Kept
<1>6. QED
  BY <1>4, <1>5

LEMMA RunCaptured ==
    ASSUME RunAssumption, NEW m \in Models, LoopTypes, BatchPublish(m) \/ Capture(m)
    PROVE  \E u \in LoopThread :
              th' = [th EXCEPT ![m] = u] /\ LoopCaptures(m, th[m], u)
<1>1. PICK t \in LoopThread : t = th[m]
  BY DEF LoopTypes
<1>2. t.r \in 1..Rounds /\ UNCHANGED <<stored, spool, torn>>
  BY <1>1 DEF LoopThread, BatchPublish, Capture, server, disk
<1>3. \E r \in 1..Rounds, way \in {"serial", "batch"}, a \in Nat \ {0} :
         /\ Taken(m, a) /\ Persist(m, r, way, a)
         /\ \/ t.at = "batch" /\ way = "batch" /\ spool[m][r] = 0
            \/ t.at = "collect" /\ way = "serial" /\ r = t.r
  <2>0. Answers \subseteq Nat \ {0}
    BY DEF RunAssumption, Answers, BoundsAssumption
  <2>1. CASE BatchPublish(m)
    BY <1>1, <2>0, <2>1 DEF BatchPublish, Missing, RoundNos, None
  <2>2. CASE Capture(m)
    BY <1>1, <1>2, <2>0, <2>2 DEF Capture
  <2>3. QED
    BY <2>1, <2>2
<1>4. PICK r \in 1..Rounds, way \in {"serial", "batch"}, a \in Nat \ {0} :
         /\ Taken(m, a) /\ Persist(m, r, way, a)
         /\ \/ t.at = "batch" /\ way = "batch" /\ spool[m][r] = 0
            \/ t.at = "collect" /\ way = "serial" /\ r = t.r
  BY <1>3
<1>5. LoopTakes(m, a)
  BY <1>4 DEF LoopTakes, Taken
<1>6. PICK u \in LoopThread :
         /\ th' = [th EXCEPT ![m] = u]
         /\ \/ FallsAs(way, r, t, u)
            \/ /\ a \notin t.seen /\ Kept(t, u)
               /\ u.at = "append" /\ u.r = r /\ u.how = way /\ u.answer = a
  BY <1>1, <1>4, RunPersists
<1>7. LoopCaptures(m, t, u)
  BY <1>2, <1>4, <1>5, <1>6 DEF LoopCaptures
<1>8. QED
  BY <1>1, <1>6, <1>7

LEMMA RunReturned ==
    ASSUME RunAssumption, NEW m \in Models, LoopTypes, BatchReturn(m) \/ CaptureFails(m)
    PROVE  \E u \in LoopThread :
              /\ th' = [th EXCEPT ![m] = u]
              /\ LoopReturns(th[m], u) \/ LoopChecks(th[m], u)
<1>1. PICK t \in LoopThread : t = th[m]
  BY DEF LoopTypes
<1>2. UNCHANGED <<stored, spool, torn, answers>>
  BY DEF BatchReturn, CaptureFails, server, disk
<1>3. PICK b \in LoopThread : b = LeaveBatch(t) /\ FallsBack(t, b)
  BY RunSizes, ThreadFallsBack DEF LeaveBatch
<1>4. PICK f \in LoopThread : f = Failing(t) /\ Falls(t, f)
  BY RunFails
<1>5. PICK c \in LoopThread : c = [b EXCEPT !.at = "round"] /\ Stays(b, c) /\ c.at = "round"
  <2>1. "round" \in LoopPlaces
    BY DEF LoopPlaces
  <2>2. QED
    BY <2>1, RunSizes, ThreadAt
<1>6. \/ t.at = "batch" /\ th' = [th EXCEPT ![m] = c]
      \/ t.at = "batch" /\ th' = [th EXCEPT ![m] = b]
      \/ t.at = "collect" /\ th' = [th EXCEPT ![m] = f]
  BY <1>1, <1>3, <1>4, <1>5 DEF BatchReturn, CaptureFails, Fail, Become
<1>7. LoopReturns(t, c) \/ t.at # "batch"
  BY <1>2, <1>3, <1>5 DEF LoopReturns, FallsBack, Stays, Kept
<1>8. QED
  BY <1>1, <1>2, <1>3, <1>4, <1>6, <1>7 DEF LoopChecks, Checkings

LEMMA RunRounded ==
    ASSUME RunAssumption, NEW m \in Models, LoopTypes, Round(m)
    PROVE  \E u \in LoopThread :
              th' = [th EXCEPT ![m] = u] /\ LoopRoundOf(m, th[m], u)
<1>1. PICK t \in LoopThread : t = th[m]
  BY DEF LoopTypes
<1>2. t.at = "round" /\ UNCHANGED <<stored, spool, torn, answers>>
  BY <1>1 DEF Round, server, disk
<1>3. PICK v \in LoopThread : /\ v = [t EXCEPT !.attempt = 1, !.answer = 0, !.how = "serial"]
                                   /\ Kept(t, v) /\ v.r = t.r /\ v.how = "serial"
  BY RunSizes, ThreadRenews
<1>4. \/ /\ stopped \/ \A q \in 1..Rounds : q >= t.r => q \in t.completed
         /\ th' = [th EXCEPT ![m] = Ends(t, "ok")]
      \/ \E r \in 1..Rounds :
            /\ r >= t.r /\ \A q \in 1..Rounds : q >= t.r /\ q < r => q \in t.completed
            /\ th' = [th EXCEPT ![m] = IF spool[m][r] # 0 THEN Replays(v, r, spool[m][r])
                                       ELSE Looks(v, r)]
  <2>1. DEFINE todo == {r \in 1..Rounds : r >= v.r /\ r \notin v.completed}
  <2>2. \/ (stopped \/ todo = {}) /\ th' = [th EXCEPT ![m] = Ends(t, "ok")]
        \/ \E r \in todo :
            /\ \A q \in todo : r <= q
            /\ th' = [th EXCEPT ![m] = IF spool[m][r] # 0 THEN Replays(v, r, spool[m][r])
                                       ELSE Looks(v, r)]
    BY <1>1, <1>3 DEF Round, Become, End, RoundNos, None, Ends, Replays, Looks
  <2>3. todo = {r \in 1..Rounds : r >= t.r /\ r \notin t.completed}
    BY <1>3 DEF Kept
  <2>4. t.r \in 1..Rounds
    BY DEF LoopThread
  <2>5. CASE (stopped \/ todo = {}) /\ th' = [th EXCEPT ![m] = Ends(t, "ok")]
    BY <2>3, <2>5
  <2>6. ASSUME NEW r \in todo, \A q \in todo : r <= q
        PROVE  r >= t.r /\ \A q \in 1..Rounds : q >= t.r /\ q < r => q \in t.completed
    BY <2>3, <2>4, <2>6
  <2>7. QED
    BY <2>2, <2>5, <2>6
<1>5. CASE /\ stopped \/ \A q \in 1..Rounds : q >= t.r => q \in t.completed
           /\ th' = [th EXCEPT ![m] = Ends(t, "ok")]
  <2>1. /\ Ends(t, "ok") \in LoopThread /\ Kept(t, Ends(t, "ok"))
        /\ Ends(t, "ok").at = "ended" /\ Ends(t, "ok").outcome = "ok"
    BY RunSizes, ThreadEnds DEF LoopEnds, Stays
  <2>2. LoopRoundOf(m, t, Ends(t, "ok"))
    BY <1>2, <1>5, <2>1 DEF LoopRoundOf
  <2>3. QED
    BY <1>1, <1>5, <2>1, <2>2
<1>6. ASSUME NEW r \in 1..Rounds,
             r >= t.r /\ \A q \in 1..Rounds : q >= t.r /\ q < r => q \in t.completed,
             th' = [th EXCEPT ![m] = IF spool[m][r] # 0 THEN Replays(v, r, spool[m][r])
                                     ELSE Looks(v, r)]
      PROVE  \E u \in LoopThread :
                th' = [th EXCEPT ![m] = u] /\ LoopRoundOf(m, t, u)
  <2>1. PICK a \in Nat : a = spool[m][r]
    BY DEF LoopTypes
  <2>2. PICK k \in LoopThread : /\ k = Looks(v, r) /\ Kept(v, k)
                                     /\ k.r = r /\ k.at = "check" /\ k.how = v.how
    BY <2>1, RunSizes, ThreadRounds
  <2>3. PICK p \in LoopThread :
           /\ p = Replays(v, r, a) /\ Kept(v, p) /\ p.r = r
           /\ p.at = "replay" /\ p.how = "replay" /\ p.answer = a
    <3>1. /\ Replays(v, r, a) \in LoopThread /\ Kept(v, Replays(v, r, a))
          /\ Replays(v, r, a).r = r /\ Replays(v, r, a).at = "replay"
          /\ Replays(v, r, a).how = "replay" /\ Replays(v, r, a).answer = a
      BY RunSizes, ThreadRounds
    <3>2. QED
      BY <3>1
  <2>4. CASE a # 0
    <3>1. LoopRoundOf(m, t, p)
      BY <1>2, <1>3, <1>6, <2>1, <2>3, <2>4 DEF LoopRoundOf, Kept
    <3>2. QED
      BY <1>6, <2>1, <2>3, <2>4, <3>1
  <2>5. CASE a = 0
    <3>1. LoopRoundOf(m, t, k)
      BY <1>2, <1>3, <1>6, <2>1, <2>2, <2>5 DEF LoopRoundOf, Kept
    <3>2. QED
      BY <1>6, <2>1, <2>2, <2>5, <3>1
  <2>6. QED
    BY <2>4, <2>5
<1>7. QED
  BY <1>1, <1>4, <1>5, <1>6

LEMMA RunAppended ==
    ASSUME RunAssumption, NEW m \in Models, LoopTypes, AppendRecord(m)
    PROVE  \E u \in LoopThread : th' = [th EXCEPT ![m] = u] /\ LoopAppends(m, th[m], u)
<1>1. PICK t \in LoopThread : t = th[m]
  BY DEF LoopTypes
<1>2. PICK u \in LoopThread : u = [t EXCEPT !.at = "submit"] /\ Stays(t, u) /\ u.at = "submit"
  <2>1. "submit" \in LoopPlaces
    BY DEF LoopPlaces
  <2>2. QED
    BY <2>1, RunSizes, ThreadAt
<1>3. th' = [th EXCEPT ![m] = u]
  BY <1>1, <1>2 DEF AppendRecord, Go, Become
<1>4. LoopAppends(m, t, u)
  BY <1>1, <1>2 DEF AppendRecord, Write, server, LoopAppends
<1>5. QED
  BY <1>1, <1>3, <1>4

LEMMA RunSubmitted ==
    ASSUME RunAssumption, NEW m \in Models, LoopTypes, faults \in Nat, Submit(m)
    PROVE  /\ \E u \in LoopThread :
                 th' = [th EXCEPT ![m] = u] /\ LoopSubmits(m, th[m], u)
           /\ faults' \in Nat
<1>1. PICK t \in LoopThread : t = th[m]
  BY DEF LoopTypes
<1>2. PICK u \in LoopThread : u = [t EXCEPT !.at = "mark"] /\ Stays(t, u) /\ u.at = "mark"
  <2>1. "mark" \in LoopPlaces
    BY DEF LoopPlaces
  <2>2. QED
    BY <2>1, RunSizes, ThreadAt
<1>3. PICK f \in LoopThread : f = Failing(t) /\ Falls(t, f)
  BY RunFails
<1>4. \/ /\ holds /\ Accepted(m, t.r, t.answer)
         /\ \/ th' = [th EXCEPT ![m] = u] /\ UNCHANGED faults
            \/ Fault /\ th' = [th EXCEPT ![m] = f]
      \/ ~holds /\ th' = [th EXCEPT ![m] = f] /\ UNCHANGED <<stored, faults>>
      \/ Fault /\ th' = [th EXCEPT ![m] = f] /\ UNCHANGED stored
  BY <1>1, <1>2, <1>3 DEF Submit, Go, Fail, Become
<1>5. t.at = "submit" /\ UNCHANGED <<spool, torn, answers>>
  BY <1>1 DEF Submit, disk
<1>6. faults' \in Nat /\ (Fault => Lossy)
  BY <1>4, RunFault
<1>7. Accepted(m, t.r, t.answer) =>
         stored' = IF flags.cancel \/ stored[m][t.r] # 0 THEN stored
                   ELSE [stored EXCEPT ![m][t.r] = t.answer]
  BY DEF Accepted, None
<1>8. th' = [th EXCEPT ![m] = u] \/ th' = [th EXCEPT ![m] = f]
  BY <1>4
<1>9. CASE th' = [th EXCEPT ![m] = f] /\ ~(holds /\ th' = [th EXCEPT ![m] = u])
  <2>1. LoopSubmits(m, t, f)
    BY <1>3, <1>4, <1>5, <1>6, <1>7, <1>9 DEF LoopSubmits
  <2>2. QED
    BY <1>1, <1>6, <1>9, <2>1
<1>10. CASE holds /\ th' = [th EXCEPT ![m] = u] /\ Accepted(m, t.r, t.answer)
  <2>1. LoopSubmits(m, t, u)
    BY <1>2, <1>5, <1>7, <1>10 DEF LoopSubmits
  <2>2. QED
    BY <1>1, <1>6, <1>10, <2>1
<1>11. CASE Fault /\ th' = [th EXCEPT ![m] = f] /\ UNCHANGED stored
  <2>1. LoopSubmits(m, t, f)
    BY <1>3, <1>5, <1>6, <1>11 DEF LoopSubmits
  <2>2. QED
    BY <1>1, <1>6, <1>11, <2>1
<1>12. QED
  BY <1>4, <1>8, <1>9, <1>10, <1>11

LEMMA RunMarked ==
    ASSUME RunAssumption, NEW m \in Models, LoopTypes, MarkSubmitted(m)
    PROVE  \E u \in LoopThread : th' = [th EXCEPT ![m] = u] /\ LoopMarks(m, th[m], u)
<1>1. PICK t \in LoopThread : t = th[m]
  BY DEF LoopTypes
<1>2. /\ t.at = "mark" /\ UNCHANGED <<stored, answers>>
      /\ spool' = (IF torn THEN spool ELSE [spool EXCEPT ![m][t.r] = 0]) /\ torn' = FALSE
      /\ th' = [th EXCEPT ![m] = Marked(t)]
  BY <1>1 DEF MarkSubmitted, Write, Become, None, server
<1>3. PICK d \in LoopThread :
         /\ d = IF t.how = "replay" THEN t
                ELSE [t EXCEPT !.completed = @ \cup {t.r}, !.seen = @ \cup {t.answer}]
         /\ d.completed = IF t.how = "replay" THEN t.completed ELSE t.completed \cup {t.r}
         /\ d.seen = IF t.how = "replay" THEN t.seen ELSE t.seen \cup {t.answer}
         /\ d.r = t.r /\ d.how = t.how
  <2>1. CASE t.how = "replay"
    BY <2>1
  <2>2. CASE t.how # "replay"
    BY <2>2, RunSizes, ThreadDoes
  <2>3. QED
    BY <2>1, <2>2
<1>4. CASE t.how = "batch"
  <2>1. PICK u \in LoopThread : u = [d EXCEPT !.at = "batch"] /\ Stays(d, u) /\ u.at = "batch"
    <3>1. "batch" \in LoopPlaces
      BY DEF LoopPlaces
    <3>2. QED
      BY <3>1, RunSizes, ThreadAt
  <2>2. Marked(t) = u
    BY <1>3, <1>4, <2>1 DEF Marked
  <2>3. LoopMarks(m, t, u)
    BY <1>2, <1>3, <1>4, <2>1 DEF LoopMarks, Stays, Kept
  <2>4. QED
    BY <1>1, <1>2, <2>2, <2>3
<1>5. CASE t.how # "batch" /\ t.r = Rounds
  <2>1. PICK u \in LoopThread : /\ u = Ends(d, "ok") /\ Stays(d, u)
                                     /\ u.at = "ended" /\ u.outcome = "ok"
    BY RunSizes, ThreadEnds DEF LoopEnds
  <2>2. Marked(t) = u
    BY <1>3, <1>5, <2>1 DEF Marked, Ends
  <2>3. LoopMarks(m, t, u)
    BY <1>2, <1>3, <1>5, <2>1 DEF LoopMarks, Stays, Kept
  <2>4. QED
    BY <1>1, <1>2, <2>2, <2>3
<1>6. CASE t.how # "batch" /\ t.r # Rounds
  <2>1. PICK u \in LoopThread :
           u = Onward(d) /\ Kept(d, u) /\ u.at = "round" /\ u.r = d.r + 1 /\ u.how = d.how
    BY <1>3, <1>6, RunSizes, ThreadNext
  <2>2. Marked(t) = u
    BY <1>3, <1>6, <2>1 DEF Marked, Onward
  <2>3. LoopMarks(m, t, u)
    BY <1>2, <1>3, <1>6, <2>1 DEF LoopMarks, Kept
  <2>4. QED
    BY <1>1, <1>2, <2>2, <2>3
<1>7. QED
  BY <1>4, <1>5, <1>6

LEMMA RunThreads ==
    ASSUME RunAssumption, NEW m \in Models, LoopTypes, faults \in Nat,
           \/ Step(m) \/ NotReady(m) \/ ProgressCheck(m) \/ Capture(m)
           \/ CaptureFails(m) \/ BatchPublish(m) \/ BatchReturn(m)
    PROVE  /\ LoopThreads
           /\ faults' \in Nat
<1> USE DEF LoopWorks
<1>1. UNCHANGED <<status, flags, erased, holds, run, stopped>>
  BY DEF Step, NotReady, ProgressCheck, Capture, CaptureFails, BatchPublish,
     BatchReturn, Begin, Round, Control, AppendRecord, Submit,
     MarkSubmitted, BatchCheck, Fallback, ReplayCheck, CollectCheck,
     RetryCheck, server, disk
<1> DEFINE Moved == \E u \in LoopThread :
                       th' = [th EXCEPT ![m] = u] /\ LoopWorks(m, th[m], u)
<1>2. CASE Begin(m) \/ NotReady(m)
  <2>1. Moved
    BY <1>2, RunBegun
  <2>2. QED
    BY <1>1, <1>2, <2>1 DEF LoopThreads, Begin, NotReady, bounds
<1>3. CASE Control(m) \/ ProgressCheck(m)
  <2>1. Moved /\ faults' \in Nat
    BY <1>3, RunControls
  <2>2. QED
    BY <1>1, <2>1 DEF LoopThreads
<1>4. CASE BatchPublish(m) \/ Capture(m)
  <2>1. Moved
    BY <1>4, RunCaptured
  <2>2. QED
    BY <1>1, <1>4, <2>1 DEF LoopThreads, BatchPublish, Capture, bounds
<1>5. CASE BatchReturn(m) \/ CaptureFails(m)
  <2>1. Moved
    BY <1>5, RunReturned
  <2>2. QED
    BY <1>1, <1>5, <2>1 DEF LoopThreads, BatchReturn, CaptureFails, bounds
<1>6. CASE Round(m)
  <2>1. Moved
    BY <1>6, RunRounded
  <2>2. QED
    BY <1>1, <1>6, <2>1 DEF LoopThreads, Round, bounds
<1>7. CASE AppendRecord(m)
  <2>1. Moved
    BY <1>7, RunAppended
  <2>2. QED
    BY <1>1, <1>7, <2>1 DEF LoopThreads, AppendRecord, bounds
<1>8. CASE Submit(m)
  <2>1. Moved /\ faults' \in Nat
    BY <1>8, RunSubmitted
  <2>2. QED
    BY <1>1, <2>1 DEF LoopThreads
<1>9. CASE MarkSubmitted(m)
  <2>1. Moved
    BY <1>9, RunMarked
  <2>2. QED
    BY <1>1, <1>9, <2>1 DEF LoopThreads, MarkSubmitted, bounds
<1>10. QED
  BY <1>2, <1>3, <1>4, <1>5, <1>6, <1>7, <1>8, <1>9 DEF Step

LEMMA RunRests ==
    ASSUME RunAssumption PROVE Rest \in LoopThread /\ Rest.at = "idle"
  BY RunSizes DEF Rest, None, LoopThread, LoopPlaces, LoopWays, LoopEnds

LEMMA RunFlags == NoFlags \in LoopFlags /\ ~NoFlags.cancel
  BY DEF NoFlags, LoopFlags

LEMMA RunClaims ==
    ASSUME RunAssumption, LoopTypes, faults \in Nat, Claim
    PROVE  LoopClaims /\ faults' \in Nat
<1>1. run = "poll" /\ UNCHANGED <<stored, erased, spool, torn, answers>>
  BY DEF Claim, disk
<1>2. CASE Claimed /\ UNCHANGED <<faults, flags>> /\ ~flags.cancel
           /\ status \in {"queued", "running"} /\ status' = "running"
  <2>1. ASSUME NEW m \in Models
        PROVE  \E u \in LoopThread :
                  /\ u = [Rest EXCEPT !.at = "begin", !.completed = Progress(m),
                                          !.seen = {stored[m][r] : r \in Progress(m)}]
                  /\ u.at = "begin" /\ u.r = 1 /\ u.how = "serial"
                  /\ u.completed = {r \in 1..Rounds : stored[m][r] # 0}
                  /\ u.seen = {stored[m][r] : r \in {q \in 1..Rounds : stored[m][q] # 0}}
    <3>1. PICK done \in SUBSET (1..Rounds), seen \in SUBSET Nat :
             /\ done = Progress(m) /\ done = {r \in 1..Rounds : stored[m][r] # 0}
             /\ seen = {stored[m][r] : r \in Progress(m)}
             /\ seen = {stored[m][r] : r \in {q \in 1..Rounds : stored[m][q] # 0}}
      <4>1. Progress(m) = {r \in 1..Rounds : stored[m][r] # 0}
        BY DEF Progress, RoundNos, None
      <4>2. {stored[m][r] : r \in Progress(m)} \subseteq Nat
        <5>1. \A r \in 1..Rounds : stored[m][r] \in Nat
          BY DEF LoopTypes
        <5>2. \A r \in Progress(m) : r \in 1..Rounds
          BY <4>1
        <5>3. QED
          BY <5>1, <5>2
      <4>3. Progress(m) \in SUBSET (1..Rounds)
        BY <4>1
      <4>4. {stored[m][r] : r \in Progress(m)}
            = {stored[m][r] : r \in {q \in 1..Rounds : stored[m][q] # 0}}
        BY <4>1
      <4>5. QED
        BY <4>1, <4>2, <4>3, <4>4
    <3>2. PICK u : u = [Rest EXCEPT !.at = "begin", !.completed = done, !.seen = seen]
      OBVIOUS
    <3>3. u \in LoopThread
      BY <3>2, RunRests DEF LoopThread, LoopPlaces
    <3>4. u.at = "begin" /\ u.completed = done /\ u.seen = seen /\ u.r = 1 /\ u.how = "serial"
      BY <3>2 DEF Rest
    <3>5. u = [Rest EXCEPT !.at = "begin", !.completed = Progress(m),
                               !.seen = {stored[m][r] : r \in Progress(m)}]
      BY <3>1, <3>2
    <3>6. QED
      BY <3>1, <3>3, <3>4, <3>5
  <2>2. th' = [m \in Models |-> [Rest EXCEPT !.at = "begin", !.completed = Progress(m),
                                          !.seen = {stored[m][r] : r \in Progress(m)}]]
    BY <1>2 DEF Claimed
  <2>3. \A m \in Models : th'[m] = [Rest EXCEPT !.at = "begin", !.completed = Progress(m),
                                          !.seen = {stored[m][r] : r \in Progress(m)}]
    BY <2>2
  <2>4. \A m \in Models :
           /\ th'[m] \in LoopThread
           /\ th'[m].at = "begin" /\ th'[m].r = 1 /\ th'[m].how = "serial"
           /\ th'[m].completed = {r \in 1..Rounds : stored[m][r] # 0}
           /\ th'[m].seen = {stored[m][r] : r \in {q \in 1..Rounds : stored[m][q] # 0}}
    BY <2>1, <2>3
  <2>5. th' \in [Models -> LoopThread]
    BY <2>2, <2>4
  <2>6. QED
    BY <1>1, <1>2, <2>4, <2>5 DEF LoopClaims, Claimed
<1>3. CASE /\ status' \in LoopStates \ {"completed"}
           /\ flags' \in LoopFlags /\ (flags'.cancel => flags.cancel)
           /\ UNCHANGED <<run, stopped, holds, th>>
           /\ UNCHANGED faults \/ Fault
  BY <1>1, <1>3, RunFault DEF LoopClaims
<1>4. flags \in LoopFlags
  BY DEF LoopTypes
<1>5. Claim
      => \/ /\ Claimed /\ UNCHANGED <<faults, flags>> /\ ~flags.cancel
            /\ status \in {"queued", "running"} /\ status' = "running"
         \/ /\ status' \in LoopStates \ {"completed"}
            /\ flags' = flags \/ flags' = FlagsAfter
            /\ UNCHANGED <<run, stopped, holds, th>>
            /\ UNCHANGED faults \/ Fault
  BY DEF Claim, Ended, LoopStates
<1>6. flags' = flags \/ flags' = FlagsAfter
      => flags' \in LoopFlags /\ (flags'.cancel => flags.cancel)
  BY <1>4, RunFlags DEF FlagsAfter
<1>7. QED
  BY <1>2, <1>3, <1>5, <1>6

LEMMA RunRested ==
    ASSUME RunAssumption, LoopTypes, th' = [m \in Models |-> Rest]
    PROVE  LoopIdle
<1>1. \A m \in Models : th'[m] = Rest
  OBVIOUS
<1>2. th' \in [Models -> LoopThread]
  BY RunRests
<1>3. QED
  BY <1>1, <1>2, RunRests DEF LoopIdle

LEMMA RunFinishes ==
    ASSUME RunAssumption, LoopTypes, faults \in Nat, Finish
    PROVE  LoopFinishes /\ faults' \in Nat
<1>1. /\ run = "running" /\ run' = "poll" /\ \A m \in Models : th[m].at = "ended"
      /\ UNCHANGED <<stored, erased, spool, torn, stopped, answers>>
  BY DEF Finish, disk
<1>2. LoopIdle
  BY RunRested DEF Finish
<1>3. PICK report \in Report :
         \/ /\ holds /\ Finished(report)
            /\ flags' = NoFlags /\ holds' = FALSE
            /\ (UNCHANGED faults \/ Fault)
         \/ /\ ~holds /\ UNCHANGED <<status, flags, holds, faults>>
         \/ Fault /\ holds' = FALSE /\ UNCHANGED <<status, flags>>
  BY DEF Finish
<1>4. \A m \in Models : th[m].outcome \in LoopEnds
  BY DEF LoopTypes, LoopThread
<1>5. /\ report \in {"cancelled", "paused", "retrying", "completed"}
      /\ report = "completed" => \A m \in Models : th[m].outcome = "ok"
  <2>1. DEFINE outs == {th[m].outcome : m \in Models}
  <2>2. \/ report \in outs \cap {"cancelled", "paused"}
        \/ report = "retrying"
        \/ report = "completed" /\ outs \cap {"cancelled", "paused"} = {} /\ "error" \notin outs
    BY DEF Report
  <2>3. report \in {"cancelled", "paused", "retrying", "completed"}
    BY <2>2
  <2>4. report = "completed" => \A m \in Models : th[m].outcome = "ok"
    <3>1. SUFFICES ASSUME report = "completed", NEW m \in Models PROVE th[m].outcome = "ok"
      OBVIOUS
    <3>2. th[m].outcome \in outs
      OBVIOUS
    <3>3. outs \cap {"cancelled", "paused"} = {} /\ "error" \notin outs
      BY <2>2, <3>1
    <3> HIDE DEF outs
    <3>4. QED
      BY <1>4, <3>2, <3>3 DEF LoopEnds
  <2>5. QED
    BY <2>3, <2>4
<1>6. Finished(report)
      => /\ status' \in LoopStates
         /\ status' = "completed" => report = "completed"
  BY <1>5 DEF Finished, LoopStates
<1>7. faults' \in Nat
  BY <1>3, RunFault
<1>8. CASE holds /\ Finished(report) /\ flags' = NoFlags /\ holds' = FALSE
  <2>1. flags' \in LoopFlags /\ ~flags'.cancel
    BY <1>8, RunFlags
  <2>2. /\ status' \in LoopStates
        /\ status' = "completed" => \A m \in Models : th[m].outcome = "ok"
    BY <1>5, <1>6, <1>8
  <2>3. QED
    BY <1>1, <1>2, <1>7, <1>8, <2>1, <2>2 DEF LoopFinishes
<1>9. CASE UNCHANGED <<status, flags>> /\ holds' = FALSE
  BY <1>1, <1>2, <1>7, <1>9 DEF LoopFinishes, LoopTypes
<1>10. QED
  BY <1>3, <1>8, <1>9, <1>7 DEF LoopTypes

LEMMA RunCrashes ==
    ASSUME RunAssumption, LoopTypes, crashes \in Nat, Crash
    PROVE  LoopCrashes /\ crashes' \in Nat
<1>1. Lossy /\ crashes' \in Nat
  BY DEF Crash, RunAssumption, BoundsAssumption, Lossy
<1>2. /\ run' = "poll" /\ holds' = FALSE
      /\ UNCHANGED <<status, flags, stored, erased, stopped, answers>>
  BY DEF Crash
<1>3. LoopIdle
  BY RunRested DEF Crash
<1>4. spool' \in [Models -> [1..Rounds -> Nat]] /\ torn' \in BOOLEAN
  <2>1. CASE UNCHANGED disk
    BY <2>1 DEF disk, LoopTypes
  <2>2. CASE ~UNCHANGED disk
    <3>1. PICK m \in Models :
             \/ torn' = TRUE /\ UNCHANGED spool
             \/ Write(m, th[m].r, IF th[m].at = "append" THEN th[m].answer ELSE 0)
      BY <2>2 DEF Crash, None
    <3>2. PICK r \in 1..Rounds, a \in Nat :
             r = th[m].r /\ a = IF th[m].at = "append" THEN th[m].answer ELSE 0
      BY DEF LoopTypes, LoopThread
    <3>3. [spool EXCEPT ![m][r] = a] \in [Models -> [1..Rounds -> Nat]]
      BY CellSet DEF LoopTypes
    <3>4. QED
      BY <3>1, <3>2, <3>3 DEF Write, LoopTypes
  <2>3. QED
    BY <2>1, <2>2
<1>5. QED
  BY <1>1, <1>2, <1>3, <1>4 DEF LoopCrashes

LEMMA RunOperates ==
    ASSUME RunAssumption, LoopTypes, Operator
    PROVE  LoopOperates /\ UNCHANGED <<faults, crashes>>
<1>1. UNCHANGED <<spool, torn, run, stopped, th, answers, faults, crashes>>
  BY DEF Operator, disk
<1>2. OperatorAsks /\ status \in LoopStates /\ flags \in LoopFlags
  BY DEF Operator, LoopTypes
<1>3. \A f \in LoopFlags :
         /\ [f EXCEPT !.pause = TRUE, !.preempt = FALSE] \in LoopFlags
         /\ [f EXCEPT !.pause = TRUE, !.preempt = FALSE].cancel = f.cancel
         /\ [f EXCEPT !.pause = FALSE, !.preempt = FALSE] \in LoopFlags
         /\ [f EXCEPT !.pause = FALSE, !.preempt = FALSE].cancel = f.cancel
         /\ [f EXCEPT !.pause = TRUE, !.preempt = TRUE] \in LoopFlags
         /\ [f EXCEPT !.pause = TRUE, !.preempt = TRUE].cancel = f.cancel
         /\ [f EXCEPT !.cancel = TRUE] \in LoopFlags
  BY DEF LoopFlags
<1> DEFINE Leaves == UNCHANGED <<stored, erased, holds>>
<1>4. CASE Operate("pause")
           /\ \/ /\ status = "running" /\ UNCHANGED status
                 /\ flags' = [flags EXCEPT !.pause = TRUE, !.preempt = FALSE]
              \/ /\ status = "queued" /\ status' = "paused"
                 /\ flags' = [flags EXCEPT !.pause = FALSE, !.preempt = FALSE]
           /\ Leaves
  BY <1>1, <1>2, <1>3, <1>4 DEF LoopOperates, LoopStates
<1>5. CASE Operate("preempt") /\ UNCHANGED status
           /\ flags' = [flags EXCEPT !.pause = TRUE, !.preempt = TRUE]
           /\ Leaves
  BY <1>1, <1>2, <1>3, <1>5 DEF LoopOperates
<1>6. CASE Operate("cancel")
           /\ status' = (IF status = "running" THEN status ELSE "cancelled")
           /\ flags' = [NoFlags EXCEPT !.cancel = TRUE] /\ Leaves
  <2>1. "cancel" \in Ops
    BY <1>6 DEF Operate
  <2>2. QED
    BY <1>1, <1>2, <1>3, <1>6, <2>1, RunFlags DEF LoopOperates, LoopStates
<1>7. CASE Operate("resume") /\ status \in {"paused", "failed"}
           /\ status' = "queued" /\ flags' = NoFlags /\ Leaves
  BY <1>1, <1>2, <1>7, RunFlags DEF LoopOperates, LoopStates
<1>8. CASE Operate("delete") /\ status \in Deletable
           /\ \E m \in Models, r \in 1..Rounds :
                 /\ stored[m][r] # 0
                 /\ stored' = [stored EXCEPT ![m][r] = 0]
                 /\ erased' = [erased EXCEPT ![m] = @ \cup {stored[m][r]}]
           /\ status' = "paused" /\ flags' = NoFlags /\ UNCHANGED holds
  <2>1. "delete" \in Ops /\ status # "running"
    BY <1>8 DEF Operate, Deletable
  <2>2. QED
    BY <1>1, <1>2, <1>8, <2>1, RunFlags DEF LoopOperates, LoopStates
<1>9. CASE Operate("reap") /\ status = "running"
           /\ status' = Ended /\ flags' = FlagsAfter
           /\ holds' = FALSE /\ UNCHANGED <<stored, erased>>
  <2>1. "reap" \in Ops /\ status' \in LoopStates /\ status' # "completed"
    BY <1>9 DEF Operate, Ended, LoopStates
  <2>2. flags' \in LoopFlags /\ (flags'.cancel => flags.cancel)
    BY <1>2, <1>9, RunFlags DEF FlagsAfter
  <2>3. QED
    BY <1>1, <1>2, <1>9, <2>1, <2>2 DEF LoopOperates
<1>10. QED
  BY <1>1, <1>2, <1>4, <1>5, <1>6, <1>7, <1>8, <1>9
     DEF OperatorAsks, None, RoundNos

\* A step of the run is one of its moves.
LEMMA RunMoves ==
    ASSUME RunAssumption, LoopTypes, faults \in Nat, crashes \in Nat, Next
    PROVE  /\ LoopMoves
           /\ faults' \in Nat /\ crashes' \in Nat
<1>1. CASE Claim
  BY <1>1, RunClaims DEF LoopMoves, Claim
<1>2. CASE Stop
  BY <1>2 DEF LoopMoves, LoopStops, Stop, server, disk, bounds
<1>3. CASE Finish
  BY <1>3, RunFinishes DEF LoopMoves, Finish
<1>4. CASE Crash
  BY <1>4, RunCrashes DEF LoopMoves, Crash
<1>5. CASE Operator
  BY <1>5, RunOperates DEF LoopMoves
<1>6. ASSUME NEW m \in Models,
             \/ Step(m) \/ NotReady(m) \/ ProgressCheck(m) \/ Capture(m)
             \/ CaptureFails(m) \/ BatchPublish(m) \/ BatchReturn(m)
      PROVE  LoopMoves /\ faults' \in Nat /\ crashes' \in Nat
  <2>1. LoopThreads /\ faults' \in Nat
    BY <1>6, RunThreads
  <2>2. crashes' = crashes
    BY <1>6 DEF Step, NotReady, ProgressCheck, Capture, CaptureFails,
       BatchPublish, BatchReturn, Begin, Round, Control, AppendRecord,
       Submit, MarkSubmitted, BatchCheck, Fallback, ReplayCheck,
       CollectCheck, RetryCheck, bounds
  <2>3. QED
    BY <2>1, <2>2 DEF LoopMoves
<1>7. QED
  BY <1>1, <1>2, <1>3, <1>4, <1>5, <1>6 DEF Next

LEMMA RunStarts ==
    ASSUME RunAssumption, Init
    PROVE  /\ LoopTypes /\ faults \in Nat /\ crashes \in Nat
           /\ status = "queued" /\ ~flags.cancel /\ run = "poll" /\ ~torn /\ ~stopped
           /\ \A m \in Models : th[m].at = "idle" /\ erased[m] = {} /\ answers[m] = 0
           /\ \A m \in Models, r \in 1..Rounds : stored[m][r] = 0 /\ spool[m][r] = 0
<1> USE DEF Init
<1>1. /\ status \in LoopStates /\ flags \in LoopFlags /\ ~flags.cancel
      /\ holds \in BOOLEAN /\ torn \in BOOLEAN /\ stopped \in BOOLEAN /\ run \in {"poll", "running"}
  BY RunFlags DEF LoopStates
<1>2. /\ \A m \in Models, r \in 1..Rounds : stored[m][r] = 0 /\ spool[m][r] = 0
      /\ stored \in [Models -> [1..Rounds -> Nat]] /\ spool \in [Models -> [1..Rounds -> Nat]]
  BY DEF Empty, RoundNos, None
<1>3. /\ th \in [Models -> LoopThread] /\ \A m \in Models : th[m].at = "idle"
  BY RunRests
<1>4. /\ erased \in [Models -> SUBSET Nat] /\ answers \in [Models -> Nat]
      /\ \A m \in Models : erased[m] = {} /\ answers[m] = 0
  OBVIOUS
<1>5. QED
  BY <1>1, <1>2, <1>3, <1>4 DEF LoopTypes

-----------------------------------------------------------------------------
(* A daily monitor. What a thread passed over the server has; who went      *)
(* through to the end has the model whole, unless somebody was stopped, and *)
(* then somebody did not end well.                                          *)

\* A daily monitor, which nobody cancels or deletes from.
MonitorCase == Kind = "paid_monitor" /\ "cancel" \notin Ops /\ "delete" \notin Ops

Whole(m) == \A q \in 1..Rounds : stored[m][q] # 0
Passing == {"round", "replay", "check", "collect", "append", "submit", "mark", "retry"}

\* The thread t of model m, and what the server has of the model.
ThreadWhole(m, t) ==
    /\ t.at \notin {"batch_check", "batch", "fallback"}
    /\ t.at # "idle" => \A q \in t.completed : stored[m][q] # 0
    /\ t.at = "begin" => t.r = 1 /\ t.how # "batch"
    /\ t.at \in Passing => t.how # "batch"
    /\ t.at \in Passing => \A q \in 1..Rounds : q < t.r => stored[m][q] # 0
    /\ t.at \in {"replay", "append", "submit"} => t.answer # 0
    /\ t.at = "mark" => stored[m][t.r] # 0
    /\ t.at = "ended" /\ t.outcome = "ok" => Whole(m) \/ stopped
MonitorWhole ==
    /\ ~flags.cancel
    /\ \A m \in Models : ThreadWhole(m, th[m])
    /\ run = "poll" => \A m \in Models : th[m].at = "idle"
    /\ stopped /\ run = "running"
       => \E m \in Models : th[m].at = "ended" /\ th[m].outcome # "ok"
    /\ status = "completed" => \A m \in Models : Whole(m)

LEMMA WorkWhole ==
    ASSUME RunAssumption, MonitorCase, LoopTypes, LoopTypes', MonitorWhole,
           NEW m \in Models, NEW u \in LoopThread,
           th' = [th EXCEPT ![m] = u] /\ UNCHANGED <<flags, stopped>>
           /\ LoopWorks(m, th[m], u)
    PROVE  /\ \A i \in Models, q \in 1..Rounds : stored[i][q] # 0 => stored'[i][q] # 0
           /\ ThreadWhole(m, u)'
<1> Rounds \in Nat \ {0} /\ Kind = "paid_monitor"
  BY RunSizes DEF MonitorCase
<1>1. PICK t \in LoopThread : t = th[m]
  BY DEF LoopTypes
<1>2. /\ t.r \in 1..Rounds /\ t.answer \in Nat /\ t.completed \subseteq 1..Rounds
      /\ u.r \in 1..Rounds /\ u.answer \in Nat /\ u.completed \subseteq 1..Rounds
  BY DEF LoopThread
<1>3. ThreadWhole(m, t) /\ ~flags.cancel
  BY <1>1 DEF MonitorWhole
<1>4. LoopWorks(m, t, u)
  BY <1>1
<1>5. t.at \in LoopPlaces /\ u.at \in LoopPlaces /\ t.how \in LoopWays
  BY DEF LoopThread
<1> USE DEF ThreadWhole, Passing
<1>6. CASE UNCHANGED stored
  <2>0. /\ \A i \in Models, q \in 1..Rounds : stored[i][q] # 0 => stored'[i][q] # 0
        /\ ThreadWhole(m, u) => ThreadWhole(m, u)'
    BY <1>6 DEF Whole
  <2>10. SUFFICES ThreadWhole(m, u)
    BY <2>0
  <2>1. CASE LoopChecks(t, u)
    BY <1>2, <1>3, <2>1
       DEF LoopChecks, Checkings, Stops, FallsBack, Falls, FallsAs, Stays, Kept
  <2>2. CASE LoopBegins(t, u)
    <3>1. t.completed = 1..Rounds => Whole(m)
      BY <1>3, <2>2 DEF LoopBegins, Whole
    <3>2. t.r = 1 /\ t.at = "begin"
      BY <1>3, <2>2 DEF LoopBegins
    <3>3. QED
      BY <1>2, <1>3, <2>2, <3>1, <3>2 DEF LoopBegins, Stops, Stays, Kept
  <2>3. CASE LoopCaptures(m, t, u)
    BY <1>2, <1>3, <2>3
       DEF LoopCaptures, Stops, FallsBack, FallsAs, Kept
  <2>4. CASE LoopReturns(t, u)
    BY <1>3, <2>4 DEF LoopReturns
  <2>5. CASE LoopRoundOf(m, t, u)
    <3>1. CASE \A q \in 1..Rounds : q >= t.r => q \in t.completed
      <4>1. Whole(m)
        BY <1>2, <1>3, <2>5, <3>1 DEF LoopRoundOf, Whole
      <4>2. QED
        BY <1>2, <1>3, <2>5, <4>1 DEF LoopRoundOf, Kept, Whole
    <3>2. CASE ~\A q \in 1..Rounds : q >= t.r => q \in t.completed
      <4>1. CASE u.at = "ended"
        BY <1>2, <1>3, <2>5, <3>2, <4>1 DEF LoopRoundOf, Kept
      <4>2. CASE u.at # "ended"
        <5>1. \A q \in 1..Rounds : q < u.r => stored[m][q] # 0
          BY <1>2, <1>3, <2>5, <4>2 DEF LoopRoundOf
        <5>2. QED
          BY <1>2, <1>3, <2>5, <4>2, <5>1 DEF LoopRoundOf, Kept
      <4>3. QED
        BY <4>1, <4>2
    <3>3. QED
      BY <3>1, <3>2
  <2>6. CASE LoopAppends(m, t, u)
    BY <1>2, <1>3, <2>6 DEF LoopAppends, Stays, Kept
  <2>7. CASE LoopSubmits(m, t, u)
    <3>1. CASE Falls(t, u)
      BY <1>2, <1>3, <2>7, <3>1
         DEF LoopSubmits, Falls, FallsAs, FallsBack, Stops, Kept
    <3>2. CASE ~Falls(t, u)
      <4>1. stored[m][t.r] # 0
        <5>1. holds /\ Stays(t, u) /\ u.at = "mark" /\ t.answer # 0
          BY <1>3, <2>7, <3>2 DEF LoopSubmits
        <5>2. SUFFICES ASSUME stored[m][t.r] = 0 PROVE FALSE
          OBVIOUS
        <5>3. stored' = [stored EXCEPT ![m][t.r] = t.answer]
          BY <1>3, <2>7, <3>2, <5>2 DEF LoopSubmits
        <5>4. stored'[m][t.r] = t.answer
          BY <1>2, <5>3 DEF LoopTypes
        <5>5. QED
          BY <1>6, <5>1, <5>2, <5>4
      <4>2. QED
        BY <1>2, <1>3, <2>7, <3>2, <4>1 DEF LoopSubmits, Stays, Kept
    <3>3. QED
      BY <3>1, <3>2
  <2>8. CASE LoopMarks(m, t, u)
    <3>1. \A q \in u.completed : stored[m][q] # 0
      BY <1>3, <2>8 DEF LoopMarks
    <3>2. \A q \in 1..Rounds : q <= t.r => stored[m][q] # 0
      BY <1>2, <1>3, <2>8 DEF LoopMarks
    <3>3. t.r = Rounds => Whole(m)
      BY <3>2 DEF Whole
    <3>4. QED
      BY <1>2, <1>3, <2>8, <3>1, <3>2, <3>3 DEF LoopMarks
  <2>9. QED
    BY <1>4, <2>1, <2>2, <2>3, <2>4, <2>5, <2>6, <2>7, <2>8 DEF LoopWorks
<1>7. CASE ~UNCHANGED stored
  <2>1. LoopSubmits(m, t, u)
    BY <1>4, <1>7 DEF LoopWorks, LoopChecks, LoopBegins, LoopCaptures, LoopReturns, LoopRoundOf,
       LoopAppends, LoopMarks
  <2>2. stored' = [stored EXCEPT ![m][t.r] = t.answer] /\ t.answer # 0 /\ t.at = "submit"
    BY <1>3, <1>7, <2>1 DEF LoopSubmits
  <2>3. \A i \in Models, q \in 1..Rounds :
           stored'[i][q] = IF i = m /\ q = t.r THEN t.answer ELSE stored[i][q]
    BY <1>2, <2>2 DEF LoopTypes
  <2>4. \A i \in Models, q \in 1..Rounds : stored[i][q] # 0 => stored'[i][q] # 0
    BY <2>2, <2>3
  <2>5. stored'[m][t.r] # 0
    BY <1>2, <2>2, <2>3
  <2>6. \/ Stays(t, u) /\ u.at = "mark"
        \/ Falls(t, u)
    BY <2>1 DEF LoopSubmits
  <2>7. CASE Stays(t, u) /\ u.at = "mark"
    BY <1>2, <1>3, <2>2, <2>4, <2>5, <2>7 DEF Stays, Kept
  <2>8. CASE Falls(t, u)
    BY <1>2, <1>3, <2>2, <2>4, <2>8 DEF Falls, FallsAs, FallsBack, Stops, Kept
  <2>9. QED
    BY <2>4, <2>6, <2>7, <2>8
<1>8. QED
  BY <1>6, <1>7

LEMMA MonitorKept ==
    ASSUME RunAssumption, MonitorCase, LoopTypes, MonitorWhole, LoopMoves
    PROVE  MonitorWhole'
<1>0. LoopTypes'
  BY LoopTyped
<1>1. CASE LoopThreads
  <2>1. PICK m \in Models, u \in LoopThread :
           /\ th' = [th EXCEPT ![m] = u]
           /\ LoopWorks(m, th[m], u)
    BY <1>1 DEF LoopThreads
  <2>2. UNCHANGED <<status, flags, run, stopped>>
    BY <1>1 DEF LoopThreads
  <2>3. /\ \A i \in Models, q \in 1..Rounds : stored[i][q] # 0 => stored'[i][q] # 0
        /\ ThreadWhole(m, u)'
    BY <1>0, <2>1, <2>2, WorkWhole
  <2>4. u' = u
    OBVIOUS
  <2>5. \A i \in Models : th'[i] = IF i = m THEN u ELSE th[i]
    BY <2>1 DEF LoopTypes
  <2>6. ASSUME NEW i \in Models PROVE ThreadWhole(i, th[i])'
    <3>1. CASE i = m
      BY <2>3, <2>5, <3>1 DEF ThreadWhole, Whole
    <3>2. CASE i # m
      <4>1. ThreadWhole(i, th[i]) /\ th'[i] = th[i] /\ stopped' = stopped
        BY <2>2, <2>5, <3>2 DEF MonitorWhole
      <4>2. th[i].r \in 1..Rounds /\ th[i].completed \subseteq 1..Rounds
        BY DEF LoopTypes, LoopThread
      <4>3. QED
        BY <2>3, <4>1, <4>2 DEF ThreadWhole, Whole
    <3>3. QED
      BY <3>1, <3>2
  <2>7. th[m].at \notin {"idle", "ended"}
    BY <2>1 DEF LoopWorks, LoopChecks, Checkings, LoopBegins, LoopCaptures, LoopReturns,
       LoopRoundOf, LoopAppends, LoopSubmits, LoopMarks
  <2>8. run = "running"
    BY <2>7 DEF MonitorWhole, LoopTypes
  <2>9. stopped' => \E i \in Models : th'[i].at = "ended" /\ th'[i].outcome # "ok"
    BY <2>2, <2>5, <2>7, <2>8 DEF MonitorWhole
  <2>10. status' = "completed" => \A i \in Models : Whole(i)'
    BY <2>2, <2>3 DEF MonitorWhole, Whole
  <2>11. QED
    BY <2>2, <2>6, <2>8, <2>9, <2>10 DEF MonitorWhole
<1>2. CASE LoopClaims
  <2>1. stored' = stored /\ ~flags'.cancel /\ status' # "completed"
    BY <1>2 DEF LoopClaims, MonitorWhole
  <2>2. CASE UNCHANGED <<run, stopped, holds, th>>
    BY <1>2, <2>1, <2>2 DEF MonitorWhole, ThreadWhole, Whole
  <2>3. CASE ~UNCHANGED <<run, stopped, holds, th>>
    <3>1. /\ run' = "running" /\ stopped' = FALSE
          /\ \A m \in Models : /\ th'[m].at = "begin" /\ th'[m].r = 1 /\ th'[m].how = "serial"
                          /\ th'[m].completed = {r \in 1..Rounds : stored[m][r] # 0}
      BY <1>2, <2>3 DEF LoopClaims
    <3>2. \A m \in Models : ThreadWhole(m, th[m])'
      BY <2>1, <3>1 DEF ThreadWhole, Passing
    <3>3. QED
      BY <2>1, <3>1, <3>2 DEF MonitorWhole
  <2>4. QED
    BY <2>2, <2>3
<1>3. CASE LoopStops
  <2>1. \A m \in Models : ThreadWhole(m, th[m])'
    BY <1>3 DEF LoopStops, MonitorWhole, ThreadWhole, Whole
  <2>2. QED
    BY <1>3, <2>1 DEF LoopStops, MonitorWhole, Whole
<1>4. CASE LoopFinishes
  <2>1. status' = "completed" => \A m \in Models : Whole(m)
    <3>1. SUFFICES ASSUME \A m \in Models : th[m].outcome = "ok" PROVE \A m \in Models : Whole(m)
      BY <1>4 DEF LoopFinishes, MonitorWhole
    <3>2. ~stopped
      BY <1>4, <3>1 DEF LoopFinishes, MonitorWhole
    <3>3. QED
      BY <1>4, <3>1, <3>2 DEF LoopFinishes, MonitorWhole, ThreadWhole
  <2>2. \A m \in Models : ThreadWhole(m, th[m])'
    BY <1>4 DEF LoopFinishes, LoopIdle, ThreadWhole, Passing
  <2>3. QED
    BY <1>4, <2>1, <2>2 DEF LoopFinishes, LoopIdle, MonitorWhole, Whole
<1>5. CASE LoopCrashes
  <2>1. \A m \in Models : ThreadWhole(m, th[m])'
    BY <1>5 DEF LoopCrashes, LoopIdle, ThreadWhole, Passing
  <2>2. QED
    BY <1>5, <2>1 DEF LoopCrashes, LoopIdle, MonitorWhole, Whole
<1>6. CASE LoopOperates
  <2>1. stored' = stored /\ ~flags'.cancel
    BY <1>6 DEF LoopOperates, MonitorCase, MonitorWhole
  <2>2. QED
    BY <1>6, <2>1 DEF LoopOperates, MonitorWhole, ThreadWhole, Whole
<1>7. QED
  BY <1>1, <1>2, <1>3, <1>4, <1>5, <1>6 DEF LoopMoves

-----------------------------------------------------------------------------
(* Collectors that return old conversations. A thread has seen whatever the *)
(* server has of its model, but for the answer in hand once it was sent;    *)
(* what it has not seen is no copy of anything stored.                      *)

\* A run that loses nothing; operators pause, resume and delete.
StaleCase == ~Lossy /\ Ops \subseteq {"pause", "resume", "delete"}

ThreadSeen(m, t) ==
    /\ t.at # "idle" => \A q \in 1..Rounds :
          stored[m][q] # 0 => \/ stored[m][q] \in t.seen
                              \/ t.at = "mark" /\ stored[m][q] = t.answer
    /\ t.at \in {"append", "submit"} => t.answer \notin t.seen /\ t.answer # 0
    /\ t.at \in {"append", "submit", "mark"} => t.how # "replay"
    /\ t.at # "replay"
    /\ \A q \in 1..Rounds : spool[m][q] # 0 => t.at \in {"submit", "mark"} /\ t.r = q
StaleSeen ==
    /\ ~flags.cancel /\ ~torn
    /\ run = "running" => holds /\ status = "running"
    /\ \A m \in Models : ThreadSeen(m, th[m])
    /\ run = "poll" => \A m \in Models : th[m].at = "idle"
    /\ \A m \in Models, r, q \in 1..Rounds : stored[m][r] = stored[m][q] /\ stored[m][r] # 0 => r = q

LEMMA WorkSeen ==
    ASSUME RunAssumption, StaleCase, LoopTypes, LoopTypes', StaleSeen,
           NEW m \in Models, NEW u \in LoopThread,
           th' = [th EXCEPT ![m] = u] /\ UNCHANGED <<flags, holds, run>>
           /\ LoopWorks(m, th[m], u)
    PROVE  /\ ThreadSeen(m, u)' /\ ~torn'
           /\ \A i \in Models \ {m}, q \in 1..Rounds : stored'[i][q] = stored[i][q] /\ spool'[i][q] = spool[i][q]
           /\ \A r, q \in 1..Rounds : stored'[m][r] = stored'[m][q] /\ stored'[m][r] # 0 => r = q
<1> Rounds \in Nat \ {0} /\ ~Lossy
  BY RunSizes DEF StaleCase
<1>1. PICK t \in LoopThread : t = th[m]
  BY DEF LoopTypes
<1>2. /\ t.r \in 1..Rounds /\ t.answer \in Nat /\ t.seen \subseteq Nat
      /\ u.r \in 1..Rounds /\ u.answer \in Nat /\ u.seen \subseteq Nat
  BY DEF LoopThread
<1>3. /\ ThreadSeen(m, t) /\ ~flags.cancel /\ ~torn
      /\ \A r, q \in 1..Rounds : stored[m][r] = stored[m][q] /\ stored[m][r] # 0 => r = q
  BY <1>1 DEF StaleSeen
<1>4. LoopWorks(m, t, u)
  BY <1>1
<1>5. t.at \notin {"idle", "ended"}
  BY <1>4 DEF LoopWorks, LoopChecks, Checkings, LoopBegins, LoopCaptures, LoopReturns,
     LoopRoundOf, LoopAppends, LoopSubmits, LoopMarks
<1>6. holds
  BY <1>1, <1>5 DEF StaleSeen, LoopTypes
<1>7. CASE UNCHANGED <<stored, spool, torn>>
  <2>0. ThreadSeen(m, u) => ThreadSeen(m, u)'
    BY <1>7 DEF ThreadSeen
  <2>10. SUFFICES ThreadSeen(m, u)
    BY <1>3, <1>7, <2>0
  <2>1. CASE LoopChecks(t, u)
    BY <1>3, <2>1 DEF LoopChecks, Checkings, Stops, FallsBack, Falls, FallsAs, Stays, Kept,
       ThreadSeen
  <2>2. CASE LoopBegins(t, u)
    BY <1>3, <2>2 DEF LoopBegins, Stops, Stays, Kept, ThreadSeen
  <2>3. CASE LoopCaptures(m, t, u)
    BY <1>3, <2>3 DEF LoopCaptures, Stops, FallsBack, FallsAs, Kept, ThreadSeen
  <2>4. CASE LoopReturns(t, u)
    BY <1>3, <2>4 DEF LoopReturns, Kept, ThreadSeen
  <2>5. CASE LoopRoundOf(m, t, u)
    <3>1. \A q \in 1..Rounds : spool[m][q] = 0
      BY <1>3, <2>5 DEF LoopRoundOf, ThreadSeen
    <3>2. u.at \in {"check", "ended"}
      BY <1>2, <2>5, <3>1 DEF LoopRoundOf
    <3>3. QED
      BY <1>3, <2>5, <3>1, <3>2 DEF LoopRoundOf, Kept, ThreadSeen
  <2>6. CASE LoopAppends(m, t, u)
    <3>1. t.answer = 0
      <4>1. spool' = [spool EXCEPT ![m][t.r] = t.answer]
        BY <1>3, <2>6 DEF LoopAppends
      <4>2. spool'[m][t.r] = t.answer /\ spool[m][t.r] = 0
        BY <1>2, <1>3, <2>6, <4>1 DEF LoopTypes, LoopAppends, ThreadSeen
      <4>3. QED
        BY <1>7, <4>2
    <3>2. QED
      BY <1>3, <2>6, <3>1 DEF LoopAppends, ThreadSeen
  <2>7. CASE LoopSubmits(m, t, u)
    BY <1>3, <1>6, <2>7 DEF LoopSubmits, Stays, Kept, ThreadSeen
  <2>8. CASE LoopMarks(m, t, u)
    <3>1. spool[m][t.r] = 0
      <4>1. spool' = [spool EXCEPT ![m][t.r] = 0]
        BY <1>3, <2>8 DEF LoopMarks
      <4>2. spool'[m][t.r] = 0
        BY <1>2, <4>1 DEF LoopTypes
      <4>3. QED
        BY <1>7, <4>2
    <3>2. \A q \in 1..Rounds : spool[m][q] = 0
      BY <1>3, <2>8, <3>1 DEF LoopMarks, ThreadSeen
    <3>3. u.seen = t.seen \cup {t.answer}
      BY <1>3, <2>8 DEF LoopMarks, ThreadSeen
    <3>4. QED
      BY <1>3, <2>8, <3>2, <3>3 DEF LoopMarks, ThreadSeen
  <2>9. QED
    BY <1>4, <2>1, <2>2, <2>3, <2>4, <2>5, <2>6, <2>7, <2>8 DEF LoopWorks
<1>8. CASE ~UNCHANGED <<stored, spool, torn>>
  <2>1. LoopAppends(m, t, u) \/ LoopSubmits(m, t, u) \/ LoopMarks(m, t, u)
    BY <1>4, <1>8 DEF LoopWorks, LoopChecks, LoopBegins, LoopCaptures, LoopReturns, LoopRoundOf
  <2>2. CASE LoopAppends(m, t, u)
    <3>1. /\ spool' = [spool EXCEPT ![m][t.r] = t.answer] /\ stored' = stored
          /\ torn' = FALSE /\ t.at = "append" /\ u.at = "submit" /\ Stays(t, u)
      BY <1>3, <2>2 DEF LoopAppends
    <3>2. \A i \in Models, q \in 1..Rounds :
             spool'[i][q] = IF i = m /\ q = t.r THEN t.answer ELSE spool[i][q]
      BY <1>2, <3>1 DEF LoopTypes
    <3>3. \A q \in 1..Rounds : spool[m][q] = 0
      BY <1>3, <3>1 DEF ThreadSeen
    <3>4. ThreadSeen(m, u)'
      BY <1>2, <1>3, <3>1, <3>2, <3>3 DEF ThreadSeen, Stays, Kept
    <3>5. QED
      BY <1>3, <3>1, <3>2, <3>4
  <2>3. CASE LoopSubmits(m, t, u)
    <3>1. /\ stored' = [stored EXCEPT ![m][t.r] = t.answer] /\ stored[m][t.r] = 0
          /\ UNCHANGED <<spool, torn>> /\ t.at = "submit" /\ u.at = "mark" /\ Stays(t, u)
      BY <1>3, <1>6, <1>8, <2>3 DEF LoopSubmits
    <3>2. \A i \in Models, q \in 1..Rounds :
             stored'[i][q] = IF i = m /\ q = t.r THEN t.answer ELSE stored[i][q]
      BY <1>2, <3>1 DEF LoopTypes
    <3>3. ThreadSeen(m, u)'
      BY <1>2, <1>3, <3>1, <3>2 DEF ThreadSeen, Stays, Kept
    <3>4. \A q \in 1..Rounds : stored[m][q] # 0 => stored[m][q] # t.answer
      BY <1>3, <3>1 DEF ThreadSeen
    <3>5. \A r, q \in 1..Rounds : stored'[m][r] = stored'[m][q] /\ stored'[m][r] # 0 => r = q
      BY <1>2, <1>3, <3>1, <3>2, <3>4
    <3>6. QED
      BY <1>3, <3>1, <3>2, <3>3, <3>5
  <2>4. CASE LoopMarks(m, t, u)
    <3>1. /\ spool' = [spool EXCEPT ![m][t.r] = 0] /\ stored' = stored
          /\ torn' = FALSE /\ t.at = "mark"
      BY <1>3, <2>4 DEF LoopMarks
    <3>2. \A i \in Models, q \in 1..Rounds :
             spool'[i][q] = IF i = m /\ q = t.r THEN 0 ELSE spool[i][q]
      BY <1>2, <3>1 DEF LoopTypes
    <3>3. \A q \in 1..Rounds : spool'[m][q] = 0
      BY <1>3, <3>1, <3>2 DEF ThreadSeen
    <3>4. u.seen = t.seen \cup {t.answer} /\ u.at \in {"batch", "ended", "round"}
      BY <1>3, <2>4 DEF LoopMarks, ThreadSeen
    <3>5. ThreadSeen(m, u)'
      BY <1>3, <3>1, <3>3, <3>4 DEF ThreadSeen
    <3>6. QED
      BY <1>3, <3>1, <3>2, <3>5
  <2>5. QED
    BY <2>1, <2>2, <2>3, <2>4
<1>9. QED
  BY <1>7, <1>8

LEMMA SeenKept ==
    ASSUME RunAssumption, StaleCase, LoopTypes, StaleSeen, LoopMoves
    PROVE  StaleSeen'
<1>0. LoopTypes'
  BY LoopTyped
<1>1. CASE LoopThreads
  <2>1. PICK m \in Models, u \in LoopThread :
           /\ th' = [th EXCEPT ![m] = u]
           /\ LoopWorks(m, th[m], u)
    BY <1>1 DEF LoopThreads
  <2>2. UNCHANGED <<status, flags, holds, run, stopped>>
    BY <1>1 DEF LoopThreads
  <2>3. /\ ThreadSeen(m, u)' /\ ~torn'
        /\ \A i \in Models \ {m}, q \in 1..Rounds : stored'[i][q] = stored[i][q] /\ spool'[i][q] = spool[i][q]
        /\ \A r, q \in 1..Rounds : stored'[m][r] = stored'[m][q] /\ stored'[m][r] # 0 => r = q
    <3>1. /\ th' = [th EXCEPT ![m] = u] /\ UNCHANGED <<flags, holds, run>>
          /\ LoopWorks(m, th[m], u)
      BY <2>1, <2>2
    <3>2. QED
      BY <1>0, <3>1, WorkSeen
  <2>4. \A i \in Models : th'[i] = IF i = m THEN u ELSE th[i]
    BY <2>1 DEF LoopTypes
  <2>5. ASSUME NEW i \in Models PROVE ThreadSeen(i, th[i])'
    <3>1. CASE i = m
      BY <2>3, <2>4, <3>1 DEF ThreadSeen
    <3>2. CASE i # m
      BY <2>3, <2>4, <3>2 DEF StaleSeen, ThreadSeen
    <3>3. QED
      BY <3>1, <3>2
  <2>6. th[m].at # "idle"
    BY <2>1 DEF LoopWorks, LoopChecks, Checkings, LoopBegins, LoopCaptures, LoopReturns,
       LoopRoundOf, LoopAppends, LoopSubmits, LoopMarks
  <2>7. run = "running"
    BY <2>6 DEF StaleSeen, LoopTypes
  <2>8. \A i \in Models, r, q \in 1..Rounds : stored'[i][r] = stored'[i][q] /\ stored'[i][r] # 0 => r = q
    BY <2>3 DEF StaleSeen
  <2>9. QED
    BY <2>2, <2>3, <2>5, <2>7, <2>8 DEF StaleSeen
<1>2. CASE LoopClaims
  <2>1. UNCHANGED <<stored, spool, torn>> /\ ~flags'.cancel /\ run = "poll"
    BY <1>2 DEF LoopClaims, StaleSeen
  <2>2. CASE UNCHANGED <<run, stopped, holds, th>>
    BY <2>1, <2>2 DEF StaleSeen, ThreadSeen
  <2>3. CASE ~UNCHANGED <<run, stopped, holds, th>>
    <3>1. /\ run' = "running" /\ holds' = TRUE /\ status' = "running"
          /\ \A m \in Models :
                /\ th'[m].at = "begin"
                /\ th'[m].seen = {stored[m][r] : r \in {q \in 1..Rounds : stored[m][q] # 0}}
      BY <1>2, <2>3 DEF LoopClaims
    <3>2. \A m \in Models, q \in 1..Rounds : spool[m][q] = 0
      BY <2>1 DEF StaleSeen, ThreadSeen
    <3>3. \A m \in Models : ThreadSeen(m, th[m])'
      BY <2>1, <3>1, <3>2 DEF ThreadSeen
    <3>4. QED
      BY <2>1, <3>1, <3>3 DEF StaleSeen
  <2>4. QED
    BY <2>2, <2>3
<1>3. CASE LoopStops
  BY <1>3 DEF LoopStops, StaleSeen, ThreadSeen
<1>4. CASE LoopFinishes
  <2>1. \A m \in Models, q \in 1..Rounds : spool[m][q] = 0
    BY <1>4 DEF LoopFinishes, StaleSeen, ThreadSeen
  <2>2. \A m \in Models : ThreadSeen(m, th[m])'
    BY <1>4, <2>1 DEF LoopFinishes, LoopIdle, ThreadSeen
  <2>3. QED
    BY <1>4, <2>2 DEF LoopFinishes, LoopIdle, StaleSeen
<1>5. CASE LoopCrashes
  BY <1>5 DEF LoopCrashes, StaleCase
<1>6. CASE LoopOperates
  <2>1. /\ ~flags'.cancel /\ UNCHANGED <<spool, torn, run, th>> /\ holds' = holds
        /\ run = "running" => status' = "running"
    BY <1>6 DEF LoopOperates, StaleCase, StaleSeen
  <2>2. CASE UNCHANGED stored
    BY <2>1, <2>2 DEF StaleSeen, ThreadSeen
  <2>3. CASE ~UNCHANGED stored
    <3>1. /\ status # "running"
          /\ \E m \in Models, r \in 1..Rounds : stored' = [stored EXCEPT ![m][r] = 0]
      BY <1>6, <2>3 DEF LoopOperates
    <3>2. PICK m \in Models, r \in 1..Rounds : stored' = [stored EXCEPT ![m][r] = 0]
      BY <3>1
    <3>3. \A i \in Models, q \in 1..Rounds : stored'[i][q] = IF i = m /\ q = r THEN 0 ELSE stored[i][q]
      BY <3>2 DEF LoopTypes
    <3>4. run = "poll"
      BY <3>1 DEF StaleSeen, LoopTypes
    <3>5. \A i \in Models : ThreadSeen(i, th[i])'
      BY <2>1, <3>4 DEF StaleSeen, ThreadSeen
    <3>6. \A i \in Models, p, q \in 1..Rounds : stored'[i][p] = stored'[i][q] /\ stored'[i][p] # 0 => p = q
      BY <3>3 DEF StaleSeen
    <3>7. QED
      BY <2>1, <3>4, <3>5, <3>6 DEF StaleSeen
  <2>4. QED
    BY <2>2, <2>3
<1>7. QED
  BY <1>1, <1>2, <1>3, <1>4, <1>5, <1>6 DEF LoopMoves
-----------------------------------------------------------------------------
(* Answers that were deleted. An answer has gone when the server has or had *)
(* it; of those in the spool only the one about to be marked has, and the   *)
(* answer a thread is going to send has not.                                *)

\* A run that loses nothing and collects new conversations.
FreshCase == ~Lossy /\ ~Stale

Gone(m, a) == a \in erased[m] \/ \E q \in 1..Rounds : stored[m][q] = a

\* The tables of model m, and what its thread t has in hand.
TablesFresh(m) ==
    /\ \A a \in erased[m] : a # 0 /\ a <= answers[m]
    /\ \A r \in 1..Rounds :
          stored[m][r] <= answers[m] /\ spool[m][r] <= answers[m] /\ stored[m][r] \notin erased[m]
    /\ \A r, q \in 1..Rounds : stored[m][r] = stored[m][q] /\ stored[m][r] # 0 => r = q
    /\ \A r, q \in 1..Rounds : spool[m][r] = spool[m][q] /\ spool[m][r] # 0 => r = q
ThreadFresh(m, t) ==
    /\ \A r \in 1..Rounds :
          spool[m][r] # 0 /\ Gone(m, spool[m][r]) => t.at = "mark" /\ t.r = r
    /\ t.at \in {"append", "replay", "submit"}
       => t.answer # 0 /\ t.answer <= answers[m] /\ ~Gone(m, t.answer)
    /\ t.at = "append" => \A q \in 1..Rounds : spool[m][q] # t.answer
    /\ t.at \in {"replay", "submit"} => \A q \in 1..Rounds : spool[m][q] = t.answer => q = t.r
RoundFresh ==
    /\ ~torn
    /\ \A m \in Models : TablesFresh(m) /\ ThreadFresh(m, th[m])
    /\ run = "poll" => \A m \in Models : th[m].at = "idle"

LEMMA WorkFresh ==
    ASSUME RunAssumption, FreshCase, LoopTypes, LoopTypes', ~torn, erased' = erased,
           NEW m \in Models, NEW t \in LoopThread, NEW u \in LoopThread,
           TablesFresh(m) /\ ThreadFresh(m, t) /\ LoopWorks(m, t, u)
    PROVE  /\ ~torn' /\ TablesFresh(m)' /\ ThreadFresh(m, u)'
           /\ \A i \in Models \ {m} :
                 stored'[i] = stored[i] /\ spool'[i] = spool[i] /\ answers'[i] = answers[i]
<1> Rounds \in Nat \ {0} /\ ~Lossy /\ ~Stale
  BY RunSizes DEF FreshCase
<1>1. /\ t.r \in 1..Rounds /\ t.answer \in Nat
      /\ u.r \in 1..Rounds /\ u.answer \in Nat
  BY DEF LoopThread
<1>2. answers[m] \in Nat /\ \A r \in 1..Rounds : stored[m][r] \in Nat /\ spool[m][r] \in Nat
  BY DEF LoopTypes
<1>3. ASSUME UNCHANGED <<stored, spool, torn, answers>>, ThreadFresh(m, u)
      PROVE  /\ ~torn' /\ TablesFresh(m)' /\ ThreadFresh(m, u)'
             /\ \A i \in Models \ {m} :
                   stored'[i] = stored[i] /\ spool'[i] = spool[i] /\ answers'[i] = answers[i]
  BY <1>3 DEF TablesFresh, ThreadFresh, Gone
<1>4. CASE LoopChecks(t, u)
  <2>1. ThreadFresh(m, u)
    BY <1>1, <1>4 DEF LoopChecks, Checkings, Stops, FallsBack, Falls, FallsAs, Stays, Kept, ThreadFresh
  <2>2. QED
    BY <1>3, <1>4, <2>1 DEF LoopChecks
<1>5. CASE LoopBegins(t, u)
  <2>1. ThreadFresh(m, u)
    BY <1>1, <1>5 DEF LoopBegins, Stops, Stays, Kept, ThreadFresh
  <2>2. QED
    BY <1>3, <1>5, <2>1 DEF LoopBegins
<1>6. CASE LoopReturns(t, u)
  <2>1. ThreadFresh(m, u)
    BY <1>1, <1>6 DEF LoopReturns, ThreadFresh
  <2>2. QED
    BY <1>3, <1>6, <2>1 DEF LoopReturns
<1>7. CASE LoopRoundOf(m, t, u)
  <2>1. \A r \in 1..Rounds : spool[m][r] # 0 => ~Gone(m, spool[m][r])
    BY <1>7 DEF LoopRoundOf, ThreadFresh
  <2>2. CASE u.at = "replay"
    <3>1. spool[m][u.r] # 0 /\ u.answer = spool[m][u.r]
      BY <1>7, <2>2 DEF LoopRoundOf
    <3>2. QED
      <4>1. ~Gone(m, u.answer) /\ u.answer <= answers[m]
        BY <1>1, <2>1, <3>1 DEF TablesFresh
      <4>2. \A q \in 1..Rounds : spool[m][q] = u.answer => q = u.r
        BY <1>1, <3>1 DEF TablesFresh
      <4>3. ThreadFresh(m, u)
        BY <2>1, <2>2, <3>1, <4>1, <4>2 DEF ThreadFresh
      <4>4. QED
        BY <1>3, <1>7, <4>3 DEF LoopRoundOf
  <2>3. CASE u.at # "replay"
    <3>1. ThreadFresh(m, u)
      BY <1>7, <2>1, <2>3 DEF LoopRoundOf, ThreadFresh
    <3>2. QED
      BY <1>3, <1>7, <3>1 DEF LoopRoundOf
  <2>4. QED
    BY <2>2, <2>3
<1>8. CASE LoopCaptures(m, t, u)
  <2>1. PICK a \in Nat \ {0}, r \in 1..Rounds, way \in {"serial", "batch"} :
           /\ a = answers[m] + 1 /\ answers' = [answers EXCEPT ![m] = a]
           /\ FallsAs(way, r, t, u) \/ (u.at = "append" /\ u.answer = a)
    BY <1>8 DEF LoopCaptures, LoopTakes
  <2>2. UNCHANGED <<stored, spool, torn>> /\ t.at \in {"batch", "collect"}
    BY <1>8 DEF LoopCaptures
  <2>3. /\ answers'[m] = a /\ a > answers[m]
        /\ \A i \in Models \ {m} : answers'[i] = answers[i]
    BY <1>2, <2>1 DEF LoopTypes
  <2>4. TablesFresh(m)'
    <3>1. \A x \in erased[m] : x \in Nat /\ x # 0 /\ x <= answers'[m]
      BY <1>2, <2>1, <2>3 DEF TablesFresh, LoopTypes
    <3>2. \A q \in 1..Rounds : stored[m][q] <= answers'[m] /\ spool[m][q] <= answers'[m]
      BY <1>2, <2>1, <2>3 DEF TablesFresh
    <3>3. QED
      BY <2>2, <3>1, <3>2 DEF TablesFresh
  <2>5. /\ ~Gone(m, a) /\ \A q \in 1..Rounds : spool[m][q] # a
    <3>1. \A x \in erased[m] : x # a
      BY <1>2, <2>1 DEF TablesFresh, LoopTypes
    <3>2. \A q \in 1..Rounds : stored[m][q] # a /\ spool[m][q] # a
      BY <1>2, <2>1 DEF TablesFresh
    <3>3. QED
      BY <3>1, <3>2 DEF Gone
  <2>6. \A q \in 1..Rounds : spool[m][q] # 0 => ~Gone(m, spool[m][q])
    BY <2>2 DEF ThreadFresh
  <2>7. \A x : Gone(m, x)' <=> Gone(m, x)
    BY <2>2 DEF Gone
  <2>8. u.at \in {"append", "fallback", "retry", "ended"} /\ (u.at = "append" => u.answer = a)
    BY <2>1 DEF FallsAs, FallsBack, Stops
  <2>9. ThreadFresh(m, u)'
    BY <2>1, <2>2, <2>3, <2>5, <2>6, <2>7, <2>8 DEF ThreadFresh
  <2>10. QED
    BY <2>2, <2>3, <2>4, <2>9
<1>9. CASE LoopAppends(m, t, u)
  <2>1. /\ spool' = [spool EXCEPT ![m][t.r] = t.answer] /\ UNCHANGED <<stored, answers>>
        /\ torn' = FALSE /\ t.at = "append" /\ u.at = "submit" /\ Stays(t, u)
    BY <1>9 DEF LoopAppends
  <2>2. /\ \A q \in 1..Rounds : spool'[m][q] = IF q = t.r THEN t.answer ELSE spool[m][q]
        /\ \A i \in Models \ {m} : spool'[i] = spool[i]
    BY <1>1, <2>1 DEF LoopTypes
  <2>3. /\ t.answer # 0 /\ t.answer <= answers[m] /\ ~Gone(m, t.answer)
        /\ \A q \in 1..Rounds : spool[m][q] # t.answer
        /\ \A q \in 1..Rounds : spool[m][q] # 0 => ~Gone(m, spool[m][q])
    BY <2>1 DEF ThreadFresh
  <2>4. \A x : Gone(m, x)' <=> Gone(m, x)
    BY <2>1 DEF Gone
  <2>5. TablesFresh(m)'
    <3>1. \A q \in 1..Rounds : spool'[m][q] <= answers[m]
      BY <2>2, <2>3 DEF TablesFresh
    <3>2. \A q, p \in 1..Rounds : spool'[m][q] = spool'[m][p] /\ spool'[m][q] # 0 => q = p
      BY <2>2, <2>3 DEF TablesFresh
    <3>3. QED
      BY <2>1, <3>1, <3>2 DEF TablesFresh
  <2>6. ThreadFresh(m, u)'
    <3>1. u.answer = t.answer /\ u.r = t.r
      BY <2>1 DEF Stays
    <3>2. \A q \in 1..Rounds : spool'[m][q] # 0 => ~Gone(m, spool'[m][q])
      BY <2>2, <2>3
    <3>3. \A q \in 1..Rounds : spool'[m][q] = u.answer => q = u.r
      BY <2>2, <2>3, <3>1
    <3>4. ~Gone(m, u.answer)' /\ \A q \in 1..Rounds : spool'[m][q] # 0 => ~Gone(m, spool[m][q])'
      BY <2>3, <2>4, <3>1, <3>2
    <3>5. QED
      BY <2>1, <2>3, <3>1, <3>3, <3>4 DEF ThreadFresh
  <2>7. QED
    BY <2>1, <2>2, <2>5, <2>6
<1>10. CASE LoopSubmits(m, t, u)
  <2>1. t.at = "submit" /\ UNCHANGED <<spool, torn, answers>>
    BY <1>10 DEF LoopSubmits
  <2>2. CASE UNCHANGED stored
    <3>1. u.at = "mark" \/ u.at \notin {"append", "replay", "submit"}
      BY <1>10 DEF LoopSubmits, Falls, FallsAs, FallsBack, Stops
    <3>2. ThreadFresh(m, u)
      BY <2>1, <3>1 DEF ThreadFresh
    <3>3. QED
      BY <1>3, <2>1, <2>2, <3>2
  <2>3. CASE ~UNCHANGED stored
    <3>1. /\ stored' = [stored EXCEPT ![m][t.r] = t.answer] /\ stored[m][t.r] = 0
          /\ u.at = "mark" /\ Stays(t, u)
      BY <1>10, <2>3 DEF LoopSubmits
    <3>2. /\ \A q \in 1..Rounds : stored'[m][q] = IF q = t.r THEN t.answer ELSE stored[m][q]
          /\ \A i \in Models \ {m} : stored'[i] = stored[i]
      BY <1>1, <3>1 DEF LoopTypes
    <3>3. /\ t.answer # 0 /\ t.answer <= answers[m] /\ ~Gone(m, t.answer)
          /\ \A q \in 1..Rounds : spool[m][q] = t.answer => q = t.r
          /\ \A q \in 1..Rounds : spool[m][q] # 0 => ~Gone(m, spool[m][q])
      BY <2>1 DEF ThreadFresh
    <3>4. \A x \in Nat : Gone(m, x)' => Gone(m, x) \/ x = t.answer
      BY <3>2 DEF Gone
    <3>5. TablesFresh(m)'
      <4>1. \A q \in 1..Rounds : stored'[m][q] <= answers[m] /\ stored'[m][q] \notin erased[m]
        BY <3>2, <3>3 DEF TablesFresh, Gone
      <4>2. \A q, p \in 1..Rounds : stored'[m][q] = stored'[m][p] /\ stored'[m][q] # 0 => q = p
        BY <3>2, <3>3 DEF TablesFresh, Gone
      <4>3. QED
        BY <2>1, <4>1, <4>2 DEF TablesFresh
    <3>6. ThreadFresh(m, u)'
      <4>1. u.r = t.r
        BY <3>1 DEF Stays
      <4>2. \A q \in 1..Rounds : spool[m][q] # 0 /\ Gone(m, spool[m][q])' => q = u.r
        <5>1. SUFFICES ASSUME NEW q \in 1..Rounds, spool[m][q] # 0, Gone(m, spool[m][q])'
                       PROVE  q = u.r
          OBVIOUS
        <5>2. PICK x \in Nat : x = spool[m][q]
          BY <1>2
        <5>3. Gone(m, x)'
          BY <2>1, <5>1, <5>2 DEF Gone
        <5>4. QED
          BY <3>3, <3>4, <4>1, <5>1, <5>2, <5>3
      <4>3. QED
        BY <2>1, <3>1, <4>2 DEF ThreadFresh
    <3>7. QED
      BY <2>1, <3>2, <3>5, <3>6
  <2>4. QED
    BY <2>2, <2>3
<1>11. CASE LoopMarks(m, t, u)
  <2>1. /\ spool' = [spool EXCEPT ![m][t.r] = 0] /\ UNCHANGED <<stored, answers>>
        /\ torn' = FALSE /\ t.at = "mark" /\ u.at \in {"batch", "ended", "round"}
    BY <1>11 DEF LoopMarks
  <2>2. /\ \A q \in 1..Rounds : spool'[m][q] = IF q = t.r THEN 0 ELSE spool[m][q]
        /\ \A i \in Models \ {m} : spool'[i] = spool[i]
    BY <1>1, <2>1 DEF LoopTypes
  <2>3. \A q \in 1..Rounds : spool'[m][q] # 0 => ~Gone(m, spool'[m][q])
    BY <2>2 DEF ThreadFresh
  <2>4. \A q \in 1..Rounds : spool'[m][q] # 0 => ~Gone(m, spool[m][q])'
    BY <2>1, <2>3 DEF Gone
  <2>5. TablesFresh(m)'
    <3>1. \A q \in 1..Rounds : spool'[m][q] <= answers[m]
      BY <1>2, <2>2 DEF TablesFresh
    <3>2. \A q, p \in 1..Rounds : spool'[m][q] = spool'[m][p] /\ spool'[m][q] # 0 => q = p
      BY <2>2 DEF TablesFresh
    <3>3. QED
      BY <2>1, <3>1, <3>2 DEF TablesFresh
  <2>6. ThreadFresh(m, u)'
    BY <2>1, <2>4 DEF ThreadFresh
  <2>7. QED
    BY <2>1, <2>2, <2>5, <2>6
<1>12. QED
  BY <1>4, <1>5, <1>6, <1>7, <1>8, <1>9, <1>10, <1>11 DEF LoopWorks

LEMMA FreshKept ==
    ASSUME RunAssumption, FreshCase, LoopTypes, RoundFresh, LoopMoves
    PROVE  RoundFresh'
<1>0. LoopTypes'
  BY LoopTyped
<1> Rounds \in Nat \ {0} /\ ~Lossy
  BY RunSizes DEF FreshCase
<1>1. CASE LoopThreads
  <2>1. PICK m \in Models, u \in LoopThread :
           th' = [th EXCEPT ![m] = u] /\ LoopWorks(m, th[m], u)
    BY <1>1 DEF LoopThreads
  <2>2. PICK t \in LoopThread : t = th[m]
    BY DEF LoopTypes
  <2>3. UNCHANGED <<status, flags, erased, holds, run, stopped>>
    BY <1>1 DEF LoopThreads
  <2>4. /\ ~torn' /\ TablesFresh(m)' /\ ThreadFresh(m, u)'
        /\ \A i \in Models \ {m} :
              stored'[i] = stored[i] /\ spool'[i] = spool[i] /\ answers'[i] = answers[i]
    <3>1. TablesFresh(m) /\ ThreadFresh(m, t) /\ LoopWorks(m, t, u) /\ ~torn /\ erased' = erased
      BY <2>1, <2>2, <2>3 DEF RoundFresh
    <3>2. QED
      BY <1>0, <3>1, WorkFresh
  <2>5. \A i \in Models : th'[i] = IF i = m THEN u ELSE th[i]
    BY <2>1 DEF LoopTypes
  <2>6. ASSUME NEW i \in Models PROVE TablesFresh(i)' /\ ThreadFresh(i, th[i])'
    <3>1. CASE i = m
      BY <2>4, <2>5, <3>1 DEF ThreadFresh
    <3>2. CASE i # m
      BY <2>3, <2>4, <2>5, <3>2 DEF RoundFresh, TablesFresh, ThreadFresh, Gone
    <3>3. QED
      BY <3>1, <3>2
  <2>7. th[m].at # "idle"
    BY <2>1 DEF LoopWorks, LoopChecks, Checkings, LoopBegins, LoopCaptures, LoopReturns,
       LoopRoundOf, LoopAppends, LoopSubmits, LoopMarks
  <2>8. run = "running"
    BY <2>7 DEF RoundFresh, LoopTypes
  <2>9. QED
    BY <2>3, <2>4, <2>6, <2>8 DEF RoundFresh
<1>2. CASE LoopClaims
  <2>1. UNCHANGED <<stored, erased, spool, torn, answers>> /\ run = "poll"
    BY <1>2 DEF LoopClaims
  <2>2. \A m \in Models : TablesFresh(m)'
    BY <2>1 DEF RoundFresh, TablesFresh
  <2>3. CASE UNCHANGED <<run, stopped, holds, th>>
    BY <2>1, <2>2, <2>3 DEF RoundFresh, ThreadFresh, Gone
  <2>4. CASE ~UNCHANGED <<run, stopped, holds, th>>
    <3>1. run' = "running" /\ \A m \in Models : th'[m].at = "begin"
      BY <1>2, <2>4 DEF LoopClaims
    <3>2. \A m \in Models, r \in 1..Rounds : spool[m][r] # 0 => ~Gone(m, spool[m][r])
      BY <2>1 DEF RoundFresh, ThreadFresh
    <3>3. \A m \in Models : ThreadFresh(m, th[m])'
      BY <2>1, <3>1, <3>2 DEF ThreadFresh, Gone
    <3>4. QED
      BY <2>1, <2>2, <3>1, <3>3 DEF RoundFresh
  <2>5. QED
    BY <2>3, <2>4
<1>3. CASE LoopStops
  BY <1>3 DEF LoopStops, RoundFresh, TablesFresh, ThreadFresh, Gone
<1>4. CASE LoopFinishes
  <2>1. /\ UNCHANGED <<stored, erased, spool, torn, answers>>
        /\ \A m \in Models : th[m].at = "ended" /\ th'[m].at = "idle"
    BY <1>4 DEF LoopFinishes, LoopIdle
  <2>2. \A m \in Models : TablesFresh(m)'
    BY <2>1 DEF RoundFresh, TablesFresh
  <2>3. \A m \in Models : ThreadFresh(m, th[m])'
    BY <2>1 DEF RoundFresh, ThreadFresh, Gone
  <2>4. QED
    BY <2>1, <2>2, <2>3 DEF RoundFresh
<1>5. CASE LoopCrashes
  BY <1>5 DEF LoopCrashes
<1>6. CASE LoopOperates
  <2>1. UNCHANGED <<spool, torn, run, th, answers>>
    BY <1>6 DEF LoopOperates
  <2>2. CASE UNCHANGED <<stored, erased>>
    BY <2>1, <2>2 DEF RoundFresh, TablesFresh, ThreadFresh, Gone
  <2>3. CASE ~UNCHANGED <<stored, erased>>
    <3>1. PICK m \in Models, r \in 1..Rounds, a \in Nat :
             /\ a = stored[m][r] /\ a # 0
             /\ stored' = [stored EXCEPT ![m][r] = 0]
             /\ erased' = [erased EXCEPT ![m] = @ \cup {a}]
      <4>1. PICK m \in Models, r \in 1..Rounds :
               /\ stored[m][r] # 0
               /\ stored' = [stored EXCEPT ![m][r] = 0]
               /\ erased' = [erased EXCEPT ![m] = @ \cup {stored[m][r]}]
        BY <1>6, <2>3 DEF LoopOperates
      <4>2. stored[m][r] \in Nat
        BY DEF LoopTypes
      <4>3. QED
        BY <4>1, <4>2
    <3>2. /\ \A q \in 1..Rounds : stored'[m][q] = IF q = r THEN 0 ELSE stored[m][q]
          /\ \A i \in Models \ {m} : stored'[i] = stored[i] /\ erased'[i] = erased[i]
      BY <3>1 DEF LoopTypes
    <3>3. erased'[m] = erased[m] \cup {a}
      BY <3>1 DEF LoopTypes
    <3>4. \A x \in Nat \ {0} : Gone(m, x)' <=> Gone(m, x)
      BY <3>1, <3>2, <3>3 DEF Gone
    <3>5. ASSUME NEW i \in Models PROVE TablesFresh(i)' /\ ThreadFresh(i, th[i])'
      <4>1. CASE i # m
        BY <2>1, <3>2, <4>1 DEF RoundFresh, TablesFresh, ThreadFresh, Gone
      <4>2. TablesFresh(m)'
        <5>1. TablesFresh(m)
          BY DEF RoundFresh
        <5>2. /\ answers'[m] = answers[m] /\ answers[m] \in Nat /\ a <= answers[m]
              /\ \A q \in 1..Rounds : spool'[m][q] = spool[m][q]
          BY <2>1, <3>1, <5>1 DEF TablesFresh, LoopTypes
        <5>3. \A x \in erased'[m] : x # 0 /\ x <= answers[m]
          BY <3>1, <3>3, <5>1, <5>2 DEF TablesFresh
        <5>4. \A q \in 1..Rounds : stored'[m][q] <= answers[m]
          BY <3>2, <5>1, <5>2 DEF TablesFresh
        <5>5. \A q \in 1..Rounds : stored'[m][q] \notin erased'[m]
          <6>1. 0 \notin erased'[m]
            BY <5>3
          <6>2. \A q \in 1..Rounds : q # r => stored[m][q] # a /\ stored[m][q] \notin erased[m]
            BY <3>1, <5>1 DEF TablesFresh
          <6>3. QED
            BY <3>2, <3>3, <6>1, <6>2
        <5>6. \A q, p \in 1..Rounds : stored'[m][q] = stored'[m][p] /\ stored'[m][q] # 0 => q = p
          BY <3>2, <5>1 DEF TablesFresh
        <5>7. QED
          BY <5>1, <5>2, <5>3, <5>4, <5>5, <5>6 DEF TablesFresh
      <4>3. ThreadFresh(m, th[m])'
        <5>1. ThreadFresh(m, th[m]) /\ th'[m] = th[m]
          BY <2>1 DEF RoundFresh
        <5>2. PICK t \in LoopThread : t = th[m] /\ t = th'[m]
          BY <2>1 DEF LoopTypes
        <5>3. t.answer \in Nat /\ \A q \in 1..Rounds : spool[m][q] \in Nat
          BY DEF LoopTypes, LoopThread
        <5>4. \A q \in 1..Rounds : spool[m][q] # 0 => (Gone(m, spool[m][q])' <=> Gone(m, spool[m][q]))
          BY <2>1, <3>4, <5>3 DEF Gone
        <5>5. t.answer # 0 => (Gone(m, t.answer)' <=> Gone(m, t.answer))
          BY <3>4, <5>3 DEF Gone
        <5>6. QED
          BY <2>1, <5>1, <5>2, <5>4, <5>5 DEF ThreadFresh, Gone
      <4>4. QED
        BY <4>1, <4>2, <4>3
    <3>6. QED
      BY <2>1, <3>5 DEF RoundFresh
  <2>4. QED
    BY <2>2, <2>3
<1>7. QED
  BY <1>1, <1>2, <1>3, <1>4, <1>5, <1>6 DEF LoopMoves

-----------------------------------------------------------------------------
(* The theorems.                                                           *)

RunTyped == LoopTypes /\ faults \in Nat /\ crashes \in Nat

LEMMA RunTypedKept ==
    ASSUME RunAssumption, RunTyped, Next
    PROVE  RunTyped' /\ LoopMoves
<1>1. LoopMoves /\ faults' \in Nat /\ crashes' \in Nat
  BY RunMoves DEF RunTyped
<1>2. LoopTypes'
  BY <1>1, LoopTyped DEF RunTyped
<1>3. QED
  BY <1>1, <1>2 DEF RunTyped

LEMMA MonitorStart ==
    ASSUME RunAssumption, Init PROVE RunTyped /\ MonitorWhole
<1>1. LoopTypes /\ faults \in Nat /\ crashes \in Nat
  BY RunStarts
<1>2. MonitorWhole
  BY RunStarts DEF MonitorWhole, ThreadWhole, Passing
<1>3. QED
  BY <1>1, <1>2 DEF RunTyped

LEMMA StaleStart ==
    ASSUME RunAssumption, Init PROVE RunTyped /\ StaleSeen
<1>1. LoopTypes /\ faults \in Nat /\ crashes \in Nat
  BY RunStarts
<1>2. StaleSeen
  BY RunStarts DEF StaleSeen, ThreadSeen
<1>3. QED
  BY <1>1, <1>2 DEF RunTyped

LEMMA FreshStart ==
    ASSUME RunAssumption, Init PROVE RunTyped /\ RoundFresh
<1>1. LoopTypes /\ faults \in Nat /\ crashes \in Nat
  BY RunStarts
<1>2. \A m \in Models : TablesFresh(m) /\ ThreadFresh(m, th[m])
  BY RunStarts DEF TablesFresh, ThreadFresh
<1>3. RoundFresh
  BY <1>2, RunStarts DEF RoundFresh
<1>4. QED
  BY <1>1, <1>3 DEF RunTyped

\* What the invariants say of the server.
LEMMA RunHolds ==
    /\ MonitorWhole => CompletedIsWhole
    /\ StaleSeen => NoCaptureTwice
    /\ RoundFresh => DeletedStaysDeleted
<1>1. MonitorWhole => CompletedIsWhole
  BY DEF MonitorWhole, CompletedIsWhole, AllStored, Whole, Progress, RoundNos, None
<1>2. StaleSeen => NoCaptureTwice
  BY DEF StaleSeen, NoCaptureTwice, RoundNos, None
<1>3. RoundFresh => DeletedStaysDeleted
  BY DEF RoundFresh, TablesFresh, DeletedStaysDeleted, RoundNos
<1>4. QED
  BY <1>1, <1>2, <1>3

\* A daily monitor that ends completed has an answer on the server for every
\* round of every model, though the server takes the worker's word for it:
\* over lost calls, restarts, pauses and leases that end.
THEOREM MonitorsEndWhole ==
    ASSUME RunAssumption, MonitorCase PROVE Spec => []CompletedIsWhole
<1> DEFINE Inv == RunTyped /\ MonitorWhole
<1>1. Init => Inv
  BY MonitorStart
<1>2. Inv /\ [Next]_vars => Inv'
  <2>1. CASE Next
    BY <2>1, RunTypedKept, MonitorKept DEF RunTyped
  <2>2. CASE UNCHANGED vars
    BY <2>2 DEF RunTyped, LoopTypes, MonitorWhole, ThreadWhole, Whole, vars, server, disk, bounds
  <2>3. QED
    BY <2>1, <2>2
<1>3. Inv => CompletedIsWhole
  BY RunHolds
<1>4. QED
  BY <1>1, <1>2, <1>3, PTL DEF Spec

\* Two rounds of a model are never copies of one old conversation, whatever
\* conversations the page of the provider still shows.
THEOREM CapturesDiffer ==
    ASSUME RunAssumption, StaleCase PROVE Spec => []NoCaptureTwice
<1> DEFINE Inv == RunTyped /\ StaleSeen
<1>1. Init => Inv
  BY StaleStart
<1>2. Inv /\ [Next]_vars => Inv'
  <2>1. CASE Next
    BY <2>1, RunTypedKept, SeenKept DEF RunTyped
  <2>2. CASE UNCHANGED vars
    BY <2>2 DEF RunTyped, LoopTypes, StaleSeen, ThreadSeen, vars, server, disk, bounds
  <2>3. QED
    BY <2>1, <2>2
<1>3. Inv => NoCaptureTwice
  BY RunHolds
<1>4. QED
  BY <1>1, <1>2, <1>3, PTL DEF Spec

\* What an operator deleted the worker does not upload once more from its
\* spool, however the task is paused, reaped, resumed and cleared around it.
THEOREM DeletedAnswersStayDeleted ==
    ASSUME RunAssumption, FreshCase PROVE Spec => []DeletedStaysDeleted
<1> DEFINE Inv == RunTyped /\ RoundFresh
<1>1. Init => Inv
  BY FreshStart
<1>2. Inv /\ [Next]_vars => Inv'
  <2>1. CASE Next
    BY <2>1, RunTypedKept, FreshKept DEF RunTyped
  <2>2. CASE UNCHANGED vars
    BY <2>2 DEF RunTyped, LoopTypes, RoundFresh, TablesFresh, ThreadFresh, Gone, vars, server,
       disk, bounds
  <2>3. QED
    BY <2>1, <2>2
<1>3. Inv => DeletedStaysDeleted
  BY RunHolds
<1>4. QED
  BY <1>1, <1>2, <1>3, PTL DEF Spec
=============================================================================

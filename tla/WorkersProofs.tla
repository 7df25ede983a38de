---------------------------- MODULE WorkersProofs ----------------------------
(***************************************************************************)
(* The agents that collect answers, for every number of models, rounds,    *)
(* workers, logins, processes and slots, and every bound on faults and     *)
(* restarts: the distance between the questions of a provider, the ends    *)
(* of tasks and logins, and what one party holds and another leaves alone. *)
(***************************************************************************)
EXTENDS MCWorkers, TLAPS, FiniteSetTheorems

-----------------------------------------------------------------------------
(* The brakes between questions.                                            *)

\* What the file says is when the last slot was, but while a Quark question is
\* out, which has no restart.
SlotInv ==
    /\ part # "quark" => last = file
    /\ part = "quark" => restarts = 0 /\ (place # "asking" => last = file)

LEMMA SlotStart == SuiteInit => SlotInv
<1> SUFFICES ASSUME SuiteInit PROVE SlotInv
  OBVIOUS
<1>1. CASE part = "quark"
  BY <1>1 DEF SuiteInit, SlotInv, Quark!Init, Quark!Never
<1>2. CASE part # "quark"
  <2>1. Deepseek!Init
    BY <1>2 DEF SuiteInit
  <2>2. QED
    BY <1>2, <2>1 DEF SlotInv, Deepseek!Init, Deepseek!Never
<1>3. QED
  BY <1>1, <1>2

\* A step of the suite is one of a brake, or leaves the brakes alone.
LEMMA SlotSteps ==
    [SuiteNext]_suiteVars => DeepseekStep \/ QuarkStep \/ UNCHANGED <<part, slotVars>>
BY DEF SuiteNext, suiteVars, RoundLoopStep, MonitorLoopStep, StaleLoopStep, LoginStep,
       WebStep, HostStep, BurstStep, BatchStep, SingleStep, ChromeStep, BrowserStep,
       PatientJobStep, HastyJobStep, OnlyRun, OnlyLogin, OnlyWeb, OnlyHost, OnlyBurst,
       OnlyBatch, OnlyChrome, OnlyLocal

LEMMA DeepseekKeeps == SlotInv /\ DeepseekStep => SlotInv'
<1> SUFFICES ASSUME SlotInv, DeepseekStep PROVE SlotInv'
  OBVIOUS
<1>0. part = "deepseek" /\ part' = part /\ Deepseek!Next /\ last = file
  BY DEF DeepseekStep, OnlySlot, SlotInv
<1>1. last' = file'
  BY <1>0 DEF Deepseek!Next, Deepseek!Tick, Deepseek!Enter, Deepseek!Loop, Deepseek!Reserve,
     Deepseek!PassCooldown, Deepseek!WaitOn, Deepseek!GiveUp, Deepseek!Answered,
     Deepseek!Crash, Deepseek!Pause, Deepseek!Resume
<1>2. QED
  BY <1>0, <1>1 DEF SlotInv

LEMMA QuarkKeeps == SlotInv /\ QuarkStep => SlotInv'
<1> SUFFICES ASSUME SlotInv, QuarkStep PROVE SlotInv'
  OBVIOUS
<1>0. part = "quark" /\ part' = part /\ Quark!Next /\ restarts = 0
      /\ (place # "asking" => last = file)
  BY DEF QuarkStep, OnlySlot, SlotInv
<1>1. restarts' = 0 /\ (place' # "asking" => last' = file')
  BY <1>0 DEF Quark!Next, Quark!Tick, Quark!Enter, Quark!Loop, Quark!Reserve,
     Quark!PassCooldown, Quark!WaitOn, Quark!GiveUp, Quark!Answered,
     Quark!Crash, Quark!Pause, Quark!Resume
<1>2. QED
  BY <1>0, <1>1 DEF SlotInv

LEMMA SlotKeeps == SlotInv /\ [SuiteNext]_suiteVars => SlotInv'
<1> SUFFICES ASSUME SlotInv, [SuiteNext]_suiteVars PROVE SlotInv'
  OBVIOUS
<1>1. CASE UNCHANGED <<part, slotVars>>
  BY <1>1 DEF SlotInv, slotVars
<1>2. QED
  BY <1>1, SlotSteps, DeepseekKeeps, QuarkKeeps

\* Between two slots of DeepSeek, and between the end of a Quark question and
\* the next, lies the interval: last and file agree when a slot is asked for.
LEMMA SlotSpaced ==
    SlotInv /\ [SuiteNext]_suiteVars /\ place = "check" /\ place' = "asking"
    => last = Deepseek!Never \/ now - last >= Interval
<1> SUFFICES ASSUME SlotInv, [SuiteNext]_suiteVars, place = "check", place' = "asking"
             PROVE  last = Deepseek!Never \/ now - last >= Interval
  OBVIOUS
<1>1. last = file
  BY DEF SlotInv
<1>2. CASE DeepseekStep
  <2>1. Deepseek!Open
    BY <1>2 DEF DeepseekStep, Deepseek!Next, Deepseek!Tick, Deepseek!Enter, Deepseek!Loop,
       Deepseek!Reserve, Deepseek!PassCooldown, Deepseek!WaitOn, Deepseek!GiveUp,
       Deepseek!Answered, Deepseek!Crash, Deepseek!Pause, Deepseek!Resume
  <2>2. QED
    BY <1>1, <2>1 DEF Deepseek!Open
<1>3. CASE QuarkStep
  <2>1. Quark!Open
    BY <1>3 DEF QuarkStep, Quark!Next, Quark!Tick, Quark!Enter, Quark!Loop,
       Quark!Reserve, Quark!PassCooldown, Quark!WaitOn, Quark!GiveUp,
       Quark!Answered, Quark!Crash, Quark!Pause, Quark!Resume
  <2>2. QED
    BY <1>1, <2>1 DEF Quark!Open, Quark!Never, Deepseek!Never
<1>4. CASE UNCHANGED <<part, slotVars>>
  BY <1>4 DEF slotVars
<1>5. QED
  BY <1>2, <1>3, <1>4, SlotSteps

\* Questions of one provider keep their distance: for every interval and lease,
\* over any number of restarts, pauses and failing attempts.
THEOREM AskedAtIntervals == SuiteSpec => AttemptsSpaced
<1>1. SuiteInit => SlotInv
  BY SlotStart
<1>2. SlotInv /\ [SuiteNext]_suiteVars => SlotInv'
  BY SlotKeeps
<1>3. SlotInv /\ [SuiteNext]_suiteVars =>
        /\ [place = "check" /\ place' = "asking"
            => last = Deepseek!Never \/ now - last >= Interval]_(Deepseek!vars)
        /\ [place = "check" /\ place' = "asking"
            => last = Quark!Never \/ now - last >= Interval]_(Quark!vars)
  BY SlotSpaced DEF Deepseek!Never, Quark!Never
<1>4. QED
  BY <1>1, <1>2, <1>3, PTL
     DEF SuiteSpec, AttemptsSpaced, Deepseek!AttemptsSpaced, Quark!AttemptsSpaced

-----------------------------------------------------------------------------
(* Ends: the task of a round loop.                                          *)

RunStates == {"queued", "running", "completed", "failed", "cancelled", "paused"}

\* A lease belongs to a run, and to a task that runs.
RunInv ==
    /\ status \in RunStates /\ flags \in RoundLoop!Flags
    /\ run \in {"poll", "running"} /\ holds \in BOOLEAN
    /\ holds => status = "running" /\ run = "running"

\* What a step of a worker does to the row of its task, whatever the models,
\* the rounds and the bounds are.
ClaimMoves ==
    /\ run = "poll"
    /\ \/ /\ status \in {"queued", "running"} /\ status' = "running" /\ flags' = flags
          /\ \/ run' = "running" /\ holds' = TRUE
             \/ UNCHANGED <<run, holds>>
       \/ /\ status = "running" /\ (flags.cancel \/ flags.pause)
          /\ status' = RoundLoop!Ended /\ flags' = RoundLoop!FlagsAfter
          /\ UNCHANGED <<run, holds>>
       \/ status = "running" /\ status' = "queued" /\ UNCHANGED <<flags, run, holds>>
FinishMoves ==
    /\ run' = "poll" /\ holds' = FALSE
    /\ \/ UNCHANGED <<status, flags>>
       \/ /\ holds /\ flags' = RoundLoop!NoFlags
          /\ status' \in {"queued", "paused", "completed", "cancelled"}
          /\ status' = "completed" => ~flags.cancel /\ ~flags.pause
OperatorMoves ==
    /\ run' = run
    /\ \/ /\ status = "running" /\ status' = status /\ flags' \in RoundLoop!Flags
          /\ flags'.cancel \/ flags'.pause
          /\ holds' = holds
       \/ /\ status = "queued" /\ status' = "paused" /\ flags' \in RoundLoop!Flags
          /\ holds' = holds
       \/ /\ status \in {"queued", "paused"} /\ status' = "cancelled"
          /\ flags' \in RoundLoop!Flags /\ holds' = holds
       \/ /\ status \in {"paused", "failed"} /\ status' = "queued"
          /\ flags' = RoundLoop!NoFlags /\ holds' = holds
       \/ /\ status \in RoundLoop!Deletable /\ status' = "paused"
          /\ flags' = RoundLoop!NoFlags /\ holds' = holds
       \/ /\ status = "running" /\ status' = RoundLoop!Ended
          /\ flags' = RoundLoop!FlagsAfter /\ holds' = FALSE
RunMoves ==
    \/ UNCHANGED <<status, flags, run, holds>>
    \/ ClaimMoves \/ FinishMoves \/ OperatorMoves

LEMMA RoundsMove == RunInv /\ RoundLoop!Next => RunMoves
<1> SUFFICES ASSUME RunInv, RoundLoop!Next PROVE RunMoves
  OBVIOUS
<1>1. CASE RoundLoop!Claim
  BY <1>1 DEF RoundLoop!Claim, RoundLoop!Claimed, RoundLoop!Ended, RoundLoop!FlagsAfter,
     RoundLoop!NoFlags, RunMoves, ClaimMoves
<1>2. CASE RoundLoop!Finish
  <2>1. ASSUME NEW report \in RoundLoop!Report, holds, RoundLoop!Finished(report)
        PROVE  /\ status' \in {"queued", "paused", "completed", "cancelled"}
               /\ status' = "completed" => ~flags.cancel /\ ~flags.pause
    <3>1. report \in {"cancelled", "paused", "retrying", "completed"}
      BY DEF RoundLoop!Report
    <3>2. QED
      BY <2>1, <3>1 DEF RoundLoop!Finished
  <2>2. QED
    BY <1>2, <2>1 DEF RoundLoop!Finish, RoundLoop!NoFlags, RunMoves, FinishMoves
<1>3. CASE RoundLoop!Crash
  BY <1>3 DEF RoundLoop!Crash, RunMoves, FinishMoves
<1>4. CASE RoundLoop!Operator
  BY <1>4 DEF RoundLoop!Operator, RoundLoop!OperatorAsks, RoundLoop!Operate, RoundLoop!Ended,
     RoundLoop!FlagsAfter, RoundLoop!NoFlags, RoundLoop!Flags, RoundLoop!Deletable,
     RunInv, RunMoves, OperatorMoves
<1>5. CASE RoundLoop!Stop
  BY <1>5 DEF RoundLoop!Stop, RoundLoop!server, RunMoves
<1>6. ASSUME NEW m \in LoopModels,
             \/ RoundLoop!Step(m)
             \/ RoundLoop!NotReady(m) \/ RoundLoop!ProgressCheck(m) \/ RoundLoop!Capture(m)
             \/ RoundLoop!CaptureFails(m) \/ RoundLoop!BatchPublish(m) \/ RoundLoop!BatchReturn(m)
      PROVE  UNCHANGED <<status, flags, run, holds>>
  BY <1>6 DEF RoundLoop!Step, RoundLoop!Begin, RoundLoop!Round, RoundLoop!Control,
     RoundLoop!BatchCheck, RoundLoop!Fallback, RoundLoop!ReplayCheck, RoundLoop!CollectCheck,
     RoundLoop!RetryCheck, RoundLoop!AppendRecord, RoundLoop!Submit, RoundLoop!MarkSubmitted,
     RoundLoop!NotReady, RoundLoop!ProgressCheck, RoundLoop!Capture, RoundLoop!CaptureFails,
     RoundLoop!BatchPublish, RoundLoop!BatchReturn, RoundLoop!server
<1>7. QED
  BY <1>1, <1>2, <1>3, <1>4, <1>5, <1>6 DEF RoundLoop!Next, RunMoves

LEMMA MonitorMoves == RunInv /\ MonitorLoop!Next => RunMoves
<1> SUFFICES ASSUME RunInv, MonitorLoop!Next PROVE RunMoves
  OBVIOUS
<1>1. CASE MonitorLoop!Claim
  BY <1>1 DEF MonitorLoop!Claim, MonitorLoop!Claimed, MonitorLoop!Ended, MonitorLoop!FlagsAfter,
     MonitorLoop!NoFlags, RoundLoop!Ended, RoundLoop!FlagsAfter, RoundLoop!NoFlags, RunMoves, ClaimMoves
<1>2. CASE MonitorLoop!Finish
  <2>1. ASSUME NEW report \in MonitorLoop!Report, holds, MonitorLoop!Finished(report)
        PROVE  /\ status' \in {"queued", "paused", "completed", "cancelled"}
               /\ status' = "completed" => ~flags.cancel /\ ~flags.pause
    <3>1. report \in {"cancelled", "paused", "retrying", "completed"}
      BY DEF MonitorLoop!Report
    <3>2. QED
      BY <2>1, <3>1 DEF MonitorLoop!Finished
  <2>2. QED
    BY <1>2, <2>1 DEF MonitorLoop!Finish, MonitorLoop!NoFlags, RoundLoop!NoFlags, RunMoves, FinishMoves
<1>3. CASE MonitorLoop!Crash
  BY <1>3 DEF MonitorLoop!Crash, RunMoves, FinishMoves
<1>4. CASE MonitorLoop!Operator
  BY <1>4 DEF MonitorLoop!Operator, MonitorLoop!OperatorAsks, MonitorLoop!Operate, MonitorLoop!Ended,
     MonitorLoop!FlagsAfter, MonitorLoop!NoFlags, MonitorLoop!Flags, MonitorLoop!Deletable,
     RoundLoop!Ended, RoundLoop!FlagsAfter, RoundLoop!NoFlags, RoundLoop!Flags, RoundLoop!Deletable,
     RunInv, RunMoves, OperatorMoves
<1>5. CASE MonitorLoop!Stop
  BY <1>5 DEF MonitorLoop!Stop, MonitorLoop!server, RunMoves
<1>6. ASSUME NEW m \in MonitorModels,
             \/ MonitorLoop!Step(m)
             \/ MonitorLoop!NotReady(m) \/ MonitorLoop!ProgressCheck(m) \/ MonitorLoop!Capture(m)
             \/ MonitorLoop!CaptureFails(m) \/ MonitorLoop!BatchPublish(m) \/ MonitorLoop!BatchReturn(m)
      PROVE  UNCHANGED <<status, flags, run, holds>>
  BY <1>6 DEF MonitorLoop!Step, MonitorLoop!Begin, MonitorLoop!Round, MonitorLoop!Control,
     MonitorLoop!BatchCheck, MonitorLoop!Fallback, MonitorLoop!ReplayCheck, MonitorLoop!CollectCheck,
     MonitorLoop!RetryCheck, MonitorLoop!AppendRecord, MonitorLoop!Submit, MonitorLoop!MarkSubmitted,
     MonitorLoop!NotReady, MonitorLoop!ProgressCheck, MonitorLoop!Capture, MonitorLoop!CaptureFails,
     MonitorLoop!BatchPublish, MonitorLoop!BatchReturn, MonitorLoop!server
<1>7. QED
  BY <1>1, <1>2, <1>3, <1>4, <1>5, <1>6 DEF MonitorLoop!Next, RunMoves

LEMMA StaleMoves == RunInv /\ StaleLoop!Next => RunMoves
<1> SUFFICES ASSUME RunInv, StaleLoop!Next PROVE RunMoves
  OBVIOUS
<1>1. CASE StaleLoop!Claim
  BY <1>1 DEF StaleLoop!Claim, StaleLoop!Claimed, StaleLoop!Ended, StaleLoop!FlagsAfter,
     StaleLoop!NoFlags, RoundLoop!Ended, RoundLoop!FlagsAfter, RoundLoop!NoFlags, RunMoves, ClaimMoves
<1>2. CASE StaleLoop!Finish
  <2>1. ASSUME NEW report \in StaleLoop!Report, holds, StaleLoop!Finished(report)
        PROVE  /\ status' \in {"queued", "paused", "completed", "cancelled"}
               /\ status' = "completed" => ~flags.cancel /\ ~flags.pause
    <3>1. report \in {"cancelled", "paused", "retrying", "completed"}
      BY DEF StaleLoop!Report
    <3>2. QED
      BY <2>1, <3>1 DEF StaleLoop!Finished
  <2>2. QED
    BY <1>2, <2>1 DEF StaleLoop!Finish, StaleLoop!NoFlags, RoundLoop!NoFlags, RunMoves, FinishMoves
<1>3. CASE StaleLoop!Crash
  BY <1>3 DEF StaleLoop!Crash, RunMoves, FinishMoves
<1>4. CASE StaleLoop!Operator
  BY <1>4 DEF StaleLoop!Operator, StaleLoop!OperatorAsks, StaleLoop!Operate, StaleLoop!Ended,
     StaleLoop!FlagsAfter, StaleLoop!NoFlags, StaleLoop!Flags, StaleLoop!Deletable,
     RoundLoop!Ended, RoundLoop!FlagsAfter, RoundLoop!NoFlags, RoundLoop!Flags, RoundLoop!Deletable,
     RunInv, RunMoves, OperatorMoves
<1>5. CASE StaleLoop!Stop
  BY <1>5 DEF StaleLoop!Stop, StaleLoop!server, RunMoves
<1>6. ASSUME NEW m \in LoopModels,
             \/ StaleLoop!Step(m)
             \/ StaleLoop!NotReady(m) \/ StaleLoop!ProgressCheck(m) \/ StaleLoop!Capture(m)
             \/ StaleLoop!CaptureFails(m) \/ StaleLoop!BatchPublish(m) \/ StaleLoop!BatchReturn(m)
      PROVE  UNCHANGED <<status, flags, run, holds>>
  BY <1>6 DEF StaleLoop!Step, StaleLoop!Begin, StaleLoop!Round, StaleLoop!Control,
     StaleLoop!BatchCheck, StaleLoop!Fallback, StaleLoop!ReplayCheck, StaleLoop!CollectCheck,
     StaleLoop!RetryCheck, StaleLoop!AppendRecord, StaleLoop!Submit, StaleLoop!MarkSubmitted,
     StaleLoop!NotReady, StaleLoop!ProgressCheck, StaleLoop!Capture, StaleLoop!CaptureFails,
     StaleLoop!BatchPublish, StaleLoop!BatchReturn, StaleLoop!server
<1>7. QED
  BY <1>1, <1>2, <1>3, <1>4, <1>5, <1>6 DEF StaleLoop!Next, RunMoves

LEMMA MovesKeep == RunInv /\ RunMoves => RunInv'
<1> SUFFICES ASSUME RunInv, RunMoves PROVE RunInv'
  OBVIOUS
<1>0. /\ RoundLoop!NoFlags \in RoundLoop!Flags /\ RoundLoop!FlagsAfter \in RoundLoop!Flags
      /\ RoundLoop!Ended \in RunStates /\ RoundLoop!Deletable \subseteq RunStates
  BY DEF RunInv, RunStates, RoundLoop!Flags, RoundLoop!NoFlags, RoundLoop!Ended,
     RoundLoop!FlagsAfter, RoundLoop!Deletable
<1>1. CASE UNCHANGED <<status, flags, run, holds>>
  BY <1>1 DEF RunInv
<1>2. CASE ClaimMoves
  <2>1. status' \in RunStates /\ flags' \in RoundLoop!Flags
    BY <1>0, <1>2 DEF RunInv, ClaimMoves, RunStates
  <2>2. run' \in {"poll", "running"} /\ holds' \in BOOLEAN
    BY <1>2 DEF RunInv, ClaimMoves
  <2>3. holds' => status' = "running" /\ run' = "running"
    BY <1>2 DEF RunInv, ClaimMoves
  <2>4. QED
    BY <2>1, <2>2, <2>3 DEF RunInv
<1>3. CASE FinishMoves
  BY <1>0, <1>3 DEF RunInv, FinishMoves, RunStates
<1>4. CASE OperatorMoves
  <2>1. status' \in RunStates /\ flags' \in RoundLoop!Flags
    BY <1>0, <1>4 DEF RunInv, OperatorMoves, RunStates
  <2>2. run' \in {"poll", "running"} /\ holds' \in BOOLEAN
    BY <1>4 DEF RunInv, OperatorMoves
  <2>3. holds' => status' = "running" /\ run' = "running"
    BY <1>4 DEF RunInv, OperatorMoves, RoundLoop!Deletable
  <2>4. QED
    BY <2>1, <2>2, <2>3 DEF RunInv
<1>5. QED
  BY <1>1, <1>2, <1>3, <1>4 DEF RunMoves

LEMMA MovesLive == RunInv /\ RunMoves => RoundLoop!Life!LifeNext
<1> SUFFICES ASSUME RunInv, RunMoves PROVE RoundLoop!Life!LifeNext
  OBVIOUS
<1>1. \/ RoundLoop!LifeOf' = RoundLoop!LifeOf
      \/ /\ RoundLoop!LifeOf = "queued"
         /\ RoundLoop!LifeOf' \in {"running", "stopping", "paused", "cancelled"}
      \/ /\ RoundLoop!LifeOf = "running"
         /\ RoundLoop!LifeOf' \in {"completed", "cancelled", "stopping", "queued", "paused"}
      \/ /\ RoundLoop!LifeOf = "stopping"
         /\ RoundLoop!LifeOf' \in {"running", "queued", "paused", "cancelled"}
      \/ RoundLoop!LifeOf = "paused" /\ RoundLoop!LifeOf' \in {"queued", "cancelled"}
      \/ RoundLoop!LifeOf = "failed" /\ RoundLoop!LifeOf' \in {"queued", "paused"}
      \/ RoundLoop!LifeOf \in {"completed", "cancelled"} /\ RoundLoop!LifeOf' = "paused"
  BY DEF RunInv, RunMoves, ClaimMoves, FinishMoves, OperatorMoves, RunStates, RoundLoop!Flags,
     RoundLoop!NoFlags, RoundLoop!Ended, RoundLoop!FlagsAfter, RoundLoop!Deletable,
     RoundLoop!LifeOf
<1>2. QED
  BY <1>1 DEF RoundLoop!Life!LifeNext, RoundLoop!Life!LifeMoves, RoundLoop!Life!FinalLife

\* A step of the suite is one of a worker, or leaves its task alone.
LEMMA RunSteps ==
    [SuiteNext]_suiteVars =>
        RoundLoopStep \/ MonitorLoopStep \/ StaleLoopStep \/ UNCHANGED runVars
BY DEF SuiteNext, suiteVars, DeepseekStep, QuarkStep, LoginStep, WebStep, HostStep, BurstStep,
       BatchStep, SingleStep, ChromeStep, BrowserStep, PatientJobStep, HastyJobStep, OnlySlot,
       OnlyLogin, OnlyWeb, OnlyHost, OnlyBurst, OnlyBatch, OnlyChrome, OnlyLocal

LEMMA RunStart == SuiteInit => RunInv
<1> SUFFICES ASSUME SuiteInit PROVE RunInv
  OBVIOUS
<1>1. status = "queued" /\ flags = RoundLoop!NoFlags /\ run = "poll" /\ holds = FALSE
  <2>1. CASE part = "monitor"
    BY <2>1 DEF SuiteInit, MonitorLoop!Init, MonitorLoop!NoFlags, RoundLoop!NoFlags
  <2>2. CASE part = "stale"
    BY <2>2 DEF SuiteInit, StaleLoop!Init, StaleLoop!NoFlags, RoundLoop!NoFlags
  <2>3. CASE part \notin {"monitor", "stale"}
    <3>1. RoundLoop!Init
      BY <2>3 DEF SuiteInit
    <3>2. QED
      BY <3>1 DEF RoundLoop!Init
  <2>4. QED
    BY <2>1, <2>2, <2>3
<1>2. QED
  BY <1>1 DEF RunInv, RunStates, RoundLoop!Flags, RoundLoop!NoFlags

LEMMA RunKeeps ==
    RunInv /\ [SuiteNext]_suiteVars => RunInv' /\ (RoundLoop!Life!LifeNext \/ UNCHANGED RoundLoop!LifeOf)
<1> SUFFICES ASSUME RunInv, [SuiteNext]_suiteVars
    PROVE  RunInv' /\ (RoundLoop!Life!LifeNext \/ UNCHANGED RoundLoop!LifeOf)
  OBVIOUS
<1>1. CASE UNCHANGED runVars
  BY <1>1 DEF runVars, RunInv, RoundLoop!LifeOf
<1>2. CASE RoundLoopStep \/ MonitorLoopStep \/ StaleLoopStep
  <2>1. RunMoves
    BY <1>2, RoundsMove, MonitorMoves, StaleMoves DEF RoundLoopStep, MonitorLoopStep, StaleLoopStep
  <2>2. QED
    BY <2>1, MovesKeep, MovesLive
<1>3. QED
  BY <1>1, <1>2, RunSteps

LEMMA WebEnds ==
    [SuiteNext]_suiteVars /\ ticket.status \in {"completed", "cancelled"}
    => ticket'.status = ticket.status
<1> SUFFICES ASSUME [SuiteNext]_suiteVars, ticket.status \in {"completed", "cancelled"}
             PROVE  ticket'.status = ticket.status
  OBVIOUS
<1>1. WebStep \/ UNCHANGED ticket
  BY DEF SuiteNext, suiteVars, webVars, RoundLoopStep, MonitorLoopStep, StaleLoopStep, DeepseekStep,
     QuarkStep, LoginStep, HostStep, BurstStep, BatchStep, SingleStep, ChromeStep, BrowserStep,
     PatientJobStep, HastyJobStep, OnlyRun, OnlySlot, OnlyLogin, OnlyHost, OnlyBurst, OnlyBatch,
     OnlyChrome, OnlyLocal
<1>2. ASSUME WebStep PROVE UNCHANGED ticket
  <2>1. Web!Next /\ ~Web!Holds
    BY <1>2 DEF WebStep, Web!Holds
  <2>2. QED
    BY <2>1 DEF Web!Next, Web!Expire, Web!RequestCancel, Web!Retry, Web!Claim, Web!StartModel,
       Web!CheckReady, Web!StartRound, Web!Heartbeat, Web!Local, Web!Ask, Web!Upload, Web!Finish,
       Web!Fail, Web!Cancel, Web!Killed, Web!Reported
<1>3. QED
  BY <1>1, <1>2

-----------------------------------------------------------------------------
(* Logins.                                                                  *)

\* The rows are filled from the first; who is about to insert a row found no
\* open one; all rows of a model but the last have ended.
LoginRows ==
    /\ \E n \in 0..MaxLogins : Login!Used = 1..n
    /\ \A i \in Login!Used : login[i].model \in LoginModels
    /\ asked["q1"] # "none" => Login!OpenFor(asked["q1"]) = {}
    /\ \A i, j \in Login!Used :
          i < j /\ login[i].model = login[j].model => login[i].status \in Login!Final

\* A token is of a row that runs and of the worker that works on it.
LoginTokens ==
    /\ \A i \in Login!Logins :
          /\ login[i].token # 0 => login[i].status = "running" /\ login[i].token <= issued
          /\ login[i].status \in {"running", "ready"} => login[i].worker \in Workers
    /\ \A w \in Workers :
          /\ job[w].token <= issued
          /\ at[w] # "poll" => job[w].id \in Login!Used /\ job[w].token # 0
          /\ \A i \in Login!Logins :
                login[i].token = job[w].token /\ job[w].token # 0
                => i = job[w].id /\ login[i].worker = w

\* A worker that reports a login has its session. One that works on a login
\* for a model it was ready with works on a later one.
LoginSessions ==
    /\ \A w \in Workers :
          at[w] = "report" /\ Login!ModelOf(w) \in DirectModels
          => Login!ModelOf(w) \in session[w]
    /\ \A w \in Workers, i \in Login!Used :
          /\ at[w] \in {"begin", "window", "report"}
          /\ login[i].status = "ready" /\ login[i].worker = w
          /\ login[i].model = Login!ModelOf(w)
          => i < job[w].id
    /\ Login!ReadyHasSession

LoginInv == Login!TypeOK /\ LoginRows /\ LoginTokens /\ LoginSessions

LEMMA LoginSame == \A S : Login!Cardinality(S) = Cardinality(S)
BY DEF Login!Cardinality, Cardinality

LEMMA LoginSizes ==
    /\ MaxLogins \in Nat /\ MaxTokens \in Nat /\ MaxFaults \in Nat /\ MaxCrashes \in Nat
    /\ DirectModels \subseteq LoginModels /\ SharedModels \cap DirectModels = {}
    /\ "none" \notin LoginModels /\ "none" \notin Workers
BY LoginAssumption DEF Login!ModelsAssumption, Login!BoundsAssumption

LEMMA LoginStart == SuiteInit => LoginInv
<1> SUFFICES ASSUME Login!Init PROVE LoginInv
  BY DEF SuiteInit
<1> USE DEF Login!Init, Login!NoRow, Login!NoJob, Login!Nothing
<1>1. Login!TypeOK
  <2>1. /\ Login!NoRow \in Login!Row
        /\ Login!NoJob \in [id : {0} \cup Login!Logins, token : {0} \cup Login!Tokens]
    BY DEF Login!Row
  <2>2. login \in [Login!Logins -> Login!Row]
    BY <2>1
  <2>3. job \in [Workers -> [id : {0} \cup Login!Logins, token : {0} \cup Login!Tokens]]
    BY <2>1
  <2>4. QED
    BY <2>2, <2>3, LoginSizes DEF Login!TypeOK
<1>2. Login!Used = {}
  BY DEF Login!Used
<1>3. LoginRows
  <2>1. Login!Used = 1..0 /\ 0 \in 0..MaxLogins
    BY <1>2, LoginSizes
  <2>2. asked["q1"] = "none"
    OBVIOUS
  <2>3. QED
    BY <1>2, <2>1, <2>2 DEF LoginRows
<1>4. LoginTokens
  BY <1>2 DEF LoginTokens
<1>5. LoginSessions
  BY <1>2 DEF LoginSessions, Login!ReadyHasSession
<1>6. QED
  BY <1>1, <1>3, <1>4, <1>5 DEF LoginInv

-----------------------------------------------------------------------------
(* What a step does to a row.                                               *)

\* Ends stand, models stay, no row is used or opened.
RowsStand ==
    \A i \in Login!Logins :
        /\ login[i].status \in Login!Final => login'[i] = login[i]
        /\ login'[i].status = "absent" <=> login[i].status = "absent"
        /\ login'[i].model = login[i].model
        /\ login'[i].status \in Login!Open => login[i].status \in Login!Open

LEMMA StandingRows ==
    ASSUME LoginRows, RowsStand,
           asked'["q1"] # "none" => Login!OpenFor(asked'["q1"]) = {}
    PROVE  LoginRows'
<1>1. Login!Used' = Login!Used
  BY DEF RowsStand, Login!Used
<1>2. \E n \in 0..MaxLogins : Login!Used' = 1..n
  BY <1>1 DEF LoginRows
<1>3. \A i \in Login!Used : i \in Login!Logins
  BY DEF Login!Used
<1>4. asked'["q1"] # "none" => (Login!OpenFor(asked["q1"]))' = {}
  BY <1>1, <1>3 DEF RowsStand, Login!OpenFor
<1>5. ASSUME NEW i \in Login!Used', NEW j \in Login!Used', i < j,
             login'[i].model = login'[j].model
      PROVE  login'[i].status \in Login!Final
  <2>1. i \in Login!Logins /\ j \in Login!Logins /\ i \in Login!Used /\ j \in Login!Used
    BY <1>1, <1>3
  <2>2. login[i].model = login[j].model
    BY <1>5, <2>1 DEF RowsStand
  <2>3. login[i].status \in Login!Final
    BY <1>5, <2>1, <2>2 DEF LoginRows
  <2>4. QED
    BY <2>1, <2>3 DEF RowsStand
<1>6. \A i \in Login!Used' : login'[i].model \in LoginModels
  BY <1>1, <1>3 DEF LoginRows, RowsStand
<1>7. QED
  BY <1>2, <1>4, <1>5, <1>6 DEF LoginRows

\* A row whose lease is over returns to the queue; every other one stays.
Requeue(row, new) ==
    \/ new = row
    \/ /\ row.status = "running" /\ new.status = "queued" /\ new.model = row.model
       /\ new.token = 0 /\ new.worker = "none"

LEMMA Requeueing ==
    ASSUME Login!TypeOK, NEW i \in Login!Logins
    PROVE  Login!Rows[i] \in Login!Row /\ Requeue(login[i], Login!Rows[i])
<1>1. PICK row \in Login!Row : row = login[i]
  BY DEF Login!TypeOK
<1>2. Login!Rows[i] = Login!Requeued(row)
  BY <1>1 DEF Login!Rows
<1>3. Login!Requeued(row) \in Login!Row
  BY DEF Login!Requeued, Login!Row, Login!Open, Login!Nothing
<1>4. Requeue(row, Login!Requeued(row))
  BY DEF Requeue, Login!Requeued, Login!Row, Login!Nothing
<1>5. QED
  BY <1>1, <1>2, <1>3, <1>4

\* The row a worker is given: it was open, and belongs to the worker now.
Given(w, i) ==
    /\ login[i].status \in Login!Open
    /\ login'[i].status = "running" /\ login'[i].model = login[i].model
    /\ login'[i].worker = w /\ login'[i].token = issued + 1

LEMMA Claiming ==
    ASSUME Login!TypeOK, NEW w \in Workers, Login!PollLogin(w)
    PROVE  \E k \in Login!Logins :
              /\ login' \in [Login!Logins -> Login!Row]
              /\ issued' = issued + 1 /\ issued' \in 0..MaxTokens
              /\ Given(w, k)
              /\ \A i \in Login!Logins : i # k => Requeue(login[i], login'[i])
              /\ \/ /\ at' = [at EXCEPT ![w] = "begin"]
                    /\ job' = [job EXCEPT ![w] = [id |-> k, token |-> issued + 1]]
                 \/ UNCHANGED <<at, job>>
              /\ UNCHANGED <<asked, task, session>>
<1>1. PICK k \in Login!Queued :
        /\ login' = [Login!Rows EXCEPT ![k] = [@ EXCEPT !.status = "running", !.worker = w,
                                                        !.token = issued + 1]]
        /\ issued' = issued + 1
        /\ \/ /\ at' = [at EXCEPT ![w] = "begin"]
              /\ job' = [job EXCEPT ![w] = [id |-> k, token |-> issued + 1]]
           \/ UNCHANGED <<at, job>>
  BY DEF Login!PollLogin
<1>2. k \in Login!Logins /\ Login!Rows[k].status = "queued"
  BY DEF Login!Queued
<1>3. PICK row \in Login!Row : row = Login!Rows[k]
  BY <1>2, Requeueing
<1>4. PICK old \in Login!Row : old = login[k] /\ Requeue(old, row)
  BY <1>2, <1>3, Requeueing DEF Login!TypeOK
<1>5. issued + 1 \in Login!Tokens /\ issued' \in 0..MaxTokens
  BY <1>1, LoginSizes DEF Login!PollLogin, Login!TypeOK, Login!Tokens
<1> DEFINE given == [row EXCEPT !.status = "running", !.worker = w, !.token = issued + 1]
<1>6. /\ given \in Login!Row /\ given.status = "running" /\ given.model = row.model
      /\ given.worker = w /\ given.token = issued + 1
  BY <1>5 DEF Login!Row, Login!Open
<1> HIDE DEF given
<1>7. Login!Rows \in [Login!Logins -> Login!Row]
  <2>1. Login!Rows = [i \in Login!Logins |-> Login!Rows[i]]
    BY DEF Login!Rows
  <2>2. QED
    BY <2>1, Requeueing
<1>8. login' = [Login!Rows EXCEPT ![k] = given]
  BY <1>1, <1>3 DEF given
<1>9. login' \in [Login!Logins -> Login!Row] /\ login'[k] = given
  BY <1>2, <1>6, <1>7, <1>8
<1>10. \A i \in Login!Logins : i # k => Requeue(login[i], login'[i])
  BY <1>7, <1>8, Requeueing
<1>11. Given(w, k)
  <2>1. old.status \in Login!Open /\ old.model = row.model
    BY <1>2, <1>3, <1>4 DEF Requeue, Login!Open
  <2>2. QED
    BY <1>4, <1>6, <1>9, <2>1 DEF Given
<1>12. UNCHANGED <<asked, task, session>>
  BY DEF Login!PollLogin
<1>13. QED
  BY <1>1, <1>2, <1>5, <1>9, <1>10, <1>11, <1>12

-----------------------------------------------------------------------------
(* The steps of a worker on its login.                                      *)

LoginPlaces == {"poll", "begin", "window", "report", "failing"}
Working == {"begin", "window", "report"}

\* A worker writes the row it works on only while it holds it.
RowMoves(w, to) ==
    \/ login' = login
    \/ /\ at[w] # "poll" /\ login[job[w].id].token = job[w].token
       /\ \E new \in Login!Row :
             /\ login' = [login EXCEPT ![job[w].id] = new]
             /\ new.model = login[job[w].id].model /\ new.worker = login[job[w].id].worker
             /\ \/ new.status = "running" /\ new.token = login[job[w].id].token
                \/ /\ new.status \in Login!Final /\ new.token = 0
                   /\ new.status = "ready" => at[w] = "report" /\ to \notin Working

\* A session is dropped at the beginning of a login of its model only.
WorkerMoves(w, to, mine) ==
    /\ asked' = asked /\ job' = job /\ issued' = issued
    /\ to \in LoginPlaces /\ at' = [at EXCEPT ![w] = to]
    /\ session' = [session EXCEPT ![w] = mine]
    /\ to # "poll" => at[w] # "poll"
    /\ to \in Working => at[w] \in Working
    /\ to = "report" /\ Login!ModelOf(w) \in DirectModels => Login!ModelOf(w) \in mine
    /\ \/ session[w] \subseteq mine
       \/ at[w] = "begin" /\ session[w] \ {Login!ModelOf(w)} \subseteq mine
    /\ RowMoves(w, to)

LEMMA MovedRows ==
    ASSUME LoginInv, NEW w \in Workers, NEW to, RowMoves(w, to), NEW i \in Login!Logins
    PROVE  \/ login'[i] = login[i]
           \/ /\ i = job[w].id /\ at[w] # "poll"
              /\ login[i].status = "running" /\ login[i].worker = w
              /\ login'[i].model = login[i].model /\ login'[i].worker = w
              /\ \/ login'[i].status = "running" /\ login'[i].token = login[i].token
                 \/ /\ login'[i].status \in Login!Final /\ login'[i].token = 0
                    /\ login'[i].status = "ready" => at[w] = "report" /\ to \notin Working
<1>1. CASE login' = login
  BY <1>1
<1>2. ASSUME at[w] # "poll", login[job[w].id].token = job[w].token, NEW new \in Login!Row,
             login' = [login EXCEPT ![job[w].id] = new], i = job[w].id
      PROVE  /\ login'[i] = new
             /\ login[i].status = "running" /\ login[i].worker = w
  <2>1. login'[i] = new
    BY <1>2 DEF LoginInv, Login!TypeOK
  <2>2. job[w].token # 0 /\ login[i].token = job[w].token
    BY <1>2 DEF LoginInv, LoginTokens
  <2>3. login[i].status = "running" /\ login[i].worker = w
    BY <2>2 DEF LoginInv, LoginTokens
  <2>4. QED
    BY <2>1, <2>3
<1>3. ASSUME NEW new, login' = [login EXCEPT ![job[w].id] = new], i # job[w].id
      PROVE  login'[i] = login[i]
  BY <1>3 DEF LoginInv, Login!TypeOK
<1>4. QED
  BY <1>1, <1>2, <1>3 DEF RowMoves

LEMMA WorkerRows ==
    ASSUME LoginInv, NEW w \in Workers, NEW to, RowMoves(w, to)
    PROVE  RowsStand
<1>1. SUFFICES ASSUME NEW i \in Login!Logins
      PROVE  /\ login[i].status \in Login!Final => login'[i] = login[i]
             /\ login'[i].status = "absent" <=> login[i].status = "absent"
             /\ login'[i].model = login[i].model
             /\ login'[i].status \in Login!Open => login[i].status \in Login!Open
  BY DEF RowsStand
<1>2. QED
  BY MovedRows DEF Login!Final, Login!Open

LEMMA WorkerTokens ==
    ASSUME LoginInv, NEW w \in Workers, NEW to, NEW mine, WorkerMoves(w, to, mine),
           Login!Used' = Login!Used
    PROVE  LoginTokens'
<1>0. /\ job' = job /\ issued' = issued /\ RowMoves(w, to)
      /\ \A v \in Workers : at'[v] # "poll" => at[v] # "poll"
  BY DEF WorkerMoves, LoginInv, Login!TypeOK
<1>1. \A i \in Login!Logins :
          /\ login'[i].token # 0 => login'[i].status = "running" /\ login'[i].token <= issued'
          /\ login'[i].status \in {"running", "ready"} => login'[i].worker \in Workers
  <2> TAKE i \in Login!Logins
  <2>1. /\ login[i].token # 0 => login[i].status = "running" /\ login[i].token <= issued
        /\ login[i].status \in {"running", "ready"} => login[i].worker \in Workers
    BY DEF LoginInv, LoginTokens
  <2>2. QED
    BY <1>0, <2>1, MovedRows
<1>2. \A v \in Workers : job'[v].token <= issued'
  BY <1>0 DEF LoginInv, LoginTokens
<1>3. \A v \in Workers : at'[v] # "poll" => job'[v].id \in Login!Used' /\ job'[v].token # 0
  BY <1>0 DEF LoginInv, LoginTokens
<1>4. ASSUME NEW v \in Workers, NEW i \in Login!Logins,
             login'[i].token = job'[v].token, job'[v].token # 0
      PROVE  i = job'[v].id /\ login'[i].worker = v
  <2>1. login[i].token = job[v].token /\ login'[i].worker = login[i].worker
    BY <1>0, <1>4, MovedRows
  <2>2. QED
    BY <1>0, <1>4, <2>1 DEF LoginInv, LoginTokens
<1>5. QED
  BY <1>1, <1>2, <1>3, <1>4 DEF LoginTokens

LEMMA WorkerSessions ==
    ASSUME LoginInv, NEW w \in Workers, NEW to, NEW mine, WorkerMoves(w, to, mine),
           Login!Used' = Login!Used, RowsStand
    PROVE  LoginSessions'
<1>0. /\ job' = job /\ RowMoves(w, to)
      /\ \A v \in Workers : at'[v] = IF v = w THEN to ELSE at[v]
      /\ \A v \in Workers : session'[v] = IF v = w THEN mine ELSE session[v]
      /\ to # "poll" => at[w] # "poll"
      /\ to \in Working => at[w] \in Working
      /\ to = "report" /\ Login!ModelOf(w) \in DirectModels => Login!ModelOf(w) \in mine
  BY DEF WorkerMoves, LoginInv, Login!TypeOK
<1>1. \A v \in Workers : at[v] # "poll" => job[v].id \in Login!Used /\ job[v].id \in Login!Logins
  BY DEF LoginInv, LoginTokens, Login!Used
<1>2. \A v \in Workers : at[v] # "poll" => Login!ModelOf(v)' = Login!ModelOf(v)
  BY <1>0, <1>1 DEF RowsStand, Login!ModelOf
<1>3. ASSUME NEW v \in Workers, at'[v] = "report", Login!ModelOf(v)' \in DirectModels
      PROVE  Login!ModelOf(v)' \in session'[v]
  <2>1. at[v] # "poll"
    BY <1>0, <1>3
  <2>2. CASE v = w
    BY <1>0, <1>2, <1>3, <2>1, <2>2
  <2>3. CASE v # w
    BY <1>0, <1>2, <1>3, <2>1, <2>3 DEF LoginInv, LoginSessions
  <2>4. QED
    BY <2>2, <2>3
<1>4. ASSUME NEW v \in Workers, NEW i \in Login!Used, at'[v] \in Working,
             login'[i].status = "ready", login'[i].worker = v,
             login'[i].model = Login!ModelOf(v)'
      PROVE  i < job'[v].id
  <2>1. i \in Login!Logins
    BY DEF Login!Used
  <2>2. at[v] \in Working /\ (v = w => to \in Working)
    BY <1>0, <1>4
  <2>3. login'[i] = login[i]
    BY <1>0, <1>4, <2>1, <2>2, MovedRows
  <2>4. login[i].model = Login!ModelOf(v)
    BY <1>2, <1>4, <2>2, <2>3 DEF Working
  <2>5. QED
    BY <1>0, <1>4, <2>2, <2>3, <2>4 DEF LoginInv, LoginSessions, Working
<1>5. ASSUME NEW i \in Login!Used, login'[i].status = "ready", login'[i].model \in DirectModels,
             \A j \in Login!Used : j > i => login'[j].model # login'[i].model
      PROVE  login'[i].model \in session'[login'[i].worker]
  <2>1. i \in Login!Logins /\ \A j \in Login!Used : j \in Login!Logins
    BY DEF Login!Used
  <2>2. \A j \in Login!Used : j > i => login[j].model # login[i].model
    BY <1>5, <2>1 DEF RowsStand
  <2>3. CASE login'[i] = login[i]
    <3>1. login[i].model \in session[login[i].worker] /\ login[i].worker \in Workers
      BY <1>5, <2>1, <2>2, <2>3 DEF LoginInv, LoginSessions, LoginTokens, Login!ReadyHasSession
    <3>2. CASE login[i].worker # w
      BY <1>0, <2>3, <3>1, <3>2
    <3>3. CASE login[i].worker = w
      <4>1. at[w] = "begin" => login[i].model # Login!ModelOf(w)
        <5> SUFFICES ASSUME at[w] = "begin", login[i].model = Login!ModelOf(w) PROVE FALSE
          OBVIOUS
        <5>1. i < job[w].id
          BY <1>5, <2>3, <3>3 DEF LoginInv, LoginSessions
        <5>2. job[w].id \in Login!Used /\ login[job[w].id].model = login[i].model
          BY <1>1 DEF Login!ModelOf
        <5>3. job[w].id > i
          BY <5>1, <5>2, <2>1, LoginSizes DEF Login!Logins
        <5>4. QED
          BY <2>2, <5>2, <5>3
      <4>2. login[i].model \in mine
        BY <3>1, <3>3, <4>1 DEF WorkerMoves
      <4>3. QED
        BY <1>0, <2>3, <3>3, <4>2
    <3>4. QED
      BY <3>2, <3>3
  <2>4. CASE login'[i] # login[i]
    <3>1. /\ i = job[w].id /\ at[w] = "report" /\ login'[i].worker = w
          /\ login'[i].model = login[i].model
      BY <1>0, <1>5, <2>1, <2>4, MovedRows
    <3>2. login[i].model = Login!ModelOf(w)
      BY <3>1 DEF Login!ModelOf
    <3>3. login[i].model \in session[w]
      BY <1>5, <3>1, <3>2 DEF LoginInv, LoginSessions
    <3>4. login[i].model \in mine
      BY <3>1, <3>3 DEF WorkerMoves
    <3>5. QED
      BY <1>0, <3>1, <3>4
  <2>5. QED
    BY <2>3, <2>4
<1>6. Login!ReadyHasSession'
  BY <1>5 DEF Login!ReadyHasSession
<1>7. QED
  BY <1>3, <1>4, <1>6 DEF LoginSessions, Working

LEMMA WorkerKeeps ==
    ASSUME LoginInv, NEW w \in Workers, NEW to, NEW mine, WorkerMoves(w, to, mine),
           Login!TypeOK'
    PROVE  LoginInv' /\ RowsStand
<1>1. RowMoves(w, to) /\ asked' = asked
  BY DEF WorkerMoves
<1>2. RowsStand
  BY <1>1, WorkerRows
<1>3. LoginRows'
  <2>1. LoginRows
    BY DEF LoginInv
  <2>2. asked'["q1"] # "none" => Login!OpenFor(asked'["q1"]) = {}
    BY <1>1, <2>1 DEF LoginRows
  <2>3. QED
    BY <1>2, <2>1, <2>2, StandingRows
<1>4. Login!Used' = Login!Used
  BY <1>2 DEF RowsStand, Login!Used
<1>5. LoginTokens' /\ LoginSessions'
  BY <1>2, <1>4, WorkerTokens, WorkerSessions
<1>6. QED
  BY <1>2, <1>3, <1>5 DEF LoginInv

\* A heartbeat and the end of a login, as writes of the worker's row.
LEMMA RowWritten ==
    ASSUME LoginInv, NEW w \in Workers, at[w] # "poll", Login!Holds(w)
    PROVE  /\ job[w].id \in Login!Logins
           /\ login[job[w].id] \in Login!Row /\ login[job[w].id].status = "running"
<1>1. job[w].id \in Login!Logins /\ job[w].token # 0
  BY DEF LoginInv, LoginTokens, Login!Used
<1>2. QED
  BY <1>1 DEF LoginInv, LoginTokens, Login!TypeOK, Login!Holds

LEMMA BeatWrites ==
    ASSUME LoginInv, NEW w \in Workers, NEW place_, at[w] # "poll", Login!Beat(w, place_)
    PROVE  \E to \in {place_, "failing"} :
              /\ at' = [at EXCEPT ![w] = to] /\ RowMoves(w, to)
              /\ login' \in [Login!Logins -> Login!Row]
              /\ lost' \in 0..MaxFaults
<1>0. login \in [Login!Logins -> Login!Row] /\ lost \in 0..MaxFaults
  BY DEF LoginInv, Login!TypeOK
<1>1. CASE /\ Login!Holds(w) /\ login' = [login EXCEPT ![job[w].id].expired = FALSE]
           /\ Login!Go(w, place_) /\ UNCHANGED lost
  <2>1. PICK row \in Login!Row : row = login[job[w].id] /\ row.status = "running"
    BY <1>1, RowWritten
  <2> DEFINE new == [row EXCEPT !.expired = FALSE]
  <2>2. /\ new \in Login!Row /\ new.status = "running" /\ new.token = row.token
        /\ new.model = row.model /\ new.worker = row.worker
    BY <2>1 DEF Login!Row
  <2>3. login' = [login EXCEPT ![job[w].id] = new]
    BY <1>1, <2>1
  <2> HIDE DEF new
  <2>4. RowMoves(w, place_)
    BY <1>1, <2>1, <2>2, <2>3 DEF RowMoves, Login!Holds
  <2>5. login' \in [Login!Logins -> Login!Row]
    BY <1>0, <2>2, <2>3
  <2>6. QED
    BY <1>0, <1>1, <2>4, <2>5 DEF Login!Go
<1>2. CASE Login!Go(w, "failing") /\ UNCHANGED login /\ (UNCHANGED lost \/ Login!Fault)
  <2>1. lost' \in 0..MaxFaults
    BY <1>0, <1>2, LoginSizes DEF Login!Fault
  <2>2. QED
    BY <1>0, <1>2, <2>1 DEF RowMoves, Login!Go
<1>3. QED
  BY <1>1, <1>2 DEF Login!Beat

LEMMA EndWrites ==
    ASSUME LoginInv, NEW w \in Workers, at[w] # "poll", Login!Holds(w),
           NEW end \in Login!Final, Login!Ended(job[w].id, end), NEW to,
           end = "ready" => at[w] = "report" /\ to \notin Working
    PROVE  RowMoves(w, to) /\ login' \in [Login!Logins -> Login!Row]
<1>0. login \in [Login!Logins -> Login!Row]
  BY DEF LoginInv, Login!TypeOK
<1>1. PICK row \in Login!Row : row = login[job[w].id] /\ row.status = "running"
  BY RowWritten
<1> DEFINE new == [row EXCEPT !.status = end, !.token = 0, !.expired = FALSE]
<1>2. /\ new \in Login!Row /\ new.status = end /\ new.token = 0
      /\ new.model = row.model /\ new.worker = row.worker
  BY <1>1 DEF Login!Row, Login!Nothing
<1>3. login' = [login EXCEPT ![job[w].id] = new]
  BY <1>1 DEF Login!Ended, Login!Nothing
<1> HIDE DEF new
<1>4. RowMoves(w, to)
  BY <1>1, <1>2, <1>3 DEF RowMoves, Login!Holds
<1>5. QED
  BY <1>0, <1>2, <1>3, <1>4

\* Every step of a worker on a login is such a move.
LEMMA LoginSteps ==
    ASSUME LoginInv, NEW w \in Workers,
           \/ Login!RunLogin(w) \/ Login!Window(w) \/ Login!Waiting(w) \/ Login!Crash(w)
    PROVE  Login!TypeOK' /\ \E to \in LoginPlaces, mine \in SUBSET LoginModels :
                                WorkerMoves(w, to, mine)
<1>0. Login!TypeOK
  BY DEF LoginInv
<1>1. at[w] # "poll" => Login!ModelOf(w) \in LoginModels
  BY DEF LoginInv, LoginTokens, LoginRows, Login!ModelOf
\* what is left to show of each action
<1>2. ASSUME NEW to \in LoginPlaces, NEW mine \in SUBSET LoginModels,
             WorkerMoves(w, to, mine), login' \in [Login!Logins -> Login!Row],
             task' = task, lost' \in 0..MaxFaults, exits' \in 0..MaxCrashes
      PROVE  Login!TypeOK'
  BY <1>0, <1>2 DEF Login!TypeOK, WorkerMoves, LoginPlaces
<1>3. CASE Login!Begin(w)
  <2>0. at[w] = "begin" /\ UNCHANGED <<asked, task, job, issued, exits>>
    BY <1>3 DEF Login!Begin
  <2>1. CASE /\ Login!ModelOf(w) \in DirectModels
             /\ session' = [session EXCEPT ![w] = @ \ {Login!ModelOf(w)}]
             /\ Login!Beat(w, "window")
    <3>1. PICK to \in {"window", "failing"} :
              /\ at' = [at EXCEPT ![w] = to] /\ RowMoves(w, to)
              /\ login' \in [Login!Logins -> Login!Row] /\ lost' \in 0..MaxFaults
      BY <2>0, <2>1, BeatWrites
    <3>2. PICK mine \in SUBSET LoginModels : mine = session[w] \ {Login!ModelOf(w)}
      BY <1>0 DEF Login!TypeOK
    <3>3. WorkerMoves(w, to, mine)
      BY <2>0, <2>1, <3>1, <3>2 DEF WorkerMoves, LoginPlaces, Working
    <3>4. Login!TypeOK'
      BY <1>0, <1>2, <2>0, <3>1, <3>2, <3>3 DEF Login!TypeOK, LoginPlaces
    <3>5. QED
      BY <3>1, <3>2, <3>3, <3>4 DEF LoginPlaces
  <2>2. CASE Login!ModelOf(w) \in SharedModels /\ Login!Beat(w, "report") /\ UNCHANGED session
    <3>1. PICK to \in {"report", "failing"} :
              /\ at' = [at EXCEPT ![w] = to] /\ RowMoves(w, to)
              /\ login' \in [Login!Logins -> Login!Row] /\ lost' \in 0..MaxFaults
      BY <2>0, <2>2, BeatWrites
    <3>2. PICK mine \in SUBSET LoginModels :
              mine = session[w] /\ session' = [session EXCEPT ![w] = mine]
      BY <1>0, <2>2 DEF Login!TypeOK
    <3>3. WorkerMoves(w, to, mine)
      BY <2>0, <2>2, <3>1, <3>2, LoginSizes DEF WorkerMoves, LoginPlaces, Working
    <3>4. Login!TypeOK'
      BY <1>0, <1>2, <2>0, <3>1, <3>2, <3>3 DEF Login!TypeOK, LoginPlaces
    <3>5. QED
      BY <3>1, <3>2, <3>3, <3>4 DEF LoginPlaces
  <2>3. CASE Login!Go(w, "failing") /\ UNCHANGED <<login, session, lost>>
    <3>1. PICK mine \in SUBSET LoginModels :
              mine = session[w] /\ session' = [session EXCEPT ![w] = mine]
      BY <1>0, <2>3 DEF Login!TypeOK
    <3>2. WorkerMoves(w, "failing", mine)
      BY <2>0, <2>3, <3>1 DEF WorkerMoves, LoginPlaces, Working, RowMoves, Login!Go
    <3>3. Login!TypeOK'
      BY <1>0, <1>2, <2>0, <2>3, <3>1, <3>2 DEF Login!TypeOK, LoginPlaces
    <3>4. QED
      BY <3>1, <3>2, <3>3 DEF LoginPlaces
  <2>4. QED
    BY <1>3, <2>1, <2>2, <2>3 DEF Login!Begin
<1>4. CASE Login!Waiting(w)
  <2>0. at[w] = "window" /\ UNCHANGED <<asked, task, job, session, issued, exits>>
    BY <1>4 DEF Login!Waiting
  <2>1. PICK to \in {"window", "failing"} :
            /\ at' = [at EXCEPT ![w] = to] /\ RowMoves(w, to)
            /\ login' \in [Login!Logins -> Login!Row] /\ lost' \in 0..MaxFaults
    BY <1>4, <2>0, BeatWrites DEF Login!Waiting
  <2>2. PICK mine \in SUBSET LoginModels :
            mine = session[w] /\ session' = [session EXCEPT ![w] = mine]
    BY <1>0, <2>0 DEF Login!TypeOK
  <2>3. WorkerMoves(w, to, mine)
    BY <2>0, <2>1, <2>2 DEF WorkerMoves, LoginPlaces, Working
  <2>4. Login!TypeOK'
    BY <1>0, <1>2, <2>0, <2>1, <2>2, <2>3 DEF Login!TypeOK, LoginPlaces
  <2>5. QED
    BY <2>1, <2>2, <2>3, <2>4 DEF LoginPlaces
<1>5. CASE Login!LoggedIn(w)
  <2>1. Login!ModelOf(w) \in LoginModels
    BY <1>1, <1>5 DEF Login!LoggedIn
  <2>2. PICK mine \in SUBSET LoginModels : mine = session[w] \cup {Login!ModelOf(w)}
    BY <1>0, <2>1 DEF Login!TypeOK
  <2>3. WorkerMoves(w, "report", mine)
    BY <1>5, <2>2 DEF Login!LoggedIn, WorkerMoves, LoginPlaces, Working, RowMoves, Login!Go
  <2>4. Login!TypeOK'
    BY <1>0, <1>2, <1>5, <2>2, <2>3 DEF Login!LoggedIn, Login!TypeOK, LoginPlaces
  <2>5. QED
    BY <2>2, <2>3, <2>4 DEF LoginPlaces
<1>6. CASE Login!WindowFails(w)
  <2>1. PICK mine \in SUBSET LoginModels :
            mine = session[w] /\ session' = [session EXCEPT ![w] = mine]
    BY <1>0, <1>6 DEF Login!WindowFails, Login!TypeOK
  <2>2. WorkerMoves(w, "failing", mine)
    BY <1>6, <2>1 DEF Login!WindowFails, WorkerMoves, LoginPlaces, Working, RowMoves, Login!Go
  <2>3. Login!TypeOK'
    BY <1>0, <1>2, <1>6, <2>1, <2>2 DEF Login!WindowFails, Login!TypeOK, LoginPlaces
  <2>4. QED
    BY <2>1, <2>2, <2>3 DEF LoginPlaces
<1>7. CASE Login!ReportReady(w)
  <2>0. at[w] = "report" /\ UNCHANGED <<asked, task, job, session, issued, exits>>
    BY <1>7 DEF Login!ReportReady
  <2>1. PICK mine \in SUBSET LoginModels :
            mine = session[w] /\ session' = [session EXCEPT ![w] = mine]
    BY <1>0, <2>0 DEF Login!TypeOK
  <2>2. PICK to \in {"poll", "failing"} :
            /\ at' = [at EXCEPT ![w] = to] /\ (UNCHANGED lost \/ Login!Fault)
            /\ \/ Login!Holds(w) /\ Login!Ended(job[w].id, "ready")
               \/ login' = login
    BY <1>7 DEF Login!ReportReady, Login!Go
  <2>3. RowMoves(w, to) /\ login' \in [Login!Logins -> Login!Row]
    <3>1. CASE login' = login
      BY <1>0, <3>1 DEF RowMoves, Login!TypeOK
    <3>2. CASE Login!Holds(w) /\ Login!Ended(job[w].id, "ready")
      BY <2>0, <2>2, <3>2, EndWrites DEF Login!Final, Working
    <3>3. QED
      BY <2>2, <3>1, <3>2
  <2>4. lost' \in 0..MaxFaults
    BY <1>0, <2>2, LoginSizes DEF Login!Fault, Login!TypeOK
  <2>5. WorkerMoves(w, to, mine)
    BY <2>0, <2>1, <2>2, <2>3 DEF WorkerMoves, LoginPlaces, Working
  <2>6. Login!TypeOK'
    BY <1>0, <1>2, <2>0, <2>1, <2>2, <2>3, <2>4, <2>5 DEF Login!TypeOK, LoginPlaces
  <2>7. QED
    BY <2>1, <2>2, <2>5, <2>6 DEF LoginPlaces
<1>8. CASE Login!ReportFailed(w)
  <2>0. at[w] = "failing" /\ UNCHANGED <<asked, task, job, issued, exits>>
        /\ at' = [at EXCEPT ![w] = "poll"]
        /\ session' = [session EXCEPT ![w] = session[w]]
        /\ (UNCHANGED lost \/ Login!Fault)
    BY <1>8 DEF Login!ReportFailed, Login!Go
  <2>1. PICK mine \in SUBSET LoginModels :
            mine = session[w] /\ session' = [session EXCEPT ![w] = mine]
    BY <1>0, <2>0 DEF Login!TypeOK
  <2>2. RowMoves(w, "poll") /\ login' \in [Login!Logins -> Login!Row]
    <3>1. CASE login' = login
      BY <1>0, <3>1 DEF RowMoves, Login!TypeOK
    <3>2. CASE Login!Holds(w) /\ Login!Ended(job[w].id, "failed")
      BY <2>0, <3>2, EndWrites DEF Login!Final
    <3>3. QED
      BY <1>8, <3>1, <3>2 DEF Login!ReportFailed
  <2>3. lost' \in 0..MaxFaults
    BY <1>0, <2>0, LoginSizes DEF Login!Fault, Login!TypeOK
  <2>4. WorkerMoves(w, "poll", mine)
    BY <2>0, <2>1, <2>2 DEF WorkerMoves, LoginPlaces, Working
  <2>5. Login!TypeOK'
    BY <1>0, <1>2, <2>0, <2>1, <2>2, <2>3, <2>4 DEF Login!TypeOK, LoginPlaces
  <2>6. QED
    BY <2>1, <2>4, <2>5 DEF LoginPlaces
<1>9. CASE Login!Crash(w)
  <2>0. /\ UNCHANGED <<login, asked, task, job, issued, lost>>
        /\ at' = [at EXCEPT ![w] = "poll"]
        /\ session' = [session EXCEPT ![w] = session[w]]
        /\ exits' \in 0..MaxCrashes
    BY <1>0, <1>9, LoginSizes DEF Login!Crash, Login!Go, Login!TypeOK
  <2>1. PICK mine \in SUBSET LoginModels :
            mine = session[w] /\ session' = [session EXCEPT ![w] = mine]
    BY <1>0, <2>0 DEF Login!TypeOK
  <2>2. WorkerMoves(w, "poll", mine)
    BY <2>0, <2>1 DEF WorkerMoves, LoginPlaces, Working, RowMoves
  <2>3. Login!TypeOK'
    BY <1>0, <1>2, <2>0, <2>1, <2>2 DEF Login!TypeOK, LoginPlaces
  <2>4. QED
    BY <2>1, <2>2, <2>3 DEF LoginPlaces
<1>10. QED
  BY <1>3, <1>4, <1>5, <1>6, <1>7, <1>8, <1>9 DEF Login!RunLogin, Login!Window

-----------------------------------------------------------------------------
(* The steps of requesters, polls and time.                                 *)

LEMMA SelectKeeps == LoginInv /\ Login!Select("q1") => LoginInv' /\ RowsStand
<1> SUFFICES ASSUME LoginInv, Login!Select("q1") PROVE LoginInv' /\ RowsStand
  OBVIOUS
<1>1. PICK m \in LoginModels : Login!OpenFor(m) = {} /\ asked' = [asked EXCEPT !["q1"] = m]
  BY DEF Login!Select
<1>2. UNCHANGED <<login, task, at, job, session, issued, lost, exits>>
  BY DEF Login!Select
<1>3. Login!TypeOK'
  BY <1>1, <1>2 DEF LoginInv, Login!TypeOK
<1>4. RowsStand
  BY <1>2 DEF RowsStand
<1>5. asked'["q1"] = m
  BY <1>1 DEF LoginInv, Login!TypeOK
<1>6. LoginRows'
  BY <1>1, <1>4, <1>5, StandingRows DEF LoginInv
<1>7. LoginTokens'
  BY <1>2 DEF LoginInv, LoginTokens, Login!Used, Login!Logins
<1>8. LoginSessions'
  BY <1>2 DEF LoginInv, LoginSessions, Login!Used, Login!ModelOf, Login!ReadyHasSession
<1>9. QED
  BY <1>3, <1>4, <1>6, <1>7, <1>8 DEF LoginInv

LEMMA InsertKeeps ==
    LoginInv /\ Login!Insert("q1")
    => LoginInv' /\ \A i \in Login!Logins : login[i].status \in Login!Final => login'[i] = login[i]
<1> SUFFICES ASSUME LoginInv, Login!Insert("q1")
    PROVE  LoginInv' /\ \A i \in Login!Logins :
                            login[i].status \in Login!Final => login'[i] = login[i]
  OBVIOUS
<1>0. /\ Login!TypeOK /\ LoginRows /\ LoginTokens /\ LoginSessions
      /\ UNCHANGED <<task, at, job, session, issued, lost, exits>>
      /\ asked' = [asked EXCEPT !["q1"] = "none"] /\ asked["q1"] # "none"
  BY DEF LoginInv, Login!Insert
<1>1. PICK n \in 0..MaxLogins : Login!Used = 1..n
  BY <1>0 DEF LoginRows
<1>2. Cardinality(Login!Used) = n
  BY <1>1, FS_Interval, LoginSizes
<1>3. PICK m \in LoginModels : m = asked["q1"]
  BY <1>0 DEF Login!TypeOK
<1> DEFINE k == n + 1
           fresh == [Login!NoRow EXCEPT !.status = "queued", !.model = m]
<1>4. /\ fresh \in Login!Row /\ fresh.status = "queued" /\ fresh.model = m
      /\ fresh.token = 0
  BY DEF Login!Row, Login!NoRow, Login!Nothing, Login!Open
<1>5. k \in Login!Logins /\ k \notin Login!Used /\ k \in 1..MaxLogins
  BY <1>1, <1>2, LoginSame, LoginSizes DEF Login!Insert, Login!Logins
<1>6. login' = [login EXCEPT ![k] = fresh]
  BY <1>2, <1>3, LoginSame DEF Login!Insert
<1> HIDE DEF fresh
<1>7. login \in [Login!Logins -> Login!Row] /\ asked \in [{"q1"} -> LoginModels \cup {"none"}]
  BY <1>0 DEF Login!TypeOK
<1>8. /\ login'[k] = fresh /\ login[k].status = "absent"
      /\ \A i \in Login!Logins : i # k => login'[i] = login[i]
  BY <1>5, <1>6, <1>7 DEF Login!Used
<1>9. Login!Used' = Login!Used \cup {k}
  BY <1>4, <1>5, <1>8 DEF Login!Used
<1>10. \A i \in Login!Used : i \in Login!Logins /\ i # k /\ i < k
  BY <1>1, <1>5, LoginSizes DEF Login!Used
<1>11. Login!TypeOK'
  <2>1. login' \in [Login!Logins -> Login!Row]
    BY <1>4, <1>5, <1>6, <1>7
  <2>2. asked' \in [{"q1"} -> LoginModels \cup {"none"}]
    BY <1>0, <1>7
  <2>3. QED
    BY <1>0, <2>1, <2>2 DEF Login!TypeOK
<1>12. LoginRows'
  <2>1. Login!Used' = 1..k /\ k \in 0..MaxLogins
    BY <1>1, <1>5, <1>9, LoginSizes
  <2>2. asked'["q1"] = "none"
    BY <1>0, <1>7
  <2>3. \A i \in Login!Used' : login'[i].model \in LoginModels
    BY <1>0, <1>4, <1>8, <1>9, <1>10 DEF LoginRows
  <2>4. ASSUME NEW i \in Login!Used', NEW j \in Login!Used', i < j,
               login'[i].model = login'[j].model
        PROVE  login'[i].status \in Login!Final
    <3>1. i \in Login!Used /\ login'[i] = login[i]
      BY <1>8, <1>9, <1>10, <2>4, <2>1, LoginSizes
    <3>2. CASE j \in Login!Used
      BY <1>0, <1>8, <1>10, <2>4, <3>1, <3>2 DEF LoginRows
    <3>3. CASE j = k
      <4>1. login[i].model = m
        BY <1>4, <1>8, <2>4, <3>1, <3>3
      <4>2. login[i].status \notin Login!Open
        BY <1>0, <1>3, <3>1, <4>1 DEF LoginRows, Login!OpenFor
      <4>3. login[i] \in Login!Row /\ login[i].status # "absent"
        BY <1>7, <3>1 DEF Login!Used
      <4>4. QED
        BY <3>1, <4>2, <4>3 DEF Login!Row
    <3>4. QED
      BY <1>9, <3>2, <3>3
  <2>5. QED
    BY <2>1, <2>2, <2>3, <2>4 DEF LoginRows
<1>13. LoginTokens'
  <2>1. \A i \in Login!Logins :
            /\ login'[i].token # 0 => login'[i].status = "running" /\ login'[i].token <= issued
            /\ login'[i].status \in {"running", "ready"} => login'[i].worker \in Workers
    <3> TAKE i \in Login!Logins
    <3>1. CASE i = k
      BY <1>4, <1>8, <3>1
    <3>2. CASE i # k
      BY <1>0, <1>8, <3>2 DEF LoginTokens
    <3>3. QED
      BY <3>1, <3>2
  <2>2. ASSUME NEW w \in Workers, NEW i \in Login!Logins,
               login'[i].token = job[w].token, job[w].token # 0
        PROVE  i = job[w].id /\ login'[i].worker = w
    BY <1>0, <1>4, <1>8, <2>2 DEF LoginTokens
  <2>3. \A w \in Workers : /\ job[w].token <= issued
                            /\ at[w] # "poll" => job[w].id \in Login!Used' /\ job[w].token # 0
    BY <1>0, <1>9 DEF LoginTokens
  <2>4. QED
    BY <1>0, <2>1, <2>2, <2>3 DEF LoginTokens, Login!Logins
<1>14. LoginSessions'
  <2>1. \A w \in Workers : at[w] # "poll" => Login!ModelOf(w)' = Login!ModelOf(w)
    BY <1>0, <1>8, <1>10 DEF LoginTokens, Login!ModelOf
  <2>2. \A w \in Workers :
            at'[w] = "report" /\ Login!ModelOf(w)' \in DirectModels
            => Login!ModelOf(w)' \in session'[w]
    BY <1>0, <2>1 DEF LoginSessions
  <2>3. ASSUME NEW w \in Workers, NEW i \in Login!Used', at'[w] \in Working,
               login'[i].status = "ready", login'[i].worker = w,
               login'[i].model = Login!ModelOf(w)'
        PROVE  i < job'[w].id
    <3>1. i \in Login!Used /\ login'[i] = login[i]
      BY <1>4, <1>8, <1>9, <1>10, <2>3
    <3>2. login[i].model = Login!ModelOf(w)
      BY <1>0, <2>1, <2>3, <3>1 DEF Working
    <3>3. QED
      BY <1>0, <2>3, <3>1, <3>2 DEF LoginSessions, Working
  <2>4. ASSUME NEW i \in Login!Used', login'[i].status = "ready", login'[i].model \in DirectModels,
               \A j \in Login!Used' : j > i => login'[j].model # login'[i].model
        PROVE  login'[i].model \in session'[login'[i].worker]
    <3>1. i \in Login!Used /\ login'[i] = login[i]
      BY <1>4, <1>8, <1>9, <1>10, <2>4
    <3>2. \A j \in Login!Used : j > i => login[j].model # login[i].model
      BY <1>8, <1>9, <1>10, <2>4, <3>1
    <3>3. QED
      BY <1>0, <2>4, <3>1, <3>2 DEF LoginSessions, Login!ReadyHasSession
  <2>5. Login!ReadyHasSession'
    BY <2>4 DEF Login!ReadyHasSession
  <2>6. QED
    BY <2>2, <2>3, <2>5 DEF LoginSessions, Working
<1>15. \A i \in Login!Logins : login[i].status \in Login!Final => login'[i] = login[i]
  BY <1>8 DEF Login!Final
<1>16. QED
  BY <1>11, <1>12, <1>13, <1>14, <1>15 DEF LoginInv

\* A row grows older: its lease passes, or it goes back to the queue.
Aged(i) ==
    \/ login'[i] = login[i]
    \/ /\ login[i].status = "running" /\ login'[i].model = login[i].model
       /\ \/ /\ login'[i].status = "running" /\ login'[i].token = login[i].token
             /\ login'[i].worker = login[i].worker
          \/ login'[i].status = "queued" /\ login'[i].token = 0

LEMMA AgedKeeps ==
    ASSUME LoginInv, \A i \in Login!Logins : Aged(i),
           login' \in [Login!Logins -> Login!Row], task' \in {"waiting", "served"},
           UNCHANGED <<asked, at, job, session, issued, lost, exits>>
    PROVE  LoginInv' /\ RowsStand
<1>0. Login!TypeOK /\ LoginRows /\ LoginTokens /\ LoginSessions
  BY DEF LoginInv
<1>1. Login!TypeOK'
  BY <1>0 DEF Login!TypeOK
<1>2. RowsStand
  BY DEF Aged, RowsStand, Login!Final, Login!Open
<1>3. LoginRows'
  BY <1>0, <1>2, StandingRows DEF LoginRows
<1>4. Login!Used' = Login!Used
  BY <1>2 DEF RowsStand, Login!Used
<1>5. \A i \in Login!Used : i \in Login!Logins
  BY DEF Login!Used
<1>6. LoginTokens'
  <2>1. \A i \in Login!Logins :
            /\ login'[i].token # 0 => login'[i].status = "running" /\ login'[i].token <= issued'
            /\ login'[i].status \in {"running", "ready"} => login'[i].worker \in Workers
    BY <1>0 DEF LoginTokens, Aged
  <2>2. ASSUME NEW w \in Workers, NEW i \in Login!Logins,
               login'[i].token = job'[w].token, job'[w].token # 0
        PROVE  i = job'[w].id /\ login'[i].worker = w
    BY <1>0, <2>2 DEF LoginTokens, Aged
  <2>3. \A w \in Workers :
            /\ job'[w].token <= issued'
            /\ at'[w] # "poll" => job'[w].id \in Login!Used' /\ job'[w].token # 0
    BY <1>0, <1>4 DEF LoginTokens
  <2>4. QED
    BY <2>1, <2>2, <2>3 DEF LoginTokens, Login!Logins
<1>7. LoginSessions'
  <2>1. \A w \in Workers : at[w] # "poll" => Login!ModelOf(w)' = Login!ModelOf(w)
    BY <1>0, <1>2, <1>5 DEF LoginTokens, Login!ModelOf, RowsStand
  <2>2. \A w \in Workers :
            at'[w] = "report" /\ Login!ModelOf(w)' \in DirectModels
            => Login!ModelOf(w)' \in session'[w]
    <3> TAKE w \in Workers
    <3> HAVE at'[w] = "report" /\ Login!ModelOf(w)' \in DirectModels
    <3>1. at[w] = "report" /\ Login!ModelOf(w)' = Login!ModelOf(w)
      BY <2>1
    <3>2. QED
      BY <1>0, <3>1 DEF LoginSessions
  <2>3. \A i \in Login!Logins : login'[i].status = "ready" => login'[i] = login[i]
    BY DEF Aged
  <2>4. ASSUME NEW w \in Workers, NEW i \in Login!Used, at'[w] \in Working,
               login'[i].status = "ready", login'[i].worker = w,
               login'[i].model = Login!ModelOf(w)'
        PROVE  i < job'[w].id
    <3>1. login'[i] = login[i] /\ login[i].model = Login!ModelOf(w)
      BY <1>5, <2>1, <2>3, <2>4 DEF Working
    <3>2. QED
      BY <1>0, <2>4, <3>1 DEF LoginSessions, Working
  <2>5. ASSUME NEW i \in Login!Used, login'[i].status = "ready", login'[i].model \in DirectModels,
               \A j \in Login!Used : j > i => login'[j].model # login'[i].model
        PROVE  login'[i].model \in session'[login'[i].worker]
    <3>1. login'[i] = login[i] /\ \A j \in Login!Used : j > i => login[j].model # login[i].model
      BY <1>2, <1>5, <2>3, <2>5 DEF RowsStand
    <3>2. QED
      BY <1>0, <2>5, <3>1 DEF LoginSessions, Login!ReadyHasSession
  <2>6. Login!ReadyHasSession'
    BY <1>4, <2>5 DEF Login!ReadyHasSession
  <2>7. QED
    BY <1>4, <2>2, <2>4, <2>6 DEF LoginSessions, Working
<1>8. QED
  BY <1>1, <1>2, <1>3, <1>6, <1>7 DEF LoginInv

LEMMA TaskServedKeeps ==
    ASSUME LoginInv, NEW w \in Workers, Login!PollTask(w) PROVE LoginInv' /\ RowsStand
<1>1. Login!TypeOK
  BY DEF LoginInv
<1>2. /\ login' = Login!Rows /\ task' \in {"waiting", "served"}
      /\ UNCHANGED <<asked, at, job, session, issued, lost, exits>>
  BY DEF Login!PollTask
<1>3. \A i \in Login!Logins : Aged(i)
  BY <1>1, <1>2, Requeueing DEF Requeue, Aged
<1>4. login' \in [Login!Logins -> Login!Row]
  <2>1. Login!Rows = [i \in Login!Logins |-> Login!Rows[i]]
    BY DEF Login!Rows
  <2>2. QED
    BY <1>1, <1>2, <2>1, Requeueing
<1>5. QED
  BY <1>2, <1>3, <1>4, AgedKeeps

LEMMA LeaseKeeps ==
    ASSUME LoginInv, NEW i \in Login!Logins, Login!LeasePasses(i) PROVE LoginInv' /\ RowsStand
<1>0. Login!TypeOK
  BY DEF LoginInv
<1>1. PICK row \in Login!Row : row = login[i] /\ row.status = "running"
  BY <1>0 DEF Login!TypeOK, Login!LeasePasses
<1> DEFINE new == [row EXCEPT !.expired = TRUE]
<1>2. /\ new \in Login!Row /\ new.status = "running" /\ new.token = row.token
      /\ new.model = row.model /\ new.worker = row.worker
  BY <1>1 DEF Login!Row
<1>3. login' = [login EXCEPT ![i] = new]
  BY <1>1 DEF Login!LeasePasses
<1> HIDE DEF new
<1>4. login' \in [Login!Logins -> Login!Row] /\ \A j \in Login!Logins : Aged(j)
  BY <1>0, <1>1, <1>2, <1>3 DEF Login!TypeOK, Aged
<1>5. task' \in {"waiting", "served"} /\ UNCHANGED <<asked, at, job, session, issued, lost, exits>>
  BY <1>0 DEF Login!TypeOK, Login!LeasePasses
<1>6. QED
  BY <1>4, <1>5, AgedKeeps

LEMMA PollKeeps ==
    ASSUME LoginInv, NEW w \in Workers, Login!PollLogin(w) PROVE LoginInv' /\ RowsStand
<1>0. Login!TypeOK /\ LoginRows /\ LoginTokens /\ LoginSessions
  BY DEF LoginInv
<1>1. PICK k \in Login!Logins :
        /\ login' \in [Login!Logins -> Login!Row]
        /\ issued' = issued + 1 /\ issued' \in 0..MaxTokens
        /\ Given(w, k)
        /\ \A i \in Login!Logins : i # k => Requeue(login[i], login'[i])
        /\ \/ /\ at' = [at EXCEPT ![w] = "begin"]
              /\ job' = [job EXCEPT ![w] = [id |-> k, token |-> issued + 1]]
           \/ UNCHANGED <<at, job>>
        /\ UNCHANGED <<asked, task, session>>
  BY <1>0, Claiming
<1>2. /\ issued \in Nat /\ \A v \in Workers : job[v].token \in Nat
      /\ \A i \in Login!Logins : login[i].token \in Nat
  <2>1. \A v \in Workers : job[v] \in [id : {Login!Nothing} \cup Login!Logins,
                                        token : {Login!Nothing} \cup Login!Tokens]
    BY <1>0 DEF Login!TypeOK
  <2>2. \A i \in Login!Logins : login[i] \in Login!Row
    BY <1>0 DEF Login!TypeOK
  <2>3. {Login!Nothing} \cup Login!Tokens \subseteq Nat
    BY LoginSizes DEF Login!Nothing, Login!Tokens
  <2>4. QED
    BY <1>0, <2>1, <2>2, <2>3 DEF Login!TypeOK, Login!Row
<1>3. at[w] = "poll"
  BY DEF Login!PollLogin
<1>4. lost' \in 0..MaxFaults /\ exits' = exits
  BY <1>0, LoginSizes DEF Login!PollLogin, Login!Fault, Login!TypeOK
<1>5. /\ \A v \in Workers : v # w => at'[v] = at[v] /\ job'[v] = job[v]
      /\ \/ at'[w] = "begin" /\ job'[w].id = k /\ job'[w].token = issued + 1
         \/ at'[w] = "poll" /\ job'[w] = job[w]
      /\ at' \in [Workers -> LoginPlaces]
      /\ job' \in [Workers -> [id : {Login!Nothing} \cup Login!Logins,
                               token : {Login!Nothing} \cup Login!Tokens]]
  <2>1. at \in [Workers -> LoginPlaces]
        /\ job \in [Workers -> [id : {Login!Nothing} \cup Login!Logins,
                                 token : {Login!Nothing} \cup Login!Tokens]]
    BY <1>0 DEF Login!TypeOK, LoginPlaces
  <2>2. issued + 1 \in Login!Tokens
    BY <1>1, <1>2, LoginSizes DEF Login!Tokens
  <2>3. CASE UNCHANGED <<at, job>>
    BY <1>3, <2>1, <2>3
  <2>4. CASE /\ at' = [at EXCEPT ![w] = "begin"]
             /\ job' = [job EXCEPT ![w] = [id |-> k, token |-> issued + 1]]
    BY <1>1, <2>1, <2>2, <2>4 DEF LoginPlaces
  <2>5. QED
    BY <1>1, <2>3, <2>4
<1>6. Login!TypeOK'
  BY <1>0, <1>1, <1>4, <1>5 DEF Login!TypeOK, LoginPlaces
<1>7. RowsStand
  BY <1>1 DEF RowsStand, Requeue, Given, Login!Open, Login!Final
<1>8. LoginRows'
  BY <1>0, <1>1, <1>7, StandingRows DEF LoginRows
<1>9. Login!Used' = Login!Used
  BY <1>7 DEF RowsStand, Login!Used
<1>10. k \in Login!Used /\ \A i \in Login!Used : i \in Login!Logins
  BY <1>1 DEF Given, Login!Used, Login!Open
<1>11. LoginTokens'
  <2>1. \A i \in Login!Logins :
            /\ login'[i].token # 0 => login'[i].status = "running" /\ login'[i].token <= issued'
            /\ login'[i].status \in {"running", "ready"} => login'[i].worker \in Workers
    <3> TAKE i \in Login!Logins
    <3>1. CASE i = k
      BY <1>1, <1>2, <3>1 DEF Given
    <3>2. CASE i # k
      BY <1>0, <1>1, <1>2, <3>2 DEF LoginTokens, Requeue
    <3>3. QED
      BY <3>1, <3>2
  <2>2. \A v \in Workers : job'[v].token <= issued'
    BY <1>0, <1>1, <1>2, <1>5 DEF LoginTokens
  <2>3. \A v \in Workers : at'[v] # "poll" => job'[v].id \in Login!Used' /\ job'[v].token # 0
    BY <1>0, <1>2, <1>5, <1>9, <1>10 DEF LoginTokens
  <2>4. ASSUME NEW v \in Workers, NEW i \in Login!Logins,
               login'[i].token = job'[v].token, job'[v].token # 0
        PROVE  i = job'[v].id /\ login'[i].worker = v
    <3>1. CASE i = k
      <4>1. job'[v].token = issued + 1
        BY <1>1, <2>4, <3>1 DEF Given
      <4>2. v = w /\ job'[v].id = k
        BY <1>0, <1>2, <1>5, <4>1 DEF LoginTokens
      <4>3. QED
        BY <1>1, <3>1, <4>2 DEF Given
    <3>2. CASE i # k
      <4>1. login'[i] = login[i]
        BY <1>1, <2>4, <3>2 DEF Requeue
      <4>2. login[i].token <= issued
        BY <1>0, <1>2, <2>4, <4>1 DEF LoginTokens
      <4>3. job'[v] = job[v]
        BY <1>2, <1>5, <2>4, <4>1, <4>2
      <4>4. QED
        BY <1>0, <2>4, <4>1, <4>3 DEF LoginTokens
    <3>3. QED
      BY <3>1, <3>2
  <2>5. QED
    BY <2>1, <2>2, <2>3, <2>4 DEF LoginTokens, Login!Logins
<1>12. LoginSessions'
  <2>1. \A v \in Workers : at'[v] # "poll" /\ at'[v] # "begin" => job'[v] = job[v] /\ at'[v] = at[v]
    BY <1>5
  <2>2. \A v \in Workers : at[v] # "poll" /\ job'[v] = job[v] => Login!ModelOf(v)' = Login!ModelOf(v)
    BY <1>0, <1>7, <1>10 DEF LoginTokens, Login!ModelOf, RowsStand
  <2>3. \A v \in Workers :
            at'[v] = "report" /\ Login!ModelOf(v)' \in DirectModels
            => Login!ModelOf(v)' \in session'[v]
    BY <1>0, <1>1, <2>1, <2>2 DEF LoginSessions
  <2>4. \A i \in Login!Logins : login'[i].status = "ready" => login'[i] = login[i] /\ i # k
    BY <1>1 DEF Requeue, Given
  <2>5. ASSUME NEW v \in Workers, NEW i \in Login!Used, at'[v] \in Working,
               login'[i].status = "ready", login'[i].worker = v,
               login'[i].model = Login!ModelOf(v)'
        PROVE  i < job'[v].id
    <3>1. login'[i] = login[i] /\ i # k
      BY <1>10, <2>4, <2>5
    <3>2. CASE job'[v] = job[v] /\ at'[v] = at[v]
      BY <1>0, <2>2, <2>5, <3>1, <3>2 DEF LoginSessions, Working
    <3>3. CASE v = w /\ job'[w].id = k
      <4>1. login[k].model = login[i].model
        BY <1>1, <2>5, <3>1, <3>3 DEF Given, Login!ModelOf
      <4>2. login[k].status \notin Login!Final
        BY <1>1 DEF Given, Login!Open, Login!Final
      <4>3. ~(k < i)
        BY <1>0, <1>10, <4>1, <4>2 DEF LoginRows
      <4>4. i \in Nat /\ k \in Nat
        BY <1>10, LoginSizes DEF Login!Logins
      <4>5. QED
        BY <3>1, <3>3, <4>3, <4>4
    <3>4. at'[w] = "poll" => v # w
      BY <2>5 DEF Working
    <3>5. QED
      BY <1>5, <3>2, <3>3, <3>4
  <2>6. ASSUME NEW i \in Login!Used, login'[i].status = "ready", login'[i].model \in DirectModels,
               \A j \in Login!Used : j > i => login'[j].model # login'[i].model
        PROVE  login'[i].model \in session'[login'[i].worker]
    <3>1. login'[i] = login[i] /\ \A j \in Login!Used : j > i => login[j].model # login[i].model
      BY <1>7, <1>10, <2>4, <2>6 DEF RowsStand
    <3>2. QED
      BY <1>0, <1>1, <2>6, <3>1 DEF LoginSessions, Login!ReadyHasSession
  <2>7. Login!ReadyHasSession'
    BY <1>9, <2>6 DEF Login!ReadyHasSession
  <2>8. QED
    BY <1>9, <2>3, <2>5, <2>7 DEF LoginSessions, Working
<1>13. QED
  BY <1>6, <1>7, <1>8, <1>11, <1>12 DEF LoginInv

\* Ends of logins stand, in every step.
LEMMA LoginKeeps ==
    LoginInv /\ Login!Next
    => LoginInv' /\ \A i \in Login!Logins : login[i].status \in Login!Final => login'[i] = login[i]
<1> SUFFICES ASSUME LoginInv, Login!Next
    PROVE  LoginInv' /\ \A i \in Login!Logins :
                            login[i].status \in Login!Final => login'[i] = login[i]
  OBVIOUS
<1>1. ASSUME LoginInv', RowsStand
      PROVE  LoginInv' /\ \A i \in Login!Logins :
                              login[i].status \in Login!Final => login'[i] = login[i]
  BY <1>1 DEF RowsStand
<1>2. CASE Login!Select("q1")
  BY <1>1, <1>2, SelectKeeps
<1>3. CASE Login!Insert("q1")
  BY <1>3, InsertKeeps
<1>4. ASSUME NEW w \in Workers, Login!Poll(w) PROVE LoginInv' /\ RowsStand
  BY <1>4, PollKeeps, TaskServedKeeps DEF Login!Poll
<1>5. ASSUME NEW w \in Workers,
             \/ Login!RunLogin(w) \/ Login!Window(w) \/ Login!Waiting(w) \/ Login!Crash(w)
      PROVE  LoginInv' /\ RowsStand
  BY <1>5, LoginSteps, WorkerKeeps
<1>6. ASSUME NEW i \in Login!Logins, Login!LeasePasses(i) PROVE LoginInv' /\ RowsStand
  BY <1>6, LeaseKeeps
<1>7. QED
  BY <1>1, <1>2, <1>3, <1>4, <1>5, <1>6 DEF Login!Next

LEMMA LoginHolds ==
    LoginInv => Login!TypeOK /\ Login!OneOpenPerModel /\ Login!ReadyHasSession
<1> SUFFICES ASSUME LoginInv PROVE Login!OneOpenPerModel
  BY DEF LoginInv, LoginSessions
<1>1. ASSUME NEW i \in Login!Logins, NEW j \in Login!Logins, i < j,
             login[i].status \in Login!Open, login[j].status \in Login!Open
      PROVE  login[i].model # login[j].model
  <2>1. i \in Login!Used /\ j \in Login!Used /\ login[i].status \notin Login!Final
    BY <1>1 DEF Login!Used, Login!Open, Login!Final
  <2>2. QED
    BY <1>1, <2>1 DEF LoginInv, LoginRows
<1>2. \A i, j \in Login!Logins : i # j => i < j \/ j < i
  BY LoginSizes DEF Login!Logins
<1>3. QED
  BY <1>1, <1>2 DEF Login!OneOpenPerModel

\* An element more, an element less.
LEMMA AddingOne ==
    ASSUME NEW S, IsFiniteSet(S), NEW x
    PROVE  /\ IsFiniteSet(S \cup {x}) /\ IsFiniteSet(S \ {x})
           /\ Cardinality(S) \in Nat
           /\ Cardinality(S \cup {x}) \in Nat /\ Cardinality(S \ {x}) \in Nat
           /\ Cardinality(S \cup {x}) <= Cardinality(S) + 1
           /\ x \notin S => Cardinality(S \cup {x}) = Cardinality(S) + 1
           /\ x \in S => Cardinality(S) = Cardinality(S \ {x}) + 1
<1>1. IsFiniteSet(S \cup {x}) /\ IsFiniteSet(S \ {x})
  BY FS_AddElement, FS_RemoveElement
<1>2. /\ Cardinality(S) \in Nat
      /\ Cardinality(S \cup {x}) \in Nat /\ Cardinality(S \ {x}) \in Nat
  BY <1>1, FS_CardinalityType
<1>3. Cardinality(S \cup {x}) = IF x \in S THEN Cardinality(S) ELSE Cardinality(S) + 1
  BY FS_AddElement
<1>4. Cardinality(S \ {x}) = IF x \in S THEN Cardinality(S) - 1 ELSE Cardinality(S)
  BY FS_RemoveElement
<1>5. QED
  BY <1>1, <1>2, <1>3, <1>4

-----------------------------------------------------------------------------
(* Collections on a host.                                                   *)

HostPlaces == {"idle", "waiting", "gate", "child", "leaving"}

\* The collections of a process that hold a slot.
SlotHolders(p) == {m \in HostModels : collecting[p, m] \in {"gate", "child"}}

HostPools ==
    /\ collecting \in [Host!Collections -> HostPlaces]
    /\ active \in [Processes -> SUBSET HostModels]
    /\ marker \in [HostModels \X Host!Pids -> Host!Ages]
    /\ pid \in [Processes -> Host!Pids]
    /\ free \in [Processes -> 0..HostSlots]
    /\ running \subseteq Host!Programs
    /\ wrote \in [Host!Collections -> Host!Ages]
    /\ hosted \in 0..MaxRuns /\ deaths \in 0..MaxDeaths
    /\ \A p \in Processes : free[p] = HostSlots - Cardinality(SlotHolders(p))

LEMMA HostSame == \A S : /\ Host!IsFiniteSet(S) <=> IsFiniteSet(S)
                         /\ Host!Cardinality(S) = Cardinality(S)
BY DEF Host!IsFiniteSet, IsFiniteSet, Host!Cardinality, Cardinality

LEMMA HostSizes ==
    /\ IsFiniteSet(HostModels)
    /\ HostSlots \in Nat /\ MaxRuns \in Nat /\ MaxDeaths \in Nat
    /\ \A p : /\ Cardinality(SlotHolders(p)) \in Nat /\ IsFiniteSet(SlotHolders(p))
              /\ Cardinality(SlotHolders(p)') \in Nat
<1>1. /\ IsFiniteSet(HostModels)
      /\ HostSlots \in Nat /\ MaxRuns \in Nat /\ MaxDeaths \in Nat
  BY HostAssumption, HostSame DEF Host!HostAssumption
<1>2. ASSUME NEW p PROVE IsFiniteSet(SlotHolders(p)) /\ IsFiniteSet(SlotHolders(p)')
  BY <1>1, FS_Subset DEF SlotHolders
<1>3. QED
  BY <1>1, <1>2, FS_CardinalityType

\* The first processes and their successors have process ids.
LEMMA HostPids ==
    /\ \A p \in Processes : p \in Host!Pids
    /\ \A d \in 0..MaxDeaths : Cardinality(Processes) + d \in Host!Pids
<1>1. /\ IsFiniteSet(Processes)
      /\ Processes = 1..Cardinality(Processes) /\ MaxDeaths \in Nat
      /\ Host!Pids = 0..(Cardinality(Processes) + MaxDeaths)
  BY HostAssumption, HostSame DEF Host!HostAssumption, Host!Pids
<1>2. Cardinality(Processes) \in Nat
  BY <1>1, FS_CardinalityType
<1> DEFINE n == Cardinality(Processes)
<1>3. /\ Processes = 1..n /\ n \in Nat /\ MaxDeaths \in Nat
      /\ Host!Pids = 0..(n + MaxDeaths)
  BY <1>1, <1>2
<1> HIDE DEF n
<1>4. (\A p \in 1..n : p \in 0..(n + MaxDeaths)) /\ \A d \in 0..MaxDeaths : n + d \in 0..(n + MaxDeaths)
  BY <1>3
<1>5. QED
  BY <1>3, <1>4 DEF n

LEMMA HostPoolsStart == Host!Init => HostPools
<1> SUFFICES ASSUME Host!Init PROVE HostPools
  OBVIOUS
<1>1. collecting = [c \in Processes \X HostModels |-> "idle"]
  BY DEF Host!Init, Host!Collections
<1>2. \A p \in Processes : SlotHolders(p) = {}
  BY <1>1 DEF SlotHolders
<1>3. \A p \in Processes : free[p] = HostSlots - Cardinality(SlotHolders(p))
  BY <1>2, HostSizes, FS_EmptySet DEF Host!Init
<1>4. free \in [Processes -> 0..HostSlots] /\ hosted \in 0..MaxRuns /\ deaths \in 0..MaxDeaths
  BY HostSizes DEF Host!Init
<1>5. pid \in [Processes -> Host!Pids]
  BY HostPids DEF Host!Init
<1>6. QED
  BY <1>3, <1>4, <1>5 DEF Host!Init, HostPools, HostPlaces, Host!Ages

\* What a move of one collection does to the holders of slots.
LEMMA HoldersAfter ==
    ASSUME HostPools, NEW c \in Host!Collections, NEW to \in HostPlaces, Host!Goes(c, to)
    PROVE  /\ collecting' \in [Host!Collections -> HostPlaces]
           /\ \A p \in Processes : p # c[1] => SlotHolders(p)' = SlotHolders(p)
           /\ (collecting[c] \in {"gate", "child"} <=> to \in {"gate", "child"}) =>
                 SlotHolders(c[1])' = SlotHolders(c[1])
           /\ collecting[c] \notin {"gate", "child"} /\ to \in {"gate", "child"} =>
                 Cardinality(SlotHolders(c[1])') = Cardinality(SlotHolders(c[1])) + 1
           /\ collecting[c] \in {"gate", "child"} /\ to \notin {"gate", "child"} =>
                 Cardinality(SlotHolders(c[1])') = Cardinality(SlotHolders(c[1])) - 1
<1>1. PICK q \in Processes, m \in HostModels : c = <<q, m>>
  BY DEF Host!Collections
<1>2. /\ collecting' \in [Host!Collections -> HostPlaces]
      /\ \A p \in Processes, n \in HostModels :
            collecting'[p, n] = IF p = q /\ n = m THEN to ELSE collecting[p, n]
  BY <1>1 DEF Host!Goes, HostPools, Host!Collections
<1>3. \A p \in Processes : p # q => SlotHolders(p)' = SlotHolders(p)
  BY <1>2 DEF SlotHolders
<1>4. (collecting[q, m] \in {"gate", "child"} <=> to \in {"gate", "child"}) =>
        SlotHolders(q)' = SlotHolders(q)
  BY <1>2 DEF SlotHolders
<1>5. ASSUME collecting[q, m] \notin {"gate", "child"}, to \in {"gate", "child"}
      PROVE  Cardinality(SlotHolders(q)') = Cardinality(SlotHolders(q)) + 1
  <2>1. SlotHolders(q)' = SlotHolders(q) \cup {m} /\ m \notin SlotHolders(q)
    BY <1>2, <1>5 DEF SlotHolders
  <2>2. QED
    BY <2>1, HostSizes, AddingOne
<1>6. ASSUME collecting[q, m] \in {"gate", "child"}, to \notin {"gate", "child"}
      PROVE  Cardinality(SlotHolders(q)') = Cardinality(SlotHolders(q)) - 1
  <2>1. SlotHolders(q)' = SlotHolders(q) \ {m} /\ m \in SlotHolders(q)
    BY <1>2, <1>6 DEF SlotHolders
  <2>2. Cardinality(SlotHolders(q)) = Cardinality(SlotHolders(q)') + 1
    BY <2>1, HostSizes, AddingOne
  <2>3. QED
    BY <2>2, HostSizes
<1>7. QED
  BY <1>1, <1>2, <1>3, <1>4, <1>5, <1>6

\* The counter of a process follows the holders of its slots.
LEMMA FreeAfter ==
    ASSUME HostPools, NEW q \in Processes,
           \A p \in Processes : p # q => SlotHolders(p)' = SlotHolders(p),
           \/ /\ free[q] > 0 /\ free' = [free EXCEPT ![q] = free[q] - 1]
              /\ Cardinality(SlotHolders(q)') = Cardinality(SlotHolders(q)) + 1
           \/ /\ free' = [free EXCEPT ![q] = free[q] + 1]
              /\ Cardinality(SlotHolders(q)') = Cardinality(SlotHolders(q)) - 1
    PROVE  /\ free' \in [Processes -> 0..HostSlots]
           /\ \A p \in Processes : free'[p] = HostSlots - Cardinality(SlotHolders(p)')
<1> DEFINE held == Cardinality(SlotHolders(q))
<1>1. held \in Nat /\ held' \in Nat /\ HostSlots \in Nat
  BY HostSizes
<1>2. free \in [Processes -> 0..HostSlots] /\ free[q] = HostSlots - held
  BY DEF HostPools
<1>3. PICK n \in 0..HostSlots : free' = [free EXCEPT ![q] = n] /\ n = HostSlots - held'
  <2>1. CASE free[q] > 0 /\ free' = [free EXCEPT ![q] = free[q] - 1] /\ held' = held + 1
    <3>1. free[q] - 1 \in 0..HostSlots /\ free[q] - 1 = HostSlots - held'
      BY <1>1, <1>2, <2>1
    <3>2. QED
      BY <2>1, <3>1
  <2>2. CASE free' = [free EXCEPT ![q] = free[q] + 1] /\ held' = held - 1
    <3>1. free[q] + 1 \in 0..HostSlots /\ free[q] + 1 = HostSlots - held'
      BY <1>1, <1>2, <2>2
    <3>2. QED
      BY <2>2, <3>1
  <2>3. QED
    BY <2>1, <2>2
<1>4. QED
  BY <1>2, <1>3 DEF HostPools

\* A collection that comes, waits, runs or leaves keeps the count.
LEMMA CollectionStep ==
    ASSUME HostPools, NEW c \in Host!Collections, Host!Enter(c) \/ Host!Step(c)
    PROVE  HostPools'
<1>0. c[1] \in Processes /\ c[2] \in HostModels
  BY DEF Host!Collections
<1>1. \A p \in Processes : Cardinality(SlotHolders(p)) \in Nat /\ Cardinality(SlotHolders(p)') \in Nat
  BY HostSizes
<1>2. CASE Host!Enter(c)
  <2>1. /\ collecting' \in [Host!Collections -> HostPlaces]
        /\ \A p \in Processes : SlotHolders(p)' = SlotHolders(p)
    BY <1>2, HoldersAfter DEF Host!Enter, HostPlaces
  <2>2. /\ active' \in [Processes -> SUBSET HostModels]
        /\ marker' \in [HostModels \X Host!Pids -> Host!Ages]
        /\ wrote' \in [Host!Collections -> Host!Ages]
    BY <1>0, <1>2 DEF Host!Enter, HostPools, Host!Ages
  <2>3. hosted' \in 0..MaxRuns
    BY <1>2, HostSizes DEF Host!Enter, HostPools
  <2>4. QED
    BY <1>2, <2>1, <2>2, <2>3 DEF Host!Enter, Host!Calm, HostPools
<1>3. CASE Host!TakeSlot(c)
  <2>1. /\ collecting' \in [Host!Collections -> HostPlaces]
        /\ \A p \in Processes : p # c[1] => SlotHolders(p)' = SlotHolders(p)
        /\ Cardinality(SlotHolders(c[1])') = Cardinality(SlotHolders(c[1])) + 1
    BY <1>3, HoldersAfter DEF Host!TakeSlot, HostPlaces
  <2>2. free' = [free EXCEPT ![c[1]] = free[c[1]] - 1] /\ free[c[1]] > 0
    BY <1>3 DEF Host!TakeSlot
  <2>3. /\ free' \in [Processes -> 0..HostSlots]
        /\ \A p \in Processes : free'[p] = HostSlots - Cardinality(SlotHolders(p)')
    BY <1>0, <2>1, <2>2, FreeAfter
  <2>4. QED
    BY <1>3, <2>1, <2>3 DEF Host!TakeSlot, Host!Calm, HostPools
<1>4. ASSUME Host!Goes(c, "leaving"), collecting[c] \in {"gate", "child"},
             free' = [free EXCEPT ![c[1]] = @ + 1]
      PROVE  /\ collecting' \in [Host!Collections -> HostPlaces]
             /\ free' \in [Processes -> 0..HostSlots]
             /\ \A p \in Processes : free'[p] = HostSlots - Cardinality(SlotHolders(p)')
  <2>1. /\ collecting' \in [Host!Collections -> HostPlaces]
        /\ \A p \in Processes : p # c[1] => SlotHolders(p)' = SlotHolders(p)
        /\ Cardinality(SlotHolders(c[1])') = Cardinality(SlotHolders(c[1])) - 1
    BY <1>4, HoldersAfter DEF HostPlaces
  <2>2. QED
    BY <1>0, <1>4, <2>1, FreeAfter
<1>5. CASE Host!Gate(c)
  <2>1. collecting[c] \in {"gate", "child"}
    BY <1>5 DEF Host!Gate
  <2>2. CASE Host!Goes(c, "child") /\ UNCHANGED free /\ running' = running \cup ({c[2]} \cap Host!Programs)
    <3>1. /\ collecting' \in [Host!Collections -> HostPlaces]
          /\ \A p \in Processes : SlotHolders(p)' = SlotHolders(p)
      BY <2>1, <2>2, HoldersAfter DEF HostPlaces
    <3>2. QED
      BY <1>5, <2>2, <3>1 DEF Host!Gate, Host!Calm, HostPools
  <2>3. CASE Host!Goes(c, "leaving") /\ UNCHANGED running /\ free' = [free EXCEPT ![c[1]] = @ + 1]
    BY <1>4, <1>5, <2>1, <2>3 DEF Host!Gate, Host!Calm, HostPools
  <2>4. QED
    BY <1>5, <2>2, <2>3 DEF Host!Gate
<1>6. CASE Host!ChildEnds(c)
  BY <1>4, <1>6 DEF Host!ChildEnds, Host!Calm, HostPools
<1>7. CASE Host!Leave(c)
  <2>1. /\ collecting' \in [Host!Collections -> HostPlaces]
        /\ \A p \in Processes : SlotHolders(p)' = SlotHolders(p)
    BY <1>7, HoldersAfter DEF Host!Leave, HostPlaces
  <2>2. /\ active' \in [Processes -> SUBSET HostModels]
        /\ marker' \in [HostModels \X Host!Pids -> Host!Ages]
        /\ wrote' \in [Host!Collections -> Host!Ages]
    BY <1>0, <1>7 DEF Host!Leave, HostPools, Host!Ages
  <2>3. QED
    BY <1>7, <2>1, <2>2 DEF Host!Leave, Host!Calm, HostPools
<1>8. QED
  BY <1>2, <1>3, <1>5, <1>6, <1>7 DEF Host!Step

LEMMA HostPoolsKeep == HostPools /\ Host!Next => HostPools'
<1> SUFFICES ASSUME HostPools, Host!Next PROVE HostPools'
  OBVIOUS
<1>1. \A f \in DOMAIN marker : f \in HostModels \X Host!Pids
  BY DEF HostPools
<1>2. Host!Tidied \in [HostModels \X Host!Pids -> Host!Ages]
  BY DEF Host!Tidied, HostPools, Host!Ages
<1>3. collecting' = collecting => \A p \in Processes : SlotHolders(p)' = SlotHolders(p)
  BY DEF SlotHolders
<1>4. ASSUME NEW p \in Processes, Host!Supervise(p) PROVE HostPools'
  <2>1. marker' \in [HostModels \X Host!Pids -> Host!Ages] /\ running' \subseteq Host!Programs
    BY <1>2, <1>4 DEF Host!Supervise, Host!Look, Host!List, Host!Measure, Host!Close, HostPools
  <2>2. Host!Apart
    BY <1>4 DEF Host!Supervise, Host!Look, Host!List, Host!Measure, Host!Close
  <2>3. QED
    BY <1>3, <2>1, <2>2 DEF Host!Apart, HostPools
<1>5. ASSUME NEW p \in Processes, Host!Die(p) PROVE HostPools'
  <2>1. /\ deaths' \in 0..MaxDeaths
        /\ Cardinality(Processes) + deaths' \in Host!Pids
    BY <1>5, HostSizes, HostPids DEF Host!Die, HostPools
  <2>2. /\ pid' \in [Processes -> Host!Pids]
        /\ active' \in [Processes -> SUBSET HostModels]
    BY <1>5, <2>1, HostSame DEF Host!Die, HostPools
  <2>3. /\ collecting' \in [Host!Collections -> HostPlaces]
        /\ wrote' \in [Host!Collections -> Host!Ages]
        /\ \A q \in Processes, m \in HostModels :
              collecting'[q, m] = IF q = p THEN "idle" ELSE collecting[q, m]
    BY <1>5 DEF Host!Die, HostPools, HostPlaces, Host!Ages, Host!Collections
  <2>4. SlotHolders(p)' = {} /\ \A q \in Processes : q # p => SlotHolders(q)' = SlotHolders(q)
    BY <2>3 DEF SlotHolders
  <2>5. /\ free' \in [Processes -> 0..HostSlots]
        /\ \A q \in Processes : free'[q] = IF q = p THEN HostSlots ELSE free[q]
    BY <1>5, HostSizes DEF Host!Die, HostPools
  <2>6. \A q \in Processes : free'[q] = HostSlots - Cardinality(SlotHolders(q)')
    <3>1. Cardinality(SlotHolders(p)') = 0 /\ HostSlots = HostSlots - 0
      BY <2>4, HostSizes, FS_EmptySet
    <3>2. QED
      BY <2>4, <2>5, <3>1 DEF HostPools
  <2>7. QED
    BY <1>5, <2>1, <2>2, <2>3, <2>5, <2>6 DEF Host!Die, HostPools
<1>6. CASE Host!Expire
  <2>1. /\ marker' \in [HostModels \X Host!Pids -> Host!Ages]
        /\ wrote' \in [Host!Collections -> Host!Ages]
    BY <1>1, <1>6 DEF Host!Expire, HostPools, Host!Ages
  <2>2. QED
    BY <1>3, <1>6, <2>1 DEF Host!Expire, HostPools
<1>7. QED
  BY <1>4, <1>5, <1>6, CollectionStep DEF Host!Next

-----------------------------------------------------------------------------
(* What a supervisor saw.                                                   *)

HostEyes == [at : {"rest", "looked", "closing"}, seen : SUBSET HostModels,
             todo : SUBSET HostModels, busy : SUBSET HostModels]

\* Who collects is announced in its own process; an announcement that is
\* remembered as young is there; processes have ids of their own. What a
\* supervisor set out to close nobody collected with, and what it saw covers
\* everybody who did.
HostSeen ==
    /\ eye \in [Processes -> HostEyes]
    /\ \A c \in Host!Collections :
          /\ collecting[c] # "idle" => c[2] \in active[c[1]]
          /\ wrote[c] = "young" => marker[Host!Marker(c)] = "young"
    /\ \A p \in Processes : pid[p] <= Cardinality(Processes) + deaths
    /\ \A p, q \in Processes : pid[p] = pid[q] => p = q
    /\ \A p \in Processes :
          /\ eye[p].todo \cap eye[p].busy = {}
          /\ eye[p].at = "looked" => eye[p].busy \subseteq eye[p].seen

HostInv == HostPools /\ HostSeen

LEMMA MarkerAt ==
    ASSUME HostPools, NEW c \in Host!Collections
    PROVE  /\ c[1] \in Processes /\ c[2] \in HostModels
           /\ Host!Marker(c) \in HostModels \X Host!Pids
           /\ Host!Marker(c)[1] = c[2] /\ Host!Marker(c)[2] = pid[c[1]]
BY DEF Host!Collections, HostPools, Host!Marker

LEMMA MarkersApart ==
    ASSUME HostInv, NEW c \in Host!Collections, NEW d \in Host!Collections,
           Host!Marker(c) = Host!Marker(d)
    PROVE  c = d
<1>1. c[2] = d[2] /\ pid[c[1]] = pid[d[1]]
  BY DEF Host!Marker
<1>2. c[1] = d[1]
  BY <1>1, MarkerAt DEF HostInv, HostSeen
<1>3. QED
  BY <1>1, <1>2 DEF Host!Collections

LEMMA HostStart == SuiteInit => HostInv
<1> SUFFICES ASSUME Host!Init PROVE HostInv
  BY DEF SuiteInit
<1>1. HostPools
  BY HostPoolsStart
<1>2. eye \in [Processes -> HostEyes]
  BY DEF Host!Init, Host!Asleep, HostEyes
<1>3. \A p \in Processes : pid[p] = p /\ p \in 1..Cardinality(Processes) /\ deaths = 0
  BY HostAssumption, HostSame DEF Host!Init, Host!HostAssumption
<1>4. Cardinality(Processes) \in Nat
  BY HostAssumption, HostSame, FS_CardinalityType DEF Host!HostAssumption
<1>5. \A p \in Processes : pid[p] <= Cardinality(Processes) + deaths
  BY <1>3, <1>4
<1>6. \A p \in Processes : eye[p].todo = {} /\ eye[p].at = "rest"
  BY DEF Host!Init, Host!Asleep
<1>7. \A c \in Host!Collections : collecting[c] = "idle" /\ wrote[c] = "none"
  BY DEF Host!Init
<1>8. HostSeen
  BY <1>2, <1>3, <1>5, <1>6, <1>7 DEF HostSeen
<1>9. QED
  BY <1>1, <1>8 DEF HostInv

\* Everybody who collects is seen.
LEMMA BusySeen ==
    ASSUME HostInv, NEW p \in Processes
    PROVE  /\ Host!Busy(p) \subseteq Host!Seen(p)
           /\ Host!Busy(p) \subseteq HostModels /\ Host!Seen(p) \subseteq HostModels
<1>1. ASSUME NEW c \in Host!Collections, collecting[c] # "idle", c[1] = p \/ wrote[c] = "young"
      PROVE  c[2] \in Host!Seen(p)
  <2>1. CASE c[1] = p
    BY <1>1, <2>1 DEF HostInv, HostSeen, Host!Seen
  <2>2. CASE wrote[c] = "young"
    <3>1. marker[Host!Marker(c)] = "young"
      BY <2>2 DEF HostInv, HostSeen
    <3>2. marker[c[2], pid[c[1]]] = "young" /\ pid[c[1]] \in Host!Pids /\ c[2] \in HostModels
      BY <3>1, MarkerAt DEF Host!Marker, HostInv, HostPools
    <3>3. QED
      BY <3>2 DEF Host!Seen, Host!External
  <2>3. QED
    BY <1>1, <2>1, <2>2
<1>2. Host!Busy(p) \subseteq Host!Seen(p)
  BY <1>1 DEF Host!Busy
<1>3. Host!Seen(p) \subseteq HostModels
  BY DEF HostInv, HostPools, Host!Seen, Host!External
<1>4. QED
  BY <1>2, <1>3

\* What a step has to keep of what was seen, when ids and eyes stay.
LEMMA SeenAfter ==
    ASSUME HostInv, UNCHANGED <<pid, eye, deaths>>,
           \A c \in Host!Collections :
              /\ collecting'[c] # "idle" => c[2] \in active'[c[1]]
              /\ wrote'[c] = "young" => marker'[Host!Marker(c)] = "young"
    PROVE  HostSeen'
<1>1. \A c \in Host!Collections : Host!Marker(c)' = Host!Marker(c)
  BY DEF Host!Marker
<1>2. \A c \in Host!Collections :
          /\ collecting'[c] # "idle" => c[2] \in active'[c[1]]
          /\ wrote'[c] = "young" => marker'[Host!Marker(c)'] = "young"
  BY <1>1
<1>3. QED
  BY <1>2 DEF HostInv, HostSeen, Host!Collections

LEMMA CollectionSeen ==
    ASSUME HostInv, NEW c \in Host!Collections, Host!Enter(c) \/ Host!Step(c)
    PROVE  HostSeen'
<1>0. /\ HostPools /\ HostSeen
      /\ Host!Marker(c) \in HostModels \X Host!Pids /\ c[1] \in Processes /\ c[2] \in HostModels
  BY MarkerAt DEF HostInv
<1>1. /\ collecting \in [Host!Collections -> HostPlaces]
      /\ active \in [Processes -> SUBSET HostModels]
      /\ marker \in [HostModels \X Host!Pids -> Host!Ages]
      /\ wrote \in [Host!Collections -> Host!Ages]
  BY <1>0 DEF HostPools
<1>2. UNCHANGED <<pid, eye, deaths>>
  BY DEF Host!Enter, Host!Step, Host!TakeSlot, Host!Gate, Host!ChildEnds, Host!Leave, Host!Calm
<1>3. \A d \in Host!Collections :
          /\ collecting[d] # "idle" => d[2] \in active[d[1]]
          /\ wrote[d] = "young" => marker[Host!Marker(d)] = "young"
          /\ Host!Marker(d) \in HostModels \X Host!Pids
          /\ d[1] \in Processes
  BY <1>0, MarkerAt DEF HostSeen
<1>4. \A d \in Host!Collections : d # c =>
          Host!Marker(d) # Host!Marker(c) /\ (d[1] = c[1] => d[2] # c[2])
  BY MarkersApart DEF Host!Collections
<1>5. CASE Host!Enter(c)
  <2>1. /\ collecting' = [collecting EXCEPT ![c] = "waiting"]
        /\ active' = [active EXCEPT ![c[1]] = @ \cup {c[2]}]
        /\ collecting[c] = "idle"
        /\ \/ /\ marker' = [marker EXCEPT ![Host!Marker(c)] = "young"]
              /\ wrote' = [wrote EXCEPT ![c] = "young"]
           \/ UNCHANGED <<marker, wrote>>
    BY <1>5 DEF Host!Enter, Host!Goes
  <2>2. \A d \in Host!Collections : collecting'[d] # "idle" => d[2] \in active'[d[1]]
    BY <1>0, <1>1, <1>3, <2>1
  <2>3. \A d \in Host!Collections : wrote'[d] = "young" => marker'[Host!Marker(d)] = "young"
    BY <1>0, <1>1, <1>3, <2>1
  <2>4. QED
    BY <1>2, <2>2, <2>3, SeenAfter
<1>6. CASE Host!TakeSlot(c) \/ Host!Gate(c) \/ Host!ChildEnds(c)
  <2>1. /\ collecting[c] # "idle" /\ UNCHANGED <<active, marker, wrote>>
        /\ \A d \in Host!Collections : d # c => collecting'[d] = collecting[d]
    BY <1>1, <1>6 DEF Host!TakeSlot, Host!Gate, Host!ChildEnds, Host!Goes
  <2>2. \A d \in Host!Collections : collecting'[d] # "idle" => d[2] \in active'[d[1]]
    BY <1>3, <2>1
  <2>3. \A d \in Host!Collections : wrote'[d] = "young" => marker'[Host!Marker(d)] = "young"
    BY <1>3, <2>1
  <2>4. QED
    BY <1>2, <2>2, <2>3, SeenAfter
<1>7. CASE Host!Leave(c)
  <2>1. /\ collecting' = [collecting EXCEPT ![c] = "idle"]
        /\ active' = [active EXCEPT ![c[1]] = @ \ {c[2]}]
        /\ marker' = [marker EXCEPT ![Host!Marker(c)] = "none"] \/ UNCHANGED marker
        /\ wrote' = [wrote EXCEPT ![c] = "none"]
    BY <1>7 DEF Host!Leave, Host!Goes
  <2>2. \A d \in Host!Collections : collecting'[d] # "idle" => d[2] \in active'[d[1]]
    BY <1>0, <1>1, <1>3, <1>4, <2>1
  <2>3. \A d \in Host!Collections : wrote'[d] = "young" => marker'[Host!Marker(d)] = "young"
    BY <1>0, <1>1, <1>3, <1>4, <2>1
  <2>4. QED
    BY <1>2, <2>2, <2>3, SeenAfter
<1>8. QED
  BY <1>5, <1>6, <1>7 DEF Host!Step

\* A supervisor at its work: what it looks at, and what it sets out to close.
LEMMA SupervisorSees ==
    ASSUME HostInv, NEW p \in Processes, Host!Supervise(p)
    PROVE  \E new \in HostEyes :
              /\ eye' = [eye EXCEPT ![p] = new]
              /\ new.todo \cap new.busy = {}
              /\ new.at = "looked" => new.busy \subseteq new.seen
<1>0. /\ Host!Busy(p) \subseteq Host!Seen(p)
      /\ Host!Busy(p) \subseteq HostModels /\ Host!Seen(p) \subseteq HostModels
  BY BusySeen
<1>1. PICK old \in HostEyes :
        /\ old = eye[p] /\ old.todo \cap old.busy = {}
        /\ old.at = "looked" => old.busy \subseteq old.seen
  BY DEF HostInv, HostSeen
<1>2. running \subseteq HostModels
  BY HostAssumption DEF HostInv, HostPools, Host!Programs, Host!HostAssumption
<1>3. Host!Asleep \in HostEyes /\ Host!Asleep.todo = {} /\ Host!Asleep.at = "rest"
  BY DEF Host!Asleep, HostEyes
<1>4. CASE Host!Look(p)
  <2> DEFINE new == [at |-> "looked", seen |-> Host!Seen(p), todo |-> {}, busy |-> Host!Busy(p)]
  <2>1. /\ new \in HostEyes /\ new.todo = {} /\ new.busy = Host!Busy(p) /\ new.seen = Host!Seen(p)
    BY <1>0 DEF HostEyes
  <2>2. eye' = [eye EXCEPT ![p] = new]
    BY <1>4 DEF Host!Look, Host!Sees
  <2> HIDE DEF new
  <2>3. QED
    BY <1>0, <2>1, <2>2
<1>5. CASE Host!List(p)
  <2>1. CASE Host!Sees(p, Host!Asleep)
    BY <1>3, <2>1 DEF Host!Sees
  <2>2. CASE Host!Sees(p, [eye[p] EXCEPT !.at = "closing",
                                         !.todo = (running \cap Managed) \ eye[p].seen])
    <3> DEFINE todo == (running \cap Managed) \ old.seen
               new == [old EXCEPT !.at = "closing", !.todo = todo]
    <3>0. todo \subseteq HostModels /\ todo \cap old.seen = {}
      BY <1>2
    <3> HIDE DEF todo
    <3>1. /\ new \in HostEyes /\ new.todo = todo /\ new.busy = old.busy /\ new.at = "closing"
      BY <1>1, <3>0 DEF HostEyes
    <3>2. eye' = [eye EXCEPT ![p] = new]
      BY <1>1, <2>2 DEF Host!Sees, todo
    <3>3. old.at = "looked"
      BY <1>1, <1>5 DEF Host!List
    <3> HIDE DEF new
    <3>4. new.todo \cap new.busy = {}
      BY <1>1, <3>0, <3>1, <3>3
    <3>5. QED
      BY <3>1, <3>2, <3>4
  <2>3. QED
    BY <1>5, <2>1, <2>2 DEF Host!List
<1>6. CASE Host!Measure(p)
  <2>1. PICK m \in (Apps \cap running) \ Host!Seen(p) :
          Host!Sees(p, [at |-> "closing", seen |-> Host!Seen(p), todo |-> {m}, busy |-> Host!Busy(p)])
    BY <1>6 DEF Host!Measure
  <2> DEFINE new == [at |-> "closing", seen |-> Host!Seen(p), todo |-> {m}, busy |-> Host!Busy(p)]
  <2>2. /\ new \in HostEyes /\ new.todo = {m} /\ new.busy = Host!Busy(p) /\ new.at = "closing"
    BY <1>0, <1>2, <2>1 DEF HostEyes
  <2>3. eye' = [eye EXCEPT ![p] = new]
    BY <2>1 DEF Host!Sees
  <2> HIDE DEF new
  <2>4. new.todo \cap new.busy = {}
    BY <1>0, <2>1, <2>2
  <2>5. QED
    BY <2>2, <2>3, <2>4
<1>7. CASE Host!Close(p)
  <2>1. CASE Host!Sees(p, Host!Asleep)
    BY <1>3, <2>1 DEF Host!Sees
  <2>2. ASSUME NEW m \in eye[p].todo, Host!Sees(p, [eye[p] EXCEPT !.todo = @ \ {m}])
        PROVE  \E new \in HostEyes :
                  /\ eye' = [eye EXCEPT ![p] = new]
                  /\ new.todo \cap new.busy = {}
                  /\ new.at = "looked" => new.busy \subseteq new.seen
    <3> DEFINE new == [old EXCEPT !.todo = old.todo \ {m}]
    <3>1. /\ new \in HostEyes /\ new.todo = old.todo \ {m} /\ new.busy = old.busy
          /\ new.at = old.at /\ new.seen = old.seen
      BY <1>1 DEF HostEyes
    <3>2. eye' = [eye EXCEPT ![p] = new]
      BY <1>1, <2>2 DEF Host!Sees
    <3> HIDE DEF new
    <3>3. new.todo \cap new.busy = {} /\ (new.at = "looked" => new.busy \subseteq new.seen)
      BY <1>1, <3>1
    <3>4. QED
      BY <3>1, <3>2, <3>3
  <2>3. QED
    BY <1>7, <2>1, <2>2 DEF Host!Close
<1>8. QED
  BY <1>4, <1>5, <1>6, <1>7 DEF Host!Supervise

LEMMA SuperviseSeen ==
    ASSUME HostInv, NEW p \in Processes, Host!Supervise(p)
    PROVE  HostSeen'
<1>0. HostPools /\ HostSeen
  BY DEF HostInv
<1>1. PICK new \in HostEyes :
        /\ eye' = [eye EXCEPT ![p] = new]
        /\ new.todo \cap new.busy = {}
        /\ new.at = "looked" => new.busy \subseteq new.seen
  BY SupervisorSees
<1>2. /\ UNCHANGED <<collecting, active, pid, wrote, deaths>>
      /\ marker' = marker \/ marker' = Host!Tidied
  BY DEF Host!Supervise, Host!Look, Host!List, Host!Measure, Host!Close, Host!Apart
<1>3. \A f \in HostModels \X Host!Pids : marker[f] = "young" => marker'[f] = "young"
  BY <1>0, <1>2 DEF Host!Tidied, HostPools
<1>4. \A c \in Host!Collections : Host!Marker(c)' = Host!Marker(c) /\ Host!Marker(c) \in HostModels \X Host!Pids
  BY <1>0, <1>2, MarkerAt DEF Host!Marker
<1>5. \A c \in Host!Collections :
          /\ collecting'[c] # "idle" => c[2] \in active'[c[1]]
          /\ wrote'[c] = "young" => marker'[Host!Marker(c)'] = "young"
  BY <1>0, <1>2, <1>3, <1>4 DEF HostSeen
<1>6. eye' \in [Processes -> HostEyes]
  BY <1>0, <1>1 DEF HostSeen
<1>7. \A q \in Processes :
          /\ eye'[q].todo \cap eye'[q].busy = {}
          /\ eye'[q].at = "looked" => eye'[q].busy \subseteq eye'[q].seen
  <2> TAKE q \in Processes
  <2>1. CASE q = p
    BY <1>0, <1>1, <2>1 DEF HostSeen
  <2>2. CASE q # p
    BY <1>0, <1>1, <2>2 DEF HostSeen
  <2>3. QED
    BY <2>1, <2>2
<1>8. (\A q \in Processes : pid'[q] <= Cardinality(Processes) + deaths')
      /\ \A q, r \in Processes : pid'[q] = pid'[r] => q = r
  BY <1>0, <1>2 DEF HostSeen
<1>9. QED
  BY <1>5, <1>6, <1>7, <1>8 DEF HostSeen, Host!Collections

LEMMA DieSeen ==
    ASSUME HostInv, NEW p \in Processes, Host!Die(p)
    PROVE  HostSeen'
<1>0. HostPools /\ HostSeen
  BY DEF HostInv
<1>1. /\ deaths' = deaths + 1 /\ deaths \in Nat
      /\ pid' = [pid EXCEPT ![p] = Cardinality(Processes) + deaths']
      /\ Cardinality(Processes) \in Nat
      /\ \A q \in Processes : pid[q] \in Nat
  <2>1. IsFiniteSet(Processes) /\ Cardinality(Processes) \in Nat
    BY HostAssumption, HostSame, FS_CardinalityType DEF Host!HostAssumption
  <2>2. deaths \in Nat /\ pid \in [Processes -> Host!Pids] /\ Host!Pids \subseteq Nat
    BY <1>0, HostSizes, HostSame, <2>1 DEF HostPools, Host!Pids
  <2>3. QED
    BY <2>1, <2>2, HostSame DEF Host!Die
<1>2. /\ \A q \in Processes : q # p => pid'[q] = pid[q]
      /\ pid'[p] = Cardinality(Processes) + deaths'
  BY <1>0, <1>1 DEF HostPools
<1>3. \A q \in Processes : pid[q] <= Cardinality(Processes) + deaths
  BY <1>0 DEF HostSeen
<1>4. \A q \in Processes : pid'[q] <= Cardinality(Processes) + deaths'
  BY <1>1, <1>2, <1>3
<1>5. \A q, r \in Processes : pid'[q] = pid'[r] => q = r
  <2> TAKE q, r \in Processes
  <2> HAVE pid'[q] = pid'[r]
  <2>1. CASE q # p /\ r # p
    BY <1>0, <1>2, <2>1 DEF HostSeen
  <2>2. CASE q = p /\ r # p
    BY <1>1, <1>2, <1>3, <2>2
  <2>3. CASE q # p /\ r = p
    BY <1>1, <1>2, <1>3, <2>3
  <2>4. QED
    BY <2>1, <2>2, <2>3
<1>6. \A c \in Host!Collections :
          /\ collecting'[c] = IF c[1] = p THEN "idle" ELSE collecting[c]
          /\ wrote'[c] = IF c[1] = p THEN "none" ELSE wrote[c]
          /\ c[1] # p => active'[c[1]] = active[c[1]] /\ Host!Marker(c)' = Host!Marker(c)
  <2>1. active \in [Processes -> SUBSET HostModels]
    BY <1>0 DEF HostPools
  <2>2. \A c \in Host!Collections : c[1] \in Processes
    BY DEF Host!Collections
  <2>3. QED
    BY <1>2, <2>1, <2>2 DEF Host!Die, Host!Marker
<1>7. marker' = marker
  BY DEF Host!Die
<1>8. \A c \in Host!Collections :
          /\ collecting'[c] # "idle" => c[2] \in active'[c[1]]
          /\ wrote'[c] = "young" => marker'[Host!Marker(c)'] = "young"
  BY <1>0, <1>6, <1>7 DEF HostSeen
<1>9. /\ eye' \in [Processes -> HostEyes]
      /\ \A q \in Processes : /\ eye'[q].todo \cap eye'[q].busy = {}
                              /\ eye'[q].at = "looked" => eye'[q].busy \subseteq eye'[q].seen
  <2>1. Host!Asleep \in HostEyes /\ Host!Asleep.todo = {} /\ Host!Asleep.at = "rest"
    BY DEF Host!Asleep, HostEyes
  <2>2. eye' = [eye EXCEPT ![p] = Host!Asleep]
    BY DEF Host!Die, Host!Sees
  <2>3. \A q \in Processes : eye'[q] = IF q = p THEN Host!Asleep ELSE eye[q]
    BY <1>0, <2>2 DEF HostSeen
  <2>4. eye' \in [Processes -> HostEyes]
    BY <1>0, <2>1, <2>2 DEF HostSeen
  <2>5. \A q \in Processes : /\ eye'[q].todo \cap eye'[q].busy = {}
                             /\ eye'[q].at = "looked" => eye'[q].busy \subseteq eye'[q].seen
    BY <1>0, <2>1, <2>3 DEF HostSeen
  <2>6. QED
    BY <2>4, <2>5
<1>10. QED
  BY <1>4, <1>5, <1>8, <1>9 DEF HostSeen, Host!Collections

LEMMA ExpireSeen == HostInv /\ Host!Expire => HostSeen'
<1> SUFFICES ASSUME HostInv, Host!Expire PROVE HostSeen'
  OBVIOUS
<1>0. HostPools /\ HostSeen
  BY DEF HostInv
<1>1. PICK f \in DOMAIN marker :
        /\ marker' = [marker EXCEPT ![f] = "old"]
        /\ wrote' = [c \in Host!Collections |->
                       IF wrote[c] = "young" /\ Host!Marker(c) = f THEN "old" ELSE wrote[c]]
  BY DEF Host!Expire
<1>2. UNCHANGED <<collecting, active, pid, eye, deaths>>
  BY DEF Host!Expire
<1>3. \A c \in Host!Collections : Host!Marker(c) \in DOMAIN marker
  BY <1>0, MarkerAt DEF HostPools
<1>4. \A c \in Host!Collections :
          /\ collecting'[c] # "idle" => c[2] \in active'[c[1]]
          /\ wrote'[c] = "young" => marker'[Host!Marker(c)] = "young"
  BY <1>0, <1>1, <1>2, <1>3 DEF HostSeen
<1>5. QED
  BY <1>2, <1>4, SeenAfter

LEMMA HostKeeps == HostInv /\ Host!Next => HostInv'
<1> SUFFICES ASSUME HostInv, Host!Next PROVE HostInv'
  OBVIOUS
<1>1. HostPools'
  BY HostPoolsKeep DEF HostInv
<1>2. HostSeen'
  BY CollectionSeen, SuperviseSeen, DieSeen, ExpireSeen DEF Host!Next
<1>3. QED
  BY <1>1, <1>2 DEF HostInv

LEMMA HostHolds == HostInv => Host!TypeOK /\ Host!SlotsCounted /\ Host!OnlyIdleClosed
<1> SUFFICES ASSUME HostInv PROVE Host!TypeOK /\ Host!SlotsCounted /\ Host!OnlyIdleClosed
  OBVIOUS
<1>1. Host!TypeOK
  BY DEF HostInv, HostPools, HostPlaces, Host!TypeOK
<1>2. \A p \in Processes : free[p] + Cardinality(SlotHolders(p)) = HostSlots
  <2>1. \A p \in Processes : free[p] = HostSlots - Cardinality(SlotHolders(p))
    BY DEF HostInv, HostPools
  <2>2. QED
    BY <2>1, HostSizes
<1>3. Host!SlotsCounted
  BY <1>2, HostSame DEF Host!SlotsCounted, SlotHolders
<1>4. Host!OnlyIdleClosed
  BY DEF HostInv, HostSeen, Host!OnlyIdleClosed
<1>5. QED
  BY <1>1, <1>3, <1>4

-----------------------------------------------------------------------------
(* Ends, and what is held.                                                  *)

LEMMA LoginSuite == [SuiteNext]_suiteVars => LoginStep \/ UNCHANGED loginVars
BY DEF SuiteNext, suiteVars, RoundLoopStep, MonitorLoopStep, StaleLoopStep, DeepseekStep,
       QuarkStep, WebStep, HostStep, BurstStep, BatchStep, SingleStep, ChromeStep, BrowserStep,
       PatientJobStep, HastyJobStep, OnlyRun, OnlySlot, OnlyWeb, OnlyHost, OnlyBurst, OnlyBatch,
       OnlyChrome, OnlyLocal

LEMMA HostSuite == [SuiteNext]_suiteVars => HostStep \/ UNCHANGED hostVars
BY DEF SuiteNext, suiteVars, RoundLoopStep, MonitorLoopStep, StaleLoopStep, DeepseekStep,
       QuarkStep, LoginStep, WebStep, BurstStep, BatchStep, SingleStep, ChromeStep, BrowserStep,
       PatientJobStep, HastyJobStep, OnlyRun, OnlySlot, OnlyLogin, OnlyWeb, OnlyBurst, OnlyBatch,
       OnlyChrome, OnlyLocal

LEMMA LoginsKept ==
    LoginInv /\ [SuiteNext]_suiteVars
    => LoginInv' /\ \A i \in Login!Logins : login[i].status \in Login!Final => login'[i] = login[i]
<1> SUFFICES ASSUME LoginInv, [SuiteNext]_suiteVars
    PROVE  LoginInv' /\ \A i \in Login!Logins :
                            login[i].status \in Login!Final => login'[i] = login[i]
  OBVIOUS
<1>1. CASE LoginStep
  BY <1>1, LoginKeeps DEF LoginStep
<1>2. CASE UNCHANGED loginVars
  BY <1>2 DEF loginVars, LoginInv, LoginRows, LoginTokens, LoginSessions, Login!TypeOK,
     Login!Used, Login!OpenFor, Login!ModelOf, Login!ReadyHasSession
<1>3. QED
  BY <1>1, <1>2, LoginSuite

LEMMA HostKept == HostInv /\ [SuiteNext]_suiteVars => HostInv'
<1> SUFFICES ASSUME HostInv, [SuiteNext]_suiteVars PROVE HostInv'
  OBVIOUS
<1>1. CASE HostStep
  BY <1>1, HostKeeps DEF HostStep
<1>2. CASE UNCHANGED hostVars
  <2>1. UNCHANGED <<collecting, active, marker, pid, free, eye, running, wrote, hosted, deaths>>
    BY <1>2 DEF hostVars
  <2>2. \A p \in Processes : SlotHolders(p)' = SlotHolders(p)
    BY <2>1 DEF SlotHolders
  <2>3. HostPools'
    BY <2>1, <2>2 DEF HostInv, HostPools
  <2>4. \A c \in Host!Collections :
            /\ collecting'[c] # "idle" => c[2] \in active'[c[1]]
            /\ wrote'[c] = "young" => marker'[Host!Marker(c)] = "young"
    BY <2>1 DEF HostInv, HostSeen
  <2>5. HostSeen'
    BY <2>1, <2>4, SeenAfter
  <2>6. QED
    BY <2>3, <2>5 DEF HostInv
<1>3. QED
  BY <1>1, <1>2, HostSuite

\* An end stands, for every task of a worker and every login, whatever is
\* reported late or twice, over lost calls, restarts and leases that pass.
THEOREM EndsNeverLeft == SuiteSpec => EndsStand
<1>1. SuiteInit => RunInv /\ LoginInv
  BY RunStart, LoginStart
<1>2. RunInv /\ [SuiteNext]_suiteVars => RunInv' /\ [RoundLoop!Life!LifeNext]_(RoundLoop!LifeOf)
  BY RunKeeps
<1>3. LoginInv /\ [SuiteNext]_suiteVars
      => /\ LoginInv'
         /\ [\A i \in Login!Logins : login[i].status \in Login!Final
                                      => login'[i] = login[i]]_(Login!vars)
  BY LoginsKept
<1>4. [SuiteNext]_suiteVars
      => [ticket.status \in {"completed", "cancelled"} => UNCHANGED ticket.status]_(Web!web)
  BY WebEnds
<1>5. QED
  BY <1>1, <1>2, <1>3, <1>4, PTL
     DEF SuiteSpec, EndsStand, RoundLoop!ImplementsLife, Login!EndStands, Web!EndsStand

\* What one party holds another does not take: for every number of models,
\* workers and logins a model has one open login and "ready" left a session;
\* for every number of processes and slots no slot is lost, and what a
\* supervisor sets out to close nobody had announced a collection with.
THEOREM HeldByOne == SuiteSpec => []HoldsRespected
<1>1. SuiteInit => LoginInv /\ HostInv
  BY LoginStart, HostStart
<1>2. LoginInv /\ HostInv /\ [SuiteNext]_suiteVars => (LoginInv /\ HostInv)'
  BY LoginsKept, HostKept
<1>3. LoginInv /\ HostInv => HoldsRespected
  BY LoginHolds, HostHolds DEF HoldsRespected
<1>4. QED
  BY <1>1, <1>2, <1>3, PTL DEF SuiteSpec

-----------------------------------------------------------------------------
(* A step of the suite is one of its part, or leaves the part alone.        *)

LEMMA StepOfPart ==
    [SuiteNext]_suiteVars =>
        /\ part' = part
        /\ part = "rounds" => RoundLoopStep \/ UNCHANGED runVars
        /\ part = "monitor" => MonitorLoopStep \/ UNCHANGED runVars
        /\ part = "stale" => StaleLoopStep \/ UNCHANGED runVars
        /\ part = "deepseek" => DeepseekStep \/ UNCHANGED slotVars
        /\ part = "web" => WebStep \/ UNCHANGED webVars
        /\ part = "burst" => BurstStep \/ UNCHANGED burstVars
        /\ part = "batch" => BatchStep \/ UNCHANGED batchVars
        /\ part = "single" => SingleStep \/ UNCHANGED batchVars
        /\ part = "chrome" => ChromeStep \/ UNCHANGED chromeVars
        /\ part = "browser" => BrowserStep \/ UNCHANGED chromeVars
        /\ part = "patient" => PatientJobStep \/ UNCHANGED localVars
        /\ part = "hasty" => HastyJobStep \/ UNCHANGED localVars
BY DEF SuiteNext, suiteVars, RoundLoopStep, MonitorLoopStep, StaleLoopStep, DeepseekStep,
       QuarkStep, LoginStep, WebStep, HostStep, BurstStep, BatchStep, SingleStep, ChromeStep,
       BrowserStep, PatientJobStep, HastyJobStep, OnlyRun, OnlySlot, OnlyLogin, OnlyWeb,
       OnlyHost, OnlyBurst, OnlyBatch, OnlyChrome, OnlyLocal

-----------------------------------------------------------------------------
(* A wait of DeepSeek: asleep, the lease has a tick left, and a pause came  *)
(* in this very tick.                                                       *)

WaitInv ==
    /\ place \in Deepseek!Places
    /\ now \in Nat /\ expires \in Nat /\ paused \in Nat \cup {-1}
    /\ place = "check" => now <= expires /\ (paused # -1 => now <= paused + 1)
    /\ place = "sleep" => now < expires /\ (paused # -1 => now <= paused)

LEMMA WaitStart == SuiteInit /\ part = "deepseek" => WaitInv
<1> SUFFICES ASSUME SuiteInit, part = "deepseek" PROVE WaitInv
  OBVIOUS
<1>1. Deepseek!Init
  BY DEF SuiteInit
<1>2. Lease \in Nat
  BY SlotAssumption DEF Deepseek!TimeAssumption
<1>3. QED
  BY <1>1, <1>2 DEF Deepseek!Init, WaitInv, Deepseek!Places, Deepseek!Never

LEMMA WaitKeeps == WaitInv /\ Deepseek!Next => WaitInv'
<1> SUFFICES ASSUME WaitInv, Deepseek!Next PROVE WaitInv'
  OBVIOUS
<1>0. Lease \in Nat \ {0} /\ MaxTime \in Nat
  BY SlotAssumption DEF Deepseek!TimeAssumption
<1> USE DEF WaitInv, Deepseek!Places, Deepseek!Never
<1>1. CASE Deepseek!Tick
  BY <1>1 DEF Deepseek!Tick
<1>2. CASE Deepseek!Enter \/ Deepseek!WaitOn
  BY <1>0, <1>2 DEF Deepseek!Enter, Deepseek!WaitOn
<1>3. CASE Deepseek!Reserve \/ Deepseek!PassCooldown \/ Deepseek!GiveUp
           \/ Deepseek!Answered \/ Deepseek!Crash
  BY <1>3 DEF Deepseek!Reserve, Deepseek!PassCooldown, Deepseek!GiveUp, Deepseek!Answered,
     Deepseek!Crash
<1>4. CASE Deepseek!Pause \/ Deepseek!Resume
  BY <1>4 DEF Deepseek!Pause, Deepseek!Resume
<1>5. QED
  BY <1>1, <1>2, <1>3, <1>4 DEF Deepseek!Next, Deepseek!Loop

LEMMA WaitHolds == WaitInv => Deepseek!PauseHeeded /\ Deepseek!LeaseKept
BY DEF WaitInv, Deepseek!PauseHeeded, Deepseek!LeaseKept, Deepseek!Never

-----------------------------------------------------------------------------
(* A batch of questions. The tickets a round had before its current one are *)
(* answered, those after it were never asked, unless a request failed; what *)
(* was published is what was collected.                                     *)

QueryStates == {"none", "queued", "completed", "failed", "cancelled"}
QueryStages == {"start", "polling", "withdraw", "withdrawn", "returned", "raised"}

QueryTypes(R, N) ==
    /\ query \in [R \X (0..N) -> QueryStates]
    /\ tries \in [R -> 0..N] /\ output \subseteq R /\ published \in [R -> 0..1]
    /\ stage \in QueryStages /\ errors \in Nat

QueryTidy(R, N) ==
    /\ \A r \in R : published[r] = IF r \in output THEN 1 ELSE 0
    /\ stage = "returned" => output = R
    /\ stage = "start" => \A r \in R : tries[r] = 0
    /\ errors = 0 => \A r \in R, n \in 0..N :
          /\ n < tries[r] => query[<<r, n>>] # "queued"
          /\ n > tries[r] => query[<<r, n>>] = "none"
          /\ n = tries[r] /\ r \in output => query[<<r, n>>] = "completed"
          /\ stage = "withdrawn" => query[<<r, n>>] # "queued"
          /\ stage = "start" => query[<<r, n>>] = "none"

\* What a step of the extension or of the collector does to the tickets.
Posting(R, N, ids) == query' = [i \in R \X (0..N) |-> IF i \in ids THEN "queued" ELSE query[i]]
QueryAnswers(R, N) ==
    /\ \E i \in R \X (0..N), s \in {"completed", "failed"} :
          query[i] = "queued" /\ query' = [query EXCEPT ![i] = s]
    /\ UNCHANGED <<tries, output, published, stage, errors>>
QuerySubmits(R, N) ==
    /\ stage = "start" /\ stage' \in {"polling", "raised"}
    /\ errors' = errors \/ errors' = errors + 1
    /\ Posting(R, N, {<<r, tries[r]>> : r \in R}) \/ UNCHANGED query
    /\ UNCHANGED <<tries, output, published>>
QueryTakes(R) ==
    /\ stage = "polling" /\ stage' \in {"polling", "raised", "withdraw"}
    /\ \/ UNCHANGED <<output, published>>
       \/ \E r \in R :
             /\ r \notin output /\ query[<<r, tries[r]>>] = "completed"
             /\ output' = output \cup {r} /\ published' = [published EXCEPT ![r] = @ + 1]
    /\ UNCHANGED <<query, tries, errors>>
QueryReplaces(R, N) ==
    /\ stage = "polling" /\ stage' \in {"polling", "raised", "withdraw"}
    /\ \E r \in R :
          /\ r \notin output /\ query[<<r, tries[r]>>] \in {"failed", "cancelled"}
          /\ tries[r] # N
          /\ \/ /\ Posting(R, N, {<<r, tries[r] + 1>>})
                /\ tries' = [tries EXCEPT ![r] = @ + 1] /\ errors' = errors
             \/ /\ Posting(R, N, {<<r, tries[r] + 1>>}) \/ UNCHANGED query
                /\ tries' = tries /\ errors' = errors + 1
    /\ UNCHANGED <<output, published>>
QueryReturns(R) ==
    /\ output = R /\ stage' = "returned"
    /\ UNCHANGED <<query, tries, output, published, errors>>
QueryWithdraws(R, N) ==
    /\ stage = "withdraw" /\ stage' = "withdrawn"
    /\ \E ids \in SUBSET (R \X (0..N)) :
          /\ query' = [i \in R \X (0..N) |-> IF i \in ids /\ query[i] = "queued"
                                             THEN "cancelled" ELSE query[i]]
          /\ \/ ids = {<<r, tries[r]>> : r \in R} /\ errors' = errors
             \/ errors' = errors + 1
    /\ UNCHANGED <<tries, output, published>>
QueryMoves(R, N) ==
    \/ QueryAnswers(R, N) \/ QuerySubmits(R, N) \/ QueryTakes(R) \/ QueryReplaces(R, N)
    \/ QueryReturns(R) \/ QueryWithdraws(R, N)

LEMMA QueryTyped ==
    ASSUME NEW R, NEW N \in Nat, QueryTypes(R, N), QueryTidy(R, N), QueryMoves(R, N)
    PROVE  QueryTypes(R, N)'
<1> USE DEF QueryTypes, QueryStates, QueryStages
<1>1. CASE QueryAnswers(R, N)
  BY <1>1 DEF QueryAnswers
<1>2. CASE QuerySubmits(R, N)
  <2>1. query' \in [R \X (0..N) -> QueryStates]
    BY <1>2 DEF QuerySubmits, Posting
  <2>2. QED
    BY <1>2, <2>1 DEF QuerySubmits
<1>3. CASE QueryTakes(R)
  <2>1. published' \in [R -> 0..1]
    <3>1. CASE UNCHANGED published
      BY <3>1
    <3>2. ASSUME NEW r \in R, r \notin output, published' = [published EXCEPT ![r] = @ + 1]
          PROVE  published' \in [R -> 0..1]
      <4>1. published[r] = 0
        BY <3>2 DEF QueryTidy
      <4>2. QED
        BY <3>2, <4>1
    <3>3. QED
      BY <1>3, <3>1, <3>2 DEF QueryTakes
  <2>2. QED
    BY <1>3, <2>1 DEF QueryTakes
<1>4. CASE QueryReplaces(R, N)
  <2>1. query' \in [R \X (0..N) -> QueryStates]
    BY <1>4 DEF QueryReplaces, Posting
  <2>2. tries' \in [R -> 0..N]
    BY <1>4 DEF QueryReplaces
  <2>3. QED
    BY <1>4, <2>1, <2>2 DEF QueryReplaces
<1>5. CASE QueryReturns(R)
  BY <1>5 DEF QueryReturns
<1>6. CASE QueryWithdraws(R, N)
  BY <1>6 DEF QueryWithdraws
<1>7. QED
  BY <1>1, <1>2, <1>3, <1>4, <1>5, <1>6 DEF QueryMoves

LEMMA QueryKept ==
    ASSUME NEW R, NEW N \in Nat, QueryTypes(R, N), QueryTidy(R, N), QueryMoves(R, N)
    PROVE  QueryTidy(R, N)'
<1> USE DEF QueryTidy
<1>1. CASE QueryAnswers(R, N)
  <2>1. PICK i \in R \X (0..N), s \in {"completed", "failed"} :
           query[i] = "queued" /\ query' = [query EXCEPT ![i] = s]
    BY <1>1 DEF QueryAnswers
  <2>2. \A j \in R \X (0..N) : query'[j] = IF j = i THEN s ELSE query[j]
    BY <2>1 DEF QueryTypes
  <2>3. QED
    BY <1>1, <2>1, <2>2 DEF QueryAnswers
<1>2. CASE QuerySubmits(R, N)
  <2>1. UNCHANGED query \/ \A r \in R, n \in 0..N :
           query'[<<r, n>>] = IF n = 0 THEN "queued" ELSE query[<<r, n>>]
    BY <1>2 DEF QuerySubmits, Posting
  <2>2. \A r \in R : (tries[r] = 0 /\ tries'[r] = 0 /\ r \notin output') \/ r \in output'
    BY <1>2 DEF QuerySubmits
  <2>3. errors' = 0 => errors = 0
    BY <1>2 DEF QuerySubmits, QueryTypes
  <2>4. errors = 0 => output = {}
    BY <1>2 DEF QuerySubmits, QueryTypes
  <2>5. QED
    BY <1>2, <2>1, <2>3, <2>4 DEF QuerySubmits
<1>3. CASE QueryTakes(R)
  <2>1. CASE UNCHANGED <<output, published>>
    BY <1>3, <2>1 DEF QueryTakes
  <2>2. CASE ~UNCHANGED <<output, published>>
    <3>1. PICK r \in R : /\ r \notin output /\ query[<<r, tries[r]>>] = "completed"
                         /\ output' = output \cup {r}
                         /\ published' = [published EXCEPT ![r] = @ + 1]
      BY <1>3, <2>2 DEF QueryTakes
    <3>2. \A q \in R : published'[q] = IF q \in output' THEN 1 ELSE 0
      BY <3>1 DEF QueryTypes
    <3>3. QED
      BY <1>3, <3>1, <3>2 DEF QueryTakes
  <2>3. QED
    BY <2>1, <2>2
<1>4. CASE QueryReplaces(R, N)
  <2>1. PICK r \in R :
          /\ r \notin output /\ query[<<r, tries[r]>>] \in {"failed", "cancelled"}
          /\ tries[r] # N
          /\ \/ /\ Posting(R, N, {<<r, tries[r] + 1>>})
                /\ tries' = [tries EXCEPT ![r] = @ + 1] /\ errors' = errors
             \/ /\ Posting(R, N, {<<r, tries[r] + 1>>}) \/ UNCHANGED query
                /\ tries' = tries /\ errors' = errors + 1
    BY <1>4 DEF QueryReplaces
  <2>2. CASE errors' = 0
    <3>1. /\ errors = 0 /\ tries' = [tries EXCEPT ![r] = @ + 1]
          /\ Posting(R, N, {<<r, tries[r] + 1>>})
      BY <2>1, <2>2 DEF QueryTypes
    <3>2. \A q \in R : tries'[q] = IF q = r THEN tries[r] + 1 ELSE tries[q]
      BY <3>1 DEF QueryTypes
    <3>3. \A q \in R, n \in 0..N : query'[<<q, n>>] =
             IF q = r /\ n = tries[r] + 1 THEN "queued" ELSE query[<<q, n>>]
      BY <3>1 DEF Posting
    <3>4. \A q \in R : tries[q] \in 0..N
      BY DEF QueryTypes
    <3>5. \A q \in R, n \in 0..N :
            /\ n < tries'[q] => query'[<<q, n>>] # "queued"
            /\ n > tries'[q] => query'[<<q, n>>] = "none"
            /\ n = tries'[q] /\ q \in output => query'[<<q, n>>] = "completed"
      <4> TAKE q \in R, n \in 0..N
      <4>1. CASE q = r
        BY <2>1, <3>1, <3>2, <3>3, <3>4, <4>1
      <4>2. CASE q # r
        BY <3>1, <3>2, <3>3, <3>4, <4>2
      <4>3. QED
        BY <4>1, <4>2
    <3>6. QED
      BY <1>4, <3>5 DEF QueryReplaces
  <2>3. CASE errors' # 0
    BY <1>4, <2>3 DEF QueryReplaces
  <2>4. QED
    BY <2>2, <2>3
<1>5. CASE QueryReturns(R)
  BY <1>5 DEF QueryReturns
<1>6. CASE QueryWithdraws(R, N)
  <2>1. CASE errors' = 0
    <3>1. /\ errors = 0
          /\ query' = [i \in R \X (0..N) |->
                         IF i \in {<<r, tries[r]>> : r \in R} /\ query[i] = "queued"
                         THEN "cancelled" ELSE query[i]]
      BY <1>6, <2>1 DEF QueryWithdraws, QueryTypes
    <3>2. \A q \in R, n \in 0..N : query'[<<q, n>>] =
             IF n = tries[q] /\ query[<<q, n>>] = "queued" THEN "cancelled" ELSE query[<<q, n>>]
      <4> TAKE q \in R, n \in 0..N
      <4>1. query'[<<q, n>>] = IF /\ <<q, n>> \in {<<x, tries[x]>> : x \in R}
                                 /\ query[<<q, n>>] = "queued"
                              THEN "cancelled" ELSE query[<<q, n>>]
        BY <3>1
      <4>2. <<q, n>> \in {<<x, tries[x]>> : x \in R} <=> n = tries[q]
        OBVIOUS
      <4>3. QED
        BY <4>1, <4>2
    <3>3. \A q \in R, n \in 0..N : n < tries[q] \/ n = tries[q] \/ n > tries[q]
      BY DEF QueryTypes
    <3>4. ASSUME NEW q \in R, NEW n \in 0..N
          PROVE  /\ n < tries[q] => query'[<<q, n>>] # "queued"
                 /\ n > tries[q] => query'[<<q, n>>] = "none"
                 /\ n = tries[q] /\ q \in output => query'[<<q, n>>] = "completed"
                 /\ query'[<<q, n>>] # "queued"
      <4>1. query'[<<q, n>>] = IF n = tries[q] /\ query[<<q, n>>] = "queued"
                                 THEN "cancelled" ELSE query[<<q, n>>]
        BY <3>2
      <4>2. /\ n < tries[q] => query[<<q, n>>] # "queued"
            /\ n > tries[q] => query[<<q, n>>] = "none"
            /\ n = tries[q] /\ q \in output => query[<<q, n>>] = "completed"
        BY <3>1
      <4>3. n < tries[q] \/ n = tries[q] \/ n > tries[q]
        BY <3>3
      <4>4. QED
        BY <4>1, <4>2, <4>3
    <3>5. /\ stage' = "withdrawn"
          /\ tries' = tries /\ output' = output /\ published' = published
      BY <1>6 DEF QueryWithdraws
    <3>6. QED
      BY <3>4, <3>5
  <2>2. CASE errors' # 0
    BY <1>6, <2>2 DEF QueryWithdraws
  <2>3. QED
    BY <2>1, <2>2
<1>7. QED
  BY <1>1, <1>2, <1>3, <1>4, <1>5, <1>6 DEF QueryMoves

LEMMA QueriesEnd ==
    ASSUME NEW R, NEW N \in Nat, QueryTypes(R, N), QueryTidy(R, N), errors = 0,
           stage \in {"returned", "withdrawn"}
    PROVE  \A i \in R \X (0..N) : query[i] # "queued"
<1> SUFFICES ASSUME NEW r \in R, NEW n \in 0..N PROVE query[<<r, n>>] # "queued"
  OBVIOUS
<1>1. tries[r] \in 0..N
  BY DEF QueryTypes
<1>2. n < tries[r] \/ n = tries[r] \/ n > tries[r]
  BY <1>1
<1>3. QED
  BY <1>1, <1>2 DEF QueryTidy

LEMMA BatchMoves ==
    QueryTypes(BatchRounds, Replacements) /\ Batch!Next => QueryMoves(BatchRounds, Replacements)
<1> SUFFICES ASSUME QueryTypes(BatchRounds, Replacements), Batch!Next
             PROVE  QueryMoves(BatchRounds, Replacements)
  OBVIOUS
<1> USE DEF Batch!Tickets, Batch!Current, Batch!Post, Batch!Fault, Batch!Raises, Posting
<1>1. CASE Batch!Extension
  BY <1>1 DEF Batch!Extension, QueryMoves, QueryAnswers
<1>2. CASE Batch!Submit
  BY <1>2 DEF Batch!Submit, QueryMoves, QuerySubmits
<1>3. CASE Batch!PollRaises \/ Batch!Timeout
  BY <1>3 DEF Batch!PollRaises, Batch!Timeout, QueryMoves, QueryTakes
<1>4. CASE Batch!Return
  BY <1>4 DEF Batch!Return, QueryMoves, QueryReturns
<1>5. CASE Batch!Withdraw
  <2>1. PICK ids : /\ Batch!Withdrawn(ids)
                   /\ \/ ids = {<<r, tries[r]>> : r \in BatchRounds} /\ errors' = errors
                      \/ errors' = errors + 1
    BY <1>5 DEF Batch!Withdraw
  <2>2. query' = [i \in BatchRounds \X (0..Replacements) |->
                    IF i \in ids \cap (BatchRounds \X (0..Replacements)) /\ query[i] = "queued"
                    THEN "cancelled" ELSE query[i]]
    BY <2>1 DEF Batch!Withdrawn
  <2>3. {<<r, tries[r]>> : r \in BatchRounds} \subseteq BatchRounds \X (0..Replacements)
    BY DEF QueryTypes
  <2>4. \E own \in SUBSET (BatchRounds \X (0..Replacements)) :
          /\ query' = [i \in BatchRounds \X (0..Replacements) |->
                         IF i \in own /\ query[i] = "queued" THEN "cancelled" ELSE query[i]]
          /\ \/ own = {<<r, tries[r]>> : r \in BatchRounds} /\ errors' = errors
             \/ errors' = errors + 1
    <3>1. CASE errors' = errors + 1
      BY <2>2, <3>1
    <3>2. CASE ids = {<<r, tries[r]>> : r \in BatchRounds} /\ errors' = errors
      BY <2>2, <2>3, <3>2
    <3>3. QED
      BY <2>1, <3>1, <3>2
  <2>5. QED
    BY <1>5, <2>4 DEF Batch!Withdraw, QueryMoves, QueryWithdraws
<1>6. ASSUME NEW r \in BatchRounds, Batch!Take(r) PROVE QueryMoves(BatchRounds, Replacements)
  BY <1>6 DEF Batch!Take, QueryMoves, QueryTakes
<1>7. ASSUME NEW r \in BatchRounds, Batch!Replace(r) PROVE QueryMoves(BatchRounds, Replacements)
  BY <1>7 DEF Batch!Replace, QueryMoves, QueryReplaces, QueryTakes
<1>8. QED
  BY <1>1, <1>2, <1>3, <1>4, <1>5, <1>6, <1>7 DEF Batch!Next, Batch!Collector

LEMMA SingleMoves ==
    QueryTypes(LoneRounds, 0) /\ Single!Next => QueryMoves(LoneRounds, 0)
<1> SUFFICES ASSUME QueryTypes(LoneRounds, 0), Single!Next
             PROVE  QueryMoves(LoneRounds, 0)
  OBVIOUS
<1> USE DEF Single!Tickets, Single!Current, Single!Post, Single!Fault, Single!Raises, Posting
<1>1. CASE Single!Extension
  BY <1>1 DEF Single!Extension, QueryMoves, QueryAnswers
<1>2. CASE Single!Submit
  BY <1>2 DEF Single!Submit, QueryMoves, QuerySubmits
<1>3. CASE Single!PollRaises \/ Single!Timeout
  BY <1>3 DEF Single!PollRaises, Single!Timeout, QueryMoves, QueryTakes
<1>4. CASE Single!Return
  BY <1>4 DEF Single!Return, QueryMoves, QueryReturns
<1>5. CASE Single!Withdraw
  <2>1. PICK ids : /\ Single!Withdrawn(ids)
                   /\ \/ ids = {<<r, tries[r]>> : r \in LoneRounds} /\ errors' = errors
                      \/ errors' = errors + 1
    BY <1>5 DEF Single!Withdraw
  <2>2. query' = [i \in LoneRounds \X (0..0) |->
                    IF i \in ids \cap (LoneRounds \X (0..0)) /\ query[i] = "queued"
                    THEN "cancelled" ELSE query[i]]
    BY <2>1 DEF Single!Withdrawn
  <2>3. {<<r, tries[r]>> : r \in LoneRounds} \subseteq LoneRounds \X (0..0)
    BY DEF QueryTypes
  <2>4. \E own \in SUBSET (LoneRounds \X (0..0)) :
          /\ query' = [i \in LoneRounds \X (0..0) |->
                         IF i \in own /\ query[i] = "queued" THEN "cancelled" ELSE query[i]]
          /\ \/ own = {<<r, tries[r]>> : r \in LoneRounds} /\ errors' = errors
             \/ errors' = errors + 1
    <3>1. CASE errors' = errors + 1
      BY <2>2, <3>1
    <3>2. CASE ids = {<<r, tries[r]>> : r \in LoneRounds} /\ errors' = errors
      BY <2>2, <2>3, <3>2
    <3>3. QED
      BY <2>1, <3>1, <3>2
  <2>5. QED
    BY <1>5, <2>4 DEF Single!Withdraw, QueryMoves, QueryWithdraws
<1>6. ASSUME NEW r \in LoneRounds, Single!Take(r) PROVE QueryMoves(LoneRounds, 0)
  BY <1>6 DEF Single!Take, QueryMoves, QueryTakes
<1>7. ASSUME NEW r \in LoneRounds, Single!Replace(r) PROVE QueryMoves(LoneRounds, 0)
  BY <1>7 DEF Single!Replace, QueryMoves, QueryReplaces, QueryTakes
<1>8. QED
  BY <1>1, <1>2, <1>3, <1>4, <1>5, <1>6, <1>7 DEF Single!Next, Single!Collector

QueryInv(R, N) == QueryTypes(R, N) /\ QueryTidy(R, N)

LEMMA QueryStart ==
    SuiteInit => /\ part = "batch" => QueryInv(BatchRounds, Replacements)
                 /\ part = "single" => QueryInv(LoneRounds, 0)
<1>0. Replacements \in Nat
  BY CollectorAssumption DEF Batch!BatchAssumption
<1>1. ASSUME Batch!Init PROVE QueryInv(BatchRounds, Replacements)
  BY <1>0, <1>1 DEF Batch!Init, Batch!Tickets, QueryInv, QueryTypes, QueryTidy, QueryStates, QueryStages
<1>2. ASSUME Single!Init PROVE QueryInv(LoneRounds, 0)
  BY <1>2 DEF Single!Init, Single!Tickets, QueryInv, QueryTypes, QueryTidy, QueryStates, QueryStages
<1>3. SuiteInit /\ part = "batch" => Batch!Init
  BY DEF SuiteInit
<1>4. SuiteInit /\ part = "single" => Single!Init
  BY DEF SuiteInit
<1>5. QED
  BY <1>1, <1>2, <1>3, <1>4

LEMMA QueryKeeps ==
    /\ QueryInv(BatchRounds, Replacements) /\ Batch!Next
       => QueryInv(BatchRounds, Replacements)'
    /\ QueryInv(LoneRounds, 0) /\ Single!Next => QueryInv(LoneRounds, 0)'
<1>1. Replacements \in Nat
  BY CollectorAssumption DEF Batch!BatchAssumption
<1>2. ASSUME QueryInv(BatchRounds, Replacements), Batch!Next
      PROVE  QueryInv(BatchRounds, Replacements)'
  <2>1. QueryMoves(BatchRounds, Replacements)
    BY <1>2, BatchMoves DEF QueryInv
  <2>2. QED
    BY <1>1, <1>2, <2>1, QueryTyped, QueryKept DEF QueryInv
<1>3. ASSUME QueryInv(LoneRounds, 0), Single!Next PROVE QueryInv(LoneRounds, 0)'
  <2>1. QueryMoves(LoneRounds, 0)
    BY <1>3, SingleMoves DEF QueryInv
  <2>2. QED
    BY <1>3, <2>1, QueryTyped, QueryKept DEF QueryInv
<1>4. QED
  BY <1>2, <1>3

LEMMA QueryHolds ==
    /\ QueryInv(BatchRounds, Replacements) => Batch!NothingLeft /\ Batch!EachRoundOnce
    /\ QueryInv(LoneRounds, 0) => Single!NothingLeft
<1>1. Replacements \in Nat
  BY CollectorAssumption DEF Batch!BatchAssumption
<1>2. ASSUME QueryInv(BatchRounds, Replacements) PROVE Batch!NothingLeft /\ Batch!EachRoundOnce
  <2>1. Batch!NothingLeft
    BY <1>1, <1>2, QueriesEnd DEF QueryInv, Batch!NothingLeft, Batch!Tickets
  <2>2. Batch!EachRoundOnce
    BY <1>2 DEF QueryInv, QueryTidy, Batch!EachRoundOnce
  <2>3. QED
    BY <2>1, <2>2
<1>3. ASSUME QueryInv(LoneRounds, 0) PROVE Single!NothingLeft
  BY <1>3, QueriesEnd DEF QueryInv, Single!NothingLeft, Single!Tickets
<1>4. QED
  BY <1>2, <1>3

-----------------------------------------------------------------------------
(* The jobs of the panel. With an operator who waits, one launcher is at    *)
(* work at a time; it holds the entry until it has recorded its process, so *)
(* that nobody else's process is alive then.                                *)

Running == {"asking", "appended", "mirrored", "failed"}
Launching == {"prepare", "spawn", "record"}

JobTypes(S) ==
    /\ item \in [process : S \cup {"none"}, starting : BOOLEAN, cancelled : BOOLEAN,
                 stopped : BOOLEAN, failed : BOOLEAN]
    /\ launcher \in [S -> Launching \cup {"unused", "ended"}]
    /\ process \in [S -> Running \cup {"unborn", "stopped", "done"}]
    /\ cursor \in [S -> Nat] /\ nextIndex \in Nat
    /\ records \in [0..(JobRounds - 1) -> Nat] /\ kills \in Nat

JobOwned(S) ==
    /\ \A p, q \in S : launcher[p] \in Launching /\ launcher[q] \in Launching => p = q
    /\ \A p \in S : launcher[p] \in {"unused", "prepare", "spawn"} => process[p] = "unborn"
    /\ \A p \in S : launcher[p] \in Launching => item.process = "none"
    /\ \A p \in S : process[p] \in Running => launcher[p] = "record" \/ item.process = p
    /\ item.starting => \E p \in S : launcher[p] \in Launching
    /\ \A p \in S : launcher[p] \in Launching /\ item.stopped => item.cancelled
    /\ item.stopped /\ (\A p \in S : launcher[p] \notin Launching)
       => \A p \in S : process[p] \notin Running

LEMMA JobSizes == JobRounds \in Nat \ {0} /\ MaxRecords \in Nat
                  /\ "none" \notin PatientStarts /\ "none" \notin HastyStarts
BY JobAssumption DEF PatientJob!JobAssumption, HastyJob!JobAssumption

LEMMA OneRuns ==
    ASSUME NEW S, "none" \notin S, JobOwned(S), NEW p \in S, NEW q \in S,
           process[p] \in Running, process[q] \in Running
    PROVE  p = q
BY DEF JobOwned, Launching

\* Work on a round leaves the entry and the launchers alone; a process that
\* works was running.
JobWork(S) ==
    /\ UNCHANGED <<item, launcher>>
    /\ \E p \in S, what \in Running \cup {"done"} :
          process[p] \in Running /\ process' = [process EXCEPT ![p] = what]

LEMMA WorkOwned ==
    ASSUME NEW S, "none" \notin S, JobTypes(S), JobOwned(S), JobWork(S)
    PROVE  JobOwned(S)'
<1>1. PICK p \in S, what \in Running \cup {"done"} :
         process[p] \in Running /\ process' = [process EXCEPT ![p] = what]
  BY DEF JobWork
<1>2. \A q \in S : process'[q] = IF q = p THEN what ELSE process[q]
  BY <1>1 DEF JobTypes
<1>3. UNCHANGED <<item, launcher>>
  BY DEF JobWork
<1>4. launcher[p] \notin {"unused", "prepare", "spawn"}
  BY <1>1 DEF JobOwned, Running
<1>5. QED
  BY <1>1, <1>2, <1>3, <1>4 DEF JobOwned

LEMMA PatientWork ==
    ASSUME JobTypes(PatientStarts), NEW p \in PatientStarts,
           PatientJob!Work(p) \/ PatientJob!CollectFails(p)
    PROVE  JobWork(PatientStarts)
BY DEF PatientJob!Work, PatientJob!AppendRecord, PatientJob!Mirror, PatientJob!SaveState,
       PatientJob!SaveFailure, PatientJob!CollectFails, PatientJob!Become, PatientJob!control,
       JobWork, Running

LEMMA PatientTypes ==
    JobTypes(PatientStarts) /\ PatientJob!Next => JobTypes(PatientStarts)'
<1> SUFFICES ASSUME JobTypes(PatientStarts), PatientJob!Next PROVE JobTypes(PatientStarts)'
  OBVIOUS
<1> USE DEF JobTypes, Running, Launching, PatientJob!Ends, PatientJob!Become,
    PatientJob!control, PatientJob!work
<1>0. JobRounds \in Nat \ {0}
  BY JobSizes
<1>1. CASE PatientJob!StopStarting
  BY <1>1 DEF PatientJob!StopStarting
<1>2. CASE PatientJob!StopRunning
  <2>1. item' \in [process : PatientStarts \cup {"none"}, starting : BOOLEAN,
                   cancelled : BOOLEAN, stopped : BOOLEAN, failed : BOOLEAN]
    BY <1>2 DEF PatientJob!StopRunning
  <2>2. process' \in [PatientStarts -> Running \cup {"unborn", "stopped", "done"}]
    BY <1>2 DEF PatientJob!StopRunning
  <2>3. QED
    BY <1>2, <2>1, <2>2 DEF PatientJob!StopRunning
<1>3. ASSUME NEW p \in PatientStarts, PatientJob!Start(p) PROVE JobTypes(PatientStarts)'
  BY <1>3 DEF PatientJob!Start, PatientJob!NewItem, PatientJob!NoItem, PatientJob!None
<1>4. ASSUME NEW p \in PatientStarts, PatientJob!PrepareEnds(p) \/ PatientJob!LaunchFails(p)
      PROVE  JobTypes(PatientStarts)'
  BY <1>4 DEF PatientJob!PrepareEnds, PatientJob!LaunchFails
<1>5. ASSUME NEW p \in PatientStarts, PatientJob!Spawn(p) PROVE JobTypes(PatientStarts)'
  BY <1>5 DEF PatientJob!Spawn
<1>6. ASSUME NEW p \in PatientStarts, PatientJob!Record(p) PROVE JobTypes(PatientStarts)'
  <2>1. item' \in [process : PatientStarts \cup {"none"}, starting : BOOLEAN,
                   cancelled : BOOLEAN, stopped : BOOLEAN, failed : BOOLEAN]
    BY <1>6 DEF PatientJob!Record
  <2>2. process' \in [PatientStarts -> Running \cup {"unborn", "stopped", "done"}]
        /\ kills' \in Nat
    <3>1. \/ UNCHANGED <<process, kills>>
          \/ process' = [process EXCEPT ![p] = "stopped"] /\ kills' = kills + 1
      BY <1>6 DEF PatientJob!Record
    <3>2. QED
      BY <3>1
  <2>3. launcher' \in [PatientStarts -> Launching \cup {"unused", "ended"}]
    BY <1>6 DEF PatientJob!Record
  <2>4. QED
    BY <1>6, <2>1, <2>2, <2>3 DEF PatientJob!Record
<1>7. ASSUME NEW p \in PatientStarts, PatientJob!AppendRecord(p) PROVE JobTypes(PatientStarts)'
  <2>1. process' \in [PatientStarts -> Running \cup {"unborn", "stopped", "done"}]
    BY <1>7 DEF PatientJob!AppendRecord
  <2>2. records' \in [0..(JobRounds - 1) -> Nat]
    <3>1. records' = [records EXCEPT ![cursor[p]] = @ + 1]
      BY <1>7 DEF PatientJob!AppendRecord
    <3>2. records' = [i \in 0..(JobRounds - 1) |->
                        IF i = cursor[p] THEN records[i] + 1 ELSE records[i]]
      BY <3>1
    <3>3. QED
      BY <3>2
  <2>3. QED
    BY <1>7, <2>1, <2>2 DEF PatientJob!AppendRecord
<1>8. ASSUME NEW p \in PatientStarts, PatientJob!SaveState(p) PROVE JobTypes(PatientStarts)'
  BY <1>8 DEF PatientJob!SaveState
<1>9. ASSUME NEW p \in PatientStarts,
             PatientJob!Mirror(p) \/ PatientJob!SaveFailure(p) \/ PatientJob!CollectFails(p)
      PROVE  JobTypes(PatientStarts)'
  <2>1. process' \in [PatientStarts -> Running \cup {"unborn", "stopped", "done"}]
    BY <1>9 DEF PatientJob!Mirror, PatientJob!SaveFailure, PatientJob!CollectFails
  <2>2. nextIndex' \in Nat /\ UNCHANGED <<item, launcher, cursor, records, kills>>
    BY <1>9 DEF PatientJob!Mirror, PatientJob!SaveFailure, PatientJob!CollectFails
  <2>3. QED
    BY <2>1, <2>2
<1>10. QED
  BY <1>1, <1>2, <1>3, <1>4, <1>5, <1>6, <1>7, <1>8, <1>9
     DEF PatientJob!Next, PatientJob!Launch, PatientJob!Work

LEMMA PatientOwned ==
    JobTypes(PatientStarts) /\ JobOwned(PatientStarts) /\ PatientJob!Next
    => JobOwned(PatientStarts)'
<1> DEFINE S == PatientStarts
<1> SUFFICES ASSUME JobTypes(S), JobOwned(S), PatientJob!Next PROVE JobOwned(S)'
  OBVIOUS
<1>0. "none" \notin S
  BY JobSizes
<1> HIDE DEF S
<1>S. S = PatientStarts
  BY DEF S
<1> USE DEF JobOwned, PatientJob!Ends, PatientJob!work
<1>1. CASE PatientJob!StopStarting
  <2>1. item' = [item EXCEPT !.starting = FALSE, !.cancelled = TRUE, !.stopped = TRUE]
        /\ item.starting /\ UNCHANGED <<launcher, process>>
    BY <1>1 DEF PatientJob!StopStarting
  <2>2. item'.process = item.process /\ item'.starting = FALSE /\ item'.cancelled
    BY <2>1 DEF JobTypes
  <2>3. QED
    BY <2>1, <2>2
<1>2. CASE PatientJob!StopRunning
  <2>1. /\ item' = [item EXCEPT !.stopped = TRUE] /\ item.process \in S
        /\ process[item.process] \in Running
        /\ process' = [process EXCEPT ![item.process] = "stopped"]
        /\ UNCHANGED launcher
    BY <1>2, <1>S DEF PatientJob!StopRunning, PatientJob!Alive, PatientJob!Live, Running
  <2>2. item'.process = item.process /\ item'.starting = item.starting
    BY <2>1 DEF JobTypes
  <2>3. \A p \in S : process'[p] = IF p = item.process THEN "stopped" ELSE process[p]
    BY <2>1 DEF JobTypes
  <2>4. \A p \in S : launcher[p] \notin Launching
    BY <1>0, <2>1
  <2>5. \A p \in S : process'[p] \notin Running
    BY <2>3, <2>4 DEF Running, Launching
  <2>6. process[item.process] # "unborn"
    BY <2>1 DEF Running
  <2>7. QED
    BY <2>1, <2>2, <2>3, <2>4, <2>5, <2>6
<1>3. ASSUME NEW p \in S, PatientJob!Start(p) PROVE JobOwned(S)'
  <2>1. /\ launcher[p] = "unused" /\ launcher' = [launcher EXCEPT ![p] = "prepare"]
        /\ \A q \in S : launcher[q] \notin Launching
        /\ ~(item.process \in S /\ process[item.process] \in Running)
        /\ item'.process = "none" /\ item'.stopped = FALSE /\ UNCHANGED process
    BY <1>3, <1>S DEF PatientJob!Start, PatientJob!Alive, PatientJob!Live, Running, Launching,
       PatientJob!NewItem, PatientJob!NoItem, PatientJob!None
  <2>2. \A q \in S : launcher'[q] = IF q = p THEN "prepare" ELSE launcher[q]
    BY <2>1 DEF JobTypes
  <2>3. \A q \in S : process[q] \notin Running
    BY <2>1 DEF Launching
  <2>4. \A q \in S : launcher'[q] \in Launching <=> q = p
    BY <2>1, <2>2 DEF Launching
  <2>5. QED
    BY <2>1, <2>2, <2>3, <2>4
<1>4. ASSUME NEW p \in S, PatientJob!PrepareEnds(p) \/ PatientJob!LaunchFails(p)
      PROVE  JobOwned(S)'
  <2>1. /\ launcher[p] \in {"prepare", "spawn"} /\ UNCHANGED process
        /\ item'.process = item.process /\ item'.stopped = item.stopped
        /\ item'.cancelled = item.cancelled
        /\ \/ launcher' = [launcher EXCEPT ![p] = "spawn"] /\ item'.starting = item.starting
           \/ launcher' = [launcher EXCEPT ![p] = "ended"] /\ item'.starting = FALSE
    BY <1>4 DEF PatientJob!PrepareEnds, PatientJob!LaunchFails, JobTypes
  <2>2. process[p] = "unborn" /\ item.process = "none"
    BY <2>1 DEF Launching
  <2>3. \A q \in S : process[q] \notin Running
    BY <1>0, <2>1, <2>2 DEF Launching, Running
  <2>4. \A q \in S \ {p} : launcher'[q] = launcher[q] /\ launcher[q] \notin Launching
    BY <2>1 DEF JobTypes, Launching
  <2>5. CASE launcher'[p] = "spawn" /\ item'.starting = item.starting
    BY <2>1, <2>2, <2>3, <2>4, <2>5 DEF Launching
  <2>6. CASE launcher'[p] = "ended" /\ item'.starting = FALSE
    BY <2>1, <2>2, <2>3, <2>4, <2>6 DEF Launching
  <2>7. QED
    BY <2>1, <2>5, <2>6 DEF JobTypes
<1>5. ASSUME NEW p \in S, PatientJob!Spawn(p) PROVE JobOwned(S)'
  <2>1. /\ launcher[p] = "spawn" /\ launcher' = [launcher EXCEPT ![p] = "record"]
        /\ UNCHANGED item
        /\ \E what \in {"asking", "done"} : process' = [process EXCEPT ![p] = what]
    BY <1>5 DEF PatientJob!Spawn
  <2>2. \A q \in S : launcher'[q] = IF q = p THEN "record" ELSE launcher[q]
    BY <2>1 DEF JobTypes
  <2>3. \A q \in S \ {p} : process'[q] = process[q]
    BY <2>1 DEF JobTypes
  <2>4. \A q \in S : launcher'[q] \in Launching <=> launcher[q] \in Launching
    BY <2>1, <2>2 DEF Launching
  <2>5. item.stopped => item.cancelled
    BY <2>1 DEF Launching
  <2>6. \A q \in S \ {p} : process'[q] \notin Running
    BY <1>0, <2>1, <2>3 DEF Launching
  <2>7. launcher'[p] = "record" /\ launcher[p] \in Launching
    BY <2>1, <2>2 DEF Launching
  <2>8. item.stopped => item.cancelled
    BY <2>5
  <2>9. QED
    BY <2>1, <2>2, <2>3, <2>4, <2>6, <2>7, <2>8
<1>6. ASSUME NEW p \in S, PatientJob!Record(p) PROVE JobOwned(S)'
  <2>1. /\ launcher[p] = "record" /\ launcher' = [launcher EXCEPT ![p] = "ended"]
        /\ item' = [item EXCEPT !.process = p, !.starting = FALSE]
        /\ item.cancelled /\ process[p] \in Running => process' = [process EXCEPT ![p] = "stopped"]
        /\ ~(item.cancelled /\ process[p] \in Running) => UNCHANGED process
    BY <1>6, <1>S DEF PatientJob!Record, PatientJob!Alive, PatientJob!Live, Running
  <2>2. item'.process = p /\ item'.starting = FALSE /\ item'.stopped = item.stopped
    BY <2>1 DEF JobTypes
  <2>3. \A q \in S \ {p} : process'[q] = process[q] /\ launcher'[q] = launcher[q]
                           /\ launcher[q] \notin Launching
    BY <2>1 DEF JobTypes, Launching
  <2>4. \A q \in S \ {p} : process[q] \notin Running
    BY <1>0, <2>1, <2>3 DEF Launching
  <2>5. item.stopped => process'[p] \notin Running
    BY <2>1, <2>4 DEF JobTypes, Running
  <2>6. launcher'[p] = "ended"
    BY <2>1 DEF JobTypes
  <2>7. QED
    BY <2>2, <2>3, <2>4, <2>5, <2>6 DEF Launching
<1>7. ASSUME NEW p \in S, PatientJob!Work(p) \/ PatientJob!CollectFails(p) PROVE JobOwned(S)'
  BY <1>0, <1>7, <1>S, PatientWork, WorkOwned
<1>8. QED
  BY <1>1, <1>2, <1>3, <1>4, <1>5, <1>6, <1>7, <1>S
     DEF PatientJob!Next, PatientJob!Launch

\* The state of the one process that runs is the state on the disk; rounds
\* ahead of it have no record, and the one in hand has one too many only for
\* a stop.
JobCounted(S) ==
    /\ \A p \in S : process[p] \in Running => cursor[p] = nextIndex /\ nextIndex < JobRounds
    /\ \A i \in 0..(JobRounds - 1) :
          /\ i > nextIndex => records[i] = 0
          /\ records[i] <= 1 + kills
          /\ i = nextIndex /\ (\A p \in S : process[p] \notin {"appended", "mirrored"})
             => records[i] <= kills

LEMMA PatientCounted ==
    JobTypes(PatientStarts) /\ JobOwned(PatientStarts) /\ JobCounted(PatientStarts)
    /\ PatientJob!Next
    => JobCounted(PatientStarts)'
<1> DEFINE S == PatientStarts
<1> SUFFICES ASSUME JobTypes(S), JobOwned(S), JobCounted(S), PatientJob!Next
             PROVE  JobCounted(S)'
  OBVIOUS
<1>0. "none" \notin S /\ JobRounds \in Nat \ {0}
  BY JobSizes
<1> HIDE DEF S
<1>S. S = PatientStarts
  BY DEF S
<1>9. \A i \in 0..(JobRounds - 1) : records[i] \in Nat
  BY DEF JobTypes
<1> USE DEF JobCounted, PatientJob!Ends, PatientJob!work
\* Steps that stop a process or start none, and write nothing.
<1>1. ASSUME UNCHANGED <<cursor, nextIndex, records>>,
             kills' \in Nat, kills <= kills',
             \A p \in S : process'[p] = process[p] \/ process'[p] \notin Running,
             \A p \in S : process'[p] # process[p] => kills' = kills + 1
      PROVE  JobCounted(S)'
  <2>1. CASE kills' = kills + 1
    BY <1>0, <1>1, <1>9, <2>1 DEF JobTypes
  <2>2. CASE kills' # kills + 1
    <3>1. \A p \in S : process'[p] = process[p]
      BY <1>1, <2>2
    <3>2. \A i \in 0..(JobRounds - 1) : records[i] <= 1 + kills => records[i] <= 1 + kills'
      BY <1>1, <1>9 DEF JobTypes
    <3>3. \A i \in 0..(JobRounds - 1) : records[i] <= kills => records[i] <= kills'
      BY <1>1, <1>9 DEF JobTypes
    <3>4. QED
      BY <1>1, <3>1, <3>2, <3>3
  <2>3. QED
    BY <2>1, <2>2
<1>2. CASE PatientJob!StopStarting
  BY <1>1, <1>2 DEF PatientJob!StopStarting, JobTypes
<1>3. CASE PatientJob!StopRunning
  BY <1>1, <1>3 DEF PatientJob!StopRunning, JobTypes, Running
<1>4. ASSUME NEW p \in S, PatientJob!Start(p) \/ PatientJob!PrepareEnds(p) \/ PatientJob!LaunchFails(p)
      PROVE  JobCounted(S)'
  BY <1>1, <1>4 DEF PatientJob!Start, PatientJob!PrepareEnds, PatientJob!LaunchFails, JobTypes
<1>5. ASSUME NEW p \in S, PatientJob!Record(p) PROVE JobCounted(S)'
  <2>1. /\ UNCHANGED <<cursor, nextIndex, records>>
        /\ \/ UNCHANGED <<process, kills>>
           \/ process' = [process EXCEPT ![p] = "stopped"] /\ kills' = kills + 1
    BY <1>5 DEF PatientJob!Record
  <2>2. QED
    BY <1>1, <2>1 DEF JobTypes, Running
<1>6. ASSUME NEW p \in S, PatientJob!Spawn(p) PROVE JobCounted(S)'
  <2>1. /\ process' = [process EXCEPT ![p] = IF nextIndex < JobRounds THEN "asking" ELSE "done"]
        /\ cursor' = [cursor EXCEPT ![p] = nextIndex]
        /\ UNCHANGED <<nextIndex, records, kills>> /\ process[p] = "unborn"
    BY <1>6 DEF PatientJob!Spawn, JobOwned
  <2>2. \A q \in S : /\ process'[q] = IF q = p THEN (IF nextIndex < JobRounds THEN "asking" ELSE "done")
                                       ELSE process[q]
                     /\ cursor'[q] = IF q = p THEN nextIndex ELSE cursor[q]
    BY <2>1 DEF JobTypes
  <2>3. QED
    BY <2>1, <2>2 DEF Running
<1>7. ASSUME NEW p \in S, PatientJob!Work(p) \/ PatientJob!CollectFails(p) PROVE JobCounted(S)'
  <2>0. process[p] \in Running /\ kills' = kills
    BY <1>7, <1>S DEF PatientJob!Work, PatientJob!AppendRecord, PatientJob!Mirror,
       PatientJob!SaveState, PatientJob!SaveFailure, PatientJob!CollectFails, Running
  <2>1. cursor[p] = nextIndex /\ nextIndex < JobRounds /\ nextIndex \in 0..(JobRounds - 1)
    BY <1>0, <2>0 DEF JobTypes
  <2>2. \A q \in S : process[q] \in Running => q = p
    BY <1>0, <2>0, OneRuns
  <2>3. \E what : process' = [process EXCEPT ![p] = what]
    BY <1>7, <1>S DEF PatientJob!Work, PatientJob!AppendRecord, PatientJob!Mirror,
       PatientJob!SaveState, PatientJob!SaveFailure, PatientJob!CollectFails, PatientJob!Become
  <2>4. \A q \in S \ {p} : process'[q] = process[q] /\ process'[q] \notin Running
    BY <2>2, <2>3 DEF JobTypes
  <2>5. CASE PatientJob!AppendRecord(p)
    <3>1. /\ process[p] = "asking" /\ process'[p] = "appended" /\ UNCHANGED <<cursor, nextIndex>>
          /\ \A i \in 0..(JobRounds - 1) :
                records'[i] = IF i = nextIndex THEN records[i] + 1 ELSE records[i]
      BY <2>1, <2>5, <1>S DEF PatientJob!AppendRecord, PatientJob!Become, JobTypes
    <3>2. records[nextIndex] <= kills
      BY <2>1, <2>2, <3>1 DEF Running
    <3>3. QED
      BY <1>9, <2>0, <2>1, <2>4, <3>1, <3>2 DEF JobTypes, Running
  <2>6. CASE PatientJob!Mirror(p)
    <3>1. /\ process[p] = "appended" /\ process'[p] = "mirrored"
          /\ UNCHANGED <<cursor, nextIndex, records>>
      BY <2>6, <1>S DEF PatientJob!Mirror, PatientJob!Become, JobTypes
    <3>2. QED
      BY <2>0, <2>1, <2>4, <3>1
  <2>7. CASE PatientJob!SaveState(p)
    <3>1. /\ process'[p] = IF nextIndex + 1 < JobRounds THEN "asking" ELSE "done"
          /\ cursor' = [cursor EXCEPT ![p] = @ + 1] /\ nextIndex' = nextIndex + 1
          /\ UNCHANGED records
      BY <2>1, <2>7, <1>S DEF PatientJob!SaveState, PatientJob!Become, JobTypes
    <3>2. cursor'[p] = nextIndex'
      BY <2>1, <3>1 DEF JobTypes
    <3>3. \A i \in 0..(JobRounds - 1) : i >= nextIndex' => records'[i] = 0
      BY <2>1, <3>1
    <3>4. nextIndex \in Nat /\ kills \in Nat
      BY DEF JobTypes
    <3>5. QED
      BY <1>9, <2>0, <2>4, <3>1, <3>2, <3>3, <3>4 DEF Running
  <2>8. CASE PatientJob!SaveFailure(p) \/ PatientJob!CollectFails(p)
    <3>1. /\ process[p] \in {"asking", "failed"} /\ process'[p] \in {"asking", "failed"}
          /\ nextIndex' = nextIndex /\ UNCHANGED <<cursor, records>>
      BY <2>1, <2>8, <1>S DEF PatientJob!SaveFailure, PatientJob!CollectFails, PatientJob!Become, JobTypes
    <3>2. \A q \in S : process[q] \notin {"appended", "mirrored"}
      BY <2>2, <3>1 DEF Running
    <3>3. QED
      BY <2>0, <2>1, <2>4, <3>1, <3>2
  <2>9. QED
    BY <1>7, <2>5, <2>6, <2>7, <2>8 DEF PatientJob!Work
<1>8. QED
  BY <1>2, <1>3, <1>4, <1>5, <1>6, <1>7, <1>S DEF PatientJob!Next, PatientJob!Launch

JobInv == JobTypes(PatientStarts) /\ JobOwned(PatientStarts) /\ JobCounted(PatientStarts)

LEMMA JobStart == SuiteInit /\ part = "patient" => JobInv
<1> SUFFICES ASSUME PatientJob!Init PROVE JobInv
  BY DEF SuiteInit
<1>1. JobTypes(PatientStarts)
  BY DEF PatientJob!Init, PatientJob!NoItem, PatientJob!None, JobTypes, Running, Launching
<1>2. JobOwned(PatientStarts)
  BY DEF PatientJob!Init, PatientJob!NoItem, PatientJob!None, JobOwned, Running, Launching
<1>3. JobCounted(PatientStarts)
  BY JobSizes DEF PatientJob!Init, JobCounted, Running
<1>4. QED
  BY <1>1, <1>2, <1>3 DEF JobInv

LEMMA JobKeeps == JobInv /\ PatientJob!Next => JobInv'
BY PatientTypes, PatientOwned, PatientCounted DEF JobInv

LEMMA JobHolds ==
    JobInv => PatientJob!StopStops /\ PatientJob!OneProcess /\ PatientJob!OneObservation
<1> SUFFICES ASSUME JobInv
             PROVE  PatientJob!StopStops /\ PatientJob!OneProcess /\ PatientJob!OneObservation
  OBVIOUS
<1>0. "none" \notin PatientStarts
  BY JobSizes
<1>1. \A p : PatientJob!Alive(p) <=> p \in PatientStarts /\ process[p] \in Running
  BY DEF PatientJob!Alive, PatientJob!Live, Running
<1>2. PatientJob!StopStops
  BY <1>1 DEF PatientJob!StopStops, JobInv, JobOwned, Launching
<1>3. PatientJob!OneProcess
  <2> DEFINE L == {p \in PatientStarts : PatientJob!Alive(p)}
  <2>1. \A p, q \in L : p = q
    BY <1>0, <1>1, OneRuns DEF JobInv
  <2>2. L = {} \/ \E p : L = {p}
    BY <2>1
  <2>3. Cardinality(L) \in {0, 1}
    BY <2>2, FS_EmptySet, FS_Singleton
  <2>4. PatientJob!Cardinality(L) = Cardinality(L)
    BY DEF PatientJob!Cardinality, Cardinality
  <2>5. QED
    BY <2>3, <2>4 DEF PatientJob!OneProcess
<1>4. PatientJob!OneObservation
  BY DEF PatientJob!OneObservation, JobInv, JobTypes, JobCounted
<1>5. QED
  BY <1>2, <1>3, <1>4

-----------------------------------------------------------------------------
(* Several processes of one job, as starts in a hurry leave them: each goes *)
(* on from rounds that have a record.                                       *)

Recorded(n) == \A i \in 0..(JobRounds - 1) : i < n => records[i] > 0

LossInv ==
    /\ process \in [HastyStarts -> Running \cup {"unborn", "stopped", "done"}]
    /\ cursor \in [HastyStarts -> Nat] /\ nextIndex \in Nat
    /\ records \in [0..(JobRounds - 1) -> Nat]
    /\ Recorded(nextIndex)
    /\ \A p \in HastyStarts :
          /\ process[p] \in Running => Recorded(cursor[p])
          /\ process[p] \in {"appended", "mirrored"} => Recorded(cursor[p] + 1)

LEMMA LossStart == SuiteInit /\ part = "hasty" => LossInv
<1> SUFFICES ASSUME HastyJob!Init PROVE LossInv
  BY DEF SuiteInit
<1>1. QED
  BY JobSizes DEF HastyJob!Init, LossInv, Recorded, Running

\* What a step does to the disk and to the processes.
LossSteps ==
    \/ /\ UNCHANGED <<cursor, nextIndex, records>>
       /\ UNCHANGED process \/ \E p \in HastyStarts : process' = [process EXCEPT ![p] = "stopped"]
    \/ \E p \in HastyStarts :
          /\ process' = [process EXCEPT ![p] = IF nextIndex < JobRounds THEN "asking" ELSE "done"]
          /\ cursor' = [cursor EXCEPT ![p] = nextIndex] /\ UNCHANGED <<nextIndex, records>>
    \/ \E p \in HastyStarts :
          /\ process[p] = "asking" /\ process' = [process EXCEPT ![p] = "appended"]
          /\ records' = [records EXCEPT ![cursor[p]] = @ + 1]
          /\ UNCHANGED <<cursor, nextIndex>>
    \/ \E p \in HastyStarts :
          /\ \/ process[p] = "appended" /\ process' = [process EXCEPT ![p] = "mirrored"]
             \/ process[p] = "asking" /\ process' = [process EXCEPT ![p] = "failed"]
          /\ UNCHANGED <<cursor, nextIndex, records>>
    \/ \E p \in HastyStarts, what \in {"asking", "done"} :
          /\ process[p] = "mirrored" /\ process' = [process EXCEPT ![p] = what]
          /\ cursor' = [cursor EXCEPT ![p] = @ + 1] /\ nextIndex' = cursor[p] + 1
          /\ UNCHANGED records
    \/ \E p \in HastyStarts :
          /\ process[p] = "failed" /\ process' = [process EXCEPT ![p] = "asking"]
          /\ nextIndex' = cursor[p] /\ UNCHANGED <<cursor, records>>

LEMMA HastySteps == HastyJob!Next => LossSteps
<1> SUFFICES ASSUME HastyJob!Next PROVE LossSteps
  OBVIOUS
<1> USE DEF HastyJob!work, HastyJob!Become, HastyJob!control
<1>1. CASE HastyJob!StopStarting \/ HastyJob!StopRunning
  BY <1>1 DEF HastyJob!StopStarting, HastyJob!StopRunning, HastyJob!Alive, LossSteps
<1>2. ASSUME NEW p \in HastyStarts,
             HastyJob!Start(p) \/ HastyJob!PrepareEnds(p) \/ HastyJob!LaunchFails(p) \/ HastyJob!Record(p)
      PROVE  LossSteps
  BY <1>2 DEF HastyJob!Start, HastyJob!PrepareEnds, HastyJob!LaunchFails, HastyJob!Record, LossSteps
<1>3. ASSUME NEW p \in HastyStarts, HastyJob!Spawn(p) PROVE LossSteps
  BY <1>3 DEF HastyJob!Spawn, LossSteps
<1>4. ASSUME NEW p \in HastyStarts, HastyJob!AppendRecord(p) PROVE LossSteps
  BY <1>4 DEF HastyJob!AppendRecord, LossSteps
<1>5. ASSUME NEW p \in HastyStarts, HastyJob!Mirror(p) \/ HastyJob!CollectFails(p) PROVE LossSteps
  BY <1>5 DEF HastyJob!Mirror, HastyJob!CollectFails, LossSteps
<1>6. ASSUME NEW p \in HastyStarts, HastyJob!SaveState(p) PROVE LossSteps
  BY <1>6 DEF HastyJob!SaveState, LossSteps
<1>7. ASSUME NEW p \in HastyStarts, HastyJob!SaveFailure(p) PROVE LossSteps
  BY <1>7 DEF HastyJob!SaveFailure, LossSteps
<1>8. QED
  BY <1>1, <1>2, <1>3, <1>4, <1>5, <1>6, <1>7 DEF HastyJob!Next, HastyJob!Launch, HastyJob!Work

LEMMA LossKeeps == LossInv /\ HastyJob!Next => LossInv'
<1> SUFFICES ASSUME LossInv, LossSteps PROVE LossInv'
  BY HastySteps
<1>0. JobRounds \in Nat \ {0}
  BY JobSizes
<1> USE DEF LossInv, Running
<1>1. CASE /\ UNCHANGED <<cursor, nextIndex, records>>
           /\ UNCHANGED process \/ \E p \in HastyStarts : process' = [process EXCEPT ![p] = "stopped"]
  BY <1>1 DEF Recorded
<1>2. ASSUME NEW p \in HastyStarts,
             process' = [process EXCEPT ![p] = IF nextIndex < JobRounds THEN "asking" ELSE "done"],
             cursor' = [cursor EXCEPT ![p] = nextIndex], UNCHANGED <<nextIndex, records>>
      PROVE  LossInv'
  BY <1>2 DEF Recorded
<1>3. ASSUME NEW p \in HastyStarts,
             process[p] = "asking", process' = [process EXCEPT ![p] = "appended"],
             records' = [records EXCEPT ![cursor[p]] = @ + 1],
             UNCHANGED <<cursor, nextIndex>>
      PROVE  LossInv'
  <2>1. \A i \in 0..(JobRounds - 1) :
           records'[i] = IF i = cursor[p] THEN records[i] + 1 ELSE records[i]
    BY <1>3
  <2>2. records' \in [0..(JobRounds - 1) -> Nat]
    <3>1. records' = [i \in 0..(JobRounds - 1) |->
                        IF i = cursor[p] THEN records[i] + 1 ELSE records[i]]
      BY <1>3
    <3>2. QED
      BY <3>1
  <2>3. \A n \in Nat : Recorded(n) => Recorded(n)'
    BY <2>1 DEF Recorded
  <2>4. Recorded(cursor[p] + 1)'
    BY <1>0, <1>3, <2>1 DEF Recorded
  <2>5. QED
    BY <1>3, <2>2, <2>3, <2>4
<1>4. ASSUME NEW p \in HastyStarts,
             \/ process[p] = "appended" /\ process' = [process EXCEPT ![p] = "mirrored"]
             \/ process[p] = "asking" /\ process' = [process EXCEPT ![p] = "failed"],
             UNCHANGED <<cursor, nextIndex, records>>
      PROVE  LossInv'
  BY <1>4 DEF Recorded
<1>5. ASSUME NEW p \in HastyStarts, NEW what \in {"asking", "done"},
             process[p] = "mirrored", process' = [process EXCEPT ![p] = what],
             cursor' = [cursor EXCEPT ![p] = @ + 1], nextIndex' = cursor[p] + 1,
             UNCHANGED records
      PROVE  LossInv'
  <2>1. Recorded(cursor[p] + 1) /\ cursor[p] + 1 \in Nat
    BY <1>5
  <2>2. \A n : Recorded(n) => Recorded(n)'
    BY <1>5 DEF Recorded
  <2>3. \A q \in HastyStarts : /\ process'[q] = IF q = p THEN what ELSE process[q]
                               /\ cursor'[q] = IF q = p THEN cursor[p] + 1 ELSE cursor[q]
    BY <1>5
  <2>4. Recorded(nextIndex)'
    BY <1>5, <2>1 DEF Recorded
  <2>5. \A q \in HastyStarts : process'[q] \in Running => Recorded(cursor[q])'
    BY <1>5, <2>1, <2>3 DEF Recorded
  <2>6. \A q \in HastyStarts :
           process'[q] \in {"appended", "mirrored"} => Recorded(cursor[q] + 1)'
    BY <1>5, <2>3 DEF Recorded
  <2>7. process' \in [HastyStarts -> Running \cup {"unborn", "stopped", "done"}]
        /\ cursor' \in [HastyStarts -> Nat] /\ nextIndex' \in Nat
    BY <1>5
  <2>8. QED
    BY <1>5, <2>4, <2>5, <2>6, <2>7
<1>6. ASSUME NEW p \in HastyStarts,
             process[p] = "failed", process' = [process EXCEPT ![p] = "asking"],
             nextIndex' = cursor[p], UNCHANGED <<cursor, records>>
      PROVE  LossInv'
  BY <1>6 DEF Recorded
<1>7. QED
  BY <1>1, <1>2, <1>3, <1>4, <1>5, <1>6 DEF LossSteps

LEMMA LossHolds == LossInv => HastyJob!NoRoundLost
BY DEF LossInv, Recorded, HastyJob!NoRoundLost
==============================================================================

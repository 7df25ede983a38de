---------------------------- MODULE HostResources ----------------------------
(***************************************************************************)
(* The host of the Windows workers. A collection announces itself, waits   *)
(* for a slot of its process and for memory, runs a child process and      *)
(* leaves; the supervisor in every worker process closes the browsers and  *)
(* the apps nobody collects with when memory is short.                     *)
(*                                                                         *)
(* A collection is a pair of a process and a model. The announcement is an *)
(* entry in the process and a marker file for the others, which counts for *)
(* the length of a lease after it was written and is left behind by a      *)
(* process that dies. Restarting an emulator that is offline, which looks  *)
(* at no announcement, is left out.                                        *)
(***************************************************************************)
EXTENDS Integers, FiniteSets

CONSTANTS
    Processes,      \* worker processes, numbered from 1
    Models,
    Managed,        \* MANAGED_BROWSER_PORTS
    Apps,           \* DEVICES
    Slots,          \* GEO_SUBPROCESS_CONCURRENCY
    MaxRuns,        \* bound on collections
    MaxDeaths       \* bound on deaths of processes

HostAssumption ==
    /\ IsFiniteSet(Processes) /\ Processes = 1..Cardinality(Processes)
    /\ IsFiniteSet(Models) /\ Managed \cup Apps \subseteq Models
    /\ Slots \in Nat \ {0} /\ {MaxRuns, MaxDeaths} \subseteq Nat

VARIABLES
    place,          \* place[p, m]: where the collection is
    active,         \* active[p]: _active
    files,          \* files[m, pid]: the marker files
    pid,            \* pid[p]
    free,           \* free[p]: _RUN_SLOTS
    eye,            \* eye[p]: the supervisor of p
    running,        \* the browsers and apps that run
    wrote,          \* history: how old the announcement of a collection is
    runs, deaths

host == <<place, active, files, pid, free, eye, running, wrote, runs, deaths>>

Collections == Processes \X Models
Pids == 0..(Cardinality(Processes) + MaxDeaths)
Ages == {"none", "young", "old"}
Programs == Managed \cup Apps
Asleep == [at |-> "rest", seen |-> {}, todo |-> {}, busy |-> {}]

Init ==
    /\ place = [c \in Collections |-> "idle"]
    /\ active = [p \in Processes |-> {}]
    /\ files = [f \in Models \X Pids |-> "none"]
    /\ pid = [p \in Processes |-> p]
    /\ free = [p \in Processes |-> Slots]
    /\ running = Programs
    /\ eye = [p \in Processes |-> Asleep]
    /\ wrote = [c \in Collections |-> "none"]
    /\ runs = 0 /\ deaths = 0

-----------------------------------------------------------------------------
(* A collection.                                                           *)

MarkerOfModel(c) == <<c[2], 0>>
\* {model}-{pid}.json
Marker(c) == <<c[2], pid[c[1]]>>
Goes(c, to) == place' = [place EXCEPT ![c] = to]
Calm == UNCHANGED <<pid, eye, deaths>>

\* activity: the marker may not get written
Enter(c) ==
    /\ place[c] = "idle" /\ runs < MaxRuns /\ runs' = runs + 1
    /\ Goes(c, "waiting")
    /\ active' = [active EXCEPT ![c[1]] = @ \cup {c[2]}]
    /\ \/ /\ files' = [files EXCEPT ![Marker(c)] = "young"]
          /\ wrote' = [wrote EXCEPT ![c] = "young"]
       \/ UNCHANGED <<files, wrote>>
    /\ UNCHANGED <<free, running>> /\ Calm

TakeSlot(c) ==
    /\ place[c] = "waiting" /\ free[c[1]] > 0
    /\ Goes(c, "gate")
    /\ free' = [free EXCEPT ![c[1]] = @ - 1]
    /\ UNCHANGED <<active, files, running, wrote, runs>> /\ Calm

GateUnreleased(c) ==
    /\ place[c] = "gate"
    /\ \/ Goes(c, "child") /\ running' = running \cup ({c[2]} \cap Programs)
       \/ Goes(c, "leaving") /\ UNCHANGED running
    /\ UNCHANGED <<active, files, free, wrote, runs>> /\ Calm
\* There is memory for the child, or the wait for it raises.
Gate(c) ==
    /\ place[c] = "gate"
    /\ \/ /\ Goes(c, "child") /\ UNCHANGED free
          /\ running' = running \cup ({c[2]} \cap Programs)
       \/ /\ Goes(c, "leaving") /\ UNCHANGED running
          /\ free' = [free EXCEPT ![c[1]] = @ + 1]
    /\ UNCHANGED <<active, files, wrote, runs>> /\ Calm

\* The child ends, or is ended: by its time limit, a control of the task or an
\* error of the callback. Its browser stays.
ChildEnds(c) ==
    /\ place[c] = "child"
    /\ Goes(c, "leaving")
    /\ free' = [free EXCEPT ![c[1]] = @ + 1]
    /\ UNCHANGED <<active, files, running, wrote, runs>> /\ Calm

Leave(c) ==
    /\ place[c] = "leaving"
    /\ Goes(c, "idle")
    /\ active' = [active EXCEPT ![c[1]] = @ \ {c[2]}]
    /\ files' = [files EXCEPT ![Marker(c)] = "none"] \/ UNCHANGED files
    /\ wrote' = [wrote EXCEPT ![c] = "none"]
    /\ UNCHANGED <<free, running, runs>> /\ Calm

-----------------------------------------------------------------------------
(* The supervisor of a process.                                            *)

External == {m \in Models : \E i \in Pids : files[m, i] = "young"}
SeenInside(p) == active[p]
Seen(p) == active[p] \cup External
Busy(p) ==
    {c[2] : c \in {d \in Collections : place[d] # "idle" /\ (d[1] = p \/ wrote[d] = "young")}}
Tidied == [f \in DOMAIN files |-> IF files[f] = "old" THEN "none" ELSE files[f]]

Sees(p, state) == eye' = [eye EXCEPT ![p] = state]
Apart == UNCHANGED <<place, active, pid, free, wrote, runs, deaths>>

\* _reclaim_idle_managed_browsers, when memory is short: who is active is asked
\* first, and the table of ports read after it
Look(p) ==
    /\ eye[p].at = "rest"
    /\ Sees(p, [at |-> "looked", seen |-> Seen(p), todo |-> {}, busy |-> Busy(p)])
    /\ files' = Tidied
    /\ UNCHANGED running /\ Apart
List(p) ==
    /\ eye[p].at = "looked"
    /\ \/ Sees(p, [eye[p] EXCEPT !.at = "closing", !.todo = (running \cap Managed) \ eye[p].seen])
       \/ Sees(p, Asleep)
    /\ UNCHANGED <<files, running>> /\ Apart
\* _sample_device: an app that has grown too large
Measure(p) ==
    /\ eye[p].at = "rest"
    /\ \E m \in (Apps \cap running) \ Seen(p) :
          Sees(p, [at |-> "closing", seen |-> Seen(p), todo |-> {m}, busy |-> Busy(p)])
    /\ files' = Tidied
    /\ UNCHANGED running /\ Apart
Close(p) ==
    /\ eye[p].at = "closing"
    /\ IF eye[p].todo = {} THEN Sees(p, Asleep) /\ UNCHANGED running
       ELSE \E m \in eye[p].todo :
               /\ Sees(p, [eye[p] EXCEPT !.todo = @ \ {m}])
               /\ running' = running \ {m} \/ UNCHANGED running
    /\ UNCHANGED files /\ Apart

-----------------------------------------------------------------------------
\* An announcement outlives its lease.
Expire ==
    /\ \E f \in DOMAIN files :
          /\ files[f] = "young"
          /\ files' = [files EXCEPT ![f] = "old"]
          /\ wrote' = [c \in Collections |->
                          IF wrote[c] = "young" /\ Marker(c) = f THEN "old" ELSE wrote[c]]
    /\ UNCHANGED <<place, active, pid, free, eye, running, runs, deaths>>

\* A process dies and another starts in its place; its markers stay.
Die(p) ==
    /\ deaths < MaxDeaths /\ deaths' = deaths + 1
    /\ pid' = [pid EXCEPT ![p] = Cardinality(Processes) + deaths']
    /\ place' = [c \in Collections |-> IF c[1] = p THEN "idle" ELSE place[c]]
    /\ wrote' = [c \in Collections |-> IF c[1] = p THEN "none" ELSE wrote[c]]
    /\ active' = [active EXCEPT ![p] = {}]
    /\ free' = [free EXCEPT ![p] = Slots]
    /\ Sees(p, Asleep)
    /\ UNCHANGED <<files, running, runs>>

Step(c) == TakeSlot(c) \/ Gate(c) \/ ChildEnds(c) \/ Leave(c)
Supervise(p) == Look(p) \/ List(p) \/ Measure(p) \/ Close(p)
Next ==
    \/ \E c \in Collections : Enter(c) \/ Step(c)
    \/ \E p \in Processes : Supervise(p) \/ Die(p)
    \/ Expire
Spec == Init /\ [][Next]_host
FairSpec == Spec /\ \A c \in Collections : WF_host(Step(c))

-----------------------------------------------------------------------------
TypeOK ==
    /\ place \in [Collections -> {"idle", "waiting", "gate", "child", "leaving"}]
    /\ active \in [Processes -> SUBSET Models]
    /\ files \in [Models \X Pids -> Ages] /\ pid \in [Processes -> Pids]
    /\ free \in [Processes -> 0..Slots] /\ running \subseteq Programs
    /\ wrote \in [Collections -> Ages]
    /\ runs \in 0..MaxRuns /\ deaths \in 0..MaxDeaths

(* What a supervisor closes nobody collected with when it looked: neither  *)
(* its own process nor, for the length of a lease, any other one, however  *)
(* the processes enter, leave and die.                                     *)
OnlyIdleClosed == \A p \in Processes : eye[p].todo \cap eye[p].busy = {}

(* A slot is held by a collection at the gate or with a child, and by none  *)
(* else, whatever the waits for memory and the children come to.            *)
SlotsCounted ==
    \A p \in Processes :
        free[p] + Cardinality({m \in Models : place[p, m] \in {"gate", "child"}}) = Slots

(* In the end every collection has left.                                   *)
AllLeft == \A c \in Collections : place[c] = "idle"
=============================================================================

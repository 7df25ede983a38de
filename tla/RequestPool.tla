----------------------------- MODULE RequestPool -----------------------------
(***************************************************************************)
(* The dashboard's HTTP server: one thread accepts, a pool of threads      *)
(* answers, a semaphore bounds what is accepted and not yet answered.      *)
(***************************************************************************)
EXTENDS Integers, FiniteSets

CONSTANTS
    Requests,
    MaxWorkers, MaxPending  \* max_workers, max_pending

PoolAssumption == IsFiniteSet(Requests) /\ {MaxWorkers, MaxPending} \subseteq Nat

VARIABLES
    request,    \* where each request is
    slots,      \* _request_slots
    active,     \* _active_requests
    accepted, rejected, \* _accepted_requests, _rejected_requests
    open        \* is the executor open?

pool == <<request, slots, active, accepted, rejected, open>>

Init ==
    /\ request = [r \in Requests |-> "new"]
    /\ slots = MaxPending /\ active = 0 /\ accepted = 0 /\ rejected = 0 /\ open = TRUE

Are(place) == {r \in Requests : request[r] = place}
Move(r, place) == request' = [request EXCEPT ![r] = place]

Reject(r) ==
    /\ request[r] = "new" /\ slots = 0
    /\ Move(r, "rejected") /\ rejected' = rejected + 1
    /\ UNCHANGED <<slots, active, accepted, open>>

\* the accepting thread is one: acquire, count, submit
Accept(r) ==
    /\ request[r] = "new" /\ slots > 0 /\ Are("counted") = {}
    /\ Move(r, "counted") /\ slots' = slots - 1 /\ accepted' = accepted + 1
    /\ UNCHANGED <<active, rejected, open>>
Submit(r) ==
    /\ request[r] = "counted" /\ open
    /\ Move(r, "queued")
    /\ UNCHANGED <<slots, active, accepted, rejected, open>>
RefuseQuietly(r) ==
    /\ request[r] = "counted" /\ ~open
    /\ Move(r, "refused")
    /\ UNCHANGED <<slots, active, accepted, rejected, open>>
\* the executor takes nothing more: the slot is given back
Refuse(r) ==
    /\ request[r] = "counted" /\ ~open
    /\ Move(r, "refused") /\ slots' = slots + 1
    /\ UNCHANGED <<active, accepted, rejected, open>>

StartUnlessBroken(r) ==
    /\ request[r] = "queued" /\ Cardinality(Are("started") \cup Are("broken")) < MaxWorkers
    /\ Move(r, "started") /\ active' = active + 1
    /\ UNCHANGED <<slots, accepted, rejected, open>>
\* a thread of the pool survives the handlers it runs
Start(r) ==
    /\ request[r] = "queued" /\ Cardinality(Are("started")) < MaxWorkers
    /\ Move(r, "started") /\ active' = active + 1
    /\ UNCHANGED <<slots, accepted, rejected, open>>
EndIfServed(r) ==
    /\ request[r] = "started"
    /\ \/ Move(r, "served") /\ active' = active - 1 /\ slots' = slots + 1
       \/ Move(r, "broken") /\ UNCHANGED <<active, slots>>
    /\ UNCHANGED <<accepted, rejected, open>>
\* served, or its handler raised, or the browser hung up
End(r) ==
    /\ request[r] = "started"
    /\ \E outcome \in {"served", "broken"} : Move(r, outcome)
    /\ active' = active - 1 /\ slots' = slots + 1
    /\ UNCHANGED <<accepted, rejected, open>>

\* server_close: what is queued is cancelled, what runs goes on
Close ==
    /\ open /\ open' = FALSE
    /\ request' = [r \in Requests |-> IF request[r] = "queued" THEN "cancelled" ELSE request[r]]
    /\ UNCHANGED <<slots, active, accepted, rejected>>

Step(r) == Reject(r) \/ Accept(r) \/ Submit(r) \/ Refuse(r) \/ Start(r) \/ End(r)
Next == Close \/ \E r \in Requests : Step(r)
Spec == Init /\ [][Next]_pool /\ \A r \in Requests : WF_pool(Step(r))

-----------------------------------------------------------------------------
TypeOK ==
    /\ slots \in 0..MaxPending /\ active \in 0..MaxWorkers
    /\ accepted + rejected = Cardinality(Requests) - Cardinality(Are("new"))

(* No slot is lost, whatever handlers raise and whenever the server closes: *)
(* what is not free is held by a request that waits or runs, but for those  *)
(* that a close cancelled.                                                  *)
SlotsReturn ==
    slots = MaxPending
        - Cardinality(Are("counted") \cup Are("queued") \cup Are("started") \cup Are("cancelled"))

(* In the end every request that arrives is answered, refused or cancelled. *)
AllAnswered ==
    \A r \in Requests : request[r] \in {"served", "broken", "rejected", "refused", "cancelled"}
=============================================================================

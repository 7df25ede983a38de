--------------------------- MODULE CollectorLease ---------------------------
(***************************************************************************)
(* What the queue promises, without flags, workers, priorities or clocks:  *)
(* the service has one lease; it is held for one task under one token;     *)
(* results are written once each and only for the task that holds the      *)
(* lease; they are discarded only for a task that does not hold it, or     *)
(* together with the lease when the task itself is erased.                 *)
(***************************************************************************)
CONSTANTS Tasks, Steps, Tokens, NoLease

VARIABLES
    lease,      \* NoLease, or the task and token that hold the lease
    stored,     \* stored[t]: the results kept for task t
    known       \* tokens a client may still present

leaseVars == <<lease, stored, known>>

LeaseInit ==
    /\ lease = NoLease
    /\ stored = [t \in Tasks |-> {}]
    /\ known = {}

\* A new grant supersedes the lease before it.
GrantLease(t, token) ==
    /\ token \notin known
    /\ lease' = [task |-> t, token |-> token]
    /\ known' = known \cup {token}
    /\ UNCHANGED stored

EndLease ==
    /\ lease # NoLease
    /\ lease' = NoLease
    /\ UNCHANGED <<stored, known>>

Store(t, step) ==
    /\ lease # NoLease
    /\ lease.task = t
    /\ step \notin stored[t]
    /\ stored' = [stored EXCEPT ![t] = @ \cup {step}]
    /\ UNCHANGED <<lease, known>>

Discard(t, kept) ==
    /\ lease = NoLease \/ lease.task # t
    /\ kept \subseteq stored[t]
    /\ stored' = [stored EXCEPT ![t] = kept]
    /\ UNCHANGED <<lease, known>>

\* Tasks vanish, and with them the lease if one of them holds it.
Erase(gone) ==
    /\ lease' = IF lease # NoLease /\ lease.task \in gone THEN NoLease ELSE lease
    /\ stored' = [t \in Tasks |-> IF t \in gone THEN {} ELSE stored[t]]
    /\ UNCHANGED known

ForgetToken(token) ==
    /\ lease = NoLease \/ lease.token # token
    /\ known' = known \ {token}
    /\ UNCHANGED <<lease, stored>>

LeaseNext ==
    \/ \E t \in Tasks :
          \/ \E token \in Tokens : GrantLease(t, token)
          \/ \E step \in Steps : Store(t, step)
          \/ \E kept \in SUBSET Steps : Discard(t, kept)
    \/ \E gone \in SUBSET Tasks : Erase(gone)
    \/ EndLease
    \/ \E token \in Tokens : ForgetToken(token)

LeaseSpec == LeaseInit /\ [][LeaseNext]_leaseVars
=============================================================================

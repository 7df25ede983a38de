--------------------------- MODULE ProductReview ---------------------------
(***************************************************************************)
(* product_ai_worker.main and the product analysis it keeps in             *)
(* monitor_runs.  A pass reads the pending runs, verifies at no cost those *)
(* whose answer a paid review verified before, and sends the first of the  *)
(* others to the paid provider, within a rolling hourly limit kept in a    *)
(* file.  The provider answers for all, for some or for none of a batch;   *)
(* the database may fail under the results; the process may die.           *)
(***************************************************************************)
EXTENDS Integers, Sequences, FiniteSets, Functions

CONSTANTS
    Rows, AnswerOf,     \* runs and their question and answer
    Batch,              \* REMOTE_PRODUCT_AI_MODEL_BATCH
    MaxRetries,         \* REMOTE_PRODUCT_AI_MAX_RETRIES
    Hour, Limit,        \* ticks of an hour, REMOTE_PRODUCT_AI_CALLS_PER_HOUR
    MaxResets           \* bound on the operator's resets, crashes and outages

ReviewAssumption ==
    /\ IsFiniteSet(Rows) /\ DOMAIN AnswerOf = Rows
    /\ {Batch, Hour, Limit} \subseteq Nat \ {0} /\ {MaxRetries, MaxResets} \subseteq Nat

VARIABLES
    review,         \* product_review_status and, if verified, the method
    tries, cool,    \* product_ai_retry_count; is product_ai_next_retry_at ahead?
    order,          \* runs by updated_at
    calls,          \* the rate file: calls by age in ticks
    at,             \* where the process is, "off" without one
    known,          \* knowledge: answers, as of its last refresh
    batch, left,    \* paid_items, and those whose result is not stored yet
    results,        \* the items the provider returned
    backoff,        \* paid_backoff_until is ahead
    made,           \* history: paid calls by age
    paid,           \* history: answers a paid review verified
    faults

rows == <<review, tries, cool, order>>
process == <<at, known, batch, left, results, backoff>>
reviewVars == <<rows, calls, process, made, paid, faults>>

Ages == 0..(Hour - 1)
None == [a \in Ages |-> 0]
\* the entries of the file, and how many they are
CallsOf(f) == UNION {{a} \X (1..f[a]) : a \in Ages}
Made(f) == Cardinality(CallsOf(f))
Pending(r) == review[r] = "pending"

DueEver == SelectSeq(order, LAMBDA r : Pending(r) /\ ~cool[r])
\* pending_product_runs: oldest first
Due == SelectSeq(order, LAMBDA r : Pending(r) /\ tries[r] < MaxRetries /\ ~cool[r])
\* verified_product_runs: only paid reviews are examples
Verified == {AnswerOf[r] : r \in {x \in Rows : review[x] = "paid"}}

Touch(S) == SelectSeq(order, LAMBDA r : r \notin S) \o SelectSeq(order, LAMBDA r : r \in S)
Fault == faults < MaxResets /\ faults' = faults + 1

-----------------------------------------------------------------------------
Init ==
    /\ review = [r \in Rows |-> "pending"]
    /\ tries = [r \in Rows |-> 0] /\ cool = [r \in Rows |-> FALSE]
    /\ order = CHOOSE s \in [1..Cardinality(Rows) -> Rows] : Range(s) = Rows
    /\ calls = None /\ made = None
    /\ at = "off" /\ known = {} /\ batch = <<>> /\ left = <<>>
    /\ results = {} /\ backoff = FALSE
    /\ paid = {} /\ faults = 0

\* update_product_analysis
Verify(r, method) ==
    /\ review' = [review EXCEPT ![r] = method]
    /\ tries' = [tries EXCEPT ![r] = 0] /\ cool' = [cool EXCEPT ![r] = FALSE]
    /\ order' = Touch({r})

\* defer_product_analysis: only of runs that are still pending
DeferAny(S) ==
    /\ tries' = [r \in Rows |-> IF r \in S THEN tries[r] + 1 ELSE tries[r]]
    /\ cool' = [r \in Rows |-> cool[r] \/ r \in S]
    /\ order' = Touch(S)
    /\ UNCHANGED review
Defer(S) ==
    LET open == {r \in S : Pending(r)}
    IN  /\ tries' = [r \in Rows |-> IF r \in open THEN tries[r] + 1 ELSE tries[r]]
        /\ cool' = [r \in Rows |-> cool[r] \/ r \in open]
        /\ order' = Touch(open)
        /\ UNCHANGED review

Forget == batch' = <<>> /\ left' = <<>> /\ results' = {}

\* acquire_lock, and the knowledge of the first pass
Start ==
    /\ at = "off" /\ at' = "scan"
    /\ known' = Verified
    /\ backoff' = FALSE /\ Forget
    /\ UNCHANGED <<rows, calls, made, paid, faults>>

\* deterministic_review: a run whose answer is known is verified for nothing
ReuseAny ==
    /\ at = "scan"
    /\ \E r \in Rows : Pending(r) /\ r \in Range(Due) /\ Verify(r, "reused")
    /\ UNCHANGED <<calls, process, made, paid, faults>>
Reuse ==
    /\ at = "scan"
    /\ \E r \in Rows : r \in Range(Due) /\ AnswerOf[r] \in known /\ Verify(r, "reused")
    /\ UNCHANGED <<calls, process, made, paid, faults>>

\* The rest of the pass: the first runs that are left are sent if the provider
\* is not cooling down and the hour has a slot, which is kept before the call.
Ambiguous == SelectSeq(Due, LAMBDA r : AnswerOf[r] \notin known)
PaidItems == SubSeq(Ambiguous, 1, IF Len(Ambiguous) < Batch THEN Len(Ambiguous) ELSE Batch)
Nothing == \A r \in Range(Due) : AnswerOf[r] \notin known

ReserveNothing == UNCHANGED calls
ReserveSlot == calls' = [calls EXCEPT ![0] = @ + 1]
Reserve ==
    /\ at = "scan" /\ Nothing /\ PaidItems # <<>> /\ ~backoff
    /\ Made(calls) < Limit
    /\ ReserveSlot
    /\ at' = "call" /\ batch' = PaidItems /\ left' = PaidItems
    /\ UNCHANGED <<rows, known, results, backoff, made, paid, faults>>

\* batch_model_review returns the items it could ground in the answer
Call ==
    /\ at = "call" /\ at' = "apply"
    /\ made' = [made EXCEPT ![0] = @ + 1]
    /\ results' \in SUBSET Range(batch)
    /\ UNCHANGED <<rows, calls, known, batch, left, backoff, paid, faults>>

\* provider_unavailable_error: no run pays for an outage of the provider
Outage ==
    /\ at = "call" /\ at' = "end"
    /\ Fault
    /\ made' = [made EXCEPT ![0] = @ + 1]
    /\ backoff' = TRUE
    /\ UNCHANGED <<rows, calls, known, batch, left, results, paid>>

\* One item of the batch, in order
Apply ==
    /\ at = "apply" /\ left # <<>>
    /\ LET r == Head(left)
       IN  IF r \in results
           THEN Verify(r, "paid") /\ paid' = paid \cup {AnswerOf[r]}
           ELSE Defer({r}) /\ UNCHANGED paid
    /\ left' = Tail(left)
    /\ UNCHANGED <<calls, at, known, batch, results, backoff, made, faults>>

\* Any other error, of the provider or of the database: the whole batch waits,
\* a run that was deferred already for one attempt more
ApplyFails ==
    /\ at \in {"call", "apply"} /\ at' = "end"
    /\ Fault
    /\ IF at = "call" THEN made' = [made EXCEPT ![0] = @ + 1] ELSE UNCHANGED made
    /\ Defer(Range(batch))
    /\ UNCHANGED <<calls, known, batch, left, results, backoff, paid>>

\* The knowledge is built again; sleep(interval)
Pause ==
    /\ \/ at = "end"
       \/ at = "apply" /\ left = <<>>
       \/ at = "scan" /\ Nothing /\ (PaidItems = <<>> \/ backoff \/ Made(calls) >= Limit)
    /\ at' = "sleep" /\ known' = Verified /\ Forget
    /\ UNCHANGED <<rows, calls, backoff, made, paid, faults>>
Pass ==
    /\ at = "sleep" /\ at' = "scan"
    /\ UNCHANGED <<rows, calls, known, batch, left, results, backoff, made, paid, faults>>

\* A kill: the lock file names a process that is gone.
Crash ==
    /\ at # "off" /\ at' = "off" /\ Fault
    /\ Forget /\ backoff' = FALSE /\ known' = {}
    /\ UNCHANGED <<rows, calls, made, paid>>

\* reset_product_analysis
Reset(r) ==
    /\ ~Pending(r) /\ Fault
    /\ Verify(r, "pending")
    /\ UNCHANGED <<calls, process, made, paid>>

OlderKept(f) == f
Older(f) == [a \in Ages |-> IF a = 0 THEN 0 ELSE f[a - 1]]
\* A call is made in the tick of its reservation.
Tick ==
    /\ at # "call"
    /\ made # None \/ calls # None
    /\ calls' = Older(calls) /\ made' = Older(made)
    /\ UNCHANGED <<rows, process, paid, faults>>
Cooled(r) ==
    /\ cool[r] /\ cool' = [cool EXCEPT ![r] = FALSE]
    /\ UNCHANGED <<review, tries, order, calls, process, made, paid, faults>>
ProviderBack ==
    /\ backoff /\ backoff' = FALSE
    /\ UNCHANGED <<rows, calls, at, known, batch, left, results, made, paid, faults>>

Work == Start \/ Reuse \/ Reserve \/ Apply \/ Pause \/ Pass
Next ==
    \/ Work \/ Call \/ Outage \/ ApplyFails \/ Crash \/ Tick \/ ProviderBack
    \/ \E r \in Rows : Reset(r) \/ Cooled(r)

Spec == Init /\ [][Next]_reviewVars

\* The process runs and is started again, the clock runs, the provider answers.
Fairness ==
    /\ WF_reviewVars(Work) /\ WF_reviewVars(Call \/ Outage \/ ApplyFails) /\ SF_reviewVars(Tick) /\ WF_reviewVars(ProviderBack)
    /\ \A r \in Rows : WF_reviewVars(Cooled(r))
FairSpec == Spec /\ Fairness

-----------------------------------------------------------------------------
(* Properties.                                                             *)

TypeOK ==
    /\ review \in [Rows -> {"pending", "reused", "paid"}]
    /\ tries \in [Rows -> 0..(MaxRetries + 1)] /\ cool \in [Rows -> BOOLEAN]
    /\ Range(order) = Rows /\ Len(order) = Cardinality(Rows)
    /\ calls \in [Ages -> 0..Limit] /\ made \in [Ages -> Nat]
    /\ at \in {"off", "scan", "call", "apply", "end", "sleep"}
    /\ Range(left) \subseteq Range(batch) /\ Range(batch) \subseteq Rows /\ results \subseteq Rows
    /\ known \subseteq {AnswerOf[r] : r \in Rows}

\* No hour has more paid calls than the limit, whatever dies in between.
HourlyLimit == Made(made) <= Limit

\* A run verified for nothing repeats an answer a paid review verified.
ReuseFollowsPaid == \A r \in Rows : review[r] = "reused" => AnswerOf[r] \in paid

\* The failure of a batch takes nothing from the runs it had verified already.
VerifiedIsClean == \A r \in Rows : ~Pending(r) => tries[r] = 0 /\ ~cool[r]

\* In the end: every pending run is reviewed or has used up its attempts, behind
\* any other run, over outages, failures and restarts.
Reviewed == \A r \in Rows : ~Pending(r) \/ tries[r] >= MaxRetries
=============================================================================

------------------------------ MODULE QuarkBatch ------------------------------
(***************************************************************************)
(* QuarkQueueCollector: rounds become tasks of a local receiver, which a   *)
(* browser extension answers in any order; the collector polls them, asks  *)
(* anew for what failed, and withdraws what it leaves unanswered: when it  *)
(* asked one question, however that ends; of a batch, only when its time   *)
(* is over.  Every request may fail, before or after it took effect.       *)
(***************************************************************************)
EXTENDS Integers, FiniteSets

CONSTANTS
    Rounds,         \* the rounds to collect
    Replacements,   \* GEO_QUARK_BATCH_REPLACEMENTS
    MaxFaults       \* bound on requests that fail

BatchAssumption ==
    Rounds \subseteq Nat \ {0} /\ Rounds # {} /\ {Replacements, MaxFaults} \subseteq Nat

VARIABLES
    ticket,         \* ticket[r, n]: the n-th task asked for round r, at the receiver
    tries,          \* tries[r]: replacement_attempts; ticket[r, tries[r]] is polled
    output,         \* rounds collected
    published,      \* history: published[r]: how often it was published
    stage,          \* where the collector is
    faults

quark == <<ticket, tries, output, published, stage, faults>>

Tickets == Rounds \X (0..Replacements)
Alone == Cardinality(Rounds) = 1

Init ==
    /\ ticket = [i \in Tickets |-> "none"]
    /\ tries = [r \in Rounds |-> 0]
    /\ output = {} /\ published = [r \in Rounds |-> 0]
    /\ stage = "start" /\ faults = 0

Current(r) == <<r, tries[r]>>
Post(ids) == ticket' = [i \in Tickets |-> IF i \in ids THEN "queued" ELSE ticket[i]]
Fault == faults < MaxFaults /\ faults' = faults + 1

-----------------------------------------------------------------------------
(* The extension.                                                          *)

Extension ==
    /\ \E i \in Tickets, state \in {"completed", "failed"} :
          ticket[i] = "queued" /\ ticket' = [ticket EXCEPT ![i] = state]
    /\ UNCHANGED <<tries, output, published, stage, faults>>

-----------------------------------------------------------------------------
(* The collector.                                                          *)

\* POST: if it fails nothing is withdrawn, also of a question asked alone
Submit ==
    /\ stage = "start"
    /\ \/ Post({Current(r) : r \in Rounds}) /\ stage' = "polling" /\ UNCHANGED faults
       \/ Fault /\ stage' = "raised"
          /\ (Post({Current(r) : r \in Rounds}) \/ UNCHANGED ticket)
    /\ UNCHANGED <<tries, output, published>>

Raises == stage' = IF Alone THEN "withdraw" ELSE "raised"

\* completed: the answer is taken and published, or fails its validation
TakeAny(r) ==
    /\ stage = "polling" /\ ticket[Current(r)] = "completed"
    /\ \/ /\ output' = output \cup {r}
          /\ published' = [published EXCEPT ![r] = @ + 1]
          /\ UNCHANGED stage
       \/ Raises /\ UNCHANGED <<output, published>>
    /\ UNCHANGED <<ticket, tries, faults>>
Take(r) ==
    /\ stage = "polling" /\ r \notin output /\ ticket[Current(r)] = "completed"
    /\ \/ /\ output' = output \cup {r}
          /\ published' = [published EXCEPT ![r] = @ + 1]
          /\ UNCHANGED stage
       \/ Raises /\ UNCHANGED <<output, published>>
    /\ UNCHANGED <<ticket, tries, faults>>

\* failed or cancelled: a round of a batch is asked again, a few times
ReplaceAny(r) ==
    /\ stage = "polling" /\ r \notin output /\ tries[r] < Replacements
    /\ ticket[Current(r)] \in {"failed", "cancelled", "queued"}
    /\ tries' = [tries EXCEPT ![r] = @ + 1]
    /\ Post({<<r, tries[r] + 1>>})
    /\ UNCHANGED <<output, published, stage, faults>>
Replace(r) ==
    /\ stage = "polling" /\ r \notin output
    /\ ticket[Current(r)] \in {"failed", "cancelled"}
    /\ IF Alone \/ tries[r] = Replacements
       THEN Raises /\ UNCHANGED <<ticket, tries, faults>>
       ELSE \/ /\ tries' = [tries EXCEPT ![r] = @ + 1]
               /\ Post({<<r, tries[r] + 1>>})
               /\ UNCHANGED <<stage, faults>>
            \/ /\ Fault /\ Raises /\ UNCHANGED tries
               /\ Post({<<r, tries[r] + 1>>}) \/ UNCHANGED ticket
    /\ UNCHANGED <<output, published>>

\* A poll fails, or the progress callback raises: the task was stopped.
PollRaises ==
    /\ stage = "polling" /\ Raises
    /\ UNCHANGED <<ticket, tries, output, published, faults>>
Return ==
    /\ stage = "polling" /\ output = Rounds
    /\ stage' = "returned"
    /\ UNCHANGED <<ticket, tries, output, published, faults>>
Timeout ==
    /\ stage = "polling" /\ stage' = "withdraw"
    /\ UNCHANGED <<ticket, tries, output, published, faults>>

Withdrawn(ids) ==
    ticket' = [i \in Tickets |-> IF i \in ids /\ ticket[i] = "queued" THEN "cancelled" ELSE ticket[i]]
WithdrawFirst ==
    /\ stage = "withdraw" /\ stage' = "withdrawn"
    /\ Withdrawn({<<r, 0>> : r \in Rounds})
    /\ UNCHANGED <<tries, output, published, faults>>
\* each task is cancelled; a request that fails is passed over
Withdraw ==
    /\ stage = "withdraw" /\ stage' = "withdrawn"
    /\ \/ Withdrawn({Current(r) : r \in Rounds}) /\ UNCHANGED faults
       \/ Fault /\ \E lost \in Rounds : Withdrawn({Current(r) : r \in Rounds \ {lost}})
    /\ UNCHANGED <<tries, output, published>>

Collector ==
    \/ Submit \/ PollRaises \/ Return \/ Timeout \/ Withdraw
    \/ \E r \in Rounds : Take(r) \/ Replace(r)
Next == Extension \/ Collector
Spec == Init /\ [][Next]_quark
\* the deadline comes
FairSpec == Spec /\ WF_quark(Submit \/ Timeout \/ Withdraw)

-----------------------------------------------------------------------------
TypeOK ==
    /\ ticket \in [Tickets -> {"none", "queued", "completed", "failed", "cancelled"}]
    /\ tries \in [Rounds -> 0..Replacements] /\ output \subseteq Rounds
    /\ published \in [Rounds -> 0..1] /\ faults \in 0..MaxFaults
    /\ stage \in {"start", "polling", "withdraw", "withdrawn", "returned", "raised"}

(* A round is published once, and a batch that returns has published every *)
(* round and nothing twice, however often a round was asked anew.          *)
EachRoundOnce ==
    /\ \A r \in Rounds : published[r] = IF r \in output THEN 1 ELSE 0
    /\ stage = "returned" => output = Rounds

(* A collector that returns, or withdraws, leaves no question to the        *)
(* extension, those it asked anew included, unless a request failed.        *)
NothingLeft ==
    stage \in {"returned", "withdrawn"} /\ faults = 0
    => \A i \in Tickets : ticket[i] # "queued"

(* In the end the collector returns or raises.                             *)
Collected == stage \in {"returned", "withdrawn", "raised"}
=============================================================================

----------------------------- MODULE ReportEdit -----------------------------
(***************************************************************************)
(* One diagnosis report after its collection: the administrator edits its  *)
(* evidence from a page loaded earlier, takes all edits back, shares it    *)
(* with the public until a date, deletes rounds and has them collected     *)
(* again, or deletes it; visitors read it in two steps.                    *)
(*                                                                         *)
(* Every operation is one transaction on the task row, its result rows and *)
(* the audit rows.  A result row is named by the round it was asked for    *)
(* (request ids are derived from task, model, round and question), and its *)
(* record may say another round after an edit.                             *)
(***************************************************************************)
EXTENDS Integers, Sequences, FiniteSets

CONSTANTS
    Rounds,         \* 1..n: the rounds of the only model
    Texts,          \* answers
    Brands,
    Pages, Visitors,    \* editor pages and visits open at once
    MaxNow, MaxEdits, MaxEpoch      \* bounds

ReportAssumption ==
    /\ IsFiniteSet(Rounds) /\ Rounds = 1..Cardinality(Rounds)
    /\ Texts # {} /\ {MaxNow, MaxEdits, MaxEpoch} \subseteq Nat

VARIABLES
    status,         \* "completed", "paused", "running" or "deleted"
    brand, policy,  \* of the task: its name and probability_policy_version
    result,         \* result[q]: the record of request q, or NoRecord
    audits,         \* report_edit_audit, in the order of created_at, rowid;
                    \* a reverted audit is never read again and left out
    sharing,        \* public_enabled, public_expires_at (0: no date)
    now,
    page,           \* page[p]: the records an editor has loaded
    visit,          \* visit[v]: the report a visitor is about to be shown
    origin,         \* history: the report before its first active edit
    epoch           \* history: how often evidence was deleted or collected

task == <<status, brand, policy, result>>
report == <<task, audits, sharing, now, page, visit, origin, epoch>>

Legacy == 4         \* the policy of reports older than the column
Current == 6        \* CURRENT_PROBABILITY_POLICY_VERSION
NoRecord == [round |-> 0, text |-> "none"]
Closed == [kind |-> "none"]

Stored == {q \in Rounds : result[q] # NoRecord}
Covered(f) == {f[q].round : q \in {x \in Rounds : f[x] # NoRecord}}
Snapshot == [brand |-> brand, policy |-> policy, records |-> result]
\* every round of the model is collected, as _model_progress counts rounds
Whole(records) == Rounds \subseteq Covered(records)

\* _report_sharing_state
PublicActive ==
    /\ status = "completed" /\ sharing.enabled
    /\ sharing.until = 0 \/ sharing.until > now

-----------------------------------------------------------------------------
\* A collected report; an edit of the old program left an audit without a
\* policy (0) on it.
Init ==
    /\ status = "completed" /\ policy = Legacy
    /\ result = [q \in Rounds |-> [round |-> q, text |-> CHOOSE t \in Texts : TRUE]]
    /\ \E first, last \in Brands :
          LET old == [brand |-> first, policy |-> Legacy, records |-> result]
          IN  /\ brand = last
              /\ audits = IF first = last THEN <<>>
                          ELSE <<[before |-> [old EXCEPT !.policy = 0],
                                  after |-> [old EXCEPT !.policy = 0, !.brand = last],
                                  epoch |-> 0]>>
              /\ origin = IF first = last THEN Closed ELSE old
    /\ sharing = [enabled |-> FALSE, until |-> 0]
    /\ now = 1 /\ page = [p \in Pages |-> Closed] /\ visit = [v \in Visitors |-> Closed]
    /\ epoch = 0

\* report_editor_data
OpenEditor(p) ==
    /\ status # "deleted"
    /\ page' = [page EXCEPT ![p] = [kind |-> "editor", records |-> result]]
    /\ UNCHANGED <<task, audits, sharing, now, visit, origin, epoch>>

\* Audits older than the policy column take the version the report has now.
Unstamped(all) == all
Stamped(all) ==
    LET stamp(s) == [s EXCEPT !.policy = IF @ = 0 THEN policy ELSE @]
    IN  [i \in DOMAIN all |->
            [all[i] EXCEPT !.before = stamp(@), !.after = stamp(@)]]

\* The audit an edit writes: before is what is stored when it commits.
AuditOfPage(records, after) ==
    [before |-> [Snapshot EXCEPT !.records = records], after |-> after, epoch |-> epoch]
Audit(records, after) ==
    [before |-> Snapshot, after |-> after, epoch |-> epoch]

EditRoundsUnchecked == 0..Cardinality(Rounds)
EditRounds == 1..Cardinality(Rounds)

\* update_diagnosis_report: the page carries every record back, the changed
\* one and those it only displays
Edit(p) ==
    /\ page[p].kind = "editor" /\ status = "completed" /\ Len(audits) < MaxEdits
    /\ {q \in Rounds : page[p].records[q] # NoRecord} = Stored
    /\ \E q \in Stored, round \in EditRounds, text \in Texts, name \in Brands :
          /\ result' = [page[p].records EXCEPT ![q] = [round |-> round, text |-> text]]
          /\ brand' = name /\ policy' = Current
          /\ audits' = Append(Stamped(audits),
                              Audit(page[p].records, [brand |-> name, policy |-> Current, records |-> result']))
    /\ origin' = IF audits = <<>> THEN Snapshot ELSE origin
    /\ page' = [page EXCEPT ![p] = Closed]
    /\ UNCHANGED <<status, sharing, now, visit, epoch>>

\* revert_diagnosis_report
SameRequests(records) == {q \in Rounds : records[q] # NoRecord} = Stored
Revert ==
    /\ status = "completed" /\ audits # <<>>
    /\ LET first == audits[1].before
       IN  /\ SameRequests(first.records)
           /\ brand' = first.brand
           /\ policy' = IF first.policy = 0 THEN policy ELSE first.policy
           /\ result' = [q \in Rounds |-> IF q \in Stored THEN first.records[q] ELSE NoRecord]
    /\ audits' = <<>> /\ origin' = Closed
    /\ UNCHANGED <<status, sharing, now, page, visit, epoch>>

\* delete_result and clear_results take a report out of "completed"
KeepStatus(records) == result' = records /\ UNCHANGED status
Reopen(records) == result' = records /\ status' = "paused"

DeleteResults ==
    /\ status \in {"completed", "paused"} /\ epoch < MaxEpoch
    /\ \E gone \in {Stored} \cup {{q} : q \in Stored} :
          Reopen([q \in Rounds |-> IF q \in gone THEN NoRecord ELSE result[q]])
    /\ epoch' = epoch + 1
    /\ UNCHANGED <<brand, policy, audits, sharing, now, page, visit, origin>>

Resume ==
    /\ status = "paused" /\ status' = "running"
    /\ UNCHANGED <<brand, policy, result, audits, sharing, now, page, visit, origin, epoch>>

\* accept_result of a round the worker is told is missing; an answer under a
\* request id that is stored is a duplicate
Collect ==
    /\ status = "running" /\ epoch < MaxEpoch
    /\ \E q \in Rounds \ Covered(result), text \in Texts :
          /\ q \notin Stored
          /\ result' = [result EXCEPT ![q] = [round |-> q, text |-> text]]
    /\ epoch' = epoch + 1
    /\ UNCHANGED <<status, brand, policy, audits, sharing, now, page, visit, origin>>

\* finish with "completed" counts the stored results
Finish ==
    /\ status = "running" /\ Stored = Rounds
    /\ status' = "completed"
    /\ UNCHANGED <<brand, policy, result, audits, sharing, now, page, visit, origin, epoch>>

\* delete_diagnosis_report, with the name the administrator typed
Delete ==
    /\ status \in {"completed", "paused"} /\ status' = "deleted"
    /\ result' = [q \in Rounds |-> NoRecord] /\ audits' = <<>>
    /\ UNCHANGED <<brand, policy, sharing, now, page, visit, origin, epoch>>

\* update_report_sharing
Share ==
    /\ status = "completed"
    /\ \E until \in {0} \cup (now + 1)..MaxNow : sharing' = [enabled |-> TRUE, until |-> until]
    /\ UNCHANGED <<task, audits, now, page, visit, origin, epoch>>
Unshare ==
    /\ status # "deleted" /\ sharing.enabled
    /\ sharing' = [enabled |-> FALSE, until |-> 0]
    /\ UNCHANGED <<task, audits, now, page, visit, origin, epoch>>

\* GET /api/diagnosis/<key> of a visitor: the report is read, then its
\* sharing is read again
Visit(v) ==
    /\ visit[v] = Closed /\ status # "deleted"
    /\ visit' = [visit EXCEPT ![v] =
          [kind |-> "visit", status |-> status, whole |-> Whole(result), edited |-> audits # <<>>]]
    /\ UNCHANGED <<task, audits, sharing, now, page, origin, epoch>>
ShowsIfPublic(v) == PublicActive
Shows(v) == visit[v].status = "completed" /\ PublicActive
Answer(v) ==
    /\ visit[v] # Closed
    /\ visit' = [visit EXCEPT ![v] = Closed]
    /\ UNCHANGED <<task, audits, sharing, now, page, origin, epoch>>

Tick ==
    /\ now < MaxNow /\ now' = now + 1
    /\ UNCHANGED <<task, audits, sharing, page, visit, origin, epoch>>

Next ==
    \/ Revert \/ DeleteResults \/ Resume \/ Collect \/ Finish \/ Delete
    \/ Share \/ Unshare \/ Tick
    \/ \E p \in Pages : OpenEditor(p) \/ Edit(p)
    \/ \E v \in Visitors : Visit(v) \/ Answer(v)

Spec == Init /\ [][Next]_report

-----------------------------------------------------------------------------
(* Properties.                                                             *)

Record == {NoRecord} \cup [round : Rounds, text : Texts]
TypeOK ==
    /\ status \in {"completed", "paused", "running", "deleted"}
    /\ brand \in Brands /\ policy \in {Legacy, Current}
    /\ result \in [Rounds -> Record]
    /\ \A i \in 1..Len(audits) : {audits[i].before.policy, audits[i].after.policy} \subseteq {0, Legacy, Current}
    /\ sharing.enabled \in BOOLEAN /\ sharing.until \in 0..MaxNow /\ now \in 1..MaxNow

\* "Restore the report to the snapshot before its first active manual edit":
\* the evidence, the name and the policy of that moment, whatever was edited,
\* deleted or collected since, or the revert is refused.
RevertRestores == [][Revert => Snapshot' = origin]_report

\* No edit is lost from the history: an edit made from a stale page overwrites
\* another's work, and the audit of the one holds what the other wrote.
AuditsChain ==
    /\ \A i \in 1..Len(audits) - 1 : audits[i].epoch = audits[i + 1].epoch =>
          audits[i].after.records = audits[i + 1].before.records /\ audits[i].after.brand = audits[i + 1].before.brand
    /\ LET last == audits[Len(audits)]
       IN  audits # <<>> /\ last.epoch = epoch =>
              last.after.records = result /\ last.after.brand = brand

\* A visitor who is shown a report that nobody edited sees an answer of every
\* round, although it was read while rounds were being collected again and
\* found public later.
SeesWhole(v) == Answer(v) /\ Shows(v) /\ ~visit[v].edited => visit[v].whole
VisitorsSeeWhole == [][\A v \in Visitors : SeesWhole(v)]_report
=============================================================================

----------------------------- MODULE DoubaoBurst -----------------------------
(***************************************************************************)
(* DoubaoCollector and what the runner has of it: one collector serves all *)
(* tasks of a worker. A diagnosis is collected in chunks, rounds of one    *)
(* question in a child that appends a row for each answer it harvested;    *)
(* the parent publishes the rows as they come. Round by round, the child   *)
(* asks a whole batch too, and keeps what the round did not need.          *)
(*                                                                         *)
(* An answer is the conversation it was taken from: the task and the       *)
(* question it was asked for, and a number.                                *)
(***************************************************************************)
EXTENDS Integers, Sequences, FiniteSets, FiniteSetsExt, SequencesExt

CONSTANTS
    Schedule,       \* the questions of a task, round by round
    Chunk,          \* rounds of one child
    Attempts,       \* round_attempts
    MaxTasks,       \* bound on tasks
    MaxAsked        \* bound on conversations

BurstAssumption ==
    /\ Schedule \in Seq(Range(Schedule)) /\ Schedule # <<>>
    /\ {Chunk, Attempts} \subseteq Nat \ {0}
    /\ {MaxTasks, MaxAsked} \subseteq Nat

VARIABLES
    kind, task,     \* the task in hand
    stored,         \* stored[r]: the answer the server has
    spooled,        \* rounds whose answer waits in the spool
    size, key, kept, \* _batch_size, _batch_question, _batch_answers
    at,             \* where the thread of the model is
    chunk, rows, emitted, \* the child: its rounds, its rows, what is published
    round, try,     \* the loop of the runner
    asked           \* conversations so far

burst == <<kind, task, stored, spooled, size, key, kept, at, chunk, rows, emitted,
           round, try, asked>>
collector == <<size, key, kept>>
child == <<chunk, rows, emitted>>
loop == <<round, try>>

RoundNos == 1..Len(Schedule)
NoQuestion == "none"
None == [task |-> 0, question |-> NoQuestion, number |-> 0]
Failed == 0
Kinds == {"diagnosis", "paid_monitor"}

Init ==
    /\ kind = "diagnosis" /\ task = 1
    /\ stored = [r \in RoundNos |-> None] /\ spooled = [r \in RoundNos |-> None]
    /\ size = 1 /\ key = NoQuestion /\ kept = <<>>
    /\ at = "rest" /\ chunk = {} /\ rows = <<>> /\ emitted = {}
    /\ round = 1 /\ try = 1 /\ asked = 0

Answer(question, number) == [task |-> task, question |-> question, number |-> number]
Done == {r \in RoundNos : stored[r] # None}
Missing == {r \in RoundNos \ Done : spooled[r] = None}

-----------------------------------------------------------------------------
(* The runner and its collector.                                           *)

PrepareSize(pending) ==
    /\ size' = Min({Chunk, pending})
    /\ UNCHANGED <<key, kept>>
\* prepare_diagnosis
Prepare(pending) ==
    /\ size' = Min({Chunk, pending})
    /\ key' = NoQuestion /\ kept' = <<>>

NewTask ==
    /\ at = "rest" /\ task < MaxTasks /\ task' = task + 1
    /\ kind' \in Kinds
    /\ stored' = [r \in RoundNos |-> None] /\ spooled' = [r \in RoundNos |-> None]
    /\ UNCHANGED <<collector, at, child, loop, asked>>

\* _run_model: a collector is told what is pending, a monitor asks one by one
Start ==
    /\ at = "rest" /\ Done # RoundNos
    /\ Prepare(IF kind = "diagnosis" THEN Cardinality(RoundNos \ Done) ELSE 1)
    /\ at' = IF kind = "diagnosis" /\ Cardinality(Missing) > 1 THEN "batch" ELSE "serial"
    /\ round' = 1 /\ try' = 1
    /\ UNCHANGED <<kind, task, stored, spooled, child, asked>>

\* A control of the task, an error for good, or the end of the run; a process
\* that dies takes its collector with it.
Stops ==
    /\ at # "rest" /\ at' = "rest"
    /\ UNCHANGED collector \/ (size' = 1 /\ key' = NoQuestion /\ kept' = <<>>)
    /\ chunk' = {} /\ rows' = <<>> /\ emitted' = {}
    /\ UNCHANGED <<kind, task, stored, spooled, loop, asked>>

FallBackAsIs ==
    /\ at' = "serial" /\ chunk' = {} /\ rows' = <<>> /\ emitted' = {}
    /\ UNCHANGED <<collector, loop>>
\* The batch failed: its size is taken back, and the loop asks round by round.
FallBack ==
    /\ at' = "serial" /\ chunk' = {} /\ rows' = <<>> /\ emitted' = {}
    /\ Prepare(1)
    /\ UNCHANGED loop

\* persist_capture: to the spool, to the server, and out of the spool; result
\* is where it ends
Persist(r, answer, result) ==
    CASE result = "stored" ->
            /\ stored' = [stored EXCEPT ![r] = IF @ = None THEN answer ELSE @]
            /\ spooled' = [spooled EXCEPT ![r] = None]
      [] result = "spooled" ->
            spooled' = [spooled EXCEPT ![r] = answer] /\ UNCHANGED stored
      [] OTHER -> UNCHANGED <<stored, spooled>>
Results == {"stored", "spooled", "refused"}

-----------------------------------------------------------------------------
(* collect_batch_progressive.                                              *)

\* The next rounds that are missing and ask one question.
NextChunk(left) ==
    {r \in left : LET before == {q \in left : q <= r} IN
        /\ Cardinality(before) <= Chunk
        /\ \A q \in before : Schedule[q] = Schedule[r]}

StartChunk ==
    /\ at = "batch" /\ chunk = {} /\ Missing # {}
    /\ chunk' = NextChunk(Missing) /\ rows' = <<>> /\ emitted' = {}
    /\ at' = "child"
    /\ UNCHANGED <<kind, task, stored, spooled, collector, loop, asked>>

\* The child asks for its next round; a round that fails leaves no row.
Row ==
    /\ at = "child" /\ Len(rows) < Cardinality(chunk)
    /\ asked < MaxAsked /\ asked' = asked + 1
    /\ \/ rows' = Append(rows, asked')
       \/ rows' = Append(rows, Failed)
    /\ UNCHANGED <<kind, task, stored, spooled, collector, at, chunk, emitted, loop>>

RowOf(r) == rows[Cardinality({q \in chunk : q <= r})]
Ready(r) == r \in chunk /\ Cardinality({q \in chunk : q <= r}) <= Len(rows) /\ RowOf(r) # Failed
\* publish_available, while the child runs and once more after it: a row whose
\* publication raises ends the child and the batch
Publish ==
    /\ at \in {"child", "over"}
    /\ \E r \in chunk \ emitted, result \in Results :
          /\ Ready(r)
          /\ Persist(r, Answer(Schedule[r], RowOf(r)), result)
          /\ IF result = "stored"
             THEN emitted' = emitted \cup {r} /\ UNCHANGED <<at, chunk, rows, collector, loop>>
             ELSE FallBack
    /\ UNCHANGED <<kind, task, asked>>

\* The child ends well, or badly: the time limit, an exit code.
ChildEnds ==
    /\ at = "child"
    /\ \/ /\ at' = "over" /\ UNCHANGED <<collector, chunk, rows, emitted, loop>>
       \/ FallBack
    /\ UNCHANGED <<kind, task, stored, spooled, asked>>
ChunkEnds ==
    /\ at = "over" /\ \A r \in chunk \ emitted : ~Ready(r)
    /\ IF chunk \subseteq emitted
       THEN /\ at' = "batch" /\ chunk' = {} /\ rows' = <<>> /\ emitted' = {}
            /\ UNCHANGED <<collector, loop>>
       ELSE FallBack
    /\ UNCHANGED <<kind, task, stored, spooled, asked>>
BatchEnds ==
    /\ at = "batch" /\ chunk = {} /\ Missing = {}
    /\ at' = "serial"
    /\ UNCHANGED <<kind, task, stored, spooled, collector, child, loop, asked>>

-----------------------------------------------------------------------------
(* The loop, round by round: collect_new_conversation.                     *)

Onward == round' = round + 1 /\ try' = 1
InHand == at = "serial" /\ round \in RoundNos

Skip ==
    /\ InHand /\ stored[round] # None
    /\ Onward
    /\ UNCHANGED <<kind, task, stored, spooled, collector, at, child, asked>>
Replay ==
    /\ InHand /\ stored[round] = None /\ spooled[round] # None /\ try = 1
    /\ Persist(round, spooled[round], "stored") /\ Onward
    /\ UNCHANGED <<kind, task, collector, at, child, asked>>

\* The answer in hand is persisted, or the round is tried again or given up.
Handed(answer) ==
    \E result \in Results :
        /\ Persist(round, answer, result)
        /\ IF result = "stored" THEN Onward /\ UNCHANGED at
           ELSE IF try < Attempts THEN try' = try + 1 /\ UNCHANGED <<round, at>>
           ELSE at' = "rest" /\ UNCHANGED loop
Collects == InHand /\ stored[round] = None /\ (spooled[round] = None \/ try > 1)

\* an answer kept for this question
TakeKept ==
    /\ Collects /\ kept # <<>> /\ key = Schedule[round]
    /\ kept' = Tail(kept)
    /\ Handed(Head(kept))
    /\ UNCHANGED <<kind, task, size, key, child, asked>>
\* a child that asks the question size times, and keeps what it has too many
AskBatch ==
    /\ Collects /\ (kept = <<>> \/ key # Schedule[round])
    /\ asked + size <= MaxAsked /\ asked' = asked + size
    /\ key' = Schedule[round]
    /\ kept' = kept \o [i \in 1..(size - 1) |-> Answer(Schedule[round], asked + 1 + i)]
    /\ Handed(Answer(Schedule[round], asked + 1))
    /\ UNCHANGED <<kind, task, size, child>>
AskFails ==
    /\ Collects /\ (kept = <<>> \/ key # Schedule[round])
    /\ IF try < Attempts THEN try' = try + 1 /\ UNCHANGED <<round, at>>
       ELSE at' = "rest" /\ UNCHANGED loop
    /\ UNCHANGED <<kind, task, stored, spooled, collector, child, asked>>

Batch == StartChunk \/ Row \/ Publish \/ ChildEnds \/ ChunkEnds \/ BatchEnds
Serial == Skip \/ Replay \/ TakeKept \/ AskBatch \/ AskFails
Next == NewTask \/ Start \/ Stops \/ Batch \/ Serial
Spec == Init /\ [][Next]_burst

-----------------------------------------------------------------------------
Conversations == [task : 1..MaxTasks, question : Range(Schedule), number : 1..MaxAsked]
TypeOK ==
    /\ kind \in Kinds /\ task \in 1..MaxTasks
    /\ {stored, spooled} \subseteq [RoundNos -> {None} \cup Conversations]
    /\ size \in 1..Chunk /\ key \in {NoQuestion} \cup Range(Schedule)
    /\ Range(kept) \subseteq Conversations
    /\ at \in {"rest", "batch", "child", "over", "serial"}
    /\ emitted \subseteq chunk /\ chunk \subseteq RoundNos
    /\ round \in 1..(Len(Schedule) + 1) /\ try \in 1..Attempts /\ asked \in 0..MaxAsked

(* The answer of a round was given to its question, in a conversation of    *)
(* its task, and is no other round's: though one collector serves task      *)
(* after task, and answers of an earlier batch may still be in it.          *)
AnswersBelong ==
    /\ \A r \in Done : stored[r].task = task /\ stored[r].question = Schedule[r]
    /\ \A r, q \in Done : stored[r] = stored[q] => r = q
=============================================================================

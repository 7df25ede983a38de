---------------------------- MODULE ContentWorker ---------------------------
(***************************************************************************)
(* The worker that archives the article bodies of sources and labels them  *)
(* with the brands of the current vocabulary: a table of bodies in SQLite, *)
(* an index of labels in memory that is published as one file, a lock file *)
(* that keeps one worker, retries after a delay, and batches that take     *)
(* from every model.  Fetching itself is FetchPool; here a fetch succeeds  *)
(* or fails.                                                               *)
(***************************************************************************)
EXTENDS Integers, Sequences, FiniteSets, Functions

CONSTANTS
    Workers,        \* worker processes
    Urls,           \* article sources
    Models,         \* the models, in the order a batch takes from them
    ModelOf,        \* the model a source is listed under
    Today,          \* the sources collected today
    Limit,          \* the size of a batch
    MaxVocab,       \* bound on changes of the vocabulary
    MaxFails,       \* bound on failed fetches
    MaxCrashes      \* bound

WorkAssumption ==
    /\ IsFiniteSet(Urls) /\ Workers \cap {"no lock", "dead"} = {}
    /\ ModelOf \in [Urls -> Range(Models)] /\ Today \subseteq Urls
    /\ {Limit, MaxVocab, MaxFails, MaxCrashes} \subseteq Nat

VARIABLES
    known,          \* the sources the database lists
    body,           \* source_content: the status of a source's row
    book,           \* the published index
    mine,           \* the index a worker holds in memory
    worker,         \* where a worker is, its batch and its vocabulary
    singleton,      \* the lock file: NoLock, "dead", or the id of a live worker
    waiting,        \* sources whose next_retry_at is to come
    vocab, failed, crashed

content == <<known, body, book, mine, worker, singleton, waiting, vocab, failed, crashed>>

NoLock == "no lock"
NoEntry == [status |-> "none", vocab |-> 0]
Labelled(v) == [status |-> "ok", vocab |-> v]
Off == [pc |-> "off"]

Init ==
    /\ known = {} /\ body = [u \in Urls |-> "none"]
    /\ book = [u \in Urls |-> NoEntry] /\ mine = [w \in Workers |-> book]
    /\ worker = [w \in Workers |-> Off] /\ singleton \in {NoLock, "dead"}
    /\ waiting = {} /\ vocab = 0 /\ failed = 0 /\ crashed = 0

Arrive(u) ==
    /\ u \notin known /\ known' = known \cup {u}
    /\ UNCHANGED <<body, book, mine, worker, singleton, waiting, vocab, failed, crashed>>
Rename ==
    /\ vocab < MaxVocab /\ vocab' = vocab + 1
    /\ UNCHANGED <<known, body, book, mine, worker, singleton, waiting, failed, crashed>>
Elapse(u) ==
    /\ u \in waiting /\ waiting' = waiting \ {u}
    /\ UNCHANGED <<known, body, book, mine, worker, singleton, vocab, failed, crashed>>

-----------------------------------------------------------------------------
(* The lock file.  A worker looks the owner up, removes the file of a dead *)
(* one, and creates its own.                                               *)

Go(w, state) == worker' = [worker EXCEPT ![w] = state]

LookAtLock(w) ==
    /\ worker[w] = Off
    /\ \/ singleton = NoLock /\ Go(w, [pc |-> "create"])
       \/ singleton = "dead" /\ Go(w, [pc |-> "unlink"])
    /\ UNCHANGED <<known, body, book, mine, singleton, waiting, vocab, failed, crashed>>

UnlinkLock(w) ==
    /\ worker[w].pc = "unlink"
    /\ singleton' = NoLock /\ Go(w, [pc |-> "create"])
    /\ UNCHANGED <<known, body, book, mine, waiting, vocab, failed, crashed>>

\* O_EXCL; the owner then loads the published index, to watch or to relabel once
CreateLock(w) ==
    /\ worker[w].pc = "create"
    /\ IF singleton = NoLock
       THEN /\ singleton' = w
            /\ mine' = [mine EXCEPT ![w] = book]
            /\ \E mode \in {"loop", "relabel"} : Go(w, [pc |-> mode])
       ELSE Go(w, Off) /\ UNCHANGED <<singleton, mine>>
    /\ UNCHANGED <<known, body, book, waiting, vocab, failed, crashed>>

Released(w) == IF singleton = w THEN NoLock ELSE singleton

\* the loop condition fails: a replacement owns the lock
Replaced(w) ==
    /\ worker[w].pc = "loop" /\ singleton # w
    /\ Go(w, Off)
    /\ UNCHANGED <<known, body, book, mine, singleton, waiting, vocab, failed, crashed>>

Crash(w) ==
    /\ worker[w] # Off /\ crashed < MaxCrashes
    /\ crashed' = crashed + 1 /\ Go(w, Off)
    /\ singleton' = IF singleton = w THEN "dead" ELSE singleton
    /\ UNCHANGED <<known, body, book, mine, waiting, vocab, failed>>

-----------------------------------------------------------------------------
(* A pass: relabel what the vocabulary outdated, then fetch a batch.       *)

Due(w, u) ==
    \/ mine[w][u] = NoEntry
    \/ mine[w][u].status = "ok" /\ mine[w][u].vocab # vocab
    \/ mine[w][u].status = "failed" /\ u \notin waiting
Network(w) == {u \in known : Due(w, u) /\ mine[w][u].status # "ok"}

\* prioritize_pending
Class(w, u) ==
    (IF u \in Today THEN 0 ELSE 2) + (IF mine[w][u] = NoEntry THEN 0 ELSE 1)

FirstModel(w) ==
    LET group(m) == {u \in Network(w) : ModelOf[u] = m}
        first == SelectSeq(Models, LAMBDA m : group(m) # {})
    IN [m \in Range(Models) |->
          IF first = <<>> \/ m # first[1] THEN 0
          ELSE IF Cardinality(group(m)) < Limit THEN Cardinality(group(m)) ELSE Limit]
\* fair_pending_selection: how many each model gets of a batch
Shares(w) ==
    LET group(m) == {u \in Network(w) : ModelOf[u] = m}
        turn[k \in 0..Limit] ==
            IF k = 0
            THEN [order |-> SelectSeq(Models, LAMBDA m : group(m) # {}), at |-> 0,
                  got |-> [m \in Range(Models) |-> 0]]
            ELSE LET t == turn[k - 1]
                     m == t.order[(t.at % Len(t.order)) + 1]
                     got == [t.got EXCEPT ![m] = @ + 1]
                 IN IF t.order = <<>> THEN t
                    ELSE IF got[m] = Cardinality(group(m))
                    THEN [order |-> SelectSeq(t.order, LAMBDA x : x # m), at |-> 0, got |-> got]
                    ELSE [order |-> t.order, at |-> t.at + 1, got |-> got]
    IN turn[Limit].got

Selections(w) ==
    {S \in SUBSET Network(w) :
        /\ \A m \in Range(Models) : Cardinality({u \in S : ModelOf[u] = m}) = Shares(w)[m]
        /\ \A u \in S, x \in Network(w) \ S :
              ModelOf[u] = ModelOf[x] => Class(w, u) <= Class(w, x)}

\* refresh_vocab_only
Relabelled(w) ==
    [u \in Urls |-> IF u \in known /\ mine[w][u].status = "ok" THEN Labelled(vocab) ELSE mine[w][u]]

StartPass(w) ==
    /\ worker[w].pc = "loop" /\ singleton = w
    /\ \E u \in known : Due(w, u)
    /\ mine' = [mine EXCEPT ![w] = Relabelled(w)]
    /\ \/ /\ Network(w) = {}
          /\ book' = mine'[w] /\ UNCHANGED worker
       \/ /\ Network(w) # {}
          /\ \E S \in Selections(w) : Go(w, [pc |-> "batch", todo |-> S, vocab |-> vocab])
          /\ UNCHANGED book
    /\ UNCHANGED <<known, body, singleton, waiting, vocab, failed, crashed>>

NeverArchived(u) == FALSE
\* get_db_result
Archived(u) == body[u] = "ok"
EntryAnyway(w, u, ok) == Labelled(worker[w].vocab)
Entry(w, u, ok) ==
    IF ok \/ Archived(u) THEN Labelled(worker[w].vocab)
    ELSE [status |-> "failed", vocab |-> worker[w].vocab]
Row(u, ok) == IF ok \/ Archived(u) THEN "ok" ELSE "failed"

\* One future completes; the index may be published, at most every 20 seconds.
Complete(w, u, ok) ==
    /\ worker[w].pc = "batch" /\ u \in worker[w].todo
    /\ ok \/ failed < MaxFails
    /\ failed' = IF ok THEN failed ELSE failed + 1
    /\ body' = [body EXCEPT ![u] = Row(u, ok)]
    /\ mine' = [mine EXCEPT ![w][u] = Entry(w, u, ok)]
    /\ waiting' = IF ok \/ Archived(u) THEN waiting ELSE waiting \cup {u}
    /\ Go(w, [worker[w] EXCEPT !.todo = @ \ {u}])
    /\ \/ UNCHANGED book
       \/ (ok \/ ~Archived(u)) /\ book' = mine'[w]
    /\ UNCHANGED <<known, singleton, vocab, crashed>>

EndQuietly(w) ==
    /\ worker[w].pc = "batch" /\ worker[w].todo = {}
    /\ Go(w, [pc |-> "loop"])
    /\ UNCHANGED <<known, body, book, mine, singleton, waiting, vocab, failed, crashed>>
EndPass(w) ==
    /\ worker[w].pc = "batch" /\ worker[w].todo = {}
    /\ book' = mine[w] /\ Go(w, [pc |-> "loop"])
    /\ UNCHANGED <<known, body, mine, singleton, waiting, vocab, failed, crashed>>

\* --vocab-only: every archived body is labelled again, without the network.
RefreshAll(w) ==
    LET fresh == [u \in Urls |->
                    IF mine[w][u].status = "ok" \/ (u \in known /\ body[u] = "ok")
                    THEN Labelled(vocab) ELSE mine[w][u]]
    IN /\ worker[w].pc = "relabel"
       /\ mine' = [mine EXCEPT ![w] = fresh] /\ book' = fresh
       /\ Go(w, Off) /\ singleton' = Released(w)
       /\ UNCHANGED <<known, body, waiting, vocab, failed, crashed>>

Next ==
    \/ \E u \in Urls : Arrive(u) \/ Elapse(u)
    \/ Rename
    \/ \E w \in Workers :
          \/ LookAtLock(w) \/ UnlinkLock(w) \/ CreateLock(w) \/ Replaced(w) \/ Crash(w)
          \/ StartPass(w) \/ EndPass(w) \/ RefreshAll(w)
          \/ \E u \in Urls, ok \in BOOLEAN : Complete(w, u, ok)

Spec == Init /\ [][Next]_content

\* The server starts a worker that is gone (_ContentWorkerSupervisor), a worker
\* runs, sources arrive and delays pass.
Runs(w) ==
    \/ LookAtLock(w) \/ UnlinkLock(w) \/ CreateLock(w) \/ Replaced(w)
    \/ StartPass(w) \/ EndPass(w) \/ RefreshAll(w)
    \/ \E u \in Urls, ok \in BOOLEAN : Complete(w, u, ok)
Watch(w) == CreateLock(w) /\ worker'[w].pc = "loop"
FairSpec ==
    /\ Spec
    /\ \A w \in Workers : WF_content(Runs(w)) /\ SF_content(Watch(w))
    /\ \A u \in Urls : WF_content(Arrive(u)) /\ WF_content(Elapse(u))

-----------------------------------------------------------------------------
(* Properties.                                                             *)

Entries == [status : {"none", "ok", "failed"}, vocab : 0..MaxVocab]
TypeOK ==
    /\ known \subseteq Urls /\ waiting \subseteq Urls
    /\ body \in [Urls -> {"none", "ok", "failed"}]
    /\ book \in [Urls -> Entries] /\ mine \in [Workers -> [Urls -> Entries]]
    /\ singleton \in Workers \cup {NoLock, "dead"}
    /\ \A w \in Workers : worker[w].pc = "batch" => Cardinality(worker[w].todo) <= Limit

\* "A temporary 403/502 or script-shell response must not erase a previously
\* successful article archive": whatever is fetched again, by whichever worker.
ArchiveKept ==
    [][\A u \in Urls : body[u] = "ok" => body'[u] = "ok"]_content

\* A label is backed by an archived body, in the published index and in memory,
\* after crashes and with two workers that both hold an index.
LabelsBacked ==
    \A u \in Urls :
        /\ book[u].status = "ok" => body[u] = "ok"
        /\ \A w \in Workers : mine[w][u].status = "ok" => body[u] = "ok"

\* "Reserve each batch for every model": no model with sources to fetch is left
\* out of a batch that has a place for each.
ModelsShare ==
    [][\A w \in Workers :
          StartPass(w) /\ worker'[w].pc = "batch" /\ Limit >= Len(Models) =>
             \A u \in Network(w) : \E x \in worker'[w].todo : ModelOf[x] = ModelOf[u]]_content

\* In the end, with one worker at a time: every source is labelled with the last
\* vocabulary in the published index, whatever failed or crashed on the way.
Converges == \A u \in Urls : book[u] = Labelled(vocab)
=============================================================================

------------------------------ MODULE FetchPool -----------------------------
(***************************************************************************)
(* The threads of a batch of the content worker.  A fetch asks its host    *)
(* under the lock of the host, first plainly, then through a second HTTP   *)
(* client, and renders a page that was refused or is too short in one of a *)
(* few browsers, whose places are a semaphore taken inside the host lock.  *)
(***************************************************************************)
EXTENDS Integers, FiniteSets

CONSTANTS
    Fetches,        \* the fetches of a batch
    HostOf,         \* the host of each
    Dynamic,        \* the fetches that may use a browser (attempts <= 2, no own product)
    Browsers        \* DYNAMIC_WORKERS

PoolAssumption == IsFiniteSet(Fetches) /\ Browsers \in Nat

VARIABLES
    fetch,          \* where a fetch is, what it holds, its result
    page            \* what its last response was

pool == <<fetch, page>>

Started == [pc |-> "start", host |-> FALSE, browser |-> FALSE]
Init ==
    /\ fetch = [f \in Fetches |-> Started]
    /\ page = [f \in Fetches |-> "none"]

Responses == {"good", "short", "refused"}

Holds(f, h) == fetch[f].host /\ HostOf[f] = h
NeverLocked(h) == TRUE
HostFree(h) == \A f \in Fetches : ~Holds(f, h)
NeverFull == TRUE
BrowserFree == Cardinality({f \in Fetches : fetch[f].browser}) < Browsers

Becomes(f, pc, host, browser) ==
    fetch' = [fetch EXCEPT ![f] = [pc |-> pc, host |-> host, browser |-> browser]]

\* safe_public_url: a private address ends the fetch before any lock
Check(f, safe) ==
    /\ fetch[f].pc = "start"
    /\ Becomes(f, IF safe THEN "host" ELSE "done", FALSE, FALSE)
    /\ UNCHANGED page
LockHost(f) ==
    /\ fetch[f].pc \in {"host", "host again"} /\ HostFree(HostOf[f])
    /\ Becomes(f, IF fetch[f].pc = "host" THEN "request" ELSE "browser", TRUE, FALSE)
    /\ UNCHANGED page

FailsHolding(f) == Becomes(f, "done", TRUE, FALSE)
\* requests, else Scrapling; an exception of both ends the fetch and frees the host
Fails(f) == Becomes(f, "done", FALSE, FALSE)
Request(f) ==
    /\ fetch[f].pc = "request"
    /\ \/ \E r \in Responses :
            /\ page' = [page EXCEPT ![f] = r]
            /\ IF r = "refused" /\ f \in Dynamic
               THEN Becomes(f, "browser", TRUE, FALSE)
               ELSE Becomes(f, "answer", FALSE, FALSE)
       \/ Fails(f) /\ UNCHANGED page

TakeBrowser(f) ==
    /\ fetch[f].pc = "browser" /\ BrowserFree
    /\ Becomes(f, "render", TRUE, TRUE)
    /\ UNCHANGED page

\* A page rendered after a refusal replaces it if its status is better; an
\* exception leaves what there was.  The browser and the host are freed.
Render(f) ==
    /\ fetch[f].pc = "render"
    /\ IF page[f] = "short"
       THEN \E r \in {"short", "good"} : page' = [page EXCEPT ![f] = r]
       ELSE \E r \in Responses : page' = [page EXCEPT ![f] = r]
    /\ Becomes(f, "rendered", FALSE, FALSE)

\* A short page that was not rendered yet is asked again in a browser.
Answer(f) ==
    /\ fetch[f].pc = "answer"
    /\ \/ /\ page[f] = "short" /\ f \in Dynamic
          /\ Becomes(f, "host again", FALSE, FALSE)
       \/ /\ page[f] # "short" \/ f \notin Dynamic
          /\ Becomes(f, "done", FALSE, FALSE)
    /\ UNCHANGED page
Return(f) ==
    /\ fetch[f].pc = "rendered" /\ Fails(f)
    /\ UNCHANGED page

Step(f) ==
    \/ \E safe \in BOOLEAN : Check(f, safe)
    \/ LockHost(f) \/ Request(f) \/ TakeBrowser(f) \/ Render(f) \/ Answer(f) \/ Return(f)

Next == \E f \in Fetches : Step(f)

\* The pool has a thread for each fetch of the batch it runs.
Spec == Init /\ [][Next]_pool /\ \A f \in Fetches : WF_pool(Step(f))

-----------------------------------------------------------------------------
(* Properties.                                                             *)

TypeOK ==
    /\ \A f \in Fetches :
          /\ fetch[f].pc \in {"start", "host", "request", "browser", "render", "answer",
                             "host again", "rendered", "done"}
          /\ fetch[f].browser => fetch[f].host
    /\ page \in [Fetches -> Responses \cup {"none"}]

\* One fetch at a time talks to a host, plainly or in a browser.
OnePerHost ==
    \A f, g \in Fetches :
        fetch[f].pc \in {"request", "render"} /\ fetch[g].pc \in {"request", "render"}
            /\ HostOf[f] = HostOf[g] => f = g

\* No more pages are rendered at once than there are browsers.
BrowsersBounded == Cardinality({f \in Fetches : fetch[f].pc = "render"}) <= Browsers

\* In the end, for the locks never block a batch: every fetch is done, and holds
\* nothing.
BatchEnds == \A f \in Fetches : fetch[f].pc = "done" /\ ~fetch[f].host /\ ~fetch[f].browser
=============================================================================

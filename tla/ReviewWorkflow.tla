--------------------------- MODULE ReviewWorkflow ---------------------------
(***************************************************************************)
(* The human review workflow of PostgresRepository                         *)
(* (agent/persistence/postgres_repository.py): reviewers load the detail   *)
(* view of a clause and decide on it while reports of the same analysis    *)
(* are saved again.                                                        *)
(*                                                                         *)
(* Every repository call is one READ COMMITTED transaction, so each of its *)
(* SELECTs sees what is committed when that statement runs, and its writes *)
(* appear together at COMMIT or not at all.  A detail view is therefore    *)
(* five separate reads; a decision is a clause read, a locking read of the *)
(* review record with its checks and writes, a closing read of the clause, *)
(* and a commit: a save may commit between any two of them.  A save is one *)
(* action: saves of one analysis are serialised by the row lock of their   *)
(* first statement and nothing they write is visible before the commit.    *)
(* Rows of different analyses never meet (every WHERE names the analysis), *)
(* so the module models one analysis.                                      *)
(***************************************************************************)
EXTENDS ReviewStates, Naturals, Sequences

CONSTANTS
    Clauses,            \* clause ids of the analysis
    Reviewers,          \* concurrent browser or API clients
    Results,            \* automated results a report may contain
    NoClause,           \* "no clause opened"
    MaxSaves            \* bound: row ids are handed out up to MaxSaves

Statuses == {"Compliant", "Non-Compliant", "Needs Review"}

Verifications == {"verified", "needs_review", "not_verified"}

ASSUME ResultsAssumption ==
    Results \subseteq [status : Statuses, verification : Verifications]

ASSUME NoClauseAssumption == NoClause \notin Clauses

ASSUME MaxSavesAssumption == MaxSaves \in Nat

VARIABLES
    rows,       \* clause_analyses: committed snapshot of each clause
    reviews,    \* review_decisions: committed review record of each clause
    events,     \* review_decision_events: committed audit log of each record
    nextId,     \* next value of the clause_analyses id sequence
    pc,         \* where each reviewer's client is
    form        \* what each reviewer's client has loaded and submitted

vars == <<rows, reviews, events, nextId, pc, form>>

-----------------------------------------------------------------------------
(* Tables.  Row id 0 is "no row" (BIGSERIAL starts at 1); version 0 is "no *)
(* review record", exactly as transition_review treats a missing record.   *)

NoResult == [status |-> "Compliant", verification |-> "not_verified"]

NoRow == [id |-> 0, result |-> NoResult]

NoRecord == [state |-> "needs_review", version |-> 0, original |-> ""]

\* The statuses an original_status column may hold, "" when there is no record.
Originals == Statuses \cup {""}

Row == [id : Nat, result : Results \cup {NoResult}]

ReviewRecord == [state : REVIEW_STATES, version : Nat, original : Originals]

\* An audit event with what its author had on screen: the version submitted
\* and the number of events shown.
Event == [state : REVIEW_STATES, reviewer : Reviewers,
          version : Nat, seen : Nat]

BlankForm ==
    [clause |-> NoClause, row |-> 0, attached |-> TRUE,
     version |-> 0, seen |-> 0,
     result |-> NoResult, target |-> "needs_review", expected |-> 0]

Form == [clause : Clauses \cup {NoClause}, row : Nat, attached : BOOLEAN,
         version : Nat, seen : Nat,
         result : Results \cup {NoResult}, target : REVIEW_STATES,
         expected : Nat]

\* A transaction is "writing" until its closing read, which sends it on to be
\* "committing" or, when the worker or its connection is about to die, "failing".
PCs == {"idle", "evidence", "audit", "record", "history", "form",
        "deciding", "writing", "committing", "failing"}

\* The places at which a transaction holds its record's lock.
Locking == {"writing", "committing", "failing"}

TypeOK ==
    /\ rows \in [Clauses -> Row]
    /\ reviews \in [Clauses -> ReviewRecord]
    /\ events \in [Clauses -> Seq(Event)]
    /\ nextId \in Nat \ {0}
    /\ pc \in [Reviewers -> PCs]
    /\ form \in [Reviewers -> Form]
    /\ \A r \in Reviewers : pc[r] # "idle" => form[r].clause \in Clauses

Init ==
    /\ rows = [c \in Clauses |-> NoRow]
    /\ reviews = [c \in Clauses |-> NoRecord]
    /\ events = [c \in Clauses |-> <<>>]
    /\ nextId = 1
    /\ pc = [r \in Reviewers |-> "idle"]
    /\ form = [r \in Reviewers |-> BlankForm]

-----------------------------------------------------------------------------
(* save_report *)

\* Mutant: only the verifier's boundary opens a review, not the verdict.
Required_VerifierOnly(result) == result.verification = "needs_review"

\* A clause is review-required by its verification or by its status.
Required(result) ==
    result.verification = "needs_review" \/ result.status = "Needs Review"

\* Mutant: the record is upserted, so a re-save restarts the review.
OpenedRecord_Upsert(record, result) ==
    [state |-> "needs_review", version |-> 1, original |-> result.status]

\* Mutant: the record is opened in a state the lifecycle does not know.
OpenedRecord_UnknownState(record, result) ==
    IF record.version = 0
    THEN [state |-> "pending", version |-> 1, original |-> result.status]
    ELSE record

\* INSERT ... ON CONFLICT DO NOTHING: an existing record keeps its progress.
OpenedRecord(record, result) ==
    IF record.version = 0
    THEN [state |-> "needs_review", version |-> 1, original |-> result.status]
    ELSE record

\* A report with distinct clause ids replaces every clause row of the analysis
\* and opens a review for each review-required clause that has none.
SaveReport(report) ==
    /\ nextId <= MaxSaves
    /\ rows' = [c \in Clauses |->
                   IF c \in DOMAIN report
                   THEN [id |-> nextId, result |-> report[c]] ELSE NoRow]
    /\ reviews' = [c \in Clauses |->
                      IF c \in DOMAIN report /\ Required(report[c])
                      THEN OpenedRecord(reviews[c], report[c])
                      ELSE reviews[c]]
    /\ nextId' = nextId + 1
    /\ UNCHANGED <<events, pc, form>>

\* A report that lists one clause id twice breaks UNIQUE (analysis_id,
\* clause_id): the transaction rolls back; only the sequence has advanced.
SaveRejected ==
    /\ nextId <= MaxSaves
    /\ nextId' = nextId + 1
    /\ UNCHANGED <<rows, reviews, events, pc, form>>

-----------------------------------------------------------------------------
(* get_review: the SELECTs of _load_review, one statement per action *)

\* The clause row; a missing clause is a 404 and nothing is loaded.
OpenDetail(r, c) ==
    /\ pc[r] = "idle"
    /\ rows[c].id # 0
    /\ form' = [form EXCEPT ![r] =
                   [BlankForm EXCEPT !.clause = c, !.row = rows[c].id]]
    /\ pc' = [pc EXCEPT ![r] = "evidence"]
    /\ UNCHANGED <<rows, reviews, events, nextId>>

\* The row the page was opened on is still the current one.
RowIsCurrent(r) == rows[form[r].clause].id = form[r].row

\* The evidence hangs from the clause row's id: it is found only while that row
\* is the current one.
ReadEvidence(r) ==
    /\ pc[r] = "evidence"
    /\ form' = [form EXCEPT ![r].attached = RowIsCurrent(r)]
    /\ pc' = [pc EXCEPT ![r] = "audit"]
    /\ UNCHANGED <<rows, reviews, events, nextId>>

\* So does the audit, read by the next statement: a page may have lost it alone.
ReadAudit(r) ==
    /\ pc[r] = "audit"
    /\ form' = [form EXCEPT ![r].attached = (@ /\ RowIsCurrent(r))]
    /\ pc' = [pc EXCEPT ![r] = "record"]
    /\ UNCHANGED <<rows, reviews, events, nextId>>

\* The review record: its version is what the form will send back.
ReadRecord(r) ==
    /\ pc[r] = "record"
    /\ form' = [form EXCEPT ![r].version = reviews[form[r].clause].version]
    /\ pc' = [pc EXCEPT ![r] = "history"]
    /\ UNCHANGED <<rows, reviews, events, nextId>>

\* The events, read only when the record was found.
ReadHistory(r) ==
    /\ pc[r] = "history"
    /\ form' = [form EXCEPT ![r].seen =
                   IF form[r].version = 0 THEN 0
                   ELSE Len(events[form[r].clause])]
    /\ pc' = [pc EXCEPT ![r] = "form"]
    /\ UNCHANGED <<rows, reviews, events, nextId>>

\* The reviewer leaves the page.
CloseDetail(r) ==
    /\ pc[r] = "form"
    /\ pc' = [pc EXCEPT ![r] = "idle"]
    /\ form' = [form EXCEPT ![r] = BlankForm]
    /\ UNCHANGED <<rows, reviews, events, nextId>>

-----------------------------------------------------------------------------
(* transition_review *)

\* The version a client sends: the one on its form, or the field's default.
SentVersions(r) == {form[r].version, 0}

\* The request and its first statement, the unlocked clause read.
Submit(r, target, expected) ==
    LET row == rows[form[r].clause] IN
    /\ pc[r] = "form"
    /\ row.id # 0
    /\ expected \in SentVersions(r)
    /\ form' = [form EXCEPT ![r].result = row.result,
                            ![r].target = target,
                            ![r].expected = expected]
    /\ pc' = [pc EXCEPT ![r] = "deciding"]
    /\ UNCHANGED <<rows, reviews, events, nextId>>

\* The clause was dropped by a re-save: AnalysisNotFoundError, 404.
SubmitMissing(r) ==
    /\ pc[r] = "form"
    /\ rows[form[r].clause].id = 0
    /\ pc' = [pc EXCEPT ![r] = "idle"]
    /\ form' = [form EXCEPT ![r] = BlankForm]
    /\ UNCHANGED <<rows, reviews, events, nextId>>

\* Mutant: the record is read without FOR UPDATE.
LockFree_NoForUpdate(c, r) == TRUE

\* FOR UPDATE waits while another transaction has the record locked.
LockFree(c, r) ==
    \A q \in Reviewers \ {r} : ~(pc[q] \in Locking /\ form[q].clause = c)

\* Mutant: the version check is skipped.
VersionMatches_Ignored(expected, record) == TRUE

VersionMatches(expected, record) == expected = record.version

\* The checks after the lock is held: a missing record is acceptable only for
\* a review-required clause, the transition must be allowed, and the version
\* must be the one the client sent.
Accepts(record, request) ==
    /\ record.version = 0 => Required(request.result)
    /\ validate_transition(record.state, request.target)
    /\ VersionMatches(request.expected, record)

\* All checks pass: the transaction writes and keeps its lock.
LockAndWrite(r) ==
    /\ pc[r] = "deciding"
    /\ LockFree(form[r].clause, r)
    /\ Accepts(reviews[form[r].clause], form[r])
    /\ pc' = [pc EXCEPT ![r] = "writing"]
    /\ UNCHANGED <<rows, reviews, events, nextId, form>>

\* A check fails: the exception rolls back and is reported (404 or 409).
LockAndReject(r) ==
    /\ pc[r] = "deciding"
    /\ LockFree(form[r].clause, r)
    /\ ~Accepts(reviews[form[r].clause], form[r])
    /\ pc' = [pc EXCEPT ![r] = "idle"]
    /\ form' = [form EXCEPT ![r] = BlankForm]
    /\ UNCHANGED <<rows, reviews, events, nextId>>

\* Mutant: the version is not advanced by a decision.
DecidedRecord_SameVersion(record, request) ==
    [record EXCEPT !.state = request.target]

\* The UPDATE (or, for a missing record, the INSERT with the status that the
\* first statement read) of review_decisions.
DecidedRecord(record, request) ==
    [state |-> request.target, version |-> request.expected + 1,
     original |-> IF record.version = 0 THEN request.result.status
                  ELSE record.original]

DecisionEvent(r) ==
    [state |-> form[r].target, reviewer |-> r, version |-> form[r].expected,
     seen |-> form[r].seen]

\* Mutant: the transaction commits without looking for the clause again.
ClosingRead_Skipped(r) ==
    /\ pc[r] = "writing"
    /\ pc' \in {[pc EXCEPT ![r] = p] : p \in {"committing", "failing"}}
    /\ UNCHANGED <<rows, reviews, events, nextId, form>>

\* The closing _load_review finds the clause; its other four SELECTs and the
\* COMMIT follow. Whether the worker and its connection live to the COMMIT is
\* decided by nobody and known to nobody here: the choice is made at this step,
\* and not later, so that the step at which a decision takes effect can be told.
ClosingRead(r) ==
    /\ pc[r] = "writing"
    /\ rows[form[r].clause].id # 0
    /\ pc' \in {[pc EXCEPT ![r] = p] : p \in {"committing", "failing"}}
    /\ UNCHANGED <<rows, reviews, events, nextId, form>>

\* The COMMIT. A save may have dropped the clause since the closing read: the
\* decision is committed all the same.
Commit(r) ==
    LET c == form[r].clause IN
    /\ pc[r] = "committing"
    /\ reviews' = [reviews EXCEPT ![c] = DecidedRecord(@, form[r])]
    /\ events' = [events EXCEPT ![c] = Append(@, DecisionEvent(r))]
    /\ pc' = [pc EXCEPT ![r] = "idle"]
    /\ form' = [form EXCEPT ![r] = BlankForm]
    /\ UNCHANGED <<rows, nextId>>

\* Mutant: the missing clause found by the closing read is not an error path.
RollBack_ClauseIgnored(r) ==
    /\ pc[r] \in {"deciding", "failing"}
    /\ pc' = [pc EXCEPT ![r] = "idle"]
    /\ form' = [form EXCEPT ![r] = BlankForm]
    /\ UNCHANGED <<rows, reviews, events, nextId>>

\* The closing _load_review finds the clause dropped by a re-save, or the
\* worker or its connection dies: everything written is rolled back.
RollBack(r) ==
    /\ pc[r] \in {"deciding", "writing", "failing"}
    /\ pc' = [pc EXCEPT ![r] = "idle"]
    /\ form' = [form EXCEPT ![r] = BlankForm]
    /\ UNCHANGED <<rows, reviews, events, nextId>>

-----------------------------------------------------------------------------
\* Reports with distinct clause ids: partial functions from clauses to results.
Reports == UNION {[S -> Results] : S \in SUBSET Clauses}

Save == (\E report \in Reports : SaveReport(report)) \/ SaveRejected

View(r) ==
    \/ \E c \in Clauses : OpenDetail(r, c)
    \/ ReadEvidence(r)
    \/ ReadAudit(r)
    \/ ReadRecord(r)
    \/ ReadHistory(r)
    \/ CloseDetail(r)

Decide(r) ==
    \/ \E target \in REVIEW_STATES, expected \in SentVersions(r) :
          Submit(r, target, expected)
    \/ SubmitMissing(r)
    \/ LockAndWrite(r)
    \/ LockAndReject(r)
    \/ ClosingRead(r)
    \/ Commit(r)
    \/ RollBack(r)

Next == Save \/ \E r \in Reviewers : View(r) \/ Decide(r)

Spec == Init /\ [][Next]_vars

(* A worker runs its transaction to the end, and PostgreSQL's lock queue   *)
(* serves every waiter that keeps waiting: strong fairness of the locking  *)
(* statement, weak fairness of what follows it.  Nothing forces a reviewer *)
(* to open, submit or close anything, nor a worker to crash; but one that  *)
(* has crashed is noticed.                                                 *)
FairSpec ==
    /\ Spec
    /\ \A r \in Reviewers :
          /\ SF_vars(LockAndWrite(r) \/ LockAndReject(r))
          /\ WF_vars(\/ ClosingRead(r)
                     \/ Commit(r)
                     \/ pc[r] \in Locking /\ RollBack(r))

-----------------------------------------------------------------------------
(* Properties *)

\* The version is the number of committed decisions plus one, and a clause
\* without a record has no events: no decision is lost and none is counted
\* twice, although record and log are two tables written by racing reviewers.
VersionCountsEvents ==
    \A c \in Clauses :
        reviews[c].version = IF reviews[c].version = 0 THEN Len(events[c])
                             ELSE Len(events[c]) + 1

\* The audit log of a clause replays to its record: it starts from
\* needs_review, every step is allowed, and its last state is the record's.
LegalHistory ==
    \A c \in Clauses :
        LET before(i) == IF i = 1 THEN "needs_review" ELSE events[c][i-1].state
        IN  /\ \A i \in 1..Len(events[c]) :
                   validate_transition(before(i), events[c][i].state)
            /\ reviews[c].state = before(Len(events[c]) + 1)

\* Optimistic concurrency as the reader sees it: the author of the i-th
\* decision had version i on screen and had been shown all earlier decisions.
DecisionsAreInformed ==
    \A c \in Clauses : \A i \in 1..Len(events[c]) :
        /\ events[c][i].version = i
        /\ events[c][i].seen >= i - 1

\* A stored clause that requires review always has a review record, so it is
\* in the queue (and transition_review never has to create the record).
RequiredIsQueued ==
    \A c \in Clauses :
        /\ rows[c].id # 0
        /\ \/ rows[c].result.verification = "needs_review"
           \/ rows[c].result.status = "Needs Review"
        => reviews[c].version # 0

\* Saving a report and deciding a review never disturb each other's tables:
\* a step that changes clause rows keeps every existing record and the log,
\* and a step that adds an event keeps the clause rows.
ResaveKeepsReviews ==
    [][rows' # rows =>
          /\ events' = events
          /\ \A c \in Clauses :
                reviews[c].version # 0 => reviews'[c] = reviews[c]]_vars

\* The log is append-only and a record only moves forward, one version per
\* event; a final state is never left.
HistoryIsAppendOnly ==
    [][\A c \in Clauses :
          /\ Len(events'[c]) >= Len(events[c])
          /\ \A i \in 1..Len(events[c]) : events'[c][i] = events[c][i]
          /\ reviews'[c].version >= reviews[c].version
          /\ reviews[c].state \in FinalStates => reviews'[c] = reviews[c]]_vars

\* A submitted decision is answered: it commits, is refused or is rolled back,
\* however many others compete for the same record.
DecisionIsAnswered ==
    \A r \in Reviewers :
        pc[r] \in {"deciding"} \cup Locking ~> pc[r] = "idle"

\* The promise of ReviewLifecycle, clause by clause.
Lifecycle == INSTANCE ReviewLifecycle WITH
    state   <- [c \in Clauses |->
                   IF reviews[c].version = 0 THEN "absent"
                   ELSE reviews[c].state],
    history <- [c \in Clauses |->
                   [i \in 1..Len(events[c]) |-> events[c][i].state]]

\* The workflow implements the abstract lifecycle.
ImplementsLifecycle == Lifecycle!Spec

\* The reviewer whose decision on a clause has passed its closing read and is
\* bound to be committed: none, or the one that holds the lock.
Pending(c) == {r \in Reviewers : pc[r] = "committing" /\ form[r].clause = c}

Author(c) == CHOOSE r \in Pending(c) : TRUE

EffectiveReviews ==
    [c \in Clauses |->
        IF Pending(c) = {} THEN reviews[c]
        ELSE DecidedRecord(reviews[c], form[Author(c)])]

EffectiveEvents ==
    [c \in Clauses |->
        IF Pending(c) = {} THEN events[c]
        ELSE Append(events[c], DecisionEvent(Author(c)))]

\* The in-memory repository of the tests, as the calls that write see it: a save
\* takes effect at its commit, a decision at its closing read, which lies between
\* its request and its answer. The committed tables alone do not follow the
\* double: a save may drop a clause between the closing read of a decision and
\* its commit, and the double decides on no clause that is gone.
Double == INSTANCE InMemoryRepository WITH
    stored <- [c \in Clauses |->
                  IF rows[c].id = 0 THEN [status |-> "", verification |-> ""]
                  ELSE rows[c].result],
    reviews <- EffectiveReviews,
    events <- [c \in Clauses |->
                  [i \in 1..Len(EffectiveEvents[c]) |->
                      [state    |-> EffectiveEvents[c][i].state,
                       reviewer |-> EffectiveEvents[c][i].reviewer]]]

\* Concurrent saves and decisions take effect as if each were one call, made at
\* one instant of its own, to the repository of the tests, which "mirrors the
\* semantics of PostgresRepository -- including the review lifecycle and
\* optimistic concurrency" (inmemory_repository.py:4-5).
ImplementsDouble == Double!Spec

-----------------------------------------------------------------------------
(* The inductive invariant behind the safety properties *)

\* What a client has loaded is never ahead of the tables; a request whose
\* clause was review-required finds a record; and a transaction that has
\* written still satisfies its checks, because it holds the record's lock.
SessionInv(r) ==
    LET c == form[r].clause IN
    /\ pc[r] \in {"history", "form", "deciding"} \cup Locking =>
          form[r].version <= reviews[c].version
    /\ pc[r] \in {"form", "deciding"} \cup Locking =>
          form[r].version <= form[r].seen + 1
    /\ pc[r] \in {"deciding"} \cup Locking =>
          /\ form[r].expected \in {form[r].version, 0}
          /\ Required(form[r].result) => reviews[c].version # 0
    /\ pc[r] \in Locking => Accepts(reviews[c], form[r])

\* At most one transaction at a time has a given record locked and written.
LockInv ==
    \A r, q \in Reviewers :
        (pc[r] \in Locking /\ pc[q] \in Locking /\
         form[r].clause = form[q].clause) => r = q

\* A clause without a record is unreviewed.
NoRecordIsBlank ==
    \A c \in Clauses :
        reviews[c].version = 0 => reviews[c].state = "needs_review"

\* The inductive invariant: the four table properties with what every open
\* session relies on. Without SessionInv a commit could not be shown to
\* advance the version its author saw.
IInv ==
    /\ TypeOK
    /\ VersionCountsEvents
    /\ LegalHistory
    /\ DecisionsAreInformed
    /\ RequiredIsQueued
    /\ NoRecordIsBlank
    /\ \A r \in Reviewers : SessionInv(r)
    /\ LockInv
=============================================================================

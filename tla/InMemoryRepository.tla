-------------------------- MODULE InMemoryRepository --------------------------
(***************************************************************************)
(* The repository the tests run against                                    *)
(* (agent/persistence/inmemory_repository.py): dictionaries, every method  *)
(* in one step. It is also what PostgresRepository should look like to     *)
(* those who write: ReviewWorkflow is shown to implement it, each          *)
(* concurrent save and decision as one call at one instant.                *)
(*                                                                         *)
(* One analysis; a report is a function of clause ids. A call that raises  *)
(* changes nothing and is no step.                                         *)
(***************************************************************************)
EXTENDS ReviewStates, Naturals, Sequences

CONSTANTS Clauses, Reviewers, Results

VARIABLES
    stored,     \* _analyses: the result of each clause of the saved report
    reviews,    \* _reviews: state, version and original_status of each record
    events      \* events of each record

vars == <<stored, reviews, events>>

\* A clause that is not in the report.
NotStored == [status |-> "", verification |-> ""]

\* No record: transition_review takes its version for 0.
NoRecord == [state |-> "needs_review", version |-> 0, original |-> ""]

ReviewRecord ==
    [state : REVIEW_STATES, version : Nat, original : {r.status : r \in Results} \cup {""}]

ReviewEvent == [state : REVIEW_STATES, reviewer : Reviewers]

TypeOK ==
    /\ stored \in [Clauses -> Results \cup {NotStored}]
    /\ reviews \in [Clauses -> ReviewRecord]
    /\ events \in [Clauses -> Seq(ReviewEvent)]

Init ==
    /\ stored = [c \in Clauses |-> NotStored]
    /\ reviews = [c \in Clauses |-> NoRecord]
    /\ events = [c \in Clauses |-> <<>>]

-----------------------------------------------------------------------------
Required(result) ==
    result.verification = "needs_review" \/ result.status = "Needs Review"

\* Mutant: the record is opened in a state the lifecycle does not know.
Opened_UnknownState(record, result) ==
    IF record.version = 0
    THEN [state |-> "pending", version |-> 1, original |-> result.status]
    ELSE record

\* A record that is there keeps its progress.
Opened(record, result) ==
    IF record.version = 0
    THEN [state |-> "needs_review", version |-> 1, original |-> result.status]
    ELSE record

\* save_report: the report takes the place of the one with its id.
SaveReport(report) ==
    /\ stored' = [c \in Clauses |-> IF c \in DOMAIN report THEN report[c] ELSE NotStored]
    /\ reviews' = [c \in Clauses |->
                      IF c \in DOMAIN report /\ Required(report[c])
                      THEN Opened(reviews[c], report[c]) ELSE reviews[c]]
    /\ UNCHANGED events

\* The checks of transition_review, but for expected_version.
MayMove(c, target) ==
    /\ stored[c] # NotStored
    /\ reviews[c].version = 0 => Required(stored[c])
    /\ validate_transition(reviews[c].state, target)

\* transition_review: the caller's version is the record's, so the call succeeds.
Transition(c, reviewer, target, expected) ==
    /\ MayMove(c, target)
    /\ expected = reviews[c].version
    /\ reviews' = [reviews EXCEPT ![c] =
            [state |-> target, version |-> expected + 1,
             original |-> IF @.version = 0 THEN stored[c].status ELSE @.original]]
    /\ events' = [events EXCEPT ![c] =
            Append(@, [state |-> target, reviewer |-> reviewer])]
    /\ UNCHANGED stored

\* Reports: partial functions from clauses to results.
Reports == UNION {[S -> Results] : S \in SUBSET Clauses}

Next ==
    \/ \E report \in Reports : SaveReport(report)
    \/ \E c \in Clauses, q \in Reviewers, target \in REVIEW_STATES :
          Transition(c, q, target, reviews[c].version)

Spec == Init /\ [][Next]_vars

-----------------------------------------------------------------------------
(* Properties *)

\* Every clause that asks for a human has a record, at whatever stage, whichever
\* reports have replaced each other (save_report, inmemory_repository.py:54-66):
\* so transition_review never has to open one. Part of the inductive invariant.
RequiredIsQueued ==
    \A c \in Clauses :
        \/ stored[c].verification = "needs_review"
        \/ stored[c].status = "Needs Review"
        => reviews[c].version # 0

Lifecycle == INSTANCE ReviewLifecycle WITH
    state   <- [c \in Clauses |->
                   IF reviews[c].version = 0 THEN "absent" ELSE reviews[c].state],
    history <- [c \in Clauses |-> [i \in 1..Len(events[c]) |-> events[c][i].state]]

\* The double keeps the promise of the review lifecycle too.
ImplementsLifecycle == Lifecycle!Spec
=============================================================================

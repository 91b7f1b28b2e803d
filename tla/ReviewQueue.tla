----------------------------- MODULE ReviewQueue -----------------------------
(***************************************************************************)
(* The review queue as its readers see it: the dashboard and GET /reviews  *)
(* list the records of one state page by page (list_review_queue) and      *)
(* count them (count_review_queue), each in a connection of its own, while *)
(* reports are saved and reviewers decide.                                 *)
(*                                                                         *)
(* A list and a count are one SELECT each, so each sees what is committed  *)
(* at one moment. What is committed changes as InMemoryRepository does,    *)
(* but that a decision may be committed after a save has dropped its       *)
(* clause (ReviewWorkflow!Commit). Clause ids are numbers for their order  *)
(* only.                                                                   *)
(***************************************************************************)
EXTENDS InMemoryRepository, FiniteSets

CONSTANTS
    Listed,     \* the states the reader asks for
    Limit,      \* rows of a page
    MaxStamp    \* bound on decided_at, from clocks that nobody synchronises

ASSUME QueueAssumption ==
    /\ Clauses \subseteq Nat /\ IsFiniteSet(Clauses)
    /\ Listed \subseteq REVIEW_STATES
    /\ Limit \in Nat \ {0} /\ MaxStamp \in Nat \ {0}

VARIABLES
    decidedAt,  \* decidedAt[c]: the time of the last decision, 0 while there is none
    step,       \* what the reader does next: "idle", "count", "turn"
    listed,     \* the state it asks for
    offset,     \* where its page begins
    total,      \* the last count
    seen,       \* the records its pages have shown
    due,        \* those in the list at the start that have not left it since
    departed    \* how many records have left the list since the start

readerVars == <<step, listed, offset, total, seen, due, departed>>

queueVars == <<stored, reviews, events, decidedAt, readerVars>>

QueueTypeOK ==
    /\ TypeOK
    /\ decidedAt \in [Clauses -> 0..MaxStamp]
    /\ step \in {"idle", "count", "turn"}
    /\ listed \in Listed
    /\ offset \in Nat /\ total \in 0..Cardinality(Clauses)
    /\ seen \subseteq Clauses /\ due \subseteq Clauses
    /\ departed \in Nat

QueueInit ==
    /\ Init
    /\ decidedAt = [c \in Clauses |-> 0]
    /\ step = "idle" /\ listed \in Listed
    /\ offset = 0 /\ total = 0
    /\ seen = {} /\ due = {} /\ departed = 0

-----------------------------------------------------------------------------
(* The statements of the repository *)

\* WHERE rd.state = state
InState(state) ==
    {c \in Clauses : reviews[c].version # 0 /\ reviews[c].state = state}

\* ORDER BY decided_at DESC NULLS LAST, clause_id
Before(c, d) ==
    \/ decidedAt[c] > decidedAt[d]
    \/ decidedAt[c] = decidedAt[d] /\ c < d

\* The row of c in the list of a state, counted from 0.
Position(c, state) == Cardinality({d \in InState(state) : Before(d, c)})

\* LIMIT and OFFSET
list_review_queue(state, from) ==
    {c \in InState(state) : from <= Position(c, state) /\ Position(c, state) < from + Limit}

\* Mutant: the count is that of a list with its default limit, as in the double.
count_review_queue_Capped(state) == Cardinality(list_review_queue(state, 0))

count_review_queue(state) == Cardinality(InState(state))

-----------------------------------------------------------------------------
(* The reader: reviews_list of the dashboard, and a client of GET /reviews *)

\* The first page of a state.
FirstPage(state) ==
    /\ step = "idle"
    /\ step' = "count"
    /\ listed' = state
    /\ seen' = list_review_queue(state, 0)
    /\ due' = InState(state)
    /\ UNCHANGED <<stored, reviews, events, decidedAt, offset, total, departed>>

Count ==
    /\ step = "count"
    /\ step' = "turn"
    /\ total' = count_review_queue(listed)
    /\ UNCHANGED <<stored, reviews, events, decidedAt, listed, offset, seen,
                   due, departed>>

\* _paginate: has_next
has_next == offset + Limit < total

\* next_offset counts the rows of the list as it was; the page is cut from the
\* list as it is.
NextPage ==
    /\ step = "turn" /\ has_next
    /\ step' = "count"
    /\ offset' = offset + Limit
    /\ seen' = seen \cup list_review_queue(listed, offset + Limit)
    /\ UNCHANGED <<stored, reviews, events, decidedAt, listed, total, due, departed>>

\* No link to a next page: the reader takes what it saw for the whole list.
LastPage ==
    /\ step = "turn" /\ ~has_next
    /\ step' = "idle"
    /\ offset' = 0 /\ total' = 0
    /\ seen' = {} /\ due' = {} /\ departed' = 0
    /\ UNCHANGED <<stored, reviews, events, decidedAt, listed>>

-----------------------------------------------------------------------------
(* Its surroundings *)

\* Records may enter the list, none leaves it.
SaveWhileRead(report) ==
    /\ SaveReport(report)
    /\ UNCHANGED <<decidedAt, readerVars>>

\* The COMMIT of a decision: the record is as it was when it was checked, its
\* lock being held, but the clause may be gone.
CommitDecision(c, reviewer, target) ==
    /\ reviews[c].version # 0
    /\ validate_transition(reviews[c].state, target)
    /\ reviews' = [reviews EXCEPT ![c] =
            [state |-> target, version |-> @.version + 1, original |-> @.original]]
    /\ events' = [events EXCEPT ![c] =
            Append(@, [state |-> target, reviewer |-> reviewer])]
    /\ UNCHANGED stored

\* A decision, stamped by the clock of the process that takes it.
DecideWhileRead(c, reviewer, target, stamp) ==
    /\ CommitDecision(c, reviewer, target)
    /\ decidedAt' = [decidedAt EXCEPT ![c] = stamp]
    /\ IF step # "idle" /\ c \in InState(listed)
       THEN due' = due \ {c} /\ departed' = departed + 1
       ELSE UNCHANGED <<due, departed>>
    /\ UNCHANGED <<step, listed, offset, total, seen>>

Read ==
    \/ \E state \in Listed : FirstPage(state)
    \/ Count \/ NextPage \/ LastPage

QueueNext ==
    \/ Read
    \/ \E report \in Reports : SaveWhileRead(report)
    \/ \E c \in Clauses, q \in Reviewers, target \in REVIEW_STATES, stamp \in 1..MaxStamp :
          DecideWhileRead(c, q, target, stamp)

QueueSpec == QueueInit /\ [][QueueNext]_queueVars

-----------------------------------------------------------------------------
(* Properties *)

\* A reader that turns the pages to the last one has missed, of the records that
\* were in the list all the time, no more than have left the list meanwhile: each
\* page is cut from the list as it is then, so a record that leaves moves the
\* others up, past the reader (postgres_repository.py:429-430, dashboard.py:105).
MissesAreAccounted ==
    [][LastPage => Cardinality(due \ seen) <= departed]_queueVars
=============================================================================

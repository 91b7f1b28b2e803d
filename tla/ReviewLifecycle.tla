-------------------------- MODULE ReviewLifecycle ---------------------------
(***************************************************************************)
(* What the human review workflow promises, clause by clause: a review is  *)
(* opened at most once, moves only along the allowed transitions, and its  *)
(* history is exactly the list of the states it was moved to.  There are   *)
(* no reviewers, transactions, versions or locks here; ReviewWorkflow is   *)
(* shown to implement this specification.                                  *)
(***************************************************************************)
EXTENDS ReviewStates, Sequences

CONSTANT Clauses        \* the clauses of one analysis

VARIABLES
    state,              \* state[c]: "absent" until a review of c is opened
    history             \* history[c]: the states c was moved to, in order

vars == <<state, history>>

Init ==
    /\ state = [c \in Clauses |-> "absent"]
    /\ history = [c \in Clauses |-> <<>>]

\* Saving a report opens reviews; those that exist keep their progress.
Open(C) ==
    /\ state' = [c \in Clauses |->
                    IF c \in C /\ state[c] = "absent"
                    THEN "needs_review" ELSE state[c]]
    /\ UNCHANGED history

\* One reviewer decision: an allowed transition, appended to the history.
Decide(c, target) ==
    /\ state[c] # "absent"
    /\ validate_transition(state[c], target)
    /\ state' = [state EXCEPT ![c] = target]
    /\ history' = [history EXCEPT ![c] = Append(@, target)]

Next ==
    \/ \E C \in SUBSET Clauses : Open(C)
    \/ \E c \in Clauses, target \in REVIEW_STATES : Decide(c, target)

Spec == Init /\ [][Next]_vars
=============================================================================

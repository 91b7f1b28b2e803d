---------------------------- MODULE ReviewStates ----------------------------
(***************************************************************************)
(* The review lifecycle rules of agent/persistence/review_lifecycle.py:    *)
(* the states a review may be in and the transitions the code allows.      *)
(* No variables: the abstract lifecycle and the detailed workflow share it.*)
(***************************************************************************)

\* REVIEW_STATES: every state a review record may hold.
REVIEW_STATES ==
    {"needs_review", "under_review", "approved", "rejected", "escalated"}

\* The targets of a claimed review. No transition leaves them.
FinalStates == {"approved", "rejected", "escalated"}

\* ALLOWED_TRANSITIONS: a state the table does not list has no targets.
ALLOWED_TRANSITIONS ==
    [s \in REVIEW_STATES |->
        CASE s = "needs_review" -> {"under_review"}
          [] s = "under_review" -> FinalStates
          [] OTHER              -> {}]

\* Mutant: review_lifecycle.py without the claim step.
validate_transition_SkipClaim(current, target) ==
    target \in ALLOWED_TRANSITIONS[current] \cup FinalStates

\* validate_transition: TRUE only when the table lists current -> target.
validate_transition(current, target) ==
    target \in ALLOWED_TRANSITIONS[current]
=============================================================================

--------------------------- MODULE ReviewQueueProofs ---------------------------
(***************************************************************************)
(* The repository and its queue, proved for any clauses, reviewers,        *)
(* results and page size. Of the repository: what needs a human is queued, *)
(* and every sequence of calls follows the abstract review lifecycle. Of   *)
(* the queue: a reader of its pages misses no more records than have left  *)
(* it meanwhile.                                                           *)
(***************************************************************************)
EXTENDS ReviewQueue, Integers, FiniteSetTheorems, TLAPS

-----------------------------------------------------------------------------
(* The repository                                                            *)
(*                                                                           *)
(* A record that does not exist has version 0, and transition_review would   *)
(* open one on the fly (inmemory_repository.py:215-225). That it never does, *)
(* because save_report has opened every record that would be let through, is *)
(* why RequiredIsQueued is part of the invariant.                            *)

\* A record without a decision has no events, and no record no progress.
Untouched == \A c \in Clauses : reviews[c].version = 0 => events[c] = <<>>

IInv == TypeOK /\ RequiredIsQueued /\ Untouched

LEMMA OpenedType ==
    ASSUME NEW record \in ReviewRecord, NEW result \in Results
    PROVE  /\ Opened(record, result) \in ReviewRecord
           /\ Opened(record, result).version # 0
           /\ record.version # 0 => Opened(record, result) = record
           /\ record.version = 0 => Opened(record, result).state = "needs_review"
<1> DEFINE O == {r.status : r \in Results} \cup {""}
<1>1. result.status \in O
  OBVIOUS
<1>2. CASE record.version = 0
  <2>1. Opened(record, result) =
            [state |-> "needs_review", version |-> 1, original |-> result.status]
    BY <1>2 DEF Opened
  <2>2. ReviewRecord = [state : REVIEW_STATES, version : Nat, original : O]
    BY DEF ReviewRecord
  <2> HIDE DEF O
  <2> QED BY <1>1, <1>2, <2>1, <2>2 DEF REVIEW_STATES
<1>3. CASE record.version # 0
  BY <1>3 DEF Opened
<1> QED BY <1>2, <1>3

\* What a save does to each clause.
LEMMA SaveEffect ==
    ASSUME IInv, NEW report \in Reports, SaveReport(report)
    PROVE  /\ events' = events
           /\ stored' \in [Clauses -> Results \cup {NotStored}]
           /\ reviews' \in [Clauses -> ReviewRecord]
           /\ \A c \in Clauses :
                 /\ stored'[c] # NotStored /\ Required(stored'[c]) => reviews'[c].version # 0
                 /\ \/ reviews'[c] = reviews[c]
                    \/ /\ reviews[c].version = 0 /\ reviews'[c].version # 0
                       /\ reviews'[c].state = "needs_review"
<1>1. PICK S \in SUBSET Clauses : report \in [S -> Results]
  BY DEF Reports
<1>2. \A c \in Clauses : c \in DOMAIN report => report[c] \in Results
  BY <1>1
<1>3. \A c \in Clauses : reviews[c] \in ReviewRecord
  BY DEF IInv, TypeOK
<1>4. events' = events
  BY DEF SaveReport
<1>5. stored' \in [Clauses -> Results \cup {NotStored}]
  BY <1>2 DEF SaveReport
<1>6. ASSUME NEW c \in Clauses
      PROVE  /\ reviews'[c] \in ReviewRecord
             /\ stored'[c] # NotStored /\ Required(stored'[c]) => reviews'[c].version # 0
             /\ \/ reviews'[c] = reviews[c]
                \/ /\ reviews[c].version = 0 /\ reviews'[c].version # 0
                   /\ reviews'[c].state = "needs_review"
  <2>1. CASE c \in DOMAIN report /\ Required(report[c])
    <3>1. reviews'[c] = Opened(reviews[c], report[c])
      BY <2>1 DEF SaveReport
    <3> QED BY <3>1, <1>2, <1>3, <2>1, OpenedType
  <2>2. CASE ~(c \in DOMAIN report /\ Required(report[c]))
    <3>1. reviews'[c] = reviews[c]
      BY <2>2 DEF SaveReport
    <3>2. stored'[c] = NotStored \/ ~Required(stored'[c])
      BY <2>2 DEF SaveReport
    <3> QED BY <3>1, <3>2, <1>3
  <2> QED BY <2>1, <2>2
<1>7. reviews' \in [Clauses -> ReviewRecord]
  BY <1>6 DEF SaveReport
<1> QED BY <1>4, <1>5, <1>6, <1>7

\* What a decision does: the record was there, and the lifecycle let it pass.
LEMMA TransitionEffect ==
    ASSUME IInv, NEW c \in Clauses, NEW q \in Reviewers, NEW target \in REVIEW_STATES,
           Transition(c, q, target, reviews[c].version)
    PROVE  CommitDecision(c, q, target)
<1>1. /\ stored' = stored
      /\ reviews[c].version = 0 => Required(stored[c])
      /\ validate_transition(reviews[c].state, target)
  BY DEF Transition, MayMove
<1>2. reviews[c].version # 0
  BY <1>1 DEF IInv, RequiredIsQueued, Required
<1> QED BY <1>1, <1>2 DEF Transition, CommitDecision

\* A committed decision keeps the invariant, whether or not its clause is there.
LEMMA CommitDecisionKeeps ==
    ASSUME IInv, NEW c \in Clauses, NEW q \in Reviewers, NEW target \in REVIEW_STATES,
           CommitDecision(c, q, target)
    PROVE  IInv'
<1>1. /\ stored' = stored
      /\ reviews' = [reviews EXCEPT ![c] = [state |-> target,
             version |-> reviews[c].version + 1, original |-> reviews[c].original]]
      /\ events' = [events EXCEPT ![c] =
             Append(events[c], [state |-> target, reviewer |-> q])]
  BY DEF CommitDecision
<1>2. /\ reviews[c] \in ReviewRecord
      /\ reviews \in [Clauses -> ReviewRecord]
      /\ events \in [Clauses -> Seq(ReviewEvent)]
      /\ stored \in [Clauses -> Results \cup {NotStored}]
  BY DEF IInv, TypeOK
<1>3. /\ reviews' \in [Clauses -> ReviewRecord]
      /\ reviews'[c].version # 0
      /\ \A d \in Clauses : d # c => reviews'[d] = reviews[d]
  <2> DEFINE O == {r.status : r \in Results} \cup {""}
             new == [state |-> target, version |-> reviews[c].version + 1,
                     original |-> reviews[c].original]
  <2>1. ReviewRecord = [state : REVIEW_STATES, version : Nat, original : O]
    BY DEF ReviewRecord
  <2> HIDE DEF O
  <2>2. new \in ReviewRecord /\ new.version # 0
    BY <1>2, <2>1
  <2> HIDE DEF new
  <2>3. reviews' = [reviews EXCEPT ![c] = new]
    BY <1>1 DEF new
  <2> QED BY <1>2, <2>2, <2>3
<1>4. [state |-> target, reviewer |-> q] \in ReviewEvent
  BY DEF ReviewEvent
<1>5. events' \in [Clauses -> Seq(ReviewEvent)]
  BY <1>1, <1>2, <1>4
<1>6. TypeOK'
  BY <1>1, <1>2, <1>3, <1>5 DEF TypeOK
<1>7. RequiredIsQueued'
  BY <1>1, <1>3 DEF IInv, RequiredIsQueued
<1>8. Untouched'
  BY <1>1, <1>2, <1>3 DEF IInv, Untouched
<1> QED BY <1>6, <1>7, <1>8 DEF IInv

\* Every call keeps the invariant.
LEMMA InvNext == IInv /\ [Next]_vars => IInv'
<1> SUFFICES ASSUME IInv, [Next]_vars PROVE IInv'
  OBVIOUS
<1>1. ASSUME NEW report \in Reports, SaveReport(report) PROVE IInv'
  <2>1. TypeOK'
    BY <1>1, SaveEffect DEF IInv, TypeOK
  <2>2. RequiredIsQueued'
    <3> SUFFICES ASSUME NEW c \in Clauses, Required(stored'[c])
                 PROVE  reviews'[c].version # 0
      BY DEF RequiredIsQueued, Required
    <3>1. stored'[c] # NotStored
      <4>1. NotStored.verification = "" /\ NotStored.status = ""
        BY DEF NotStored
      <4>2. ~Required(NotStored)
        BY <4>1 DEF Required
      <4> QED BY <4>2
    <3> QED BY <1>1, <3>1, SaveEffect
  <2>3. Untouched'
    BY <1>1, SaveEffect DEF IInv, Untouched
  <2> QED BY <2>1, <2>2, <2>3 DEF IInv
<1>2. ASSUME NEW c \in Clauses, NEW q \in Reviewers, NEW target \in REVIEW_STATES,
             Transition(c, q, target, reviews[c].version)
      PROVE  IInv'
  BY <1>2, TransitionEffect, CommitDecisionKeeps
<1>3. CASE UNCHANGED vars
  BY <1>3 DEF vars, IInv, TypeOK, RequiredIsQueued, Untouched
<1> QED BY <1>1, <1>2, <1>3 DEF Next

LEMMA InvInit == Init => IInv
<1> SUFFICES ASSUME Init PROVE IInv
  OBVIOUS
<1>1. NoRecord \in ReviewRecord
  BY DEF NoRecord, ReviewRecord, REVIEW_STATES
<1>2. TypeOK
  BY <1>1 DEF Init, TypeOK
<1>3. RequiredIsQueued /\ Untouched
  BY DEF Init, RequiredIsQueued, Untouched, NotStored
<1> QED BY <1>2, <1>3 DEF IInv

LEMMA Invariance == Spec => []IInv
BY InvInit, InvNext, PTL DEF Spec

\* Every variable of the repository keeps its type.
THEOREM TypeCorrect == Spec => []TypeOK
<1>1. IInv => TypeOK
  BY DEF IInv
<1> QED BY <1>1, Invariance, PTL

-----------------------------------------------------------------------------
(* The refinement *)

AbsState == [c \in Clauses |->
                IF reviews[c].version = 0 THEN "absent" ELSE reviews[c].state]
AbsHistory == [c \in Clauses |-> [i \in 1..Len(events[c]) |-> events[c][i].state]]

\* A save opens the records that were missing.
LEMMA SaveOpens ==
    ASSUME IInv, NEW report \in Reports, SaveReport(report)
    PROVE  Lifecycle!Next
<1> DEFINE C == {c \in Clauses : reviews[c].version = 0 /\ reviews'[c].version # 0}
<1>1. /\ events' = events
      /\ \A c \in Clauses :
            \/ reviews'[c] = reviews[c]
            \/ /\ reviews[c].version = 0 /\ reviews'[c].version # 0
               /\ reviews'[c].state = "needs_review"
  BY SaveEffect
<1>2. \A c \in Clauses :
          reviews[c].state \in REVIEW_STATES /\ "absent" \notin REVIEW_STATES
  BY DEF IInv, TypeOK, ReviewRecord, REVIEW_STATES
<1>3. AbsHistory' = AbsHistory
  BY <1>1 DEF AbsHistory
<1>4. AbsState' = [c \in Clauses |->
                      IF c \in C /\ AbsState[c] = "absent"
                      THEN "needs_review" ELSE AbsState[c]]
  BY <1>1, <1>2 DEF AbsState
<1>5. Lifecycle!Open(C)
  BY <1>3, <1>4 DEF Lifecycle!Open, AbsState, AbsHistory
<1>6. C \in SUBSET Clauses
  OBVIOUS
<1> HIDE DEF C
<1> QED BY <1>5, <1>6, Zenon DEF Lifecycle!Next, Lifecycle!Open

\* A decision is a decision of the lifecycle.
LEMMA TransitionDecides ==
    ASSUME IInv, NEW c \in Clauses, NEW q \in Reviewers, NEW target \in REVIEW_STATES,
           Transition(c, q, target, reviews[c].version)
    PROVE  Lifecycle!Next
<1>1. /\ reviews[c].version # 0
      /\ validate_transition(reviews[c].state, target)
      /\ reviews' = [reviews EXCEPT ![c] = [state |-> target,
             version |-> reviews[c].version + 1, original |-> reviews[c].original]]
      /\ events' = [events EXCEPT ![c] =
             Append(events[c], [state |-> target, reviewer |-> q])]
  BY TransitionEffect DEF CommitDecision
<1>2. /\ reviews \in [Clauses -> ReviewRecord]
      /\ events \in [Clauses -> Seq(ReviewEvent)]
  BY DEF IInv, TypeOK
<1>3. \A d \in Clauses : reviews[d].state \in REVIEW_STATES /\ reviews[d].version \in Nat
  BY <1>2 DEF ReviewRecord
<1>4. AbsState[c] = reviews[c].state /\ AbsState[c] # "absent"
  BY <1>1, <1>3 DEF AbsState, REVIEW_STATES
<1>5. AbsState' = [AbsState EXCEPT ![c] = target]
  <2>1. reviews'[c].version # 0 /\ reviews'[c].state = target
    BY <1>1, <1>2, <1>3
  <2>2. \A d \in Clauses \ {c} : reviews'[d] = reviews[d]
    BY <1>1, <1>2
  <2> QED BY <2>1, <2>2 DEF AbsState
<1>6. [i \in 1..Len(events'[c]) |-> events'[c][i].state] = Append(AbsHistory[c], target)
  BY <1>1, <1>2 DEF AbsHistory
<1>7. AbsHistory' = [AbsHistory EXCEPT ![c] = Append(@, target)]
  BY <1>1, <1>2, <1>6 DEF AbsHistory
<1>8. Lifecycle!validate_transition(reviews[c].state, target)
  BY <1>1 DEF validate_transition, ALLOWED_TRANSITIONS, REVIEW_STATES, FinalStates,
              Lifecycle!validate_transition, Lifecycle!ALLOWED_TRANSITIONS,
              Lifecycle!REVIEW_STATES, Lifecycle!FinalStates
<1>9. Lifecycle!Decide(c, target)
  BY <1>4, <1>5, <1>7, <1>8 DEF Lifecycle!Decide, AbsState, AbsHistory
<1>10. target \in Lifecycle!REVIEW_STATES
  BY DEF Lifecycle!REVIEW_STATES, REVIEW_STATES
<1> QED BY <1>9, <1>10, Zenon DEF Lifecycle!Next, Lifecycle!Decide

\* Every sequence of calls on the double is a behaviour of the abstract lifecycle.
THEOREM Refinement == Spec => ImplementsLifecycle
<1>1. Init => Lifecycle!Init
  <2> SUFFICES ASSUME Init PROVE Lifecycle!Init
    OBVIOUS
  <2>1. \A c \in Clauses : reviews[c].version = 0 /\ events[c] = <<>>
    BY DEF Init, NoRecord
  <2>2. AbsState = [c \in Clauses |-> "absent"]
    BY <2>1 DEF AbsState
  <2>3. \A c \in Clauses : AbsHistory[c] = <<>>
    BY <2>1 DEF AbsHistory
  <2>4. AbsHistory = [c \in Clauses |-> <<>>]
    BY <2>3 DEF AbsHistory
  <2> QED BY <2>2, <2>4 DEF Lifecycle!Init, AbsState, AbsHistory
<1>2. IInv /\ [Next]_vars => [Lifecycle!Next]_(Lifecycle!vars)
  <2> SUFFICES ASSUME IInv, [Next]_vars PROVE [Lifecycle!Next]_(Lifecycle!vars)
    OBVIOUS
  <2>1. ASSUME NEW report \in Reports, SaveReport(report) PROVE Lifecycle!Next
    BY <2>1, SaveOpens
  <2>2. ASSUME NEW c \in Clauses, NEW q \in Reviewers, NEW target \in REVIEW_STATES,
               Transition(c, q, target, reviews[c].version)
        PROVE  Lifecycle!Next
    BY <2>2, TransitionDecides
  <2>3. CASE UNCHANGED vars
    BY <2>3 DEF vars, Lifecycle!vars
  <2> QED BY <2>1, <2>2, <2>3 DEF Next
<1> QED BY <1>1, <1>2, Invariance, PTL
        DEF Spec, ImplementsLifecycle, Lifecycle!Spec

-----------------------------------------------------------------------------
(* The order of the list *)

\* The records in front of c.
InFront(c, state) == {d \in InState(state) : Before(d, c)}

LEMMA ListIsFinite ==
    ASSUME NEW state, NEW c
    PROVE  /\ IsFiniteSet(InState(state)) /\ Cardinality(InState(state)) \in Nat
           /\ Cardinality(InState(state)) <= Cardinality(Clauses)
           /\ Cardinality(Clauses) \in Nat
           /\ IsFiniteSet(InFront(c, state)) /\ Position(c, state) \in Nat
           /\ Position(c, state) = Cardinality(InFront(c, state))
<1>1. IsFiniteSet(Clauses) /\ InState(state) \subseteq Clauses
  BY QueueAssumption DEF InState
<1>2. IsFiniteSet(InState(state)) /\ InFront(c, state) \subseteq InState(state)
  BY <1>1, FS_Subset DEF InFront
<1> QED BY <1>1, <1>2, FS_Subset, FS_CardinalityType DEF Position, InFront

\* The same after a step.
LEMMA ListIsFiniteAfter ==
    ASSUME NEW state, NEW c
    PROVE  /\ IsFiniteSet(InState(state)') /\ IsFiniteSet(InFront(c, state)')
           /\ Position(c, state)' \in Nat
           /\ Position(c, state)' = Cardinality(InFront(c, state)')
<1>1. IsFiniteSet(Clauses) /\ InState(state)' \subseteq Clauses
  BY QueueAssumption DEF InState
<1>2. IsFiniteSet(InState(state)') /\ InFront(c, state)' \subseteq InState(state)'
  BY <1>1, FS_Subset DEF InFront
<1> QED BY <1>1, <1>2, FS_Subset, FS_CardinalityType DEF Position, InFront

\* ORDER BY is a strict total order of the records.
LEMMA RowsAreOrdered ==
    ASSUME decidedAt \in [Clauses -> 0..MaxStamp],
           NEW x \in Clauses, NEW y \in Clauses, NEW z \in Clauses
    PROVE  /\ ~ Before(x, x)
           /\ Before(x, y) /\ Before(y, z) => Before(x, z)
           /\ x # y => Before(x, y) \/ Before(y, x)
<1>1. x \in Nat /\ y \in Nat /\ z \in Nat /\ MaxStamp \in Nat
  BY QueueAssumption
<1>2. decidedAt[x] \in 0..MaxStamp /\ decidedAt[y] \in 0..MaxStamp /\ decidedAt[z] \in 0..MaxStamp
  OBVIOUS
<1>3. decidedAt[x] \in Nat /\ decidedAt[y] \in Nat /\ decidedAt[z] \in Nat
  BY <1>1, <1>2
<1>4. ~ Before(x, x)
  BY <1>1, <1>3 DEF Before
<1>5. ASSUME Before(x, y), Before(y, z) PROVE Before(x, z)
  BY <1>1, <1>3, <1>5 DEF Before
<1>6. ASSUME x # y PROVE Before(x, y) \/ Before(y, x)
  BY <1>1, <1>3, <1>6 DEF Before
<1> QED BY <1>4, <1>5, <1>6

\* ORDER BY leaves no two records in one row: a row that more records stand in
\* front of is another.
LEMMA RowsDiffer ==
    ASSUME decidedAt \in [Clauses -> 0..MaxStamp], NEW state,
           NEW c \in InState(state), NEW d \in InState(state), c # d
    PROVE  Position(c, state) # Position(d, state)
<1>0. InState(state) \subseteq Clauses
  BY DEF InState
<1>1. ASSUME NEW x \in InState(state), NEW y \in InState(state), Before(x, y)
      PROVE  Position(x, state) < Position(y, state)
  <2>1. \A e \in InState(state) : Before(e, x) => Before(e, y)
    BY <1>0, <1>1, RowsAreOrdered
  <2>2. ~ Before(x, x)
    BY <1>0, RowsAreOrdered
  <2>3. InFront(x, state) \subseteq InFront(y, state) \ {x} /\ x \in InFront(y, state)
    BY <1>1, <2>1, <2>2 DEF InFront
  <2>4. /\ IsFiniteSet(InFront(y, state) \ {x})
        /\ Cardinality(InFront(y, state) \ {x}) = Cardinality(InFront(y, state)) - 1
    BY <2>3, ListIsFinite, FS_RemoveElement
  <2>5. Cardinality(InFront(x, state)) <= Cardinality(InFront(y, state)) - 1
    BY <2>3, <2>4, FS_Subset
  <2>6. /\ Position(x, state) = Cardinality(InFront(x, state)) /\ Position(x, state) \in Nat
        /\ Position(y, state) = Cardinality(InFront(y, state)) /\ Position(y, state) \in Nat
    BY ListIsFinite
  <2> QED BY <2>5, <2>6
<1>2. Before(c, d) \/ Before(d, c)
  BY <1>0, RowsAreOrdered
<1>3. Position(c, state) \in Nat /\ Position(d, state) \in Nat
  BY ListIsFinite
<1> QED BY <1>1, <1>2, <1>3

\* A row is one of the list: no record is beyond its count.
LEMMA RowsAreCounted ==
    ASSUME decidedAt \in [Clauses -> 0..MaxStamp], NEW state, NEW c \in InState(state)
    PROVE  Position(c, state) < count_review_queue(state)
<1>1. ~ Before(c, c)
  BY RowsAreOrdered DEF InState
<1>2. InFront(c, state) \subseteq InState(state) \ {c}
  BY <1>1 DEF InFront
<1>3. /\ IsFiniteSet(InState(state) \ {c})
      /\ Cardinality(InState(state) \ {c}) = Cardinality(InState(state)) - 1
  BY ListIsFinite, FS_RemoveElement
<1>4. Cardinality(InFront(c, state)) <= Cardinality(InState(state)) - 1
  BY <1>2, <1>3, FS_Subset
<1>5. /\ Position(c, state) = Cardinality(InFront(c, state)) /\ Position(c, state) \in Nat
      /\ Cardinality(InState(state)) \in Nat
  BY ListIsFinite
<1> QED BY <1>4, <1>5 DEF count_review_queue


-----------------------------------------------------------------------------
(* The reader                                                                *)
(*                                                                           *)
(* A record that the reader misses has been moved in front of the page's end *)
(* by one that left the list. Each departure moves every record by one row,  *)
(* and no two records share a row, so each carries at most one across.       *)

\* Due, not shown, and in front of the end of the page: no later page shows them.
Overtaken == {c \in due \ seen : Position(c, listed) < offset + Limit}

StillListed == step # "idle" => due \subseteq InState(listed)

AtRest == step = "idle" => offset = 0 /\ departed = 0 /\ seen = {} /\ due = {}

OvertakingCosts == Cardinality(Overtaken) <= departed

NoMoreToShow == step = "turn" /\ ~ has_next => Cardinality(due \ seen) <= departed

QueueInv == IInv /\ QueueTypeOK /\ StillListed /\ AtRest /\ OvertakingCosts /\ NoMoreToShow

LEMMA OvertakenIsFinite ==
    ASSUME due \subseteq Clauses
    PROVE  /\ IsFiniteSet(Overtaken) /\ Cardinality(Overtaken) \in Nat
           /\ IsFiniteSet(due \ seen) /\ Cardinality(due \ seen) \in Nat
<1>1. IsFiniteSet(Clauses) /\ Overtaken \subseteq Clauses /\ due \ seen \subseteq Clauses
  BY QueueAssumption DEF Overtaken
<1> QED BY <1>1, FS_Subset, FS_CardinalityType

\* A set that is larger than another by no two elements.
LEMMA OneMore ==
    ASSUME NEW S, IsFiniteSet(S), NEW R, \A x, y \in R : x = y,
           NEW T, T \subseteq S \cup R
    PROVE  Cardinality(T) \in Nat /\ Cardinality(T) <= Cardinality(S) + 1
<1>1. CASE R \subseteq S
  <2>1. Cardinality(T) <= Cardinality(S) /\ IsFiniteSet(T)
    BY <1>1, FS_Subset
  <2> QED BY <2>1, FS_CardinalityType
<1>2. CASE ~ (R \subseteq S)
  <2>1. PICK x \in R : x \notin S
    BY <1>2
  <2>2. T \subseteq S \cup {x}
    BY <2>1
  <2>3. IsFiniteSet(S \cup {x}) /\ Cardinality(S \cup {x}) = Cardinality(S) + 1
    BY <2>1, FS_AddElement
  <2>4. Cardinality(T) <= Cardinality(S \cup {x}) /\ IsFiniteSet(T)
    BY <2>2, <2>3, FS_Subset
  <2> QED BY <2>3, <2>4, FS_CardinalityType
<1> QED BY <1>1, <1>2

\* A decision on c moves another record up by one row at most, and by none when c
\* was not in its list.
LEMMA DecisionMovesRows ==
    ASSUME NEW state, NEW c \in Clauses, NEW e \in InState(state), e # c,
           \A d \in Clauses : d # c => reviews'[d] = reviews[d] /\ decidedAt'[d] = decidedAt[d]
    PROVE  /\ e \in InState(state)'
           /\ Position(e, state) <= Position(e, state)' + 1
           /\ c \notin InState(state) => Position(e, state) <= Position(e, state)'
<1>1. e \in InState(state)'
  BY DEF InState
<1>2. ASSUME NEW d \in InFront(e, state), d # c
      PROVE  d \in InFront(e, state)'
  BY <1>2 DEF InFront, InState, Before
<1>3. /\ IsFiniteSet(InFront(e, state)') /\ IsFiniteSet(InFront(e, state))
      /\ Position(e, state)' \in Nat /\ Position(e, state)' = Cardinality(InFront(e, state)')
      /\ Position(e, state) \in Nat /\ Position(e, state) = Cardinality(InFront(e, state))
  BY ListIsFinite, ListIsFiniteAfter
<1>4. Position(e, state) <= Position(e, state)' + 1
  <2>1. InFront(e, state) \subseteq InFront(e, state)' \cup {c}
    BY <1>2
  <2> QED BY <1>3, <2>1, OneMore
<1>5. ASSUME c \notin InState(state)
      PROVE  Position(e, state) <= Position(e, state)'
  <2>1. InFront(e, state) \subseteq InFront(e, state)'
    BY <1>2, <1>5 DEF InFront
  <2> QED BY <1>3, <2>1, FS_Subset
<1> QED BY <1>1, <1>4, <1>5

\* A save moves no record up.
LEMMA SaveMovesRowsBack ==
    ASSUME IInv, NEW state, NEW e \in InState(state), NEW report \in Reports,
           SaveReport(report), decidedAt' = decidedAt
    PROVE  /\ e \in InState(state)'
           /\ Position(e, state) <= Position(e, state)'
<1>1. \A d \in InState(state) : reviews'[d] = reviews[d]
  BY SaveEffect DEF InState
<1>2. e \in InState(state)'
  BY <1>1 DEF InState
<1>3. InFront(e, state) \subseteq InFront(e, state)'
  BY <1>1 DEF InFront, InState, Before
<1> QED BY <1>2, <1>3, FS_Subset, ListIsFinite, ListIsFiniteAfter


\* The types the readers' variables keep, in the form the steps below need them.
LEMMA ReaderTypes ==
    ASSUME QueueInv
    PROVE  /\ IInv /\ due \subseteq Clauses /\ seen \subseteq Clauses
           /\ offset \in Nat /\ departed \in Nat /\ total \in Nat /\ Limit \in Nat
           /\ decidedAt \in [Clauses -> 0..MaxStamp]
           /\ listed \in Listed
           /\ IsFiniteSet(Overtaken) /\ Cardinality(Overtaken) \in Nat
           /\ IsFiniteSet(due \ seen) /\ Cardinality(due \ seen) \in Nat
<1>1. QueueTypeOK /\ IInv /\ IsFiniteSet(Clauses)
  BY QueueAssumption DEF QueueInv
<1>2. Cardinality(Clauses) \in Nat
  BY <1>1, FS_CardinalityType
<1>3. total \in Nat
  BY <1>1, <1>2 DEF QueueTypeOK
<1>4. due \subseteq Clauses
  BY <1>1 DEF QueueTypeOK
<1> QED BY <1>1, <1>3, <1>4, OvertakenIsFinite, QueueAssumption DEF QueueTypeOK

\* The invariant of the repository below the queue.
LEMMA RepositoryInv == IInv /\ [QueueNext]_queueVars => IInv'
<1> SUFFICES ASSUME IInv, [QueueNext]_queueVars PROVE IInv'
  OBVIOUS
<1>1. CASE UNCHANGED vars
  BY <1>1, InvNext
<1>2. CASE Read
  BY <1>1, <1>2 DEF Read, FirstPage, Count, NextPage, LastPage, vars
<1>3. ASSUME NEW report \in Reports, SaveWhileRead(report) PROVE IInv'
  BY <1>3, InvNext DEF SaveWhileRead, Next
<1>4. ASSUME NEW c \in Clauses, NEW q \in Reviewers, NEW target \in REVIEW_STATES,
             NEW stamp \in 1..MaxStamp, DecideWhileRead(c, q, target, stamp)
      PROVE  IInv'
  BY <1>4, CommitDecisionKeeps DEF DecideWhileRead
<1>5. CASE UNCHANGED queueVars
  BY <1>1, <1>5 DEF queueVars, vars
<1> QED BY <1>2, <1>3, <1>4, <1>5 DEF QueueNext

LEMMA FirstPageKeeps ==
    ASSUME QueueInv, NEW state \in Listed, FirstPage(state), IInv'
    PROVE  QueueInv'
<1>1. /\ step' = "count" /\ listed' = state /\ seen' = list_review_queue(state, 0)
      /\ due' = InState(state) /\ offset' = offset /\ departed' = departed
      /\ total' = total /\ reviews' = reviews /\ decidedAt' = decidedAt /\ step = "idle"
  BY DEF FirstPage
<1>2. offset = 0 /\ departed = 0
  BY <1>1 DEF QueueInv, AtRest
<1>3. \A s, c : InState(s)' = InState(s) /\ Position(c, s)' = Position(c, s)
  BY <1>1 DEF InState, Position, Before
<1>4. InState(state) \subseteq Clauses /\ list_review_queue(state, 0) \subseteq Clauses
  BY DEF InState, list_review_queue
<1>5. QueueTypeOK'
  BY <1>1, <1>4 DEF QueueInv, QueueTypeOK, IInv
<1>6. StillListed' /\ AtRest' /\ NoMoreToShow'
  BY <1>1, <1>3 DEF StillListed, AtRest, NoMoreToShow
<1>7. Overtaken' = {}
  <2> SUFFICES ASSUME NEW c \in due' \ seen', Position(c, listed)' < offset' + Limit
               PROVE  FALSE
    BY DEF Overtaken
  <2>1. c \in InState(state) /\ c \notin list_review_queue(state, 0)
    BY <1>1
  <2>2. Position(c, state) < 0 + Limit /\ Position(c, state) \in Nat
    BY <1>1, <1>2, <1>3, ListIsFinite
  <2> QED BY <2>1, <2>2 DEF list_review_queue
<1>8. OvertakingCosts'
  <2>1. Cardinality(Overtaken') = 0
    BY <1>7, FS_EmptySet
  <2> QED BY <1>1, <1>2, <2>1 DEF OvertakingCosts
<1> QED BY <1>5, <1>6, <1>8 DEF QueueInv

\* The count covers every row: a page that reaches it leaves only what it passed.
LEMMA CountKeeps ==
    ASSUME QueueInv, Count, IInv'
    PROVE  QueueInv'
<1>1. /\ step = "count" /\ step' = "turn" /\ total' = count_review_queue(listed)
      /\ listed' = listed /\ seen' = seen /\ due' = due /\ offset' = offset
      /\ departed' = departed /\ reviews' = reviews /\ decidedAt' = decidedAt
  BY DEF Count
<1>2. \A s, c : InState(s)' = InState(s) /\ Position(c, s)' = Position(c, s)
  BY <1>1 DEF InState, Position, Before
<1>3. total' \in 0..Cardinality(Clauses)
  BY <1>1, ListIsFinite DEF count_review_queue
<1>4. QueueTypeOK'
  BY <1>1, <1>3 DEF QueueInv, QueueTypeOK, IInv
<1>5. StillListed' /\ AtRest'
  BY <1>1, <1>2 DEF QueueInv, StillListed, AtRest
<1>6. Overtaken' = Overtaken
  BY <1>1, <1>2 DEF Overtaken
<1>7. OvertakingCosts'
  BY <1>1, <1>6 DEF QueueInv, OvertakingCosts
<1>8. NoMoreToShow'
  <2> SUFFICES ASSUME ~ has_next' PROVE Cardinality(due \ seen) <= departed
    BY <1>1 DEF NoMoreToShow
  <2>1. ASSUME NEW c \in due \ seen
        PROVE  Position(c, listed) < offset + Limit
    <3>1. c \in InState(listed)
      BY <1>1 DEF QueueInv, StillListed
    <3>2. Position(c, listed) < total'
      BY <1>1, <3>1, ReaderTypes, RowsAreCounted
    <3>3. ~ (offset + Limit < total')
      BY <1>1 DEF has_next
    <3>4. Position(c, listed) \in Nat /\ total' \in Nat
      BY <1>1, ListIsFinite DEF count_review_queue
    <3>5. offset \in Nat /\ Limit \in Nat
      BY ReaderTypes
    <3> QED BY <3>2, <3>3, <3>4, <3>5
  <2>2. due \ seen = Overtaken
    BY <2>1 DEF Overtaken
  <2> QED BY <2>2 DEF QueueInv, OvertakingCosts
<1> QED BY <1>4, <1>5, <1>7, <1>8 DEF QueueInv

\* The next page shows what it reaches: only what was in front of it is passed.
LEMMA NextPageKeeps ==
    ASSUME QueueInv, NextPage, IInv'
    PROVE  QueueInv'
<1>1. /\ step = "turn" /\ step' = "count" /\ offset' = offset + Limit
      /\ seen' = seen \cup list_review_queue(listed, offset + Limit)
      /\ total' = total /\ listed' = listed /\ due' = due
      /\ departed' = departed /\ reviews' = reviews /\ decidedAt' = decidedAt
  BY DEF NextPage
<1>2. \A s, c : InState(s)' = InState(s) /\ Position(c, s)' = Position(c, s)
  BY <1>1 DEF InState, Position, Before
<1>3. list_review_queue(listed, offset + Limit) \subseteq Clauses /\ offset' \in Nat
  BY <1>1, ReaderTypes DEF list_review_queue, InState
<1>4. QueueTypeOK'
  BY <1>1, <1>3 DEF QueueInv, QueueTypeOK, IInv
<1>5. StillListed' /\ AtRest' /\ NoMoreToShow'
  BY <1>1, <1>2 DEF QueueInv, StillListed, AtRest, NoMoreToShow
<1>6. Overtaken' \subseteq Overtaken
  <2> SUFFICES ASSUME NEW c \in due \ seen', Position(c, listed) < offset + Limit + Limit
               PROVE  Position(c, listed) < offset + Limit
    BY <1>1, <1>2 DEF Overtaken
  <2>1. c \in InState(listed) /\ c \notin list_review_queue(listed, offset + Limit)
    BY <1>1 DEF QueueInv, StillListed
  <2>2. Position(c, listed) \in Nat /\ offset \in Nat /\ Limit \in Nat
    BY ListIsFinite, ReaderTypes
  <2> QED BY <2>1, <2>2 DEF list_review_queue
<1>7. OvertakingCosts'
  <2>1. Cardinality(Overtaken') <= Cardinality(Overtaken) /\ IsFiniteSet(Overtaken')
    BY <1>6, ReaderTypes, FS_Subset
  <2>2. Cardinality(Overtaken') \in Nat
    BY <2>1, FS_CardinalityType
  <2> QED BY <1>1, <2>1, <2>2, ReaderTypes DEF QueueInv, OvertakingCosts
<1> QED BY <1>4, <1>5, <1>7 DEF QueueInv

LEMMA LastPageKeeps ==
    ASSUME QueueInv, LastPage, IInv'
    PROVE  QueueInv'
<1>1. /\ step' = "idle" /\ offset' = 0 /\ total' = 0 /\ seen' = {} /\ due' = {}
      /\ departed' = 0 /\ listed' = listed /\ decidedAt' = decidedAt
  BY DEF LastPage
<1>2. 0 \in 0..Cardinality(Clauses)
  BY QueueAssumption, FS_CardinalityType
<1>3. QueueTypeOK'
  BY <1>1, <1>2 DEF QueueInv, QueueTypeOK, IInv
<1>4. StillListed' /\ AtRest' /\ NoMoreToShow'
  BY <1>1 DEF StillListed, AtRest, NoMoreToShow
<1>5. Overtaken' = {}
  BY <1>1 DEF Overtaken
<1>6. OvertakingCosts'
  <2>1. Cardinality(Overtaken') = 0
    BY <1>5, FS_EmptySet
  <2> QED BY <1>1, <2>1 DEF OvertakingCosts
<1> QED BY <1>3, <1>4, <1>6 DEF QueueInv


\* A save moves the rows back, so the reader is given some of them twice.
LEMMA SaveKeeps ==
    ASSUME QueueInv, NEW report \in Reports, SaveWhileRead(report), IInv'
    PROVE  QueueInv'
<1>1. /\ SaveReport(report) /\ decidedAt' = decidedAt
      /\ step' = step /\ listed' = listed /\ offset' = offset /\ total' = total
      /\ seen' = seen /\ due' = due /\ departed' = departed
  BY DEF SaveWhileRead, readerVars
<1>2. IInv
  BY DEF QueueInv
<1>3. QueueTypeOK'
  BY <1>1 DEF QueueInv, QueueTypeOK, IInv
<1>4. StillListed'
  <2> SUFFICES ASSUME step # "idle", NEW c \in due PROVE c \in InState(listed)'
    BY <1>1 DEF StillListed, InState
  <2>1. c \in InState(listed)
    BY DEF QueueInv, StillListed
  <2> QED BY <1>1, <1>2, <2>1, SaveMovesRowsBack
<1>5. AtRest' /\ NoMoreToShow'
  BY <1>1 DEF QueueInv, AtRest, NoMoreToShow, has_next
<1>6. Overtaken' \subseteq Overtaken
  <2> SUFFICES ASSUME NEW c \in due \ seen, Position(c, listed)' < offset + Limit
               PROVE  Position(c, listed) < offset + Limit
    BY <1>1 DEF Overtaken, Position, InState, Before
  <2>1. c \in InState(listed)
    BY DEF QueueInv, StillListed, AtRest
  <2>2. Position(c, listed) <= Position(c, listed)'
    BY <1>1, <1>2, <2>1, SaveMovesRowsBack
  <2>3. /\ Position(c, listed) \in Nat /\ Position(c, listed)' \in Nat
        /\ offset \in Nat /\ Limit \in Nat
    BY ListIsFinite, ListIsFiniteAfter, ReaderTypes
  <2> QED BY <2>2, <2>3
<1>7. OvertakingCosts'
  <2>1. Cardinality(Overtaken') <= Cardinality(Overtaken) /\ IsFiniteSet(Overtaken')
    BY <1>6, ReaderTypes, FS_Subset
  <2>2. Cardinality(Overtaken') \in Nat
    BY <2>1, FS_CardinalityType
  <2> QED BY <1>1, <2>1, <2>2, ReaderTypes DEF QueueInv, OvertakingCosts
<1> QED BY <1>3, <1>4, <1>5, <1>7 DEF QueueInv

\* What a decision does to the reader: its list loses c, if c was in it.
LEMMA DecideEffect ==
    ASSUME QueueInv, NEW c \in Clauses, NEW q \in Reviewers, NEW target \in REVIEW_STATES,
           NEW stamp \in 1..MaxStamp, DecideWhileRead(c, q, target, stamp)
    PROVE  /\ \A d \in Clauses : d # c => reviews'[d] = reviews[d] /\ decidedAt'[d] = decidedAt[d]
           /\ decidedAt' \in [Clauses -> 0..MaxStamp]
           /\ step' = step /\ listed' = listed /\ offset' = offset /\ total' = total
           /\ seen' = seen
           /\ \/ /\ step # "idle" /\ c \in InState(listed)
                 /\ due' = due \ {c} /\ departed' = departed + 1
              \/ /\ step = "idle" \/ c \notin InState(listed)
                 /\ due' = due /\ departed' = departed
<1>1. CommitDecision(c, q, target) /\ reviews \in [Clauses -> ReviewRecord]
  BY DEF DecideWhileRead, QueueInv, IInv, TypeOK
<1>2. \A d \in Clauses : d # c => reviews'[d] = reviews[d]
  BY <1>1 DEF CommitDecision
<1>3. decidedAt' = [decidedAt EXCEPT ![c] = stamp] /\ decidedAt \in [Clauses -> 0..MaxStamp]
  BY ReaderTypes DEF DecideWhileRead
<1>4. stamp \in 0..MaxStamp
  BY QueueAssumption
<1>5. /\ decidedAt' \in [Clauses -> 0..MaxStamp]
      /\ \A d \in Clauses : d # c => decidedAt'[d] = decidedAt[d]
  BY <1>3, <1>4
<1> QED BY <1>2, <1>5 DEF DecideWhileRead

LEMMA DecideKeeps ==
    ASSUME QueueInv, NEW c \in Clauses, NEW q \in Reviewers, NEW target \in REVIEW_STATES,
           NEW stamp \in 1..MaxStamp, DecideWhileRead(c, q, target, stamp), IInv'
    PROVE  QueueInv'
<1>1. /\ \A d \in Clauses : d # c => reviews'[d] = reviews[d] /\ decidedAt'[d] = decidedAt[d]
      /\ decidedAt' \in [Clauses -> 0..MaxStamp]
      /\ step' = step /\ listed' = listed /\ offset' = offset /\ total' = total /\ seen' = seen
  BY DecideEffect
<1>2. \/ /\ step # "idle" /\ c \in InState(listed)
         /\ due' = due \ {c} /\ departed' = departed + 1
      \/ /\ step = "idle" \/ c \notin InState(listed)
         /\ due' = due /\ departed' = departed
  BY DecideEffect
<1>3. departed \in Nat /\ offset \in Nat /\ Limit \in Nat
  BY ReaderTypes
<1>4. QueueTypeOK'
  BY <1>1, <1>2, <1>3 DEF QueueInv, QueueTypeOK, IInv
<1>5. AtRest'
  BY <1>1, <1>2 DEF QueueInv, AtRest
<1>6. \A e \in due' : e \in InState(listed) /\ e # c
  BY <1>2 DEF QueueInv, StillListed, AtRest
<1>7. \A e \in due' :
         /\ e \in InState(listed)'
         /\ Position(e, listed) <= Position(e, listed)' + 1
         /\ c \notin InState(listed) => Position(e, listed) <= Position(e, listed)'
  BY <1>1, <1>6, DecisionMovesRows
<1>8. StillListed'
  BY <1>1, <1>7 DEF StillListed, InState
<1>9. \A e : /\ Position(e, listed) \in Nat /\ Position(e, listed)' \in Nat
             /\ Position(e, listed') = Position(e, listed)
  BY <1>1, ListIsFinite, ListIsFiniteAfter
<1>10. /\ Overtaken' = {e \in due' \ seen : Position(e, listed)' < offset + Limit}
       /\ due' \subseteq due
  BY <1>1, <1>2 DEF Overtaken, Position, InState, Before
<1>11. CASE due' = due /\ departed' = departed
  <2>1. Overtaken' \subseteq Overtaken
    <3> SUFFICES ASSUME NEW e \in due \ seen, Position(e, listed)' < offset + Limit
                 PROVE  Position(e, listed) < offset + Limit
      BY <1>10, <1>11 DEF Overtaken
    <3>1. Position(e, listed) <= Position(e, listed)'
      BY <1>2, <1>3, <1>7, <1>11 DEF QueueInv, AtRest
    <3> QED BY <1>3, <1>9, <3>1
  <2>2. Cardinality(Overtaken') <= Cardinality(Overtaken) /\ IsFiniteSet(Overtaken')
    BY <2>1, ReaderTypes, FS_Subset
  <2>3. Cardinality(Overtaken') \in Nat
    BY <2>2, FS_CardinalityType
  <2>4. OvertakingCosts'
    BY <1>11, <2>2, <2>3, ReaderTypes DEF QueueInv, OvertakingCosts
  <2>5. NoMoreToShow'
    BY <1>1, <1>11 DEF QueueInv, NoMoreToShow, has_next
  <2> QED BY <1>4, <1>5, <1>8, <2>4, <2>5 DEF QueueInv
<1>12. CASE due' = due \ {c} /\ departed' = departed + 1
  <2> DEFINE Row == {e \in due : Position(e, listed) = offset + Limit}
  <2>1. \A x, y \in Row : x = y
    <3>1. \A e \in due : e \in InState(listed)
      BY <1>2, <1>3, <1>12 DEF QueueInv, StillListed
    <3> QED BY <3>1, ReaderTypes, RowsDiffer
  <2>2. Overtaken' \subseteq Overtaken \cup Row
    <3> SUFFICES ASSUME NEW e \in due' \ seen, Position(e, listed)' < offset + Limit
                 PROVE  Position(e, listed) <= offset + Limit
      BY <1>3, <1>9, <1>10 DEF Overtaken
    <3> QED BY <1>3, <1>7, <1>9
  <2> HIDE DEF Row
  <2>3. Cardinality(Overtaken') \in Nat /\ Cardinality(Overtaken') <= Cardinality(Overtaken) + 1
    BY <2>1, <2>2, ReaderTypes, OneMore
  <2>4. OvertakingCosts'
    BY <1>3, <1>12, <2>3, ReaderTypes DEF QueueInv, OvertakingCosts
  <2>5. NoMoreToShow'
    <3> SUFFICES ASSUME step = "turn", ~ has_next
                 PROVE  Cardinality(due' \ seen) <= departed + 1
      BY <1>1, <1>12 DEF NoMoreToShow, has_next
    <3>1. Cardinality(due \ seen) <= departed
      BY DEF QueueInv, NoMoreToShow
    <3>2. due' \ seen \subseteq due \ seen
      BY <1>12
    <3>3. Cardinality(due' \ seen) <= Cardinality(due \ seen) /\ IsFiniteSet(due' \ seen)
      BY <3>2, ReaderTypes, FS_Subset
    <3>4. Cardinality(due' \ seen) \in Nat
      BY <3>3, FS_CardinalityType
    <3> QED BY <1>3, <3>1, <3>3, <3>4, ReaderTypes
  <2> QED BY <1>4, <1>5, <1>8, <2>4, <2>5 DEF QueueInv
<1> QED BY <1>2, <1>11, <1>12

\* What the reader keeps, and the repository below it.
THEOREM QueueInvHolds == QueueSpec => []QueueInv
<1>1. QueueInit => QueueInv
  <2> SUFFICES ASSUME QueueInit PROVE QueueInv
    OBVIOUS
  <2>1. /\ Init /\ decidedAt = [c \in Clauses |-> 0] /\ step = "idle" /\ listed \in Listed
        /\ offset = 0 /\ total = 0 /\ seen = {} /\ due = {} /\ departed = 0
    BY DEF QueueInit
  <2>2. IInv /\ 0 \in 0..MaxStamp /\ 0 \in 0..Cardinality(Clauses)
    BY <2>1, InvInit, QueueAssumption, FS_CardinalityType
  <2>3. QueueTypeOK
    BY <2>1, <2>2 DEF QueueTypeOK, IInv
  <2>4. StillListed /\ AtRest /\ NoMoreToShow
    BY <2>1 DEF StillListed, AtRest, NoMoreToShow
  <2>5. Overtaken = {}
    BY <2>1 DEF Overtaken
  <2>6. OvertakingCosts
    <3>1. Cardinality(Overtaken) = 0
      BY <2>5, FS_EmptySet
    <3> QED BY <2>1, <3>1 DEF OvertakingCosts
  <2> QED BY <2>2, <2>3, <2>4, <2>6 DEF QueueInv
<1>2. QueueInv /\ [QueueNext]_queueVars => QueueInv'
  <2> SUFFICES ASSUME QueueInv, [QueueNext]_queueVars PROVE QueueInv'
    OBVIOUS
  <2>1. IInv'
    BY RepositoryInv DEF QueueInv
  <2>2. CASE Read
    BY <2>1, <2>2, FirstPageKeeps, CountKeeps, NextPageKeeps, LastPageKeeps DEF Read
  <2>3. ASSUME NEW report \in Reports, SaveWhileRead(report)
        PROVE  QueueInv'
    BY <2>1, <2>3, SaveKeeps
  <2>4. ASSUME NEW c \in Clauses, NEW q \in Reviewers, NEW target \in REVIEW_STATES,
               NEW stamp \in 1..MaxStamp, DecideWhileRead(c, q, target, stamp)
        PROVE  QueueInv'
    BY <2>1, <2>4, DecideKeeps
  <2>5. CASE UNCHANGED queueVars
    <3>1. /\ reviews' = reviews /\ decidedAt' = decidedAt /\ step' = step /\ listed' = listed
          /\ offset' = offset /\ total' = total /\ seen' = seen /\ due' = due
          /\ departed' = departed
      BY <2>5 DEF queueVars, readerVars
    <3>2. \A s, c : InState(s)' = InState(s) /\ Position(c, s)' = Position(c, s)
      BY <3>1 DEF InState, Position, Before
    <3>3. Overtaken' = Overtaken
      BY <3>1, <3>2 DEF Overtaken
    <3>4. QueueTypeOK'
      BY <2>1, <3>1 DEF QueueInv, QueueTypeOK, IInv
    <3>5. StillListed' /\ AtRest' /\ NoMoreToShow'
      BY <3>1, <3>2 DEF QueueInv, StillListed, AtRest, NoMoreToShow, has_next
    <3>6. OvertakingCosts'
      BY <3>1, <3>3 DEF QueueInv, OvertakingCosts
    <3> QED BY <2>1, <3>4, <3>5, <3>6 DEF QueueInv
  <2> QED BY <2>2, <2>3, <2>4, <2>5 DEF QueueNext
<1> QED BY <1>1, <1>2, PTL DEF QueueSpec

\* The variables of the reader and of the repository keep their types.
THEOREM QueueTypeCorrect == QueueSpec => []QueueTypeOK
<1>1. QueueInv => QueueTypeOK
  BY DEF QueueInv
<1> QED BY <1>1, QueueInvHolds, PTL

\* A reader that turns the pages to the last one has missed no more records than
\* have left the list meanwhile (postgres_repository.py:429-430, dashboard.py:105).
THEOREM MissesAreAccountedHolds == QueueSpec => MissesAreAccounted
<1>1. QueueInv => [LastPage => Cardinality(due \ seen) <= departed]_queueVars
  BY DEF QueueInv, NoMoreToShow, LastPage
<1> QED BY <1>1, QueueInvHolds, PTL DEF MissesAreAccounted
=============================================================================

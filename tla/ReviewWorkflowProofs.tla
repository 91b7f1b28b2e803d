------------------------ MODULE ReviewWorkflowProofs ------------------------
(***************************************************************************)
(* Proofs about ReviewWorkflow for every set of clauses, reviewers and     *)
(* results: type correctness, the safety invariants of the runs, and the   *)
(* refinement of ReviewLifecycle.                                          *)
(***************************************************************************)
EXTENDS ReviewWorkflow, SequenceTheorems, TLAPS

-----------------------------------------------------------------------------
(* Type correctness *)

\* A stored or absent result is a pair of a status and a verification.
LEMMA ResultType ==
    ASSUME NEW res \in Results \cup {NoResult}
    PROVE  res \in [status : Statuses, verification : Verifications]
<1>1. NoResult \in [status : Statuses, verification : Verifications]
  BY DEF NoResult, Statuses, Verifications
<1>2. Results \subseteq [status : Statuses, verification : Verifications]
  BY ResultsAssumption DEF ResultsAssumption
<1> QED BY <1>1, <1>2

\* The initial state is well typed.
LEMMA TypeInit == Init => TypeOK
<1> SUFFICES ASSUME Init PROVE TypeOK
  OBVIOUS
<1>1. rows \in [Clauses -> Row]
  BY DEF Init, NoRow, Row
<1>2. reviews \in [Clauses -> ReviewRecord]
  BY DEF Init, NoRecord, ReviewRecord, Originals, REVIEW_STATES
<1>3. events \in [Clauses -> Seq(Event)]
  BY DEF Init
<1>4. form \in [Reviewers -> Form]
  BY DEF Init, BlankForm, Form, REVIEW_STATES
<1> QED BY <1>1, <1>2, <1>3, <1>4 DEF Init, TypeOK, PCs

\* A saved report leaves well-typed rows and records behind.
LEMMA TypeSave == TypeOK /\ Save => TypeOK'
<1> SUFFICES ASSUME TypeOK, Save PROVE TypeOK'
  OBVIOUS
<1>1. ASSUME NEW report \in Reports, SaveReport(report) PROVE TypeOK'
  <2>1. \A c \in DOMAIN report : c \in Clauses /\ report[c] \in Results
    BY DEF Reports
  <2>2. rows' \in [Clauses -> Row]
    BY <1>1, <2>1 DEF SaveReport, TypeOK, Row, NoRow
  <2>3. reviews' \in [Clauses -> ReviewRecord]
    <3>1. \A c \in DOMAIN report : report[c].status \in Statuses
      BY <2>1, ResultType
    <3>2. ASSUME NEW c \in Clauses,
                 c \in DOMAIN report /\ Required(report[c])
          PROVE  OpenedRecord(reviews[c], report[c]) \in ReviewRecord
      BY <3>1, <3>2 DEF OpenedRecord, ReviewRecord, TypeOK, Originals,
                        REVIEW_STATES
    <3>3. \A c \in Clauses : reviews[c] \in ReviewRecord
      BY DEF TypeOK
    <3> QED BY <1>1, <3>2, <3>3 DEF SaveReport
  <2> QED BY <1>1, <2>2, <2>3 DEF SaveReport, TypeOK
<1>2. CASE SaveRejected
  BY <1>2 DEF SaveRejected, TypeOK
<1> QED BY <1>1, <1>2 DEF Save

\* Loading and closing a detail view keep every variable in its type.
LEMMA TypeView ==
    ASSUME TypeOK, NEW r \in Reviewers, View(r) PROVE TypeOK'
<1>1. ASSUME NEW c \in Clauses, OpenDetail(r, c) PROVE TypeOK'
  BY <1>1 DEF OpenDetail, TypeOK, Form, PCs, BlankForm, Row, REVIEW_STATES
<1>2. CASE ReadEvidence(r) \/ ReadAudit(r)
  <2>1. PICK b \in BOOLEAN : form' = [form EXCEPT ![r].attached = b]
    <3>1. CASE ReadEvidence(r)
      BY <3>1 DEF ReadEvidence, RowIsCurrent
    <3>2. CASE ReadAudit(r)
      <4>1. (form[r].attached /\ RowIsCurrent(r)) \in BOOLEAN
        OBVIOUS
      <4>2. form' = [form EXCEPT ![r].attached =
                                    (form[r].attached /\ RowIsCurrent(r))]
        BY <3>2 DEF ReadAudit, TypeOK
      <4> QED BY <4>1, <4>2
    <3> QED BY <1>2, <3>1, <3>2
  <2> DEFINE f == [form[r] EXCEPT !.attached = b]
  <2>2. f \in Form /\ f.clause \in Clauses
    <3>1. form[r] \in Form
      BY DEF TypeOK
    <3>2. pc[r] # "idle"
      BY <1>2 DEF ReadEvidence, ReadAudit
    <3>3. form[r].clause \in Clauses
      BY <3>2 DEF TypeOK
    <3> QED BY <3>1, <3>3 DEF Form
  <2>3. form' = [form EXCEPT ![r] = f]
    BY <2>1
  <2> HIDE DEF f
  <2> QED BY <1>2, <2>2, <2>3 DEF ReadEvidence, ReadAudit, TypeOK, PCs
<1>3. CASE ReadRecord(r)
  <2>1. form[r].clause \in Clauses \cup {NoClause}
    BY DEF TypeOK, Form
  <2> QED BY ZenonT(60), <1>3, <2>1 DEF ReadRecord, TypeOK, Form, PCs, ReviewRecord
<1>4. CASE ReadHistory(r)
  <2>1. form[r].clause \in Clauses
    BY <1>4 DEF ReadHistory, TypeOK
  <2>2. Len(events[form[r].clause]) \in Nat
    BY <2>1 DEF TypeOK
  <2> QED BY ZenonT(60), <1>4, <2>2 DEF ReadHistory, TypeOK, Form, PCs
<1>5. CASE CloseDetail(r)
  BY <1>5 DEF CloseDetail, TypeOK, Form, PCs, BlankForm, REVIEW_STATES
<1> QED BY <1>1, <1>2, <1>3, <1>4, <1>5 DEF View

\* Every step of a decision keeps every variable in its type.
LEMMA TypeDecide ==
    ASSUME TypeOK, NEW r \in Reviewers, Decide(r) PROVE TypeOK'
<1>1. ASSUME NEW target \in REVIEW_STATES, NEW expected \in SentVersions(r),
             Submit(r, target, expected)
      PROVE  TypeOK'
  <2>1. expected \in Nat
    BY DEF SentVersions, TypeOK, Form
  <2> DEFINE b == rows[form[r].clause].result
  <2>2. form[r].clause \in Clauses /\ b \in Results \cup {NoResult}
    BY <1>1 DEF Submit, TypeOK, Row
  <2> DEFINE f == [form[r] EXCEPT !.result = b, !.target = target,
                                  !.expected = expected]
  <2>3. f \in Form /\ f.clause \in Clauses
    BY <1>1, <2>1, <2>2 DEF Submit, TypeOK, Form
  <2>4. form' = [form EXCEPT ![r] = f]
    BY <1>1, <2>2 DEF Submit, TypeOK, Form
  <2> HIDE DEF f
  <2> QED BY ZenonT(60), <1>1, <2>3, <2>4 DEF Submit, TypeOK, PCs
<1>2. CASE SubmitMissing(r)
  BY <1>2 DEF SubmitMissing, TypeOK, Form, PCs, BlankForm, REVIEW_STATES
<1>3. CASE LockAndWrite(r)
  BY <1>3 DEF LockAndWrite, TypeOK, PCs
<1>4. CASE LockAndReject(r)
  BY <1>4 DEF LockAndReject, TypeOK, Form, PCs, BlankForm, REVIEW_STATES
<1>5. CASE Commit(r)
  <2> DEFINE c == form[r].clause
  <2>1. c \in Clauses
    BY <1>5 DEF Commit, TypeOK
  <2>2. form[r].result.status \in Statuses
    BY ResultType DEF TypeOK, Form
  <2>3. DecidedRecord(reviews[c], form[r]) \in ReviewRecord
    <3>1. form[r] \in Form /\ reviews[c] \in ReviewRecord
      BY <2>1 DEF TypeOK
    <3> DEFINE o == IF reviews[c].version = 0 THEN form[r].result.status
                    ELSE reviews[c].original
    <3>2. o \in Originals
      BY <2>2, <3>1 DEF ReviewRecord, Originals
    <3>3. form[r].target \in REVIEW_STATES /\ form[r].expected + 1 \in Nat
      BY <3>1 DEF Form
    <3>4. DecidedRecord(reviews[c], form[r]) =
            [state |-> form[r].target, version |-> form[r].expected + 1,
             original |-> o]
      BY DEF DecidedRecord
    <3> HIDE DEF o
    <3> QED BY <3>2, <3>3, <3>4 DEF ReviewRecord
  <2>4. DecisionEvent(r) \in Event
    <3>1. form[r] \in Form
      BY DEF TypeOK
    <3> QED BY <3>1 DEF DecisionEvent, Event, Form
  <2>5. reviews' \in [Clauses -> ReviewRecord]
    BY <1>5, <2>3 DEF Commit, TypeOK
  <2>6. events' \in [Clauses -> Seq(Event)]
    BY <1>5, <2>1, <2>4 DEF Commit, TypeOK
  <2> QED BY <1>5, <2>5, <2>6
          DEF Commit, TypeOK, Form, PCs, BlankForm, REVIEW_STATES
<1>6. CASE RollBack(r)
  BY <1>6 DEF RollBack, TypeOK, Form, PCs, BlankForm, REVIEW_STATES
<1>7. CASE ClosingRead(r)
  BY <1>7 DEF ClosingRead, TypeOK, PCs
<1> QED BY <1>1, <1>2, <1>3, <1>4, <1>5, <1>6, <1>7 DEF Decide

\* Every reachable state is well typed.
THEOREM TypeCorrect == Spec => []TypeOK
<1>1. TypeOK /\ [Next]_vars => TypeOK'
  <2> SUFFICES ASSUME TypeOK, [Next]_vars PROVE TypeOK'
    OBVIOUS
  <2>1. CASE Save
    BY <2>1, TypeSave
  <2>2. ASSUME NEW r \in Reviewers, View(r) PROVE TypeOK'
    BY <2>2, TypeView
  <2>3. ASSUME NEW r \in Reviewers, Decide(r) PROVE TypeOK'
    BY <2>3, TypeDecide
  <2>4. CASE UNCHANGED vars
    BY <2>4 DEF vars, TypeOK
  <2> QED BY <2>1, <2>2, <2>3, <2>4 DEF Next
<1> QED BY TypeInit, <1>1, PTL DEF Spec

-----------------------------------------------------------------------------
(* The inductive invariant *)

\* The initial state satisfies the inductive invariant.
LEMMA InvInit == Init => IInv
<1> SUFFICES ASSUME Init PROVE IInv
  OBVIOUS
<1>1. TypeOK
  BY TypeInit
<1>2. \A c \in Clauses : /\ reviews[c].version = 0
                         /\ reviews[c].state = "needs_review"
                         /\ events[c] = <<>>
                         /\ rows[c].id = 0
  BY DEF Init, NoRecord, NoRow
<1>3. \A r \in Reviewers : pc[r] = "idle"
  BY DEF Init
<1>4. VersionCountsEvents /\ LegalHistory /\ DecisionsAreInformed
  BY <1>2 DEF VersionCountsEvents, LegalHistory, DecisionsAreInformed
<1>5. RequiredIsQueued /\ NoRecordIsBlank
  BY <1>2 DEF RequiredIsQueued, NoRecordIsBlank
<1>6. LockInv /\ \A r \in Reviewers : SessionInv(r)
  BY <1>3 DEF LockInv, SessionInv, Locking
<1> QED BY <1>1, <1>4, <1>5, <1>6 DEF IInv

\* The part of the invariant that speaks of the tables alone.
TableInv ==
    /\ VersionCountsEvents
    /\ LegalHistory
    /\ DecisionsAreInformed
    /\ RequiredIsQueued
    /\ NoRecordIsBlank

\* A step that leaves the tables alone keeps what is said of them.
LEMMA TablesUnchanged ==
    ASSUME TableInv, UNCHANGED <<rows, reviews, events>>
    PROVE  TableInv'
BY DEF TableInv, VersionCountsEvents, LegalHistory, DecisionsAreInformed,
       RequiredIsQueued, NoRecordIsBlank

\* One client moves to a place before its writes and leaves the tables alone:
\* the invariant is kept if the client's own session invariant is.
LEMMA ClientMoves ==
    ASSUME IInv, TypeOK', NEW r \in Reviewers, NEW p \in PCs, NEW f,
           UNCHANGED <<rows, reviews, events>>,
           pc' = [pc EXCEPT ![r] = p], form' = [form EXCEPT ![r] = f],
           p \notin Locking,
           p \in {"history", "form", "deciding"} =>
               f.version <= reviews[f.clause].version,
           p \in {"form", "deciding"} => f.version <= f.seen + 1,
           p = "deciding" => /\ f.expected \in {f.version, 0}
                             /\ Required(f.result) => reviews[f.clause].version # 0
    PROVE  IInv'
<1>1. /\ pc'[r] = p /\ form'[r] = f
      /\ \A q \in Reviewers \ {r} : pc'[q] = pc[q] /\ form'[q] = form[q]
  BY DEF IInv, TypeOK
<1>2. ASSUME NEW q \in Reviewers \ {r} PROVE SessionInv(q)'
  <2>1. SessionInv(q)
    BY DEF IInv
  <2> QED BY <1>1, <2>1 DEF SessionInv
<1>3. SessionInv(r)'
  BY <1>1 DEF SessionInv
<1>4. LockInv'
  BY <1>1 DEF IInv, LockInv
<1>5. TableInv'
  BY TablesUnchanged DEF IInv, TableInv
<1> QED BY <1>2, <1>3, <1>4, <1>5 DEF IInv, TableInv

\* Loading and closing a detail view.
LEMMA InvView ==
    ASSUME IInv, NEW r \in Reviewers, View(r) PROVE IInv'
<1>1. TypeOK /\ TypeOK' /\ SessionInv(r) /\ form[r] \in Form
  BY TypeView DEF IInv, TypeOK
<1>2. ASSUME NEW c \in Clauses, OpenDetail(r, c) PROVE IInv'
  <2> DEFINE f == [BlankForm EXCEPT !.clause = c, !.row = rows[c].id]
  <2>1. form' = [form EXCEPT ![r] = f] /\ pc' = [pc EXCEPT ![r] = "evidence"]
    BY <1>2 DEF OpenDetail
  <2> HIDE DEF f
  <2> QED BY <1>1, <1>2, <2>1, ClientMoves DEF OpenDetail, PCs, Locking
<1>3. CASE ReadEvidence(r)
  <2> DEFINE f == [form[r] EXCEPT !.attached = RowIsCurrent(r)]
  <2>1. form' = [form EXCEPT ![r] = f] /\ pc' = [pc EXCEPT ![r] = "audit"]
    BY <1>3 DEF ReadEvidence
  <2> HIDE DEF f
  <2> QED BY <1>1, <1>3, <2>1, ClientMoves DEF ReadEvidence, PCs, Locking
<1>7. CASE ReadAudit(r)
  <2> DEFINE f == [form[r] EXCEPT !.attached = (@ /\ RowIsCurrent(r))]
  <2>1. form' = [form EXCEPT ![r] = f] /\ pc' = [pc EXCEPT ![r] = "record"]
    BY <1>1, <1>7 DEF ReadAudit, TypeOK
  <2> HIDE DEF f
  <2> QED BY <1>1, <1>7, <2>1, ClientMoves DEF ReadAudit, PCs, Locking
<1>4. CASE ReadRecord(r)
  <2> DEFINE f == [form[r] EXCEPT !.version = reviews[form[r].clause].version]
  <2>1. form' = [form EXCEPT ![r] = f] /\ pc' = [pc EXCEPT ![r] = "history"]
    BY <1>4 DEF ReadRecord
  <2>2. f.clause = form[r].clause /\ f.version = reviews[f.clause].version
    BY <1>1 DEF Form
  <2>3. f.version <= reviews[f.clause].version
    BY <1>1, <1>4, <2>2 DEF ReadRecord, TypeOK, ReviewRecord
  <2> HIDE DEF f
  <2> QED BY <1>1, <1>4, <2>1, <2>3, ClientMoves DEF ReadRecord, PCs, Locking
<1>5. CASE ReadHistory(r)
  <2> DEFINE c == form[r].clause
             f == [form[r] EXCEPT !.seen = IF form[r].version = 0 THEN 0
                                           ELSE Len(events[c])]
  <2>1. form' = [form EXCEPT ![r] = f] /\ pc' = [pc EXCEPT ![r] = "form"]
    BY <1>5 DEF ReadHistory
  <2>2. c \in Clauses /\ form[r].version <= reviews[c].version
    BY <1>1, <1>5 DEF ReadHistory, SessionInv, TypeOK
  <2>3. /\ f.clause = c /\ f.version = form[r].version
        /\ f.seen = IF form[r].version = 0 THEN 0 ELSE Len(events[c])
    BY <1>1 DEF Form
  <2>4. /\ reviews[c].version \in Nat /\ form[r].version \in Nat
        /\ Len(events[c]) \in Nat
    BY <1>1, <2>2 DEF TypeOK, ReviewRecord, Form
  <2>5. reviews[c].version <= Len(events[c]) + 1
    BY <2>2, <2>4 DEF IInv, VersionCountsEvents
  <2>6. f.version <= f.seen + 1
    BY <2>2, <2>3, <2>4, <2>5
  <2>7. f.version <= reviews[f.clause].version
    BY <2>2, <2>3
  <2> HIDE DEF f, c
  <2> QED BY <1>1, <1>5, <2>1, <2>6, <2>7, ClientMoves DEF ReadHistory, PCs, Locking
<1>6. CASE CloseDetail(r)
  BY <1>1, <1>6, ClientMoves DEF CloseDetail, PCs, Locking
<1> QED BY <1>2, <1>3, <1>4, <1>5, <1>6, <1>7 DEF View

\* A transaction that holds its record's lock has checked the record as it is,
\* and its author has been shown every decision before its own.
LEMMA HolderFacts ==
    ASSUME IInv, NEW r \in Reviewers, pc[r] \in Locking
    PROVE  LET c == form[r].clause
               n == Len(events[c])
           IN  /\ c \in Clauses
               /\ n \in Nat
               /\ reviews[c].version = n + 1 /\ form[r].expected = n + 1
               /\ form[r].seen >= n
               /\ validate_transition(reviews[c].state, form[r].target)
<1> DEFINE c == form[r].clause
           n == Len(events[c])
<1>1. TypeOK /\ SessionInv(r) /\ form[r] \in Form
  BY DEF IInv, TypeOK
<1>2. /\ c \in Clauses /\ n \in Nat
      /\ reviews[c] \in ReviewRecord /\ events[c] \in Seq(Event)
  BY <1>1 DEF TypeOK, Locking
<1>3. /\ Accepts(reviews[c], form[r])
      /\ Required(form[r].result) => reviews[c].version # 0
  BY <1>1 DEF SessionInv
<1>4. reviews[c].version # 0
  BY <1>3 DEF Accepts
<1>5. reviews[c].version = n + 1
  BY <1>2, <1>4 DEF IInv, VersionCountsEvents
<1>6. form[r].expected = n + 1
  BY <1>3, <1>5 DEF Accepts, VersionMatches
<1>7. form[r].version = n + 1 /\ form[r].version <= form[r].seen + 1
  BY <1>1, <1>2, <1>6 DEF SessionInv
<1>8. form[r].seen >= n
  BY <1>1, <1>2, <1>7 DEF Form
<1>9. validate_transition(reviews[c].state, form[r].target)
  BY <1>3 DEF Accepts
<1> QED BY <1>2, <1>5, <1>6, <1>8, <1>9

\* A commit appends to the log of its clause what its lock and its checks
\* guarantee, and touches no other clause.
LEMMA CommitEffect ==
    ASSUME IInv, NEW r \in Reviewers, Commit(r)
    PROVE  LET c == form[r].clause
               n == Len(events[c])
           IN  /\ c \in Clauses
               /\ n \in Nat
               /\ reviews[c].version = n + 1
               /\ validate_transition(reviews[c].state, form[r].target)
               /\ reviews'[c].version = n + 2
               /\ reviews'[c].state = form[r].target
               /\ \A d \in Clauses \ {c} : /\ reviews'[d] = reviews[d]
                                            /\ events'[d] = events[d]
               /\ Len(events'[c]) = n + 1
               /\ \A i \in 1..n : events'[c][i] = events[c][i]
               /\ events'[c][n + 1].state = form[r].target
               /\ events'[c][n + 1].version = n + 1
               /\ events'[c][n + 1].seen >= n
<1> DEFINE c == form[r].clause
           n == Len(events[c])
<1>1. TypeOK /\ form[r] \in Form /\ pc[r] = "committing"
  BY DEF IInv, TypeOK, Commit
<1>2. /\ c \in Clauses /\ n \in Nat
      /\ reviews[c] \in ReviewRecord /\ events[c] \in Seq(Event)
  BY <1>1 DEF TypeOK
<1>6. /\ reviews[c].version = n + 1 /\ form[r].expected = n + 1
      /\ form[r].seen >= n
      /\ validate_transition(reviews[c].state, form[r].target)
  BY <1>1, HolderFacts DEF Locking
<1>10. /\ reviews'[c].version = n + 2 /\ reviews'[c].state = form[r].target
       /\ \A d \in Clauses \ {c} : reviews'[d] = reviews[d]
  BY <1>1, <1>2, <1>6 DEF Commit, DecidedRecord, TypeOK
<1>11. DecisionEvent(r) \in Event
  BY <1>1 DEF DecisionEvent, Event, Form
<1>12. /\ events'[c] = Append(events[c], DecisionEvent(r))
       /\ \A d \in Clauses \ {c} : events'[d] = events[d]
  BY <1>1, <1>2 DEF Commit, TypeOK
<1>13. /\ Len(events'[c]) = n + 1
       /\ \A i \in 1..n : events'[c][i] = events[c][i]
       /\ events'[c][n + 1] = DecisionEvent(r)
  BY <1>2, <1>11, <1>12
<1>14. /\ DecisionEvent(r).state = form[r].target
       /\ DecisionEvent(r).version = n + 1
       /\ DecisionEvent(r).seen >= n
  BY <1>6 DEF DecisionEvent
<1> QED BY <1>2, <1>6, <1>10, <1>12, <1>13, <1>14

\* A commit keeps the table properties: it adds one allowed, informed event.
LEMMA CommitTables ==
    ASSUME IInv, NEW r \in Reviewers, Commit(r) PROVE TableInv'
<1> DEFINE c == form[r].clause
           n == Len(events[c])
<1>1. /\ c \in Clauses /\ n \in Nat
      /\ reviews[c].version = n + 1
      /\ validate_transition(reviews[c].state, form[r].target)
      /\ reviews'[c].version = n + 2
      /\ reviews'[c].state = form[r].target
      /\ \A d \in Clauses \ {c} : /\ reviews'[d] = reviews[d]
                                   /\ events'[d] = events[d]
      /\ Len(events'[c]) = n + 1
      /\ \A i \in 1..n : events'[c][i] = events[c][i]
      /\ events'[c][n + 1].state = form[r].target
      /\ events'[c][n + 1].version = n + 1
      /\ events'[c][n + 1].seen >= n
  BY CommitEffect
<1>2. n = Len(events[c])
  OBVIOUS
<1>3. rows' = rows
  BY DEF Commit
<1> HIDE DEF c, n
<1>4. VersionCountsEvents'
  <2> SUFFICES ASSUME NEW d \in Clauses
               PROVE  reviews'[d].version = IF reviews'[d].version = 0
                                            THEN Len(events'[d])
                                            ELSE Len(events'[d]) + 1
    BY DEF VersionCountsEvents
  <2>1. CASE d = c
    BY <1>1, <2>1
  <2>2. CASE d # c
    BY <1>1, <2>2 DEF IInv, VersionCountsEvents
  <2> QED BY <2>1, <2>2
<1>5. LegalHistory'
  <2> DEFINE before(d, i) == IF i = 1 THEN "needs_review"
                             ELSE events[d][i-1].state
             after(d, i) == IF i = 1 THEN "needs_review"
                            ELSE events'[d][i-1].state
  <2>1. \A i \in 1..n + 1 : after(c, i) = before(c, i)
    BY <1>1
  <2>2. /\ \A i \in 1..n : validate_transition(before(c, i), events[c][i].state)
        /\ reviews[c].state = before(c, n + 1)
    BY <1>1, <1>2 DEF IInv, LegalHistory
  <2>3. ASSUME NEW i \in 1..n + 1
        PROVE  validate_transition(after(c, i), events'[c][i].state)
    <3>1. CASE i \in 1..n
      BY <1>1, <2>1, <2>2, <3>1
    <3>2. CASE i = n + 1
      BY <1>1, <2>1, <2>2, <3>2
    <3> QED BY <1>1, <3>1, <3>2
  <2>4. reviews'[c].state = after(c, n + 2)
    BY <1>1
  <2>5. ASSUME NEW d \in Clauses
        PROVE  /\ \A i \in 1..Len(events'[d]) :
                      validate_transition(after(d, i), events'[d][i].state)
               /\ reviews'[d].state = after(d, Len(events'[d]) + 1)
    <3>1. CASE d = c
      BY <1>1, <2>3, <2>4, <3>1
    <3>2. CASE d # c
      BY <1>1, <3>2 DEF IInv, LegalHistory
    <3> QED BY <3>1, <3>2
  <2> QED BY <2>5 DEF LegalHistory
<1>6. DecisionsAreInformed'
  <2>1. ASSUME NEW i \in 1..n + 1
        PROVE  events'[c][i].version = i /\ events'[c][i].seen >= i - 1
    <3>1. CASE i \in 1..n
      BY <1>1, <1>2, <3>1 DEF IInv, DecisionsAreInformed
    <3>2. CASE i = n + 1
      BY <1>1, <3>2
    <3> QED BY <1>1, <3>1, <3>2
  <2> QED BY <1>1, <2>1 DEF IInv, DecisionsAreInformed
<1>7. RequiredIsQueued'
  <2>1. \A d \in Clauses : reviews[d].version # 0 => reviews'[d].version # 0
    BY <1>1
  <2> QED BY <1>3, <2>1 DEF IInv, RequiredIsQueued
<1>8. NoRecordIsBlank'
  BY <1>1 DEF IInv, NoRecordIsBlank
<1> QED BY <1>4, <1>5, <1>6, <1>7, <1>8 DEF TableInv

\* A commit keeps the invariant: other writers hold other records, and a
\* version that advances breaks nothing a client has loaded.
LEMMA InvCommit ==
    ASSUME IInv, NEW r \in Reviewers, Commit(r) PROVE IInv'
<1> DEFINE c == form[r].clause
<1>1. TypeOK /\ TypeOK'
  BY TypeDecide DEF IInv, Decide
<1>2. TableInv'
  BY CommitTables
<1>3. /\ c \in Clauses
      /\ reviews'[c].version = reviews[c].version + 1
      /\ reviews[c].version \in Nat
      /\ \A d \in Clauses \ {c} : reviews'[d] = reviews[d]
  BY <1>1, CommitEffect DEF TypeOK, ReviewRecord
<1>4. /\ pc[r] = "committing"
      /\ pc'[r] = "idle"
      /\ \A q \in Reviewers \ {r} : pc'[q] = pc[q] /\ form'[q] = form[q]
  BY <1>1 DEF Commit, TypeOK
<1> HIDE DEF c
<1>5. ASSUME NEW q \in Reviewers PROVE SessionInv(q)'
  <2>1. CASE q = r
    BY <1>4, <2>1 DEF SessionInv, Locking
  <2>2. CASE q # r /\ form[q].clause = c
    <3>1. pc[q] \notin Locking
      BY <1>4, <2>2 DEF IInv, LockInv, Locking, c
    <3>2. SessionInv(q) /\ form[q].version \in Nat
      BY <1>1 DEF IInv, TypeOK, Form
    <3> QED BY <1>3, <1>4, <2>2, <3>1, <3>2 DEF SessionInv
  <2>3. CASE q # r /\ form[q].clause # c
    <3>1. SessionInv(q)
      BY DEF IInv
    <3>2. pc[q] # "idle" => reviews'[form[q].clause] = reviews[form[q].clause]
      BY <1>1, <1>3, <2>3 DEF TypeOK
    <3> QED BY <1>4, <2>3, <3>1, <3>2 DEF SessionInv, Locking
  <2> QED BY <2>1, <2>2, <2>3
<1>6. LockInv'
  BY <1>4 DEF IInv, LockInv, Locking
<1> QED BY <1>1, <1>2, <1>5, <1>6 DEF IInv, TableInv

\* Every step of a decision.
LEMMA InvDecide ==
    ASSUME IInv, NEW r \in Reviewers, Decide(r) PROVE IInv'
<1>1. TypeOK /\ TypeOK' /\ SessionInv(r) /\ form[r] \in Form
  BY TypeDecide DEF IInv, TypeOK
<1>2. ASSUME NEW target \in REVIEW_STATES, NEW expected \in SentVersions(r),
             Submit(r, target, expected)
      PROVE  IInv'
  <2> DEFINE c == form[r].clause
             f == [form[r] EXCEPT !.result = rows[c].result,
                                  !.target = target, !.expected = expected]
  <2>1. form' = [form EXCEPT ![r] = f] /\ pc' = [pc EXCEPT ![r] = "deciding"]
    BY <1>2 DEF Submit
  <2>2. /\ f.clause = c /\ f.version = form[r].version /\ f.seen = form[r].seen
        /\ f.expected = expected /\ f.result = rows[c].result
    BY <1>1 DEF Form
  <2>3. c \in Clauses /\ rows[c].id # 0 /\ pc[r] = "form"
    BY <1>1, <1>2 DEF Submit, TypeOK
  <2>4. Required(f.result) => reviews[f.clause].version # 0
    BY <2>2, <2>3 DEF IInv, RequiredIsQueued, Required
  <2>5. f.expected \in {f.version, 0}
    BY <2>2 DEF SentVersions
  <2>6. /\ f.version <= reviews[f.clause].version
        /\ f.version <= f.seen + 1
    BY <1>1, <2>2, <2>3 DEF SessionInv
  <2> HIDE DEF f
  <2> QED BY <1>1, <1>2, <2>1, <2>4, <2>5, <2>6, ClientMoves DEF Submit, PCs, Locking
<1>3. CASE SubmitMissing(r)
  BY <1>1, <1>3, ClientMoves DEF SubmitMissing, PCs, Locking
<1>4. CASE LockAndWrite(r)
  <2>1. /\ pc[r] = "deciding" /\ pc'[r] = "writing" /\ form' = form
        /\ \A q \in Reviewers \ {r} : pc'[q] = pc[q]
        /\ UNCHANGED <<rows, reviews, events>>
    BY <1>1, <1>4 DEF LockAndWrite, TypeOK
  <2>2. TableInv'
    BY <2>1, TablesUnchanged DEF IInv, TableInv
  <2>3. ASSUME NEW q \in Reviewers PROVE SessionInv(q)'
    <3>1. SessionInv(q)
      BY DEF IInv
    <3>2. CASE q = r
      BY <1>4, <2>1, <3>1, <3>2 DEF SessionInv, LockAndWrite
    <3>3. CASE q # r
      BY <2>1, <3>1, <3>3 DEF SessionInv
    <3> QED BY <3>2, <3>3
  <2>4. LockInv'
    BY <1>4, <2>1 DEF IInv, LockInv, LockAndWrite, LockFree
  <2> QED BY <1>1, <2>2, <2>3, <2>4 DEF IInv, TableInv
<1>5. CASE LockAndReject(r)
  BY <1>1, <1>5, ClientMoves DEF LockAndReject, PCs, Locking
<1>8. CASE ClosingRead(r)
  <2>1. PICK p \in {"committing", "failing"} : pc' = [pc EXCEPT ![r] = p]
    BY <1>8 DEF ClosingRead
  <2>2. /\ pc[r] \in Locking /\ pc'[r] \in Locking /\ form' = form
        /\ \A q \in Reviewers \ {r} : pc'[q] = pc[q]
        /\ UNCHANGED <<rows, reviews, events>>
    BY <1>1, <1>8, <2>1 DEF ClosingRead, TypeOK, Locking
  <2>3. TableInv'
    BY <2>2, TablesUnchanged DEF IInv, TableInv
  <2>4. ASSUME NEW q \in Reviewers PROVE SessionInv(q)'
    <3>1. SessionInv(q)
      BY DEF IInv
    <3>2. CASE q = r
      BY <2>2, <3>1, <3>2 DEF SessionInv
    <3>3. CASE q # r
      BY <2>2, <3>1, <3>3 DEF SessionInv
    <3> QED BY <3>2, <3>3
  <2>5. LockInv'
    BY <2>2 DEF IInv, LockInv
  <2> QED BY <1>1, <2>3, <2>4, <2>5 DEF IInv, TableInv
<1>6. CASE Commit(r)
  BY <1>6, InvCommit
<1>7. CASE RollBack(r)
  BY <1>1, <1>7, ClientMoves DEF RollBack, PCs, Locking
<1> QED BY <1>2, <1>3, <1>4, <1>5, <1>6, <1>7, <1>8 DEF Decide

\* A save opens records that were missing and keeps those that exist.
LEMMA SaveEffect ==
    ASSUME IInv, Save
    PROVE  /\ UNCHANGED <<events, pc, form>>
           /\ \A c \in Clauses :
                 \/ reviews'[c] = reviews[c]
                 \/ /\ reviews[c].version = 0
                    /\ reviews'[c].version = 1
                    /\ reviews'[c].state = "needs_review"
           /\ \A c \in Clauses :
                 rows'[c].id # 0 /\ Required(rows'[c].result) =>
                     reviews'[c].version # 0
<1>1. ASSUME NEW report \in Reports, SaveReport(report)
      PROVE  /\ \A c \in Clauses :
                 \/ reviews'[c] = reviews[c]
                 \/ /\ reviews[c].version = 0
                    /\ reviews'[c].version = 1
                    /\ reviews'[c].state = "needs_review"
             /\ \A c \in Clauses :
                 rows'[c].id # 0 /\ Required(rows'[c].result) =>
                     reviews'[c].version # 0
  BY <1>1 DEF SaveReport, OpenedRecord, NoRow
<1>2. CASE SaveRejected
  BY <1>2 DEF SaveRejected, IInv, RequiredIsQueued, Required
<1> QED BY <1>1, <1>2 DEF Save, SaveReport, SaveRejected

\* A save keeps the invariant.
LEMMA InvSave == IInv /\ Save => IInv'
<1> SUFFICES ASSUME IInv, Save PROVE IInv'
  OBVIOUS
<1>1. TypeOK /\ TypeOK'
  BY TypeSave DEF IInv
<1>2. /\ UNCHANGED <<events, pc, form>>
      /\ \A c \in Clauses :
            \/ reviews'[c] = reviews[c]
            \/ /\ reviews[c].version = 0
               /\ reviews'[c].version = 1
               /\ reviews'[c].state = "needs_review"
      /\ RequiredIsQueued'
  BY SaveEffect DEF RequiredIsQueued, Required
<1>3. \A c \in Clauses : events[c] \in Seq(Event) /\ reviews[c].version \in Nat
  BY <1>1 DEF TypeOK, ReviewRecord
<1>4. VersionCountsEvents' /\ NoRecordIsBlank'
  BY <1>2, <1>3 DEF IInv, VersionCountsEvents, NoRecordIsBlank
<1>5. LegalHistory'
  BY <1>2, <1>3 DEF IInv, LegalHistory, NoRecordIsBlank
<1>6. DecisionsAreInformed' /\ LockInv'
  BY <1>2 DEF IInv, DecisionsAreInformed, LockInv
<1>7. ASSUME NEW r \in Reviewers PROVE SessionInv(r)'
  <2>1. SessionInv(r) /\ form[r].version \in Nat
    BY <1>1 DEF IInv, TypeOK, Form
  <2>2. pc[r] # "idle" => form[r].clause \in Clauses
    BY <1>1 DEF TypeOK
  <2> QED BY <1>2, <1>3, <2>1, <2>2 DEF SessionInv, Accepts, Locking
<1> QED BY <1>1, <1>2, <1>4, <1>5, <1>6, <1>7 DEF IInv

\* The inductive invariant holds in every reachable state.
THEOREM Invariance == Spec => []IInv
<1>1. IInv /\ [Next]_vars => IInv'
  <2> SUFFICES ASSUME IInv, [Next]_vars PROVE IInv'
    OBVIOUS
  <2>1. CASE Save
    BY <2>1, InvSave
  <2>2. ASSUME NEW r \in Reviewers, View(r) PROVE IInv'
    BY <2>2, InvView
  <2>3. ASSUME NEW r \in Reviewers, Decide(r) PROVE IInv'
    BY <2>3, InvDecide
  <2>4. CASE UNCHANGED vars
    <3>1. TableInv'
      BY <2>4, TablesUnchanged DEF vars, IInv, TableInv
    <3>2. TypeOK' /\ LockInv' /\ \A r \in Reviewers : SessionInv(r)'
      BY <2>4 DEF vars, IInv, TypeOK, LockInv, SessionInv
    <3> QED BY <3>1, <3>2 DEF IInv, TableInv
  <2> QED BY <2>1, <2>2, <2>3, <2>4 DEF Next
<1> QED BY InvInit, <1>1, PTL DEF Spec

-----------------------------------------------------------------------------
(* What the runs check, for every value of the constants *)

\* Every decision is counted once: version and audit log agree.
THEOREM VersionsAreEventCounts == Spec => []VersionCountsEvents
BY Invariance, PTL DEF IInv

\* The audit log of every clause is a legal path to its current state.
THEOREM HistoriesAreLegal == Spec => []LegalHistory
BY Invariance, PTL DEF IInv

\* No decision was made on a version its author had not seen.
THEOREM NoLostUpdate == Spec => []DecisionsAreInformed
BY Invariance, PTL DEF IInv

\* A stored review-required clause always has its review record.
THEOREM QueueIsComplete == Spec => []RequiredIsQueued
BY Invariance, PTL DEF IInv

\* The only steps that touch the tables are a save and a commit.
LEMMA TableSteps ==
    ASSUME [Next]_vars
    PROVE  \/ Save
           \/ \E r \in Reviewers : Commit(r)
           \/ UNCHANGED <<rows, reviews, events>>
BY DEF Next, View, OpenDetail, ReadEvidence, ReadAudit, ReadRecord,
       ReadHistory, CloseDetail, Decide, Submit, SubmitMissing, LockAndWrite,
       LockAndReject, ClosingRead, RollBack, vars

\* The audit log is append-only, records move forward, final states are final.
THEOREM AppendOnly == Spec => HistoryIsAppendOnly
<1> DEFINE P(c) == /\ Len(events'[c]) >= Len(events[c])
                   /\ \A i \in 1..Len(events[c]) : events'[c][i] = events[c][i]
                   /\ reviews'[c].version >= reviews[c].version
                   /\ reviews[c].state \in FinalStates => reviews'[c] = reviews[c]
<1>1. ASSUME IInv, [Next]_vars PROVE \A c \in Clauses : P(c)
  <2>1. \A c \in Clauses : /\ events[c] \in Seq(Event)
                           /\ reviews[c].version \in Nat
                           /\ reviews[c].state \in REVIEW_STATES
    BY <1>1 DEF IInv, TypeOK, ReviewRecord
  <2>2. \A c \in Clauses : Len(events[c]) \in Nat
    BY <2>1
  <2>3. CASE UNCHANGED <<rows, reviews, events>>
    BY <2>1, <2>2, <2>3
  <2>4. CASE Save
    <3>1. /\ events' = events
          /\ \A c \in Clauses :
                \/ reviews'[c] = reviews[c]
                \/ /\ reviews[c].version = 0
                   /\ reviews'[c].version = 1
      BY <1>1, <2>4, SaveEffect
    <3>2. \A c \in Clauses :
              reviews[c].version = 0 => reviews[c].state \notin FinalStates
      BY <1>1 DEF IInv, NoRecordIsBlank, FinalStates
    <3> QED BY <2>1, <2>2, <3>1, <3>2
  <2>5. ASSUME NEW r \in Reviewers, Commit(r) PROVE \A c \in Clauses : P(c)
    <3> DEFINE c == form[r].clause
               n == Len(events[c])
    <3>1. /\ c \in Clauses /\ n \in Nat
          /\ reviews[c].version = n + 1
          /\ validate_transition(reviews[c].state, form[r].target)
          /\ reviews'[c].version = n + 2
          /\ \A d \in Clauses \ {c} : /\ reviews'[d] = reviews[d]
                                       /\ events'[d] = events[d]
          /\ Len(events'[c]) = n + 1
          /\ \A i \in 1..n : events'[c][i] = events[c][i]
      BY <1>1, <2>5, CommitEffect
    <3>2. reviews[c].state \notin FinalStates
      BY <2>1, <3>1 DEF validate_transition, ALLOWED_TRANSITIONS, FinalStates,
                        REVIEW_STATES
    <3>3. P(c)
      BY <3>1, <3>2
    <3> HIDE DEF c, n
    <3>4. ASSUME NEW d \in Clauses \ {c} PROVE P(d)
      BY <2>1, <2>2, <3>1
    <3> QED BY <3>3, <3>4
  <2> QED BY <1>1, <2>3, <2>4, <2>5, TableSteps
<1>2. IInv /\ [Next]_vars => [\A c \in Clauses : P(c)]_vars
  BY <1>1
<1> QED BY Invariance, <1>2, PTL DEF Spec, HistoryIsAppendOnly

\* Saves and decisions do not disturb each other's tables.
THEOREM ResaveIsHarmless == Spec => ResaveKeepsReviews
<1> DEFINE P == rows' # rows =>
                  /\ events' = events
                  /\ \A c \in Clauses :
                        reviews[c].version # 0 => reviews'[c] = reviews[c]
<1>1. ASSUME IInv, [Next]_vars PROVE P
  <2>1. CASE Save
    BY <1>1, <2>1, SaveEffect
  <2>2. ASSUME NEW r \in Reviewers, Commit(r) PROVE P
    BY <2>2 DEF Commit
  <2> QED BY <1>1, <2>1, <2>2, TableSteps
<1>2. IInv /\ [Next]_vars => [P]_vars
  BY <1>1
<1> QED BY Invariance, <1>2, PTL DEF Spec, ResaveKeepsReviews

-----------------------------------------------------------------------------
(* The workflow implements the abstract lifecycle *)

\* The refinement mapping of ReviewWorkflow, named.
AbsState == [c \in Clauses |->
                IF reviews[c].version = 0 THEN "absent" ELSE reviews[c].state]

AbsHistory == [c \in Clauses |->
                  [i \in 1..Len(events[c]) |-> events[c][i].state]]

\* A commit is one abstract decision.
LEMMA CommitDecides ==
    ASSUME IInv, NEW r \in Reviewers, Commit(r)
    PROVE  Lifecycle!Next
<1> DEFINE c == form[r].clause
           n == Len(events[c])
           t == form[r].target
<1>1. /\ c \in Clauses /\ n \in Nat
      /\ reviews[c].version = n + 1
      /\ validate_transition(reviews[c].state, t)
      /\ reviews'[c].version = n + 2
      /\ reviews'[c].state = t
      /\ \A d \in Clauses \ {c} : /\ reviews'[d] = reviews[d]
                                   /\ events'[d] = events[d]
      /\ Len(events'[c]) = n + 1
      /\ \A i \in 1..n : events'[c][i] = events[c][i]
      /\ events'[c][n + 1].state = t
  BY CommitEffect
<1>2. t \in REVIEW_STATES
  BY DEF IInv, TypeOK, Form
<1>3. n = Len(events[c])
  OBVIOUS
<1>4. reviews[c].state \in REVIEW_STATES /\ "absent" \notin REVIEW_STATES
  BY <1>1 DEF IInv, TypeOK, ReviewRecord, REVIEW_STATES
<1>5. \A d \in Clauses : \A i \in 1..Len(events[d]) :
          events[d][i].state \in REVIEW_STATES
  <2>1. \A d \in Clauses : events[d] \in Seq(Event)
    BY DEF IInv, TypeOK
  <2>2. \A d \in Clauses : \A i \in 1..Len(events[d]) : events[d][i] \in Event
    BY <2>1
  <2> QED BY <2>2 DEF Event
<1> HIDE DEF c, n, t
<1>6. AbsState' = [AbsState EXCEPT ![c] = t]
  <2>1. AbsState'[c] = t
    BY <1>1 DEF AbsState
  <2>2. \A d \in Clauses \ {c} : AbsState'[d] = AbsState[d]
    BY <1>1 DEF AbsState
  <2> QED BY <2>1, <2>2 DEF AbsState
<1>7. AbsHistory' = [AbsHistory EXCEPT ![c] = Append(@, t)]
  <2>1. AbsHistory'[c] = Append(AbsHistory[c], t)
    <3>1. AbsHistory[c] \in Seq(REVIEW_STATES) /\ Len(AbsHistory[c]) = n
      BY <1>1, <1>3, <1>5 DEF AbsHistory
    <3>2. AbsHistory'[c] = [i \in 1..(n + 1) |-> events'[c][i].state]
      BY <1>1 DEF AbsHistory
    <3>3. \A i \in 1..n : AbsHistory[c][i] = events[c][i].state
      BY <1>1, <1>3 DEF AbsHistory
    <3> QED BY <1>1, <1>2, <3>1, <3>2, <3>3
  <2>2. \A d \in Clauses \ {c} : AbsHistory'[d] = AbsHistory[d]
    BY <1>1 DEF AbsHistory
  <2> QED BY <2>1, <2>2 DEF AbsHistory
<1>8. Lifecycle!Decide(c, t)
  BY <1>1, <1>4, <1>6, <1>7
     DEF Lifecycle!Decide, AbsState, AbsHistory, Lifecycle!validate_transition,
         validate_transition, Lifecycle!ALLOWED_TRANSITIONS,
         ALLOWED_TRANSITIONS, Lifecycle!REVIEW_STATES, REVIEW_STATES,
         Lifecycle!FinalStates, FinalStates
<1>9. c \in Clauses /\ t \in Lifecycle!REVIEW_STATES
  BY <1>1, <1>2 DEF Lifecycle!REVIEW_STATES, REVIEW_STATES
<1> QED BY <1>8, <1>9, Zenon DEF Lifecycle!Next, Lifecycle!Decide

\* A save opens the reviews whose records it creates.
LEMMA SaveOpens == IInv /\ Save => Lifecycle!Next
<1> SUFFICES ASSUME IInv, Save PROVE Lifecycle!Next
  OBVIOUS
<1> DEFINE C == {c \in Clauses : reviews[c].version = 0 /\ reviews'[c].version # 0}
<1>1. /\ events' = events
      /\ \A c \in Clauses :
            \/ reviews'[c] = reviews[c]
            \/ /\ reviews[c].version = 0
               /\ reviews'[c].version = 1
               /\ reviews'[c].state = "needs_review"
  BY SaveEffect
<1>2. \A c \in Clauses :
          reviews[c].state \in REVIEW_STATES /\ "absent" \notin REVIEW_STATES
  BY DEF IInv, TypeOK, ReviewRecord, REVIEW_STATES
<1>3. AbsHistory' = AbsHistory
  BY <1>1 DEF AbsHistory
<1>4. AbsState' = [c \in Clauses |->
                      IF c \in C /\ AbsState[c] = "absent"
                      THEN "needs_review" ELSE AbsState[c]]
  BY <1>1, <1>2 DEF AbsState
<1>5. Lifecycle!Open(C)
  BY <1>3, <1>4 DEF Lifecycle!Open, AbsState, AbsHistory
<1>6. C \in SUBSET Clauses
  OBVIOUS
<1> HIDE DEF C
<1> QED BY <1>5, <1>6, Zenon DEF Lifecycle!Next, Lifecycle!Open

\* Every behaviour of the workflow is a behaviour of the abstract lifecycle.
THEOREM Refinement == Spec => ImplementsLifecycle
<1>1. Init => Lifecycle!Init
  <2> SUFFICES ASSUME Init PROVE Lifecycle!Init
    OBVIOUS
  <2>1. \A c \in Clauses : reviews[c].version = 0 /\ events[c] = <<>>
    BY DEF Init, NoRecord
  <2>2. AbsState = [c \in Clauses |-> "absent"]
    BY <2>1 DEF AbsState
  <2>3. \A c \in Clauses : AbsHistory[c] = <<>>
    BY <2>1 DEF AbsHistory
  <2>4. AbsHistory = [c \in Clauses |-> <<>>]
    BY <2>3 DEF AbsHistory
  <2> QED BY <2>2, <2>4 DEF Lifecycle!Init, AbsState, AbsHistory
<1>2. ASSUME IInv, [Next]_vars PROVE [Lifecycle!Next]_(Lifecycle!vars)
  <2>1. CASE Save
    BY <1>2, <2>1, SaveOpens
  <2>2. ASSUME NEW r \in Reviewers, Commit(r) PROVE Lifecycle!Next
    BY <1>2, <2>2, CommitDecides
  <2>3. CASE UNCHANGED <<rows, reviews, events>>
    BY <2>3 DEF Lifecycle!vars
  <2> QED BY <1>2, <2>1, <2>2, <2>3, TableSteps
<1>3. IInv /\ [Next]_vars => [Lifecycle!Next]_(Lifecycle!vars)
  BY <1>2
<1> QED BY <1>1, <1>3, Invariance, PTL
        DEF Spec, ImplementsLifecycle, Lifecycle!Spec

-----------------------------------------------------------------------------
(* Saves and decisions take effect as calls to the repository of the tests *)

\* The refinement mapping of ReviewWorkflow, named.
AbsStored == [c \in Clauses |->
                 IF rows[c].id = 0 THEN [status |-> "", verification |-> ""]
                 ELSE rows[c].result]

Projected(log) == [i \in 1..Len(log) |-> [state    |-> log[i].state,
                                          reviewer |-> log[i].reviewer]]

AbsEvents == [c \in Clauses |-> Projected(EffectiveEvents[c])]

\* What an event becomes at the end of a log, it becomes alone.
LEMMA ProjectedAppend ==
    ASSUME NEW log \in Seq(Event), NEW ev \in Event
    PROVE  Projected(Append(log, ev)) =
               Append(Projected(log), [state    |-> ev.state,
                                       reviewer |-> ev.reviewer])
<1> DEFINE n == Len(log)
           old == Projected(log)
           e == [state |-> ev.state, reviewer |-> ev.reviewer]
           S == [state : REVIEW_STATES, reviewer : Reviewers]
           longer == Append(log, ev)
           new == Projected(longer)
           app == Append(old, e)
<1>1. n \in Nat /\ e \in S /\ \A i \in 1..n : log[i] \in Event
  <2>1. e \in S
    BY DEF Event
  <2>2. n \in Nat /\ \A i \in 1..n : log[i] \in Event
    OBVIOUS
  <2> QED BY <2>1, <2>2
<1>2. old \in Seq(S) /\ Len(old) = n
  BY <1>1 DEF Projected, Event
<1>3. /\ longer \in Seq(Event) /\ Len(longer) = n + 1
      /\ \A i \in 1..n : longer[i] = log[i]
      /\ longer[n + 1] = ev
  BY AppendProperties
<1>4. new = [i \in 1..(n + 1) |-> IF i = n + 1 THEN e ELSE old[i]]
  <2>1. \A i \in 1..n : longer[i] = log[i] /\ i # n + 1 /\ i \in 1..Len(log)
    BY <1>1, <1>3
  <2>2. \A i \in 1..n : old[i] = [state    |-> log[i].state,
                                  reviewer |-> log[i].reviewer]
    BY DEF Projected
  <2>3. new = [i \in 1..(n + 1) |-> [state    |-> longer[i].state,
                                     reviewer |-> longer[i].reviewer]]
    BY <1>3 DEF Projected
  <2>4. \A i \in 1..(n + 1) : i = n + 1 \/ i \in 1..n
    BY <1>1
  <2> HIDE DEF longer, new, n, old
  <2>5. \A i \in 1..(n + 1) : [state    |-> longer[i].state,
                               reviewer |-> longer[i].reviewer] =
                              IF i = n + 1 THEN e ELSE old[i]
    BY <1>3, <2>1, <2>2, <2>4
  <2> HIDE DEF e
  <2> QED BY <2>3, <2>5
<1>5. app = [i \in 1..(n + 1) |-> IF i = n + 1 THEN e ELSE old[i]]
  <2> HIDE DEF old, e, n, S
  <2>1. /\ app \in Seq(S) /\ Len(app) = n + 1
        /\ \A i \in 1..n : app[i] = old[i]
        /\ app[n + 1] = e
    BY <1>1, <1>2, AppendProperties DEF S
  <2> HIDE DEF app
  <2>2. app = [i \in 1..(n + 1) |-> app[i]]
    BY <1>1, <2>1
  <2>3. \A i \in 1..(n + 1) : app[i] = IF i = n + 1 THEN e ELSE old[i]
    BY <1>1, <2>1
  <2> QED BY <2>2, <2>3
<1> QED BY <1>4, <1>5

\* The decision that is bound to be committed on a clause is that of the one
\* transaction that holds its lock.
LEMMA PendingHolder ==
    ASSUME IInv, NEW c \in Clauses, NEW r \in Reviewers,
           pc[r] \in Locking, form[r].clause = c
    PROVE  /\ pc[r] = "committing" => Pending(c) = {r} /\ Author(c) = r
           /\ pc[r] # "committing" => Pending(c) = {}
<1>1. \A q \in Pending(c) : q = r
  BY DEF IInv, LockInv, Pending, Locking
<1> QED BY <1>1 DEF Pending, Author

\* A step that commits nothing, and leaves what is bound to be committed alone,
\* is not seen by the double.
LEMMA QuietStep ==
    ASSUME UNCHANGED <<rows, reviews, events>>,
           \A q \in Reviewers :
              /\ pc'[q] = "committing" <=> pc[q] = "committing"
              /\ pc[q] = "committing" => form'[q] = form[q]
    PROVE  UNCHANGED <<AbsStored, EffectiveReviews, AbsEvents>>
<1>1. \A c \in Clauses : Pending(c)' = Pending(c)
  BY DEF Pending
<1>2. \A c \in Clauses : Author(c)' = Author(c)
  BY <1>1 DEF Author
<1>3. ASSUME NEW c \in Clauses, Pending(c) # {}
      PROVE  Author(c) \in Reviewers /\ form'[Author(c)] = form[Author(c)]
  <2>1. Author(c) \in Pending(c)
    BY <1>3 DEF Author
  <2> QED BY <2>1 DEF Pending
<1>4. EffectiveReviews' = EffectiveReviews
  BY <1>1, <1>2, <1>3 DEF EffectiveReviews, DecidedRecord
<1>5. EffectiveEvents' = EffectiveEvents
  BY <1>1, <1>2, <1>3 DEF EffectiveEvents, DecisionEvent
<1>6. AbsEvents' = AbsEvents
  BY <1>5 DEF AbsEvents, Projected
<1>7. AbsStored' = AbsStored
  BY DEF AbsStored
<1> QED BY <1>4, <1>6, <1>7

\* The steps the double does not see.
LEMMA UnseenSteps ==
    ASSUME TypeOK, [Next]_vars
    PROVE  \/ \E report \in Reports : SaveReport(report)
           \/ \E r \in Reviewers : ClosingRead(r) \/ Commit(r)
           \/ UNCHANGED <<AbsStored, EffectiveReviews, AbsEvents>>
<1> DEFINE Quiet == /\ UNCHANGED <<rows, reviews, events>>
                    /\ \A q \in Reviewers :
                          /\ pc'[q] = "committing" <=> pc[q] = "committing"
                          /\ pc[q] = "committing" => form'[q] = form[q]
<1>1. ASSUME NEW r \in Reviewers, View(r) PROVE Quiet
  <2>1. /\ UNCHANGED <<rows, reviews, events>>
        /\ pc[r] # "committing" /\ pc'[r] # "committing"
        /\ \A q \in Reviewers \ {r} : pc'[q] = pc[q] /\ form'[q] = form[q]
    BY <1>1 DEF View, OpenDetail, ReadEvidence, ReadAudit, ReadRecord,
                ReadHistory, CloseDetail, TypeOK
  <2> QED BY <2>1
<1>2. ASSUME NEW r \in Reviewers, Decide(r), ~ClosingRead(r), ~Commit(r)
      PROVE  Quiet
  <2>1. /\ UNCHANGED <<rows, reviews, events>>
        /\ pc[r] # "committing" /\ pc'[r] # "committing"
        /\ \A q \in Reviewers \ {r} : pc'[q] = pc[q] /\ form'[q] = form[q]
    BY <1>2 DEF Decide, Submit, SubmitMissing, LockAndWrite, LockAndReject,
                RollBack, TypeOK
  <2> QED BY <2>1
<1>3. CASE SaveRejected
  BY <1>3, QuietStep DEF SaveRejected
<1>4. CASE UNCHANGED vars
  BY <1>4, QuietStep DEF vars
<1> HIDE DEF Quiet
<1>5. Quiet => UNCHANGED <<AbsStored, EffectiveReviews, AbsEvents>>
  BY QuietStep DEF Quiet
<1> QED BY <1>1, <1>2, <1>3, <1>4, <1>5 DEF Next, Save

\* A save is the same save of the double: a record with a decision bound to be
\* committed is there already, and is kept.
LEMMA SaveIsDoubles ==
    ASSUME IInv, NEW report \in Reports, SaveReport(report)
    PROVE  Double!Next
<1>1. nextId # 0
  BY DEF IInv, TypeOK
<1>2. \A c \in Clauses :
          AbsStored'[c] = IF c \in DOMAIN report THEN report[c]
                          ELSE [status |-> "", verification |-> ""]
  BY <1>1 DEF SaveReport, AbsStored, NoRow
<1>3. AbsStored' = [c \in Clauses |-> IF c \in DOMAIN report THEN report[c]
                                      ELSE [status |-> "", verification |-> ""]]
  BY <1>2 DEF AbsStored
<1>4. /\ UNCHANGED <<events, pc, form>>
      /\ \A c \in Clauses :
            /\ Pending(c)' = Pending(c) /\ Author(c)' = Author(c)
            /\ DecisionEvent(Author(c))' = DecisionEvent(Author(c))
  BY DEF SaveReport, Pending, Author, DecisionEvent
<1>5. AbsEvents' = AbsEvents
  <2>1. EffectiveEvents' = EffectiveEvents
    BY <1>4 DEF EffectiveEvents
  <2> QED BY <2>1 DEF AbsEvents, Projected
<1>6. EffectiveReviews' =
          [c \in Clauses |->
              IF c \in DOMAIN report /\ Double!Required(report[c])
              THEN Double!Opened(EffectiveReviews[c], report[c])
              ELSE EffectiveReviews[c]]
  <2>1. ASSUME NEW c \in Clauses
        PROVE  EffectiveReviews'[c] =
                   IF c \in DOMAIN report /\ Double!Required(report[c])
                   THEN Double!Opened(EffectiveReviews[c], report[c])
                   ELSE EffectiveReviews[c]
    <3>1. CASE Pending(c) = {}
      <4>1. /\ EffectiveReviews[c] = reviews[c]
            /\ EffectiveReviews'[c] = reviews'[c]
        BY <1>4, <3>1 DEF EffectiveReviews
      <4> QED BY <4>1 DEF SaveReport, OpenedRecord, Required,
                          Double!Opened, Double!Required
    <3>2. CASE Pending(c) # {}
      <4> DEFINE r == Author(c)
      <4>1. /\ r \in Reviewers /\ pc[r] = "committing" /\ form[r].clause = c
        BY <3>2 DEF Author, Pending
      <4> HIDE DEF r
      <4>2. /\ Len(events[c]) \in Nat
            /\ reviews[c].version = Len(events[c]) + 1
            /\ form[r].expected = Len(events[c]) + 1
        BY <4>1, HolderFacts DEF Locking
      <4>3. reviews[c].version # 0
        BY <4>2
      <4>4. reviews'[c] = reviews[c]
        BY <4>3 DEF SaveReport, OpenedRecord
      <4>5. /\ EffectiveReviews[c] = DecidedRecord(reviews[c], form[r])
            /\ EffectiveReviews'[c] = DecidedRecord(reviews'[c], form'[r])
        BY <1>4, <3>2 DEF EffectiveReviews, r
      <4>6. EffectiveReviews[c].version # 0
        BY <4>2, <4>5 DEF DecidedRecord
      <4>7. EffectiveReviews'[c] = EffectiveReviews[c]
        BY <1>4, <4>4, <4>5
      <4> QED BY <4>6, <4>7 DEF Double!Opened
    <3> QED BY <3>1, <3>2
  <2> QED BY <2>1 DEF EffectiveReviews
<1>7. Double!SaveReport(report)
  BY <1>3, <1>5, <1>6
     DEF Double!SaveReport, Double!NotStored, AbsStored, AbsEvents, Projected
<1>8. report \in Double!Reports
  BY DEF Reports, Double!Reports
<1> QED BY <1>7, <1>8, Zenon DEF Double!Next

\* A decision takes effect at its closing read, when the clause is there: it is
\* the transition of the double that its request asks for.
LEMMA ClosingReadIsDoubles ==
    ASSUME IInv, NEW r \in Reviewers, ClosingRead(r)
    PROVE  Double!Next \/ UNCHANGED <<AbsStored, EffectiveReviews, AbsEvents>>
<1> DEFINE c == form[r].clause
           t == form[r].target
           v == EffectiveReviews[c].version
<1>1. /\ pc[r] = "writing" /\ rows[c].id # 0
      /\ UNCHANGED <<rows, reviews, events, form>>
      /\ TypeOK
  BY DEF ClosingRead, IInv
<1>2. PICK p \in {"committing", "failing"} : pc' = [pc EXCEPT ![r] = p]
  BY DEF ClosingRead
<1>3. pc'[r] = p /\ \A q \in Reviewers \ {r} : pc'[q] = pc[q]
  BY <1>1, <1>2 DEF TypeOK
<1>4. CASE p = "failing"
  <2>1. \A q \in Reviewers : pc'[q] = "committing" <=> pc[q] = "committing"
    BY <1>1, <1>3, <1>4
  <2> QED BY <1>1, <2>1, QuietStep
<1>5. CASE p = "committing"
  <2>1. /\ c \in Clauses /\ Len(events[c]) \in Nat
        /\ reviews[c].version = Len(events[c]) + 1
        /\ form[r].expected = Len(events[c]) + 1
        /\ validate_transition(reviews[c].state, t)
    BY <1>1, HolderFacts DEF Locking
  <2>2. t \in REVIEW_STATES /\ form[r] \in Form
    BY <1>1 DEF TypeOK, Form
  <2>3. Pending(c) = {}
    BY <1>1, <2>1, PendingHolder DEF Locking
  <2>4. Pending(c)' = {r}
    <3>1. \A q \in Reviewers \ {r} : ~(pc[q] = "committing" /\ form[q].clause = c)
      BY <2>3 DEF Pending
    <3> QED BY <1>1, <1>3, <1>5, <3>1 DEF Pending
  <2>5. Author(c)' = r
    BY <2>4 DEF Author
  <2>6. ASSUME NEW d \in Clauses \ {c}
        PROVE  Pending(d)' = Pending(d) /\ Author(d)' = Author(d)
    <3>1. Pending(d)' = Pending(d)
      BY <1>1, <1>3 DEF Pending
    <3> QED BY <3>1 DEF Author
  <2>7. /\ EffectiveReviews[c] = reviews[c]
        /\ EffectiveEvents[c] = events[c]
        /\ EffectiveReviews'[c] = DecidedRecord(reviews[c], form[r])
        /\ EffectiveEvents'[c] = Append(events[c], DecisionEvent(r))
    BY <1>1, <2>1, <2>3, <2>4, <2>5
       DEF EffectiveReviews, EffectiveEvents, DecisionEvent
  <2>8. \A d \in Clauses \ {c} : /\ EffectiveReviews'[d] = EffectiveReviews[d]
                                  /\ EffectiveEvents'[d] = EffectiveEvents[d]
    BY <1>1, <2>6 DEF EffectiveReviews, EffectiveEvents, DecisionEvent
  <2>9. v = form[r].expected /\ v # 0 /\ EffectiveReviews[c].state = reviews[c].state
    BY <2>1, <2>7
  <2>10. AbsStored[c] # [status |-> "", verification |-> ""]
    <3>1. AbsStored[c] = rows[c].result
      BY <1>1, <2>1 DEF AbsStored
    <3>2. rows[c].result.status \in Statuses
      BY <1>1, <2>1, ResultType DEF TypeOK, Row
    <3>3. [status |-> "", verification |-> ""].status \notin Statuses
      BY DEF Statuses
    <3> QED BY <3>1, <3>2, <3>3
  <2>11. EffectiveReviews' = [EffectiveReviews EXCEPT ![c] =
            [state |-> t, version |-> v + 1,
             original |-> IF @.version = 0 THEN AbsStored[c].status
                          ELSE @.original]]
    <3>1. EffectiveReviews'[c] =
             [state |-> t, version |-> v + 1,
              original |-> IF EffectiveReviews[c].version = 0
                           THEN AbsStored[c].status
                           ELSE EffectiveReviews[c].original]
      BY <2>7, <2>9 DEF DecidedRecord
    <3> HIDE DEF c, t
    <3>2. /\ DOMAIN EffectiveReviews = Clauses
          /\ EffectiveReviews' = [d \in Clauses |-> EffectiveReviews'[d]]
      BY DEF EffectiveReviews
    <3> QED BY <2>1, <2>8, <3>1, <3>2
  <2>12. AbsEvents' = [AbsEvents EXCEPT ![c] =
                          Append(@, [state |-> t, reviewer |-> r])]
    <3>1. events[c] \in Seq(Event)
      BY <1>1, <2>1 DEF TypeOK
    <3>2. /\ DecisionEvent(r) \in Event
          /\ DecisionEvent(r).state = t /\ DecisionEvent(r).reviewer = r
      BY <2>2 DEF DecisionEvent, Event, Form
    <3>3. Projected(Append(events[c], DecisionEvent(r))) =
              Append(Projected(events[c]), [state |-> t, reviewer |-> r])
      BY <3>1, <3>2, ProjectedAppend
    <3>4. /\ AbsEvents[c] = Projected(events[c])
          /\ AbsEvents'[c] = Projected(Append(events[c], DecisionEvent(r)))
      BY <2>1, <2>7 DEF AbsEvents, Projected
    <3>5. \A d \in Clauses \ {c} : AbsEvents'[d] = AbsEvents[d]
      BY <2>8 DEF AbsEvents, Projected
    <3> HIDE DEF c, t
    <3>6. DOMAIN AbsEvents = Clauses /\ AbsEvents' = [d \in Clauses |-> AbsEvents'[d]]
      BY DEF AbsEvents
    <3> QED BY <2>1, <3>3, <3>4, <3>5, <3>6
  <2>13. AbsStored' = AbsStored
    BY <1>1 DEF AbsStored
  <2>14. Double!MayMove(c, t)
    <3>1. Double!validate_transition(EffectiveReviews[c].state, t)
      BY <2>1, <2>9
         DEF Double!validate_transition, validate_transition,
             Double!ALLOWED_TRANSITIONS, ALLOWED_TRANSITIONS,
             Double!REVIEW_STATES, REVIEW_STATES, Double!FinalStates, FinalStates
    <3> QED BY <2>9, <2>10, <3>1 DEF Double!MayMove, Double!NotStored, AbsStored
  <2>15. Double!Transition(c, r, t, v)
    BY <2>11, <2>12, <2>13, <2>14
       DEF Double!Transition, AbsStored, AbsEvents, Projected
  <2>16. c \in Clauses /\ t \in Double!REVIEW_STATES
    BY <2>1, <2>2 DEF Double!REVIEW_STATES, REVIEW_STATES
  <2> HIDE DEF c, t
  <2>17. \E target \in Double!REVIEW_STATES :
            Double!Transition(c, r, target, EffectiveReviews[c].version)
    BY <2>15, <2>16, Zenon DEF Double!Transition
  <2> QED BY <2>16, <2>17, Zenon DEF Double!Next, Double!Transition
<1> QED BY <1>4, <1>5

\* A commit only makes visible what took effect at the closing read, whether or
\* not the clause is still there.
LEMMA CommitIsUnseen ==
    ASSUME IInv, NEW r \in Reviewers, Commit(r)
    PROVE  UNCHANGED <<AbsStored, EffectiveReviews, AbsEvents>>
<1>1. TypeOK /\ pc[r] = "committing" /\ rows' = rows
  BY DEF Commit, IInv
<1>0. PICK c \in Clauses : c = form[r].clause
  BY <1>1 DEF TypeOK
<1>2. Pending(c) = {r} /\ Author(c) = r
  BY <1>0, <1>1, PendingHolder DEF Locking
<1>3. /\ pc'[r] = "idle"
      /\ \A q \in Reviewers \ {r} : pc'[q] = pc[q] /\ form'[q] = form[q]
  BY <1>1 DEF Commit, TypeOK
<1>4. /\ reviews'[c] = DecidedRecord(reviews[c], form[r])
      /\ events'[c] = Append(events[c], DecisionEvent(r))
      /\ \A d \in Clauses \ {c} : reviews'[d] = reviews[d] /\ events'[d] = events[d]
  BY <1>0, <1>1 DEF Commit, TypeOK
<1>5. Pending(c)' = {}
  <2>1. \A q \in Reviewers \ {r} : ~(pc[q] = "committing" /\ form[q].clause = c)
    BY <1>2 DEF Pending
  <2> QED BY <1>3, <2>1 DEF Pending
<1>6. ASSUME NEW d \in Clauses \ {c}
      PROVE  /\ Pending(d)' = Pending(d) /\ Author(d)' = Author(d)
             /\ Pending(d) # {} => form'[Author(d)] = form[Author(d)]
  <2>1. Pending(d)' = Pending(d)
    BY <1>0, <1>3 DEF Pending
  <2>2. Pending(d) # {} => Author(d) \in Pending(d)
    BY DEF Author
  <2>3. r \notin Pending(d)
    BY <1>0 DEF Pending
  <2>4. Pending(d) # {} => form'[Author(d)] = form[Author(d)]
    BY <1>3, <2>2, <2>3 DEF Pending
  <2> QED BY <2>1, <2>4 DEF Author
<1>7. EffectiveReviews' = EffectiveReviews
  <2>1. EffectiveReviews'[c] = EffectiveReviews[c]
    BY <1>2, <1>4, <1>5 DEF EffectiveReviews
  <2>2. \A d \in Clauses \ {c} : EffectiveReviews'[d] = EffectiveReviews[d]
    BY <1>4, <1>6 DEF EffectiveReviews
  <2> QED BY <2>1, <2>2 DEF EffectiveReviews
<1>8. EffectiveEvents' = EffectiveEvents
  <2>1. EffectiveEvents'[c] = EffectiveEvents[c]
    BY <1>2, <1>4, <1>5 DEF EffectiveEvents
  <2>2. \A d \in Clauses \ {c} : EffectiveEvents'[d] = EffectiveEvents[d]
    BY <1>4, <1>6 DEF EffectiveEvents, DecisionEvent
  <2> QED BY <2>1, <2>2 DEF EffectiveEvents
<1>9. AbsEvents' = AbsEvents
  BY <1>8 DEF AbsEvents, Projected
<1> QED BY <1>1, <1>7, <1>9 DEF AbsStored

\* Concurrent saves and decisions take effect one after the other, each at one
\* instant between its request and its answer, as calls to the repository the
\* tests run against.
THEOREM DoubleRefinement == Spec => ImplementsDouble
<1>1. Init => Double!Init
  <2> SUFFICES ASSUME Init PROVE Double!Init
    OBVIOUS
  <2>1. \A c \in Clauses : /\ rows[c].id = 0 /\ events[c] = <<>>
                           /\ Pending(c) = {} /\ reviews[c] = NoRecord
    BY DEF Init, NoRow, Pending
  <2>2. AbsStored = [c \in Clauses |-> [status |-> "", verification |-> ""]]
    BY <2>1 DEF AbsStored
  <2>3. \A c \in Clauses : EffectiveEvents[c] = <<>>
    BY <2>1 DEF EffectiveEvents
  <2>4. \A c \in Clauses : AbsEvents[c] = <<>>
    BY <2>3 DEF AbsEvents, Projected
  <2>5. AbsEvents = [c \in Clauses |-> <<>>]
    BY <2>4 DEF AbsEvents
  <2>6. EffectiveReviews = [c \in Clauses |-> Double!NoRecord]
    BY <2>1 DEF EffectiveReviews, NoRecord, Double!NoRecord
  <2> QED BY <2>2, <2>5, <2>6
          DEF Double!Init, Double!NotStored, AbsStored, AbsEvents, Projected
<1>2. ASSUME IInv, [Next]_vars PROVE [Double!Next]_(Double!vars)
  <2>1. UNCHANGED <<AbsStored, EffectiveReviews, AbsEvents>> => UNCHANGED Double!vars
    BY DEF Double!vars, AbsStored, AbsEvents, Projected
  <2>2. ASSUME NEW report \in Reports, SaveReport(report) PROVE Double!Next
    BY <1>2, <2>2, SaveIsDoubles
  <2>3. ASSUME NEW r \in Reviewers, ClosingRead(r)
        PROVE  [Double!Next]_(Double!vars)
    BY <1>2, <2>1, <2>3, ClosingReadIsDoubles
  <2>4. ASSUME NEW r \in Reviewers, Commit(r) PROVE UNCHANGED Double!vars
    BY <1>2, <2>1, <2>4, CommitIsUnseen
  <2>5. TypeOK
    BY <1>2 DEF IInv
  <2> QED BY <1>2, <2>1, <2>2, <2>3, <2>4, <2>5, UnseenSteps
<1>3. IInv /\ [Next]_vars => [Double!Next]_(Double!vars)
  BY <1>2
<1> QED BY <1>1, <1>3, Invariance, PTL
        DEF Spec, ImplementsDouble, Double!Spec
=============================================================================

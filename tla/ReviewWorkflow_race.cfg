\* Two reviewers race on one clause while its analysis is saved twice.
SPECIFICATION FairSpec
CONSTANTS
    Clauses = {c1}
    Reviewers = {r1, r2}
    Results <- MCResults
    NoClause = NoClause
    MaxSaves = 2
INVARIANTS
    TypeOK
    VersionCountsEvents
    LegalHistory
    DecisionsAreInformed
    RequiredIsQueued
PROPERTIES
    ResaveKeepsReviews
    HistoryIsAppendOnly
    ImplementsLifecycle
    ImplementsDouble
    DecisionIsAnswered
\* With no save left, a last report without clauses leaves nothing to open.
CHECK_DEADLOCK FALSE

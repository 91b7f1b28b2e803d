\* A run that has one clause twice, and only one place in the semaphore, beside an
\* API request of a similar clause, while the regulation is amended.
SPECIFICATION FairSpec
CONSTANTS
    r1 = r1
    r2 = r2
    j1 = j1
    j2 = j2
    j3 = j3
    c1 = c1
    c2 = c2
    x = x
    Runs = {r1, r2}
    ApiRuns = {r2}
    Jobs = {j1, j2, j3}
    RunOf <- MCThreeRunOf
    Clauses = {c1, c2}
    ClauseOf <- MCThreeClauses
    Suspicious = {}
    Similar <- MCSimilar
    Citations = {x}
    TitleOf <- MCTitleOf
    Rules <- MCRules
    MaxVersion = 2
    Permits = 1
    NoCitation = NoCitation
    Unloaded = Unloaded
INVARIANTS
    TypeOK
    PlacesAddUp
    ReuseIsGrounded
    RulesPrevailWhenSpecific
    PrecedentsAreGrounded
PROPERTIES
    EveryRunEnds
\* Every run ends.
CHECK_DEADLOCK FALSE

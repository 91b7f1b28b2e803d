\* A verdict on outdated text is reused against the current rules.
SPECIFICATION Spec
CONSTANTS
    r1 = r1
    r2 = r2
    j1 = j1
    j2 = j2
    j3 = j3
    c1 = c1
    c2 = c2
    x = x
    Runs = {r1, r2}
    ApiRuns = {}
    Jobs = {j1, j2}
    RunOf <- MCTwoRunOf
    Clauses = {c1}
    ClauseOf <- MCSameClause
    Suspicious = {}
    Similar = {}
    Citations = {x}
    TitleOf <- MCTitleOf
    Rules <- MCLaterRules
    MaxVersion = 2
    Permits = 1
    NoCitation = NoCitation
    Unloaded = Unloaded
INVARIANTS
    AuthorityHierarchy
\* Every run ends.
CHECK_DEADLOCK FALSE

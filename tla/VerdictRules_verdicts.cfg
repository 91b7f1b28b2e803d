\* Every pair of a clause and a regulation made of the words of MCVerdictRules.
SPECIFICATION Spec
CONSTANTS
    Topics = {"waste"}
    Numbers <- MCNumbers
    Within <- MCWithin
    Named <- MCNamed
    Malformed = {"257 ("}
    Scopes <- MCScopes
    ClauseTexts <- MCClauseTexts
    RegulationTexts <- MCRegulationTexts
    None = None
INVARIANTS
    TypeOK
    HighestConfidenceWins
    ViolationsPrevail
    ConflictOnlyAfterRaise
    VerifiedIsGrounded
\* An evaluation ends.
CHECK_DEADLOCK FALSE

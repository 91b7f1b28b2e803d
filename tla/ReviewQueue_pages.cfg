\* A queue of up to three records, read one row at a time while it changes.
SPECIFICATION QueueSpec
CONSTANTS
    Clauses = {1, 2, 3}
    Reviewers = {r1}
    Results <- MCResults
    Listed = {"needs_review", "under_review"}
    Limit = 1
    MaxStamp = 2
INVARIANTS
    QueueTypeOK
PROPERTIES
    MissesAreAccounted

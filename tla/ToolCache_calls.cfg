\* Two calls of a tool of each kind over every interleaving with eCFR's answers.
SPECIFICATION Spec
CONSTANTS
    Calls = {c1, c2}
    Tools = {"section", "title", "search"}
    Asked = {None, 1}
    MaxDate = 2
    TTL = 1
    None = None
SYMMETRY CallSymmetry
INVARIANTS
    TypeOK
    CitationIsTrue
PROPERTIES
    FailuresAreUpstream

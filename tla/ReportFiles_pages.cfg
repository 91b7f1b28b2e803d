\* Two processes save, die and save again; a reader goes through the pages.
SPECIFICATION Spec
CONSTANTS
    Processes = {p, q}
    Ids <- MCIds
    Limit = 1
    MaxSaves = 2
    None = None
SYMMETRY Symmetry
INVARIANTS
    TypeOK
    WalkSeesEverything
PROPERTIES
    ReportsNeverGoBack

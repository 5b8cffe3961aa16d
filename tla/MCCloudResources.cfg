SPECIFICATION Spec
CONSTANTS
    Runs = {r1, r2}
    Items = 2
    Selections <- MCTags
    MaxBegins = 3
    MaxDeletes = 1
SYMMETRY MCSymmetry
CHECK_DEADLOCK FALSE
INVARIANTS
    TypeOK
PROPERTIES
    DoneMeansThere
    RetrySucceeds

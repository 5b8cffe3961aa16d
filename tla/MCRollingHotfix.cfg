SPECIFICATION Spec
CONSTANTS
    NHosts = 2
    NRepl = 3
    MaxRuns = 3
    MaxResets = 1
INVARIANTS
    TypeOK
    OneServiceOut
    DoneMeansReplaced
PROPERTIES
    ReplacedStays
    UpgradeSpec
CHECK_DEADLOCK FALSE

SPECIFICATION Spec
CONSTANTS
    Images = {"horizon", "keystone"}
    Releases <- MCReleases
    NoRev = NoRev
    Keys <- MCKeys
    ImageOf <- MCImageOf
    Patched = {"horizon", "keystone"}
    From <- MCFrom
    Replace <- MCReplace
    NoFile = NoFile
    NoForce = NoForce
    Forces = {99}
    MaxPatch = 2
    MaxRuns = 2
CHECK_DEADLOCK FALSE
INVARIANTS
    Stored

SPECIFICATION Spec
CONSTANTS
    ctlplane = ctlplane
    storage = storage
    external = external
    ctl = ctl
    cmp = cmp
    NoCount = NoCount
    Networks <- MCNetworks
    AllocOrder <- MCAllocOrder
    Size = 5
    Skip = 1
    Roles <- MCRoles
    Compute = cmp
    Vips <- MCVips
    MaxVipLen = 2
    Files <- MCFiles
    Counts <- MCCounts
INVARIANT NoDoubleAllocation

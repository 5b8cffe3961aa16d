SPECIFICATION Spec
CONSTANTS
    controller = controller
    compute = compute
    c0 = c0
    n0 = n0
    n1 = n1
    n2 = n2
    NoAddr = NoAddr
    NoHost = NoHost
    Nobody = Nobody
    Roles <- MCRoles
    Controller = controller
    OvercloudRoles <- MCOvercloudRoles
    Hosts <- FewHosts
    Addrs <- MCAddrs
    HomeAddr <- FewHomeAddr
    Tagged = {0}
    MaxEdits = 2
    Movable = {n1}
    Inventories <- FewInventories
    MayReassign = TRUE
    MayFail = TRUE
INVARIANTS
    PlanFromOneLoad
    DeployedAsInventoried

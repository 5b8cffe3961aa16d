SPECIFICATION FairSpec
CONSTANTS
    controller = controller
    compute = compute
    c0 = c0
    n0 = n0
    n1 = n1
    n2 = n2
    NoAddr = NoAddr
    NoHost = NoHost
    Nobody = Nobody
    Roles <- MCRoles
    Controller = controller
    OvercloudRoles <- MCOvercloudRoles
    Hosts <- MCHosts
    Addrs <- MCAddr
    HomeAddr <- MCHomeAddr
    Tagged = {0, 1, 2, 5}
    MaxEdits = 2
    Movable = {}
    Inventories <- MCInventories
    MayReassign = FALSE
    MayFail = TRUE
INVARIANTS
    TypeOK
    PairingSound
PROPERTY
    ServersStay
    DeployEnds

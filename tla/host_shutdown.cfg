SPECIFICATION Spec
CONSTANTS
    Requests = {r1, r2}
    Conns = {c1, c2, c3}
    git = git
    erp = erp
    op = op
    guest = guest
    operator = operator
    viewer = viewer
    Servers <- MCServers
    Users <- MCUsers
    None = None
    Deployments <- Calm
    RolesOf <- MCRolesOf
    CodesOf <- MCCodesOf
    ServerRules <- MCServerRules
    ServerRoles <- MCServerRoles
    ToolRules <- MCToolRules
SYMMETRY Permuted
INVARIANT ShutdownClosesAll

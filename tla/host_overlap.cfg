SPECIFICATION FairSpec
CONSTANTS
    Requests = {r1, r2}
    Conns = {c1, c2}
    git = git
    erp = erp
    op = op
    guest = guest
    operator = operator
    viewer = viewer
    Servers <- MCServers
    Users <- MCUsers
    None = None
    Deployments <- MCDeployments
    RolesOf <- MCRolesOf
    CodesOf <- MCCodesOf
    ServerRules <- MCServerRules
    ServerRoles <- MCServerRoles
    ToolRules <- MCToolRules
INVARIANTS TypeOK TrackedIsOpen SoleOwner CatalogComplete CatalogSound
PROPERTY HandlersEnd

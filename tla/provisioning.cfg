SPECIFICATION FairSpec
CONSTANTS
    web = web
    cli = cli
    Hosts = {web, cli}
    Logins = {l1, l2}
    None = None
    Profiles <- MCProfiles
    Providers <- MCProviders
    DefaultRole <- MCDefaultRole
    SeededRoles <- MCSeededRoles
    DefaultUsers <- MCDefaultUsers
    RulesOf <- MCRulesOf
    Turn <- MCTurn
    Near <- MCNear
INVARIANTS TypeOK AccountsAreWhole ServingIsSeeded
PROPERTIES Implements TransactionsEnd

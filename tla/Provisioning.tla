---------------------------- MODULE Provisioning ----------------------------
(***************************************************************************)
(* The accounts, roles and rules in the database, and who writes them:     *)
(*   infrastructure/configuration.py  DataSeeder.seed, at every start of   *)
(*                                    the web application and of the CLI   *)
(*   security/auth_service.py         login_federated                      *)
(*   persistence/repositories.py      the queries and inserts of both      *)
(*   persistence/database.py          create_schema, session               *)
(*   persistence/entities.py          the unique columns                   *)
(*                                                                         *)
(* A row is a tuple that begins with its table.  The database is MySQL     *)
(* with the isolation it starts with: a transaction reads what was         *)
(* committed at its first query and its own rows.  An insert that meets a  *)
(* unique value of an open transaction waits for its end; one that meets   *)
(* a committed value raises IntegrityError, and the session rolls back.    *)
(* A DELETE of rules locks the rows it finds and the gaps of the index     *)
(* around them, also when it finds none: nobody else inserts there.        *)
(***************************************************************************)
EXTENDS Naturals

CONSTANTS
    Hosts,         \* processes: each seeds when it starts
    Logins,        \* calls of login_federated, in threads of the hosts
    Profiles,      \* verified profiles: [provider, subject, email]
    Providers,     \* configured identity providers
    DefaultRole,   \* provider -> its default_role
    SeededRoles,   \* ROLE_PERMISSIONS
    DefaultUsers,  \* DEFAULT_USERS: [name, email, role]
    RulesOf,       \* host -> the servers and tools of its configuration -> roles
    Turn,          \* "delete" and "insert" -> host -> server or tool -> when it has its turn
    Near,          \* pairs of servers, or of tools, whose rules adjoin in the index
    None

\* An e-mail address is a pair of a local part and a domain.  The username of a
\* profile (_username_from_profile) keeps the provider and the local part.
Username(p) == <<p.provider, p.email[1]>>
Identity(p) == <<p.provider, p.subject>>

Identities == {Identity(p) : p \in Profiles}
Names == {Username(p) : p \in Profiles} \cup {d.name : d \in DefaultUsers}

ASSUME ProvisioningAssumption ==
    /\ Hosts \cap Logins = {}
    /\ None \notin Profiles /\ None \notin Names
    /\ \A d \in DefaultUsers : d.role \in SeededRoles
    /\ \A d \in DefaultUsers, p \in Profiles : d.name # Username(p)
    /\ \A d, e \in DefaultUsers : d.name = e.name \/ d.email = e.email => d = e
    /\ \A k \in {"delete", "insert"}, h \in Hosts : \A s, u \in DOMAIN RulesOf[h] :
          Turn[k][h][s] \in Nat /\ (Turn[k][h][s] = Turn[k][h][u] => s = u)

VARIABLES
    schema,        \* the tables exist
    db,            \* the committed rows
    tx,            \* Hosts and Logins -> the open transaction
    host,          \* Hosts -> where the process is
    login          \* Logins -> where the call is and its locals

vars == <<schema, db, tx, host, login>>

UserRow(n, email) == <<"user", n, email>>
RoleRow(r) == <<"role", r>>
GrantRow(n, r) == <<"grant", <<n, r>>>>
ProviderRow(p) == <<"provider", p>>
IdentityRow(i, n) == <<"identity", i, n>>
RuleRow(s, r) == <<"rule", s, r>>
MixedRow(n) == <<"mixed", n>>       \* the account's auth_source is mixed

Emails == {p.email : p \in Profiles} \cup {d.email : d \in DefaultUsers}
Targets == UNION {DOMAIN RulesOf[h] : h \in Hosts}
Roles == SeededRoles \cup {DefaultRole[p] : p \in Providers}
RoleRows == {RoleRow(r) : r \in SeededRoles}
ProviderRows == {ProviderRow(p) : p \in Providers}
RulesFor(h, s) == {RuleRow(s, r) : r \in RulesOf[h][s]}
ConfiguredRules(h) == UNION {RulesFor(h, s) : s \in DOMAIN RulesOf[h]}
RuleRows == UNION {ConfiguredRules(h) : h \in Hosts}
Rows ==
    {UserRow(n, e) : n \in Names, e \in Emails} \cup {RoleRow(r) : r \in Roles}
    \cup {GrantRow(n, r) : n \in Names, r \in Roles}
    \cup {ProviderRow(p) : p \in Providers}
    \cup {IdentityRow(i, n) : i \in Identities, n \in Names}
    \cup {MixedRow(n) : n \in Names} \cup RuleRows

HostPlaces == {"down", "inspecting", "roles", "users", "rules", "committing", "serving"}
LoginPlaces == {"idle", "creating", "assigning", "linking", "committing", "in"}

TypeOK ==
    /\ schema \in BOOLEAN
    /\ db \in SUBSET Rows
    /\ tx \in [Hosts \cup Logins -> [snap : SUBSET Rows, new : SUBSET Rows,
                                    drops : SUBSET Targets]]
    /\ host \in [Hosts -> HostPlaces]
    /\ login \in [Logins -> [at : LoginPlaces, profile : Profiles \cup {None},
                             account : Names \cup {None}]]

NoTx == [snap |-> {}, new |-> {}, drops |-> {}]
Outside == [at |-> "idle", profile |-> None, account |-> None]

\* A database without tables.
Init ==
    /\ schema = FALSE
    /\ db = {}
    /\ tx = [t \in Hosts \cup Logins |-> NoTx]
    /\ host = [h \in Hosts |-> "down"]
    /\ login = [l \in Logins |-> Outside]

-----------------------------------------------------------------------------
(* Transactions *)

\* The rows a seeding looks for, and a login after its first step.
SeedReads ==
    RoleRows \cup ProviderRows
    \cup UNION {{GrantRow(d.name, d.role)} \cup {UserRow(d.name, e) : e \in Emails} : d \in DefaultUsers}
LoginReads == {RoleRow(r) : r \in Roles}

\* Database.session: the first query fixes what the later ones see; only the
\* rows they look for are kept.
Begins(t, reads) == tx' = [tx EXCEPT ![t] = [NoTx EXCEPT !.snap = db \cap reads]]

View(t) == tx[t].snap \cup tx[t].new

\* The unique columns: a username, an e-mail, a role, a grant, a provider, an
\* identity.
Clashes(x, y) ==
    /\ x[1] = y[1]
    /\ x[2] = y[2] \/ (x[1] = "user" /\ x[3] = y[3])

\* No other open transaction has inserted a unique value of these rows.
Unlocked(t, rows) ==
    \A u \in (Hosts \cup Logins) \ {t} : \A x \in tx[u].new, y \in rows : ~Clashes(x, y)

Duplicate(rows) == \E x \in db, y \in rows : Clashes(x, y)

Adds(t, rows) == tx' = [tx EXCEPT ![t].new = @ \cup rows]

\* Mutant: an error leaves the session open, with the locks of its rows.
RollbackForgotten(t) == UNCHANGED tx

Rollback(t) == tx' = [tx EXCEPT ![t] = NoTx]

\* commit: the rows are visible to whoever begins from now on.  A DELETE of old
\* rules is of the rows committed before it, of any transaction.
Commit(t) ==
    /\ db' = {x \in db : x[1] = "rule" => x[2] \notin tx[t].drops} \cup tx[t].new
    /\ tx' = [tx EXCEPT ![t] = NoTx]

-----------------------------------------------------------------------------
(* Host.initialize: the schema, and the seeding in one transaction *)

HostMoves(h, place) == host' = [host EXCEPT ![h] = place]

Starts(h) ==
    /\ host[h] = "down"
    /\ HostMoves(h, IF schema THEN "roles" ELSE "inspecting")
    /\ IF schema THEN Begins(h, SeedReads) ELSE UNCHANGED tx
    /\ UNCHANGED <<schema, db>>

\* create_all found no tables.  When another process has created one of them in
\* between it raises, and the program ends with a ConfigurationError.
CreatesTables(h) ==
    /\ host[h] = "inspecting"
    /\ \/ /\ ~schema
          /\ schema' = TRUE
          /\ HostMoves(h, "roles")
          /\ Begins(h, SeedReads)
       \/ /\ schema \/ \E g \in Hosts \ {h} : host[g] = "inspecting"
          /\ HostMoves(h, "down")
          /\ UNCHANGED <<schema, tx>>
    /\ UNCHANGED db

\* Mutant: an error of the seeding is logged, and the process goes on to serve.
SeedFailsLogged(h) == Rollback(h) /\ HostMoves(h, "serving")

\* The transaction is rolled back and the program ends.
SeedFails(h) == Rollback(h) /\ HostMoves(h, "down")

\* A get_or_create of the seeding: what the transaction does not see it inserts.
Ensures(h, from, rows, to) ==
    /\ host[h] = from
    /\ Unlocked(h, rows \ View(h))
    /\ IF Duplicate(rows \ View(h)) THEN SeedFails(h)
                                    ELSE Adds(h, rows \ View(h)) /\ HostMoves(h, to)
    /\ UNCHANGED <<schema, db>>

\* get_or_create_role, assign_permissions; a role stands for its permissions.
SeedsRoles(h) == Ensures(h, "roles", RoleRows, "users")

\* _ensure_user: the user, when no row has the name, and the role in any case.
UserRows(t) ==
    {GrantRow(d.name, d.role) : d \in DefaultUsers}
    \cup {UserRow(d.name, d.email) :
            d \in {e \in DefaultUsers : \A x \in Emails : UserRow(e.name, x) \notin View(t)}}
SeedsUsers(h) == Ensures(h, "users", UserRows(h), "rules")

\* Mutant: the old rules are left in place.
UndroppedNone(h) == {}

\* The servers and tools whose rules a seeding has still to delete, and those
\* whose rules it has still to insert.
Undropped(h) == DOMAIN RulesOf[h] \ tx[h].drops
Unwritten(h) == {s \in DOMAIN RulesOf[h] : ~(RulesFor(h, s) \subseteq tx[h].new)}
First(k, h, todo) == {s \in todo : \A u \in todo : Turn[k][h][s] <= Turn[k][h][u]}

\* A DELETE waits for who deleted committed rules of the target or has inserted
\* some; an INSERT for who locked its gap.
KeepsRulesOf(g, s) ==
    \/ s \in tx[g].drops /\ \E x \in db : x[1] = "rule" /\ x[2] = s
    \/ \E x \in tx[g].new : x[1] = "rule" /\ x[2] = s
KeepsGapOf(g, s) == \E u \in tx[g].drops : u = s \/ {u, s} \in Near

\* The next statement of h about rules waits for g.
RulesWait(h, g) ==
    /\ g # h /\ host[h] = "rules"
    /\ \/ \E s \in First("delete", h, Undropped(h)) : KeepsRulesOf(g, s)
       \/ Undropped(h) = {} /\ \E s \in First("insert", h, Unwritten(h)) : KeepsGapOf(g, s)

\* replace_server_access, replace_tool_permissions: each runs its DELETE at once.
DeletesRules(h) ==
    /\ host[h] = "rules"
    /\ \A g \in Hosts : ~RulesWait(h, g)
    /\ \E s \in First("delete", h, Undropped(h)) : tx' = [tx EXCEPT ![h].drops = @ \cup {s}]
    /\ UNCHANGED <<schema, db, host>>

\* Their new rows are only inserted at the next flush, that of the first provider
\* or of the commit.
WritesRules(h) ==
    /\ host[h] = "rules" /\ Undropped(h) = {}
    /\ \A g \in Hosts : ~RulesWait(h, g)
    /\ \E s \in First("insert", h, Unwritten(h)) : Adds(h, RulesFor(h, s))
    /\ UNCHANGED <<schema, db, host>>

\* upsert_provider.
SeedsProviders(h) ==
    /\ Undropped(h) = {} /\ Unwritten(h) = {}
    /\ Ensures(h, "rules", ProviderRows, "committing")

SeedCommits(h) ==
    /\ host[h] = "committing"
    /\ Commit(h)
    /\ HostMoves(h, "serving")
    /\ UNCHANGED schema

Seeding(h) ==
    \/ CreatesTables(h) \/ SeedsRoles(h) \/ SeedsUsers(h) \/ DeletesRules(h) \/ WritesRules(h)
    \/ SeedsProviders(h) \/ SeedCommits(h)

Transacting == {"roles", "users", "rules", "committing"}

\* The database ends the transaction (a circle of waits, also over the rows that
\* updates and foreign keys lock, a wait that took too long, a lost connection),
\* or the process dies.
SeedBreaks(h) ==
    /\ host[h] \in Transacting
    /\ SeedFails(h)
    /\ UNCHANGED <<schema, db>>

\* The process ends; its sessions were in memory.
Stops(h) ==
    /\ host[h] = "serving"
    /\ HostMoves(h, "down")
    /\ UNCHANGED <<schema, db, tx>>

-----------------------------------------------------------------------------
(* AuthenticationService.login_federated, in one transaction of its caller *)

LoginMoves(l, place) == login' = [login EXCEPT ![l].at = place]

\* The call raised: its session is rolled back, and the user may try again.
Fails(l) == Rollback(l) /\ login' = [login EXCEPT ![l] = Outside]

\* The account an identity is linked to, and the one with an e-mail address.
OwnersOf(i, rows) == {n \in Names : IdentityRow(i, n) \in rows}
WithEmail(e, rows) == {n \in Names : UserRow(n, e) \in rows}

\* get_provider, find_identity and find_by_email, of one snapshot; a provider
\* that is not configured raises.  An account found by its e-mail that was local
\* becomes mixed.
Presents(l, p) ==
    /\ login[l].at = "idle"
    /\ \E h \in Hosts : host[h] = "serving"
    /\ ProviderRow(p.provider) \in db
    /\ \/ \E n \in OwnersOf(Identity(p), db) :
             /\ login' = [login EXCEPT ![l] = [at |-> "committing", profile |-> p, account |-> n]]
             /\ Begins(l, LoginReads)
       \/ /\ OwnersOf(Identity(p), db) = {}
          /\ \E n \in WithEmail(p.email, db) :
             /\ login' = [login EXCEPT ![l] = [at |-> "linking", profile |-> p, account |-> n]]
             /\ tx' = [tx EXCEPT ![l] = [NoTx EXCEPT !.new =
                          {MixedRow(d.name) : d \in {x \in DefaultUsers : x.name = n /\ MixedRow(n) \notin db}}]]
       \/ /\ OwnersOf(Identity(p), db) \cup WithEmail(p.email, db) = {}
          /\ login' = [login EXCEPT ![l] = [at |-> "creating", profile |-> p,
                                            account |-> Username(p)]]
          /\ Begins(l, LoginReads)
    /\ UNCHANGED db

\* A flush of the call: the rows, or the error of a duplicate.
Flushes(l, rows, to) ==
    /\ Unlocked(l, rows)
    /\ IF Duplicate(rows) THEN Fails(l) ELSE Adds(l, rows) /\ LoginMoves(l, to)
    /\ UNCHANGED db

\* Mutant: create_user commits the row it added.
CreatesCommitted(l) ==
    /\ login[l].at = "creating"
    /\ db' = db \cup {UserRow(login[l].account, login[l].profile.email)}
    /\ LoginMoves(l, "assigning")
    /\ UNCHANGED tx

\* Mutant: create_user does not flush, and the entity has no id.
CreatesUnflushed(l) ==
    /\ login[l].at = "creating"
    /\ login' = [login EXCEPT ![l].at = "assigning", ![l].account = None]
    /\ UNCHANGED <<db, tx>>

\* create_user.
Creates(l) ==
    /\ login[l].at = "creating"
    /\ Flushes(l, {UserRow(login[l].account, login[l].profile.email)}, "assigning")

\* assign_role of the provider's default role, created when it is absent.
Assigns(l) ==
    /\ login[l].at = "assigning"
    /\ LET r == DefaultRole[login[l].profile.provider]
       IN  Flushes(l, ({RoleRow(r)} \ View(l)) \cup {GrantRow(login[l].account, r)}, "linking")

\* Mutant: the pair of a provider and a subject is not unique.
LinksTwice(l) ==
    /\ login[l].at = "linking"
    /\ Adds(l, {IdentityRow(Identity(login[l].profile), login[l].account)})
    /\ LoginMoves(l, "committing")
    /\ UNCHANGED db

\* link_identity looks again, in the same snapshot, and inserts.
Links(l) ==
    /\ login[l].at = "linking"
    /\ Flushes(l, {IdentityRow(Identity(login[l].profile), login[l].account)}, "committing")

\* The session is in the store, the caller's block commits, and only then the
\* session is handed out.
LoginCommits(l) ==
    /\ login[l].at = "committing"
    /\ Commit(l)
    /\ LoginMoves(l, "in")

HandsOut(l) ==
    /\ login[l].at = "in"
    /\ login' = [login EXCEPT ![l] = Outside]
    /\ UNCHANGED <<db, tx>>

LoggingIn(l) == Creates(l) \/ Assigns(l) \/ Links(l) \/ LoginCommits(l) \/ HandsOut(l)

\* As SeedBreaks: mark_login of two logins of one account may be a deadlock.
LoginBreaks(l) ==
    /\ login[l].at \notin {"idle", "in"}
    /\ Fails(l)
    /\ UNCHANGED db

-----------------------------------------------------------------------------
SeedingSteps(h) == Seeding(h) /\ UNCHANGED login
LoginSteps(l) == LoggingIn(l) /\ UNCHANGED <<schema, host>>

Next ==
    \/ \E h \in Hosts :
          \/ SeedingSteps(h)
          \/ (Starts(h) \/ SeedBreaks(h) \/ Stops(h)) /\ UNCHANGED login
    \/ \E l \in Logins :
          \/ LoginSteps(l)
          \/ ((\E p \in Profiles : Presents(l, p)) \/ LoginBreaks(l)) /\ UNCHANGED <<schema, host>>

Spec == Init /\ [][Next]_vars

\* Each of the processes waits for another of them over its rules.
Circle(S) == S # {} /\ \A h \in S : \E g \in S : RulesWait(h, g)
BreaksCircle ==
    /\ \E S \in SUBSET {h \in Hosts : host[h] = "rules"} : Circle(S) /\ \E h \in S : SeedBreaks(h)
    /\ UNCHANGED login

\* A process and a thread go on, and a statement that waits is the next to have
\* the row when the other transaction ends, also if many do in turn (strong
\* fairness: the locks of the database queue).  In a circle of waits the database
\* rolls one transaction back.  Nothing else has to break.
FairSpec ==
    /\ Spec
    /\ WF_vars(BreaksCircle)
    /\ \A h \in Hosts : SF_vars(SeedingSteps(h))
    /\ \A l \in Logins : SF_vars(LoginSteps(l))

-----------------------------------------------------------------------------
(* Properties *)

\* Every committed account has a role, and one that a login created has the
\* identity it was created for: what a login or a seeding that broke had
\* written is gone.  An identity is linked to the account with an e-mail address
\* it asserted, and not to a namesake's (login_federated, Database.session).
AccountsAreWhole ==
    \A n \in Names, e \in Emails : UserRow(n, e) \in db =>
        /\ \E r \in Roles : GrantRow(n, r) \in db
        /\ \/ \E d \in DefaultUsers : d.name = n
           \/ \E i \in Identities : IdentityRow(i, n) \in db
        /\ \A i \in Identities : IdentityRow(i, n) \in db =>
              \E p \in Profiles : Identity(p) = i /\ UserRow(n, p.email) \in db

\* The committed rules of a target are those of one configuration: no request
\* meets a server whose rules were deleted but not written again, and no role
\* survives from a configuration that was replaced.
RulesAreOneConfig(s) ==
    \E g \in Hosts : /\ s \in DOMAIN RulesOf[g]
                     /\ {x \in db : x[1] = "rule" /\ x[2] = s} = RulesFor(g, s)

\* A process serves only over a database that holds all the defaults, whichever
\* process wrote them, and for each of its servers and tools the rules of one
\* configuration, its own or that of a process that started later
\* (Host.initialize, replace_server_access).
ServingIsSeeded ==
    \A h \in Hosts : host[h] = "serving" =>
        /\ RoleRows \cup ProviderRows \subseteq db
        /\ \A d \in DefaultUsers : {UserRow(d.name, d.email), GrantRow(d.name, d.role)} \subseteq db
        /\ \A s \in DOMAIN RulesOf[h] : RulesAreOneConfig(s)

\* An identity stays with the account it was first linked to, and the sessions
\* handed out for it are of that account: Accounts.
The(owners) == IF owners = {} THEN None ELSE CHOOSE n \in owners : TRUE
Owner == [i \in Identities |-> The(OwnersOf(i, db))]
Given == {<<Identity(login[l].profile), login[l].account>> : l \in {k \in Logins : login[k].at = "in"}}
Promise == INSTANCE Accounts WITH owner <- Owner, given <- Given
Implements == Promise!Spec

\* Every transaction ends, committed or rolled back: each process and each thread
\* is outside of one again and again.  Processes that replace their rules may
\* wait for each other in a circle, which the database has to break; nobody else
\* does, by the order of the inserts (DataSeeder.seed, login_federated).
TransactionsEnd ==
    /\ \A h \in Hosts : []<>(host[h] \notin Transacting)
    /\ \A l \in Logins : []<>(login[l].at = "idle")
=============================================================================

------------------------ MODULE Provisioning_proofs ------------------------
(***************************************************************************)
(* Proofs about Provisioning, for any processes, logins, profiles and      *)
(* configurations: no unique value is ever in two rows, committed accounts *)
(* are whole, a serving process finds its defaults, federated login        *)
(* implements Accounts, only the replacing of rules makes transactions     *)
(* wait in a circle, and only old rules are ever taken back.               *)
(***************************************************************************)
EXTENDS Provisioning, TLAPS

Txs == Hosts \cup Logins
TxType == [snap : SUBSET Rows, new : SUBSET Rows, drops : SUBSET Targets]
LoginType == [at : LoginPlaces, profile : Profiles \cup {None}, account : Names \cup {None}]

-----------------------------------------------------------------------------
(* Rows *)

\* The columns of a row.
LEMMA Columns ==
    /\ \A n, e : UserRow(n, e)[1] = "user" /\ UserRow(n, e)[2] = n /\ UserRow(n, e)[3] = e
    /\ \A r : RoleRow(r)[1] = "role" /\ RoleRow(r)[2] = r
    /\ \A n, r : GrantRow(n, r)[1] = "grant" /\ GrantRow(n, r)[2] = <<n, r>>
    /\ \A p : ProviderRow(p)[1] = "provider" /\ ProviderRow(p)[2] = p
    /\ \A i, n : IdentityRow(i, n)[1] = "identity" /\ IdentityRow(i, n)[2] = i
                 /\ IdentityRow(i, n)[3] = n
    /\ \A s, r : RuleRow(s, r)[1] = "rule" /\ RuleRow(s, r)[2] = s /\ RuleRow(s, r)[3] = r
    /\ \A n : MixedRow(n)[1] = "mixed" /\ MixedRow(n)[2] = n
BY DEF UserRow, RoleRow, GrantRow, ProviderRow, IdentityRow, RuleRow, MixedRow

\* Every kind of row is a row.
LEMMA Kinds ==
    /\ \A n \in Names, e \in Emails : UserRow(n, e) \in Rows
    /\ \A r \in Roles : RoleRow(r) \in Rows
    /\ \A n \in Names, r \in Roles : GrantRow(n, r) \in Rows
    /\ \A p \in Providers : ProviderRow(p) \in Rows
    /\ \A i \in Identities, n \in Names : IdentityRow(i, n) \in Rows
    /\ \A n \in Names : MixedRow(n) \in Rows
    /\ RuleRows \subseteq Rows
BY DEF Rows

\* A row of a kind was made from its columns.
LEMMA MadeOf ==
    ASSUME NEW x \in Rows
    PROVE  /\ x[1] = "user" => \E n \in Names, e \in Emails : x = UserRow(n, e)
           /\ x[1] = "role" => \E r \in Roles : x = RoleRow(r)
           /\ x[1] = "grant" => \E n \in Names, r \in Roles : x = GrantRow(n, r)
           /\ x[1] = "provider" => \E p \in Providers : x = ProviderRow(p)
           /\ x[1] = "identity" => \E i \in Identities, n \in Names : x = IdentityRow(i, n)
           /\ x[1] = "rule" => x \in RuleRows
<1>1. \A y \in RuleRows : y[1] = "rule"
  BY Columns DEF RuleRows, ConfiguredRules, RulesFor
<1>2. \/ \E n \in Names, e \in Emails : x = UserRow(n, e)
      \/ \E r \in Roles : x = RoleRow(r)
      \/ \E n \in Names, r \in Roles : x = GrantRow(n, r)
      \/ \E p \in Providers : x = ProviderRow(p)
      \/ \E i \in Identities, n \in Names : x = IdentityRow(i, n)
      \/ \E n \in Names : x = MixedRow(n)
      \/ x \in RuleRows
  BY DEF Rows
<1> QED
  BY <1>1, <1>2, Columns
-----------------------------------------------------------------------------
(* Transactions *)

\* The tables with unique columns.
Keyed == {"user", "role", "grant", "provider", "identity"}

Clashless(rows, others) == \A x \in rows, y \in others : x[1] \in Keyed => ~Clashes(x, y)
Distinct(rows) == \A x, y \in rows : x[1] \in Keyed /\ Clashes(x, y) => x = y

\* No unique value occurs in two rows, committed or inserted by whoever.
Unique ==
    /\ Distinct(db)
    /\ \A t \in Txs : Distinct(tx[t].new) /\ Clashless(tx[t].new, db)
    /\ \A t, u \in Txs : t # u => Clashless(tx[t].new, tx[u].new)

\* A step of one transaction leaves the others as they are.
Alone(t) == \A u \in Txs : u # t => tx'[u] = tx[u]

\* The effect of an insert, a rollback and a new snapshot on the transactions.
LEMMA AddsShape ==
    ASSUME TypeOK, NEW t \in Txs, NEW STATE rows, rows \in SUBSET Rows, Adds(t, rows)
    PROVE  /\ tx' \in [Txs -> TxType]
           /\ tx'[t] = [snap |-> tx[t].snap, new |-> tx[t].new \cup rows, drops |-> tx[t].drops]
           /\ Alone(t)
<1>1. tx \in [Txs -> TxType] /\ tx[t] \in TxType
  BY DEF TypeOK, Txs, TxType
<1> DEFINE next == [snap |-> tx[t].snap, new |-> tx[t].new \cup rows, drops |-> tx[t].drops]
<1>2. next \in TxType
  BY <1>1 DEF TxType
<1>3. tx' = [tx EXCEPT ![t] = next]
  <2> DEFINE more == tx[t].new \cup rows
  <2>1. next = [snap |-> tx[t].snap, new |-> more, drops |-> tx[t].drops]
    OBVIOUS
  <2>2. tx' = [tx EXCEPT ![t] = [tx[t] EXCEPT !.new = more]]
    BY Zenon DEF Adds
  <2> HIDE DEF more, next
  <2>3. [tx[t] EXCEPT !.new = more] = [snap |-> tx[t].snap, new |-> more, drops |-> tx[t].drops]
    BY <1>1 DEF TxType
  <2> QED
    BY <2>1, <2>2, <2>3
<1> HIDE DEF next
<1>4. tx' \in [Txs -> TxType] /\ tx'[t] = next /\ Alone(t)
  BY <1>1, <1>2, <1>3 DEF Alone
<1> QED
  BY <1>4 DEF next

\* Another transaction of its type.
LEMMA SetsShape ==
    ASSUME TypeOK, NEW t \in Txs, NEW STATE next, next \in TxType, tx' = [tx EXCEPT ![t] = next]
    PROVE  tx' \in [Txs -> TxType] /\ tx'[t] = next /\ Alone(t)
BY DEF TypeOK, Txs, TxType, Alone

\* Outside a transaction there is nothing to see, insert or delete.
LEMMA NoTxType == NoTx \in TxType
BY DEF NoTx, TxType

\* Two rows clash in whatever order they are compared.
LEMMA ClashesBothWays == \A x, y : Clashes(x, y) <=> Clashes(y, x)
BY DEF Clashes

\* The rows of a flush that met no unique value of another transaction and no
\* committed one keep the values unique.
LEMMA AddsUnique ==
    ASSUME Unique, NEW t \in Txs, NEW STATE rows, Alone(t), db' = db,
           tx'[t].new = tx[t].new \cup rows,
           Unlocked(t, rows), ~Duplicate(rows), Distinct(rows),
           Clashless(rows, tx[t].new)
    PROVE  Unique'
<1>1. Clashless(rows, db) /\ \A u \in Txs : u # t => Clashless(rows, tx[u].new)
  BY ClashesBothWays DEF Unlocked, Duplicate, Clashless, Txs
<1>2. Clashless(rows, tx[t].new) /\ \A x \in rows, y \in tx[t].new : y[1] \in Keyed => ~Clashes(x, y)
  BY DEF Clashless, Clashes
<1>3. Distinct(tx'[t].new)
  <2>1. Distinct(tx[t].new)
    BY DEF Unique
  <2>2. ASSUME NEW x \in tx'[t].new, NEW y \in tx'[t].new, x[1] \in Keyed, Clashes(x, y)
        PROVE  x = y
    <3>1. Clashes(y, x) /\ y[1] \in Keyed
      BY <2>2 DEF Clashes
    <3> QED
      BY <1>2, <2>1, <2>2, <3>1 DEF Distinct, Clashless
  <2> QED
    BY <2>2 DEF Distinct
<1>4. Clashless(tx'[t].new, db)
  BY <1>1 DEF Unique, Clashless
<1>5. \A u \in Txs : u # t => Clashless(tx'[t].new, tx[u].new) /\ Clashless(tx[u].new, tx'[t].new)
  <2> SUFFICES ASSUME NEW u \in Txs, u # t
               PROVE  Clashless(tx'[t].new, tx[u].new) /\ Clashless(tx[u].new, tx'[t].new)
    OBVIOUS
  <2>1. Clashless(tx[t].new, tx[u].new) /\ Clashless(tx[u].new, tx[t].new) /\ Clashless(rows, tx[u].new)
    BY <1>1 DEF Unique
  <2>2. Clashless(tx'[t].new, tx[u].new)
    BY <2>1 DEF Clashless
  <2>3. Clashless(tx[u].new, tx'[t].new)
    BY <2>1, ClashesBothWays DEF Clashless, Clashes
  <2> QED
    BY <2>2, <2>3
<1>6. Distinct(db') /\ \A u \in Txs : Distinct(tx'[u].new) /\ Clashless(tx'[u].new, db')
  BY <1>3, <1>4 DEF Unique, Alone
<1>7. \A u, w \in Txs : u # w => Clashless(tx'[u].new, tx'[w].new)
  BY <1>5 DEF Unique, Alone
<1> QED
  BY <1>6, <1>7 DEF Unique, Distinct, Clashless

\* A transaction that has inserted nothing of a table with unique columns.
LEMMA FreshUnique ==
    ASSUME Unique, NEW t \in Txs, Alone(t), db' = db,
           \A x \in tx'[t].new : x[1] \notin Keyed
    PROVE  Unique'
<1>1. \A u \in Txs : Distinct(tx'[u].new) /\ Clashless(tx'[u].new, db)
  BY DEF Unique, Alone, Distinct, Clashless
<1>2. \A u, w \in Txs : u # w => Clashless(tx'[u].new, tx'[w].new)
  BY DEF Unique, Alone, Clashless, Clashes
<1>3. Distinct(db)
  BY DEF Unique
<1> QED
  BY <1>1, <1>2, <1>3 DEF Unique, Distinct, Clashless

\* A commit.
LEMMA CommitUnique ==
    ASSUME Unique, TypeOK, NEW t \in Txs, Commit(t)
    PROVE  Unique'
<1>1. tx'[t] = NoTx /\ Alone(t)
  BY SetsShape, NoTxType DEF Commit
<1>2. db' \subseteq db \cup tx[t].new
  BY DEF Commit
<1>3. Distinct(db')
  <2>1. Distinct(db) /\ Distinct(tx[t].new) /\ Clashless(tx[t].new, db)
    BY DEF Unique
  <2>2. \A x \in tx[t].new, y \in db : y[1] \in Keyed => ~Clashes(x, y) /\ ~Clashes(y, x)
    BY <2>1, ClashesBothWays DEF Clashless, Clashes
  <2> QED
    BY <1>2, <2>1, <2>2, ClashesBothWays DEF Distinct, Clashless
<1>4. \A u \in Txs : Clashless(tx'[u].new, db')
  BY <1>1, <1>2 DEF Unique, Alone, Clashless, NoTx
<1>5. \A u \in Txs : Distinct(tx'[u].new)
  BY <1>1 DEF Unique, Alone, Distinct, NoTx
<1>6. \A u, w \in Txs : u # w => Clashless(tx'[u].new, tx'[w].new)
  BY <1>1 DEF Unique, Alone, Clashless, NoTx
<1> QED
  BY <1>3, <1>4, <1>5, <1>6 DEF Unique, Distinct, Clashless
-----------------------------------------------------------------------------
(* The invariant *)

\* What a transaction will leave behind if it commits.
Has(t) == db \cup tx[t].new

\* What a transaction has read is still in the database.
Reads(t) == tx[t].snap \subseteq db /\ \A x \in tx[t].snap : x[1] # "rule"

\* The tables a seeding has written, and the defaults it has seen or written.
HostWrote(h) ==
    /\ host[h] = "roles" => tx[h].new = {}
    /\ host[h] = "users" => \A x \in tx[h].new : x[1] = "role"
    /\ host[h] = "rules" => \A x \in tx[h].new : x[1] \in {"role", "user", "grant", "rule"}
    /\ host[h] = "committing" =>
          \A x \in tx[h].new : x[1] \in {"role", "user", "grant", "rule", "provider"}
    /\ \A x \in tx[h].new : x[1] = "user" => \E d \in DefaultUsers : x = UserRow(d.name, d.email)

HostSeeded(h) ==
    /\ host[h] \in {"users", "rules", "committing", "serving"} => RoleRows \subseteq Has(h)
    /\ host[h] \in {"rules", "committing", "serving"} =>
          \A d \in DefaultUsers : /\ UserRow(d.name, d.email) \in Has(h)
                                  /\ GrantRow(d.name, d.role) \in Has(h)
    /\ host[h] \in {"committing", "serving"} => ProviderRows \subseteq Has(h)

\* The rules a seeding replaces are those of its configuration: some of them
\* until it has replaced them all.
HostRules(h) ==
    /\ host[h] = "rules" =>
          /\ tx[h].drops \subseteq DOMAIN RulesOf[h]
          /\ \A x \in tx[h].new : x[1] = "rule" => x \in ConfiguredRules(h)
    /\ host[h] = "committing" =>
          /\ tx[h].drops = DOMAIN RulesOf[h]
          /\ \A x \in Rows : x[1] = "rule" => (x \in tx[h].new <=> x \in ConfiguredRules(h))
    /\ host[h] \notin {"rules", "committing"} => tx[h].drops = {}
    /\ host[h] = "serving" => \A s \in DOMAIN RulesOf[h] : RulesAreOneConfig(s)

HostOK(h) ==
    /\ Reads(h) /\ HostWrote(h) /\ HostSeeded(h) /\ HostRules(h)
    /\ host[h] \notin Transacting => tx[h] = NoTx

\* The rows of a login are of its profile and its account.
LoginWrote(l) ==
    /\ tx[l].drops = {}
    /\ login[l].at = "creating" => tx[l].new = {}
    /\ login[l].at = "assigning" => \A x \in tx[l].new : x[1] = "user"
    /\ login[l].at = "linking" => \A x \in tx[l].new : x[1] \in {"role", "user", "grant", "mixed"}
    /\ login[l].at = "committing" =>
          \A x \in tx[l].new : x[1] \in {"role", "user", "grant", "mixed", "identity"}
    /\ \A x \in tx[l].new :
          /\ x[1] = "user" => /\ x = UserRow(login[l].account, login[l].profile.email)
                              /\ login[l].account = Username(login[l].profile)
          /\ x[1] = "identity" => x = IdentityRow(Identity(login[l].profile), login[l].account)

\* What it relies on: the account, its role and its identity come together.
LoginLinked(l) ==
    LET n == login[l].account
        p == login[l].profile
    IN  /\ login[l].at # "idle" => p \in Profiles /\ n \in Names /\ p.provider \in Providers
        /\ login[l].at = "creating" => n = Username(p)
        /\ login[l].at = "assigning" => UserRow(n, p.email) \in tx[l].new
        /\ login[l].at = "linking" => UserRow(n, p.email) \in Has(l)
        /\ login[l].at \in {"linking", "committing"} /\ UserRow(n, p.email) \in tx[l].new =>
              \E r \in Roles : GrantRow(n, r) \in tx[l].new
        /\ login[l].at = "committing" =>
              \/ IdentityRow(Identity(p), n) \in db /\ tx[l].new = {}
              \/ IdentityRow(Identity(p), n) \in tx[l].new /\ UserRow(n, p.email) \in Has(l)
        /\ login[l].at = "in" => IdentityRow(Identity(p), n) \in db

LoginOK(l) ==
    /\ Reads(l) /\ LoginWrote(l) /\ LoginLinked(l)
    /\ login[l].at \in {"idle", "in"} => tx[l] = NoTx

\* The committed accounts and identities.
AccountsOK ==
    /\ \A n \in Names, e \in Emails : UserRow(n, e) \in db =>
          /\ \E r \in Roles : GrantRow(n, r) \in db
          /\ \/ \E d \in DefaultUsers : d.name = n
             \/ \E i \in Identities : IdentityRow(i, n) \in db
    /\ \A d \in DefaultUsers, e \in Emails : UserRow(d.name, e) \in db => e = d.email
    /\ \A i \in Identities, n \in Names : IdentityRow(i, n) \in db =>
          \E p \in Profiles : Identity(p) = i /\ UserRow(n, p.email) \in db

\* The inductive invariant.
IInv ==
    /\ TypeOK /\ Unique /\ AccountsOK
    /\ \A h \in Hosts : HostOK(h)
    /\ \A l \in Logins : LoginOK(l)
-----------------------------------------------------------------------------
(* What a step leaves alone *)

\* Committed rows other than rules stay.
Keeps == \A x \in db : x[1] # "rule" => x \in db'

\* The rows an invariant speaks of are no rules.
LEMMA NotRules ==
    /\ \A x \in RoleRows \cup ProviderRows : x[1] # "rule"
    /\ \A n, e : UserRow(n, e)[1] # "rule"
    /\ \A n, r : GrantRow(n, r)[1] # "rule"
    /\ \A i, n : IdentityRow(i, n)[1] # "rule"
BY Columns DEF RoleRows, ProviderRows

\* Another process, whose place and transaction stay, keeps its part of the
\* invariant when the rules it serves by are still of one configuration.
LEMMA HostAside ==
    ASSUME NEW h \in Hosts, HostOK(h), Keeps, tx'[h] = tx[h], host'[h] = host[h],
           \A s \in Targets : RulesAreOneConfig(s) => RulesAreOneConfig(s)'
    PROVE  HostOK(h)'
<1>1. Reads(h)'
  BY DEF HostOK, Reads, Keeps
<1>2. HostWrote(h)'
  BY DEF HostOK, HostWrote
<1>3. \A x \in Has(h) : x[1] # "rule" => x \in Has(h)'
  BY DEF Has, Keeps
<1>4. HostSeeded(h)'
  BY <1>3, NotRules DEF HostOK, HostSeeded
<1>5. HostRules(h)'
  BY DEF HostOK, HostRules, Targets
<1> QED
  BY <1>1, <1>2, <1>4, <1>5 DEF HostOK

\* Another login, whose place and transaction stay.
LEMMA LoginAside ==
    ASSUME NEW l \in Logins, LoginOK(l), Keeps, tx'[l] = tx[l], login'[l] = login[l]
    PROVE  LoginOK(l)'
<1>1. Reads(l)'
  BY DEF LoginOK, Reads, Keeps
<1>2. LoginWrote(l)'
  BY DEF LoginOK, LoginWrote
<1>3. \A x \in Has(l) : x[1] # "rule" => x \in Has(l)'
  BY DEF Has, Keeps
<1>4. LoginLinked(l)'
  BY <1>3, NotRules DEF LoginOK, LoginLinked, Keeps
<1> QED
  BY <1>1, <1>2, <1>4 DEF LoginOK

\* A step of a process that commits nothing.
LEMMA HostTurn ==
    ASSUME IInv, NEW h \in Hosts, db' = db, login' = login, Alone(h), Unique',
           tx' \in [Txs -> TxType], schema' \in BOOLEAN, host' \in [Hosts -> HostPlaces],
           \A g \in Hosts : g # h => host'[g] = host[g],
           HostOK(h)'
    PROVE  IInv'
<1>1. TypeOK'
  BY DEF IInv, TypeOK, Txs, TxType
<1>2. Keeps /\ \A s \in Targets : RulesAreOneConfig(s) => RulesAreOneConfig(s)'
  BY DEF Keeps, RulesAreOneConfig
<1>3. ASSUME NEW g \in Hosts PROVE HostOK(g)'
  BY <1>2, HostAside DEF IInv, Alone, Txs
<1>4. ASSUME NEW l \in Logins PROVE LoginOK(l)'
  BY <1>2, LoginAside, ProvisioningAssumption DEF IInv, Alone, Txs
<1>5. AccountsOK'
  BY DEF IInv, AccountsOK
<1> QED
  BY <1>1, <1>3, <1>4, <1>5 DEF IInv

\* A step of a login that commits nothing.
LEMMA LoginTurn ==
    ASSUME IInv, NEW l \in Logins, db' = db, UNCHANGED <<schema, host>>, Alone(l), Unique',
           tx' \in [Txs -> TxType], login' \in [Logins -> LoginType],
           \A k \in Logins : k # l => login'[k] = login[k],
           LoginOK(l)'
    PROVE  IInv'
<1>1. TypeOK'
  BY DEF IInv, TypeOK, Txs, TxType, LoginType
<1>2. Keeps /\ \A s \in Targets : RulesAreOneConfig(s) => RulesAreOneConfig(s)'
  BY DEF Keeps, RulesAreOneConfig
<1>3. ASSUME NEW h \in Hosts PROVE HostOK(h)'
  BY <1>2, HostAside, ProvisioningAssumption DEF IInv, Alone, Txs
<1>4. ASSUME NEW k \in Logins PROVE LoginOK(k)'
  BY <1>2, LoginAside DEF IInv, Alone, Txs
<1>5. AccountsOK'
  BY DEF IInv, AccountsOK
<1> QED
  BY <1>1, <1>3, <1>4, <1>5 DEF IInv
-----------------------------------------------------------------------------
(* The seeding *)

\* A process is at another place, and the others where they were.
LEMMA HostMovesShape ==
    ASSUME TypeOK, NEW h \in Hosts, NEW place \in HostPlaces, HostMoves(h, place)
    PROVE  /\ host' \in [Hosts -> HostPlaces] /\ host'[h] = place
           /\ \A g \in Hosts : g # h => host'[g] = host[g]
BY DEF HostMoves, TypeOK

\* The first query of a transaction.
LEMMA BeginsShape ==
    ASSUME TypeOK, NEW t \in Txs, NEW reads, Begins(t, reads)
    PROVE  /\ tx' \in [Txs -> TxType] /\ Alone(t)
           /\ tx'[t] = [snap |-> db \cap reads, new |-> {}, drops |-> {}]
<1> DEFINE seen == db \cap reads
           next == [snap |-> seen, new |-> {}, drops |-> {}]
<1>1. seen \in SUBSET Rows
  BY DEF TypeOK
<1>2. [NoTx EXCEPT !.snap = seen] = next
  BY DEF NoTx
<1>3. next \in TxType
  BY <1>1 DEF TxType
<1>4. tx' = [tx EXCEPT ![t] = next]
  BY <1>2 DEF Begins
<1> HIDE DEF next, seen
<1>5. tx' \in [Txs -> TxType] /\ Alone(t) /\ tx'[t] = next
  BY <1>3, <1>4, SetsShape
<1> QED
  BY <1>5 DEF next, seen

\* The rows that a seeding or a login looks for are not rules.
LEMMA ReadsNoRules == \A x \in SeedReads \cup LoginReads : x[1] # "rule"
BY Columns DEF SeedReads, LoginReads, RoleRows, ProviderRows

\* What a seeding, or its failure, leaves when its transaction is rolled back.
LEMMA FailsStep ==
    ASSUME IInv, NEW h \in Hosts, SeedFails(h), UNCHANGED <<schema, db, login>>
    PROVE  IInv'
<1>1. tx' \in [Txs -> TxType] /\ tx'[h] = NoTx /\ Alone(h)
  BY SetsShape, NoTxType DEF SeedFails, Rollback, IInv, Txs
<1>2. /\ host' \in [Hosts -> HostPlaces] /\ host'[h] = "down"
      /\ \A g \in Hosts : g # h => host'[g] = host[g]
  BY HostMovesShape DEF SeedFails, HostPlaces, IInv
<1>3. Unique'
  BY <1>1, FreshUnique DEF IInv, NoTx, Txs
<1>4. HostOK(h)'
  BY <1>1, <1>2 DEF HostOK, Reads, HostWrote, HostSeeded, HostRules, NoTx, Transacting
<1> QED
  BY <1>1, <1>2, <1>3, <1>4, HostTurn DEF IInv, TypeOK

\* A process that begins its transaction.
LEMMA BeginsStep ==
    ASSUME IInv, NEW h \in Hosts, HostMoves(h, "roles"), Begins(h, SeedReads),
           schema' \in BOOLEAN, UNCHANGED <<db, login>>
    PROVE  IInv'
<1>1. /\ tx' \in [Txs -> TxType] /\ Alone(h)
      /\ tx'[h] = [snap |-> db \cap SeedReads, new |-> {}, drops |-> {}]
  BY BeginsShape DEF IInv, Txs
<1>2. /\ host' \in [Hosts -> HostPlaces] /\ host'[h] = "roles"
      /\ \A g \in Hosts : g # h => host'[g] = host[g]
  BY HostMovesShape DEF HostPlaces, IInv
<1>3. Unique'
  BY <1>1, FreshUnique DEF IInv, Txs
<1>4. Reads(h)'
  BY <1>1, ReadsNoRules DEF Reads
<1>5. HostOK(h)'
  BY <1>1, <1>2, <1>4 DEF HostOK, HostWrote, HostSeeded, HostRules, Transacting
<1> QED
  BY <1>1, <1>2, <1>3, <1>5, HostTurn

\* A process that has no transaction and gets none.
LEMMA OutsideStep ==
    ASSUME IInv, NEW h \in Hosts, NEW place \in {"down", "inspecting"}, tx[h] = NoTx,
           HostMoves(h, place), schema' \in BOOLEAN, UNCHANGED <<db, tx, login>>
    PROVE  IInv'
<1>1. /\ host' \in [Hosts -> HostPlaces] /\ host'[h] = place
      /\ \A g \in Hosts : g # h => host'[g] = host[g]
  BY HostMovesShape DEF HostPlaces, IInv
<1>2. Alone(h) /\ tx' \in [Txs -> TxType] /\ Unique'
  BY DEF Alone, IInv, TypeOK, Txs, TxType, Unique, Distinct, Clashless
<1>3. HostOK(h)'
  BY <1>1 DEF HostOK, Reads, HostWrote, HostSeeded, HostRules, NoTx, Transacting
<1> QED
  BY <1>1, <1>2, <1>3, HostTurn

\* The rows of each flush of the seeding are rows, without a clash among them.
LEMMA SeedRows ==
    ASSUME NEW h \in Hosts
    PROVE  /\ RoleRows \in SUBSET Rows /\ Distinct(RoleRows)
           /\ ProviderRows \in SUBSET Rows /\ Distinct(ProviderRows)
           /\ UserRows(h) \in SUBSET Rows /\ Distinct(UserRows(h))
<1>1. RoleRows \in SUBSET Rows /\ ProviderRows \in SUBSET Rows
  BY Kinds DEF RoleRows, ProviderRows, Roles
<1>2. Distinct(RoleRows) /\ Distinct(ProviderRows)
  BY Columns DEF Distinct, Clashes, RoleRows, ProviderRows
<1>3. ASSUME NEW x \in UserRows(h)
      PROVE  \E d \in DefaultUsers : x = UserRow(d.name, d.email) \/ x = GrantRow(d.name, d.role)
  BY DEF UserRows
<1>4. \A d \in DefaultUsers : /\ d.name \in Names /\ d.email \in Emails /\ d.role \in Roles
                              /\ UserRow(d.name, d.email) \in Rows
                              /\ GrantRow(d.name, d.role) \in Rows
  BY Kinds, ProvisioningAssumption DEF Names, Emails, Roles
<1>5. ASSUME NEW x \in UserRows(h), NEW y \in UserRows(h), Clashes(x, y)
      PROVE  x = y
  <2>1. PICK d \in DefaultUsers : x = UserRow(d.name, d.email) \/ x = GrantRow(d.name, d.role)
    BY <1>3
  <2>2. PICK e \in DefaultUsers : y = UserRow(e.name, e.email) \/ y = GrantRow(e.name, e.role)
    BY <1>3
  <2>3. CASE x = UserRow(d.name, d.email)
    <3>1. y = UserRow(e.name, e.email)
      BY <1>5, <2>2, <2>3, Columns DEF Clashes
    <3>2. d.name = e.name \/ d.email = e.email
      BY <1>5, <2>3, <3>1, Columns DEF Clashes
    <3> QED
      BY <2>3, <3>1, <3>2, ProvisioningAssumption
  <2>4. CASE x = GrantRow(d.name, d.role)
    <3>1. y = GrantRow(e.name, e.role)
      BY <1>5, <2>2, <2>4, Columns DEF Clashes
    <3>2. <<d.name, d.role>> = <<e.name, e.role>>
      BY <1>5, <2>4, <3>1, Columns DEF Clashes
    <3> QED
      BY <2>4, <3>1, <3>2 DEF GrantRow
  <2> QED
    BY <2>1, <2>3, <2>4
<1>6. UserRows(h) \in SUBSET Rows
  BY <1>3, <1>4
<1>7. Distinct(UserRows(h))
  BY <1>5 DEF Distinct
<1> QED
  BY <1>1, <1>2, <1>6, <1>7

\* A flush of the seeding: it fails, or the transaction holds the rows it did
\* not see, and all unique values are still unique.
LEMMA EnsuresShape ==
    ASSUME IInv, NEW h \in Hosts, NEW from \in Transacting, NEW to \in Transacting,
           NEW STATE rows, rows \in SUBSET Rows, Distinct(rows), Clashless(rows \ View(h), tx[h].new),
           Ensures(h, from, rows, to)
    PROVE  \/ SeedFails(h)
           \/ /\ tx' \in [Txs -> TxType] /\ Alone(h) /\ Unique'
              /\ tx'[h] = [snap |-> tx[h].snap, new |-> tx[h].new \cup (rows \ View(h)),
                           drops |-> tx[h].drops]
              /\ host' \in [Hosts -> HostPlaces] /\ host[h] = from /\ host'[h] = to
              /\ \A g \in Hosts : g # h => host'[g] = host[g]
              /\ Has(h) \cup rows \subseteq Has(h)'
<1>1. CASE Duplicate(rows \ View(h))
  BY <1>1 DEF Ensures
<1>2. CASE ~Duplicate(rows \ View(h))
  <2>1. Adds(h, rows \ View(h)) /\ HostMoves(h, to) /\ db' = db /\ host[h] = from
    BY <1>2 DEF Ensures
  <2>2. /\ tx' \in [Txs -> TxType] /\ Alone(h)
        /\ tx'[h] = [snap |-> tx[h].snap, new |-> tx[h].new \cup (rows \ View(h)),
                     drops |-> tx[h].drops]
    BY <2>1, AddsShape DEF IInv, Txs
  <2>3. /\ host' \in [Hosts -> HostPlaces] /\ host'[h] = to
        /\ \A g \in Hosts : g # h => host'[g] = host[g]
    BY <2>1, HostMovesShape DEF IInv, Transacting, HostPlaces
  <2>4. Distinct(rows \ View(h))
    BY DEF Distinct
  <2>5. tx'[h].new = tx[h].new \cup (rows \ View(h))
    BY <2>2
  <2>6. Unlocked(h, rows \ View(h))
    BY DEF Ensures
  <2>7. Unique'
    BY <1>2, <2>1, <2>2, <2>4, <2>5, <2>6, AddsUnique DEF IInv, Txs
  <2>8. Has(h) \cup rows \subseteq Has(h)'
    <3>1. View(h) \subseteq Has(h)
      BY DEF View, Has, IInv, HostOK, Reads
    <3> QED
      BY <2>1, <2>5, <3>1 DEF Has
  <2> QED
    BY <2>1, <2>2, <2>3, <2>7, <2>8
<1> QED
  BY <1>1, <1>2

\* The roles are the first rows of the seeding.
LEMMA RolesStep ==
    ASSUME IInv, NEW h \in Hosts, SeedsRoles(h), login' = login
    PROVE  IInv'
<1>1. RoleRows \in SUBSET Rows /\ Distinct(RoleRows)
  BY SeedRows
<1>2. host[h] = "roles" /\ tx[h].new = {} /\ UNCHANGED <<schema, db>>
  BY DEF SeedsRoles, Ensures, IInv, HostOK, HostWrote
<1>3. Clashless(RoleRows \ View(h), tx[h].new)
  BY <1>2 DEF Clashless
<1>4. CASE SeedFails(h)
  BY <1>2, <1>4, FailsStep
<1>5. CASE /\ tx' \in [Txs -> TxType] /\ Alone(h) /\ Unique'
           /\ tx'[h] = [snap |-> tx[h].snap, new |-> tx[h].new \cup (RoleRows \ View(h)),
                        drops |-> tx[h].drops]
           /\ host' \in [Hosts -> HostPlaces] /\ host[h] = "roles" /\ host'[h] = "users"
           /\ \A g \in Hosts : g # h => host'[g] = host[g]
           /\ Has(h) \cup RoleRows \subseteq Has(h)'
  <2>1. Reads(h)'
    BY <1>2, <1>5 DEF IInv, HostOK, Reads
  <2>2. HostWrote(h)'
    BY <1>2, <1>5, Columns DEF HostWrote, RoleRows
  <2>3. HostSeeded(h)'
    BY <1>5 DEF HostSeeded
  <2>4. HostRules(h)'
    BY <1>5 DEF IInv, HostOK, HostRules
  <2>5. HostOK(h)'
    BY <1>5, <2>1, <2>2, <2>3, <2>4 DEF HostOK, Transacting
  <2> QED
    BY <1>2, <1>5, <2>5, HostTurn DEF IInv, TypeOK
<1> QED
  BY <1>1, <1>3, <1>4, <1>5, EnsuresShape DEF SeedsRoles, Transacting

\* The default users: also one that was found by its name has the default e-mail.
LEMMA UsersStep ==
    ASSUME IInv, NEW h \in Hosts, SeedsUsers(h), login' = login
    PROVE  IInv'
<1>1. UserRows(h) \in SUBSET Rows /\ Distinct(UserRows(h))
  BY SeedRows
<1>2. host[h] = "users" /\ (\A x \in tx[h].new : x[1] = "role") /\ UNCHANGED <<schema, db>>
  BY DEF SeedsUsers, Ensures, IInv, HostOK, HostWrote
<1>3. \A x \in UserRows(h) : /\ x[1] \in {"user", "grant"}
                             /\ x[1] = "user" => \E d \in DefaultUsers : x = UserRow(d.name, d.email)
  BY Columns DEF UserRows
<1>4. Clashless(UserRows(h) \ View(h), tx[h].new)
  BY <1>2, <1>3 DEF Clashless, Clashes
<1>5. \A d \in DefaultUsers : /\ GrantRow(d.name, d.role) \in Has(h) \cup UserRows(h)
                              /\ UserRow(d.name, d.email) \in Has(h) \cup UserRows(h)
  <2> SUFFICES ASSUME NEW d \in DefaultUsers
               PROVE  /\ GrantRow(d.name, d.role) \in UserRows(h)
                      /\ UserRow(d.name, d.email) \in Has(h) \cup UserRows(h)
    OBVIOUS
  <2>1. GrantRow(d.name, d.role) \in UserRows(h)
    BY DEF UserRows
  <2>2. CASE \A x \in Emails : UserRow(d.name, x) \notin View(h)
    BY <2>2 DEF UserRows
  <2>3. CASE \E x \in Emails : UserRow(d.name, x) \in View(h)
    <3>1. PICK x \in Emails : UserRow(d.name, x) \in View(h)
      BY <2>3
    <3>2. UserRow(d.name, x) \notin tx[h].new
      BY <1>2, Columns
    <3>3. UserRow(d.name, x) \in db
      BY <3>1, <3>2 DEF View, IInv, HostOK, Reads
    <3>4. x = d.email
      BY <3>3 DEF IInv, AccountsOK
    <3> QED
      BY <3>3, <3>4, <2>1 DEF Has
  <2> QED
    BY <2>1, <2>2, <2>3
<1>6. CASE SeedFails(h)
  BY <1>2, <1>6, FailsStep
<1>7. CASE /\ tx' \in [Txs -> TxType] /\ Alone(h) /\ Unique'
           /\ tx'[h] = [snap |-> tx[h].snap, new |-> tx[h].new \cup (UserRows(h) \ View(h)),
                        drops |-> tx[h].drops]
           /\ host' \in [Hosts -> HostPlaces] /\ host[h] = "users" /\ host'[h] = "rules"
           /\ \A g \in Hosts : g # h => host'[g] = host[g]
           /\ Has(h) \cup UserRows(h) \subseteq Has(h)'
  <2>1. Reads(h)'
    BY <1>2, <1>7 DEF IInv, HostOK, Reads
  <2>2. HostWrote(h)'
    <3>1. \A x \in tx'[h].new : /\ x[1] \in {"role", "user", "grant"}
                                /\ x[1] = "user" => \E d \in DefaultUsers : x = UserRow(d.name, d.email)
      BY <1>2, <1>3, <1>7
    <3> QED
      BY <1>7, <3>1 DEF HostWrote
  <2>3. HostSeeded(h)'
    BY <1>5, <1>7 DEF HostSeeded, IInv, HostOK
  <2>4. HostRules(h)'
    <3>1. tx'[h].drops = {} /\ \A x \in tx'[h].new : x[1] # "rule"
      BY <1>2, <1>3, <1>7 DEF IInv, HostOK, HostRules
    <3> QED
      BY <1>7, <3>1 DEF HostRules
  <2>5. HostOK(h)'
    BY <1>7, <2>1, <2>2, <2>3, <2>4 DEF HostOK, Transacting
  <2> QED
    BY <1>2, <1>7, <2>5, HostTurn DEF IInv, TypeOK
<1> QED
  BY <1>1, <1>4, <1>6, <1>7, EnsuresShape DEF SeedsUsers, Transacting

\* The providers are the last rows of the seeding.
LEMMA ProvidersStep ==
    ASSUME IInv, NEW h \in Hosts, SeedsProviders(h), login' = login
    PROVE  IInv'
<1>1. ProviderRows \in SUBSET Rows /\ Distinct(ProviderRows)
  BY SeedRows
<1>2. /\ host[h] = "rules" /\ UNCHANGED <<schema, db>>
      /\ \A x \in tx[h].new : x[1] \in {"role", "user", "grant", "rule"}
  BY DEF SeedsProviders, Ensures, IInv, HostOK, HostWrote
<1>3. \A x \in ProviderRows : x[1] = "provider"
  BY Columns DEF ProviderRows
<1>4. Clashless(ProviderRows \ View(h), tx[h].new)
  BY <1>2, <1>3 DEF Clashless, Clashes
<1>5. CASE SeedFails(h)
  BY <1>2, <1>5, FailsStep
<1>6. CASE /\ tx' \in [Txs -> TxType] /\ Alone(h) /\ Unique'
           /\ tx'[h] = [snap |-> tx[h].snap, new |-> tx[h].new \cup (ProviderRows \ View(h)),
                        drops |-> tx[h].drops]
           /\ host' \in [Hosts -> HostPlaces] /\ host[h] = "rules" /\ host'[h] = "committing"
           /\ \A g \in Hosts : g # h => host'[g] = host[g]
           /\ Has(h) \cup ProviderRows \subseteq Has(h)'
  <2>1. Reads(h)'
    BY <1>2, <1>6 DEF IInv, HostOK, Reads
  <2>2. \A x \in tx'[h].new : x \in tx[h].new \/ x[1] = "provider"
    BY <1>3, <1>6
  <2>3. HostWrote(h)'
    <3>1. \A x \in tx'[h].new :
             /\ x[1] \in {"role", "user", "grant", "rule", "provider"}
             /\ x[1] = "user" => \E d \in DefaultUsers : x = UserRow(d.name, d.email)
      BY <1>2, <2>2 DEF IInv, HostOK, HostWrote
    <3> QED
      BY <1>6, <3>1 DEF HostWrote
  <2>4. HostSeeded(h)'
    BY <1>6 DEF HostSeeded, IInv, HostOK
  <2>5. HostRules(h)'
    <3>1. \A x \in Rows : x[1] = "rule" => (x \in tx'[h].new <=> x \in tx[h].new)
      BY <1>6, <2>2
    <3>2. \A x \in Rows : x[1] = "rule" => (x \in tx[h].new <=> x \in ConfiguredRules(h))
      <4>1. \A t \in DOMAIN RulesOf[h] : RulesFor(h, t) \subseteq tx[h].new
        BY DEF SeedsProviders, Unwritten
      <4>2. ConfiguredRules(h) \subseteq tx[h].new
        BY <4>1 DEF ConfiguredRules
      <4> QED
        BY <1>2, <4>2 DEF IInv, HostOK, HostRules
    <3>3. tx'[h].drops = DOMAIN RulesOf[h]
      <4>1. tx'[h].drops = tx[h].drops
        BY <1>6
      <4>2. DOMAIN RulesOf[h] \ tx[h].drops = {}
        BY DEF SeedsProviders, Undropped
      <4>3. tx[h].drops \subseteq DOMAIN RulesOf[h]
        BY <1>2 DEF IInv, HostOK, HostRules
      <4> QED
        BY <4>1, <4>2, <4>3
    <3> QED
      BY <1>6, <3>1, <3>2, <3>3 DEF HostRules
  <2>6. HostOK(h)'
    BY <1>6, <2>1, <2>3, <2>4, <2>5 DEF HostOK, Transacting
  <2> QED
    BY <1>2, <1>6, <2>6, HostTurn DEF IInv, TypeOK
<1> QED
  BY <1>1, <1>4, <1>5, <1>6, EnsuresShape DEF SeedsProviders, Transacting

\* The rules of a configuration are rows of its targets.
LEMMA RulesAreRows ==
    ASSUME NEW h \in Hosts
    PROVE  /\ ConfiguredRules(h) \subseteq RuleRows /\ ConfiguredRules(h) \subseteq Rows
           /\ \A x \in ConfiguredRules(h) : x[1] = "rule" /\ x[2] \in DOMAIN RulesOf[h]
           /\ DOMAIN RulesOf[h] \in SUBSET Targets
           /\ \A s \in DOMAIN RulesOf[h] : \A x :
                 x \in ConfiguredRules(h) /\ x[2] = s <=> x \in RulesFor(h, s)
<1>1. ConfiguredRules(h) \subseteq RuleRows
  BY DEF RuleRows
<1>2. ConfiguredRules(h) \subseteq Rows
  BY <1>1, Kinds
<1>3. \A x \in ConfiguredRules(h) : x[1] = "rule" /\ x[2] \in DOMAIN RulesOf[h]
  BY Columns DEF ConfiguredRules, RulesFor
<1>4. DOMAIN RulesOf[h] \in SUBSET Targets
  BY DEF Targets
<1>5. \A s \in DOMAIN RulesOf[h] : \A x :
         x \in ConfiguredRules(h) /\ x[2] = s <=> x \in RulesFor(h, s)
  <2>1. \A s \in DOMAIN RulesOf[h] : \A x :
           x \in RulesFor(h, s) => x \in ConfiguredRules(h) /\ x[2] = s
    BY Columns DEF ConfiguredRules, RulesFor
  <2>2. ASSUME NEW s \in DOMAIN RulesOf[h], NEW x \in ConfiguredRules(h), x[2] = s
        PROVE  x \in RulesFor(h, s)
    <3>1. PICK u \in DOMAIN RulesOf[h] : x \in RulesFor(h, u)
      BY DEF ConfiguredRules
    <3>2. u = s
      BY <2>2, <3>1, Columns DEF RulesFor
    <3> QED
      BY <3>1, <3>2
  <2> QED
    BY <2>1, <2>2
<1> QED
  BY <1>1, <1>2, <1>3, <1>4, <1>5

\* A DELETE of the old rules of a server or tool.
LEMMA DeletesStep ==
    ASSUME IInv, NEW h \in Hosts, DeletesRules(h), login' = login
    PROVE  IInv'
<1>1. host[h] = "rules" /\ UNCHANGED <<schema, db, host>>
  BY DEF DeletesRules
<1>2. PICK s \in Undropped(h) : tx' = [tx EXCEPT ![h].drops = @ \cup {s}]
  BY DEF DeletesRules, First
<1> DEFINE more == tx[h].drops \cup {s}
           next == [snap |-> tx[h].snap, new |-> tx[h].new, drops |-> more]
<1>3. tx[h] \in TxType /\ h \in Txs /\ s \in DOMAIN RulesOf[h] /\ s \in Targets
  BY DEF IInv, TypeOK, TxType, Txs, Undropped, Targets
<1>4. next \in TxType
  BY <1>3 DEF TxType
<1>5. tx' = [tx EXCEPT ![h] = next]
  <2>1. tx' = [tx EXCEPT ![h] = [tx[h] EXCEPT !.drops = more]]
    BY <1>2, Zenon
  <2>2. [tx[h] EXCEPT !.drops = more] = next
    BY <1>3 DEF TxType
  <2> QED
    BY <2>1, <2>2
<1>6. tx' \in [Txs -> TxType] /\ Alone(h) /\ tx'[h] = next
  BY <1>3, <1>4, <1>5, SetsShape DEF IInv
<1>7. tx'[h].snap = tx[h].snap /\ tx'[h].new = tx[h].new /\ tx'[h].drops = more
  BY <1>6
<1>8. Unique'
  <2>1. \A u \in Txs : tx'[u].new = tx[u].new
    BY <1>6, <1>7 DEF Alone
  <2> QED
    BY <1>1, <2>1 DEF IInv, Unique, Distinct, Clashless
<1>9. HostOK(h)'
  <2>1. more \subseteq DOMAIN RulesOf[h]
    BY <1>1, <1>3 DEF IInv, HostOK, HostRules
  <2>2. Reads(h)' /\ HostSeeded(h)' /\ HostWrote(h)' /\ HostRules(h)'
    BY <1>1, <1>7, <2>1 DEF IInv, HostOK, Reads, HostSeeded, HostWrote, HostRules, Has
  <2> QED
    BY <1>1, <2>2 DEF HostOK, Transacting
<1> QED
  BY <1>1, <1>6, <1>8, <1>9, HostTurn DEF IInv, TypeOK

\* The INSERTs of the new rules of a server or tool.
LEMMA WritesStep ==
    ASSUME IInv, NEW h \in Hosts, WritesRules(h), login' = login
    PROVE  IInv'
<1>1. /\ host[h] = "rules" /\ UNCHANGED <<schema, db, host>> /\ h \in Txs
      /\ \A x \in tx[h].new : x[1] \in {"role", "user", "grant", "rule"}
  BY DEF WritesRules, IInv, HostOK, HostWrote, Txs
<1>2. PICK s \in DOMAIN RulesOf[h] : Adds(h, RulesFor(h, s))
  BY DEF WritesRules, First, Unwritten
<1>3. RulesFor(h, s) \subseteq ConfiguredRules(h)
  BY DEF ConfiguredRules
<1>4. RulesFor(h, s) \in SUBSET Rows /\ \A x \in RulesFor(h, s) : x[1] = "rule"
  BY <1>3, RulesAreRows
<1>5. /\ tx' \in [Txs -> TxType] /\ Alone(h)
      /\ tx'[h] = [snap |-> tx[h].snap, new |-> tx[h].new \cup RulesFor(h, s), drops |-> tx[h].drops]
  BY <1>1, <1>2, <1>4, AddsShape DEF IInv
<1>6. /\ tx'[h].snap = tx[h].snap /\ tx'[h].drops = tx[h].drops
      /\ tx'[h].new = tx[h].new \cup RulesFor(h, s)
  BY <1>5
<1>7. \A x \in tx'[h].new : x \in tx[h].new \/ (x[1] = "rule" /\ x \in ConfiguredRules(h))
  BY <1>3, <1>4, <1>6
<1>8. Unique'
  <2>1. \A u \in Txs : Distinct(tx'[u].new) /\ Clashless(tx'[u].new, db)
    <3>1. Distinct(tx'[h].new) /\ Clashless(tx'[h].new, db)
      BY <1>1, <1>7 DEF IInv, Unique, Distinct, Clashless, Keyed, Clashes
    <3> QED
      BY <3>1, <1>5 DEF IInv, Unique, Alone
  <2>2. \A u, w \in Txs : u # w => Clashless(tx'[u].new, tx'[w].new)
    BY <1>1, <1>5, <1>7 DEF IInv, Unique, Alone, Clashless, Keyed, Clashes
  <2> QED
    BY <1>1, <2>1, <2>2 DEF IInv, Unique, Distinct, Clashless
<1>9. Reads(h)' /\ HostSeeded(h)'
  BY <1>1, <1>6 DEF IInv, HostOK, Reads, HostSeeded, Has
<1>10. HostWrote(h)'
  BY <1>1, <1>7 DEF IInv, HostOK, HostWrote
<1>11. HostRules(h)'
  BY <1>1, <1>6, <1>7 DEF IInv, HostOK, HostRules
<1>12. HostOK(h)'
  BY <1>1, <1>9, <1>10, <1>11 DEF HostOK, Transacting
<1> QED
  BY <1>1, <1>5, <1>8, <1>12, HostTurn DEF IInv, TypeOK

\* What a commit does to the database: other rows than rules stay, the rules of
\* the targets that the transaction dropped are its own.
LEMMA CommitShape ==
    ASSUME IInv, NEW t \in Txs, Commit(t)
    PROVE  /\ tx' \in [Txs -> TxType] /\ tx'[t] = NoTx /\ Alone(t) /\ Unique'
           /\ db' \in SUBSET Rows /\ Keeps
           /\ db' \subseteq Has(t) /\ tx[t].new \subseteq db'
           /\ \A x \in Has(t) : x[1] # "rule" => x \in db'
<1>1. tx' \in [Txs -> TxType] /\ tx'[t] = NoTx /\ Alone(t)
  BY SetsShape, NoTxType DEF Commit, IInv
<1>2. Unique'
  BY CommitUnique DEF IInv
<1>3. db' \in SUBSET Rows
  BY DEF Commit, IInv, TypeOK, Txs
<1>4. Keeps /\ db' \subseteq Has(t) /\ tx[t].new \subseteq db' /\ \A x \in Has(t) : x[1] # "rule" => x \in db'
  BY DEF Commit, Keeps, Has
<1> QED
  BY <1>1, <1>2, <1>3, <1>4

\* The accounts after a commit of a process: those it adds are defaults.
LEMMA HostCommitAccounts ==
    ASSUME IInv, NEW h \in Hosts, Commit(h), host[h] = "committing"
    PROVE  AccountsOK'
<1>1. /\ Keeps /\ db' \subseteq Has(h) /\ db' \in SUBSET Rows
      /\ \A x \in Has(h) : x[1] # "rule" => x \in db'
  BY CommitShape DEF Txs
<1>2. \A x \in tx[h].new :
         /\ x[1] # "identity"
         /\ x[1] = "user" => \E d \in DefaultUsers : x = UserRow(d.name, d.email)
  BY DEF IInv, HostOK, HostWrote
<1>3. \A d \in DefaultUsers : GrantRow(d.name, d.role) \in db' /\ d.role \in Roles
  BY <1>1, NotRules, ProvisioningAssumption DEF IInv, HostOK, HostSeeded, Roles
<1>4. ASSUME NEW n \in Names, NEW e \in Emails, UserRow(n, e) \in db'
      PROVE  UserRow(n, e) \in db \/ \E d \in DefaultUsers : n = d.name /\ e = d.email
  BY <1>1, <1>2, <1>4, Columns DEF Has
<1>5. \A i \in Identities, n \in Names : IdentityRow(i, n) \in db' => IdentityRow(i, n) \in db
  BY <1>1, <1>2, Columns DEF Has
<1>6. ASSUME NEW n \in Names, NEW e \in Emails, UserRow(n, e) \in db'
      PROVE  /\ \E r \in Roles : GrantRow(n, r) \in db'
             /\ \/ \E d \in DefaultUsers : d.name = n
                \/ \E i \in Identities : IdentityRow(i, n) \in db'
  <2>1. CASE UserRow(n, e) \in db
    BY <1>1, <2>1, NotRules DEF IInv, AccountsOK, Keeps
  <2>2. CASE \E d \in DefaultUsers : n = d.name /\ e = d.email
    BY <1>3, <2>2
  <2> QED
    BY <1>4, <1>6, <2>1, <2>2
<1>7. ASSUME NEW d \in DefaultUsers, NEW e \in Emails, UserRow(d.name, e) \in db'
      PROVE  e = d.email
  BY <1>4, <1>7, ProvisioningAssumption DEF IInv, AccountsOK, Names
<1>8. ASSUME NEW i \in Identities, NEW n \in Names, IdentityRow(i, n) \in db'
      PROVE  \E p \in Profiles : Identity(p) = i /\ UserRow(n, p.email) \in db'
  BY <1>1, <1>5, <1>8, NotRules DEF IInv, AccountsOK, Keeps
<1> QED
  BY <1>6, <1>7, <1>8 DEF AccountsOK

\* The rules after a commit of a process are those of one configuration, and for
\* its own targets those of its own.
LEMMA HostCommitRules ==
    ASSUME IInv, NEW h \in Hosts, Commit(h), host[h] = "committing"
    PROVE  /\ \A s \in DOMAIN RulesOf[h] : RulesAreOneConfig(s)'
           /\ \A s \in Targets : RulesAreOneConfig(s) => RulesAreOneConfig(s)'
<1>1. /\ tx[h].drops = DOMAIN RulesOf[h]
      /\ \A x \in Rows : x[1] = "rule" => (x \in tx[h].new <=> x \in ConfiguredRules(h))
      /\ tx[h].new \subseteq Rows
  BY DEF IInv, HostOK, HostRules, TypeOK, TxType
<1>2. \A x : x \in tx[h].new /\ x[1] = "rule" <=> x \in ConfiguredRules(h)
  BY <1>1, RulesAreRows
<1>3. \A x : x[1] = "rule" => (x \in db' <=> (x \in db /\ x[2] \notin DOMAIN RulesOf[h])
                                             \/ x \in ConfiguredRules(h))
  BY <1>1, <1>2 DEF Commit
<1>4. ASSUME NEW s \in DOMAIN RulesOf[h] PROVE RulesAreOneConfig(s)'
  <2>1. {x \in db' : x[1] = "rule" /\ x[2] = s} = RulesFor(h, s)
    <3>1. \A x : x \in db' /\ x[1] = "rule" /\ x[2] = s <=> x \in ConfiguredRules(h) /\ x[2] = s
      BY <1>3, RulesAreRows
    <3> QED
      BY <3>1, RulesAreRows
  <2> QED
    BY <2>1 DEF RulesAreOneConfig
<1>5. ASSUME NEW s \in Targets \ DOMAIN RulesOf[h], RulesAreOneConfig(s)
      PROVE  RulesAreOneConfig(s)'
  <2>1. {x \in db' : x[1] = "rule" /\ x[2] = s} = {x \in db : x[1] = "rule" /\ x[2] = s}
    BY <1>3, RulesAreRows
  <2> QED
    BY <1>5, <2>1 DEF RulesAreOneConfig
<1> QED
  BY <1>4, <1>5

\* The commit of a seeding.
LEMMA SeedCommitStep ==
    ASSUME IInv, NEW h \in Hosts, SeedCommits(h), login' = login
    PROVE  IInv'
<1>1. host[h] = "committing" /\ Commit(h) /\ HostMoves(h, "serving") /\ schema' = schema
  BY DEF SeedCommits
<1>2. /\ tx' \in [Txs -> TxType] /\ tx'[h] = NoTx /\ Alone(h) /\ Unique'
      /\ db' \in SUBSET Rows /\ Keeps
      /\ \A x \in Has(h) : x[1] # "rule" => x \in db'
  BY <1>1, CommitShape DEF Txs
<1>3. /\ host' \in [Hosts -> HostPlaces] /\ host'[h] = "serving"
      /\ \A g \in Hosts : g # h => host'[g] = host[g]
  BY <1>1, HostMovesShape DEF IInv, HostPlaces
<1>4. /\ \A s \in DOMAIN RulesOf[h] : RulesAreOneConfig(s)'
      /\ \A s \in Targets : RulesAreOneConfig(s) => RulesAreOneConfig(s)'
  BY <1>1, HostCommitRules
<1>5. AccountsOK'
  BY <1>1, HostCommitAccounts
<1>6. HostSeeded(h)'
  BY <1>1, <1>2, <1>3, NotRules DEF HostSeeded, Has, IInv, HostOK
<1>7. HostOK(h)'
  BY <1>2, <1>3, <1>4, <1>6 DEF HostOK, Reads, HostWrote, HostRules, NoTx, Transacting
<1>8. ASSUME NEW g \in Hosts PROVE HostOK(g)'
  BY <1>2, <1>3, <1>4, <1>7, HostAside DEF IInv, Alone, Txs
<1>9. ASSUME NEW l \in Logins PROVE LoginOK(l)'
  BY <1>2, LoginAside, ProvisioningAssumption DEF IInv, Alone, Txs
<1>10. TypeOK'
  BY <1>1, <1>2, <1>3 DEF IInv, TypeOK, Txs, TxType
<1> QED
  BY <1>2, <1>5, <1>8, <1>9, <1>10 DEF IInv

\* Every step of a process keeps the invariant.
LEMMA HostSteps ==
    ASSUME IInv, NEW h \in Hosts, login' = login,
           Seeding(h) \/ Starts(h) \/ SeedBreaks(h) \/ Stops(h)
    PROVE  IInv'
<1>1. schema \in BOOLEAN /\ (host[h] \notin Transacting => tx[h] = NoTx)
  BY DEF IInv, TypeOK, HostOK
<1>2. CASE Starts(h)
  <2>1. CASE schema
    BY <1>1, <1>2, <2>1, BeginsStep DEF Starts
  <2>2. CASE ~schema
    BY <1>1, <1>2, <2>2, OutsideStep DEF Starts, Transacting
  <2> QED
    BY <2>1, <2>2
<1>3. CASE CreatesTables(h)
  BY <1>1, <1>3, BeginsStep, OutsideStep DEF CreatesTables, Transacting
<1>4. CASE SeedBreaks(h)
  BY <1>4, FailsStep DEF SeedBreaks
<1>5. CASE Stops(h)
  BY <1>1, <1>5, OutsideStep DEF Stops, Transacting
<1> QED
  BY <1>2, <1>3, <1>4, <1>5, RolesStep, UsersStep, DeletesStep, WritesStep, ProvidersStep,
     SeedCommitStep
     DEF Seeding
-----------------------------------------------------------------------------
(* The logins *)

\* A login is at another place with the same profile and account.
LEMMA LoginMovesShape ==
    ASSUME TypeOK, NEW l \in Logins, NEW place \in LoginPlaces, LoginMoves(l, place)
    PROVE  /\ login' \in [Logins -> LoginType]
           /\ login'[l] = [at |-> place, profile |-> login[l].profile, account |-> login[l].account]
           /\ \A k \in Logins : k # l => login'[k] = login[k]
<1>1. login \in [Logins -> LoginType] /\ login[l] \in LoginType
  BY DEF TypeOK, LoginType
<1> DEFINE next == [at |-> place, profile |-> login[l].profile, account |-> login[l].account]
<1>2. [login[l] EXCEPT !.at = place] = next /\ next \in LoginType
  BY <1>1 DEF LoginType
<1>3. login' = [login EXCEPT ![l] = [login[l] EXCEPT !.at = place]]
  BY Zenon DEF LoginMoves
<1>4. login' = [login EXCEPT ![l] = next]
  BY <1>2, <1>3
<1> HIDE DEF next
<1>5. login' \in [Logins -> LoginType] /\ login'[l] = next /\ \A k \in Logins : k # l => login'[k] = login[k]
  BY <1>1, <1>2, <1>4
<1> QED
  BY <1>5 DEF next

\* A login has other locals.
LEMMA LoginSetsShape ==
    ASSUME TypeOK, NEW l \in Logins, NEW next \in LoginType, login' = [login EXCEPT ![l] = next]
    PROVE  /\ login' \in [Logins -> LoginType] /\ login'[l] = next
           /\ \A k \in Logins : k # l => login'[k] = login[k]
BY DEF TypeOK, LoginType

\* A login that failed or was handed out has left no trace in its transaction.
LEMMA LoginOutside ==
    ASSUME IInv, NEW l \in Logins, UNCHANGED <<schema, host, db>>,
           login' = [login EXCEPT ![l] = Outside],
           tx' \in [Txs -> TxType], tx'[l] = NoTx, Alone(l)
    PROVE  IInv'
<1>1. Outside \in LoginType
  BY DEF Outside, LoginType, LoginPlaces
<1>2. /\ login' \in [Logins -> LoginType] /\ login'[l] = Outside
      /\ \A k \in Logins : k # l => login'[k] = login[k]
  BY <1>1, LoginSetsShape DEF IInv
<1>3. Unique'
  BY FreshUnique DEF IInv, NoTx, Txs
<1>4. LoginOK(l)'
  BY <1>2 DEF LoginOK, Reads, LoginWrote, LoginLinked, NoTx, Outside
<1> QED
  BY <1>2, <1>3, <1>4, LoginTurn

\* The rollback of a login.
LEMMA LoginFailsStep ==
    ASSUME IInv, NEW l \in Logins, Fails(l), UNCHANGED <<schema, host, db>>
    PROVE  IInv'
<1>1. tx' \in [Txs -> TxType] /\ tx'[l] = NoTx /\ Alone(l)
  BY SetsShape, NoTxType DEF Fails, Rollback, IInv, Txs
<1> QED
  BY <1>1, LoginOutside DEF Fails

\* What each profile, e-mail, identity and name belong to.
LEMMA ProfileTypes ==
    ASSUME NEW p \in Profiles
    PROVE  /\ Username(p) \in Names /\ p.email \in Emails /\ Identity(p) \in Identities
           /\ \A d \in DefaultUsers : d.name # Username(p)
BY ProvisioningAssumption DEF Names, Emails, Identities

\* The lookups of a login: it continues with the account of the identity, with
\* the one of the e-mail, or with a new name.
LEMMA PresentsStep ==
    ASSUME IInv, NEW l \in Logins, NEW p \in Profiles, Presents(l, p), UNCHANGED <<schema, host>>
    PROVE  IInv'
<1>1. login[l].at = "idle" /\ db' = db /\ p.provider \in Providers
  <2>1. ProviderRow(p.provider) \in Rows /\ login[l].at = "idle" /\ db' = db
    BY DEF Presents, IInv, TypeOK
  <2>2. PICK q \in Providers : ProviderRow(p.provider) = ProviderRow(q)
    BY <2>1, MadeOf, Columns
  <2> QED
    BY <2>1, <2>2, Columns
<1>2. l \in Txs
  BY DEF Txs
<1>3. ASSUME NEW n \in OwnersOf(Identity(p), db),
             login' = [login EXCEPT ![l] = [at |-> "committing", profile |-> p, account |-> n]],
             Begins(l, LoginReads)
      PROVE  IInv'
  <2>1. /\ tx' \in [Txs -> TxType] /\ Alone(l)
        /\ tx'[l] = [snap |-> db \cap LoginReads, new |-> {}, drops |-> {}]
    BY <1>2, <1>3, BeginsShape DEF IInv
  <2>2. n \in Names /\ IdentityRow(Identity(p), n) \in db
    BY DEF OwnersOf
  <2>3. /\ login' \in [Logins -> LoginType]
        /\ login'[l] = [at |-> "committing", profile |-> p, account |-> n]
        /\ \A k \in Logins : k # l => login'[k] = login[k]
    <3>1. [at |-> "committing", profile |-> p, account |-> n] \in LoginType
      BY <2>2 DEF LoginType, LoginPlaces
    <3> QED
      BY <1>3, <3>1, LoginSetsShape DEF IInv
  <2>4. Unique'
    BY <1>1, <1>2, <2>1, FreshUnique DEF IInv
  <2>5. Reads(l)'
    BY <1>1, <2>1, ReadsNoRules DEF Reads
  <2>6. LoginOK(l)'
    BY <1>1, <2>1, <2>2, <2>3, <2>5 DEF LoginOK, LoginWrote, LoginLinked
  <2> QED
    BY <1>1, <2>1, <2>3, <2>4, <2>6, LoginTurn
<1>4. ASSUME NEW n \in WithEmail(p.email, db),
             login' = [login EXCEPT ![l] = [at |-> "linking", profile |-> p, account |-> n]],
             tx' = [tx EXCEPT ![l] = [NoTx EXCEPT !.new =
                      {MixedRow(d.name) : d \in {x \in DefaultUsers : x.name = n /\ MixedRow(n) \notin db}}]]
      PROVE  IInv'
  <2> DEFINE mixed == {MixedRow(d.name) : d \in {x \in DefaultUsers : x.name = n /\ MixedRow(n) \notin db}}
             next == [snap |-> {}, new |-> mixed, drops |-> {}]
  <2>1. n \in Names /\ UserRow(n, p.email) \in db
    BY DEF WithEmail
  <2>2. mixed \in SUBSET Rows /\ \A x \in mixed : x[1] = "mixed"
    BY <2>1, Kinds, Columns
  <2>3. next \in TxType /\ [NoTx EXCEPT !.new = mixed] = next
    <3> HIDE DEF mixed
    <3> QED
      BY <2>2 DEF TxType, NoTx
  <2>4. tx' = [tx EXCEPT ![l] = next]
    BY <1>4, <2>3
  <2> HIDE DEF mixed, next
  <2>5. tx' \in [Txs -> TxType] /\ Alone(l) /\ tx'[l] = next
    BY <1>2, <2>3, <2>4, SetsShape DEF IInv
  <2>6. tx'[l].snap = {} /\ tx'[l].new = mixed /\ tx'[l].drops = {}
    BY <2>5 DEF next
  <2>7. /\ login' \in [Logins -> LoginType]
        /\ login'[l] = [at |-> "linking", profile |-> p, account |-> n]
        /\ \A k \in Logins : k # l => login'[k] = login[k]
    <3>1. [at |-> "linking", profile |-> p, account |-> n] \in LoginType
      BY <2>1 DEF LoginType, LoginPlaces
    <3> QED
      BY <1>4, <3>1, LoginSetsShape DEF IInv
  <2>8. Unique'
    BY <1>1, <1>2, <2>2, <2>5, <2>6, FreshUnique DEF IInv, Keyed
  <2>9. LoginOK(l)'
    <3>1. Reads(l)' /\ LoginWrote(l)'
      BY <2>2, <2>6, <2>7 DEF Reads, LoginWrote
    <3>2. LoginLinked(l)'
      BY <1>1, <2>1, <2>2, <2>6, <2>7, Columns DEF LoginLinked, Has
    <3> QED
      BY <2>7, <3>1, <3>2 DEF LoginOK
  <2> QED
    BY <1>1, <2>5, <2>7, <2>8, <2>9, LoginTurn
<1>5. ASSUME login' = [login EXCEPT ![l] = [at |-> "creating", profile |-> p, account |-> Username(p)]],
             Begins(l, LoginReads)
      PROVE  IInv'
  <2>1. /\ tx' \in [Txs -> TxType] /\ Alone(l)
        /\ tx'[l] = [snap |-> db \cap LoginReads, new |-> {}, drops |-> {}]
    BY <1>2, <1>5, BeginsShape DEF IInv
  <2>2. Username(p) \in Names
    BY ProfileTypes
  <2>3. /\ login' \in [Logins -> LoginType]
        /\ login'[l] = [at |-> "creating", profile |-> p, account |-> Username(p)]
        /\ \A k \in Logins : k # l => login'[k] = login[k]
    <3>1. [at |-> "creating", profile |-> p, account |-> Username(p)] \in LoginType
      BY <2>2 DEF LoginType, LoginPlaces
    <3> QED
      BY <1>5, <3>1, LoginSetsShape DEF IInv
  <2>4. Unique'
    BY <1>1, <1>2, <2>1, FreshUnique DEF IInv
  <2>5. Reads(l)'
    BY <1>1, <2>1, ReadsNoRules DEF Reads
  <2>6. LoginOK(l)'
    BY <1>1, <2>1, <2>2, <2>3, <2>5 DEF LoginOK, LoginWrote, LoginLinked
  <2> QED
    BY <1>1, <2>1, <2>3, <2>4, <2>6, LoginTurn
<1> QED
  BY <1>3, <1>4, <1>5 DEF Presents

\* A flush of a login: it fails, or the rows are in its transaction.
LEMMA FlushesShape ==
    ASSUME IInv, NEW l \in Logins, NEW to \in LoginPlaces, NEW STATE rows, rows \in SUBSET Rows,
           Distinct(rows), Clashless(rows, tx[l].new), Flushes(l, rows, to)
    PROVE  \/ Fails(l)
           \/ /\ tx' \in [Txs -> TxType] /\ Alone(l) /\ Unique'
              /\ tx'[l] = [snap |-> tx[l].snap, new |-> tx[l].new \cup rows, drops |-> tx[l].drops]
              /\ login' \in [Logins -> LoginType]
              /\ login'[l] = [at |-> to, profile |-> login[l].profile, account |-> login[l].account]
              /\ \A k \in Logins : k # l => login'[k] = login[k]
<1>1. CASE Duplicate(rows)
  BY <1>1 DEF Flushes
<1>2. CASE ~Duplicate(rows)
  <2>1. Adds(l, rows) /\ LoginMoves(l, to) /\ db' = db /\ Unlocked(l, rows)
    BY <1>2 DEF Flushes
  <2>2. /\ tx' \in [Txs -> TxType] /\ Alone(l)
        /\ tx'[l] = [snap |-> tx[l].snap, new |-> tx[l].new \cup rows, drops |-> tx[l].drops]
    BY <2>1, AddsShape DEF IInv, Txs
  <2>3. tx'[l].new = tx[l].new \cup rows
    BY <2>2
  <2>4. Unique'
    BY <1>2, <2>1, <2>2, <2>3, AddsUnique DEF IInv, Txs
  <2> QED
    BY <2>1, <2>2, <2>4, LoginMovesShape DEF IInv
<1> QED
  BY <1>1, <1>2

\* create_user.
LEMMA CreatesStep ==
    ASSUME IInv, NEW l \in Logins, Creates(l), UNCHANGED <<schema, host>>
    PROVE  IInv'
<1> DEFINE n == login[l].account
           p == login[l].profile
           row == UserRow(n, p.email)
<1>1. /\ login[l].at = "creating" /\ db' = db /\ tx[l].new = {}
      /\ p \in Profiles /\ n = Username(p) /\ n \in Names /\ p.provider \in Providers
  BY DEF Creates, Flushes, IInv, LoginOK, LoginWrote, LoginLinked
<1>2. {row} \in SUBSET Rows /\ row[1] = "user"
  BY <1>1, Kinds, Columns, ProfileTypes
<1>3. Distinct({row}) /\ Clashless({row}, tx[l].new)
  BY <1>1 DEF Distinct, Clashless
<1>4. CASE Fails(l)
  BY <1>1, <1>4, LoginFailsStep
<1>5. CASE /\ tx' \in [Txs -> TxType] /\ Alone(l) /\ Unique'
           /\ tx'[l] = [snap |-> tx[l].snap, new |-> tx[l].new \cup {row}, drops |-> tx[l].drops]
           /\ login' \in [Logins -> LoginType]
           /\ login'[l] = [at |-> "assigning", profile |-> p, account |-> n]
           /\ \A k \in Logins : k # l => login'[k] = login[k]
  <2>1. tx'[l].new = {row} /\ tx'[l].snap = tx[l].snap /\ tx'[l].drops = tx[l].drops
    BY <1>1, <1>5
  <2>2. login'[l].at = "assigning" /\ login'[l].profile = p /\ login'[l].account = n
    BY <1>5
  <2> HIDE DEF n, p
  <2>3. Reads(l)'
    BY <1>1, <2>1 DEF IInv, LoginOK, Reads
  <2>4. LoginWrote(l)'
    BY <1>1, <1>2, <2>1, <2>2 DEF IInv, LoginOK, LoginWrote
  <2>5. LoginLinked(l)'
    BY <1>1, <2>1, <2>2 DEF LoginLinked
  <2>6. LoginOK(l)'
    BY <2>2, <2>3, <2>4, <2>5 DEF LoginOK
  <2> QED
    BY <1>1, <1>5, <2>6, LoginTurn
<1>6. Flushes(l, {row}, "assigning")
  BY DEF Creates
<1> HIDE DEF row
<1> QED
  BY <1>2, <1>3, <1>4, <1>5, <1>6, FlushesShape DEF LoginPlaces

\* assign_role: the default role of the provider, and the role itself when the
\* login does not see it.
LEMMA AssignsStep ==
    ASSUME IInv, NEW l \in Logins, Assigns(l), UNCHANGED <<schema, host>>
    PROVE  IInv'
<1> DEFINE n == login[l].account
           p == login[l].profile
           r == DefaultRole[p.provider]
           rows == ({RoleRow(r)} \ View(l)) \cup {GrantRow(n, r)}
<1>1. /\ login[l].at = "assigning" /\ db' = db /\ (\A x \in tx[l].new : x[1] = "user")
      /\ p \in Profiles /\ n \in Names /\ p.provider \in Providers
      /\ UserRow(n, p.email) \in tx[l].new
  BY DEF Assigns, Flushes, IInv, LoginOK, LoginWrote, LoginLinked
<1>2. r \in Roles
  BY <1>1 DEF Roles
<1>3. rows \in SUBSET Rows /\ \A x \in rows : x[1] \in {"role", "grant"}
  BY <1>1, <1>2, Kinds, Columns
<1>4. Distinct(rows) /\ Clashless(rows, tx[l].new)
  <2>1. RoleRow(r)[1] # GrantRow(n, r)[1]
    BY Columns
  <2>2. Distinct(rows)
    BY <2>1 DEF Distinct, Clashes
  <2> HIDE DEF rows
  <2>3. Clashless(rows, tx[l].new)
    BY <1>1, <1>3 DEF Clashless, Clashes
  <2> QED
    BY <2>2, <2>3
<1>5. CASE Fails(l)
  BY <1>1, <1>5, LoginFailsStep
<1>6. CASE /\ tx' \in [Txs -> TxType] /\ Alone(l) /\ Unique'
           /\ tx'[l] = [snap |-> tx[l].snap, new |-> tx[l].new \cup rows, drops |-> tx[l].drops]
           /\ login' \in [Logins -> LoginType]
           /\ login'[l] = [at |-> "linking", profile |-> p, account |-> n]
           /\ \A k \in Logins : k # l => login'[k] = login[k]
  <2>1. GrantRow(n, r) \in rows
    OBVIOUS
  <2> HIDE DEF rows
  <2>2. /\ tx'[l].new = tx[l].new \cup rows /\ tx'[l].snap = tx[l].snap
        /\ tx'[l].drops = tx[l].drops
    BY <1>6
  <2>3. login'[l].at = "linking" /\ login'[l].profile = p /\ login'[l].account = n
    BY <1>6
  <2>4. Reads(l)'
    BY <1>1, <2>2 DEF IInv, LoginOK, Reads
  <2>5. LoginWrote(l)'
    BY <1>1, <1>3, <2>2, <2>3 DEF IInv, LoginOK, LoginWrote
  <2>6. LoginLinked(l)'
    BY <1>1, <1>2, <2>1, <2>2, <2>3 DEF LoginLinked, Has
  <2>7. LoginOK(l)'
    BY <2>3, <2>4, <2>5, <2>6 DEF LoginOK
  <2> QED
    BY <1>1, <1>6, <2>7, LoginTurn
<1>7. Flushes(l, rows, "linking")
  BY DEF Assigns
<1> HIDE DEF rows
<1> QED
  BY <1>3, <1>4, <1>5, <1>6, <1>7, FlushesShape DEF LoginPlaces

\* link_identity.
LEMMA LinksStep ==
    ASSUME IInv, NEW l \in Logins, Links(l), UNCHANGED <<schema, host>>
    PROVE  IInv'
<1> DEFINE n == login[l].account
           p == login[l].profile
           row == IdentityRow(Identity(p), n)
<1>1. /\ login[l].at = "linking" /\ db' = db
      /\ \A x \in tx[l].new : x[1] \in {"role", "user", "grant", "mixed"}
      /\ p \in Profiles /\ n \in Names /\ p.provider \in Providers
      /\ UserRow(n, p.email) \in Has(l)
      /\ UserRow(n, p.email) \in tx[l].new => \E r \in Roles : GrantRow(n, r) \in tx[l].new
  BY DEF Links, Flushes, IInv, LoginOK, LoginWrote, LoginLinked
<1>2. {row} \in SUBSET Rows /\ row[1] = "identity"
  BY <1>1, Kinds, Columns, ProfileTypes
<1>3. Distinct({row}) /\ Clashless({row}, tx[l].new)
  BY <1>1, <1>2 DEF Distinct, Clashless, Clashes
<1>4. CASE Fails(l)
  BY <1>1, <1>4, LoginFailsStep
<1>5. CASE /\ tx' \in [Txs -> TxType] /\ Alone(l) /\ Unique'
           /\ tx'[l] = [snap |-> tx[l].snap, new |-> tx[l].new \cup {row}, drops |-> tx[l].drops]
           /\ login' \in [Logins -> LoginType]
           /\ login'[l] = [at |-> "committing", profile |-> p, account |-> n]
           /\ \A k \in Logins : k # l => login'[k] = login[k]
  <2>1. /\ tx'[l].new = tx[l].new \cup {row} /\ tx'[l].snap = tx[l].snap
        /\ tx'[l].drops = tx[l].drops
    BY <1>5
  <2>2. login'[l].at = "committing" /\ login'[l].profile = p /\ login'[l].account = n
    BY <1>5
  <2>3. Reads(l)'
    BY <1>1, <2>1 DEF IInv, LoginOK, Reads
  <2>4. LoginWrote(l)'
    BY <1>1, <1>2, <2>1, <2>2 DEF IInv, LoginOK, LoginWrote
  <2>5. LoginLinked(l)'
    <3>1. row \in tx'[l].new /\ UserRow(n, p.email) \in Has(l)'
      BY <1>1, <2>1 DEF Has
    <3>2. UserRow(n, p.email) \in tx'[l].new => \E r \in Roles : GrantRow(n, r) \in tx'[l].new
      BY <1>1, <1>2, <2>1, Columns
    <3> HIDE DEF n, p
    <3> QED
      BY <1>1, <2>2, <3>1, <3>2 DEF LoginLinked
  <2>6. LoginOK(l)'
    BY <2>2, <2>3, <2>4, <2>5 DEF LoginOK
  <2> QED
    BY <1>1, <1>5, <2>6, LoginTurn
<1>6. Flushes(l, {row}, "committing")
  BY DEF Links
<1> HIDE DEF row
<1> QED
  BY <1>2, <1>3, <1>4, <1>5, <1>6, FlushesShape DEF LoginPlaces

\* The accounts after the commit of a login: a new one has its role and its
\* identity, and a new identity its account.
LEMMA LoginCommitAccounts ==
    ASSUME IInv, NEW l \in Logins, Commit(l), login[l].at = "committing"
    PROVE  AccountsOK'
<1> DEFINE n == login[l].account
           p == login[l].profile
<1>1. Keeps /\ db' = db \cup tx[l].new
  <2>1. \A x \in db : x[1] = "rule" => x[2] \notin tx[l].drops
    BY DEF IInv, LoginOK, LoginWrote
  <2> QED
    BY <2>1, CommitShape DEF Commit, Txs
<1>2. /\ p \in Profiles /\ n \in Names
      /\ UserRow(n, p.email) \in tx[l].new => \E r \in Roles : GrantRow(n, r) \in tx[l].new
      /\ IdentityRow(Identity(p), n) \in Has(l)
      /\ IdentityRow(Identity(p), n) \in tx[l].new => UserRow(n, p.email) \in Has(l)
      /\ \A x \in tx[l].new :
            /\ x[1] = "user" => x = UserRow(n, p.email) /\ n = Username(p)
            /\ x[1] = "identity" => x = IdentityRow(Identity(p), n)
  BY DEF IInv, LoginOK, LoginWrote, LoginLinked, Has
<1> HIDE DEF n, p
<1>3. ASSUME NEW m \in Names, NEW e \in Emails, UserRow(m, e) \in db', UserRow(m, e) \notin db
      PROVE  m = n /\ n = Username(p) /\ UserRow(n, p.email) \in tx[l].new
  BY <1>1, <1>2, <1>3, Columns
<1>4. ASSUME NEW i \in Identities, NEW m \in Names, IdentityRow(i, m) \in db', IdentityRow(i, m) \notin db
      PROVE  m = n /\ i = Identity(p) /\ IdentityRow(Identity(p), n) \in tx[l].new
  BY <1>1, <1>2, <1>4, Columns
<1>5. Identity(p) \in Identities /\ \A d \in DefaultUsers : d.name # Username(p)
  BY <1>2, ProfileTypes
<1>6. ASSUME NEW m \in Names, NEW e \in Emails, UserRow(m, e) \in db'
      PROVE  /\ \E r \in Roles : GrantRow(m, r) \in db'
             /\ \/ \E d \in DefaultUsers : d.name = m
                \/ \E i \in Identities : IdentityRow(i, m) \in db'
  <2>1. CASE UserRow(m, e) \in db
    BY <1>1, <2>1 DEF IInv, AccountsOK
  <2>2. CASE UserRow(m, e) \notin db
    BY <1>1, <1>2, <1>3, <1>5, <1>6, <2>2 DEF Has
  <2> QED
    BY <2>1, <2>2
<1>7. ASSUME NEW d \in DefaultUsers, NEW e \in Emails, UserRow(d.name, e) \in db'
      PROVE  e = d.email
  BY <1>3, <1>5, <1>7 DEF IInv, AccountsOK, Names
<1>8. ASSUME NEW i \in Identities, NEW m \in Names, IdentityRow(i, m) \in db'
      PROVE  \E q \in Profiles : Identity(q) = i /\ UserRow(m, q.email) \in db'
  <2>1. CASE IdentityRow(i, m) \in db
    BY <1>1, <2>1 DEF IInv, AccountsOK
  <2>2. CASE IdentityRow(i, m) \notin db
    BY <1>1, <1>2, <1>4, <1>8, <2>2 DEF Has
  <2> QED
    BY <2>1, <2>2
<1> QED
  BY <1>6, <1>7, <1>8 DEF AccountsOK

\* The commit of a login.
LEMMA LoginCommitStep ==
    ASSUME IInv, NEW l \in Logins, LoginCommits(l), UNCHANGED <<schema, host>>
    PROVE  IInv'
<1>1. login[l].at = "committing" /\ Commit(l) /\ LoginMoves(l, "in")
  BY DEF LoginCommits
<1>2. /\ tx' \in [Txs -> TxType] /\ tx'[l] = NoTx /\ Alone(l) /\ Unique'
      /\ db' \in SUBSET Rows /\ Keeps
      /\ \A x \in Has(l) : x[1] # "rule" => x \in db'
  BY <1>1, CommitShape DEF Txs
<1>3. /\ login' \in [Logins -> LoginType]
      /\ login'[l].at = "in" /\ login'[l].profile = login[l].profile
      /\ login'[l].account = login[l].account
      /\ \A k \in Logins : k # l => login'[k] = login[k]
  <2>1. /\ login' \in [Logins -> LoginType]
        /\ login'[l] = [at |-> "in", profile |-> login[l].profile, account |-> login[l].account]
        /\ \A k \in Logins : k # l => login'[k] = login[k]
    BY <1>1, LoginMovesShape DEF IInv, LoginPlaces
  <2> QED
    BY <2>1
<1>4. AccountsOK'
  BY <1>1, LoginCommitAccounts
<1>5. \A s \in Targets : RulesAreOneConfig(s) => RulesAreOneConfig(s)'
  <2>1. tx[l].drops = {} /\ \A x \in tx[l].new : x[1] # "rule"
    BY <1>1 DEF IInv, LoginOK, LoginWrote
  <2>2. \A x : x[1] = "rule" => (x \in db' <=> x \in db)
    BY <1>1, <2>1 DEF Commit
  <2>3. \A s : {x \in db' : x[1] = "rule" /\ x[2] = s} = {x \in db : x[1] = "rule" /\ x[2] = s}
    BY <2>2
  <2> QED
    BY <2>3 DEF RulesAreOneConfig
<1>6. LoginOK(l)'
  <2>1. IdentityRow(Identity(login[l].profile), login[l].account) \in db'
    BY <1>1, <1>2, NotRules DEF IInv, LoginOK, LoginLinked, Has
  <2>2. LoginLinked(l)'
    BY <1>1, <1>3, <2>1 DEF IInv, LoginOK, LoginLinked
  <2> QED
    BY <1>2, <1>3, <2>2 DEF LoginOK, Reads, LoginWrote, NoTx
<1>7. ASSUME NEW h \in Hosts PROVE HostOK(h)'
  BY <1>2, <1>5, HostAside, ProvisioningAssumption DEF IInv, Alone, Txs
<1>8. ASSUME NEW k \in Logins PROVE LoginOK(k)'
  BY <1>2, <1>3, <1>6, LoginAside DEF IInv, Alone, Txs
<1>9. TypeOK'
  BY <1>2, <1>3 DEF IInv, TypeOK, Txs, TxType, LoginType
<1> QED
  BY <1>2, <1>4, <1>7, <1>8, <1>9 DEF IInv

\* Every step of a login keeps the invariant.
LEMMA LoginStepsKeep ==
    ASSUME IInv, NEW l \in Logins, UNCHANGED <<schema, host>>,
           LoggingIn(l) \/ (\E p \in Profiles : Presents(l, p)) \/ LoginBreaks(l)
    PROVE  IInv'
<1>1. CASE HandsOut(l)
  <2>1. tx[l] = NoTx /\ tx' \in [Txs -> TxType] /\ Alone(l)
    BY <1>1 DEF HandsOut, IInv, LoginOK, TypeOK, Txs, TxType, Alone
  <2> QED
    BY <1>1, <2>1, LoginOutside DEF HandsOut
<1>2. CASE LoginBreaks(l)
  BY <1>2, LoginFailsStep DEF LoginBreaks
<1> QED
  BY <1>1, <1>2, PresentsStep, CreatesStep, AssignsStep, LinksStep, LoginCommitStep DEF LoggingIn
-----------------------------------------------------------------------------
\* An empty database satisfies the invariant.
LEMMA Initially == Init => IInv
<1> SUFFICES ASSUME Init PROVE IInv
  OBVIOUS
<1>1. TypeOK
  BY DEF Init, TypeOK, NoTx, Outside, HostPlaces, LoginPlaces
<1>2. Unique
  BY DEF Init, Unique, Distinct, Clashless, NoTx, Txs
<1>3. AccountsOK
  BY DEF Init, AccountsOK
<1>4. \A h \in Hosts : HostOK(h)
  BY DEF Init, HostOK, Reads, HostWrote, HostSeeded, HostRules, NoTx, Transacting
<1>5. \A l \in Logins : LoginOK(l)
  BY DEF Init, LoginOK, Reads, LoginWrote, LoginLinked, NoTx, Outside
<1> QED
  BY <1>1, <1>2, <1>3, <1>4, <1>5 DEF IInv

\* Every step keeps the invariant.
LEMMA Inductive == IInv /\ [Next]_vars => IInv'
<1> SUFFICES ASSUME IInv, [Next]_vars PROVE IInv'
  OBVIOUS
<1>1. CASE UNCHANGED vars
  BY <1>1 DEF vars, IInv, TypeOK, Unique, Distinct, Clashless, AccountsOK,
        HostOK, Reads, HostWrote, HostSeeded, HostRules, Has, RulesAreOneConfig,
        LoginOK, LoginWrote, LoginLinked
<1>2. ASSUME NEW h \in Hosts,
             SeedingSteps(h) \/ ((Starts(h) \/ SeedBreaks(h) \/ Stops(h)) /\ UNCHANGED login)
      PROVE  IInv'
  BY <1>2, HostSteps DEF SeedingSteps
<1>3. ASSUME NEW l \in Logins,
             \/ LoginSteps(l)
             \/ ((\E p \in Profiles : Presents(l, p)) \/ LoginBreaks(l)) /\ UNCHANGED <<schema, host>>
      PROVE  IInv'
  BY <1>3, LoginStepsKeep DEF LoginSteps
<1> QED
  BY <1>1, <1>2, <1>3 DEF Next

\* In every reachable state no unique value is in two rows, committed or not, and
\* each transaction holds what its place says (DataSeeder.seed, login_federated).
THEOREM Invariance == Spec => []IInv
BY Initially, Inductive, PTL DEF Spec

\* Type correctness, for any processes, logins, profiles and configurations.
THEOREM TypeCorrect == Spec => []TypeOK
<1>1. IInv => TypeOK
  BY DEF IInv
<1> QED
  BY <1>1, Invariance, PTL

\* Committed accounts have their role and identity, and identities the account
\* with an e-mail they asserted, whichever transactions overlapped or broke.
THEOREM AccountsWhole == Spec => []AccountsAreWhole
<1>1. IInv => AccountsAreWhole
  BY DEF IInv, AccountsOK, AccountsAreWhole
<1> QED
  BY <1>1, Invariance, PTL

\* A process serves over all the defaults and, for each server and tool of its
\* configuration, the rules of one configuration.
THEOREM ServingSeeded == Spec => []ServingIsSeeded
<1>1. ASSUME IInv PROVE ServingIsSeeded
  <2> SUFFICES ASSUME NEW h \in Hosts, host[h] = "serving"
               PROVE  /\ RoleRows \cup ProviderRows \subseteq db
                      /\ \A d \in DefaultUsers :
                            {UserRow(d.name, d.email), GrantRow(d.name, d.role)} \subseteq db
                      /\ \A s \in DOMAIN RulesOf[h] : RulesAreOneConfig(s)
    BY DEF ServingIsSeeded
  <2>1. HostOK(h)
    BY <1>1 DEF IInv
  <2>2. tx[h] = NoTx
    BY <2>1 DEF HostOK, Transacting
  <2>3. Has(h) = db
    BY <2>2 DEF Has, NoTx
  <2> QED
    BY <2>1, <2>3 DEF HostOK, HostSeeded, HostRules
<1> QED
  BY <1>1, Invariance, PTL
-----------------------------------------------------------------------------
(* An identity keeps its account: Provisioning implements Accounts *)

\* An identity has at most one committed account.
LEMMA OneOwner ==
    ASSUME Unique, NEW i \in Identities, NEW n \in OwnersOf(i, db)
    PROVE  OwnersOf(i, db) = {n} /\ Owner[i] = n
<1>1. IdentityRow(i, n) \in db
  BY DEF OwnersOf
<1>2. ASSUME NEW m \in OwnersOf(i, db) PROVE m = n
  <2>1. IdentityRow(i, m) \in db /\ IdentityRow(i, m)[1] = "identity"
    BY Columns DEF OwnersOf
  <2>2. Clashes(IdentityRow(i, m), IdentityRow(i, n))
    BY Columns DEF Clashes
  <2>3. IdentityRow(i, m) = IdentityRow(i, n)
    BY <1>1, <2>1, <2>2 DEF Unique, Distinct, Keyed
  <2> QED
    BY <2>3, Columns
<1>3. OwnersOf(i, db) = {n}
  BY <1>2
<1>4. The({n}) = n
  BY DEF The
<1>5. Owner[i] = n
  BY <1>3, <1>4 DEF Owner
<1> QED
  BY <1>3, <1>5

\* An identity that no row links has no account.
LEMMA NoOwner ==
    ASSUME NEW i \in Identities, OwnersOf(i, db) = {}
    PROVE  Owner[i] = None
BY DEF Owner, The

\* A step that links no identity changes no owner.
LEMMA OwnerStays ==
    ASSUME \A i \in Identities, n \in Names : IdentityRow(i, n) \in db' <=> IdentityRow(i, n) \in db
    PROVE  Owner' = Owner
<1>1. \A i \in Identities : OwnersOf(i, db)' = OwnersOf(i, db)
  BY DEF OwnersOf
<1> QED
  BY <1>1 DEF Owner

\* The sessions that are being handed out do not change with a step of a login
\* that is not handed one.
LEMMA GivenStays ==
    ASSUME NEW l \in Logins, \A k \in Logins : k # l => login'[k] = login[k],
           login[l].at # "in", login'[l].at # "in"
    PROVE  Given' = Given
<1>1. {k \in Logins : login'[k].at = "in"} = {k \in Logins : login[k].at = "in"}
  OBVIOUS
<1>2. \A k \in Logins : login[k].at = "in" => login'[k] = login[k]
  OBVIOUS
<1> QED
  BY <1>1, <1>2 DEF Given

\* The commit of a login links its identity to its account, or finds it linked.
LEMMA CommitSignsIn ==
    ASSUME IInv, IInv', NEW l \in Logins, LoginCommits(l)
    PROVE  Promise!SignIn
<1> DEFINE n == login[l].account
           p == login[l].profile
           i == Identity(p)
<1>1. login[l].at = "committing" /\ Commit(l) /\ LoginMoves(l, "in")
  BY DEF LoginCommits
<1>2. /\ login'[l].at = "in" /\ login'[l].profile = p /\ login'[l].account = n
      /\ \A k \in Logins : k # l => login'[k] = login[k]
  <2>1. /\ login'[l] = [at |-> "in", profile |-> p, account |-> n]
        /\ \A k \in Logins : k # l => login'[k] = login[k]
    BY <1>1, LoginMovesShape DEF IInv, LoginPlaces
  <2> QED
    BY <2>1
<1>3. p \in Profiles /\ n \in Names /\ i \in Identities
  BY <1>1, ProfileTypes DEF IInv, LoginOK, LoginLinked
<1>4. IdentityRow(i, n) \in db'
  <2>1. LoginOK(l)'
    BY DEF IInv
  <2> QED
    BY <1>2, <2>1 DEF LoginOK, LoginLinked
<1>5. \A x \in tx[l].new : x[1] = "identity" => x = IdentityRow(i, n)
  BY DEF IInv, LoginOK, LoginWrote
<1>6. Keeps /\ db' \subseteq Has(l)
  BY <1>1, CommitShape DEF Txs
<1> HIDE DEF n, p, i
<1>7. Owner'[i] = n
  <2>1. ASSUME Unique', n \in OwnersOf(i, db') PROVE Owner'[i] = n
    <3>1. The({n}) = n
      BY DEF The
    <3>2. OwnersOf(i, db') = {n}
      <4>1. ASSUME NEW m \in OwnersOf(i, db') PROVE m = n
        <5>1. IdentityRow(i, m) \in db' /\ IdentityRow(i, n) \in db'
          BY <2>1, <4>1 DEF OwnersOf
        <5>2. Clashes(IdentityRow(i, m), IdentityRow(i, n)) /\ IdentityRow(i, m)[1] \in Keyed
          BY Columns DEF Clashes, Keyed
        <5>3. IdentityRow(i, m) = IdentityRow(i, n)
          BY <2>1, <5>1, <5>2 DEF Unique, Distinct
        <5> QED
          BY <5>3, Columns
      <4> QED
        BY <2>1, <4>1
    <3> QED
      BY <1>3, <3>1, <3>2 DEF Owner
  <2>2. Unique' /\ n \in OwnersOf(i, db')
    BY <1>3, <1>4 DEF IInv, OwnersOf
  <2> QED
    BY <2>1, <2>2
<1>8. Owner[i] \in {None, n}
  <2>1. CASE OwnersOf(i, db) = {}
    BY <1>3, <2>1, NoOwner
  <2>2. ASSUME NEW m \in OwnersOf(i, db) PROVE m = n /\ Owner[i] = m
    <3>1. m \in Names /\ IdentityRow(i, m) \in db'
      BY <1>6, NotRules DEF OwnersOf, Keeps
    <3>2. Clashes(IdentityRow(i, m), IdentityRow(i, n)) /\ IdentityRow(i, m)[1] \in Keyed
      BY Columns DEF Clashes, Keyed
    <3>3. IdentityRow(i, m) = IdentityRow(i, n)
      BY <1>4, <3>1, <3>2 DEF IInv, Unique, Distinct
    <3>4. m = n
      BY <3>3, Columns
    <3> QED
      BY <1>3, <3>4, OneOwner DEF IInv
  <2> QED
    BY <2>1, <2>2
<1>9. \A j \in Identities : j # i => Owner'[j] = Owner[j]
  <2>1. ASSUME NEW j \in Identities, j # i, NEW m \in Names
        PROVE  IdentityRow(j, m) \in db' <=> IdentityRow(j, m) \in db
    <3>1. IdentityRow(j, m) # IdentityRow(i, n)
      BY <2>1, Columns
    <3> QED
      BY <1>5, <1>6, <3>1, NotRules, Columns DEF Keeps, Has
  <2>2. ASSUME NEW j \in Identities, j # i PROVE OwnersOf(j, db') = OwnersOf(j, db)
    BY <2>1, <2>2 DEF OwnersOf
  <2> QED
    BY <2>2 DEF Owner
<1>10. Owner' = [Owner EXCEPT ![i] = n]
  <2>1. Owner = [j \in Identities |-> Owner[j]] /\ Owner' = [j \in Identities |-> Owner'[j]]
    BY DEF Owner
  <2> QED
    BY <1>3, <1>7, <1>9, <2>1
<1>11. Given' = Given \cup {<<i, n>>}
  <2>1. {k \in Logins : login'[k].at = "in"} = {k \in Logins : login[k].at = "in"} \cup {l}
    BY <1>1, <1>2
  <2>2. \A k \in Logins : login[k].at = "in" => login'[k] = login[k]
    BY <1>1, <1>2
  <2>3. <<Identity(login'[l].profile), login'[l].account>> = <<i, n>>
    BY <1>2 DEF i
  <2> QED
    BY <2>1, <2>2, <2>3 DEF Given
<1> QED
  BY <1>3, <1>8, <1>10, <1>11 DEF Promise!SignIn

\* A step of a process links nothing.
LEMMA HostStutters ==
    ASSUME IInv, NEW h \in Hosts, login' = login,
           Seeding(h) \/ Starts(h) \/ SeedBreaks(h) \/ Stops(h)
    PROVE  UNCHANGED <<Owner, Given>>
<1>1. CASE SeedCommits(h)
  <2>1. Keeps /\ db' \subseteq Has(h)
    BY <1>1, CommitShape DEF SeedCommits, Txs
  <2>2. \A x \in tx[h].new : x[1] # "identity"
    BY <1>1 DEF SeedCommits, IInv, HostOK, HostWrote
  <2>3. \A i \in Identities, n \in Names : IdentityRow(i, n) \in db' <=> IdentityRow(i, n) \in db
    BY <2>1, <2>2, Columns, NotRules DEF Keeps, Has
  <2> QED
    BY <2>3, OwnerStays DEF Given
<1>2. CASE ~SeedCommits(h)
  <2>1. db' = db
    BY <1>2 DEF Seeding, CreatesTables, SeedsRoles, SeedsUsers, DeletesRules, WritesRules,
                SeedsProviders, Ensures, Starts, SeedBreaks, Stops
  <2> QED
    BY <2>1, OwnerStays DEF Given
<1> QED
  BY <1>1, <1>2

\* Until its commit a login links nothing, and is given nothing.
LEMMA LoginStutters ==
    ASSUME IInv, NEW l \in Logins,
           \/ Creates(l) \/ Assigns(l) \/ Links(l) \/ LoginBreaks(l)
           \/ \E p \in Profiles : Presents(l, p)
    PROVE  UNCHANGED <<Owner, Given>>
<1>1. db' = db
  BY DEF Creates, Assigns, Links, Flushes, LoginBreaks, Presents
<1>2. Owner' = Owner
  BY <1>1, OwnerStays
<1>3. \A to \in LoginPlaces \ {"in"} : LoginMoves(l, to) =>
         login'[l].at # "in" /\ \A k \in Logins : k # l => login'[k] = login[k]
  <2> SUFFICES ASSUME NEW to \in LoginPlaces \ {"in"}, LoginMoves(l, to)
               PROVE  login'[l].at # "in" /\ \A k \in Logins : k # l => login'[k] = login[k]
    OBVIOUS
  <2>1. /\ login'[l] = [at |-> to, profile |-> login[l].profile, account |-> login[l].account]
        /\ \A k \in Logins : k # l => login'[k] = login[k]
    BY LoginMovesShape DEF IInv
  <2> QED
    BY <2>1
<1>4. Fails(l) => login'[l].at # "in" /\ \A k \in Logins : k # l => login'[k] = login[k]
  BY DEF Fails, Outside, IInv, TypeOK
<1>5. CASE \E p \in Profiles : Presents(l, p)
  <2>1. login[l].at = "idle" /\ login'[l].at # "in" /\ \A k \in Logins : k # l => login'[k] = login[k]
    BY <1>5 DEF Presents, IInv, TypeOK
  <2> QED
    BY <1>2, <2>1, GivenStays
<1>6. CASE Creates(l) \/ Assigns(l) \/ Links(l)
  <2>1. login[l].at # "in"
    BY <1>6 DEF Creates, Assigns, Links
  <2>2. Fails(l) \/ \E to \in LoginPlaces \ {"in"} : LoginMoves(l, to)
    BY <1>6 DEF Creates, Assigns, Links, Flushes, LoginPlaces
  <2> QED
    BY <1>2, <1>3, <1>4, <2>1, <2>2, GivenStays
<1>7. CASE LoginBreaks(l)
  BY <1>2, <1>4, <1>7, GivenStays DEF LoginBreaks
<1> QED
  BY <1>5, <1>6, <1>7

\* A session that is in the hands of the user is forgotten.
LEMMA HandsOutForgets ==
    ASSUME IInv, NEW l \in Logins, HandsOut(l)
    PROVE  Promise!Forget
<1>1. Owner' = Owner
  BY OwnerStays DEF HandsOut
<1>2. \A k \in Logins : login'[k].at = "in" => login[k].at = "in" /\ login'[k] = login[k]
  BY DEF HandsOut, Outside, IInv, TypeOK
<1>3. Given' \subseteq Given
  BY <1>2 DEF Given
<1> QED
  BY <1>1, <1>3 DEF Promise!Forget

\* Every step is a step of Accounts or leaves owners and sessions as they are.
LEMMA Refines ==
    ASSUME IInv, IInv', [Next]_vars
    PROVE  [Promise!Next]_<<Owner, Given>>
<1>1. CASE UNCHANGED vars
  <2>1. Owner' = Owner
    BY <1>1, OwnerStays DEF vars
  <2> QED
    BY <1>1, <2>1 DEF vars, Given
<1>2. ASSUME NEW h \in Hosts,
             SeedingSteps(h) \/ ((Starts(h) \/ SeedBreaks(h) \/ Stops(h)) /\ UNCHANGED login)
      PROVE  UNCHANGED <<Owner, Given>>
  BY <1>2, HostStutters DEF SeedingSteps
<1>3. ASSUME NEW l \in Logins,
             LoginSteps(l) \/ (\E p \in Profiles : Presents(l, p)) \/ LoginBreaks(l)
      PROVE  [Promise!Next]_<<Owner, Given>>
  <2>1. CASE LoginCommits(l)
    BY <2>1, CommitSignsIn DEF Promise!Next
  <2>2. CASE HandsOut(l)
    BY <2>2, HandsOutForgets DEF Promise!Next
  <2>3. CASE \/ Creates(l) \/ Assigns(l) \/ Links(l) \/ LoginBreaks(l)
             \/ \E p \in Profiles : Presents(l, p)
    BY <2>3, LoginStutters
  <2> QED
    BY <1>3, <2>1, <2>2, <2>3 DEF LoginSteps, LoggingIn
<1> QED
  BY <1>1, <1>2, <1>3 DEF Next

\* An empty database links and gives nothing.
LEMMA InitiallyPromised == Init => Promise!Init
<1> SUFFICES ASSUME Init PROVE Promise!Init
  OBVIOUS
<1>1. \A i \in Identities : OwnersOf(i, db) = {}
  BY DEF Init, OwnersOf
<1>2. Owner = [i \in Identities |-> None]
  BY <1>1 DEF Owner, The
<1>3. Given = {}
  BY DEF Init, Given, Outside
<1> QED
  BY <1>2, <1>3 DEF Promise!Init

\* Through overlapping logins, seedings and failures an identity stays with the
\* account it was first linked to, and is given sessions of that account only.
THEOREM LoginsImplementAccounts == Spec => Implements
<1>1. Init => Promise!Init
  BY InitiallyPromised
<1>2. IInv /\ IInv' /\ [Next]_vars => [Promise!Next]_<<Owner, Given>>
  BY Refines
<1> QED
  BY <1>1, <1>2, Invariance, PTL DEF Spec, Implements, Promise!Spec
-----------------------------------------------------------------------------
(* Who waits for whom *)

\* The rows every seeding makes sure of, apart from the rules.
Defaults ==
    RoleRows \cup ProviderRows
    \cup {UserRow(d.name, d.email) : d \in DefaultUsers}
    \cup {GrantRow(d.name, d.role) : d \in DefaultUsers}

\* A seeding inserts nothing else, and a login finds them all.
SeedOnly ==
    /\ \A h \in Hosts : tx[h].new \subseteq Defaults \cup RuleRows
    /\ \A l \in Logins : login[l].at # "idle" => Defaults \subseteq db

\* The rows that a step leaves a transaction: none, or some more.
LEMMA NewRows ==
    ASSUME TypeOK, NEW t \in Txs
    PROVE  /\ \A rows : Adds(t, rows) => tx'[t].new = tx[t].new \cup rows
           /\ \A rows : Begins(t, rows) => tx'[t].new = {}
           /\ Rollback(t) => tx'[t].new = {}
           /\ Commit(t) => tx'[t].new = {}
<1>1. tx \in [Txs -> TxType] /\ tx[t] \in TxType
  BY DEF TypeOK, Txs, TxType
<1>2. ASSUME NEW rows, Adds(t, rows) PROVE tx'[t].new = tx[t].new \cup rows
  <2> DEFINE more == tx[t].new \cup rows
  <2>1. tx' = [tx EXCEPT ![t] = [tx[t] EXCEPT !.new = more]]
    BY <1>2, Zenon DEF Adds
  <2> HIDE DEF more
  <2>2. tx'[t].new = more
    BY <1>1, <2>1 DEF TxType
  <2> QED
    BY <2>2 DEF more
<1>3. ASSUME NEW rows, Begins(t, rows) PROVE tx'[t].new = {}
  BY <1>1, <1>3 DEF Begins, NoTx
<1>4. Rollback(t) \/ Commit(t) => tx'[t].new = {}
  BY <1>1 DEF Rollback, Commit, NoTx
<1> QED
  BY <1>2, <1>3, <1>4

\* What each flush of a seeding inserts.
LEMMA DefaultsAre ==
    /\ RoleRows \subseteq Defaults /\ ProviderRows \subseteq Defaults
    /\ \A h \in Hosts : UserRows(h) \subseteq Defaults /\ ConfiguredRules(h) \subseteq RuleRows
    /\ \A x \in Defaults : x[1] \in Keyed
<1>1. \A x \in Defaults : x[1] \in Keyed
  BY Columns DEF Defaults, Keyed, RoleRows, ProviderRows
<1>2. \A h \in Hosts : UserRows(h) \subseteq Defaults
  BY DEF UserRows, Defaults
<1> QED
  BY <1>1, <1>2 DEF Defaults, RuleRows

\* A step of a seeding inserts defaults, rules or nothing.
LEMMA SeedingInserts ==
    ASSUME IInv, SeedOnly, NEW h \in Hosts,
           Seeding(h) \/ Starts(h) \/ SeedBreaks(h) \/ Stops(h)
    PROVE  tx'[h].new \subseteq Defaults \cup RuleRows /\ Alone(h)
<1>1. TypeOK /\ h \in Txs /\ tx \in [Txs -> TxType] /\ tx[h].new \subseteq Defaults \cup RuleRows
  BY DEF IInv, Txs, TypeOK, TxType, SeedOnly
<1>2. Alone(h)
  BY <1>1 DEF Alone, Seeding, CreatesTables, SeedsRoles, SeedsUsers, SeedsProviders, Ensures,
              SeedFails, Adds, Rollback, DeletesRules, WritesRules, SeedCommits, Commit, Starts, Begins,
              SeedBreaks, Stops
<1>3. ASSUME NEW STATE rows, rows \subseteq Defaults,
             \/ Adds(h, rows \ View(h))
             \/ SeedFails(h)
      PROVE  tx'[h].new \subseteq Defaults \cup RuleRows
  <2>1. CASE Adds(h, rows \ View(h))
    <3>1. tx' = [tx EXCEPT ![h].new = @ \cup (rows \ View(h))]
      BY <2>1 DEF Adds
    <3>2. tx'[h].new = tx[h].new \cup (rows \ View(h))
      BY <1>1, <3>1 DEF TxType
    <3> QED
      BY <1>1, <1>3, <3>2
  <2>2. CASE SeedFails(h)
    BY <1>1, <2>2, NewRows DEF SeedFails
  <2> QED
    BY <1>3, <2>1, <2>2
<1>4. CASE SeedsRoles(h) \/ SeedsUsers(h) \/ SeedsProviders(h)
  <2>1. CASE SeedsRoles(h)
    BY <1>2, <1>3, <2>1, DefaultsAre DEF SeedsRoles, Ensures
  <2>2. CASE SeedsUsers(h)
    BY <1>2, <1>3, <2>2, DefaultsAre DEF SeedsUsers, Ensures
  <2>3. CASE SeedsProviders(h)
    BY <1>2, <1>3, <2>3, DefaultsAre DEF SeedsProviders, Ensures
  <2> QED
    BY <1>4, <2>1, <2>2, <2>3
<1>5. CASE DeletesRules(h)
  <2>1. PICK s : tx' = [tx EXCEPT ![h].drops = @ \cup {s}]
    BY <1>5 DEF DeletesRules
  <2>2. tx'[h].new = tx[h].new
    BY <1>1, <2>1 DEF TxType
  <2> QED
    BY <1>1, <1>2, <2>2
<1>7. CASE WritesRules(h)
  <2>1. PICK s \in DOMAIN RulesOf[h] : Adds(h, RulesFor(h, s))
    BY <1>7 DEF WritesRules, First, Unwritten
  <2>2. tx'[h].new = tx[h].new \cup RulesFor(h, s)
    BY <1>1, <2>1, NewRows
  <2>3. RulesFor(h, s) \subseteq ConfiguredRules(h)
    BY DEF ConfiguredRules
  <2> QED
    BY <1>1, <1>2, <2>2, <2>3, DefaultsAre
<1>6. CASE Starts(h) \/ CreatesTables(h) \/ SeedCommits(h) \/ SeedBreaks(h) \/ Stops(h)
  <2>1. tx' = tx \/ tx'[h].new = {}
    BY <1>1, <1>6, NewRows DEF Starts, CreatesTables, SeedCommits, SeedBreaks, Stops, SeedFails
  <2> QED
    BY <1>1, <1>2, <2>1
<1> QED
  BY <1>2, <1>4, <1>5, <1>6, <1>7 DEF Seeding

\* A login that arrives finds a process that serves, and so the defaults.
LEMMA DefaultsThere ==
    ASSUME IInv, NEW h \in Hosts, host[h] = "serving"
    PROVE  Defaults \subseteq db
<1>1. HostOK(h) /\ Has(h) = db
  BY DEF IInv, HostOK, Transacting, Has, NoTx
<1> QED
  BY <1>1 DEF HostOK, HostSeeded, Defaults

\* A login leaves the seedings alone.
LEMMA LoginAlone ==
    ASSUME IInv, NEW l \in Logins,
           LoggingIn(l) \/ (\E p \in Profiles : Presents(l, p)) \/ LoginBreaks(l)
    PROVE  /\ Alone(l) /\ \A k \in Logins : k # l => login'[k] = login[k]
           /\ login[l].at # "idle" \/ \E h \in Hosts : host[h] = "serving"
<1>1. tx \in [Txs -> TxType] /\ login \in [Logins -> LoginType]
  BY DEF IInv, TypeOK, Txs, TxType, LoginType
<1>2. Alone(l) /\ \A k \in Logins : k # l => login'[k] = login[k]
  <2>1. CASE LoggingIn(l)
    BY <1>1, <2>1 DEF Alone, LoggingIn, Creates, Assigns, Links, Flushes, Fails, Adds, Rollback,
                      LoginMoves, LoginCommits, Commit, HandsOut
  <2>2. CASE \E p \in Profiles : Presents(l, p)
    BY <1>1, <2>2 DEF Alone, Presents, Begins
  <2>3. CASE LoginBreaks(l)
    BY <1>1, <2>3 DEF Alone, LoginBreaks, Fails, Rollback
  <2> QED
    BY <2>1, <2>2, <2>3
<1>3. login[l].at # "idle" \/ \E h \in Hosts : host[h] = "serving"
  BY DEF LoggingIn, Creates, Assigns, Links, LoginCommits, HandsOut, Presents, LoginBreaks
<1> QED
  BY <1>2, <1>3

\* Committed defaults stay.
LEMMA DefaultsStay ==
    ASSUME IInv, [Next]_vars, Defaults \subseteq db
    PROVE  Defaults \subseteq db'
<1>1. \A x \in Defaults : x[1] # "rule"
  BY DefaultsAre DEF Keyed
<1>2. db' = db \/ \E t \in Txs : Commit(t)
  BY DEF Next, vars, SeedingSteps, Seeding, CreatesTables, SeedsRoles, SeedsUsers, DeletesRules, WritesRules,
         SeedsProviders, Ensures, SeedCommits, Starts, SeedBreaks, Stops, LoginSteps, LoggingIn,
         Creates, Assigns, Links, Flushes, LoginCommits, HandsOut, Presents, LoginBreaks, Txs
<1> QED
  BY <1>1, <1>2 DEF Commit

\* Every step keeps it so.
LEMMA SeedOnlyInductive ==
    ASSUME IInv, SeedOnly, [Next]_vars
    PROVE  SeedOnly'
<1>1. CASE UNCHANGED vars
  BY <1>1 DEF SeedOnly, vars
<1>2. ASSUME NEW h \in Hosts,
             SeedingSteps(h) \/ ((Starts(h) \/ SeedBreaks(h) \/ Stops(h)) /\ UNCHANGED login)
      PROVE  SeedOnly'
  <2>1. tx'[h].new \subseteq Defaults \cup RuleRows /\ Alone(h) /\ login' = login
    BY <1>2, SeedingInserts DEF SeedingSteps
  <2>2. \A g \in Hosts : tx'[g].new \subseteq Defaults \cup RuleRows
    BY <2>1 DEF SeedOnly, Alone, Txs
  <2>3. \A l \in Logins : login[l].at # "idle" => Defaults \subseteq db'
    BY DefaultsStay DEF SeedOnly
  <2> QED
    BY <2>1, <2>2, <2>3 DEF SeedOnly
<1>3. ASSUME NEW l \in Logins, UNCHANGED <<schema, host>>,
             LoggingIn(l) \/ (\E p \in Profiles : Presents(l, p)) \/ LoginBreaks(l)
      PROVE  SeedOnly'
  <2>1. /\ Alone(l) /\ \A k \in Logins : k # l => login'[k] = login[k]
        /\ login[l].at # "idle" \/ \E h \in Hosts : host[h] = "serving"
    BY <1>3, LoginAlone
  <2>2. Defaults \subseteq db'
    BY <2>1, DefaultsThere, DefaultsStay DEF SeedOnly
  <2>3. \A g \in Hosts : tx'[g].new \subseteq Defaults \cup RuleRows
    BY <2>1, ProvisioningAssumption DEF SeedOnly, Alone, Txs
  <2> QED
    BY <2>2, <2>3 DEF SeedOnly
<1> QED
  BY <1>1, <1>2, <1>3 DEF Next, LoginSteps

\* Nobody has inserted anything or arrived.
LEMMA SeedOnlyInitially == Init => SeedOnly
BY DEF Init, SeedOnly, NoTx, Outside

\* The transaction u has inserted a unique value of the rows.
Inserted(u, rows) == \E x \in tx[u].new, y \in rows : Clashes(x, y)

\* What the next statement of a seeding, or of a login, waits for.
HostWaits(h, u) ==
    \/ host[h] = "roles" /\ Inserted(u, RoleRows \ View(h))
    \/ host[h] = "users" /\ Inserted(u, UserRows(h) \ View(h))
    \/ u \in Hosts /\ RulesWait(h, u)
    \/ /\ host[h] = "rules" /\ Undropped(h) = {} /\ Unwritten(h) = {}
       /\ Inserted(u, ProviderRows \ View(h))
LoginWaits(l, u) ==
    LET n == login[l].account
        p == login[l].profile
    IN  \/ login[l].at = "creating" /\ Inserted(u, {UserRow(n, p.email)})
        \/ /\ login[l].at = "assigning"
           /\ Inserted(u, ({RoleRow(DefaultRole[p.provider])} \ View(l)) \cup {GrantRow(n, DefaultRole[p.provider])})
        \/ login[l].at = "linking" /\ Inserted(u, {IdentityRow(Identity(p), n)})
WaitsFor(t, u) == t # u /\ ((t \in Hosts /\ HostWaits(t, u)) \/ (t \in Logins /\ LoginWaits(t, u)))

\* Where each of some transactions waits for another of them, they are seedings,
\* and those that replace their rules wait for each other over the rules.
CirclesAreOfRules ==
    \A S \in SUBSET (Hosts \cup Logins) :
        S # {} /\ (\A t \in S : \E u \in S : WaitsFor(t, u)) =>
            S \subseteq Hosts /\ Circle(S \cap {h \in Hosts : host[h] = "rules"})

\* How far a transaction has come in the order of its inserts.
Depth(t) ==
    IF t \in Hosts
    THEN CASE host[t] = "roles" -> 1
           [] host[t] = "users" -> 2
           [] host[t] = "rules" -> 3
           [] host[t] = "committing" -> 4
           [] OTHER -> 0
    ELSE CASE login[t].at = "creating" -> 1
           [] login[t].at = "assigning" -> 2
           [] login[t].at = "linking" -> 3
           [] login[t].at = "committing" -> 4
           [] OTHER -> 0

\* A transaction for which nobody stands in the way inserts what comes next.
LEMMA WhoDoesNotWaitInserts ==
    /\ \A h \in Hosts : (\A u \in Txs : ~WaitsFor(h, u)) =>
          /\ host[h] = "roles" => Unlocked(h, RoleRows \ View(h))
          /\ host[h] = "users" => Unlocked(h, UserRows(h) \ View(h))
          /\ \A g \in Hosts : ~RulesWait(h, g)
          /\ host[h] = "rules" /\ Undropped(h) = {} /\ Unwritten(h) = {} =>
                Unlocked(h, ProviderRows \ View(h))
    /\ \A l \in Logins : (\A u \in Txs : ~WaitsFor(l, u)) =>
          LET n == login[l].account
              p == login[l].profile
              r == DefaultRole[p.provider]
          IN  /\ login[l].at = "creating" => Unlocked(l, {UserRow(n, p.email)})
              /\ login[l].at = "assigning" => Unlocked(l, ({RoleRow(r)} \ View(l)) \cup {GrantRow(n, r)})
              /\ login[l].at = "linking" => Unlocked(l, {IdentityRow(Identity(p), n)})
<1>1. ASSUME NEW h \in Hosts, \A u \in Txs : ~WaitsFor(h, u)
      PROVE  \A u \in Txs \ {h} : ~HostWaits(h, u)
  BY <1>1 DEF WaitsFor
<1>2. ASSUME NEW l \in Logins, \A u \in Txs : ~WaitsFor(l, u)
      PROVE  \A u \in Txs \ {l} : ~LoginWaits(l, u)
  BY <1>2 DEF WaitsFor
<1>3. \A h, g \in Hosts : RulesWait(h, g) => g # h /\ g \in Txs
  BY DEF RulesWait, Txs
<1> QED
  BY <1>1, <1>2, <1>3 DEF HostWaits, LoginWaits, Inserted, Unlocked, Txs

\* A seeding waits only for one that is deeper in the order of the inserts, or
\* over its rules for another that replaces some.
LEMMA HostsWaitDeeper ==
    ASSUME IInv, NEW h \in Hosts, NEW g \in Hosts, HostWaits(h, g)
    PROVE  Depth(g) > Depth(h) \/ (RulesWait(h, g) /\ host[g] = "rules")
<1>1. HostOK(g) /\ host[g] \in HostPlaces
  BY DEF IInv, TypeOK
<1>2. tx[g].new # {} \/ tx[g].drops # {} => host[g] \in Transacting
  BY <1>1 DEF HostOK, NoTx
<1>3. HostWrote(g) /\ HostRules(g)
  BY <1>1 DEF HostOK
<1>4. CASE host[h] = "roles" /\ Inserted(g, RoleRows \ View(h))
  <2>1. PICK x \in tx[g].new : TRUE
    BY <1>4 DEF Inserted
  <2>2. host[g] \in Transacting /\ host[g] # "roles"
    BY <1>2, <1>3, <2>1 DEF HostWrote
  <2> QED
    BY <1>4, <2>2 DEF Depth, Transacting
<1>5. CASE host[h] = "users" /\ Inserted(g, UserRows(h) \ View(h))
  <2>1. PICK x \in tx[g].new, y \in UserRows(h) : Clashes(x, y)
    BY <1>5 DEF Inserted
  <2>2. y[1] \in {"user", "grant"}
    BY Columns DEF UserRows
  <2>3. x[1] \in {"user", "grant"}
    BY <2>1, <2>2 DEF Clashes
  <2>4. host[g] \in Transacting /\ host[g] # "roles" /\ host[g] # "users"
    BY <1>2, <1>3, <2>1, <2>3 DEF HostWrote
  <2> QED
    BY <1>5, <2>4 DEF Depth, Transacting
<1>6. CASE RulesWait(h, g)
  <2>1. host[h] = "rules"
    BY <1>6 DEF RulesWait
  <2>2. tx[g].drops # {} \/ \E x \in tx[g].new : x[1] = "rule"
    BY <1>6 DEF RulesWait, KeepsRulesOf, KeepsGapOf
  <2>3. host[g] \in {"rules", "committing"}
    BY <1>2, <1>3, <2>2 DEF HostRules, HostWrote, Transacting
  <2> QED
    BY <1>6, <2>1, <2>3 DEF Depth
<1>7. CASE host[h] = "rules" /\ Inserted(g, ProviderRows \ View(h))
  <2>1. PICK x \in tx[g].new, y \in ProviderRows : Clashes(x, y)
    BY <1>7 DEF Inserted
  <2>2. x[1] = "provider"
    BY <2>1, Columns DEF ProviderRows, Clashes
  <2>3. host[g] = "committing"
    BY <1>2, <1>3, <2>1, <2>2 DEF HostWrote, Transacting
  <2> QED
    BY <1>7, <2>3 DEF Depth
<1> QED
  BY <1>4, <1>5, <1>6, <1>7 DEF HostWaits

\* A login waits only for one that is deeper.
LEMMA LoginsWaitDeeper ==
    ASSUME IInv, NEW l \in Logins, NEW k \in Logins, LoginWaits(l, k)
    PROVE  Depth(k) > Depth(l)
<1> DEFINE n == login[l].account
           p == login[l].profile
           r == DefaultRole[p.provider]
<1>1. LoginOK(k) /\ login[k].at \in LoginPlaces /\ l \notin Hosts /\ k \notin Hosts
  BY ProvisioningAssumption DEF IInv, TypeOK
<1>2. tx[k].new # {} => login[k].at \in {"creating", "assigning", "linking", "committing"}
  BY <1>1 DEF LoginOK, NoTx, LoginPlaces
<1>3. LoginWrote(k)
  BY <1>1 DEF LoginOK
<1>4. CASE login[l].at = "creating" /\ Inserted(k, {UserRow(n, p.email)})
  <2>1. login[k].at \in {"assigning", "linking", "committing"}
    BY <1>2, <1>3, <1>4 DEF Inserted, LoginWrote
  <2> QED
    BY <1>1, <1>4, <2>1 DEF Depth
<1>5. CASE login[l].at = "assigning" /\ Inserted(k, ({RoleRow(r)} \ View(l)) \cup {GrantRow(n, r)})
  <2>1. PICK x \in tx[k].new, y \in {RoleRow(r), GrantRow(n, r)} : Clashes(x, y)
    BY <1>5 DEF Inserted
  <2>2. x[1] \in {"role", "grant"}
    BY <2>1, Columns DEF Clashes
  <2>3. login[k].at \in {"linking", "committing"}
    BY <1>2, <1>3, <2>1, <2>2 DEF LoginWrote
  <2> QED
    BY <1>1, <1>5, <2>3 DEF Depth
<1>6. CASE login[l].at = "linking" /\ Inserted(k, {IdentityRow(Identity(p), n)})
  <2>1. PICK x \in tx[k].new : Clashes(x, IdentityRow(Identity(p), n))
    BY <1>6 DEF Inserted
  <2>2. x[1] = "identity"
    BY <2>1, Columns DEF Clashes
  <2>3. login[k].at = "committing"
    BY <1>2, <1>3, <2>1, <2>2 DEF LoginWrote
  <2> QED
    BY <1>1, <1>6, <2>3 DEF Depth
<1> QED
  BY <1>4, <1>5, <1>6 DEF LoginWaits

\* Seedings and logins never wait for each other: a login finds the defaults
\* committed, so that no seeding can insert one.
LEMMA KindsApart ==
    ASSUME IInv, SeedOnly, NEW h \in Hosts, NEW l \in Logins
    PROVE  ~HostWaits(h, l) /\ ~LoginWaits(l, h)
<1>1. h \in Txs /\ l \in Txs /\ l \notin Hosts
  BY ProvisioningAssumption DEF Txs
<1>2. Clashless(tx[h].new, db) /\ Clashless(tx[l].new, db)
  BY <1>1 DEF IInv, Unique
<1>3. CASE login[l].at = "idle"
  <2>1. tx[l].new = {}
    BY <1>3 DEF IInv, LoginOK, NoTx
  <2> QED
    BY <1>1, <1>3, <2>1 DEF HostWaits, LoginWaits, Inserted
<1>4. CASE login[l].at # "idle"
  <2>1. Defaults \subseteq db
    BY <1>4 DEF SeedOnly
  <2>2. \A x \in tx[l].new, y \in Defaults : ~Clashes(x, y)
    BY <1>2, <2>1, DefaultsAre DEF Clashless, Clashes
  <2>3. ~HostWaits(h, l)
    BY <1>1, <2>2, DefaultsAre DEF HostWaits, Inserted
  <2>4. \A x \in tx[h].new : x \in RuleRows
    <3>1. ASSUME NEW x \in tx[h].new, x \in Defaults PROVE FALSE
      <4>1. x \in db /\ x[1] \in Keyed /\ Clashes(x, x)
        BY <2>1, <3>1, DefaultsAre DEF Clashes
      <4> QED
        BY <1>2, <4>1 DEF Clashless
    <3> QED
      BY <3>1 DEF SeedOnly
  <2>5. \A x \in tx[h].new : x[1] = "rule"
    BY <2>4, Columns DEF RuleRows, ConfiguredRules, RulesFor
  <2>6. ~LoginWaits(l, h)
    BY <2>5, Columns DEF LoginWaits, Inserted, Clashes
  <2> QED
    BY <2>3, <2>6
<1> QED
  BY <1>3, <1>4

\* Who waits, waits for somebody deeper or over rules.
LEMMA WaitsDeeper ==
    ASSUME IInv, SeedOnly, NEW t \in Txs, NEW u \in Txs, WaitsFor(t, u)
    PROVE  /\ t \in Hosts <=> u \in Hosts
           /\ \/ Depth(u) > Depth(t)
              \/ t \in Hosts /\ RulesWait(t, u) /\ host[u] = "rules"
<1>1. \/ t \in Hosts /\ u \in Hosts /\ HostWaits(t, u)
      \/ t \in Logins /\ u \in Logins /\ LoginWaits(t, u)
  BY KindsApart DEF WaitsFor, Txs
<1>2. t \in Logins => t \notin Hosts
  BY ProvisioningAssumption
<1>3. u \in Logins => u \notin Hosts
  BY ProvisioningAssumption
<1> QED
  BY <1>1, <1>2, <1>3, HostsWaitDeeper, LoginsWaitDeeper

\* Depths are few: a set whose members each wait for a deeper one is empty.
LEMMA NoneDeeperForEver ==
    ASSUME NEW S, \A t \in S : \E u \in S : Depth(u) > Depth(t)
    PROVE  S = {}
<1>1. \A t \in S : Depth(t) \in 0..4
  BY DEF Depth
<1> HIDE DEF Depth
<1>2. \A t \in S : Depth(t) \in 0..3
  BY <1>1
<1>3. \A t \in S : Depth(t) \in 0..2
  BY <1>1, <1>2
<1>4. \A t \in S : Depth(t) \in 0..1
  BY <1>1, <1>3
<1>5. \A t \in S : Depth(t) \in 0..0
  BY <1>1, <1>4
<1> QED
  BY <1>1, <1>5

\* The logins of a circle would each wait for a deeper one; so would its
\* seedings, if none of them waited over rules.
LEMMA CirclesAreSo ==
    ASSUME IInv, SeedOnly
    PROVE  CirclesAreOfRules
<1> SUFFICES ASSUME NEW S \in SUBSET Txs, S # {}, \A t \in S : \E u \in S : WaitsFor(t, u)
             PROVE  S \subseteq Hosts /\ Circle(S \cap {h \in Hosts : host[h] = "rules"})
  BY DEF CirclesAreOfRules, Txs
<1> DEFINE R == S \cap {h \in Hosts : host[h] = "rules"}
<1>1. S \subseteq Hosts
  <2> DEFINE L == S \ Hosts
  <2>1. \A t \in L : \E u \in L : Depth(u) > Depth(t)
    BY WaitsDeeper
  <2>2. L = {}
    BY <2>1, NoneDeeperForEver
  <2> QED
    BY <2>2
<1>2. \A t \in S : Depth(t) \in 0..4 /\ (Depth(t) = 3 <=> host[t] = "rules")
                   /\ (Depth(t) = 4 <=> host[t] = "committing")
  BY <1>1 DEF Depth
<1>3. \A t \in S : host[t] # "committing"
  BY <1>1, ProvisioningAssumption DEF WaitsFor, HostWaits, RulesWait
<1>4. R # {}
  <2>1. SUFFICES ASSUME R = {} PROVE FALSE
    OBVIOUS
  <2>2. \A t \in S : \E u \in S : Depth(u) > Depth(t)
    BY <1>1, <2>1, WaitsDeeper
  <2> QED
    BY <2>2, NoneDeeperForEver
<1>5. ASSUME NEW h \in R PROVE \E g \in R : RulesWait(h, g)
  <2>1. PICK g \in S : WaitsFor(h, g)
    OBVIOUS
  <2>2. Depth(g) > Depth(h) \/ (RulesWait(h, g) /\ host[g] = "rules")
    BY <2>1, WaitsDeeper
  <2>3. ~(Depth(g) > Depth(h))
    <3>1. Depth(h) = 3 /\ Depth(g) \in 0..4 /\ Depth(g) # 4
      BY <1>2, <1>3
    <3> HIDE DEF Depth
    <3> QED
      BY <3>1
  <2> QED
    BY <1>1, <2>2, <2>3
<1> QED
  BY <1>1, <1>4, <1>5 DEF Circle

\* Nobody waits in a circle but seedings over the rules they replace, whatever
\* the number of processes and logins, and each such circle holds one of rules
\* alone: when the database ends a transaction of that, whoever is left can go
\* on (the order of the statements in DataSeeder.seed and login_federated).
THEOREM OnlyRulesMakeCircles == Spec => []CirclesAreOfRules
<1>1. Init => SeedOnly
  BY SeedOnlyInitially
<1>2. IInv /\ SeedOnly /\ [Next]_vars => SeedOnly'
  BY SeedOnlyInductive
<1>3. IInv /\ SeedOnly => CirclesAreOfRules
  BY CirclesAreSo
<1> QED
  BY <1>1, <1>2, <1>3, Invariance, PTL DEF Spec
-----------------------------------------------------------------------------
(* What is taken back *)

\* A step that changes the committed rows is a commit, of a process that then
\* serves or of a login.
LEMMA CommitsChange ==
    ASSUME [Next]_vars, db' # db
    PROVE  \/ \E h \in Hosts : SeedCommits(h)
           \/ \E l \in Logins : LoginCommits(l)
BY DEF Next, vars, SeedingSteps, Seeding, CreatesTables, SeedsRoles, SeedsUsers, DeletesRules, WritesRules,
       SeedsProviders, Ensures, Starts, SeedBreaks, Stops, LoginSteps, LoggingIn,
       Creates, Assigns, Links, Flushes, HandsOut, Presents, LoginBreaks

\* Nothing that was committed is taken back, by a login, a rollback or a broken
\* transaction, except the old rules of a target, and these only by a process
\* that begins to serve with rules of its own for that target
\* (replace_server_access, replace_tool_access).
THEOREM OnlyOldRulesAreWithdrawn ==
    Spec => [][\A x \in db \ db' :
                  /\ x[1] = "rule"
                  /\ \E h \in Hosts : /\ host[h] = "committing" /\ host'[h] = "serving"
                                      /\ x[2] \in DOMAIN RulesOf[h]]_vars
<1>1. ASSUME IInv, [Next]_vars, NEW x \in db \ db'
      PROVE  /\ x[1] = "rule"
             /\ \E h \in Hosts : /\ host[h] = "committing" /\ host'[h] = "serving"
                                 /\ x[2] \in DOMAIN RulesOf[h]
  <2>1. ASSUME NEW h \in Hosts, SeedCommits(h)
        PROVE  /\ x[1] = "rule"
               /\ host[h] = "committing" /\ host'[h] = "serving"
               /\ x[2] \in DOMAIN RulesOf[h]
    <3>1. host[h] = "committing" /\ Commit(h) /\ host'[h] = "serving"
      BY <1>1, <2>1 DEF SeedCommits, HostMoves, IInv, TypeOK
    <3>2. tx[h].drops = DOMAIN RulesOf[h]
      BY <1>1, <3>1 DEF IInv, HostOK, HostRules
    <3> QED
      BY <1>1, <3>1, <3>2 DEF Commit
  <2>2. ASSUME NEW l \in Logins, LoginCommits(l) PROVE FALSE
    <3>1. tx[l].drops = {}
      BY <1>1 DEF IInv, LoginOK, LoginWrote
    <3> QED
      BY <1>1, <2>2, <3>1 DEF LoginCommits, Commit
  <2> QED
    BY <1>1, <2>1, <2>2, CommitsChange
<1>2. IInv /\ [Next]_vars =>
         [\A x \in db \ db' :
             /\ x[1] = "rule"
             /\ \E h \in Hosts : /\ host[h] = "committing" /\ host'[h] = "serving"
                                 /\ x[2] \in DOMAIN RulesOf[h]]_vars
  BY <1>1
<1> QED
  BY <1>2, Invariance, PTL DEF Spec
=============================================================================

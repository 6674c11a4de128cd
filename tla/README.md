# Enterprise MCP Host in TLA+

A model of the MCP host under `src/app`: the state its request handlers, worker
threads and command line share, the order in which they touch it, and what must
hold whatever that order is. TLC checks the modules on small instances; TLAPS
proves the main invariants for every value of the constants.

- [1. The system](#1-the-system)
- [2. Modules](#2-modules)
- [3. Runs](#3-runs)
- [4. Bounds](#4-bounds)
- [5. Fairness](#5-fairness)
- [6. Proofs](#6-proofs)
- [7. What the runs found](#7-what-the-runs-found)
- [8. Not modelled](#8-not-modelled)
- [9. Plan](#9-plan)

## 1. The system

One process holds one `Host`. The web front end serves many requests on one event
loop and sends blocking work to worker threads; the command line is a second
front end with a process of its own. Both share the database.

| Part | State | Operations | Meets |
| --- | --- | --- | --- |
| Server connections (`server_manager.py`, `mcp_client.py`) | the table `connections`; each connection's session, transport and exit stack | connect, disconnect, shutdown, list, call | every handler, through the table |
| Discovery (`tool_manager.py`, `resource_manager.py`, `prompt_manager.py`) | one catalog each | refresh, list, execute | iterates the table across awaits |
| Web handlers (`routes.py`) | none of their own | one coroutine per request | all of the above, the audit log, the sessions |
| Authorization (`authorization_service.py`) | none (rules in the database) | permission, server and tool checks | connect, disconnect, refresh, execute |
| Document knowledge base (`document_store.py`) | upload directory, SQLite vectors, JSON index, the embedding lock | add, list, search, embed | worker threads only, no lock on the files |
| Semantic cache (`cache_manager.py`) | a list of entries | lookup, store, sweep, limit | chat turns, with a key made of the table and the catalog |
| Chat turn (`chat_manager.py`, `langgraph_agent.py`) | locals of a turn | respond: model, tools, fallback, rows | tools, documents, cache, history |
| Chat history (`repositories.py`, `database.py`) | table `chat_messages` | add, list recent | one database session per turn |
| REST adapter (`rest_adapter.py`) | none | connect (a probe), invoke with retries | a remote service over HTTP; `call_tool` sets a deadline |
| Sessions (`session_store.py`, `auth_service.py`, `session_manager.py`) | the store of sessions; the CLI's current one | login, get, logout | every handler; threads for login and logout |
| Command line (`menu.py`, `main.py`) | the current session | login screen, menu, commands | the host, one user at a time |
| Audit log (`host.py`, `repositories.py`) | table `audit_logs` | add | most handlers, in a thread |
| Identity federation, seeding (`auth_service.py`, `configuration.py`) | users, roles, rules, identities: rows with unique columns | login_federated, seed | each other's transactions, of threads and of other processes |
| Database sessions and pool (`database.py`) | the tables, the engine's connections | create_schema, session | held across awaits by chat and tool handlers, taken by worker threads |

What is hard here, and what each part must guarantee:

- **Connections and discovery.** A handler suspends during the handshake, the
  closing of a session, every listing and every audit record; meanwhile other
  handlers change the table it iterates. *The table must offer open connections
  only; a half-open one must have exactly one handler; at rest the catalogs must
  agree with the table; handlers must end.*
- **Documents.** Uploads run in threads; the index is read before the embedding and
  written after it, in place. Calls fail and the process may die anywhere. *What
  is listed, acknowledged or searched must exist; committed vectors stay.*
- **Cache.** The key is computed at the lookup and again at the store, with an
  embedding and a whole agent run in between. *An answer must go to the asker it
  was given to, fresh, and the cache must keep its limit.*
- **Chat turns.** The model may ask for tools for ever, fail, or stop after tools
  ran; errors meet a transaction that may be broken. *A turn must end; one that the
  agent answered must be recorded once, any other not at all, and each must read a
  memory of whole turns.*
- **REST calls.** A request that timed out may still be processed, also after the
  caller was told it failed. *The service must see a bounded number of requests,
  and each outcome must have its cause.*
- **Database.** Two processes seed the same tables and two first logins create the
  same account, each from a snapshot that may be old; a transaction breaks at any
  insert, and processes that replace the same rules may wait for each other. *Accounts
  must be whole, an identity must keep its account, a process must serve over all its
  defaults, transactions must end.* A turn keeps its connection over all its awaits while
  another request waits for one on the event loop. *The loop must not stop for ever.*
- **Sessions.** Logins and logouts run in threads while requests check and touch
  sessions, reading the clock once for each. *A session that is gone or had expired when
  it was checked must stay so, and the audit log
  must tell who came and went.*

`PROJECT.json` lists these hazards line by line with the properties for each.

## 2. Modules

```
Authorization <-- McpHost <-- MCMcpHost          SessionStore <-- WebSessions <-- MCWebSessions
                  McpHost_proofs                              |   WebSessions_proofs
                                                              <-- CliSession <-- CliSession_proofs
ConnectionLife <== McpHost
KnowledgeBase  <== DocumentStore <-- DocumentStore_proofs
Accounts       <== Provisioning  <-- MCProvisioning
                                    Provisioning_proofs
SemanticCache <-- MCSemanticCache                ChatTurn    <-- ChatTurn_proofs
                  SemanticCache_proofs           RestAdapter <-- RestAdapter_proofs
                       (<-- EXTENDS, <== refines)
```

The MC modules give records, functions and symmetry sets to the constants that
need them; the other modules are checked as they stand.

A definition named by `Mutant:` in its comment is a wrong version of the one that
follows; no specification uses it. Substituting it must break the property named
in `PROJECT.json`.

**McpHost** (with **Authorization**). `status` is the life of each
`MCPServerConnection`, `connections` the table, `catalog` the three managers'
lists counted up to "twice", `task` the suspended handlers, `stopping` the
lifespan. What lies between two awaits that really suspend is one step. `Connect`,
`Connected`, `ConnectFails`, `FailedCloses` follow `connect` through the handshake
and its error path; `Disconnect`, `Closed` pop first and close afterwards;
`Sweep` is the loop of a refresh with the dictionary's iterator (`seen`, `size`,
`len`): a table that changed its size, or that has other keys after as many were
yielded as it had, ends the refresh with the `RuntimeError` Python raises
(`SizeChanged`, `KeysChanged`); `Execute` to `Report` run a tool; the `Shutdown` actions are
the lifespan's exit. A service connection closes without suspending, an MCP
session does not. `stdio`, the servers that are sessions over a subprocess, and `faults`
are fixed at the start, one of the `Deployments`: in some behaviours audits, closings
and listings may fail, in others none does, and only of those is the catalog at rest
expected to be right (a handshake may fail in all).

**ConnectionLife** is what `McpHost` promises of each connection object: opened once,
offered by the table only from the end of its handshake, taken out of the table before
it is closed, opened again only after that, and at shutdown closed if the table still
offers it. It does not promise that an object replaced in the table is ever closed.
`LivesAreKept` is the refinement: `life <- status`, `offered <-` the objects in the
table, `serving <-` the lifespan has not ended.

**DocumentStore** and **KnowledgeBase**. `files`, `vectors`, `index` are what is on disk;
`index` may be `Torn`. Every file operation, transaction and lock operation of a thread is
a step, or fails; `SaveRaises` may leave a part of the file. `known` is the copy of the
index an upload loaded. Two threads that have the index open at once (`clash`) may leave a
mixture. `Crash` keeps the disk and loses the threads. `KnowledgeBase` is the promise to
the users (a document is searchable before it is acknowledged and for ever after), and
`Implements` is the refinement: `searchable <- vectors`, `listed <- index`, `acknowledged
<-` the uploads that returned.

**SemanticCache**. A turn is `looking` while its text is embedded, `thinking` while the
agent runs, `storing` while the text is embedded again. The key is an asker (user and
session) with a context (names of servers and tools), which `Reconfigure` changes at any
time. `stored` is the moment a turn stored its answer, which `ServedFresh` holds against
the moment another turn is served it. `Matches`/`IsBest` are the lookup's loop, with its
preference for the first of equal scores; `EnforceLimit` the stable sort by expiry;
`stamp` stands for the place in the list.

**ChatTurn**. `turn` holds where a request is: the model, a tool call, the fallback
selection, the rephrasing, the store. `steps` counts the supersteps of the graph against
the recursion limit; `Ends` adds the two rows and commits, or loses both. A turn is `done`
or `failed` when the agent answered it, with an answer or with its error, and leaves its
rows; it is `told` when the host answered in its place, before the agent (a message of
blanks) or when a package is missing, and leaves none (`Reads`, `Errs`). `ListRecent` is
the query of the history, the ids of the rows that have fewer than the limit before them
in their chat, and `memory` are the ids a turn has read. `Earlier` are turns whose rows
are in the table when the process starts. A turn holds a connection of the engine from its
first query to its end, and so do the `holder`s, the handlers that await a server between
two queries; `threads` counts the connections of worker threads. Who finds none `Free` is
`waiting` on the event loop itself, so nothing else of the loop runs (`LoopFree`) until
the wait ends with a connection or with the pool's error (`StallEnds`).

**Provisioning** and **Accounts**. `db` is the set of committed rows, each a tuple
that begins with its table; `tx` holds for each process and each login what its
transaction saw at its first query (`snap`), has inserted (`new`) and has deleted
(`drops`). `Duplicate`, `Clashes` and `Unlocked` are the unique columns: an insert
waits for an open transaction with the same value and raises over a committed one.
A `host` seeds when it starts and then serves; a `login` is one call of
`login_federated`, one step per flush. The seeding takes a step for the roles, one for
the users and one for the providers, and for the rules one per statement: the DELETEs
run at once, server by server and tool by tool in the order of the configuration
(`DeletesRules`, `Turn`), the INSERTs at the next flush in an order of their own
(`WritesRules`). A DELETE keeps the rules it found, and the gaps of the index around
the target also when it found none (`KeepsRulesOf`, `KeepsGapOf`; `Near` says which
targets adjoin), so that two processes may wait for each other (`RulesWait`, `Circle`)
until the database ends one of them (`BreaksCircle`).
`SeedBreaks` and `LoginBreaks` end a transaction from outside: a lock wait, a
deadlock over locks of updated rows, a lost connection, a killed process. `MixedRow`
stands for the update of an account's `auth_source`, which creates nothing that could
clash. `Accounts` is the promise: an identity is linked to one account for ever, and
sessions handed out for it are of that account (`owner <- Owner`, `given <- Given`).

**RestAdapter**. `call` is one invocation with its attempt and the request of that
attempt; `stray` counts requests given up on that may still arrive, `served` what
the service processed. `Probes` are the invocations of `connect`, which no
`wait_for` bounds.

**SessionStore**, **WebSessions**, **CliSession**. The store is a set of ids and the time
each session object was last seen, which outlives its place in the store. `get` reads the
clock to check a session and again to touch it: a session that expires in between is
touched. In `WebSessions` the lookup, the check and the touch are three steps, as time may
pass and a logout in a thread may run in between, but no two requests are between them at
once: `current_session` runs on the event loop; a session has `Lapsed` when it is expired
and no request has passed the check. `CliSession` follows `async_main` and the menu: where
an error is caught, and where it ends the program.

## 3. Runs

| Run | What it explores | What it shows |
| --- | --- | --- |
| `host_overlap` | two overlapping handlers, two connection objects, handshakes that fail; audits, closings and listings that fail, or that do not | `TypeOK`; `TrackedIsOpen`: the table only offers open connections; `SoleOwner`: whatever is half open or half closed has one handler; `CatalogComplete`, `CatalogSound`: at rest, without failures, the catalogs list the tracked servers, all and only them (only: while no connection was overwritten); `HandlersEnd`: a handler whose own listings are each answered ends, however often the other changes the table |
| `docs_uploads` | three uploads, a query, a crash, all failures | `TypeOK`, `IndexedIsBacked`, `SearchIsBacked`, `Implements`; `UploadsEnd`: no failure keeps the embedding lock |
| `cache_turns` | three turns of two askers, two contexts, time | `TypeOK`, `ServedWasGiven`, `Bounded`, `EvictsEarliest`; `ServedFresh`: an answer is served within the lifetime of the moment it was stored, whoever was served it before |
| `chat_turns` | two requests in two chats, after an earlier turn or none; everything may fail; a pool of two, another handler, worker threads | `TypeOK`, `MemoryIsWhole`, `FallbackIsFirst`, `TurnsEnd`; `RecordedOnce`: rows exactly of the turns the agent answered; `LoopRunsAgain`: holders and waiters of the pool do not stop each other for ever |
| `rest_calls` | two invocations, one without a deadline, a network that loses and delays | `TypeOK`, `EffectsBounded`, `OutcomeIsEarned`, `InvocationsEnd` |
| `web_sessions` | four requests of two browsers, time, failing records | `TypeOK`, `GoneStaysGone`, `LogoutIsFinal`, `CookieIsRecorded`; `ExpiredStaysExpired`: what no request had found alive when it expired stays expired |
| `cli_session` | three logins, time at every prompt, failing records | `TypeOK`, `OneSession`, `VisitsAreRecorded`, `ExpiredStops` |
| `provisioning` | two processes with different rules for two servers, listed in different orders, two logins of three profiles; any transaction may break | `TypeOK`; `AccountsAreWhole`: a committed account has its role and its identity; `ServingIsSeeded`: who serves finds every default and the rules of one configuration; `Implements`: `Accounts`; `TransactionsEnd`: every transaction ends, two that wait for each other by the hand of the database |
| `host_shutdown`, `docs_listed`, `cache_context`, `chat_recent` | expected violations | see section 7 |

Deadlock is checked in the runs of `McpHost`, `DocumentStore`, `SemanticCache` and
`Provisioning`.
`ChatTurn`, `RestAdapter` and the two session modules have requests that are made
once, a clock with a bound and a command line that exits: they stop by design and
their configurations say `CHECK_DEADLOCK FALSE`. In
`McpHost` a request that ended may be made again; in `DocumentStore` queries never
run out; in `SemanticCache` the contexts keep changing; in `Provisioning` a process
may always start, stop or break.

## 4. Bounds

- `McpHost`: two servers, of which one or both are sessions (a service closes and
  lists without suspending), three `Deployments` of these and of the failures, two
  handlers and two connection objects. A conflict needs a handler that iterates or
  waits and one that changes the table; each may have a connection half open, or one
  is overwritten while another is tracked. Objects nobody refers to are reused. What a
  third handler or more of them add is covered by the proofs, which bound neither.
  Catalog entries are counted to two: "more than once" is what a property tells apart.
- `DocumentStore`: three uploads, so that an upload can lose to two others, one
  query against their lock, and `MaxCrashes = 1`: a second crash starts from disk
  states the first one reaches already.
- `SemanticCache`: texts of which two are similar and one is embedded as a zero
  vector; `MaxEntries = 2` with three turns overflows; `TTL = 2`, `MaxTime = 3`
  lets entries expire while a turn waits, on the tick and one past it.
- `ChatTurn`: the history limit of 12 is scaled to 2, one turn, so that a second
  turn overflows it (`MemoryIsWhole` depends on its being even); two requests
  overlap or follow each other, after a turn of an earlier process or none. The
  recursion limit of 8 is scaled to 4: two rounds of the model and its tools, and
  the cut. `MaxCalls = 2` tool calls in one message, so that one can fail after
  another ran. A pool of two connections is the smallest in which some are held and
  some free while a third asker waits, and one holder beside two turns fills it.
- `RestAdapter`: two retries: a first, a middle and a last attempt.
- `Provisioning`: two processes of one configuration file each, with the same two servers
  in opposite orders, adjoining in the index, and different rules for them, so that a
  mixture would show and both kinds of circle occur (DELETE against DELETE in the order of
  the lists, INSERT against the gap of the other's DELETE); two logins, as every conflict
  is of two transactions. The three profiles are one identity with two e-mail addresses,
  one of them a default user's, and a namesake of another domain; the provider's default
  role is one that no seeding writes, so that logins create it. Several providers and
  targets are left to the proofs.
- Sessions: `Timeout = 1` and `MaxTime = 3` (5 for the command line): within, at and past
  the timeout, twice. Two or three session ids.

## 5. Fairness

Weak fairness, and only for what the program or its environment must do: the event
loop runs a ready coroutine, a thread runs on, a database call returns or raises, a
tool call ends by its timeout, the embedding model and the language model answer or
fail, `httpx` ends an attempt by its timeout, a sleep ends, and a wait for the pool
ends by its default timeout if not before. None is assumed for the arrival of requests,
for users, for the handshake, the closing and the listings of MCP sessions (nothing
bounds them), or for the order in which `threading.Lock` serves its waiters. That the
models answer, and that an attempt ends as a whole although `httpx` bounds each of its
operations only, are assumptions about the environment.

`HandlersEnd` and `UploadsEnd` therefore have premises: the handler's own listings are
answered, and queries eventually pause. The first is part of the property, per handler
(`WF_vars` of its two answers): a server that stays silent keeps the handler that asked
it and, the run shows, no other. Reconnects cannot keep a loop going, as the dictionary
raises once it has yielded as many keys as it had.

`Provisioning` alone assumes strong fairness, for each process and each login: an
insert that waits for another's row is enabled again and again as transactions come
and go, and gets its turn because the locks of the database queue. Processes that wait
for each other over their rules end because InnoDB detects the circle and rolls one
back: weak fairness of `BreaksCircle`, which speaks of these circles only.
`OnlyRulesMakeCircles` proves that there are no others. No fairness is assumed for any
other breaking of a transaction (`SeedBreaks`, `LoginBreaks`).

## 6. Proofs

All theorems hold for every value of the constants that the modules' `ASSUME`s
admit. None bounds a set; where a model counts, the set counted is finite (the
servers, keys of a dictionary, and the askers of a bounded pool).

- **McpHost_proofs**: all five invariants of `host_overlap`. `TrackedIsOpen` is not
  inductive: nothing in it says that the connection a handler is about to close is
  no longer in the table. The invariant adds that a handler in its handshake or its
  close owns a connection in the matching state (`Owned`), that no two own the same
  (`Exclusive`), that every half-open connection is owned (`HasOwner`), that a
  connection serves one server (`OneServer`), and that shutdown starts with no
  handler running (`Quiet`). The catalogs are wrong most of the time while handlers
  run, so `CatalogsAreComplete` and `CatalogsAreSound` rest on a promise (`Mended`):
  an entry that is missing has a handler that will list it (`WillList`), one that is
  in excess has a handler that will clear its list (`WillClear`). A sweep keeps its
  promise only while the table has the keys it iterates with
  (`OnCourse`); one that loses its course was overtaken by a handler that changed
  the table and refreshes afterwards. `HandlersOnlyAdvance` orders what a handler has
  before it (`Level`: handshake, closing, record, the three listings, response, and
  within a listing the keys its iterator still expects) and shows that every step of a
  handler descends: what others do to the table changes at most which keys the iterator
  has passed, never how many it expects.
  `HostKeepsLives` is the refinement of `ConnectionLife`: one step of a handler is one
  step of one connection, by `Owned` and `HasOwner`, and since a connection serves one
  server (`OneServer`) a change of the table offers or withdraws just that one
  (`TableChanges`).
- **DocumentStore_proofs**: the invariants of `docs_uploads`, and
  `StoreImplementsPromise`, the refinement of `KnowledgeBase`, step by step; also
  `AckedIsSearchable` and `VectorsOnlyGrow`, which no run states because the
  refinement contains them. The invariant places each document: where its upload is
  decides whether its file and its vectors exist (`Placed`), and every copy of the
  index and every row a query read lies within the vectors (`Backed`).
  `LockFollowsEmbedding`: the embedding lock is held by the one who embeds and by nobody
  otherwise, whatever raises or crashes. `UploadsOnlyAdvance`: the places of an upload
  have an order (`Stage`) that every step ascends.
- **SemanticCache_proofs**: all five properties of `cache_turns`, and
  `StoresSweepExpired`, which no run states. Every entry was stored by a turn that
  ended with an answer for the owner and text of the entry, and expires a lifetime after
  the moment that turn stored it (`EntriesGiven`); a turn past its start has its locals
  filled (`Filled`). `CacheIsBounded` and
  `EvictionsTakeTheEarliest` count: a store exceeds the limit by one at most, and
  the order of the sort has a first entry (`OneIsFirst`, from the well-founded order
  of finite sets) and, since stamps differ and no entry outlives one stored now
  (`Stamped`), no second one.
- **ChatTurn_proofs**: all four invariants of `chat_turns`. Each turn is well shaped;
  one that has not ended is below the recursion limit, and a tool that ran left the
  message that keeps the turn from the selection (`Sound`). Rows are counted by the
  cardinality of their places in the table, which a turn's end extends by two.
  `MemoriesAreWhole` says that the table is a sequence of exchanges, a question at each
  odd place and its answer at the next (`WholeTurns`), of which every chat has an even
  number of rows up to each even place; so an even limit never falls between a question
  and its answer (`RecentIsWhole`), and what a turn has read stays whole while others
  append (`Whole`). Its hypothesis, `IsEven(HistoryLimit)`, is the 12 of the code; for an
  odd limit the property is false. `HistoryGrowsByTurns`: rows are only appended, the two
  of one turn together. `PoolIsNeverOverdrawn` counts who holds a connection (`Pooled`).
  `TurnsOnlyAdvance`: every step makes a superstep, or goes to a later place of the same
  one, or leaves a tool call less to run (`Further`).
- **Provisioning_proofs**: the three invariants of `provisioning`, and
  `LoginsImplementAccounts`. The invariant adds that unique values are unique over the
  committed rows and all open transactions together (`Unique`), that what a transaction
  read is still in the database (`Reads`: only rules are ever deleted), and for each
  place of a process or a login what its transaction has written or seen by then
  (`HostOK`, `LoginOK`), so that a commit keeps the accounts whole (`AccountsOK`).
  `OnlyRulesMakeCircles`: whoever waits for a unique value waits for a transaction that
  is deeper in the order of the statements (`Depth`), and a seeding and a login never
  wait for each other, as a login only starts over committed defaults and a seeding
  inserts nothing else (`SeedOnly`); so a circle of waits, of whatever number of
  transactions, has no login in it and contains a circle over rules, which the database
  breaks. `OnlyOldRulesAreWithdrawn`: the one kind of row that
  ever leaves the database is a rule, by the commit of a process that configures its
  target.
- **RestAdapter_proofs**: `EffectsAreBounded`, `OutcomesAreEarned`. The invariant
  speaks of one call: requests processed, stray and under way together are at most
  the attempts begun. `InvocationsOnlyAdvance` counts two steps for each attempt, the
  request and the sleep after it (`Stage`).
- **WebSessions_proofs**: all five properties of `web_sessions`. The store alone gives
  `GoneStaysGone`, once every handler is known to act on an id that was made (`IdsKnown`);
  `ExpiredStaysExpired` also needs that only a request that passed the check touches
  (`OnlyAliveTouches`) and only a live session passes (`OnlyLivePass`); `LogoutIsFinal`
  and `CookieIsRecorded` need that each record tells how far its request has got
  (`RecordsPlaced`), and that a logout past its removal has an id that is gone
  (`LeftGone`).
- **CliSession_proofs**: `OneSessionAtATime`, `VisitsRecorded`. They are inductive
  together once the store is known to hold only sessions that were made
  (`SessionsMade`): a logout would otherwise record one that never logged in.
  `ExpiredGetsNowhere`: a use of an expired session raises, so the program stays, ends or
  turns to its error handler, and the session remains the current one and expired (its
  clock runs on; touching needs one that was alive at the check). `SessionsGoneStayGone` is
  the property of the web front end's store for the command line's.

Every invariant and action property of the passing runs is stated by a theorem. Only
model-checked are the seven liveness properties (`HandlersEnd`, `UploadsEnd`, `TurnsEnd`,
`LoopRunsAgain`, `InvocationsEnd`, `ExpiredStops`, `TransactionsEnd`), since fairness and
`ENABLED` are out of the prover's reach. Of all but `LoopRunsAgain` the part that is a
safety property is proved: that steps only lead forward in a bounded order
(`HandlersOnlyAdvance`, `UploadsOnlyAdvance`, `TurnsOnlyAdvance`,
`InvocationsOnlyAdvance`, `ExpiredGetsNowhere`) or that someone can always go on
(`OnlyRulesMakeCircles`). That the steps are enabled and taken is what TLC adds.

No run lists `LivesAreKept`, `LockIsHeld`, `CirclesAreOfRules` and the theorems that only
speak of steps: they are proved, the first three after TLC found them to hold on the
instances of `host_overlap`, `docs_uploads` and `provisioning`.

## 7. What the runs found

Each is a run that TLC must find violated; `PROJECT.json` quotes the line of the
repository the property states.

- `host_shutdown` (`ShutdownClosesAll`): a second connect of a connected server overwrites its entry;
  the first connection, with its subprocess, is never closed by shutdown.
- `docs_listed` (`AckedStaysListed`): an upload saves the index it read before it embedded; a document
  acknowledged in between is no longer listed (it can still be searched).
- `cache_context` (`ContextScoped`): an answer is stored under the servers and tools of the moment it
  was ready, not of the moment it was asked.
- `chat_recent` (`HistoryIsRecent`): "the most recent turns" are the oldest ones, once a chat is longer
  than the limit.

The models contain three more behaviours that no run singles out: two
overlapping refreshes both clear a shared list and then both extend it, so a
resource or prompt is listed twice (`catalog` reaches "twice"); two uploads that
write the index at once may leave a `Torn` file, after which listing and uploading
raise; and a lost turn (`lost`) has run its tools but leaves no row.

## 8. Not modelled

The contents of messages, tools, prompts and documents; chunking, ranking and file
formats; rendering and wording; settings and configuration files, read once; JSON
web tokens, issued and never read again; passwords and logging. `CacheManager`'s
exact cache, `AuthenticationService.refresh` and `SSOService.begin_login`
have no caller in `src/`; the table of login attempts that the last one writes has no
reader. A server process that dies on its own appears only as a listing or call that
fails.

External, modelled from how the code uses it: the service behind `httpx` (`served`,
`stray` and its actions in `RestAdapter`); the database's unique indexes, its locks and
its ending of transactions (`Clashes`, `Unlocked`, `Duplicate`, `RulesWait` and the
`Breaks` actions of `Provisioning`); and whoever calls `login_federated`, which has no
caller in `src/` yet. `Provisioning` assumes MySQL with the isolation it starts with,
REPEATABLE READ, as `database.py` sets none. It takes three liberties. `create_all` is one
step: a crash between two of its statements, which each commit, may leave a table without
its unique index, and the next start would not add it. A DELETE locks what the index on
the name leads it to, not the whole table. And the rules of a flush are inserted before
the provider of the same flush. SQLAlchemy, FastAPI, the MCP library and LangGraph appear
only through the steps of the code that calls them.

`time.time()` and the clock of the sessions never run backwards in the models.

Six hazards of `PROJECT.json` have no property, each with its reason: a listing without
a timeout (`HandlersEnd` states its answer as a premise), an audit record that fails
between a change of the table and its refresh and a stored file or a part of one that
nothing refers to after a failed upload (both modelled, and excluded by nobody), the
statements of `create_all`, a chunk overlap as large as the chunk, and a negative number
of retries (the last two are data of the deployment; `RestAssumption` states the
precondition of the second). Three more are covered in part, and say so: entries that
two refreshes list twice, an index that two writers leave torn, and requests that end
in the pool's error while a server stays silent.

## 9. Plan

What would extend the project, in this order:

1. Pure algorithms: the chunking window, cosine ranking and argument parsing,
   each against a reference definition over bounded inputs.
2. An abstract life of a session (made, alive, expired, gone), and both front ends
   shown to implement it.
3. `ChatTurn` with the cache and the table composed: what a turn may hold while its
   server disconnects.
4. Proofs: what a `Torn` index comes from, two writers that had it open at once or a
   crash of one, and that nothing else leaves it so.

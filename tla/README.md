# The localLOOP backend in TLA+

TLA+ modules beside the source of the localLOOP backend (`src/`): a Fastify server on
PostgreSQL, Redis and two Server-Sent-Events streams. The modules model what the server does
between one `await` and the next; TLC checks them on small instances, TLAPS proves the properties
that matter most for every value of the constants. `PROJECT.json` maps every definition to the
lines it stands for.

    tlc -config LoopRivals.cfg MCLoopRegistry.tla     # model-check one run
    tlapm LoopRegistry_proofs.tla                     # check the proofs of one module

Contents: [the system](#the-system), [modules](#modules), [runs](#runs), [fairness](#fairness),
[proofs](#proofs), [findings](#where-the-code-and-its-words-part), [limits](#what-is-not-modelled),
[plan](#plan).

## The system

One Node process serves HTTP. Handlers run one at a time, from one `await` to the next; nearly
every `await` is one SQL statement, and each statement is its own transaction (there is no
`BEGIN` in any route). State that outlives a request is in Postgres (tables, one materialized
view), in Redis (the BullMQ queue) or in module variables (stream clients, keep-alive timers,
counters), which die with the process. `docker-compose.yml` restarts a process that exits.

| component | code | state it keeps | operations | what must be right |
|---|---|---|---|---|
| loop registry, writes | `src/routes/loop.ts`, `src/db/loop.ts`, `src/security/apiKey.ts`, `src/metrics.ts` | five entity tables, `loop_events`, counters | POST material, product, offer, match, transfer, material-status, relay | references and subjects agree although they are checked an await before the insert; one announcement per entity; an answer means what it says |
| schema | `src/db/migrations/007`, `009`, `010` | primary and foreign keys, checks | none | what the handlers rely on when they race |
| loop registry, reads | `src/routes/loop.ts`, `src/db/loop.ts` | none | GET by id, lists, events | a list and a stream together miss nothing; no limit lists more than its cap |
| streams | `src/realtime/*.ts` | set of clients, map of timers | register, refuse, keep-alive, close, broadcast | limit, no leaked place, same order for all |
| migration and start | `src/db/migrate.ts`, `src/db/wait.ts`, `src/server.ts`, `src/index.ts` | `schema_migrations`, the schema | wait, read, apply, commit, listen | each file once and in order, with several processes and failures |
| lab seed | `scripts/seed-lab.ts` | the tables above | TRUNCATE, then insert row and event | correct next to a live server |
| interest | `src/routes/interest.ts`, `src/db/interest*.ts`, `src/queue/index.ts` | `interests`, its search view and sequence, the queue, `interest_events` | submit, search, enqueue, job | found by search, logged in the end, not without end |
| SQLite import | `scripts/import-sqlite.ts` | `interests` | one transaction | rows kept, later submissions unharmed |
| federation | `src/routes/federation.ts`, `src/federation/registry.ts`, `src/db/federationNodes.ts` | `federation_nodes`, a counter | handshake, list | an answered handshake stands; `last_seen` goes back only between handshakes that overlapped; a list has one entry per node |
| payments | `src/routes/payments.ts`, `src/db/payments.ts`, `src/validation.ts` | two tables | intent, webhook | the cents stored are the amount's, although the amount is a double |
| cities | `src/routes/cities.ts`, `src/db/cities.ts` | none | search, list | its limit |
| shutdown | `src/server.ts`, `src/index.ts`, `src/db/pool.ts`, `src/queue/index.ts` | server, pool, worker | SIGTERM, SIGINT | it ends; nobody who waits loses the pool; an exit with 0 is clean |
| simulation scripts | `scripts/simulate-*.ts`, `scripts/lab-*.ts` | none | HTTP clients of one or two nodes | wherever they stop, the peer's log lags by one event at most |
| health, metrics, privacy, docs, storage | the other routes | none | read-only | nothing that depends on order |
| configuration, parsers | `src/config.ts`, `src/auth.ts`, `src/schemas/` | none | read once | |
| deployment | `docker-compose.yml`, `deploy/` | volumes | restart, dump | |

How they meet: a write route reads and writes the tables, logs an event, then in one stretch
without an await calls the stream hub, the counters and `reply.send`. A submission of interest
inserts, refreshes a materialized view, then hands a job to Redis *without* awaiting it; the
worker, in the same process or another, writes `interest_events`. The seed and import scripts
share nothing with the server but the database. All processes run the migrations before they
start. Nodes know each other by handshakes, and by relayed events that a client, such as
`simulate-federation.ts`, carries from one to the other; no node calls another by itself.

What is hard about it: handlers check in one await and insert in a later one; a statement that
failed for the handler may still be executed by Postgres; a process may die anywhere; the log,
the streams and the counters are three records of the same events with no transaction around
them; the seed script deletes what handlers have just looked up; retries, by clients and by
BullMQ, meet writes that did happen; a server that closes ends the pool and the worker under
handlers and jobs that are still at work. The list, line by line, is "hazards" in `PROJECT.json`.

## Modules

### Loop registry: `LoopData`, `LoopLedger`, `LoopRegistry`

`LoopData` has what the others share: rows, foreign keys, the subject of a row
(`material_id || product_id`), events, and the event names a peer may relay. Identifiers are
opaque; payload columns are left out because no handler reads one back.

`LoopLedger` is the abstract specification: two variables (`rows`, `log`) and two actions.
`Store` adds one row under a fresh identifier, whose references hold and whose subject agrees
with its offer's or match's *at that moment*; `Record` appends one justified event. Nothing is
changed or removed.

`LoopRegistry` is the code. A request has a `pc` naming the await its handler is at, the `body`
it brought, the handler's variable `created`, and the `status` it was answered with.

| action | code |
|---|---|
| `Arrive` | `requireApiKey`, the relay route's checks, up to the first await |
| `CheckMaterial`, `CheckProduct`, `CheckPrior` | `getLoopMaterial` ..., with the 400s |
| `InsertRow`, `InsertConflict` | `insertLoop*`: done, or refused with 23505 or 23503 (`sendWriteConflict`) |
| `LogEvent` | `insertLoopEvent` commits |
| `Publish` | `broadcastLoopEvent`, counters, 201 or 202, in one stretch |
| `StatementFails` | the handler rethrows, `setErrorHandler` answers 500 |
| `Crash` | the process dies and is restarted; counters are zero |
| `AdriftRow`, `AdriftEvent`, `AdriftLost` | Postgres executes, or drops, a write nobody waits for |

`LogEvent` and `Publish` are two actions because the continuation of `insertLoopEvent` runs later
than its commit, and other commits and broadcasts may come between. Elsewhere the continuation
touches only the request itself, so commit and continuation are one action.

A retry by a client is another request with the same body: TLC's bodies are chosen independently
per request, so any request may repeat, contradict or follow any other.

### `LoopReseed`

Extends `LoopRegistry` with `scripts/seed-lab.ts` run by hand against a live server, any number of times
(`Runs`), also while an earlier run is still going: `Truncate`, then `SeedRow` and `SeedEvent` per demo row. The
rows are the same in every run, for the script seeds its generator with a constant. `SeedRowConflict` ends a run
that finds an identifier taken, by a client or by another run, or a reference gone. `SeedFails` is a lost connection
or a killed script. Its statement, the TRUNCATE included, goes through the same pool as the server's and is adrift
like a handler's: the run is in `cut`, and Postgres executes the statement, however much later, or drops it
(`SeedLost`).

Two history variables say when: `fresh` holds the requests and runs that had not begun at the last TRUNCATE, the
ones that promises can be kept to, and `late` the places in the log of events of other runs. A run that is not
fresh, because another TRUNCATE came after its own, may still reach its end and leave its events among those of
the other: a row then has two 'seeded' events, or one and no row. `SeedIsComplete` therefore speaks of a run whose
TRUNCATE was the last, and of the events that are not `late`.

`SubjectAgreement`, `AnnouncedOnce`, `EventsHaveEntities` and `ConflictMeansTaken` of `LoopRegistry` do *not* hold
here: a match may look its offer up before the TRUNCATE and be inserted after it, when a client has given the
offer's identifier to another subject. `MismatchesStraddle`, `RepeatsStraddle` and `OrphansStraddle` say what is
left of the first three: each such harm is the doing of a request, or for events without entities of a run, that
straddled the TRUNCATE.

### `SseHub`, `LoopNode`

`SseHub` is both hubs, which are the same code: `clients` and `timers` are the module's variables,
`conn` is what the network knows of each connection, `feed` what was written to it. A client may
leave with a packet (`Leave`) or without (`Vanish`), and only a write tells the server of the
second kind.

`LoopNode` composes `LoopRegistry` and an instance of `SseHub`: `Publish` and `Broadcast` are one
step, a crash restarts both, and clients may also list the log (`ListEvents`, GET
/api/v1/events). A page is *any* set of `PageSize` events when the log is longer: events are
listed by `created_at`, which is taken before the commit, so the newest committed event need not
be on the first page.

### `Migrations`

Any number of processes run `waitForDatabase` and `runMigrations` against one database. `Apply` to
`Commit` is one transaction: it holds the primary key of its version, so a second process waits
and is then `Refused`, exits and is restarted. A process that stops between the two leaves a
transaction `inDoubt`, which Postgres commits or rolls back on its own. A server started with
`RUN_MIGRATIONS=false` is not one of these processes.

### `InterestLedger`, `Interest`

`InterestLedger` is the abstract specification: `Store` adds rows under identifiers that are not taken, `Tell`
answers a submission and feeds the stream in one step, once per interest, `Log` appends an event of an
interest that was told. Requests, refreshes, the queue and failures are not in it.

`Interest` is the code. POST /api/interest, the search view, the queue and the import. `BeginRefresh` is the moment the
REFRESH takes its snapshot, `EndRefresh` the moment its result replaces the view: two of them may
cross, the history variable `crossed` says that one did. `Finish` is the stretch that calls
`enqueueInterest` without awaiting it, broadcasts and answers. BullMQ and ioredis are modelled as
the code uses them: a job is delivered until it completes or is given up after `Attempts`
failures or `MaxStalls` stalls, and an add whose answer is lost is sent again and makes a second
job (no `jobId` is passed). `Import` is one transaction beside it all: it brings its own
identifiers and leaves the sequence where it is.

### `Federation`

Handshakes and the list of peers. The handler of a handshake (`pc`) and its one statement (`sql`) are
apart: Postgres takes `NOW()` when the statement begins (`Begin`), waits for the row's lock and
replaces the row (`Upsert`), and it goes on with a statement whose handler was answered 500
(`StatementFails`) or has died (`Crash`), or drops it (`Drop`). `Accept` is the continuation: count,
202. The history variable `heard` holds, for a handshake, those that had been answered when it was
sent: it tells handshakes that overlapped from ones that came after each other. `Ask` takes the
time of the node's own entry, `Answer` the rows; a peer that claims this node's id is accepted and
hidden. What a handshake says of its node is represented by the handshake itself. The clock (`Tick`) is that of
Postgres and never steps back: `LastSeenMovesOn` rests on that, and says nothing of a database whose host's clock is
set back.

### `Shutdown`

Extends `SseHub` with a server process, from `startServer` to its exit: `Start`, `Listen`, submissions
(two statements, then broadcast, add and answer), their jobs, and the signal handler, one action
per await: `Signal` calls `app.close`, `AppClosed` goes on to `pool.end` when no connection is left,
`PoolEnded` to `worker.close`, `Exit` to `process.exit(0)`. `app.close` waits for connections and not for
handlers, so one whose client has hung up may find no pool for its second statement (`noPool`).
Each signal has a handler of its own: a second one calls `pool.end` again, which rejects
(`AppClosedAgain`). The window before `listen` has returned is there as well (`ListenRefused`), and
`Kill` may strike anywhere. A job that fails is tried again at once and not after BullMQ's delay
(2 s, doubled each time); stalls are counted in `Interest`.

The interests' Prisma client uses the pool of `src/db/pool.ts`, so the end of the pool is the end of
both statements. The hub stands for both streams.

### `Inputs`

The numbers that clients send. An amount in thousandths becomes a double (`Double`, round to nearest
even, with `Precision` bits), is multiplied by 100 (`Hundredfold`), rounded (`Cents`), checked and
inserted, or refused by the INTEGER column; the receipt of a webhook is stored unless its payload is an
array, which the driver writes as an array of Postgres and not as JSON (the empty one, `{}`, happens to be both). A limit, in halves, is taken as each route takes it:
`PositiveOr` for events, interest and cities, `Capped` for the entity lists, where a negative one
reaches Postgres. `Retry` is a client that was answered 500 and sends its request again, which may
store a payment twice: no key makes a retry the same payment.

### `LabFederation`

The simulation scripts as clients of two nodes. Node A is `LoopRegistry`, node B an instance of it
with state of its own (`Peer`). `Post` is a script's POST to node A, `Accepted` or `Relay` what it does with
a 201, `RelayAccepted` what it does with node B's 202, `GiveUp` everything else: an answer that is not
ok, no answer, or a script that is stopped. Both nodes fail and restart as they do in `LoopRegistry`. A
script goes through its `Plan`, an entity at a time; `simulate-lab.ts` has eight and relays none.

## Runs

Faulty variants of definitions sit just before the definition they differ from; each property has
one that breaks it ("mutants" in `PROJECT.json`), so no property holds by the shape of the model.

| run | instance | what it shows |
|---|---|---|
| `loop_chain` | bodies of one chain material, offer, match, transfer, a status change, two relayed events; 4 requests, 2 faults | `TypeOK`; nothing is announced twice (`AnnouncedOnce`); a positive answer means stored, logged and broadcast (`AckedIsDone`); log, tables, broadcasts and counters agree (`EventsHaveEntities`, `BroadcastIsLogged`, `CountersFollowLog`) |
| `loop_rivals` | two subjects that want the same offer and match identifiers; 4 requests, 1 fault | `SubjectAgreement`; a 409 means that the identifier is taken (`ConflictMeansTaken`); a refused request leaves nothing (`RefusedLeavesNothing`); the routes implement the ledger (`ImplementsLedger`) |
| `loop_live` | 2 requests, 1 fault, fair | `Answered`, `StoredIsAnnounced` |
| `loop_reseed` | 2 requests for the demo rows' identifiers: a match, a rival of its offer, a status change; 2 runs of the script that may overlap, of 3 rows; 1 fault | `ReferentialIntegrity`, `SeedIsComplete`, `FreshAckedIsDone`, `OrphansStraddle`, `MismatchesStraddle`, `RepeatsStraddle` |
| `loop_node` | 2 stream clients, 3 requests, pages of 2 events, 1 fault | `FeedsAreWindows`, `NothingMissed` |
| `migrations` | 3 processes, 2 files, 2 faults, fair | `SchemaIsPrefix`, `UpIsMigrated`, `AllComeUp` |
| `interest_pipeline` | 2 submissions, an import of the identifier 2, 2 faults, fair | `FoundUnlessCrossed`, `EventsAreBounded`, `AnsweredIsLogged`; the pipeline implements its ledger (`ImplementsLedger`) |
| `federation` | 3 handshakes, of a peer and of this node's id, one list, a clock of 3 times, 2 faults | `AnsweredStays`, `LastSeenMovesOn`, `ListsAreCurrent` |
| `shutdown` | 2 stream clients for 1 place, 2 submissions, 2 signals, 2 attempts, fair | `WithinLimit`, `PlacesAreHeld`, `PlacesAreFreed`; `PoolOutlivesClients`, `ExitsClean`, `ShutdownEnds` |
| `inputs` | every amount from 0.001 to 8.800 with a column that holds 8.00, limits around every cap and default, halves and negatives among them; 3 retries | `CentsAreNearest`, `LimitsAreHonoured` |
| `lab_federation` | one start of either script, 2 faults at each node | `PeerLagsByOne`, `FinishedIsComplete` |
| `interest_after_import` | 2 submissions, an import of the identifier 1, no fault | `ValidIsAccepted` is violated, see below |

Why these bounds are enough:

- *Requests.* A race needs two requests, the state they race over is set up by earlier ones. Four
  requests store a whole chain, or let two rivals meet over one offer and one match. Requests are
  interchangeable, so TLC may use them as a symmetry set in the runs without liveness.
- *Faults* (`MaxFaults`) count failed statements and crashes. One produces a write adrift beside a
  retry, two produce a retry that fails as well, or a crash on top of a failure. In
  `interest_pipeline` two exhaust a job's `Attempts` (2 there, 3 in the code), or repeat an add and
  stall one of its jobs. The proofs need no bound.
- *Seed runs* (`Runs`). Two runs come after each other, overlap, or leave a statement of the first to be executed
  under the second. The demo rows are a material, a product and an offer of the product. Two requests are enough
  for each harm, since the script itself sets the tables up: a match that looked the script's offer up and a rival
  that takes its identifier after the TRUNCATE, or two creators of one entity. The run has a VIEW, `Read`, that
  leaves out what no action and no property of it reads again: broadcasts, counters, the body of a refused request,
  whether a request that is over was answered 500 or lost, and how far a run had got that is over.
- *Streams.* Two places and three connections suffice to be refused and to take over a place; with one
  place two do, and a connection refused once may try again. A feed's contents are the matter of `LoopNode`;
  `Shutdown` has one message.
- *Files.* Two files show one applied and the next one failing; three processes show two that wait
  for a third.
- *Handshakes.* Two overlap; the third is answered before, after or between them. The clock
  (`MaxTime`) needs one time for each statement at most.
- *Signals.* The second finds the pool ended, or is at `pool.end` when the first exits. `Attempts` is 2, so
  that a job may fail once and be tried again.
- *Numbers.* `Precision` is to `MaxCents` as in the code, where 53 bits are far beyond the 31 of the column: the
  assumption `32 * (MaxCents + 1) <= 2 ^ Precision` is what keeps a cent apart from its neighbour. Amounts go
  past the column, so that it refuses some; the proofs take them up to `2 ^ Precision` thousandths.
- *Runs of a script* (`MaxRuns`): every start has identifiers of its own, so two starts only share faults. The
  proofs need no bound.

Deadlock is not checked where the system may stop by itself: every request of a run is answered
and nobody has to send another.

## Fairness

- `LoopRegistry!FairSpec`: weak fairness of `Step(r)`. Postgres answers a statement or fails it,
  and the event loop runs continuations that are ready. Nobody has to send a request, no fault has
  to happen, and a write adrift need not ever be executed.
- `Shutdown!FairShutdownSpec`: weak fairness of `Listen`, of each request's and each job's statement, of each
  signal handler's next step, and of `Heartbeat` or `Close` per stream client: Postgres answers, the event
  loop runs what is ready, `setInterval` fires and closed sockets are reported. That clients leave or hang
  up, that anything is broadcast, that a signal comes or that a process is started again is not
  assumed: `PlacesAreFreed` rests on the keep-alive alone (the code has none when `SSE_KEEPALIVE_MS`
  is 0, and then places may stay taken and a shutdown may not end), and `ShutdownEnds` asks that no client
  still reads a stream, for the code does not end streams by itself.
- `Migrations!FairSpec`: processes run, one that exited is started again (`restart:
  unless-stopped`), Postgres ends the transactions of vanished sessions. `AllComeUp` is about such servers: a
  script that migrates (`seed-lab.ts`, `import-sqlite.ts`) is not restarted when it fails.
- `Interest!FairSpec`: Redis takes adds and a worker runs (`WORKER_ENABLED`). Faults are bounded, so
  a job is not failed for ever. An add that waits for ever, because Redis never comes back, is thereby excluded:
  `AnsweredIsLogged` says nothing of that.

## Proofs

All theorems hold for any set of identifiers, requests, bodies, clients or processes, any number
of faults and any page size, under the assumptions on constants named in the modules
(`BodiesAssumption`: bodies are those the JSON schemas let through; `SeedRowsAssumption`: a demo row
comes after those it refers to; `LabAssumption` names what the simulation scripts send;
`PrecisionAssumption` and `AmountsAssumption` keep a cent apart from its neighbour, and a job is tried at least
once; the rest are types). TLC evaluates these assumptions in the runs.

| module | theorems |
|---|---|
| `LoopRegistry_proofs` | `TypeCorrect`, `ConflictMeansTakenCorrect`, `ReferencesCorrect`, `SubjectsCorrect`, `AnnouncedOnceCorrect`, `EventsHaveEntitiesCorrect`, `AckedIsDoneCorrect`, `RefusedLeavesNothingCorrect`, `BroadcastIsLoggedCorrect`, `CountersFollowLogCorrect`, `LedgerImplemented`, `SilenceHasAFault` |
| `LoopExtensions_proofs` | with the seed script `ReferencesSurviveReseed`, `SeedIsCompleteCorrect`, `FreshAckedIsDoneCorrect`, `OrphansStraddleCorrect`, `RepeatsStraddleCorrect`, `MismatchesStraddleCorrect`; with stream clients `NodeIsRegistry`, `NodeIsHub`, `FeedsAreWindowsCorrect`, `NothingMissedCorrect` |
| `LabFederation_proofs` | `NodesAreRegistries`, `PeerLagsByOneCorrect`, `FinishedIsCompleteCorrect` |
| `Shutdown_proofs` | of the hub alone `PlacesAreHeldCorrect`, `WithinLimitCorrect`; of the server `ServerIsHub`, `ServerWithinLimit`, `ServerPlacesAreHeld`, `ShutdownTypeCorrect`, `PoolOutlivesClientsCorrect`, `ExitsCleanCorrect` |
| `Migrations_proofs` | `SchemaIsPrefixCorrect`, `UpIsMigratedCorrect` |
| `Interest_proofs` | `FoundUnlessCrossedCorrect`, `LedgerImplemented`, `EventsAreBoundedCorrect`, `AddsFindJobs`, `SilenceHasAReason` |
| `Federation_proofs` | `FederationTypeCorrect`, `AnsweredStaysCorrect`, `LastSeenMovesOnCorrect`, `ListsAreCurrentCorrect` |
| `Inputs_proofs` | `CentsAreNearestCorrect`, `LimitsAreHonouredCorrect` |

**The registry.** None of its properties is inductive. The argument climbs in three layers.

1. `HandlerInv`: each request by itself. Its `pc` fits its route; a write adrift belongs to a
   request that is over and was answered 500 or not at all; `created` is set exactly when an
   entity route has got past its insert. Without the part about writes adrift, a refused request
   could still change the tables.
2. `TablesInv`: requests and tables. Rows refer to rows and agree with their priors; a request that
   has passed a check still finds what it found, because without the seed script tables only
   grow (`Growing`); a created row is there, and was inserted by its one creator. This is
   what carries `SubjectAgreement` over the await between check and insert: the offer a match was
   compared with cannot be replaced by another of the same identifier (primary key) and cannot go
   away. `FoundInv` adds what each await already knows of the tables: at the insert of an entity every
   reference has been looked up, so a foreign key never fails, and a 409 speaks of the primary key
   (`ConflictMeansTaken`).
3. `EventsInv`: `Creators` (no two requests created the same entity), `LogInv` (every event
   in the log is the event of one request that passed its insert, and a request is logged once),
   `StreamInv` (what was broadcast is what was logged, once). `AnnouncedOnce` follows from the
   first two, `AckedIsDone` and `BroadcastIsLogged` from the third.

`LedgerImplemented` maps every step to `Store`, `Record` or a stutter. It needs the invariants: the
ledger compares subjects when it stores, the code an await earlier.

`CountersFollowLog` counts: `CountInv` says that counted events and requests at `publish` together are no
more than the log is long, and that a write adrift means that there was a fault.

`SilenceHasAFault` is the safety half of `StoredIsAnnounced`, for every instance and in every state: a stored
entity is announced, or a request that asked for it is about to announce it, died with the process or was answered
500. `StoredInv` follows that request from its insert on. That the wait ends is liveness and left to TLC.

**Seed.** `ReferencesSurviveReseed` needs no strengthening: each insert is checked by the foreign keys
and TRUNCATE empties all tables at once. It is stated because the argument of layer 2 is
void once rows can go away. `HandlerInv`, which is about requests alone, survives the script; `FreshInv` is what
survives of layers 2 and 3, for the requests in `fresh` and the events they logged. Its base case is the
TRUNCATE: a request that had not arrived has established nothing that could be taken away.
Of a run, `ScriptInv` says that at most one is under way whose TRUNCATE was the last (`Live`), and `LiveInv` that its
rows so far are there and marked once: nobody but TRUNCATE removes a row, the demo rows have identifiers of their own,
and the events of every other run are `late`. `CulpritInv` strengthens `MismatchesStraddle`: the request
that stored the row has it in its `created`, or is over and was not refused.

**Hub and node.** `HubInv` adds to `PlacesAreHeld` that `clients` is finite, which `Cardinality` needs.
`NodeIsRegistry` and `NodeIsHub` show that the composition refines both parts, so what is proved of
them holds of the node. `Windows` says that each registered client's feed is a window of
`published`; `Missing` strengthens `NothingMissed` with the clients' windows: an event committed before
the client listed is on its page or left out of it; one committed afterwards is broadcast to the
client, about to be, or its request met a fault (`ExcusedStep`, `LoggedIsExcused`).

**Migrations.** `Known` says that what a process read stays true (versions only grow), `OneOpen` that at
most one transaction is open, and about the first missing file.

**Shutdown.** `ServerIsHub` maps every step of the server to a step of the hub or a stutter, so the hub's theorems
hold through shutdowns and restarts. `ShutdownInv` ties the pool to the signal handlers: while the pool is not
open the server is closing, no stream is open and every handler at work has a client that hung up; and it
goes on, once the pool has ended, to say that no statement runs. `ExitsClean` follows from it and
the guard of `Exit`.

**Interest.** `SubmissionInv` says what a submission at each `await` has: its row once it is past the insert, its
identifier in what its REFRESH has read, and from then on in the view, unless `crossed`.
`QueueInv` follows an interest from `Finish` to its event: adds, jobs and events are about submissions that
were broadcast and answered, which no step takes back (`ToldStays`). `IdentityInv` is about the sequence: it has given
no more numbers than there were submissions, no two of them the same, and the row under a submission's number
stays. `LedgerImplemented` needs both: `Finish` is a `Tell` only because no other submission was told under that
number and an import, which brings identifiers of its own, takes none that was given. `EventsAreBounded` counts without a sum:
each event of an interest is given a run of its own, one of the `Attempts + MaxStalls` that the queue allows each of
the interest's jobs (a job is delivered again only at the price of a failure or a stall), and an injection
bounds the number of events by the number of runs. `AddsFindJobs` says that the model's numbering of jobs, which ends
at `MaxFaults + 1`, is never short of one: each job of an interest but the first is the work of a fault.
`SilenceHasAReason` is the safety half of `AnsweredIsLogged`: an answered interest is in `interest_events`, or on its
way there, or lost by Redis or with the process, or has a job that was given up (`KeptInv`).

**Federation.** `HeardIsOlder` says that a handshake heard of when another was sent has begun its statement
no later than that; `RowsAreHandshakes` that a row is what one committed handshake left; `CommittedStays` is
`AnsweredStays` said of committed handshakes, which is inductive: an upsert replaces the row by one whose
handshake cannot be among those heard of by any that is committed already and stands behind it.
`LastSeenMovesOn` compares the stamps. For `ListsAreCurrent`, nodes never leave `rows` (`NodesStay`).

**Simulation scripts.** Both nodes are `LoopRegistry`, so everything proved of it holds of either
(`NodesAreRegistries`); for node B the theorems of `LoopRegistry_proofs` are taken through an instance,
`PeerNode`, whose constants' assumptions are shown first. `Places` ties the two requests a script makes for an
entity, one at each node, to the place its run has got to: those below it are answered, those above it have not
been sent. A node can therefore log an event only of the step a run is at, and everything below was answered 201
or 202 and hence is logged already (`AckedIsDone`); `InOrder` says what follows, that each log
has a run's events in the order of the script and without a gap, and that node B's end at most one before
node A's. TLC checks one start of either script, the theorems speak of any number at once.

**Inputs.** That powers of two double (`PowerDoubles`) is taken from the cardinality of `SUBSET`, for the provers know no
induction that would say so. `CentsAreNearest` bounds each of the three roundings (the amount to a double, its
hundredfold, the cents). What the first two are off by is less than a thousandth, the unit of amounts
(`CentsAreClose`, where the column is small beside the precision), so that only the half cent of the third is left.
`LimitsAreHonoured` is by cases: what a route makes of a limit, for every cap and every default.

Only model-checked: liveness (`Answered`, `StoredIsAnnounced`, `PlacesAreFreed`, `ShutdownEnds`, `AllComeUp`,
`AnsweredIsLogged`), which is out of the prover's reach; of `StoredIsAnnounced`
and `AnsweredIsLogged` the half that speaks of states is proved. Every safety property of a run that passes is a theorem.

## Where the code and its words part

- `scripts/import-sqlite.ts` inserts explicit ids into a `BIGSERIAL` column and leaves the sequence
  behind. The submissions that follow are given ids that exist and are answered 500, one for each
  imported id (`interest_after_import`).
- Seen while modelling, and not a run: the same script's `ON CONFLICT (id) DO NOTHING` drops rows whose ids
  the server gave away, and its closing message counts them as imported (`scripts/import-sqlite.ts`).
- Not modelled: `README.md:95` documents `DB_POOL_SIZE` as 20 by default, `src/config.ts:31` says 10.

Properties that hold with a caveat one should know: two refreshes of the search view that cross
take an answered submission out of the search until the next refresh (`FoundUnlessCrossed` says
nothing else does); an interest may be logged more than once (`EventsAreBounded` says how often);
an answered submission may never be logged when its add is lost (`AnsweredIsLogged` lists the
ways); a payment whose client was told 500 may be stored, and its retry is stored again
(`CentsAreNearest` speaks of every row); an answered handshake may be undone by one that was sent before
it was answered and told 500 long ago (`AnsweredStays` names `heard`); a job that is taken while the pool ends
fails its attempt, and all of them when the worker is still open (`ExitsClean` says nothing of given-up jobs);
a stored entity stays unannounced when its handler met a fault, and a retry is answered
409 (`StoredIsAnnounced`).

## What is not modelled

- *Data.* Payload columns, JSON of events, identifiers' patterns, timestamps (except that the order of
  `created_at` is not that of commits). The JSON schemas appear as `SchemaValid`.
- *Field validation* of interest submissions is a choice among 201, 400 and 401. Requests that fail their
  schema never reach a handler and are left out, as are rate limits.
- *API key.* 503 for a key that is enabled and not configured is taken as 401; the handler
  returns at the same place.
- *Interest, failed insert.* When the connection is lost at the INSERT, whether it is committed is decided
  in the same step, and not later as in the registry: no property speaks of the row of a submission
  that was answered 500.
- *Slow readers.* The return value of `write()` is ignored by the code; the model has no socket buffers.
- *Reads.* GETs by id, filters of lists and the search of cities, computed by PostGIS, are one SELECT each.
  Of lists, the limit is in `Inputs` and the page of events in `LoopNode`.
- *Relayed twice.* The relay route logs what it is told, as often as it is told; a relayed event has no
  identity across nodes that a property could speak of. `LabFederation` shows that the one relaying client of the
  repository sends each event once.
- *`lab-demo.ts` and `lab-federation.ts`* run the other scripts in one process, after a seed; `lab-federation.ts`
  starts both servers with one database, so that its node B finds node A's tables. `LabFederation` has the
  deployment the protocol is for: a database for each node.
- *Interest and shutdown.* In `Shutdown` a retry of a job is not delayed, and a statement neither fails nor outlives
  its connection: `Interest` and `LoopRegistry` have that.
- *Authentication, object storage*: delegated to libraries, or configured and unused.
- *Backup*: a shell script whose dumps are taken one after the other; no code restores them.

## Plan

The modules of the plan are written, in the order of importance: registry and its ledger, events, seed,
streams and node, migrations, interest, shutdown, federation, inputs, simulation. What would come next:

1. `LabFederation` with one database for both nodes, as `lab-federation.ts` sets it up.

# Verification of the URL shortener

TLA+ specifications of the shortener service, TLC configurations that check
them on small instances, and TLAPS proofs for all values of the constants.

## 1. The system

A Go service that stores URLs under random short ids and redirects. HTTP and
gRPC handlers call a service layer, which calls one of three storage backends;
every shortening and expansion is reported to audit observers.

| Part | State | Operations | Talks to |
|---|---|---|---|
| `repository.memStorage` | maps `data` (id -> URL, user, deleted) and `urlToID`, RWMutex | Add, AddBatch, Get, GetUserURLs, DeleteBatch, GetStats | called concurrently by every request and by background deletions |
| `repository.fileStorage` | the same maps and a file of JSON lines | the same; appends, rewrites, replays | file system |
| `repository.dbStorage` | table `urls`, connection pool | the same as SQL statements | PostgreSQL |
| `service` | none | ids, short links, mapping of errors | storage |
| HTTP and gRPC handlers | semaphore and wait group of deletions | one per route; deletion is asynchronous | service, audit data in the context |
| `audit` | channel, worker pool, `sync.Once` | NotifyAll, worker, Stop | observers (file, HTTP) |
| middlewares | object pools, JWT cookie | gzip, logging, authentication, audit, trusted subnet | handlers |
| servers and `main` | listeners | start, shutdown | all of the above |
| `config` | one struct | defaults, file, flags, environment | all of the above |

What is hard in it, and what makes each part correct:

* **Storage.** Calls interleave, the context is checked only before the lock,
  two maps are kept in step by hand, a batch is checked before it is inserted.
  Correct: every call is atomic, the maps agree, rows are permanent, no map
  race, every call returns.
* **File storage.** Memory is changed before the file, writes fail or are cut
  short, the process dies between steps, load must cope with what is left.
  Correct: acknowledged rows survive, failed calls leave nothing in memory,
  deleted links stay deleted.
* **Database storage.** Unique keys decide races, a reply may be lost after
  its statement took effect, a transaction that uses the pool can wait for
  itself, a start may die inside a migration. Correct: the same store, every
  call returns, no service on half a schema.
* **Handlers and deletion.** 202 before the work is done, per-request
  semaphore, deadline, shutdown that gives up. Correct: a link leads where it
  was given for, only own links are deleted, a shutdown that does not give up
  loses no deletion and no request, shutdown ends unless a gRPC call hangs.
* **Audit.** Bounded channel, blocked handlers, panicking observers, Stop while
  handlers run. Correct: exactly one delivery per event and observer, drained
  before the observers close, Stop returns.
* **Middlewares.** Tokens that expire before their cookie, first requests that
  overtake each other, pooled writers. Correct: nobody acts as another client,
  a client keeps its user, a response holds its own output only.
* **Config.** The order of the sources decides which one wins, after a restart
  too, when clients come back with cookies of another secret.

PROJECT.json lists each hazard at its line, with the properties that cover it.

## 2. Modules

| Module | Models | Extends / instantiates |
|---|---|---|
| `UrlTypes` | rows, calls, results and the reads of a map (storage.go, errors.go) | |
| `UrlStore` | the abstract storage: one atomic step per call | UrlTypes |
| `MemStorage` | memory.go, step by step under the RWMutex | UrlTypes; refines UrlStore |
| `FileStorage` | file.go: file operations, failures, crashes, replay | UrlTypes |
| `Audit` | audit.go: channel, workers, Stop | |
| `DBStorage` | db.go: statements, keys, connection pool, migrations | UrlTypes; refines UrlStore |
| `Shortener` | service.go, handlers, deletions, shutdown in server.go, grpc.go and main.go | reads UrlTypes |
| `Config` | config.go: the steps of LoadConfig | |
| `Web` | gzip.go, pool.go, auth.go, jwt.go: requests in the middlewares, and clients | |
| `Server` | main.go up to the listening servers, around Config and Web | Config, Web |
| `MC*` | constants for TLC | the module of the same name |
| `UrlTypesProofs` | lemmas on calls, rows and map entries | UrlTypes, TLAPS |
| `MemStorageProofs`, `FileStorageProofs`, `DBStorageProofs`, `ShortenerProofs` | theorems | the module of the same name, UrlTypesProofs, TLAPS |
| `AuditProofs`, `ServerProofs` | theorems; the second is about Config and Web too | the module of the same name, TLAPS |

### MemStorage

A goroutine's `pc` walks through `start` (context check), `lock` (waiting),
`check`/`insert` (Add and AddBatch), `mark` (DeleteBatch), `lookup` (Get),
`scan` (GetUserURLs, GetStats) and `wunlock`/`runlock`. A loop iteration of the
Go code is one action; between two of them any other goroutine may move. Add
is AddBatch of one row: both check the index and then insert. `Lock` and
`RLock` are the two acquisitions of `sync.RWMutex`; `writer` and `readers` say
who holds it. `seen` is what a `range data` has visited, with the values it
read. `committed` is a history variable: `data` at the last unlock of a writer.
It is what the refinement maps `rows` to.

The properties about the two maps assume that `GenerateID` does not repeat an
id (`IdsMayCollide = FALSE`, guard `Fresh` of `Invoke`). The run `id_collision`
drops the assumption.

### FileStorage

The mutex admits one call at a time, so `job` is the call in progress and
`phase` its next file operation. The file is a sequence of lines, each a record
or `Garbage` (text load cannot parse), and `open` says that the last line has
no newline; `Appended` then glues the next record to it. A record in the file
is a `Row`: `appendRecords` always writes `deleted: false`, and the only code
that might write something else, `save`, writes an array whose lines are
garbage to `load`; a save that stops early (`EncodeFails`) leaves a part of it,
in the middle of a line or at its end. The marks of a deletion are in memory
before the save and stay there when it fails. `ShortWrite` stops after any
number of records, in the middle of one or just before its newline. `Crash` is
the death of the process between any two steps; what the operating system was
told to write is in the file (a power failure, which may lose it since nothing
calls fsync, is not modelled). `Start`, `LoadLine`, `Refuse` and `Loaded` are
NewFileStorage; main exits when it is refused. A file that cannot be opened at
start changes nothing and has no action. `acked`, `gone`, `rewritten` and
`torn` are history variables. `WriteRecords` acknowledges the rows in the step
that writes them; a crash between the two is covered by the short write that
lacks only a newline.

### Audit

A handler sends one task per observer, `next` is the observer it has reached.
`Send` uses the buffer, `SendDirectly` is the hand-over to a waiting worker
that Go makes when the buffer is empty, so `Capacity = 0` is allowed too.
`SendPanics` is a send on a closed channel (recovered by the HTTP router).
`Notified` ends a Notify, normally or by a panic that the worker recovers. Stop
may be called by several goroutines at any moment, while handlers send: `main`
calls it after a shutdown that may have timed out.

### DBStorage

A statement is one step on `rows`, as PostgreSQL runs it; `Insertable` is the
primary key and the unique index of the migrations. `pc` is `wait` (for a
connection), `conn` (has one), and for GetStats `tx1`, `count1`, `tx2`,
`count2`, `commit`: a call in `tx1` or `tx2` holds the connection of its
transaction and waits for another one. `inUse` is the pool, `Held` what a call
gives back when it returns by whatever path. `answer` is what the database did
and `ret` what the caller sees, which may be a failure though the statement
took effect. `answer` is what the refinement of `UrlStore` maps `ret` to: the
callers see less. The two counts of GetStats are not of one moment, and the
mapping treats that call as cancelled. `process` walks through the start:
`ReadVersion` is the one look at golang-migrate's table (`version`, `dirty`),
and each file takes three statements, `SetDirty`, `RunFile` and `SetClean`,
with a failure (`UpFails`) or a crash (`Die`) possible around each. `up` is
what `m.Up()` returns and the only thing runMigrations looks at; `applied` are
the files that have taken effect, which the service never sees.
`ServesFullSchema` relates the two: that no error, or ErrNoChange, implies a
full schema follows from the order of the statements over any number of starts,
and `Serve` does not look at `applied`.

### Shortener

The composition of the service with its handlers over a storage whose calls are
atomic: `UrlStore` is that promise, and MemStorage and DBStorage are checked
against it. A method of the service is the set of its outcomes (rows, error,
ids), always with a failing storage among them, which may have stored the rows
although it fails; `FailDeletion` too may have taken effect. A handler
goroutine is `received`, then `answered` or `notify` (its audit data has an
action), `hung` if its storage call does not return (`Hang`) until the client
goes away (`ClientLeaves`), which nothing forces it to, and at last `idle`.
`jobs` are the goroutines of DELETE; `wg` is the wait group. `main` walks from
`serving` through the waits of the shutdown, and `gaveUp` records which of them
timed out. Deadlines are a choice: HttpShutdown, WaitForBackground and
FailDeletion may give up at any moment. `creator` and `told` are history
variables: who asked for an id, and which URLs it was handed out for in any
response.

### Config, Web, Server

In `Config` a value is the name of the source it came from, so that one state
shows which source has won. The file cannot name itself (`FileGives`). `Web`
follows a request through GzipMiddleware and AuthMiddleware to the handler and
back. `object` are the compressWriters with their fields, and output reaches
the response that a writer points to at that moment: a writer reused too early
writes into another request's response. A writer whose gzip.Writer is reset
keeps the pointer to it, to a writer whose destination is `Blank`. Clients are
external; they send the cookie they have when they send. `Expire` is the end of
a token; the cookie has no expiry of its own and stays until the client ends
its session (`EndSession`). `Server` composes the two: main loads the
configuration, builds the middlewares with its cookie secret and serves, until
it is stopped and started with another one. A stop with requests in progress is
the subject of Shortener.

## 3. Runs

| Run | Shows | Bounds |
|---|---|---|
| `mem_pass` | type, mutual exclusion, agreement of the maps, permanence, refinement of UrlStore, every call returns | 2 goroutines, 3 ids, 2 URLs, 2 users, 4 row lists, 3 id lists |
| `id_collision` | violation: a repeated id redirects an old link | the same |
| `file_pass` | durability before the first deletion, undo, load, deletions across restarts | 3 ids, 3 URLs (one too long to load), 4 lines |
| `file_restart` | violation: no start after a DeleteBatch | the same |
| `audit_pass` | exactly-once delivery, wait group, drain before stop, and three liveness properties | 2 handlers, 2 workers, 2 observers, 2 Stops, channel of 1 |
| `short_pass` | links resolve, only owners delete, clean shutdown, the process ends unless a gRPC call hangs for ever, deletions end | 1 handler of each server, 2 ids, 2 users, 3 texts, 2 deletions, limit 0 or 1 |
| `batch_links` | violation: a batch link is not in its creator's list | the same, limit 1 |
| `deletion_bound` | violation: two deletions under a limit of one | the same, limit 1 |
| `db_pass` | acknowledged rows, full schema, permanence, refinement of UrlStore, every call returns unless GetStats fills the pool | 2 goroutines, 2 connections, 2 ids, 2 URLs, 4 row lists |
| `stats_deadlock` | violation: two GetStats wait for each other | the same |
| `server_pass` | own writer, own response, one client per user, stable identity, precedence of the sources | 2 requests, 2 clients, 3 users, 2 writers, 7 settings, 7 deployments, 2 secrets |
| `cookie_expiry` | violation: a client keeps the cookie of an expired token | the same |

Why the bounds are enough to meet the interesting cases: two goroutines make
every pairwise conflict (reader and writer, two writers, a call that waits
while another one changes what it checked); the row lists contain two adds of
one URL, a batch that overlaps with them and a batch that repeats a URL, so
that every duplicate is met by both Add and AddBatch. In the file a line is
torn, glued and followed by another within four lines, and the number of
crashes, failures and deletions is unbounded. In the audit one slot for two
handlers with two events each makes the channel overflow, and two Stops make
one of them wait in `sync.Once`. In `short_pass` a handler of each server is
enough, because what interleaves are requests, deletions that run long after
their request, and the shutdown: two deletions of two users can be in progress
at any step of it, and a blank and a padded text meet both the trimming of
single links and the missing trimming of a batch, which also repeats its URL.
Each of the two handlers may hang. Two of each are in turn the smallest numbers
for the database (a pool that two calls fill) and for the pooled writers (one
released while another is taken); three users let a client get a second one.
The row lists of `db_pass` repeat an id for another URL, a URL within a batch
and a URL under another id. The deployments of `server_pass` give one setting
by two sources, a config file by each way to name it and by `--config`, which
is not found, a file that names itself in vain, and a database next to a file.
Only the runs of `Server` use symmetry, of requests, clients, users and
writers; none of them is singled out and their properties are safety.
`audit_pass` and the runs of `Shortener` switch the deadlock check off, because
there the system really stops: the handlers of the one notify once, the process
of the other ends.

Each property is paired in PROJECT.json with a seeded fault, an operator in the
module that changes one mapped definition as a plausible bug would (a missing
undo, an early return that keeps the lock, a truncating open); TLC finds the
property violated under the run's configuration.

## 4. Fairness

`MemStorage`: weak fairness of a goroutine's steps is the Go scheduler's;
strong fairness of the acquisition is what `sync.RWMutex` guarantees (a waiting
writer blocks new readers, an unlock lets the waiting readers in, writers
queue). `Audit`: weak fairness of each goroutine. It includes the end of
Notify: the file observer writes one line, the HTTP observer makes at most four
attempts of five seconds. `FileStorage` states no fairness: its properties are
safety properties, and so are those of `Server`.

`Shortener`: weak fairness of each handler, of each deletion's goroutine and of
the steps of the shutdown. Goroutines are scheduled and timers fire; nobody has
to send a request or a signal. A handler's storage call may hang, since its
context has no deadline and `stats_deadlock` shows calls that never return;
neither `Hang` nor `ClientLeaves` is fair, so a hung handler may stay so for
ever. That every hung gRPC call ends is the premise of `ShutdownEnds`: the
waits for HTTP handlers and for deletions have deadlines, the one for gRPC
calls has none. A deletion does end, its context has a deadline of 30 seconds.
A deletion whose semaphore has no slot stays disabled, and the shutdown ends
without it. `DBStorage`: weak fairness of a call that has its connection, since
a statement ends; strong fairness of the acquisition, because database/sql
hands connections to waiting calls in their order. Contexts need not end:
without that, `stats_deadlock` would resolve itself.

## 5. Proofs

`MemStorageProofs`, for all goroutines, ids, URLs, users and calls:

* `TypeCorrect`: `TypeOK`. Not inductive, because an insert reads
  `call[p].rows`, which only an add has, and a report counts a finite set.
  `TypeInv` adds that the phase fits the operation (`OpMatchesPhase`) and that
  a scan has seen finitely many entries.
* `MapRaceFree`: from `LockInv` (who is in a write phase is the writer, who is
  in a read phase is a reader, never both).
* `IndexCorrect`, from `~IdsMayCollide`: `IndexAgrees` needs `FreshInv`: the
  ids of rows that are still to be inserted (`Todo`) are unused, differ within
  a call and between calls. Without it an insert could overwrite a row that the
  index points to, which is what the run `id_collision` does.
* `RowsAreKept`: the action property `RowsPermanent` from the same invariant.
* `ExistingIDCorrect`: from `IndexAgrees` when the error is built and
  `RowsKept` ever after.
* `ImplementsStore`, from `~IdsMayCollide`: the simulation of `UrlStore`.
  `Linearizable` says nothing of the states inside a call, so the invariant
  `AtomInv` says how far a writer has taken `data` away from `committed`
  (`Checked`, `AddedFirst`, `MarkedFirst`: its first `k - 1` rows or ids), that
  a reader has seen entries of `committed` only, and that a call about to
  unlock holds the store's whole effect and answer. `IndexAgrees` makes "no URL
  of the call is indexed" mean "no URL of the call is stored", and `FreshInv`
  that no row of a batch overwrites another. `StoreStep` then takes each
  unlock, refused and empty call to the store's step, and every other step to a
  stutter.

`AuditProofs`, for all handlers, workers, observers, Stops and every capacity of
the channel, 0 included, from one invariant `Inv`:

* `PlaceInv`: each task is in at most one of channel, worker and `handled`, in
  the channel at most once, and somewhere exactly when it was sent.
  `ExactlyOnce` counts these places; the counts alone are not inductive,
  because a receive must know that the task it moves is nowhere else.
* `StopInv`: who left the pool left it with the channel closed and drained, and
  the pool is empty once `sync.Once` is done. With `PlaceInv` it gives
  `DrainedBeforeStop`, and alone `NoNotifyAfterStop`.
* `WaitGroupExact` is inductive with `PlaceInv` (the task a worker finishes was
  not handled before), and `TypeOK` needs it to keep the counters natural.

`FileStorageProofs`, for all ids, URLs, long URLs, calls and lengths of the
file, through any number of failures, crashes and restarts. One invariant
gives all six theorems, because each of its parts needs others:

* `AckedRowsServed` speaks of memory, which a crash empties, so `HistoryInv`
  says what the file holds: every acknowledged row, unless `save` has replaced
  it or a line is garbage (then the next start is refused).
* `LoadInv`: what load has read is what the maps have. With `FileInv` (no id
  is recorded twice, none that was deleted) a line overwrites no other, and
  `GoneStaysGone` survives a restart.
* `AddInv`: the rows being added are nowhere else, which makes undo exact, and
  `MirrorInv` says which rows memory and file differ by during a call.
* `Largest`, a nonempty bounded set of positions has a last one, is the one
  inductive fact of it. It comes from the library's well-founded
  minimum (`WFMin` on the naturals), which takes a set and not an operator.

`DBStorageProofs`, for all goroutines and pool sizes:

* `TypeCorrect`: `TypeOK` needs `PoolInv`, that `inUse` is the number of
  connections held, to keep the pool within its bounds.
* `FullSchema`: the service looks at what `m.Up()` returned, not at the table
  of rows, so `SchemaInv` says what golang-migrate's version, its dirty mark
  and the position in the sequence of statements tell of the files applied,
  through failures and crashes.
* `RowsAreKept` and `AckedRowsAreStored`: no assumption about ids, the primary
  key does what `~IdsMayCollide` has to promise for the maps.
* `ImplementsStore`: each statement is the store's step (`StoreStep`); waiting,
  counting and migrating stutter. The mapping needs no history, `rows` is the
  table.

`ShortenerProofs`, for all handlers, texts, users, limits and deletions:

* `LinksAlwaysResolve` and `OnlyOwnersDelete` (a deletion that failed may have
  taken effect), with `CreatorInv`: a stored row belongs to its creator or,
  from a batch, to nobody. Lemmas on the service's methods (`Extends`, `Lead`)
  say what any of their outcomes may do to the table.
* `ShutdownIsClean`: `DrainInv` says what each wait of main has left behind
  unless it timed out. Its second part needs `WgCounts`: the wait group is the
  number of deletions that are waiting or running.

`ServerProofs`, for all requests, clients, users, writers, settings and
deployments, over stops and restarts:

* `EffectiveConfig`: `LoadInv` gives the value of a setting after each source,
  and of the path of the file after the scan of os.Args.
* `WritersAreOwned` and `ResponsesAreOwned`: writers in the pool are reset and
  in use by nobody, a writer in use points to its request's response
  (`WriterHolds`), and what was put out is in the response or in the gzip writer
  that will be flushed to it (`BodyHolds`).
* `UsersAreNotShared` and `IdentityIsStable`: a cookie on its way to a client
  is for a user nobody else has, and answers a request without one that was
  served as this user (`CookieInv`).

The assumptions are the named ASSUMEs of the modules, which TLC evaluates in
every run, and no others. Those that say something about the code: the audit
pool is not empty (`AuditAssumption`; `InitAudit` starts ten workers), the
connection pool is not (`DBAssumption`), trimming a text twice is trimming it
once (`ShortenerAssumption`), there are at least as many writers as requests
(`WebAssumption`; sync.Pool makes a new one when it is empty), and every value
the configuration can have can be a cookie secret (`ServerAssumption`). The
guard `Fresh` of FileStorage is part of its specification: its theorems hold
for ids that do not repeat. `IdsMayCollide` is the same assumption of
MemStorage, and three of its theorems and the refinement state it as a
hypothesis.

Every invariant, every action property and both refinements that a passing run
checks are proved. Only model-checked: the liveness properties (`CallsReturn`,
`EventsDelivered`, `NotifyAllEnds`, `StopEnds`, `ShutdownEnds`, `DeletionsEnd`,
`CallsReturnUnlessStatsFill`), because the prover reasons neither about ENABLED
nor about fairness, and the six violations, each of which TLC shows by a
counterexample.

## 6. Findings

* `file_restart`: `save` writes a JSON array, `load` reads JSON lines.
* `id_collision`: the memory and file storages overwrite a row on a repeated id.
* `batch_links`: batch links belong to nobody; their creator cannot list or
  delete them.
* `deletion_bound`: the semaphore is made per request and bounds nothing.
* `stats_deadlock`: GetStats queries the pool while it holds a connection of it;
  ten concurrent calls stop the service's database access.
* `cookie_expiry`: the cookie of an expired token does not expire with it, and
  its client gets 401 until its session ends; jwt.go:23 says the cookie expires
  in 24 hours.

Met while modelling, but without a run of their own: the environment overrides
flags (`EffectiveValue` states the order the code has; the comments at
config.go:18 and config.go:40 say the opposite), GRPCServer.Shutdown ignores
its context and waits for calls that may never return (the premise of
`ShutdownEnds`), and WaitForBackground gives up after five seconds although a
deletion has thirty (the premise `gaveUp = {}` of `CleanShutdown`).

Other behaviour that a reader may not expect, but that no text of the
repository contradicts, is noted at the hazards in PROJECT.json: torn
statistics, truncated lists, refused requests that are audited, links lost to a
crash inside `save`, and a 409 with the link of a deleted row, which
`LinksResolve` counts as resolving (410).

## 7. Not modelled, and the plan

Not modelled, and why:

* parsing and formatting of headers, bodies, tokens and links, logging, the
  version banner, pprof: no state of the system depends on their detail;
* the lengths of timeouts: every deadline is a choice that may come at any
  moment, so the two timeouts of the configuration have nothing to act on;
* compressReader and the logger's responseData: pooled like compressWriter, but
  nothing of a response passes through them; compressWriter is the
  case where reuse could mix requests;
* the inside of the audit observers: a write under a lock, and the retries of a
  library that end after four attempts;
* the crash of the machine, which may lose file data that was never synced;
* the writer preference of RWMutex beyond its fairness;
* the command line client, the reset generator, the static analysis tool and
  the generated code: development tools and generated text, no part of the
  running system. The output of the reset generator is modelled where it
  matters (`Reset` of Web).

What is left is proof:

1. Consequences of `UrlStore` itself (rows permanent, acknowledged rows stored),
   proved once for whatever implements it.
2. `FileStorage` between two crashes implements `UrlStore`: a refinement to be
   stated and checked by TLC first.
3. `Shortener` takes storage calls to be atomic: that each of its steps on
   `rows` is a step of `UrlStore`.

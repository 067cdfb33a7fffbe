------------------------------ MODULE DBStorage ------------------------------
(* repository.dbStorage: one table behind the connection pool of           *)
(* database/sql.  PostgreSQL runs a statement as one atomic step and       *)
(* enforces the keys of the migrations; a call waits for a connection,     *)
(* runs its statement and gives the connection back, and GetStats holds    *)
(* one for its transaction while it waits for two more, one after the      *)
(* other.  Before the first call the schema is migrated.                   *)
EXTENDS UrlTypes

CONSTANTS Procs,        \* goroutines that call the storage
          MaxOpenConns  \* size of the pool

ASSUME DBAssumption == MaxOpenConns \in Nat \ {0}

(* The files of migrations/: urls, its unique original_url, user_id,       *)
(* is_deleted.                                                             *)
LastMigration == 4

VARIABLES rows,      \* the table
          version,   \* schema_migrations.version
          dirty,     \* schema_migrations.dirty
          applied,   \* the migrations whose statements are committed
          process,   \* where the start of the service is
          up,        \* the error of m.Up() while runMigrations looks at it
          inUse,     \* connections taken from the pool
          pc,        \* where each goroutine is in its call
          call,      \* its current or last call
          counted,   \* what its GetStats has counted
          answer,    \* history: what the database did for the call
          ret        \* what the call returned

vars == <<rows, version, dirty, applied, process, up, inUse, pc, call, counted, answer, ret>>

schema == <<version, dirty, applied>>
startup == <<schema, process, up>>

Waiting == {"wait", "tx1", "tx2"}
Connected == {"conn", "count1", "count2", "commit"}

TypeOK ==
  /\ rows \in Maps
  /\ version \in 0..LastMigration /\ dirty \in BOOLEAN
  /\ applied \subseteq 1..LastMigration
  /\ process \in {"down", "migrating", "pending", "applying", "applied", "returned", "serving"}
  /\ up \in {"none", "nil", "ErrNoChange", "ErrDirty", "failed"}
  /\ inUse \in 0..MaxOpenConns
  /\ pc \in [Procs -> {"idle"} \cup Waiting \cup Connected]
  /\ call \in [Procs -> Calls \cup {NoCall}]
  /\ counted \in [Procs -> [urls: Nat, users: Nat]]
  /\ answer \in [Procs -> Results]
  /\ ret \in [Procs -> Results \cup {Plain("failed")}]

NoCounts == [urls |-> 0, users |-> 0]

(* A database without the service's tables, or one that an earlier version *)
(* of it has left at some migration.                                       *)
Init ==
  /\ rows = [id \in Ids |-> Absent]
  /\ version \in 0..LastMigration /\ dirty = FALSE
  /\ applied = 1..version
  /\ process = "down" /\ up = "none"
  /\ inUse = 0
  /\ pc = [p \in Procs |-> "idle"]
  /\ call = [p \in Procs |-> NoCall]
  /\ counted = [p \in Procs |-> NoCounts]
  /\ answer = [p \in Procs |-> Plain("none")]
  /\ ret = [p \in Procs |-> Plain("none")]

calls == <<inUse, pc, call, counted, answer, ret>>

-----------------------------------------------------------------------------
(* Connect and runMigrations.  golang-migrate reads the version once and   *)
(* refuses to touch a dirty one.  For each file it stores the new version  *)
(* as dirty, runs the file, which PostgreSQL commits as a whole, and       *)
(* clears the mark: three statements with a crash possible between any     *)
(* two of them.                                                            *)
Connect ==
  /\ process = "down"
  /\ process' = "migrating"
  /\ UNCHANGED <<rows, schema, up, calls>>

UpReturns(err) == process' = "returned" /\ up' = err

ReadVersion ==
  /\ process = "migrating"
  /\ \/ dirty /\ UpReturns("ErrDirty")
     \/ ~dirty /\ version = LastMigration /\ UpReturns("ErrNoChange")
     \/ ~dirty /\ version < LastMigration /\ process' = "pending" /\ UNCHANGED up
  /\ UNCHANGED <<rows, schema, calls>>

SetDirty ==
  /\ process = "pending"
  /\ process' = "applying"
  /\ version' = version + 1
  /\ dirty' = TRUE
  /\ UNCHANGED <<rows, applied, up, calls>>

RunFile ==
  /\ process = "applying"
  /\ process' = "applied"
  /\ applied' = applied \cup {version}
  /\ UNCHANGED <<rows, version, dirty, up, calls>>

SetClean ==
  /\ process = "applied"
  /\ dirty' = FALSE
  /\ IF version < LastMigration THEN process' = "pending" /\ UNCHANGED up ELSE UpReturns("nil")
  /\ UNCHANGED <<rows, version, applied, calls>>

(* A statement fails, or its reply is lost.  A version that was not stored *)
(* looks like a crash before the statement.                                *)
UpFails ==
  /\ process \in {"pending", "applying", "applied"}
  /\ UpReturns("failed")
  /\ applied' \in {applied, IF process = "applying" THEN applied \cup {version} ELSE applied}
  /\ UNCHANGED <<rows, version, dirty, calls>>

(* Seeded fault: any error of m.Up() is taken for ErrNoChange. *)
ServeAnyway ==
  /\ process = "returned"
  /\ process' = "serving" /\ up' = "none"
  /\ UNCHANGED <<rows, schema, calls>>

Serve ==
  /\ process = "returned" /\ up \in {"nil", "ErrNoChange"}
  /\ process' = "serving" /\ up' = "none"
  /\ UNCHANGED <<rows, schema, calls>>

(* NewDBStorage returns an error and main ends, or the process dies inside *)
(* of its start; it is started again.  A crash while it serves needs no    *)
(* action: to the table it looks like the calls in progress failing.       *)
Die ==
  /\ process \notin {"down", "serving"}
  /\ process' = "down" /\ up' = "none"
  /\ UNCHANGED <<rows, schema, calls>>

Startup ==
  \/ Connect \/ ReadVersion \/ SetDirty \/ RunFile \/ SetClean \/ UpFails \/ Serve \/ Die

-----------------------------------------------------------------------------
(* Connections. *)

(* Seeded fault: GetStats without the deferred Rollback. *)
NoRollback(p) == IF pc[p] \in Connected THEN 1 ELSE 0

(* The connections a goroutine holds. *)
Held(p) ==
  IF pc[p] \in {"count1", "count2"} THEN 2 ELSE IF pc[p] = "wait" THEN 0 ELSE 1

(* The call returns one of the results; its connections, rows.Close and    *)
(* tx.Rollback being deferred, go back to the pool.  The reply of the      *)
(* database may be lost on the way: then the call fails although it took   *)
(* effect.                                                                 *)
Return(p, done, results) ==
  /\ pc' = [pc EXCEPT ![p] = "idle"]
  /\ inUse' = inUse - Held(p)
  /\ answer' = [answer EXCEPT ![p] = done]
  /\ \E result \in results \cup {Plain("failed")} : ret' = [ret EXCEPT ![p] = result]
  /\ counted' = [counted EXCEPT ![p] = NoCounts]
  /\ UNCHANGED <<startup, call>>

Invoke(p) ==
  /\ process = "serving" /\ pc[p] = "idle"
  /\ pc' = [pc EXCEPT ![p] = "wait"]
  /\ \E c \in Calls : call' = [call EXCEPT ![p] = c]
  /\ answer' = [answer EXCEPT ![p] = Plain("none")]
  /\ ret' = [ret EXCEPT ![p] = Plain("none")]
  /\ UNCHANGED <<rows, startup, inUse, counted>>

Empty(c) == (c.op = "add" /\ c.rows = <<>>) \/ (c.op = "delete" /\ c.ids = <<>>)

NothingToDo(p) ==
  /\ pc[p] = "wait" /\ Empty(call[p])
  /\ Return(p, Plain("ok"), {Plain("ok")})
  /\ UNCHANGED rows

(* Seeded fault: Connect without SetMaxOpenConns. *)
AcquireUnbounded(p) ==
  /\ pc[p] \in Waiting /\ ~Empty(call[p])
  /\ inUse' = inUse + 1
  /\ pc' = [pc EXCEPT ![p] = CASE @ = "tx1" -> "count1"
                               [] @ = "tx2" -> "count2"
                               [] OTHER     -> IF call[p].op = "stats" THEN "tx1" ELSE "conn"]
  /\ UNCHANGED <<rows, startup, call, counted, answer, ret>>

(* A free connection of the pool. *)
Acquire(p) ==
  /\ pc[p] \in Waiting /\ ~Empty(call[p])
  /\ inUse < MaxOpenConns
  /\ inUse' = inUse + 1
  /\ pc' = [pc EXCEPT ![p] = CASE @ = "tx1" -> "count1"
                               [] @ = "tx2" -> "count2"
                               [] OTHER     -> IF call[p].op = "stats" THEN "tx1" ELSE "conn"]
  /\ UNCHANGED <<rows, startup, call, counted, answer, ret>>

(* The context ends while the call waits for a connection. *)
Cancel(p) ==
  /\ pc[p] \in Waiting
  /\ Return(p, Plain("cancelled"), {})
  /\ UNCHANGED rows

(* The statement fails: a key conflict that is not an upsert, a context    *)
(* that ended, a broken connection.                                        *)
Fail(p) ==
  /\ pc[p] \in Connected
  /\ Return(p, Plain("cancelled"), {})
  /\ UNCHANGED rows

-----------------------------------------------------------------------------
(* Statements. *)
Stored(url) == \E id \in Present(rows) : rows[id].url = url

(* Seeded faults: ON CONFLICT (id) DO UPDATE; existingID is not compared   *)
(* with the id of the row.                                                 *)
OnlyUrlsUnique(c) == \A url \in UrlsOf(c) : ~Stored(url)

AlwaysCreated(row, existing) == Plain("ok")

(* No row of the statement breaks the primary key or the unique index.     *)
Insertable(c) ==
  /\ \A url \in UrlsOf(c) : ~Stored(url)
  /\ IdsOf(c) \cap Present(rows) = {}
  /\ Cardinality(UrlsOf(c)) = Len(c.rows) /\ Cardinality(IdsOf(c)) = Len(c.rows)

Inserted(batch) ==
  [id \in Ids |->
     IF \E i \in DOMAIN batch : batch[i].id = id
     THEN NewInfo(batch[CHOOSE i \in DOMAIN batch : batch[i].id = id])
     ELSE rows[id]]

(* Add's reading of RETURNING id. *)
Created(row, existing) ==
  IF existing # row.id THEN AlreadyExists(existing) ELSE Plain("ok")

InsertOne(p) ==
  LET row == call[p].rows[1]
  IN  /\ pc[p] = "conn" /\ call[p].op = "add" /\ Len(call[p].rows) = 1
      /\ Insertable(call[p])
      /\ rows' = Inserted(call[p].rows)
      /\ Return(p, Plain("ok"), {Created(row, row.id)})

(* ON CONFLICT (original_url): the row that holds the URL is rewritten as  *)
(* it is and its id returned.                                              *)
Upsert(p) ==
  LET row == call[p].rows[1]
  IN  /\ pc[p] = "conn" /\ call[p].op = "add" /\ Len(call[p].rows) = 1
      /\ \E id \in Present(rows) :
           /\ rows[id].url = row.url
           /\ Return(p, AlreadyExists(id), {Created(row, id)})
      /\ UNCHANGED rows

(* Seeded fault: one INSERT per row, so that a conflict comes too late. *)
InsertUpToConflict(p) ==
  /\ pc[p] = "conn" /\ call[p].op = "add"
  /\ \E n \in 1..Len(call[p].rows) :
       LET first == SubSeq(call[p].rows, 1, n)
       IN  Insertable([rows |-> first, op |-> "add"]) /\ rows' = Inserted(first)
  /\ Return(p, Plain("cancelled"), {})

(* AddBatch: one INSERT of all rows. *)
InsertBatch(p) ==
  /\ pc[p] = "conn" /\ call[p].op = "add"
  /\ Insertable(call[p])
  /\ rows' = Inserted(call[p].rows)
  /\ Return(p, Plain("ok"), {Plain("ok")})

Delete(p) ==
  /\ pc[p] = "conn" /\ call[p].op = "delete"
  /\ rows' = [id \in Ids |->
                IF \E i \in DOMAIN call[p].ids : call[p].ids[i] = id
                THEN Marked(rows[id], call[p].user)
                ELSE rows[id]]
  /\ Return(p, Plain("ok"), {Plain("ok")})

Get(p) ==
  /\ pc[p] = "conn" /\ call[p].op = "get"
  /\ Return(p, Fetch(rows, call[p].id), {Fetch(rows, call[p].id)})
  /\ UNCHANGED rows

(* GetUserURLs looks at rows.Err before it reads the rows and not after:   *)
(* when the connection breaks meanwhile it returns the rows it has.        *)
List(p) ==
  LET all == Report(call[p], Entries(rows))
  IN  /\ pc[p] = "conn" /\ call[p].op = "list"
      /\ Return(p, all, {[all EXCEPT !.rows = some] : some \in SUBSET all.rows})
      /\ UNCHANGED rows

(* GetStats counts twice, each time on a connection of the pool, and not   *)
(* in its transaction; the counts need not be of one moment.               *)
Count(p) ==
  LET now == Report(call[p], Entries(rows))
  IN  /\ \/ /\ pc[p] = "count1"
            /\ pc' = [pc EXCEPT ![p] = "tx2"]
            /\ counted' = [counted EXCEPT ![p].urls = now.urls]
         \/ /\ pc[p] = "count2"
            /\ pc' = [pc EXCEPT ![p] = "commit"]
            /\ counted' = [counted EXCEPT ![p].users = now.users]
      /\ inUse' = inUse - 1
      /\ UNCHANGED <<rows, startup, call, answer, ret>>

(* The database promised nothing to the pair of counts: for the            *)
(* specification of the store the call was cancelled.                      *)
Commit(p) ==
  /\ pc[p] = "commit"
  /\ Return(p, Plain("cancelled"),
            {[kind |-> "stats", urls |-> counted[p].urls, users |-> counted[p].users]})
  /\ UNCHANGED rows

Run(p) ==
  \/ NothingToDo(p) \/ Fail(p)
  \/ InsertOne(p) \/ Upsert(p) \/ InsertBatch(p) \/ Delete(p) \/ Get(p) \/ List(p)
  \/ Count(p) \/ Commit(p)

Next == Startup \/ \E p \in Procs : Invoke(p) \/ Acquire(p) \/ Cancel(p) \/ Run(p)

(* Statements end, and database/sql serves the calls that wait for a       *)
(* connection in their order.  Contexts need not end.                      *)
Fairness == \A p \in Procs : WF_vars(Run(p)) /\ SF_vars(Acquire(p))

Spec == Init /\ [][Next]_vars /\ Fairness

-----------------------------------------------------------------------------
(* Rows keep URL and owner and deletions are final, also when GenerateID   *)
(* repeats an id: the primary key refuses the second row (migration 1).    *)
RowsPermanent ==
  [][\A id \in Present(rows) :
       /\ id \in Present(rows')
       /\ rows'[id].url = rows[id].url /\ rows'[id].user = rows[id].user
       /\ rows[id].deleted => rows'[id].deleted]_vars

(* The service hands out the short URL of its own id after nil and of the  *)
(* existing id after ErrAlreadyExists: either names a row that holds the   *)
(* URL, with colliding ids, concurrent adds and upserts (db.go:72-79).     *)
AckedRowsStored ==
  \A p \in Procs : pc[p] = "idle" /\ call[p].op = "add" =>
    /\ ret[p].kind = "ok" =>
         \A i \in DOMAIN call[p].rows :
           LET row == call[p].rows[i] IN rows[row.id] # Absent /\ rows[row.id].url = row.url
    /\ ret[p].kind = "exists" =>
         rows[ret[p].id] # Absent /\ rows[ret[p].id].url \in UrlsOf(call[p])

(* What the database did for the calls is a behaviour of the atomic store: *)
(* batches are all or nothing and a URL is stored once, whatever replies   *)
(* are lost.  Callers see less: a failure where the reply was lost, a list *)
(* that is cut, and nil for an id that repeats with its own URL.           *)
Store == INSTANCE UrlStore WITH
           pending <- {p \in Procs : pc[p] # "idle"},
           ret     <- answer

Linearizable == Store!Spec

StatsFillPool == Cardinality({p \in Procs : pc[p] \in {"tx1", "tx2"}}) >= MaxOpenConns

(* Every call returns, after errors as well, unless transactions of        *)
(* GetStats that wait for a second connection hold the whole pool: no path *)
(* through db.go keeps a connection.                                       *)
CallsReturnUnlessStatsFill ==
  []~StatsFillPool => \A p \in Procs : pc[p] # "idle" ~> pc[p] = "idle"

(* Requests are served on a table to which every migration has been        *)
(* applied, as runMigrations can only tell from the error of m.Up(),       *)
(* although the start may crash or fail between any two statements of any  *)
(* migration and be repeated (db.go:44-60).                                *)
ServesFullSchema == process = "serving" => applied = 1..LastMigration

(* storage.go:15 "Implementations must be safe for concurrent use." *)
CallsReturn == \A p \in Procs : pc[p] # "idle" ~> pc[p] = "idle"
=============================================================================

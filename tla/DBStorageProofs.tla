-------------------------- MODULE DBStorageProofs --------------------------
(* Proofs about DBStorage for every number of goroutines, ids, URLs, users *)
(* and calls and every size of the pool.                                   *)
EXTENDS DBStorage, UrlTypesProofs

-----------------------------------------------------------------------------
(* Facts about the statements.                                             *)

(* An INSERT that breaks no key adds its rows, each under its own id, and  *)
(* leaves the others alone.                                                *)
LEMMA InsertedFacts ==
  ASSUME rows \in Maps, NEW c \in Calls, c.op = "add", Insertable(c)
  PROVE  /\ Inserted(c.rows) \in Maps
         /\ \A id \in Present(rows) : Inserted(c.rows)[id] = rows[id]
         /\ \A i \in DOMAIN c.rows :
              /\ Inserted(c.rows)[c.rows[i].id] # Absent
              /\ Inserted(c.rows)[c.rows[i].id].url = c.rows[i].url
<1> DEFINE batch == c.rows
           new == Inserted(c.rows)
           S == DOMAIN batch
           f == [i \in S |-> batch[i].id]
<1>1. batch \in Batches /\ batch \in Seq(Row)
  BY CallFields, TypesAssumption
<1>2. \A i \in S : /\ batch[i].id \in Ids /\ NewInfo(batch[i]) \in UrlInfo
                   /\ NewInfo(batch[i]) # Absent /\ NewInfo(batch[i]).url = batch[i].url
  BY <1>1, RowFields DEF NewInfo
<1>3. S = 1..Len(batch) /\ Len(batch) \in Nat
  BY <1>1
<1>4. IsFiniteSet(S) /\ Cardinality(S) = Len(batch)
  BY <1>3, FS_Interval
<1>5. f \in Surjection(S, IdsOf(c))
  BY DEF Surjection, IdsOf
<1>6. f \in Injection(S, IdsOf(c))
  <2>1. Cardinality(S) = Cardinality(IdsOf(c))
    BY <1>4 DEF Insertable
  <2> QED
    BY <1>4, <1>5, <2>1, FS_SurjSameCardinalityImpliesInj
<1>7. \A i, j \in S : batch[i].id = batch[j].id => i = j
  BY <1>6 DEF Injection, IsInjective
<1>8. \A i \in S : new[batch[i].id] = NewInfo(batch[i])
  BY <1>2, <1>7 DEF Inserted
<1>9. \A id \in Present(rows) : new[id] = rows[id]
  BY DEF Inserted, Insertable, IdsOf, Present
<1>10. new \in Maps
  <2>1. \A id \in Ids : new[id] \in UrlInfo \cup {Absent}
    <3> TAKE id \in Ids
    <3>1. CASE \E i \in S : batch[i].id = id
      BY <1>2, <1>8, <3>1
    <3>2. CASE ~\E i \in S : batch[i].id = id
      BY <3>2 DEF Inserted, Maps
    <3> QED
      BY <3>1, <3>2
  <2>2. new = [id \in Ids |-> new[id]]
    BY DEF Inserted
  <2> HIDE DEF new
  <2> QED
    BY <2>1, <2>2 DEF Maps
<1> QED
  BY <1>2, <1>8, <1>9, <1>10

(* The rows after a Delete statement of c. *)
AfterDelete(c) ==
  [id \in Ids |-> IF \E i \in DOMAIN c.ids : c.ids[i] = id THEN Marked(rows[id], c.user) ELSE rows[id]]

LEMMA AfterDeleteFacts ==
  ASSUME rows \in Maps, NEW c
  PROVE  /\ AfterDelete(c) \in Maps
         /\ \A id \in Present(rows) :
              /\ AfterDelete(c)[id] # Absent
              /\ AfterDelete(c)[id].url = rows[id].url /\ AfterDelete(c)[id].user = rows[id].user
              /\ rows[id].deleted => AfterDelete(c)[id].deleted
<1>1. \A id \in Ids : rows[id] \in UrlInfo \cup {Absent}
  BY DEF Maps
<1>2. \A id \in Ids : AfterDelete(c)[id] \in {rows[id], Marked(rows[id], c.user)}
  BY DEF AfterDelete
<1>3. AfterDelete(c) = [id \in Ids |-> AfterDelete(c)[id]]
  BY DEF AfterDelete
<1>4. AfterDelete(c) \in Maps
  BY <1>1, <1>2, <1>3, MarkedFacts DEF Maps
<1> QED
  BY <1>1, <1>2, <1>4, MarkedFacts DEF Present

(* The counts of GetStats are numbers, and a list cut short is a list. *)
LEMMA CountsType ==
  ASSUME NEW d \in Maps, NEW c, c.op # "list"
  PROVE  Report(c, Entries(d)).urls \in Nat /\ Report(c, Entries(d)).users \in Nat
<1>1. Report(c, Entries(d)) \in Results
  BY EntriesFinite, ReportType
<1>2. Report(c, Entries(d)).kind = "stats"
  BY DEF Report
<1> QED
  BY <1>1, <1>2 DEF Results

LEMMA CutListType ==
  ASSUME NEW d \in Maps, NEW c, c.op = "list",
         NEW some \in SUBSET Report(c, Entries(d)).rows
  PROVE  [Report(c, Entries(d)) EXCEPT !.rows = some] \in Results
<1>1. Report(c, Entries(d)) \in Results
  BY EntriesFinite, ReportType
<1>2. Report(c, Entries(d)).kind = "urls"
  BY DEF Report
<1>3. Report(c, Entries(d)) \in [kind: {"urls"}, rows: SUBSET UserURL]
  BY <1>1, <1>2 DEF Results
<1> QED
  BY <1>3 DEF Results

-----------------------------------------------------------------------------
(* Type correctness and the pool.                                          *)

(* A statement of one kind is only run for a call of that kind. *)
OpMatchesPhase ==
  \A p \in Procs :
    /\ pc[p] # "idle" => call[p] \in Calls
    /\ pc[p] \in {"tx1", "count1", "tx2", "count2", "commit"} => call[p].op = "stats"

(* The goroutines that hold a connection, and those that hold a second. *)
Holders == {p \in Procs : pc[p] \notin {"idle", "wait"}}

Counting == {p \in Procs : pc[p] \in {"count1", "count2"}}

(* The pool's counter is what the goroutines hold.  Without it inUse might *)
(* go below zero, or never come back to it.                                *)
PoolInv ==
  /\ IsFiniteSet(Holders) /\ IsFiniteSet(Counting)
  /\ inUse = Cardinality(Holders) + Cardinality(Counting)

(* What schema_migrations says of the table.  The mark is set before a     *)
(* file runs and cleared after it has been committed, so a clean version   *)
(* means that its files and all before it have been applied, whatever      *)
(* statement an earlier start was interrupted at; the error of m.Up()      *)
(* tells whether the version is clean and the last one.                    *)
SchemaInv ==
  /\ ~dirty => applied = 1..version
  /\ process = "pending" => ~dirty /\ version < LastMigration
  /\ process = "applying" => dirty /\ version > 0 /\ applied \cup {version} = 1..version
  /\ process = "applied" => dirty /\ applied = 1..version
  /\ process = "serving" \/ (process = "returned" /\ up \in {"nil", "ErrNoChange"}) =>
       ~dirty /\ version = LastMigration

LEMMA SchemaInvUnchanged == SchemaInv /\ UNCHANGED startup => SchemaInv'
BY DEF SchemaInv, startup, schema

TypeInv == TypeOK /\ OpMatchesPhase /\ PoolInv /\ SchemaInv

LEMMA TypeInvInit == Init => TypeInv
<1> SUFFICES ASSUME Init PROVE TypeInv
  OBVIOUS
<1>1. TypeOK
  <2>1. rows \in Maps /\ inUse \in 0..MaxOpenConns
    BY DBAssumption DEF Init, Maps
  <2>2. Plain("none") \in Results /\ NoCounts \in [urls: Nat, users: Nat]
    BY DEF Plain, Results, NoCounts
  <2>3. LastMigration \in Nat /\ applied \subseteq 1..LastMigration
    BY DEF Init, LastMigration
  <2> QED
    BY <2>1, <2>2, <2>3 DEF Init, TypeOK
<1>2. Holders = {} /\ Counting = {}
  BY DEF Init, Holders, Counting
<1>3. PoolInv
  BY <1>2, FS_EmptySet DEF Init, PoolInv
<1>4. SchemaInv
  BY DEF Init, SchemaInv
<1> QED
  BY <1>1, <1>3, <1>4 DEF Init, OpMatchesPhase, TypeInv

(* A call that returns gives back exactly what it held. *)
LEMMA ReturnType ==
  ASSUME TypeInv, NEW p \in Procs, pc[p] # "idle", rows' \in Maps,
         NEW done \in Results, NEW results \in SUBSET Results, Return(p, done, results)
  PROVE  TypeInv'
<1>1. /\ pc' = [pc EXCEPT ![p] = "idle"] /\ inUse' = inUse - Held(p)
      /\ answer' = [answer EXCEPT ![p] = done]
      /\ \E result \in Results \cup {Plain("failed")} : ret' = [ret EXCEPT ![p] = result]
      /\ counted' = [counted EXCEPT ![p] = NoCounts]
      /\ UNCHANGED <<startup, call>>
  BY DEF Return
<1>2. /\ pc \in [Procs -> {"idle"} \cup Waiting \cup Connected]
      /\ inUse \in 0..MaxOpenConns /\ MaxOpenConns \in Nat
  BY DBAssumption DEF TypeInv, TypeOK
<1>3. Holders' = Holders \ {p} /\ Counting' = Counting \ {p}
  BY <1>1, <1>2 DEF Holders, Counting
<1>4. /\ IsFiniteSet(Holders') /\ IsFiniteSet(Counting')
      /\ Cardinality(Holders') = Cardinality(Holders) - IF p \in Holders THEN 1 ELSE 0
      /\ Cardinality(Counting') = Cardinality(Counting) - IF p \in Counting THEN 1 ELSE 0
      /\ Cardinality(Holders) \in Nat /\ Cardinality(Counting) \in Nat
      /\ Cardinality(Holders') \in Nat /\ Cardinality(Counting') \in Nat
  BY <1>3, FS_RemoveElement, FS_CardinalityType DEF TypeInv, PoolInv
<1>5. Held(p) = (IF p \in Holders THEN 1 ELSE 0) + (IF p \in Counting THEN 1 ELSE 0)
  BY DEF Held, Holders, Counting
<1>6. PoolInv' /\ inUse' \in 0..MaxOpenConns
  BY <1>1, <1>2, <1>4, <1>5 DEF TypeInv, PoolInv
<1>7. OpMatchesPhase'
  BY <1>1, <1>2 DEF TypeInv, OpMatchesPhase
<1>8. TypeOK'
  BY <1>1, <1>6 DEF TypeInv, TypeOK, NoCounts, startup, schema
<1>9. SchemaInv'
  BY <1>1, SchemaInvUnchanged DEF TypeInv
<1> QED
  BY <1>6, <1>7, <1>8, <1>9 DEF TypeInv

LEMMA TypeInvAcquire ==
  ASSUME TypeInv, NEW p \in Procs, Acquire(p)
  PROVE  TypeInv'
<1> DEFINE next == CASE pc[p] = "tx1" -> "count1"
                     [] pc[p] = "tx2" -> "count2"
                     [] OTHER     -> IF call[p].op = "stats" THEN "tx1" ELSE "conn"
<1>1. /\ pc[p] \in {"wait", "tx1", "tx2"}
      /\ inUse < MaxOpenConns /\ inUse' = inUse + 1
      /\ pc' = [pc EXCEPT ![p] = next]
      /\ UNCHANGED <<rows, startup, call, counted, answer, ret>>
  BY DEF Acquire, Waiting
<1>2. /\ pc \in [Procs -> {"idle"} \cup Waiting \cup Connected]
      /\ inUse \in 0..MaxOpenConns /\ MaxOpenConns \in Nat
  BY DBAssumption DEF TypeInv, TypeOK
<1>3. /\ pc[p] = "wait" => next \in {"tx1", "conn"} /\ (next = "tx1" => call[p].op = "stats")
      /\ pc[p] = "tx1" => next = "count1"
      /\ pc[p] = "tx2" => next = "count2"
  OBVIOUS
<1> HIDE DEF next
<1>4. TypeOK'
  BY <1>1, <1>2, <1>3 DEF TypeInv, TypeOK, Waiting, Connected, startup, schema
<1>5. OpMatchesPhase'
  BY <1>1, <1>2, <1>3 DEF TypeInv, OpMatchesPhase
<1>6. IsFiniteSet(Holders) /\ IsFiniteSet(Counting) /\ inUse = Cardinality(Holders) + Cardinality(Counting)
  BY DEF TypeInv, PoolInv
<1>7. CASE pc[p] = "wait"
  <2>1. Holders' = Holders \cup {p} /\ p \notin Holders /\ Counting' = Counting
    BY <1>1, <1>2, <1>3, <1>7 DEF Holders, Counting
  <2>2. IsFiniteSet(Holders') /\ Cardinality(Holders') = Cardinality(Holders) + 1
    BY <1>6, <2>1, FS_AddElement
  <2>3. PoolInv'
    BY <1>1, <1>6, <2>1, <2>2, FS_CardinalityType DEF PoolInv
  <2> QED
    BY <1>1, <1>4, <1>5, <2>3, SchemaInvUnchanged DEF TypeInv
<1>8. CASE pc[p] \in {"tx1", "tx2"}
  <2>1. Counting' = Counting \cup {p} /\ p \notin Counting /\ Holders' = Holders
    BY <1>1, <1>2, <1>3, <1>8 DEF Holders, Counting
  <2>2. IsFiniteSet(Counting') /\ Cardinality(Counting') = Cardinality(Counting) + 1
    BY <1>6, <2>1, FS_AddElement
  <2>3. PoolInv'
    BY <1>1, <1>6, <2>1, <2>2, FS_CardinalityType DEF PoolInv
  <2> QED
    BY <1>1, <1>4, <1>5, <2>3, SchemaInvUnchanged DEF TypeInv
<1> QED
  BY <1>1, <1>7, <1>8

LEMMA TypeInvCount ==
  ASSUME TypeInv, NEW p \in Procs, Count(p)
  PROVE  TypeInv'
<1> DEFINE now == Report(call[p], Entries(rows))
<1>1. /\ \/ /\ pc[p] = "count1" /\ pc' = [pc EXCEPT ![p] = "tx2"]
            /\ counted' = [counted EXCEPT ![p].urls = now.urls]
         \/ /\ pc[p] = "count2" /\ pc' = [pc EXCEPT ![p] = "commit"]
            /\ counted' = [counted EXCEPT ![p].users = now.users]
      /\ inUse' = inUse - 1
      /\ UNCHANGED <<rows, startup, call, answer, ret>>
  BY DEF Count
<1>2. /\ pc \in [Procs -> {"idle"} \cup Waiting \cup Connected]
      /\ inUse \in 0..MaxOpenConns /\ MaxOpenConns \in Nat
      /\ call[p].op = "stats" /\ rows \in Maps
      /\ counted \in [Procs -> [urls: Nat, users: Nat]]
  BY <1>1, DBAssumption DEF TypeInv, TypeOK, OpMatchesPhase
<1>3. now.urls \in Nat /\ now.users \in Nat
  BY <1>2, CountsType
<1> HIDE DEF now
<1>4. counted' \in [Procs -> [urls: Nat, users: Nat]]
  BY <1>1, <1>2, <1>3
<1>5. OpMatchesPhase'
  BY <1>1, <1>2 DEF TypeInv, OpMatchesPhase
<1>6. Counting' = Counting \ {p} /\ p \in Counting /\ Holders' = Holders
  BY <1>1, <1>2 DEF Holders, Counting
<1>7. /\ IsFiniteSet(Counting') /\ Cardinality(Counting') = Cardinality(Counting) - 1
      /\ Cardinality(Counting') \in Nat /\ Cardinality(Holders) \in Nat
      /\ Cardinality(Counting) \in Nat
  BY <1>6, FS_RemoveElement, FS_CardinalityType DEF TypeInv, PoolInv
<1>8. PoolInv' /\ inUse' \in 0..MaxOpenConns
  BY <1>1, <1>2, <1>6, <1>7 DEF TypeInv, PoolInv
<1>9. TypeOK'
  BY <1>1, <1>2, <1>4, <1>8 DEF TypeInv, TypeOK, Waiting, Connected, startup, schema
<1> QED
  BY <1>1, <1>5, <1>8, <1>9, SchemaInvUnchanged DEF TypeInv

(* Everything a call can return is a result of its type. *)
LEMMA TypeInvRun ==
  ASSUME TypeInv, NEW p \in Procs, Cancel(p) \/ Run(p)
  PROVE  TypeInv'
<1>1. rows \in Maps /\ counted \in [Procs -> [urls: Nat, users: Nat]]
  BY DEF TypeInv, TypeOK
<1>2. \A kind \in {"ok", "cancelled"} : Plain(kind) \in Results
  BY DEF Plain, Results
<1>3. \A id \in Ids : AlreadyExists(id) \in Results
  BY DEF AlreadyExists, Results
<1>4. pc[p] # "idle" => call[p] \in Calls
  BY DEF TypeInv, OpMatchesPhase
<1>5. CASE NothingToDo(p)
  BY <1>1, <1>2, <1>5, ReturnType DEF NothingToDo
<1>6. CASE Cancel(p) \/ Fail(p)
  <2>1. /\ pc[p] # "idle" /\ UNCHANGED rows /\ Return(p, Plain("cancelled"), {})
        /\ Plain("cancelled") \in Results /\ {} \in SUBSET Results
    BY <1>2, <1>6 DEF Cancel, Fail, Waiting, Connected
  <2> QED
    BY <1>1, <2>1, ReturnType
<1>7. CASE InsertOne(p)
  <2>1. /\ pc[p] # "idle" /\ call[p] \in Calls /\ Insertable(call[p])
        /\ rows' = Inserted(call[p].rows) /\ call[p].op = "add"
        /\ Return(p, Plain("ok"), {Plain("ok")})
    BY <1>4, <1>7 DEF InsertOne, Created
  <2>2. rows' \in Maps
    BY <1>1, <2>1, InsertedFacts
  <2> QED
    BY <1>2, <2>1, <2>2, ReturnType
<1>8. CASE InsertBatch(p)
  <2>1. /\ pc[p] # "idle" /\ call[p] \in Calls /\ Insertable(call[p])
        /\ rows' = Inserted(call[p].rows) /\ call[p].op = "add"
        /\ Return(p, Plain("ok"), {Plain("ok")})
    BY <1>4, <1>8 DEF InsertBatch
  <2>2. rows' \in Maps
    BY <1>1, <2>1, InsertedFacts
  <2> QED
    BY <1>2, <2>1, <2>2, ReturnType
<1>9. CASE Upsert(p)
  <2>1. PICK id \in Present(rows) : Return(p, AlreadyExists(id), {Created(call[p].rows[1], id)})
    BY <1>9 DEF Upsert
  <2>2. id \in Ids /\ AlreadyExists(id) \in Results /\ Created(call[p].rows[1], id) \in Results
    BY <1>2, <1>3 DEF Present, Created
  <2>3. pc[p] # "idle" /\ rows' \in Maps /\ {Created(call[p].rows[1], id)} \in SUBSET Results
    BY <1>1, <1>9, <2>2 DEF Upsert
  <2> QED
    BY <2>1, <2>2, <2>3, ReturnType
<1>10. CASE Delete(p)
  <2>1. rows' = AfterDelete(call[p]) /\ pc[p] # "idle" /\ Return(p, Plain("ok"), {Plain("ok")})
    BY <1>10 DEF Delete, AfterDelete
  <2>2. rows' \in Maps
    BY <1>1, <2>1, AfterDeleteFacts
  <2> QED
    BY <1>2, <2>1, <2>2, ReturnType
<1>11. CASE Get(p)
  <2>1. call[p].id \in Ids /\ pc[p] # "idle"
    BY <1>4, <1>11, CallFields DEF Get
  <2>2. Fetch(rows, call[p].id) \in Results
    BY <1>1, <2>1, FetchType
  <2>3. rows' \in Maps /\ Return(p, Fetch(rows, call[p].id), {Fetch(rows, call[p].id)})
    BY <1>1, <1>11 DEF Get
  <2> QED
    BY <2>1, <2>2, <2>3, ReturnType
<1>12. CASE List(p)
  <2> DEFINE all == Report(call[p], Entries(rows))
             cut == {[all EXCEPT !.rows = some] : some \in SUBSET all.rows}
  <2>1. pc[p] # "idle" /\ call[p].op = "list" /\ Return(p, all, cut) /\ rows' \in Maps
    BY <1>1, <1>12 DEF List
  <2>2. all \in Results
    BY <1>1, EntriesFinite, ReportType
  <2>3. cut \in SUBSET Results
    BY <1>1, <2>1, CutListType
  <2> HIDE DEF all, cut
  <2> QED
    BY <2>1, <2>2, <2>3, ReturnType
<1>13. CASE Count(p)
  BY <1>13, TypeInvCount
<1>14. CASE Commit(p)
  <2> DEFINE stats == [kind |-> "stats", urls |-> counted[p].urls, users |-> counted[p].users]
  <2>1. pc[p] # "idle" /\ rows' \in Maps /\ Return(p, Plain("cancelled"), {stats})
    BY <1>1, <1>14 DEF Commit
  <2>2. stats \in Results
    BY <1>1 DEF Results
  <2> HIDE DEF stats
  <2> QED
    BY <1>2, <2>1, <2>2, ReturnType
<1> QED
  BY <1>5, <1>6, <1>7, <1>8, <1>9, <1>10, <1>11, <1>12, <1>13, <1>14 DEF Run

(* A start touches nothing but the schema and its own place.               *)
LEMMA TypeInvStartup ==
  ASSUME TypeInv, Startup
  PROVE  TypeInv'
<1>1. /\ version \in 0..LastMigration /\ dirty \in BOOLEAN
      /\ applied \subseteq 1..LastMigration /\ LastMigration \in Nat
      /\ SchemaInv
  BY DEF TypeInv, TypeOK, LastMigration
<1> DEFINE SchemaType ==
             /\ version \in 0..LastMigration /\ dirty \in BOOLEAN
             /\ applied \subseteq 1..LastMigration
<1>2. CASE Connect \/ Serve \/ Die
  <2>1. /\ UNCHANGED <<version, dirty, applied>>
        /\ process' \in {"down", "migrating", "serving"}
        /\ process' = "serving" => process = "returned" /\ up \in {"nil", "ErrNoChange"}
    BY <1>2 DEF Connect, Serve, Die, schema
  <2>2. SchemaType' /\ SchemaInv'
    BY <1>1, <2>1 DEF SchemaInv
  <2> QED
    BY <1>2, <2>2
    DEF Connect, Serve, Die, calls, TypeInv, TypeOK, OpMatchesPhase, PoolInv, Holders, Counting
<1>3. CASE ReadVersion
  <2>1. SchemaType' /\ SchemaInv'
    BY <1>1, <1>3 DEF ReadVersion, UpReturns, schema, SchemaInv
  <2> QED
    BY <1>3, <2>1
    DEF ReadVersion, UpReturns, calls, TypeInv, TypeOK, OpMatchesPhase, PoolInv, Holders, Counting
<1>4. CASE SetDirty
  <2>1. applied \cup {version + 1} = 1..(version + 1)
    BY <1>1, <1>4 DEF SetDirty, SchemaInv
  <2>2. SchemaType' /\ SchemaInv'
    BY <1>1, <1>4, <2>1 DEF SetDirty, SchemaInv
  <2> QED
    BY <1>4, <2>2 DEF SetDirty, calls, TypeInv, TypeOK, OpMatchesPhase, PoolInv, Holders, Counting
<1>5. CASE RunFile
  <2>1. SchemaType' /\ SchemaInv'
    BY <1>1, <1>5 DEF RunFile, SchemaInv
  <2> QED
    BY <1>5, <2>1 DEF RunFile, calls, TypeInv, TypeOK, OpMatchesPhase, PoolInv, Holders, Counting
<1>6. CASE SetClean
  <2>1. /\ applied = 1..version /\ UNCHANGED <<version, applied>> /\ dirty' = FALSE
        /\ \/ version < LastMigration /\ process' = "pending"
           \/ ~(version < LastMigration) /\ process' = "returned"
    BY <1>1, <1>6 DEF SetClean, UpReturns, SchemaInv
  <2>2. ~(version < LastMigration) => version = LastMigration
    BY <1>1
  <2>3. SchemaInv'
    BY <2>1, <2>2 DEF SchemaInv
  <2>4. SchemaType'
    BY <1>1, <2>1
  <2> QED
    BY <1>6, <2>3, <2>4 DEF SetClean, UpReturns, calls, TypeInv, TypeOK, OpMatchesPhase, PoolInv, Holders, Counting
<1>7. CASE UpFails
  <2>1. SchemaType' /\ SchemaInv'
    BY <1>1, <1>7 DEF UpFails, UpReturns, SchemaInv
  <2> QED
    BY <1>7, <2>1 DEF UpFails, UpReturns, calls, TypeInv, TypeOK, OpMatchesPhase, PoolInv, Holders, Counting
<1> QED
  BY <1>2, <1>3, <1>4, <1>5, <1>6, <1>7 DEF Startup

LEMMA TypeInvStep == TypeInv /\ [Next]_vars => TypeInv'
<1> SUFFICES ASSUME TypeInv, [Next]_vars PROVE TypeInv'
  OBVIOUS
<1>1. CASE UNCHANGED vars
  <2>1. SchemaInv'
    BY <1>1, SchemaInvUnchanged DEF TypeInv, vars, startup, schema
  <2> QED
    BY <1>1, <2>1 DEF vars, TypeInv, TypeOK, OpMatchesPhase, PoolInv, Holders, Counting
<1>2. CASE Startup
  BY <1>2, TypeInvStartup
<1>3. ASSUME NEW p \in Procs, Invoke(p) PROVE TypeInv'
  <2>1. PICK c \in Calls : call' = [call EXCEPT ![p] = c]
    BY <1>3 DEF Invoke
  <2>2. /\ pc[p] = "idle" /\ pc' = [pc EXCEPT ![p] = "wait"]
        /\ answer' = [answer EXCEPT ![p] = Plain("none")] /\ ret' = [ret EXCEPT ![p] = Plain("none")]
        /\ UNCHANGED <<rows, startup, inUse, counted>>
    BY <1>3 DEF Invoke
  <2>3. TypeOK'
    BY <2>1, <2>2 DEF TypeInv, TypeOK, Waiting, Plain, Results, startup, schema
  <2>4. OpMatchesPhase'
    BY <2>1, <2>2 DEF TypeInv, TypeOK, OpMatchesPhase
  <2>5. Holders' = Holders /\ Counting' = Counting
    BY <2>2 DEF TypeInv, TypeOK, Holders, Counting
  <2> QED
    BY <2>2, <2>3, <2>4, <2>5, SchemaInvUnchanged DEF TypeInv, PoolInv
<1> QED
  BY <1>1, <1>2, <1>3, TypeInvAcquire, TypeInvRun DEF Next

(* Every variable is always of its type; in particular the pool never      *)
(* lends more connections than it has and gets back no more than it lent.  *)
THEOREM TypeCorrect == Spec => []TypeOK
<1>1. TypeInv => TypeOK
  BY DEF TypeInv
<1> QED
  BY <1>1, TypeInvInit, TypeInvStep, PTL DEF Spec

-----------------------------------------------------------------------------
(* The schema.                                                             *)

(* Requests are served on a table that has seen every migration, whichever *)
(* statement of whichever migration earlier starts were interrupted at.    *)
THEOREM FullSchema == Spec => []ServesFullSchema
<1>1. TypeInv => ServesFullSchema
  BY DEF TypeInv, SchemaInv, ServesFullSchema
<1> QED
  BY <1>1, TypeInvInit, TypeInvStep, PTL DEF Spec

-----------------------------------------------------------------------------
(* Stored rows.                                                            *)

RowsKept ==
  \A id \in Present(rows) :
     /\ id \in Present(rows')
     /\ rows'[id].url = rows[id].url /\ rows'[id].user = rows[id].user
     /\ rows[id].deleted => rows'[id].deleted

LEMMA RowsKeptStep == TypeInv /\ [Next]_vars => RowsKept
<1> SUFFICES ASSUME TypeInv, [Next]_vars PROVE RowsKept
  OBVIOUS
<1>1. rows \in Maps
  BY DEF TypeInv, TypeOK
<1>2. CASE UNCHANGED rows
  BY <1>2 DEF RowsKept, Present
<1>3. ASSUME NEW p \in Procs, InsertOne(p) \/ InsertBatch(p) PROVE RowsKept
  <2>1. /\ call[p] \in Calls /\ call[p].op = "add" /\ Insertable(call[p])
        /\ rows' = Inserted(call[p].rows)
    BY <1>3 DEF InsertOne, InsertBatch, TypeInv, OpMatchesPhase
  <2>2. \A id \in Present(rows) : rows'[id] = rows[id]
    BY <1>1, <2>1, InsertedFacts
  <2> QED
    BY <2>2 DEF RowsKept, Present
<1>4. ASSUME NEW p \in Procs, Delete(p) PROVE RowsKept
  <2>1. rows' = AfterDelete(call[p])
    BY <1>4 DEF Delete, AfterDelete
  <2> QED
    BY <1>1, <2>1, AfterDeleteFacts DEF RowsKept, Present
<1> QED
  BY <1>2, <1>3, <1>4
  DEF Next, Startup, Connect, ReadVersion, SetDirty, RunFile, SetClean, UpFails, Serve, Die, Invoke, Acquire, Cancel,
      Run, NothingToDo, Fail, Upsert, Get, List, Count, Commit, vars

(* A link keeps its URL and owner for ever and its deletion is final, even *)
(* when GenerateID repeats an id.                                          *)
THEOREM RowsAreKept == Spec => RowsPermanent
<1>1. TypeInv /\ [Next]_vars => [RowsKept]_vars
  BY RowsKeptStep
<1> QED
  BY <1>1, TypeInvInit, TypeInvStep, PTL DEF Spec, RowsPermanent, RowsKept

(* What AckedRowsStored says of a call that has returned holds of the      *)
(* result of every call; while a call is in progress that is "none".       *)
AckHolds(p) ==
  call[p].op = "add" =>
    /\ ret[p].kind = "ok" =>
         \A i \in DOMAIN call[p].rows :
           /\ call[p].rows[i].id \in Present(rows)
           /\ rows[call[p].rows[i].id].url = call[p].rows[i].url
    /\ ret[p].kind = "exists" =>
         ret[p].id \in Present(rows) /\ rows[ret[p].id].url \in UrlsOf(call[p])

AckInv == \A p \in Procs : AckHolds(p)

LEMMA AckInvStep == TypeInv /\ AckInv /\ [Next]_vars => AckInv'
<1> SUFFICES ASSUME TypeInv, AckInv, [Next]_vars PROVE AckInv'
  OBVIOUS
<1>1. /\ rows \in Maps /\ ret \in [Procs -> Results \cup {Plain("failed")}]
      /\ call \in [Procs -> Calls \cup {NoCall}]
  BY DEF TypeInv, TypeOK
<1>2. RowsKept
  BY RowsKeptStep
<1>3. ASSUME NEW q \in Procs, ret'[q] = ret[q], call'[q] = call[q] PROVE AckHolds(q)'
  BY <1>2, <1>3 DEF RowsKept, AckInv, AckHolds, UrlsOf
<1>4. ASSUME NEW q \in Procs, ret'[q].kind \notin {"ok", "exists"} PROVE AckHolds(q)'
  BY <1>4 DEF AckHolds
<1>5. CASE UNCHANGED <<ret, call>>
  BY <1>3, <1>5 DEF AckInv
<1>6. ASSUME NEW p \in Procs, NEW done, NEW results, Return(p, done, results),
             \A result \in results : ret' = [ret EXCEPT ![p] = result] => AckHolds(p)'
      PROVE  AckInv'
  <2>1. PICK result \in results \cup {Plain("failed")} : ret' = [ret EXCEPT ![p] = result]
    BY <1>6 DEF Return
  <2>2. UNCHANGED call /\ \A q \in Procs : q # p => ret'[q] = ret[q]
    BY <1>6, <2>1 DEF Return
  <2>3. CASE result = Plain("failed")
    BY <1>1, <1>3, <1>4, <2>1, <2>2, <2>3 DEF Plain, AckInv
  <2>4. CASE result \in results
    BY <1>3, <1>6, <2>1, <2>2, <2>4 DEF AckInv
  <2> QED
    BY <2>1, <2>3, <2>4
<1>7. ASSUME NEW p \in Procs, Invoke(p) PROVE AckInv'
  <2>1. PICK c \in Calls : call' = [call EXCEPT ![p] = c]
    BY <1>7 DEF Invoke
  <2>2. ret' = [ret EXCEPT ![p] = Plain("none")]
    BY <1>7 DEF Invoke
  <2>3. ret'[p].kind = "none" /\ \A q \in Procs : q # p => ret'[q] = ret[q] /\ call'[q] = call[q]
    BY <1>1, <2>1, <2>2 DEF Plain
  <2> QED
    BY <1>3, <1>4, <2>3 DEF AckInv
<1>8. ASSUME NEW p \in Procs, NothingToDo(p) PROVE AckInv'
  <2>1. UNCHANGED call /\ Return(p, Plain("ok"), {Plain("ok")}) /\ Empty(call[p])
    BY <1>8 DEF NothingToDo, Return
  <2>2. ret' = [ret EXCEPT ![p] = Plain("ok")] => AckHolds(p)'
    BY <1>1, <2>1 DEF Empty, Plain, AckHolds
  <2> QED
    BY <1>6, <2>1, <2>2
<1>9. ASSUME NEW p \in Procs, Cancel(p) \/ Fail(p) PROVE AckInv'
  BY <1>6, <1>9 DEF Cancel, Fail
<1>10. ASSUME NEW p \in Procs, InsertOne(p) \/ InsertBatch(p) PROVE AckInv'
  <2>1. /\ call[p] \in Calls /\ call[p].op = "add" /\ Insertable(call[p])
        /\ rows' = Inserted(call[p].rows) /\ UNCHANGED call
        /\ Return(p, Plain("ok"), {Plain("ok")})
    BY <1>10 DEF InsertOne, InsertBatch, Created, Return, TypeInv, OpMatchesPhase
  <2>2. \A i \in DOMAIN call[p].rows :
          /\ call[p].rows[i].id \in Ids /\ rows'[call[p].rows[i].id] # Absent
          /\ rows'[call[p].rows[i].id].url = call[p].rows[i].url
    BY <1>1, <2>1, InsertedFacts, CallFields, RowFields
  <2>3. ret' = [ret EXCEPT ![p] = Plain("ok")] => AckHolds(p)'
    BY <1>1, <2>1, <2>2 DEF Plain, AckHolds, Present
  <2> QED
    BY <1>6, <2>1, <2>3
<1>11. ASSUME NEW p \in Procs, Upsert(p) PROVE AckInv'
  <2> DEFINE row == call[p].rows[1]
  <2>1. PICK id \in Present(rows) :
          rows[id].url = row.url /\ Return(p, AlreadyExists(id), {Created(row, id)})
    BY <1>11 DEF Upsert
  <2>2. UNCHANGED <<rows, call>> /\ Len(call[p].rows) = 1 /\ call[p].rows \in Seq(Row)
    BY <1>11, CallFields, TypesAssumption DEF Upsert, Return, TypeInv, OpMatchesPhase
  <2>3. DOMAIN call[p].rows = {1}
    BY <2>2
  <2>4. ASSUME ret' = [ret EXCEPT ![p] = Created(row, id)] PROVE AckHolds(p)'
    <3>1. CASE id = row.id
      BY <1>1, <2>1, <2>2, <2>3, <2>4, <3>1 DEF Created, Plain, AckHolds, Present
    <3>2. CASE id # row.id
      BY <1>1, <2>1, <2>2, <2>3, <2>4, <3>2 DEF Created, AlreadyExists, AckHolds, Present, UrlsOf
    <3> QED
      BY <3>1, <3>2
  <2> QED
    BY <1>6, <2>1, <2>4
<1>12. ASSUME NEW p \in Procs, NEW op, op # "add", NEW done, NEW results,
              call[p].op = op, Return(p, done, results)
       PROVE  AckInv'
  BY <1>6, <1>12 DEF Return, AckHolds
<1>13. ASSUME NEW p \in Procs, Delete(p) \/ Get(p) \/ List(p) \/ Commit(p) PROVE AckInv'
  <2>1. CASE Delete(p)
    BY <1>12, <2>1 DEF Delete
  <2>2. CASE Get(p)
    BY <1>12, <2>2 DEF Get
  <2>3. CASE List(p)
    BY <1>12, <2>3 DEF List
  <2>4. CASE Commit(p)
    <3>1. call[p].op = "stats"
      BY <2>4 DEF Commit, TypeInv, OpMatchesPhase
    <3> QED
      BY <1>12, <2>4, <3>1 DEF Commit
  <2> QED
    BY <1>13, <2>1, <2>2, <2>3, <2>4
<1>14. CASE Startup
  BY <1>5, <1>14 DEF Startup, Connect, ReadVersion, SetDirty, RunFile, SetClean, UpFails, Serve, Die, calls
<1>15. ASSUME NEW p \in Procs, Acquire(p) \/ Count(p) PROVE AckInv'
  BY <1>5, <1>15 DEF Acquire, Count
<1>16. CASE UNCHANGED vars
  BY <1>5, <1>16 DEF vars
<1> QED
  BY <1>7, <1>8, <1>9, <1>10, <1>11, <1>13, <1>14, <1>15, <1>16 DEF Next, Run

(* Whatever short URL the service hands out after an Add or an AddBatch,   *)
(* its row is in the table and holds the URL it was asked for, and stays.  *)
THEOREM AckedRowsAreStored == Spec => []AckedRowsStored
<1>1. Init => AckInv
  BY DEF Init, AckInv, AckHolds, Plain
<1>2. AckInv => AckedRowsStored
  BY DEF AckInv, AckHolds, AckedRowsStored, Present
<1> QED
  BY <1>1, <1>2, TypeInvInit, TypeInvStep, AckInvStep, PTL DEF Spec

-----------------------------------------------------------------------------
(* The database implements the atomic store.                               *)

(* A call that returns, as the store sees it. *)
LEMMA ReturnResponds ==
  ASSUME TypeInv, NEW p \in Procs, pc[p] # "idle", NEW done, NEW results, Return(p, done, results)
  PROVE  Store!Respond(p, done)
<1>1. /\ pc' = [pc EXCEPT ![p] = "idle"] /\ pc \in [Procs -> {"idle"} \cup Waiting \cup Connected]
      /\ answer' = [answer EXCEPT ![p] = done] /\ UNCHANGED call
  BY DEF Return, TypeInv, TypeOK
<1>2. {q \in Procs : pc'[q] # "idle"} = {q \in Procs : pc[q] # "idle"} \ {p}
  BY <1>1
<1> QED
  BY <1>1, <1>2 DEF Store!Respond

(* The store computes the same list. *)
LEMMA ReportSame ==
  ASSUME NEW c, c.op = "list"
  PROVE  Store!Report(c, Store!Entries(rows)) = Report(c, Entries(rows))
<1>1. Store!Present(rows) = Present(rows) /\ \A id : Store!Entry(rows, id) = Entry(rows, id)
  BY DEF Present, Store!Present, Entry, Store!Entry
<1>2. Store!Entries(rows) = Entries(rows)
  BY <1>1 DEF Entries, Store!Entries
<1>3. Store!Live(Entries(rows)) = Live(Entries(rows))
  BY DEF Live, Store!Live
<1>4. \A user : Store!UrlsOfUser(Entries(rows), user) = UrlsOfUser(Entries(rows), user)
  BY <1>3 DEF UrlsOfUser, Store!UrlsOfUser
<1> QED
  BY <1>2, <1>3, <1>4 DEF Report, Store!Report

(* The statements are the store's atomic steps; waiting for a connection,  *)
(* counting and migrating are invisible to it.                             *)
LEMMA StoreStep == TypeInv /\ [Next]_vars => [Store!Next]_Store!vars
<1> SUFFICES ASSUME TypeInv, [Next]_vars PROVE [Store!Next]_Store!vars
  OBVIOUS
<1>1. rows \in Maps /\ pc \in [Procs -> {"idle"} \cup Waiting \cup Connected]
  BY DEF TypeInv, TypeOK
<1>2. CASE UNCHANGED <<rows, pc, call, answer>>
  BY <1>2 DEF Store!vars
<1>3. ASSUME NEW p \in Procs, Invoke(p) PROVE Store!Next
  <2>1. {q \in Procs : pc'[q] # "idle"} = {q \in Procs : pc[q] # "idle"} \cup {p}
    BY <1>1, <1>3 DEF Invoke
  <2>2. Store!Request(p)
    BY <1>3, <2>1
    DEF Invoke, Store!Request, Plain, Store!Plain, Calls, Store!Calls
  <2> QED
    BY <2>2 DEF Store!Next
<1>4. ASSUME NEW p \in Procs, Acquire(p) \/ Count(p) PROVE UNCHANGED Store!vars
  <2>1. {q \in Procs : pc'[q] # "idle"} = {q \in Procs : pc[q] # "idle"}
    <3>1. pc[p] # "idle" /\ pc'[p] # "idle" /\ \A q \in Procs : q # p => pc'[q] = pc[q]
      BY <1>1, <1>4 DEF Acquire, Count, Waiting
    <3> QED
      BY <3>1
  <2> QED
    BY <1>4, <2>1 DEF Acquire, Count, Store!vars
<1>5. ASSUME NEW p \in Procs, Cancel(p) \/ Fail(p) \/ Commit(p) PROVE Store!Next
  <2>1. Store!Cancel(p)
    BY <1>5, ReturnResponds DEF Cancel, Fail, Commit, Waiting, Connected, Store!Cancel, Plain, Store!Plain
  <2> QED
    BY <2>1 DEF Store!Next
<1>6. ASSUME NEW p \in Procs, NothingToDo(p) PROVE Store!Next
  <2>1. Store!Respond(p, Plain("ok")) /\ UNCHANGED rows /\ Empty(call[p])
    BY <1>6, ReturnResponds DEF NothingToDo
  <2>2. rows = [id \in Ids |-> rows[id]]
    BY <1>1 DEF Maps
  <2>3. CASE call[p].op = "add"
    <3>1. DOMAIN call[p].rows = {}
      BY <2>1, <2>3 DEF Empty
    <3>2. Store!Add(p)
      BY <2>1, <2>2, <2>3, <3>1 DEF Store!Add, Store!UrlsOf, Store!IdsOf, Plain, Store!Plain
    <3> QED
      BY <3>2 DEF Store!Next
  <2>4. CASE call[p].op = "delete"
    <3>1. DOMAIN call[p].ids = {}
      BY <2>1, <2>4 DEF Empty
    <3>2. Store!Delete(p)
      BY <2>1, <2>2, <2>4, <3>1 DEF Store!Delete, Plain, Store!Plain
    <3> QED
      BY <3>2 DEF Store!Next
  <2> QED
    BY <2>1, <2>3, <2>4 DEF Empty
<1>7. ASSUME NEW p \in Procs, InsertOne(p) \/ InsertBatch(p) PROVE Store!Next
  <2>1. /\ call[p].op = "add" /\ Insertable(call[p])
        /\ rows' = Inserted(call[p].rows) /\ Store!Respond(p, Plain("ok"))
    BY <1>7, ReturnResponds DEF InsertOne, InsertBatch
  <2>2. \A url \in Store!UrlsOf(call[p]) : ~Store!Stored(url)
    BY <2>1 DEF Insertable, UrlsOf, Store!UrlsOf, Stored, Store!Stored, Present, Store!Present
  <2>3. \A id \in Ids : id \in Store!IdsOf(call[p]) <=> \E i \in DOMAIN call[p].rows : call[p].rows[i].id = id
    BY <2>1 DEF Store!IdsOf
  <2>4. rows' = [id \in Ids |->
                  IF id \in Store!IdsOf(call[p])
                  THEN Store!NewInfo(call[p].rows[CHOOSE i \in DOMAIN call[p].rows : call[p].rows[i].id = id])
                  ELSE rows[id]]
    BY <2>1, <2>3 DEF Inserted, NewInfo, Store!NewInfo
  <2>5. Store!Add(p)
    BY <2>1, <2>2, <2>4 DEF Store!Add, Plain, Store!Plain
  <2> QED
    BY <2>5 DEF Store!Next
<1>8. ASSUME NEW p \in Procs, Upsert(p) PROVE Store!Next
  <2>1. PICK id \in Present(rows) :
          /\ rows[id].url = call[p].rows[1].url
          /\ Return(p, AlreadyExists(id), {Created(call[p].rows[1], id)})
    BY <1>8 DEF Upsert
  <2>2. call[p].op = "add" /\ 1 \in DOMAIN call[p].rows
    <3>1. call[p].op = "add" /\ call[p].rows \in Seq(Row) /\ Len(call[p].rows) = 1
      BY <1>8, CallFields, TypesAssumption DEF Upsert, TypeInv, OpMatchesPhase
    <3> QED
      BY <3>1
  <2>3. Store!Respond(p, AlreadyExists(id))
    BY <1>8, <2>1, ReturnResponds DEF Upsert
  <2>4. rows[id].url \in Store!UrlsOf(call[p])
    BY <2>1, <2>2 DEF Store!UrlsOf
  <2>5. Store!AddDuplicate(p)
    BY <1>8, <2>1, <2>2, <2>3, <2>4
    DEF Upsert, Store!AddDuplicate, AlreadyExists, Store!AlreadyExists, Present, Store!Present
  <2> QED
    BY <2>5 DEF Store!Next
<1>9. ASSUME NEW p \in Procs, Delete(p) PROVE Store!Next
  <2>1. Store!Respond(p, Plain("ok"))
    BY <1>9, ReturnResponds DEF Delete
  <2>2. Store!Delete(p)
    BY <1>9, <2>1 DEF Delete, Store!Delete, Marked, Store!Marked, Plain, Store!Plain
  <2> QED
    BY <2>2 DEF Store!Next
<1>10. ASSUME NEW p \in Procs, Get(p) PROVE Store!Next
  <2> DEFINE found == Fetch(rows, call[p].id)
  <2>1. call[p].op = "get" /\ UNCHANGED rows /\ pc[p] # "idle" /\ Return(p, found, {found})
    BY <1>10 DEF Get
  <2>2. Store!Fetch(rows, call[p].id) = found
    BY DEF Fetch, Store!Fetch, Plain, Store!Plain
  <2> HIDE DEF found
  <2>3. PICK result : result = found
    OBVIOUS
  <2>4. Store!Respond(p, result)
    BY <2>1, <2>3, ReturnResponds
  <2>5. Store!Get(p)
    BY <2>1, <2>2, <2>3, <2>4 DEF Store!Get, Store!Respond
  <2> QED
    BY <2>5 DEF Store!Next
<1>11. ASSUME NEW p \in Procs, List(p) PROVE Store!Next
  <2> DEFINE all == Report(call[p], Entries(rows))
             cut == {[all EXCEPT !.rows = some] : some \in SUBSET all.rows}
  <2>1. call[p].op = "list" /\ UNCHANGED rows /\ pc[p] # "idle" /\ Return(p, all, cut)
    BY <1>11 DEF List
  <2>2. Store!Report(call[p], Store!Entries(rows)) = all
    BY <2>1, ReportSame
  <2> HIDE DEF all, cut
  <2>3. PICK result : result = all
    OBVIOUS
  <2>4. Store!Respond(p, result)
    BY <2>1, <2>3, ReturnResponds
  <2>5. Store!Scan(p)
    BY <2>1, <2>2, <2>3, <2>4 DEF Store!Scan, Store!Respond
  <2> QED
    BY <2>5 DEF Store!Next
<1>12. CASE Startup
  BY <1>2, <1>12 DEF Startup, Connect, ReadVersion, SetDirty, RunFile, SetClean, UpFails, Serve, Die, calls
<1> QED
  BY <1>2, <1>3, <1>4, <1>5, <1>6, <1>7, <1>8, <1>9, <1>10, <1>11, <1>12 DEF Next, Run, vars

(* The storage over PostgreSQL is an implementation of the atomic store:   *)
(* every call takes effect at one instant, in its statement.               *)
THEOREM ImplementsStore == Spec => Linearizable
<1>1. Init => Store!Init
  BY DEF Init, Store!Init, NoCall, Store!NoCall, Plain, Store!Plain
<1> QED
  BY <1>1, TypeInvInit, TypeInvStep, StoreStep, PTL DEF Spec, Linearizable, Store!Spec
=============================================================================

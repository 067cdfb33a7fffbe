----------------------------- MODULE MemStorage -----------------------------
(* repository.memStorage: two maps, data (id -> row) and urlToID, behind a *)
(* sync.RWMutex.  Every goroutine's call is taken apart into the steps the *)
(* Go code makes: the context check before the lock, the lock, one step    *)
(* per loop iteration, the unlock.                                         *)
EXTENDS UrlTypes

CONSTANTS Procs,         \* goroutines that call the storage
          IdsMayCollide  \* may GenerateID return an id that is already taken?

ASSUME MemAssumption == Absent \notin Procs /\ IdsMayCollide \in BOOLEAN

VARIABLES data,       \* memStorage.data
          urlToID,    \* memStorage.urlToID
          writer,     \* holder of mu.Lock(), or Absent
          readers,    \* holders of mu.RLock()
          pc,         \* where each goroutine is in its call
          call,       \* its current or last call
          k,          \* index of the loop over the rows or ids of the call
          seen,       \* map entries its iteration over data has visited
          ret,        \* what its call returns or has returned
          committed   \* history: data at the last unlock of a writer

vars == <<data, urlToID, writer, readers, pc, call, k, seen, ret, committed>>

WritePhases == {"check", "insert", "mark", "wunlock"}
ReadPhases == {"lookup", "scan", "runlock"}
Phases == {"idle", "start", "lock"} \cup WritePhases \cup ReadPhases

TypeOK ==
  /\ data \in Maps
  /\ urlToID \in [Urls -> Ids \cup {Absent}]
  /\ writer \in Procs \cup {Absent}
  /\ readers \in SUBSET Procs
  /\ pc \in [Procs -> Phases]
  /\ call \in [Procs -> Calls \cup {NoCall}]
  /\ \A p \in Procs : pc[p] # "idle" => call[p] \in Calls
  /\ k \in [Procs -> Nat \ {0}]
  /\ seen \in [Procs -> SUBSET [id: Ids, info: UrlInfo]]
  /\ ret \in [Procs -> Results]
  /\ committed \in Maps

(* NewMemStorage *)
Init ==
  /\ data = [id \in Ids |-> Absent]
  /\ urlToID = [url \in Urls |-> Absent]
  /\ writer = Absent
  /\ readers = {}
  /\ pc = [p \in Procs |-> "idle"]
  /\ call = [p \in Procs |-> NoCall]
  /\ k = [p \in Procs |-> 1]
  /\ seen = [p \in Procs |-> {}]
  /\ ret = [p \in Procs |-> Plain("none")]
  /\ committed = data

-----------------------------------------------------------------------------
maps == <<data, urlToID>>
lock == <<writer, readers>>

Goto(p, phase) == pc' = [pc EXCEPT ![p] = phase]

Finish(p, phase, result) ==
  /\ Goto(p, phase)
  /\ ret' = [ret EXCEPT ![p] = result]

(* Seeded faults, one per property: plausible bugs of the Go code that the *)
(* property must catch.                                                    *)

(* RLock that does not wait for the writer. *)
BadRLock(p) ==
  /\ pc[p] = "lock" /\ ~Writes(call[p])
  /\ readers' = readers \cup {p}
  /\ Goto(p, IF call[p].op = "get" THEN "lookup" ELSE "scan")
  /\ UNCHANGED <<maps, writer, call, k, seen, ret, committed>>

(* ErrAlreadyExists built without the existing id. *)
AnonymousDuplicate(p) ==
  /\ pc[p] = "check" /\ k[p] \in DOMAIN call[p].rows
  /\ urlToID[call[p].rows[k[p]].url] # Absent
  /\ Finish(p, "wunlock", AlreadyExists(Absent))
  /\ k' = [k EXCEPT ![p] = 1]
  /\ UNCHANGED <<maps, lock, call, seen, committed>>

(* An early return that forgets to unlock. *)
LeakyDuplicate(p) ==
  /\ pc[p] = "check" /\ k[p] \in DOMAIN call[p].rows
  /\ urlToID[call[p].rows[k[p]].url] # Absent
  /\ Finish(p, "idle", AlreadyExists(urlToID[call[p].rows[k[p]].url]))
  /\ k' = [k EXCEPT ![p] = 1]
  /\ UNCHANGED <<maps, lock, call, seen, committed>>

(* One pass that checks and inserts row by row. *)
EagerInsert(p) ==
  /\ pc[p] = "check" /\ k[p] \in DOMAIN call[p].rows
  /\ LET row == call[p].rows[k[p]]
     IN  /\ urlToID[row.url] = Absent
         /\ data' = [data EXCEPT ![row.id] = NewInfo(row)]
         /\ urlToID' = [urlToID EXCEPT ![row.url] = row.id]
  /\ k' = [k EXCEPT ![p] = @ + 1]
  /\ UNCHANGED <<lock, pc, call, seen, ret, committed>>

(* The index entry of a row is forgotten. *)
UnindexedInsert(p) ==
  /\ pc[p] = "insert" /\ k[p] \in DOMAIN call[p].rows
  /\ LET row == call[p].rows[k[p]] IN data' = [data EXCEPT ![row.id] = NewInfo(row)]
  /\ k' = [k EXCEPT ![p] = @ + 1]
  /\ UNCHANGED <<urlToID, lock, pc, call, seen, ret, committed>>

(* Every URL of a batch indexed under the first id of the batch. *)
MisindexedInsert(p) ==
  /\ pc[p] = "insert" /\ k[p] \in DOMAIN call[p].rows
  /\ LET row == call[p].rows[k[p]]
     IN  /\ data' = [data EXCEPT ![row.id] = NewInfo(row)]
         /\ urlToID' = [urlToID EXCEPT ![row.url] = call[p].rows[1].id]
  /\ k' = [k EXCEPT ![p] = @ + 1]
  /\ UNCHANGED <<lock, pc, call, seen, ret, committed>>

(* delete(m.data, id) instead of a deletion mark. *)
HardDelete(p) ==
  /\ pc[p] = "mark" /\ k[p] \in DOMAIN call[p].ids
  /\ data' = [data EXCEPT ![call[p].ids[k[p]]] =
                IF @ # Absent /\ @.user = call[p].user THEN Absent ELSE @]
  /\ k' = [k EXCEPT ![p] = @ + 1]
  /\ UNCHANGED <<urlToID, lock, pc, call, seen, ret, committed>>

-----------------------------------------------------------------------------
(* Calls in progress and the ids their rows carry. *)
InFlight(p) == IF pc[p] = "idle" THEN {} ELSE IdsOf(call[p])

(* The ids of a new call are unused and distinct, unless GenerateID is     *)
(* allowed to repeat itself.                                               *)
Fresh(c) ==
  c.op = "add" /\ ~IdsMayCollide =>
    /\ IdsOf(c) \cap Present(data) = {}
    /\ \A p \in Procs : IdsOf(c) \cap InFlight(p) = {}
    /\ \A i, j \in DOMAIN c.rows : c.rows[i].id = c.rows[j].id => i = j

Invoke(p) ==
  /\ pc[p] = "idle"
  /\ \E c \in Calls : Fresh(c) /\ call' = [call EXCEPT ![p] = c]
  /\ Finish(p, "start", Plain("none"))
  /\ UNCHANGED <<maps, lock, k, seen, committed>>

(* select on ctx.Done(): checked once, before the lock is requested. *)
CtxDone(p) ==
  /\ pc[p] = "start"
  /\ Finish(p, "idle", Plain("cancelled"))
  /\ UNCHANGED <<maps, lock, call, k, seen, committed>>

NothingToDelete(p) ==
  /\ pc[p] = "start"
  /\ call[p].op = "delete" /\ call[p].ids = <<>>
  /\ Finish(p, "idle", Plain("ok"))
  /\ UNCHANGED <<maps, lock, call, k, seen, committed>>

CtxAlive(p) ==
  /\ pc[p] = "start"
  /\ call[p].op = "delete" => call[p].ids # <<>>
  /\ Goto(p, "lock")
  /\ UNCHANGED <<maps, lock, call, k, seen, ret, committed>>

(* mu.Lock() *)
Lock(p) ==
  /\ pc[p] = "lock" /\ Writes(call[p])
  /\ writer = Absent /\ readers = {}
  /\ writer' = p
  /\ Goto(p, IF call[p].op = "add" THEN "check" ELSE "mark")
  /\ UNCHANGED <<maps, readers, call, k, seen, ret, committed>>

(* mu.RLock() *)
RLock(p) ==
  /\ pc[p] = "lock" /\ ~Writes(call[p])
  /\ writer = Absent
  /\ readers' = readers \cup {p}
  /\ Goto(p, IF call[p].op = "get" THEN "lookup" ELSE "scan")
  /\ UNCHANGED <<maps, writer, call, k, seen, ret, committed>>

-----------------------------------------------------------------------------
(* add and addBatch: a pass that checks every URL, then one that inserts. *)

RowExists(p) ==
  /\ pc[p] = "check" /\ k[p] \in DOMAIN call[p].rows
  /\ urlToID[call[p].rows[k[p]].url] # Absent
  /\ Finish(p, "wunlock", AlreadyExists(urlToID[call[p].rows[k[p]].url]))
  /\ k' = [k EXCEPT ![p] = 1]
  /\ UNCHANGED <<maps, lock, call, seen, committed>>

RowIsNew(p) ==
  /\ pc[p] = "check" /\ k[p] \in DOMAIN call[p].rows
  /\ urlToID[call[p].rows[k[p]].url] = Absent
  /\ k' = [k EXCEPT ![p] = @ + 1]
  /\ UNCHANGED <<maps, lock, pc, call, seen, ret, committed>>

ChecksPassed(p) ==
  /\ pc[p] = "check" /\ k[p] \notin DOMAIN call[p].rows
  /\ Goto(p, "insert")
  /\ k' = [k EXCEPT ![p] = 1]
  /\ UNCHANGED <<maps, lock, call, seen, ret, committed>>

InsertRow(p) ==
  /\ pc[p] = "insert" /\ k[p] \in DOMAIN call[p].rows
  /\ LET row == call[p].rows[k[p]]
     IN  /\ data' = [data EXCEPT ![row.id] = NewInfo(row)]
         /\ urlToID' = [urlToID EXCEPT ![row.url] = row.id]
  /\ k' = [k EXCEPT ![p] = @ + 1]
  /\ UNCHANGED <<lock, pc, call, seen, ret, committed>>

AllInserted(p) ==
  /\ pc[p] = "insert" /\ k[p] \notin DOMAIN call[p].rows
  /\ Finish(p, "wunlock", Plain("ok"))
  /\ k' = [k EXCEPT ![p] = 1]
  /\ UNCHANGED <<maps, lock, call, seen, committed>>

(* deleteBatch: rows of other users and unknown ids are skipped in silence. *)
MarkRow(p) ==
  /\ pc[p] = "mark" /\ k[p] \in DOMAIN call[p].ids
  /\ data' = [data EXCEPT ![call[p].ids[k[p]]] = Marked(@, call[p].user)]
  /\ k' = [k EXCEPT ![p] = @ + 1]
  /\ UNCHANGED <<urlToID, lock, pc, call, seen, ret, committed>>

AllMarked(p) ==
  /\ pc[p] = "mark" /\ k[p] \notin DOMAIN call[p].ids
  /\ Finish(p, "wunlock", Plain("ok"))
  /\ k' = [k EXCEPT ![p] = 1]
  /\ UNCHANGED <<maps, lock, call, seen, committed>>

LookUp(p) ==
  /\ pc[p] = "lookup"
  /\ Finish(p, "runlock", Fetch(data, call[p].id))
  /\ UNCHANGED <<maps, lock, call, k, seen, committed>>

(* GetUserURLs and GetStats range over data in an arbitrary order. *)
Unseen(p) == {id \in Present(data) : \A e \in seen[p] : e.id # id}

ScanRow(p) ==
  /\ pc[p] = "scan"
  /\ \E id \in Unseen(p) : seen' = [seen EXCEPT ![p] = @ \cup {Entry(data, id)}]
  /\ UNCHANGED <<maps, lock, pc, call, k, ret, committed>>

ScanEnd(p) ==
  /\ pc[p] = "scan" /\ Unseen(p) = {}
  /\ Finish(p, "runlock", Report(call[p], seen[p]))
  /\ seen' = [seen EXCEPT ![p] = {}]
  /\ UNCHANGED <<maps, lock, call, k, committed>>

(* The deferred mu.Unlock() and mu.RUnlock(). *)
Unlock(p) ==
  /\ pc[p] = "wunlock"
  /\ writer' = Absent
  /\ committed' = data
  /\ Goto(p, "idle")
  /\ UNCHANGED <<maps, readers, call, k, seen, ret>>

RUnlock(p) ==
  /\ pc[p] = "runlock"
  /\ readers' = readers \ {p}
  /\ Goto(p, "idle")
  /\ UNCHANGED <<maps, writer, call, k, seen, ret, committed>>

-----------------------------------------------------------------------------
Acquire(p) == Lock(p) \/ RLock(p)

(* The steps a goroutine makes once it holds the lock, or before it. *)
Step(p) ==
  \/ CtxDone(p) \/ NothingToDelete(p) \/ CtxAlive(p)
  \/ RowExists(p) \/ RowIsNew(p) \/ ChecksPassed(p) \/ InsertRow(p) \/ AllInserted(p)
  \/ MarkRow(p) \/ AllMarked(p)
  \/ LookUp(p) \/ ScanRow(p) \/ ScanEnd(p)
  \/ Unlock(p) \/ RUnlock(p)

Next == \E p \in Procs : Invoke(p) \/ Acquire(p) \/ Step(p)

(* The Go scheduler runs every runnable goroutine (weak fairness), and     *)
(* sync.RWMutex starves nobody: a waiting Lock blocks new RLocks, Unlock   *)
(* lets the waiting readers in, waiting writers queue (strong fairness).   *)
Fairness == \A p \in Procs : WF_vars(Step(p)) /\ SF_vars(Acquire(p))

Spec == Init /\ [][Next]_vars /\ Fairness

-----------------------------------------------------------------------------
(* A goroutine that changes a map excludes every other one that touches    *)
(* it: the Go runtime kills the program on a concurrent map access.        *)
NoMapRace ==
  \A p, q \in Procs :
    p # q /\ pc[p] \in {"insert", "mark"}
      => pc[q] \notin {"check", "insert", "mark", "lookup", "scan"}

(* data and urlToID, kept in step by hand, agree: every stored URL is      *)
(* indexed, and the index names a row that holds the URL (memory.go:33-36, *)
(* 83-86; deleted rows stay indexed).                                      *)
IndexAgrees ==
  /\ \A id \in Present(data) : urlToID[data[id].url] # Absent
  /\ \A url \in Urls : urlToID[url] # Absent
       => urlToID[url] \in Present(data) /\ data[urlToID[url]].url = url

(* The ErrAlreadyExists of Add and AddBatch names, then and ever after, a  *)
(* row that holds one of the URLs of the call (errors.go:18-22).           *)
ExistingIDHoldsURL ==
  \A p \in Procs :
    pc[p] = "idle" /\ ret[p].kind = "exists"
      => /\ ret[p].id \in Present(data)
         /\ data[ret[p].id].url \in UrlsOf(call[p])

(* A stored row keeps its URL and owner and is never taken out of data,    *)
(* and a deletion is never undone: ExpandURL answers 410, not 404, for a   *)
(* deleted link and never redirects somewhere else (memory.go:125-133).    *)
RowsPermanent ==
  [][\A id \in Present(data) :
       /\ id \in Present(data')
       /\ data'[id].url = data[id].url /\ data'[id].user = data[id].user
       /\ data[id].deleted => data'[id].deleted]_vars

(* The storage behind its lock behaves as the atomic store, each call      *)
(* taking effect at its unlock: batches are all or nothing, a URL is       *)
(* stored once, GetStats and GetUserURLs report one snapshot (storage.go   *)
(* 14-15, "safe for concurrent use").                                      *)
Store == INSTANCE UrlStore WITH
           rows    <- committed,
           pending <- {p \in Procs : pc[p] # "idle"},
           ret     <- [p \in Procs |-> IF pc[p] = "idle" THEN ret[p] ELSE Plain("none")]

Linearizable == Store!Spec

(* Every call returns: no path through a storage method keeps the lock.    *)
CallsReturn == \A p \in Procs : pc[p] # "idle" ~> pc[p] = "idle"
=============================================================================

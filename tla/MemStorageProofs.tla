-------------------------- MODULE MemStorageProofs --------------------------
(* Proofs about MemStorage for every number of goroutines, ids, URLs,      *)
(* users and calls.                                                        *)
EXTENDS MemStorage, UrlTypesProofs

-----------------------------------------------------------------------------
(* Type correctness.                                                       *)

(* TypeOK is not inductive: an insert step reads call[p].rows, which only  *)
(* an "add" has, and a scan counts what it has seen.                       *)
OpMatchesPhase ==
  \A p \in Procs :
    /\ pc[p] \in {"check", "insert"} => call[p].op = "add"
    /\ pc[p] = "mark" => call[p].op = "delete"
    /\ pc[p] = "lookup" => call[p].op = "get"
    /\ pc[p] = "scan" => call[p].op \in {"list", "stats"}

SeenFinite == \A p \in Procs : IsFiniteSet(seen[p])

TypeInv == TypeOK /\ OpMatchesPhase /\ SeenFinite

LEMMA TypeInvInit == Init => TypeInv
<1> SUFFICES ASSUME Init PROVE TypeInv
  OBVIOUS
<1>1. TypeOK
  BY DEF Init, TypeOK, Maps, Phases, Results, Plain
<1>2. OpMatchesPhase
  BY DEF Init, OpMatchesPhase
<1>3. SeenFinite
  BY FS_EmptySet DEF Init, SeenFinite
<1> QED
  BY <1>1, <1>2, <1>3 DEF TypeInv

LEMMA TypeInvStep == TypeInv /\ [Next]_vars => TypeInv'
<1> SUFFICES ASSUME TypeInv, [Next]_vars PROVE TypeInv'
  OBVIOUS
<1> USE DEF TypeInv, TypeOK, OpMatchesPhase, SeenFinite, maps, lock, Goto, Finish, Phases, WritePhases, ReadPhases
<1>1. ASSUME NEW p \in Procs, Invoke(p) PROVE TypeInv'
  BY <1>1, CallFields DEF Invoke, Results, Plain
<1>2. ASSUME NEW p \in Procs, Lock(p) PROVE TypeInv'
  <2>1. call[p] \in Calls
    BY <1>2 DEF Lock
  <2>2. call[p].op \in {"add", "delete", "get", "list", "stats"}
    BY <2>1, CallFields
  <2> QED
    BY <1>2, <2>2 DEF Lock, Writes
<1>3. ASSUME NEW p \in Procs, RLock(p) PROVE TypeInv'
  <2>1. call[p] \in Calls
    BY <1>3 DEF RLock
  <2>2. call[p].op \in {"add", "delete", "get", "list", "stats"}
    BY <2>1, CallFields
  <2> QED
    BY <1>3, <2>2 DEF RLock, Writes
<1>4. ASSUME NEW p \in Procs, CtxDone(p) PROVE TypeInv'
  BY <1>4, CallFields DEF CtxDone, Results, Plain
<1>5. ASSUME NEW p \in Procs, NothingToDelete(p) PROVE TypeInv'
  BY <1>5, CallFields DEF NothingToDelete, Results, Plain
<1>6. ASSUME NEW p \in Procs, CtxAlive(p) PROVE TypeInv'
  BY <1>6, CallFields DEF CtxAlive, Results, Plain
<1>7. ASSUME NEW p \in Procs, RowExists(p) PROVE TypeInv'
  <2> DEFINE url == call[p].rows[k[p]].url
  <2>1. call[p].rows \in Batches /\ url \in Urls
    BY <1>7, CallFields, RowFields DEF RowExists
  <2>2. AlreadyExists(urlToID[url]) \in Results
    BY <1>7, <2>1 DEF RowExists, AlreadyExists, Results
  <2> HIDE DEF url
  <2> QED
    BY <1>7, <2>2 DEF RowExists, url
<1>8. ASSUME NEW p \in Procs, RowIsNew(p) PROVE TypeInv'
  BY <1>8, CallFields DEF RowIsNew, Results, Plain
<1>9. ASSUME NEW p \in Procs, ChecksPassed(p) PROVE TypeInv'
  BY <1>9, CallFields DEF ChecksPassed, Results, Plain
<1>10. ASSUME NEW p \in Procs, InsertRow(p) PROVE TypeInv'
  <2> DEFINE row == call[p].rows[k[p]]
  <2>1. call[p].rows \in Batches
    BY <1>10, CallFields DEF InsertRow
  <2>2. row.id \in Ids /\ row.url \in Urls /\ NewInfo(row) \in UrlInfo
    BY <1>10, <2>1, RowFields DEF InsertRow
  <2>3. data' \in Maps /\ urlToID' \in [Urls -> Ids \cup {Absent}]
    <3> HIDE DEF row
    <3>1. data' = [data EXCEPT ![row.id] = NewInfo(row)] /\ urlToID' = [urlToID EXCEPT ![row.url] = row.id]
      BY <1>10 DEF InsertRow, row
    <3> QED
      BY <2>2, <3>1 DEF Maps
  <2> QED
    BY <1>10, <2>3 DEF InsertRow
<1>11. ASSUME NEW p \in Procs, AllInserted(p) PROVE TypeInv'
  BY <1>11, CallFields DEF AllInserted, Results, Plain
<1>12. ASSUME NEW p \in Procs, MarkRow(p) PROVE TypeInv'
  <2> DEFINE id == call[p].ids[k[p]]
  <2>1. call[p].ids \in DeleteLists
    BY <1>12, CallFields DEF MarkRow
  <2>2. id \in Ids
    BY <1>12, <2>1, DeletedIds DEF MarkRow
  <2>3. data' \in Maps
    <3> HIDE DEF id
    <3>1. data' = [data EXCEPT ![id] = Marked(data[id], call[p].user)]
      BY <1>12 DEF MarkRow, id
    <3>2. Marked(data[id], call[p].user) \in UrlInfo \cup {Absent}
      BY <2>2, MarkedFacts DEF Maps
    <3> QED
      BY <3>1, <3>2 DEF Maps
  <2> QED
    BY <1>12, <2>3 DEF MarkRow
<1>13. ASSUME NEW p \in Procs, AllMarked(p) PROVE TypeInv'
  BY <1>13, CallFields DEF AllMarked, Results, Plain
<1>14. ASSUME NEW p \in Procs, LookUp(p) PROVE TypeInv'
  <2>1. call[p].id \in Ids
    BY <1>14, CallFields DEF LookUp
  <2>2. Fetch(data, call[p].id) \in Results
    BY <2>1, FetchType
  <2> QED
    BY <1>14, <2>2 DEF LookUp
<1>15. ASSUME NEW p \in Procs, ScanRow(p) PROVE TypeInv'
  <2>1. PICK id \in Unseen(p) : seen' = [seen EXCEPT ![p] = @ \cup {Entry(data, id)}]
    BY <1>15 DEF ScanRow
  <2>2. Entry(data, id) \in [id: Ids, info: UrlInfo]
    BY <2>1 DEF Unseen, Present, Entry, Maps
  <2>3. IsFiniteSet(seen[p] \cup {Entry(data, id)})
    BY FS_AddElement
  <2> QED
    BY <1>15, <2>1, <2>2, <2>3 DEF ScanRow
<1>16. ASSUME NEW p \in Procs, ScanEnd(p) PROVE TypeInv'
  <2>1. Report(call[p], seen[p]) \in Results
    BY ReportType
  <2> QED
    BY <1>16, <2>1, FS_EmptySet DEF ScanEnd
<1>17. ASSUME NEW p \in Procs, Unlock(p) PROVE TypeInv'
  BY <1>17, CallFields DEF Unlock, Results, Plain
<1>18. ASSUME NEW p \in Procs, RUnlock(p) PROVE TypeInv'
  BY <1>18, CallFields DEF RUnlock, Results, Plain
<1>19. CASE UNCHANGED vars
  BY <1>19 DEF vars
<1> QED
  BY <1>1, <1>2, <1>3, <1>4, <1>5, <1>6, <1>7, <1>8, <1>9, <1>10, <1>11, <1>12, <1>13, <1>14, <1>15, <1>16, <1>17, <1>18, <1>19 DEF Next, Acquire, Step

(* Every field of the storage, and every argument and result of a call, is *)
(* always of its type; the maps never hold a foreign key or value.         *)
THEOREM TypeCorrect == Spec => []TypeOK
<1>1. TypeInv => TypeOK
  BY DEF TypeInv
<1> QED
  BY <1>1, TypeInvInit, TypeInvStep, PTL DEF Spec

-----------------------------------------------------------------------------
(* Mutual exclusion.                                                       *)

(* The lock variables say who is where. *)
LockInv ==
  /\ \A p \in Procs : pc[p] \in WritePhases => writer = p
  /\ \A p \in Procs : pc[p] \in ReadPhases => p \in readers
  /\ writer # Absent => readers = {}

LEMMA LockInvStep == TypeInv /\ LockInv /\ [Next]_vars => LockInv'
<1> SUFFICES ASSUME TypeInv, LockInv, [Next]_vars PROVE LockInv'
  OBVIOUS
<1> USE DEF LockInv, lock, Goto, Finish, WritePhases, ReadPhases
<1>1. pc \in [Procs -> Phases] /\ Absent \notin Procs
  BY MemAssumption DEF TypeInv, TypeOK
<1>2. ASSUME NEW p \in Procs, Invoke(p) PROVE LockInv'
  BY <1>1, <1>2 DEF Invoke
<1>3. ASSUME NEW p \in Procs, Acquire(p) PROVE LockInv'
  BY <1>1, <1>3 DEF Acquire, Lock, RLock
<1>4. ASSUME NEW p \in Procs, Step(p) PROVE LockInv'
  <2>1. CASE CtxDone(p)
    BY <1>1, <2>1 DEF CtxDone
  <2>2. CASE NothingToDelete(p)
    BY <1>1, <2>2 DEF NothingToDelete
  <2>3. CASE CtxAlive(p)
    BY <1>1, <2>3 DEF CtxAlive
  <2>4. CASE RowExists(p)
    BY <1>1, <2>4 DEF RowExists
  <2>5. CASE RowIsNew(p)
    BY <1>1, <2>5 DEF RowIsNew
  <2>6. CASE ChecksPassed(p)
    BY <1>1, <2>6 DEF ChecksPassed
  <2>7. CASE InsertRow(p)
    BY <1>1, <2>7 DEF InsertRow
  <2>8. CASE AllInserted(p)
    BY <1>1, <2>8 DEF AllInserted
  <2>9. CASE MarkRow(p)
    BY <1>1, <2>9 DEF MarkRow
  <2>10. CASE AllMarked(p)
    BY <1>1, <2>10 DEF AllMarked
  <2>11. CASE LookUp(p)
    BY <1>1, <2>11 DEF LookUp
  <2>12. CASE ScanRow(p)
    BY <1>1, <2>12 DEF ScanRow
  <2>13. CASE ScanEnd(p)
    BY <1>1, <2>13 DEF ScanEnd
  <2>14. CASE Unlock(p)
    BY <1>1, <2>14 DEF Unlock
  <2>15. CASE RUnlock(p)
    BY <1>1, <2>15 DEF RUnlock
  <2> QED
    BY <1>4, <2>1, <2>2, <2>3, <2>4, <2>5, <2>6, <2>7, <2>8, <2>9, <2>10, <2>11, <2>12, <2>13, <2>14, <2>15 DEF Step
<1>5. CASE UNCHANGED vars
  BY <1>5 DEF vars
<1> QED
  BY <1>2, <1>3, <1>4, <1>5 DEF Next

(* No goroutine touches the maps while another one changes them: the Go    *)
(* runtime's fatal "concurrent map writes" cannot happen.                  *)
THEOREM MapRaceFree == Spec => []NoMapRace
<1>1. Init => LockInv
  BY DEF Init, LockInv, WritePhases, ReadPhases
<1>2. TypeInv /\ LockInv => NoMapRace
  BY MemAssumption DEF LockInv, NoMapRace, WritePhases, ReadPhases
<1> QED
  BY <1>1, <1>2, TypeInvInit, TypeInvStep, LockInvStep, PTL DEF Spec

-----------------------------------------------------------------------------
(* The index.                                                              *)

(* The positions of call[p].rows that are still to be inserted. *)
Todo(p) ==
  IF pc[p] \in {"start", "lock", "check"} /\ call[p].op = "add" THEN DOMAIN call[p].rows
  ELSE IF pc[p] = "insert" THEN {i \in DOMAIN call[p].rows : i >= k[p]}
  ELSE {}

(* IndexAgrees is not inductive on its own: an insert must not overwrite   *)
(* a row the index still points to.  The ids still to be inserted are      *)
(* unused, and no two rows on their way into the map share one.            *)
FreshInv ==
  /\ \A p \in Procs : \A i \in Todo(p) :
       /\ data[call[p].rows[i].id] = Absent
       /\ \A j \in DOMAIN call[p].rows : call[p].rows[i].id = call[p].rows[j].id => i = j
  /\ \A p, q \in Procs : \A i \in Todo(p), j \in Todo(q) :
       call[p].rows[i].id = call[q].rows[j].id => p = q

IndexInv == FreshInv /\ IndexAgrees

(* Steps that touch neither map and put no row on its way. *)
LEMMA QuietStep ==
  ASSUME IndexInv, UNCHANGED <<data, urlToID, call>>,
         \A q \in Procs : Todo(q)' \subseteq Todo(q)
  PROVE  IndexInv'
<1>1. FreshInv'
  BY DEF IndexInv, FreshInv
<1>2. IndexAgrees'
  BY DEF IndexInv, IndexAgrees, Present
<1> QED
  BY <1>1, <1>2 DEF IndexInv

(* The rows still to be inserted are rows of a call of type "add". *)
LEMMA TodoFacts ==
  ASSUME TypeInv, NEW p \in Procs, NEW i \in Todo(p)
  PROVE  /\ pc[p] # "idle" /\ call[p].op = "add" /\ call[p].rows \in Batches
         /\ i \in DOMAIN call[p].rows
         /\ call[p].rows[i].id \in Ids
<1>1. pc[p] # "idle" /\ call[p].op = "add" /\ i \in DOMAIN call[p].rows
  BY DEF Todo, TypeInv, OpMatchesPhase
<1>2. call[p] \in Calls
  BY <1>1 DEF TypeInv, TypeOK
<1> QED
  BY <1>1, <1>2, CallFields, RowFields

LEMMA IndexInvInvoke ==
  ASSUME TypeInv, IndexInv, ~IdsMayCollide, NEW p \in Procs, Invoke(p)
  PROVE  IndexInv'
<1> USE DEF Goto, Finish, maps
<1>1. PICK c \in Calls : Fresh(c) /\ call' = [call EXCEPT ![p] = c]
  BY DEF Invoke
<1>2. pc' = [pc EXCEPT ![p] = "start"] /\ UNCHANGED <<data, urlToID, k>>
  BY DEF Invoke
<1>3. p \in DOMAIN pc /\ p \in DOMAIN call /\ pc \in [Procs -> Phases] /\ call \in [Procs -> Calls \cup {NoCall}]
  BY DEF TypeInv, TypeOK
<1>4. \A q \in Procs \ {p} : Todo(q)' = Todo(q) /\ call'[q] = call[q]
  BY <1>1, <1>2, <1>3 DEF Todo
<1>5. ASSUME NEW i \in Todo(p)'
      PROVE  /\ call'[p] = c /\ c.op = "add" /\ i \in DOMAIN c.rows
             /\ c.rows[i].id \in IdsOf(c) /\ c.rows[i].id \in Ids
  <2>1. call'[p] = c /\ pc'[p] = "start"
    BY <1>1, <1>2, <1>3
  <2>2. c.op = "add" /\ i \in DOMAIN c.rows
    BY <2>1 DEF Todo
  <2> QED
    BY <2>1, <2>2, CallFields, RowFields DEF IdsOf
<1>6. ASSUME NEW q \in Procs, NEW i \in Todo(q)'
      PROVE  /\ data'[call'[q].rows[i].id] = Absent
             /\ \A j \in DOMAIN call'[q].rows : call'[q].rows[i].id = call'[q].rows[j].id => i = j
  <2>1. CASE q = p
    BY <1>1, <1>2, <1>5, <2>1 DEF Fresh, Present
  <2>2. CASE q # p
    BY <1>2, <1>4, <2>2 DEF IndexInv, FreshInv
  <2> QED
    BY <2>1, <2>2
<1>7. ASSUME NEW q \in Procs, q # p, NEW i \in Todo(p)', NEW j \in Todo(q)'
      PROVE  call'[p].rows[i].id # call'[q].rows[j].id
  <2>1. j \in Todo(q) /\ call'[q] = call[q]
    BY <1>4, <1>7
  <2>2. call[q].rows[j].id \in InFlight(q)
    BY <2>1, TodoFacts DEF InFlight, IdsOf
  <2>3. IdsOf(c) \cap InFlight(q) = {}
    BY <1>1, <1>5, <1>7 DEF Fresh
  <2> QED
    BY <1>5, <1>7, <2>1, <2>2, <2>3
<1>8. ASSUME NEW q \in Procs, NEW r \in Procs, q # r, NEW i \in Todo(q)', NEW j \in Todo(r)'
      PROVE  call'[q].rows[i].id # call'[r].rows[j].id
  <2>1. CASE q = p
    BY <1>7, <1>8, <2>1
  <2>2. CASE r = p
    BY <1>7, <1>8, <2>2
  <2>3. CASE q # p /\ r # p
    BY <1>4, <1>8, <2>3 DEF IndexInv, FreshInv
  <2> QED
    BY <2>1, <2>2, <2>3
<1>9. FreshInv'
  BY <1>6, <1>8 DEF FreshInv
<1>10. IndexAgrees'
  BY <1>2 DEF IndexInv, IndexAgrees, Present
<1> QED
  BY <1>9, <1>10 DEF IndexInv

LEMMA IndexInvInsertRow ==
  ASSUME TypeInv, IndexInv, NEW p \in Procs, InsertRow(p)
  PROVE  IndexInv'
<1> DEFINE row == call[p].rows[k[p]]
<1>1. k[p] \in Todo(p) /\ k[p] \in Nat
  BY DEF InsertRow, Todo, TypeInv, TypeOK
<1>2. /\ row.id \in Ids /\ row.url \in Urls
      /\ NewInfo(row) \in UrlInfo /\ NewInfo(row) # Absent /\ NewInfo(row).url = row.url
  BY <1>1, TodoFacts, RowFields DEF NewInfo
<1>3. data[row.id] = Absent
  BY <1>1 DEF IndexInv, FreshInv
<1> HIDE DEF row
<1>4. /\ data' = [data EXCEPT ![row.id] = NewInfo(row)]
      /\ urlToID' = [urlToID EXCEPT ![row.url] = row.id]
      /\ k' = [k EXCEPT ![p] = k[p] + 1]
      /\ UNCHANGED <<pc, call>>
  BY DEF InsertRow, row
<1>5. data \in Maps /\ urlToID \in [Urls -> Ids \cup {Absent}] /\ k \in [Procs -> Nat \ {0}]
  BY DEF TypeInv, TypeOK
<1>6. \A q \in Procs : Todo(q)' \subseteq Todo(q)
  <2>1. ASSUME NEW q \in Procs, q # p PROVE Todo(q)' = Todo(q)
    BY <1>4, <1>5, <2>1 DEF Todo
  <2>2. call[p].rows \in Seq(Row) /\ pc[p] = "insert"
    BY <1>1, TodoFacts, TypesAssumption DEF InsertRow
  <2>3. \A i \in DOMAIN call[p].rows : i >= k[p] + 1 => i >= k[p]
    BY <1>1, <2>2
  <2>4. Todo(p)' \subseteq Todo(p)
    BY <1>4, <1>5, <2>2, <2>3 DEF Todo
  <2> QED
    BY <2>1, <2>4
<1>7. ASSUME NEW q \in Procs, NEW i \in Todo(q)'
      PROVE  call[q].rows[i].id # row.id
  <2>1. CASE q = p
    <3>1. i \in Todo(p) /\ i # k[p]
      BY <1>1, <1>4, <1>5, <1>6, <2>1 DEF Todo, InsertRow
    <3> QED
      BY <1>1, <2>1, <3>1, TodoFacts DEF IndexInv, FreshInv, row
  <2>2. CASE q # p
    BY <1>1, <1>6, <2>2 DEF IndexInv, FreshInv, row
  <2> QED
    BY <2>1, <2>2
<1>8. FreshInv'
  <2>1. ASSUME NEW q \in Procs, NEW i \in Todo(q)'
        PROVE  data'[call[q].rows[i].id] = Absent
    <3>1. call[q].rows[i].id \in Ids /\ data[call[q].rows[i].id] = Absent
      BY <1>6, TodoFacts DEF IndexInv, FreshInv
    <3> QED
      BY <1>4, <1>7, <3>1
  <2> QED
    BY <1>4, <1>6, <2>1 DEF IndexInv, FreshInv
<1>9. IndexAgrees'
  <2>1. ASSUME NEW id \in Present(data)' PROVE urlToID'[data'[id].url] # Absent
    <3>1. CASE id = row.id
      BY <1>2, <1>4, <1>5, <3>1, TypesAssumption DEF Maps
    <3>2. CASE id # row.id
      <4>1. id \in Present(data) /\ data'[id] = data[id] /\ data[id].url \in Urls
        BY <1>4, <1>5, <2>1, <3>2 DEF Present, Maps, UrlInfo
      <4> QED
        BY <1>2, <1>4, <1>5, <4>1, TypesAssumption DEF IndexInv, IndexAgrees
    <3> QED
      BY <3>1, <3>2
  <2>2. ASSUME NEW url \in Urls, urlToID'[url] # Absent
        PROVE  urlToID'[url] \in Present(data)' /\ data'[urlToID'[url]].url = url
    <3>1. CASE url = row.url
      BY <1>2, <1>4, <1>5, <3>1 DEF Present, Maps
    <3>2. CASE url # row.url
      <4>1. urlToID'[url] = urlToID[url] /\ urlToID[url] \in Present(data) /\ data[urlToID[url]].url = url
        BY <1>4, <1>5, <2>2, <3>2 DEF IndexInv, IndexAgrees
      <4> QED
        BY <1>3, <1>4, <1>5, <4>1 DEF Present, Maps
    <3> QED
      BY <3>1, <3>2
  <2> QED
    BY <2>1, <2>2 DEF IndexAgrees
<1> QED
  BY <1>8, <1>9 DEF IndexInv

LEMMA IndexInvMarkRow ==
  ASSUME TypeInv, IndexInv, NEW p \in Procs, MarkRow(p)
  PROVE  IndexInv'
<1>1. /\ data' = [data EXCEPT ![call[p].ids[k[p]]] = Marked(data[call[p].ids[k[p]]], call[p].user)]
      /\ k' = [k EXCEPT ![p] = @ + 1]
      /\ pc[p] = "mark"
      /\ UNCHANGED <<pc, call, urlToID>>
  BY DEF MarkRow
<1>2. \A q \in Procs : Todo(q)' = Todo(q)
  BY <1>1 DEF Todo, TypeInv, TypeOK
<1>3. \A id \in Ids : /\ data'[id] = Absent <=> data[id] = Absent
                      /\ data[id] # Absent => data'[id].url = data[id].url
  BY <1>1, MarkedFacts DEF TypeInv, TypeOK, Maps
<1>4. FreshInv'
  BY <1>1, <1>2, <1>3, TodoFacts DEF IndexInv, FreshInv
<1>5. IndexAgrees'
  BY <1>1, <1>3 DEF IndexInv, IndexAgrees, Present
<1> QED
  BY <1>4, <1>5 DEF IndexInv

LEMMA IndexInvStep == ~IdsMayCollide /\ TypeInv /\ IndexInv /\ [Next]_vars => IndexInv'
<1> SUFFICES ASSUME ~IdsMayCollide, TypeInv, IndexInv, [Next]_vars PROVE IndexInv'
  OBVIOUS
<1>1. ASSUME NEW p \in Procs, Acquire(p) PROVE IndexInv'
  <2>1. \A q \in Procs : Todo(q)' \subseteq Todo(q)
    BY <1>1 DEF Acquire, Lock, RLock, Goto, Todo, TypeInv, TypeOK
  <2> QED
    BY <1>1, <2>1, QuietStep DEF Acquire, Lock, RLock, maps
<1>2. ASSUME NEW p \in Procs, Step(p) PROVE IndexInv'
  <2>1. CASE CtxDone(p)
    <3>1. \A q \in Procs : Todo(q)' \subseteq Todo(q)
      BY <2>1 DEF CtxDone, Goto, Finish, Todo, TypeInv, TypeOK
    <3> QED
      BY <2>1, <3>1, QuietStep DEF CtxDone, maps
  <2>2. CASE NothingToDelete(p)
    <3>1. \A q \in Procs : Todo(q)' \subseteq Todo(q)
      BY <2>2 DEF NothingToDelete, Goto, Finish, Todo, TypeInv, TypeOK
    <3> QED
      BY <2>2, <3>1, QuietStep DEF NothingToDelete, maps
  <2>3. CASE CtxAlive(p)
    <3>1. \A q \in Procs : Todo(q)' \subseteq Todo(q)
      BY <2>3 DEF CtxAlive, Goto, Finish, Todo, TypeInv, TypeOK
    <3> QED
      BY <2>3, <3>1, QuietStep DEF CtxAlive, maps
  <2>4. CASE RowExists(p)
    <3>1. \A q \in Procs : Todo(q)' \subseteq Todo(q)
      BY <2>4 DEF RowExists, Goto, Finish, Todo, TypeInv, TypeOK
    <3> QED
      BY <2>4, <3>1, QuietStep DEF RowExists, maps
  <2>5. CASE RowIsNew(p)
    <3>1. \A q \in Procs : Todo(q)' \subseteq Todo(q)
      BY <2>5 DEF RowIsNew, Goto, Finish, Todo, TypeInv, TypeOK
    <3> QED
      BY <2>5, <3>1, QuietStep DEF RowIsNew, maps
  <2>6. CASE ChecksPassed(p)
    <3>1. \A q \in Procs : Todo(q)' \subseteq Todo(q)
      BY <2>6 DEF ChecksPassed, Goto, Finish, Todo, TypeInv, TypeOK, OpMatchesPhase
    <3> QED
      BY <2>6, <3>1, QuietStep DEF ChecksPassed, maps
  <2>7. CASE AllInserted(p)
    <3>1. \A q \in Procs : Todo(q)' \subseteq Todo(q)
      BY <2>7 DEF AllInserted, Goto, Finish, Todo, TypeInv, TypeOK
    <3> QED
      BY <2>7, <3>1, QuietStep DEF AllInserted, maps
  <2>8. CASE AllMarked(p)
    <3>1. \A q \in Procs : Todo(q)' \subseteq Todo(q)
      BY <2>8 DEF AllMarked, Goto, Finish, Todo, TypeInv, TypeOK
    <3> QED
      BY <2>8, <3>1, QuietStep DEF AllMarked, maps
  <2>9. CASE LookUp(p)
    <3>1. \A q \in Procs : Todo(q)' \subseteq Todo(q)
      BY <2>9 DEF LookUp, Goto, Finish, Todo, TypeInv, TypeOK
    <3> QED
      BY <2>9, <3>1, QuietStep DEF LookUp, maps
  <2>10. CASE ScanRow(p)
    <3>1. \A q \in Procs : Todo(q)' \subseteq Todo(q)
      BY <2>10 DEF ScanRow, Goto, Finish, Todo, TypeInv, TypeOK
    <3> QED
      BY <2>10, <3>1, QuietStep DEF ScanRow, maps
  <2>11. CASE ScanEnd(p)
    <3>1. \A q \in Procs : Todo(q)' \subseteq Todo(q)
      BY <2>11 DEF ScanEnd, Goto, Finish, Todo, TypeInv, TypeOK
    <3> QED
      BY <2>11, <3>1, QuietStep DEF ScanEnd, maps
  <2>12. CASE Unlock(p)
    <3>1. \A q \in Procs : Todo(q)' \subseteq Todo(q)
      BY <2>12 DEF Unlock, Goto, Finish, Todo, TypeInv, TypeOK
    <3> QED
      BY <2>12, <3>1, QuietStep DEF Unlock, maps
  <2>13. CASE RUnlock(p)
    <3>1. \A q \in Procs : Todo(q)' \subseteq Todo(q)
      BY <2>13 DEF RUnlock, Goto, Finish, Todo, TypeInv, TypeOK
    <3> QED
      BY <2>13, <3>1, QuietStep DEF RUnlock, maps
  <2> QED
    BY <1>2, IndexInvInsertRow, IndexInvMarkRow, <2>1, <2>2, <2>3, <2>4, <2>5, <2>6, <2>7, <2>8, <2>9, <2>10, <2>11, <2>12, <2>13 DEF Step
<1>3. CASE UNCHANGED vars
  BY <1>3, QuietStep DEF vars, Todo
<1> QED
  BY <1>1, <1>2, <1>3, IndexInvInvoke DEF Next

(* The two maps agree in every state, for any number of goroutines, as     *)
(* long as GenerateID does not repeat itself.                              *)
THEOREM IndexCorrect == ~IdsMayCollide => (Spec => []IndexAgrees)
<1> SUFFICES ASSUME ~IdsMayCollide PROVE Spec => []IndexAgrees
  OBVIOUS
<1>1. Init => IndexInv
  BY DEF Init, IndexInv, FreshInv, IndexAgrees, Todo, Present
<1>2. IndexInv => IndexAgrees
  BY DEF IndexInv
<1>3. TypeInv /\ IndexInv /\ [Next]_vars => IndexInv'
  BY IndexInvStep
<1> QED
  BY <1>1, <1>2, <1>3, TypeInvInit, TypeInvStep, PTL DEF Spec

-----------------------------------------------------------------------------
(* Stored rows.                                                            *)

RowsKept ==
  \A id \in Present(data) :
     /\ id \in Present(data')
     /\ data'[id].url = data[id].url /\ data'[id].user = data[id].user
     /\ data[id].deleted => data'[id].deleted

LEMMA RowsKeptStep == TypeInv /\ IndexInv /\ [Next]_vars => RowsKept
<1> SUFFICES ASSUME TypeInv, IndexInv, [Next]_vars PROVE RowsKept
  OBVIOUS
<1>1. CASE UNCHANGED data
  BY <1>1 DEF RowsKept, Present
<1>2. ASSUME NEW p \in Procs, InsertRow(p) PROVE RowsKept
  <2>1. k[p] \in Todo(p)
    BY <1>2 DEF InsertRow, Todo, TypeInv, TypeOK
  <2>2. data[call[p].rows[k[p]].id] = Absent
    BY <2>1 DEF IndexInv, FreshInv
  <2>3. \A id \in Present(data) : data'[id] = data[id]
    BY <1>2, <2>2 DEF InsertRow, Present, TypeInv, TypeOK, Maps
  <2> QED
    BY <2>3 DEF RowsKept, Present
<1>3. ASSUME NEW p \in Procs, MarkRow(p) PROVE RowsKept
  <2> DEFINE id == call[p].ids[k[p]]
  <2>1. data' = [data EXCEPT ![id] = Marked(data[id], call[p].user)] /\ data \in Maps
    BY <1>3 DEF MarkRow, TypeInv, TypeOK
  <2> HIDE DEF id
  <2> QED
    BY <2>1, MarkedFacts DEF RowsKept, Present, Maps
<1> QED
  BY <1>1, <1>2, <1>3
  DEF Next, Acquire, Step, Invoke, Lock, RLock, CtxDone, NothingToDelete, CtxAlive, RowExists, RowIsNew,
      ChecksPassed, AllInserted, AllMarked, LookUp, ScanRow, ScanEnd, Unlock, RUnlock, maps, vars

(* A link, once stored, keeps its URL and owner for ever and its deletion  *)
(* is final.                                                               *)
THEOREM RowsAreKept == ~IdsMayCollide => (Spec => RowsPermanent)
<1> SUFFICES ASSUME ~IdsMayCollide PROVE Spec => RowsPermanent
  OBVIOUS
<1>1. Init => IndexInv
  BY DEF Init, IndexInv, FreshInv, IndexAgrees, Todo, Present
<1>2. TypeInv /\ IndexInv /\ [Next]_vars => IndexInv'
  BY IndexInvStep
<1>3. TypeInv /\ IndexInv /\ [Next]_vars => [RowsKept]_vars
  BY RowsKeptStep
<1> QED
  BY <1>1, <1>2, <1>3, TypeInvInit, TypeInvStep, PTL DEF Spec, RowsPermanent, RowsKept

(* What an ErrAlreadyExists says holds from the moment it is built, before *)
(* the lock is released.                                                   *)
ExistsHolds(p) ==
  ret[p].kind = "exists" =>
    ret[p].id \in Present(data) /\ data[ret[p].id].url \in UrlsOf(call[p])

ExistsInv == \A p \in Procs : ExistsHolds(p)

LEMMA ExistsInvStep == TypeInv /\ IndexInv /\ ExistsInv /\ [Next]_vars => ExistsInv'
<1> SUFFICES ASSUME TypeInv, IndexInv, ExistsInv, [Next]_vars PROVE ExistsInv'
  OBVIOUS
<1>1. ASSUME NEW q \in Procs, ret'[q] = ret[q], call'[q] = call[q] PROVE ExistsHolds(q)'
  BY <1>1, RowsKeptStep DEF RowsKept, ExistsInv, ExistsHolds, UrlsOf
<1>2. ASSUME NEW q \in Procs, ret'[q].kind # "exists" PROVE ExistsHolds(q)'
  BY <1>2 DEF ExistsHolds
<1>3. ret \in [Procs -> Results] /\ call \in [Procs -> Calls \cup {NoCall}]
  BY DEF TypeInv, TypeOK
<1>4. ASSUME NEW p \in Procs, ret'[p].kind # "exists",
             \A q \in Procs \ {p} : ret'[q] = ret[q] /\ call'[q] = call[q]
      PROVE  ExistsInv'
  BY <1>1, <1>2, <1>4 DEF ExistsInv
<1>5. ASSUME NEW p \in Procs, RowExists(p) PROVE ExistsInv'
  <2> DEFINE url == call[p].rows[k[p]].url
  <2>1. k[p] \in DOMAIN call[p].rows /\ call[p].rows \in Batches
    BY <1>5, CallFields DEF RowExists, TypeInv, TypeOK, OpMatchesPhase
  <2>2. url \in Urls /\ url \in UrlsOf(call[p])
    BY <2>1, RowFields DEF UrlsOf
  <2>3. urlToID[url] \in Present(data) /\ data[urlToID[url]].url = url
    BY <1>5, <2>2 DEF RowExists, IndexInv, IndexAgrees
  <2>4. ret' = [ret EXCEPT ![p] = AlreadyExists(urlToID[url])] /\ UNCHANGED <<call, data>>
    BY <1>5 DEF RowExists, Finish, maps
  <2> HIDE DEF url
  <2>5. ExistsHolds(p)'
    BY <1>3, <2>2, <2>3, <2>4 DEF AlreadyExists, ExistsHolds, UrlsOf
  <2>6. \A q \in Procs \ {p} : ret'[q] = ret[q] /\ call'[q] = call[q]
    BY <1>3, <2>4
  <2> QED
    BY <1>1, <2>5, <2>6 DEF ExistsInv
<1>6. ASSUME NEW p \in Procs, CtxDone(p) \/ NothingToDelete(p) \/ AllInserted(p) \/ AllMarked(p) PROVE ExistsInv'
  <2>1. ret'[p].kind \in {"cancelled", "ok"} /\ \A q \in Procs \ {p} : ret'[q] = ret[q]
    BY <1>3, <1>6 DEF CtxDone, NothingToDelete, AllInserted, AllMarked, Finish, Plain
  <2>2. call' = call
    BY <1>6 DEF CtxDone, NothingToDelete, AllInserted, AllMarked
  <2> QED
    BY <1>4, <2>1, <2>2
<1>7. ASSUME NEW p \in Procs, Invoke(p) PROVE ExistsInv'
  <2>1. \A q \in Procs \ {p} : call'[q] = call[q]
    BY <1>3, <1>7 DEF Invoke
  <2>2. ret'[p].kind = "none" /\ \A q \in Procs \ {p} : ret'[q] = ret[q]
    BY <1>3, <1>7 DEF Invoke, Finish, Plain
  <2> QED
    BY <1>4, <2>1, <2>2
<1>8. ASSUME NEW p \in Procs, LookUp(p) PROVE ExistsInv'
  <2>1. Fetch(data, call[p].id).kind # "exists"
    BY DEF Fetch, Plain
  <2> QED
    BY <1>3, <1>4, <1>8, <2>1 DEF LookUp, Finish
<1>9. ASSUME NEW p \in Procs, ScanEnd(p) PROVE ExistsInv'
  <2>1. Report(call[p], seen[p]).kind # "exists"
    BY DEF Report
  <2> QED
    BY <1>3, <1>4, <1>9, <2>1 DEF ScanEnd, Finish
<1>10. CASE UNCHANGED <<ret, call>>
  BY <1>1, <1>10 DEF ExistsInv
<1> QED
  BY <1>5, <1>6, <1>7, <1>8, <1>9, <1>10
  DEF Next, Acquire, Step, Lock, RLock, CtxAlive, RowIsNew, ChecksPassed, InsertRow, MarkRow,
      ScanRow, Unlock, RUnlock, vars

(* A duplicate is reported with the short id of a row that holds one of    *)
(* the URLs of the call, and it always will.                               *)
THEOREM ExistingIDCorrect == ~IdsMayCollide => (Spec => []ExistingIDHoldsURL)
<1> SUFFICES ASSUME ~IdsMayCollide PROVE Spec => []ExistingIDHoldsURL
  OBVIOUS
<1>1. Init => IndexInv /\ ExistsInv
  BY DEF Init, IndexInv, FreshInv, IndexAgrees, Todo, Present, ExistsInv, ExistsHolds, Plain
<1>2. TypeInv /\ IndexInv /\ [Next]_vars => IndexInv'
  BY IndexInvStep
<1>3. ExistsInv => ExistingIDHoldsURL
  BY DEF ExistsInv, ExistsHolds, ExistingIDHoldsURL
<1> QED
  BY <1>1, <1>2, <1>3, TypeInvInit, TypeInvStep, ExistsInvStep, PTL DEF Spec

-----------------------------------------------------------------------------
(* The storage behind its lock implements the atomic store.                *)

(* What a writer leaves behind between its lock and its unlock, said of    *)
(* call c, the map d it found, the map e it has made of it, and the first  *)
(* n - 1 rows or ids of the call.                                          *)
RowOf(c, id) == c.rows[CHOOSE i \in DOMAIN c.rows : c.rows[i].id = id]

Checked(c, n, index) == \A i \in DOMAIN c.rows : i < n => index[c.rows[i].url] = Absent

NewUrls(c, d) == \A id \in Present(d) : d[id].url \notin UrlsOf(c)

AddedFirst(c, n, d, e) ==
  \A id \in Ids : e[id] = IF \E i \in DOMAIN c.rows : i < n /\ c.rows[i].id = id
                          THEN NewInfo(RowOf(c, id)) ELSE d[id]

MarkedFirst(c, n, d, e) ==
  \A id \in Ids : e[id] = IF \E i \in DOMAIN c.ids : i < n /\ c.ids[i] = id
                          THEN Marked(d[id], c.user) ELSE d[id]

(* The whole effect of a writer's call, with its result r. *)
Added(c, d, e, r) ==
  /\ c.op = "add" /\ NewUrls(c, d) /\ r = Plain("ok")
  /\ \A id \in Ids : e[id] = IF id \in IdsOf(c) THEN NewInfo(RowOf(c, id)) ELSE d[id]

Duplicate(c, d, e, r) ==
  /\ c.op = "add" /\ e = d
  /\ \E id \in Present(d) : d[id].url \in UrlsOf(c) /\ r = AlreadyExists(id)

Deleted(c, d, e, r) ==
  /\ c.op = "delete" /\ r = Plain("ok")
  /\ \A id \in Ids : e[id] = IF \E i \in DOMAIN c.ids : c.ids[i] = id
                             THEN Marked(d[id], c.user) ELSE d[id]

(* The answer of a reader's call on map d. *)
Answered(c, d, r) ==
  \/ c.op = "get" /\ r = Fetch(d, c.id)
  \/ c.op \in {"list", "stats"} /\ r = Report(c, Entries(d))

(* Where a goroutine is in its call says how far the map is from the       *)
(* committed one.                                                          *)
Progress(p) ==
  /\ pc[p] \notin {"check", "insert", "mark"} => k[p] = 1
  /\ pc[p] # "scan" => seen[p] = {}
  /\ pc[p] = "check" => data = committed /\ Checked(call[p], k[p], urlToID)
  /\ pc[p] = "insert" => AddedFirst(call[p], k[p], committed, data) /\ NewUrls(call[p], committed)
  /\ pc[p] = "mark" => MarkedFirst(call[p], k[p], committed, data)
  /\ pc[p] = "wunlock" => \/ Added(call[p], committed, data, ret[p])
                          \/ Duplicate(call[p], committed, data, ret[p])
                          \/ Deleted(call[p], committed, data, ret[p])
  /\ pc[p] = "scan" => seen[p] \subseteq Entries(data)
  /\ pc[p] = "runlock" => Answered(call[p], data, ret[p])

(* Linearizable says nothing of the states inside a call.  The invariant   *)
(* does: nobody but the writer sees a map that is not the committed one.   *)
AtomInv ==
  /\ writer = Absent => data = committed
  /\ \A p \in Procs : Progress(p)

(* A position of the loop that is not past the end is new to the rows or   *)
(* ids already treated; past the end, all of them are.                     *)
LEMMA LoopPosition ==
  ASSUME NEW S, NEW s \in Seq(S), NEW n \in Nat \ {0}
  PROVE  /\ \A i \in DOMAIN s : i < n + 1 <=> i < n \/ i = n
         /\ n \notin DOMAIN s => \A i \in DOMAIN s : i < n
         /\ \A i \in DOMAIN s : ~(i < 1)
OBVIOUS

(* A step of p that touches the maps under its lock disturbs nobody. *)
LEMMA ActorStep ==
  ASSUME TypeInv, LockInv, AtomInv, NEW p \in Procs,
         \/ UNCHANGED <<data, urlToID, committed>>
         \/ pc[p] \in WritePhases,
         \A q \in Procs : q # p =>
           pc'[q] = pc[q] /\ call'[q] = call[q] /\ k'[q] = k[q] /\ seen'[q] = seen[q] /\ ret'[q] = ret[q],
         writer' = Absent => data' = committed',
         Progress(p)'
  PROVE  AtomInv'
<1>1. ASSUME NEW q \in Procs, q # p PROVE Progress(q)'
  <2>1. Progress(q)
    BY DEF AtomInv
  <2>2. pc'[q] = pc[q] /\ call'[q] = call[q] /\ k'[q] = k[q] /\ seen'[q] = seen[q] /\ ret'[q] = ret[q]
    BY <1>1
  <2>3. CASE UNCHANGED <<data, urlToID, committed>>
    BY <2>1, <2>2, <2>3 DEF Progress
  <2>4. CASE pc[p] \in WritePhases
    <3>1. pc[q] \notin WritePhases \cup ReadPhases
      BY <1>1, <2>4, MemAssumption DEF LockInv
    <3> QED
      BY <2>1, <2>2, <3>1 DEF Progress, WritePhases, ReadPhases
  <2> QED
    BY <2>3, <2>4
<1> QED
  BY <1>1 DEF AtomInv

LEMMA AtomInvRowExists ==
  ASSUME TypeInv, LockInv, IndexInv, AtomInv, NEW p \in Procs, RowExists(p)
  PROVE  AtomInv'
<1> DEFINE url == call[p].rows[k[p]].url
           id == urlToID[url]
<1>1. /\ pc' = [pc EXCEPT ![p] = "wunlock"] /\ ret' = [ret EXCEPT ![p] = AlreadyExists(id)]
      /\ k' = [k EXCEPT ![p] = 1] /\ id # Absent /\ pc[p] = "check" /\ k[p] \in DOMAIN call[p].rows
      /\ UNCHANGED <<data, urlToID, writer, call, seen, committed>>
  BY DEF RowExists, Finish, Goto, maps, lock
<1>2. call[p].op = "add" /\ url \in Urls /\ url \in UrlsOf(call[p])
  BY <1>1, CallFields, RowFields DEF TypeInv, TypeOK, OpMatchesPhase, UrlsOf
<1>3. id \in Present(data) /\ data[id].url = url
  BY <1>1, <1>2 DEF IndexInv, IndexAgrees
<1>4. data = committed /\ seen[p] = {}
  BY <1>1 DEF AtomInv, Progress
<1> HIDE DEF url, id
<1>5. Duplicate(call[p], committed, data, AlreadyExists(id))
  BY <1>2, <1>3, <1>4 DEF Duplicate
<1>6. pc'[p] = "wunlock" /\ k'[p] = 1 /\ ret'[p] = AlreadyExists(id)
  BY <1>1 DEF TypeInv, TypeOK
<1>7. Progress(p)'
  BY <1>1, <1>4, <1>5, <1>6 DEF Progress
<1>8. \A q \in Procs : q # p =>
           pc'[q] = pc[q] /\ call'[q] = call[q] /\ k'[q] = k[q] /\ seen'[q] = seen[q] /\ ret'[q] = ret[q]
  BY <1>1 DEF TypeInv, TypeOK
<1> QED
  BY <1>1, <1>4, <1>7, <1>8, ActorStep

LEMMA AtomInvRowIsNew ==
  ASSUME TypeInv, LockInv, AtomInv, NEW p \in Procs, RowIsNew(p)
  PROVE  AtomInv'
<1>1. /\ k' = [k EXCEPT ![p] = k[p] + 1] /\ pc[p] = "check"
      /\ urlToID[call[p].rows[k[p]].url] = Absent
      /\ UNCHANGED <<data, urlToID, writer, pc, call, seen, ret, committed>>
  BY DEF RowIsNew, maps, lock
<1>2. call[p].rows \in Seq(Row) /\ k[p] \in Nat \ {0}
  BY <1>1, CallFields, TypesAssumption DEF TypeInv, TypeOK, OpMatchesPhase
<1>3. Checked(call[p], k[p], urlToID) /\ data = committed /\ seen[p] = {}
  BY <1>1 DEF AtomInv, Progress
<1>4. Checked(call[p], k[p] + 1, urlToID)
  BY <1>1, <1>2, <1>3, LoopPosition DEF Checked
<1>5. Progress(p)'
  <2>1. k'[p] = k[p] + 1
    BY <1>1 DEF TypeInv, TypeOK
  <2> QED
    BY <1>1, <1>3, <1>4, <2>1 DEF Progress
<1>6. \A q \in Procs : q # p => k'[q] = k[q]
  BY <1>1 DEF TypeInv, TypeOK
<1> QED
  BY <1>1, <1>3, <1>5, <1>6, ActorStep

LEMMA AtomInvChecksPassed ==
  ASSUME TypeInv, LockInv, IndexInv, AtomInv, NEW p \in Procs, ChecksPassed(p)
  PROVE  AtomInv'
<1>1. /\ pc' = [pc EXCEPT ![p] = "insert"] /\ k' = [k EXCEPT ![p] = 1]
      /\ pc[p] = "check" /\ k[p] \notin DOMAIN call[p].rows
      /\ UNCHANGED <<data, urlToID, writer, call, seen, ret, committed>>
  BY DEF ChecksPassed, Goto, maps, lock
<1>2. call[p].rows \in Seq(Row) /\ k[p] \in Nat \ {0}
  BY <1>1, CallFields, TypesAssumption DEF TypeInv, TypeOK, OpMatchesPhase
<1>3. Checked(call[p], k[p], urlToID) /\ data = committed /\ seen[p] = {}
  BY <1>1 DEF AtomInv, Progress
<1>4. \A i \in DOMAIN call[p].rows : urlToID[call[p].rows[i].url] = Absent
  BY <1>1, <1>2, <1>3, LoopPosition DEF Checked
<1>5. NewUrls(call[p], committed)
  BY <1>3, <1>4 DEF NewUrls, UrlsOf, IndexInv, IndexAgrees
<1>6. AddedFirst(call[p], 1, committed, data)
  BY <1>2, <1>3, LoopPosition DEF AddedFirst
<1>7. Progress(p)'
  <2>1. k'[p] = 1 /\ pc'[p] = "insert"
    BY <1>1 DEF TypeInv, TypeOK
  <2> QED
    BY <1>1, <1>3, <1>5, <1>6, <2>1 DEF Progress
<1>8. \A q \in Procs : q # p => pc'[q] = pc[q] /\ k'[q] = k[q]
  BY <1>1 DEF TypeInv, TypeOK
<1> QED
  BY <1>1, <1>3, <1>7, <1>8, ActorStep

(* The row inserted is the only one of the call with its id. *)
LEMMA AtomInvInsertRow ==
  ASSUME TypeInv, LockInv, IndexInv, AtomInv, NEW p \in Procs, InsertRow(p)
  PROVE  AtomInv'
<1> DEFINE row == call[p].rows[k[p]]
<1>1. /\ k' = [k EXCEPT ![p] = k[p] + 1] /\ pc[p] = "insert" /\ k[p] \in DOMAIN call[p].rows
      /\ data' = [data EXCEPT ![row.id] = NewInfo(row)]
      /\ UNCHANGED <<writer, pc, call, seen, ret, committed>>
  BY DEF InsertRow, lock
<1>2. call[p].rows \in Seq(Row) /\ k[p] \in Nat \ {0} /\ row.id \in Ids
  BY <1>1, CallFields, RowFields, TypesAssumption DEF TypeInv, TypeOK, OpMatchesPhase
<1>3. AddedFirst(call[p], k[p], committed, data) /\ NewUrls(call[p], committed) /\ seen[p] = {}
  BY <1>1 DEF AtomInv, Progress
<1>4. RowOf(call[p], row.id) = row
  <2>1. k[p] \in Todo(p)
    BY <1>1, <1>2 DEF Todo
  <2>2. \A j \in DOMAIN call[p].rows : row.id = call[p].rows[j].id => k[p] = j
    BY <2>1 DEF IndexInv, FreshInv
  <2> QED
    BY <1>1, <2>2 DEF RowOf
<1>5. ASSUME NEW id \in Ids
      PROVE  data'[id] = IF \E i \in DOMAIN call[p].rows : i < k[p] + 1 /\ call[p].rows[i].id = id
                         THEN NewInfo(RowOf(call[p], id)) ELSE committed[id]
  <2>1. (\E i \in DOMAIN call[p].rows : i < k[p] + 1 /\ call[p].rows[i].id = id)
          <=> row.id = id \/ \E i \in DOMAIN call[p].rows : i < k[p] /\ call[p].rows[i].id = id
    <3>1. \A i \in DOMAIN call[p].rows : i < k[p] + 1 <=> i < k[p] \/ i = k[p]
      BY <1>2, LoopPosition
    <3> QED
      BY <1>1, <3>1
  <2>2. data[id] = IF \E i \in DOMAIN call[p].rows : i < k[p] /\ call[p].rows[i].id = id
                   THEN NewInfo(RowOf(call[p], id)) ELSE committed[id]
    BY <1>3 DEF AddedFirst
  <2>3. data'[id] = IF id = row.id THEN NewInfo(RowOf(call[p], id)) ELSE data[id]
    <3> HIDE DEF row
    <3> QED
      BY <1>1, <1>2, <1>4 DEF TypeInv, TypeOK, Maps
  <2> HIDE DEF row
  <2> QED
    BY <2>1, <2>2, <2>3
<1>6. AddedFirst(call[p], k[p] + 1, committed, data')
  BY <1>5 DEF AddedFirst
<1>7. Progress(p)'
  <2>1. k'[p] = k[p] + 1
    BY <1>1 DEF TypeInv, TypeOK
  <2> QED
    BY <1>1, <1>3, <1>6, <2>1 DEF Progress
<1>8. \A q \in Procs : q # p => k'[q] = k[q]
  BY <1>1 DEF TypeInv, TypeOK
<1>9. writer # Absent /\ pc[p] \in WritePhases
  BY <1>1, MemAssumption DEF LockInv, WritePhases
<1> QED
  BY <1>1, <1>7, <1>8, <1>9, ActorStep

LEMMA AtomInvAllInserted ==
  ASSUME TypeInv, LockInv, AtomInv, NEW p \in Procs, AllInserted(p)
  PROVE  AtomInv'
<1>1. /\ pc' = [pc EXCEPT ![p] = "wunlock"] /\ k' = [k EXCEPT ![p] = 1]
      /\ ret' = [ret EXCEPT ![p] = Plain("ok")]
      /\ pc[p] = "insert" /\ k[p] \notin DOMAIN call[p].rows
      /\ UNCHANGED <<data, urlToID, writer, call, seen, committed>>
  BY DEF AllInserted, Finish, Goto, maps, lock
<1>2. call[p].op = "add" /\ call[p].rows \in Seq(Row) /\ k[p] \in Nat \ {0}
  BY <1>1, CallFields, TypesAssumption DEF TypeInv, TypeOK, OpMatchesPhase
<1>3. AddedFirst(call[p], k[p], committed, data) /\ NewUrls(call[p], committed) /\ seen[p] = {}
  BY <1>1 DEF AtomInv, Progress
<1>4. \A i \in DOMAIN call[p].rows : i < k[p]
  BY <1>1, <1>2, LoopPosition
<1>5. \A id \in Ids : data[id] = IF id \in IdsOf(call[p]) THEN NewInfo(RowOf(call[p], id)) ELSE committed[id]
  <2>1. \A id : id \in IdsOf(call[p])
                   <=> \E i \in DOMAIN call[p].rows : i < k[p] /\ call[p].rows[i].id = id
    BY <1>2, <1>4 DEF IdsOf
  <2> QED
    BY <1>3, <2>1 DEF AddedFirst
<1>6. Added(call[p], committed, data, Plain("ok"))
  BY <1>2, <1>3, <1>5 DEF Added
<1>7. Progress(p)'
  <2>1. k'[p] = 1 /\ pc'[p] = "wunlock" /\ ret'[p] = Plain("ok")
    BY <1>1 DEF TypeInv, TypeOK
  <2> QED
    BY <1>1, <1>3, <1>6, <2>1 DEF Progress
<1>8. \A q \in Procs : q # p => pc'[q] = pc[q] /\ k'[q] = k[q] /\ ret'[q] = ret[q]
  BY <1>1 DEF TypeInv, TypeOK
<1>9. writer # Absent
  BY <1>1, MemAssumption DEF LockInv, WritePhases
<1> QED
  BY <1>1, <1>7, <1>8, <1>9, ActorStep

(* A mark laid twice is the mark laid once: an id may be listed twice. *)
LEMMA MarkedTwice ==
  ASSUME NEW info \in UrlInfo \cup {Absent}, NEW user
  PROVE  Marked(Marked(info, user), user) = Marked(info, user)
<1>1. Absent \notin UrlInfo
  BY TypesAssumption
<1>2. CASE info = Absent
  BY <1>2 DEF Marked
<1>3. CASE info \in UrlInfo
  BY <1>1, <1>3 DEF Marked, UrlInfo
<1> QED
  BY <1>2, <1>3

LEMMA AtomInvMarkRow ==
  ASSUME TypeInv, LockInv, AtomInv, NEW p \in Procs, MarkRow(p)
  PROVE  AtomInv'
<1> DEFINE victim == call[p].ids[k[p]]
           user == call[p].user
<1>1. /\ k' = [k EXCEPT ![p] = k[p] + 1] /\ pc[p] = "mark" /\ k[p] \in DOMAIN call[p].ids
      /\ data' = [data EXCEPT ![victim] = Marked(data[victim], user)]
      /\ UNCHANGED <<writer, pc, call, seen, ret, committed>>
  BY DEF MarkRow, lock
<1>2. call[p].ids \in Seq(Ids) /\ k[p] \in Nat \ {0} /\ victim \in Ids
  BY <1>1, CallFields, DeletedIds, TypesAssumption DEF TypeInv, TypeOK, OpMatchesPhase
<1>3. MarkedFirst(call[p], k[p], committed, data) /\ seen[p] = {}
  BY <1>1 DEF AtomInv, Progress
<1>4. ASSUME NEW id \in Ids
      PROVE  data'[id] = IF \E i \in DOMAIN call[p].ids : i < k[p] + 1 /\ call[p].ids[i] = id
                         THEN Marked(committed[id], user) ELSE committed[id]
  <2>1. (\E i \in DOMAIN call[p].ids : i < k[p] + 1 /\ call[p].ids[i] = id)
          <=> victim = id \/ \E i \in DOMAIN call[p].ids : i < k[p] /\ call[p].ids[i] = id
    <3>1. \A i \in DOMAIN call[p].ids : i < k[p] + 1 <=> i < k[p] \/ i = k[p]
      BY <1>2, LoopPosition
    <3> QED
      BY <1>1, <3>1
  <2>2. data[id] = IF \E i \in DOMAIN call[p].ids : i < k[p] /\ call[p].ids[i] = id
                   THEN Marked(committed[id], user) ELSE committed[id]
    BY <1>3 DEF MarkedFirst
  <2> HIDE DEF victim, user
  <2>3. data'[id] = IF id = victim THEN Marked(data[id], user) ELSE data[id]
    BY <1>1, <1>2 DEF TypeInv, TypeOK, Maps
  <2>4. Marked(Marked(committed[id], user), user) = Marked(committed[id], user)
    BY MarkedTwice DEF TypeInv, TypeOK, Maps
  <2> QED
    BY <2>1, <2>2, <2>3, <2>4
<1>5. MarkedFirst(call[p], k[p] + 1, committed, data')
  BY <1>4 DEF MarkedFirst
<1>6. Progress(p)'
  <2>1. k'[p] = k[p] + 1
    BY <1>1 DEF TypeInv, TypeOK
  <2> QED
    BY <1>1, <1>3, <1>5, <2>1 DEF Progress
<1>7. \A q \in Procs : q # p => k'[q] = k[q]
  BY <1>1 DEF TypeInv, TypeOK
<1>8. writer # Absent /\ pc[p] \in WritePhases
  BY <1>1, MemAssumption DEF LockInv, WritePhases
<1> QED
  BY <1>1, <1>6, <1>7, <1>8, ActorStep

LEMMA AtomInvAllMarked ==
  ASSUME TypeInv, LockInv, AtomInv, NEW p \in Procs, AllMarked(p)
  PROVE  AtomInv'
<1>1. /\ pc' = [pc EXCEPT ![p] = "wunlock"] /\ k' = [k EXCEPT ![p] = 1]
      /\ ret' = [ret EXCEPT ![p] = Plain("ok")]
      /\ pc[p] = "mark" /\ k[p] \notin DOMAIN call[p].ids
      /\ UNCHANGED <<data, urlToID, writer, call, seen, committed>>
  BY DEF AllMarked, Finish, Goto, maps, lock
<1>2. call[p].op = "delete" /\ call[p].ids \in Seq(Ids) /\ k[p] \in Nat \ {0}
  BY <1>1, CallFields, TypesAssumption DEF TypeInv, TypeOK, OpMatchesPhase
<1>3. MarkedFirst(call[p], k[p], committed, data) /\ seen[p] = {}
  BY <1>1 DEF AtomInv, Progress
<1>4. \A i \in DOMAIN call[p].ids : i < k[p]
  BY <1>1, <1>2, LoopPosition
<1>5. Deleted(call[p], committed, data, Plain("ok"))
  BY <1>2, <1>3, <1>4 DEF Deleted, MarkedFirst
<1>6. Progress(p)'
  <2>1. k'[p] = 1 /\ pc'[p] = "wunlock" /\ ret'[p] = Plain("ok")
    BY <1>1 DEF TypeInv, TypeOK
  <2> QED
    BY <1>1, <1>3, <1>5, <2>1 DEF Progress
<1>7. \A q \in Procs : q # p => pc'[q] = pc[q] /\ k'[q] = k[q] /\ ret'[q] = ret[q]
  BY <1>1 DEF TypeInv, TypeOK
<1>8. writer # Absent
  BY <1>1, MemAssumption DEF LockInv, WritePhases
<1> QED
  BY <1>1, <1>6, <1>7, <1>8, ActorStep

LEMMA AtomInvLock ==
  ASSUME TypeInv, LockInv, AtomInv, NEW p \in Procs, Lock(p)
  PROVE  AtomInv'
<1>1. /\ pc' = [pc EXCEPT ![p] = IF call[p].op = "add" THEN "check" ELSE "mark"]
      /\ pc[p] = "lock" /\ Writes(call[p]) /\ writer = Absent /\ writer' = p
      /\ UNCHANGED <<data, urlToID, call, k, seen, ret, committed>>
  BY DEF Lock, Goto, maps
<1>2. data = committed /\ k[p] = 1 /\ seen[p] = {} /\ call[p] \in Calls
  BY <1>1 DEF AtomInv, Progress, TypeInv, TypeOK
<1>3. Progress(p)'
  <2>1. CASE call[p].op = "add"
    <3>1. call[p].rows \in Seq(Row)
      BY <1>2, <2>1, CallFields, TypesAssumption
    <3>2. Checked(call[p], 1, urlToID)
      BY <3>1, LoopPosition DEF Checked
    <3>3. pc'[p] = "check"
      BY <1>1, <2>1 DEF TypeInv, TypeOK
    <3> QED
      BY <1>1, <1>2, <3>2, <3>3 DEF Progress
  <2>2. CASE call[p].op # "add"
    <3>1. call[p].ids \in Seq(Ids)
      BY <1>1, <1>2, <2>2, CallFields, TypesAssumption DEF Writes
    <3>2. MarkedFirst(call[p], 1, committed, data)
      BY <1>2, <3>1, LoopPosition DEF MarkedFirst
    <3>3. pc'[p] = "mark"
      BY <1>1, <2>2 DEF TypeInv, TypeOK
    <3> QED
      BY <1>1, <1>2, <3>2, <3>3 DEF Progress
  <2> QED
    BY <2>1, <2>2
<1>4. \A q \in Procs : q # p => pc'[q] = pc[q]
  BY <1>1 DEF TypeInv, TypeOK
<1> QED
  BY <1>1, <1>2, <1>3, <1>4, ActorStep

(* Steps outside the lock: the call starts, is refused, or goes on. *)
LEMMA AtomInvOutside ==
  ASSUME TypeInv, LockInv, AtomInv, NEW p \in Procs,
         Invoke(p) \/ CtxDone(p) \/ NothingToDelete(p) \/ CtxAlive(p)
  PROVE  AtomInv'
<1>1. /\ pc[p] \in {"idle", "start"}
      /\ \E phase \in {"idle", "start", "lock"} : pc' = [pc EXCEPT ![p] = phase]
      /\ \A q \in Procs : q # p => call'[q] = call[q] /\ ret'[q] = ret[q]
      /\ UNCHANGED <<data, urlToID, writer, k, seen, committed>>
  <2>1. CASE Invoke(p)
    BY <2>1 DEF Invoke, Finish, Goto, maps, lock, TypeInv, TypeOK
  <2>2. CASE CtxDone(p) \/ NothingToDelete(p) \/ CtxAlive(p)
    BY <2>2 DEF CtxDone, NothingToDelete, CtxAlive, Finish, Goto, maps, lock, TypeInv, TypeOK
  <2> QED
    BY <2>1, <2>2
<1>2. k[p] = 1 /\ seen[p] = {} /\ (writer = Absent => data = committed)
  BY <1>1 DEF AtomInv, Progress
<1>3. pc'[p] \in {"idle", "start", "lock"} /\ \A q \in Procs : q # p => pc'[q] = pc[q]
  BY <1>1 DEF TypeInv, TypeOK
<1>4. Progress(p)'
  BY <1>1, <1>2, <1>3 DEF Progress
<1> QED
  BY <1>1, <1>2, <1>3, <1>4, ActorStep

LEMMA AtomInvRLock ==
  ASSUME TypeInv, LockInv, AtomInv, NEW p \in Procs, RLock(p)
  PROVE  AtomInv'
<1>1. /\ \E phase \in {"lookup", "scan"} : pc' = [pc EXCEPT ![p] = phase]
      /\ pc[p] = "lock" /\ UNCHANGED <<data, urlToID, writer, call, k, seen, ret, committed>>
  BY DEF RLock, Goto, maps
<1>2. k[p] = 1 /\ seen[p] = {} /\ (writer = Absent => data = committed)
  BY <1>1 DEF AtomInv, Progress
<1>3. pc'[p] \in {"lookup", "scan"} /\ \A q \in Procs : q # p => pc'[q] = pc[q]
  BY <1>1 DEF TypeInv, TypeOK
<1>4. Progress(p)'
  BY <1>1, <1>2, <1>3 DEF Progress
<1> QED
  BY <1>1, <1>2, <1>3, <1>4, ActorStep

LEMMA AtomInvLookUp ==
  ASSUME TypeInv, LockInv, AtomInv, NEW p \in Procs, LookUp(p)
  PROVE  AtomInv'
<1> DEFINE found == Fetch(data, call[p].id)
<1>1. /\ pc' = [pc EXCEPT ![p] = "runlock"] /\ ret' = [ret EXCEPT ![p] = found]
      /\ pc[p] = "lookup" /\ UNCHANGED <<data, urlToID, writer, call, k, seen, committed>>
  BY DEF LookUp, Finish, Goto, maps, lock
<1>2. Answered(call[p], data, found)
  BY <1>1 DEF Answered, TypeInv, OpMatchesPhase
<1> HIDE DEF found
<1>3. k[p] = 1 /\ seen[p] = {} /\ (writer = Absent => data = committed)
  BY <1>1 DEF AtomInv, Progress
<1>4. /\ pc'[p] = "runlock" /\ ret'[p] = found
      /\ \A q \in Procs : q # p => pc'[q] = pc[q] /\ ret'[q] = ret[q]
  BY <1>1 DEF TypeInv, TypeOK
<1>5. Progress(p)'
  BY <1>1, <1>2, <1>3, <1>4 DEF Progress
<1> QED
  BY <1>1, <1>3, <1>4, <1>5, ActorStep

LEMMA AtomInvScanRow ==
  ASSUME TypeInv, LockInv, AtomInv, NEW p \in Procs, ScanRow(p)
  PROVE  AtomInv'
<1>1. PICK id \in Unseen(p) : seen' = [seen EXCEPT ![p] = seen[p] \cup {Entry(data, id)}]
  BY DEF ScanRow
<1>2. pc[p] = "scan" /\ UNCHANGED <<data, urlToID, writer, pc, call, k, ret, committed>>
  BY DEF ScanRow, maps, lock
<1>3. k[p] = 1 /\ seen[p] \subseteq Entries(data) /\ (writer = Absent => data = committed)
  BY <1>2 DEF AtomInv, Progress
<1>4. seen'[p] \subseteq Entries(data) /\ \A q \in Procs : q # p => seen'[q] = seen[q]
  <2>1. Entry(data, id) \in Entries(data)
    BY <1>1 DEF Unseen, Entries
  <2> QED
    BY <1>1, <1>3, <2>1 DEF TypeInv, TypeOK
<1>5. Progress(p)'
  BY <1>2, <1>3, <1>4 DEF Progress
<1> QED
  BY <1>2, <1>3, <1>4, <1>5, ActorStep

(* The iteration visits every entry of one and the same map. *)
LEMMA AtomInvScanEnd ==
  ASSUME TypeInv, LockInv, AtomInv, NEW p \in Procs, ScanEnd(p)
  PROVE  AtomInv'
<1> DEFINE report == Report(call[p], seen[p])
<1>1. /\ pc' = [pc EXCEPT ![p] = "runlock"] /\ ret' = [ret EXCEPT ![p] = report]
      /\ seen' = [seen EXCEPT ![p] = {}] /\ pc[p] = "scan" /\ Unseen(p) = {}
      /\ UNCHANGED <<data, urlToID, writer, call, k, committed>>
  BY DEF ScanEnd, Finish, Goto, maps, lock
<1>2. k[p] = 1 /\ seen[p] \subseteq Entries(data) /\ (writer = Absent => data = committed)
  BY <1>1 DEF AtomInv, Progress
<1>3. seen[p] = Entries(data)
  <2>1. ASSUME NEW id \in Present(data) PROVE Entry(data, id) \in seen[p]
    <3>1. PICK e \in seen[p] : e.id = id
      BY <1>1 DEF Unseen
    <3>2. PICK other \in Present(data) : e = Entry(data, other)
      BY <1>2 DEF Entries
    <3> QED
      BY <3>1, <3>2 DEF Entry
  <2> QED
    BY <1>2, <2>1 DEF Entries
<1>4. Answered(call[p], data, report)
  BY <1>1, <1>3 DEF Answered, TypeInv, OpMatchesPhase
<1> HIDE DEF report
<1>5. /\ pc'[p] = "runlock" /\ ret'[p] = report /\ seen'[p] = {}
      /\ \A q \in Procs : q # p => pc'[q] = pc[q] /\ ret'[q] = ret[q] /\ seen'[q] = seen[q]
  BY <1>1 DEF TypeInv, TypeOK
<1>6. Progress(p)'
  BY <1>1, <1>2, <1>4, <1>5 DEF Progress
<1> QED
  BY <1>1, <1>2, <1>5, <1>6, ActorStep

LEMMA AtomInvUnlocks ==
  ASSUME TypeInv, LockInv, AtomInv, NEW p \in Procs, Unlock(p) \/ RUnlock(p)
  PROVE  AtomInv'
<1>1. /\ pc' = [pc EXCEPT ![p] = "idle"] /\ pc[p] \in {"wunlock", "runlock"}
      /\ UNCHANGED <<data, urlToID, call, k, seen, ret>>
  BY DEF Unlock, RUnlock, Goto, maps
<1>2. k[p] = 1 /\ seen[p] = {} /\ (writer = Absent => data = committed)
  BY <1>1 DEF AtomInv, Progress
<1>3. pc'[p] = "idle" /\ \A q \in Procs : q # p => pc'[q] = pc[q]
  BY <1>1 DEF TypeInv, TypeOK
<1>4. Progress(p)'
  BY <1>1, <1>2, <1>3 DEF Progress
<1>5. CASE Unlock(p)
  BY <1>1, <1>3, <1>4, <1>5, ActorStep DEF Unlock, WritePhases
<1>6. CASE RUnlock(p)
  BY <1>1, <1>2, <1>3, <1>4, <1>6, ActorStep DEF RUnlock
<1> QED
  BY <1>5, <1>6

LEMMA AtomInvStep == TypeInv /\ LockInv /\ IndexInv /\ AtomInv /\ [Next]_vars => AtomInv'
<1>1. ASSUME AtomInv, UNCHANGED vars PROVE AtomInv'
  <2>1. \A p \in Procs : Progress(p) => Progress(p)'
    BY <1>1 DEF vars, Progress
  <2> QED
    BY <1>1, <2>1 DEF vars, AtomInv
<1> QED
  BY <1>1, AtomInvOutside, AtomInvLock, AtomInvRLock, AtomInvRowExists, AtomInvRowIsNew,
     AtomInvChecksPassed, AtomInvInsertRow, AtomInvAllInserted, AtomInvMarkRow, AtomInvAllMarked,
     AtomInvLookUp, AtomInvScanRow, AtomInvScanEnd, AtomInvUnlocks
  DEF Next, Acquire, Step

(* The answers the store computes are those of the storage. *)
LEMMA AnswersSame ==
  ASSUME NEW d, NEW c
  PROVE  /\ Store!Fetch(d, c.id) = Fetch(d, c.id)
         /\ Store!Report(c, Store!Entries(d)) = Report(c, Entries(d))
<1>1. Store!Fetch(d, c.id) = Fetch(d, c.id)
  BY DEF Fetch, Store!Fetch, Plain, Store!Plain
<1>2. Store!Present(d) = Present(d) /\ \A id : Store!Entry(d, id) = Entry(d, id)
  BY DEF Present, Store!Present, Entry, Store!Entry
<1>3. Store!Entries(d) = Entries(d)
  BY <1>2 DEF Entries, Store!Entries
<1>4. Store!Live(Entries(d)) = Live(Entries(d))
  BY DEF Live, Store!Live
<1>5. Store!UrlsOfUser(Entries(d), c.user) = UrlsOfUser(Entries(d), c.user)
  BY <1>4 DEF UrlsOfUser, Store!UrlsOfUser
<1>6. \A S : Store!Cardinality(S) = Cardinality(S)
  BY DEF Cardinality, Store!Cardinality
<1> QED
  BY <1>1, <1>3, <1>4, <1>5, <1>6 DEF Report, Store!Report

(* A call that returns with result r, as the store sees it. *)
LEMMA ReturnResponds ==
  ASSUME TypeInv, NEW p \in Procs, NEW r, pc[p] # "idle", pc' = [pc EXCEPT ![p] = "idle"],
         ret' = [ret EXCEPT ![p] = r], UNCHANGED call
  PROVE  Store!Respond(p, r)
<1>1. pc \in [Procs -> Phases] /\ ret \in [Procs -> Results]
  BY DEF TypeInv, TypeOK
<1>2. {q \in Procs : pc'[q] # "idle"} = {q \in Procs : pc[q] # "idle"} \ {p}
  BY <1>1
<1>3. [q \in Procs |-> IF pc'[q] = "idle" THEN ret'[q] ELSE Plain("none")]
        = [[q \in Procs |-> IF pc[q] = "idle" THEN ret[q] ELSE Plain("none")] EXCEPT ![p] = r]
  BY <1>1
<1> QED
  BY <1>2, <1>3 DEF Store!Respond

(* An unlock is where a writer's call happens. *)
LEMMA UnlockCommits ==
  ASSUME TypeInv, AtomInv, NEW p \in Procs, Unlock(p)
  PROVE  Store!Next
<1>1. /\ pc[p] = "wunlock" /\ committed' = data /\ pc' = [pc EXCEPT ![p] = "idle"]
      /\ UNCHANGED <<call, ret>> /\ call[p] \in Calls /\ data \in Maps /\ committed \in Maps
      /\ ret \in [Procs -> Results]
  BY DEF Unlock, Goto, TypeInv, TypeOK
<1>2. \/ Added(call[p], committed, data, ret[p])
      \/ Duplicate(call[p], committed, data, ret[p])
      \/ Deleted(call[p], committed, data, ret[p])
  BY <1>1 DEF AtomInv, Progress
<1>3. ASSUME NEW r, ret[p] = r PROVE Store!Respond(p, r)
  <2>1. ret' = [ret EXCEPT ![p] = r]
    BY <1>1, <1>3
  <2> QED
    BY <1>1, <2>1, ReturnResponds
<1>4. data = [id \in Ids |-> data[id]]
  BY <1>1 DEF Maps
<1>5. CASE Added(call[p], committed, data, ret[p])
  <2>1. \A url \in Store!UrlsOf(call[p]) : ~Store!Stored(url)
    BY <1>5 DEF Added, NewUrls, UrlsOf, Store!UrlsOf, Store!Stored, Present, Store!Present
  <2>2. \A id \in Ids : data[id] =
          IF id \in Store!IdsOf(call[p])
          THEN Store!NewInfo(call[p].rows[CHOOSE i \in DOMAIN call[p].rows : call[p].rows[i].id = id])
          ELSE committed[id]
    BY <1>5 DEF Added, RowOf, IdsOf, Store!IdsOf, NewInfo, Store!NewInfo
  <2>3. data = [id \in Ids |->
          IF id \in Store!IdsOf(call[p])
          THEN Store!NewInfo(call[p].rows[CHOOSE i \in DOMAIN call[p].rows : call[p].rows[i].id = id])
          ELSE committed[id]]
    BY <1>4, <2>2
  <2>4. call[p].op = "add" /\ ret[p] = Plain("ok")
    BY <1>5 DEF Added
  <2>5. Store!Respond(p, Plain("ok"))
    BY <1>3, <2>4
  <2>6. Store!Add(p)
    BY <1>1, <2>1, <2>3, <2>4, <2>5 DEF Store!Add, Plain, Store!Plain
  <2> QED
    BY <2>6 DEF Store!Next
<1>6. CASE Duplicate(call[p], committed, data, ret[p])
  <2>1. PICK id \in Present(committed) :
          committed[id].url \in UrlsOf(call[p]) /\ ret[p] = AlreadyExists(id)
    BY <1>6 DEF Duplicate
  <2>2. Store!Respond(p, AlreadyExists(id))
    BY <1>3, <2>1
  <2>3. Store!AddDuplicate(p)
    BY <1>1, <1>6, <2>1, <2>2
    DEF Duplicate, Store!AddDuplicate, AlreadyExists, Store!AlreadyExists,
        Present, Store!Present, UrlsOf, Store!UrlsOf
  <2> QED
    BY <2>3 DEF Store!Next
<1>7. CASE Deleted(call[p], committed, data, ret[p])
  <2>1. data = [id \in Ids |->
          IF \E i \in DOMAIN call[p].ids : call[p].ids[i] = id
          THEN Store!Marked(committed[id], call[p].user) ELSE committed[id]]
    BY <1>4, <1>7 DEF Deleted, Marked, Store!Marked
  <2>2. call[p].op = "delete" /\ ret[p] = Plain("ok")
    BY <1>7 DEF Deleted
  <2>3. Store!Respond(p, Plain("ok"))
    BY <1>3, <2>2
  <2>4. Store!Delete(p)
    BY <1>1, <2>1, <2>2, <2>3 DEF Store!Delete, Plain, Store!Plain
  <2> QED
    BY <2>4 DEF Store!Next
<1> QED
  BY <1>2, <1>5, <1>6, <1>7

(* A reader's call may be taken to happen at its unlock: no writer can     *)
(* have changed the map since it was read.                                 *)
LEMMA RUnlockAnswers ==
  ASSUME TypeInv, LockInv, AtomInv, NEW p \in Procs, RUnlock(p)
  PROVE  Store!Next
<1>1. /\ pc[p] = "runlock" /\ pc' = [pc EXCEPT ![p] = "idle"]
      /\ UNCHANGED <<committed, call, ret>> /\ ret \in [Procs -> Results]
  BY DEF RUnlock, Goto, TypeInv, TypeOK
<1>2. data = committed
  BY <1>1 DEF LockInv, AtomInv, ReadPhases
<1>3. Answered(call[p], committed, ret[p])
  BY <1>1, <1>2 DEF AtomInv, Progress
<1>4. PICK r : r = ret[p]
  OBVIOUS
<1>5. Store!Respond(p, r)
  <2>1. ret' = [ret EXCEPT ![p] = r]
    BY <1>1, <1>4
  <2> QED
    BY <1>1, <2>1, ReturnResponds
<1>6. CASE call[p].op = "get" /\ ret[p] = Fetch(committed, call[p].id)
  <2>1. r = Store!Fetch(committed, call[p].id)
    BY <1>4, <1>6, AnswersSame
  <2>2. Store!Get(p)
    BY <1>1, <1>5, <1>6, <2>1 DEF Store!Get, Store!Respond
  <2> QED
    BY <2>2 DEF Store!Next
<1>7. CASE call[p].op \in {"list", "stats"} /\ ret[p] = Report(call[p], Entries(committed))
  <2>1. r = Store!Report(call[p], Store!Entries(committed))
    BY <1>4, <1>7, AnswersSame
  <2>2. Store!Scan(p)
    BY <1>1, <1>5, <1>7, <2>1 DEF Store!Scan, Store!Respond
  <2> QED
    BY <2>2 DEF Store!Next
<1> QED
  BY <1>3, <1>6, <1>7 DEF Answered

(* The steps that return are the store's atomic steps; every other one is  *)
(* invisible to it.                                                        *)
LEMMA StoreStep ==
  TypeInv /\ LockInv /\ AtomInv /\ [Next]_vars => [Store!Next]_Store!vars
<1> SUFFICES ASSUME TypeInv, LockInv, AtomInv, [Next]_vars PROVE [Store!Next]_Store!vars
  OBVIOUS
<1>1. pc \in [Procs -> Phases] /\ ret \in [Procs -> Results] /\ committed \in Maps
  BY DEF TypeInv, TypeOK
<1>2. CASE UNCHANGED vars
  BY <1>2 DEF vars, Store!vars
<1>3. ASSUME NEW p \in Procs, Invoke(p) PROVE Store!Next
  <2>1. /\ pc' = [pc EXCEPT ![p] = "start"] /\ ret' = [ret EXCEPT ![p] = Plain("none")]
        /\ pc[p] = "idle" /\ UNCHANGED committed
        /\ \E c \in Calls : call' = [call EXCEPT ![p] = c]
    BY <1>3 DEF Invoke, Finish, Goto
  <2>2. {q \in Procs : pc'[q] # "idle"} = {q \in Procs : pc[q] # "idle"} \cup {p}
    BY <1>1, <2>1
  <2>3. [q \in Procs |-> IF pc'[q] = "idle" THEN ret'[q] ELSE Plain("none")]
          = [[q \in Procs |-> IF pc[q] = "idle" THEN ret[q] ELSE Plain("none")] EXCEPT ![p] = Plain("none")]
    BY <1>1, <2>1
  <2>4. Store!Request(p)
    BY <2>1, <2>2, <2>3 DEF Store!Request, Plain, Store!Plain, Calls, Store!Calls
  <2> QED
    BY <2>4 DEF Store!Next
<1>4. ASSUME NEW p \in Procs, CtxDone(p) PROVE Store!Next
  <2>1. Store!Cancel(p)
    BY <1>4, ReturnResponds DEF CtxDone, Finish, Goto, Store!Cancel, Plain, Store!Plain
  <2> QED
    BY <2>1 DEF Store!Next
<1>5. ASSUME NEW p \in Procs, NothingToDelete(p) PROVE Store!Next
  <2>1. call[p].op = "delete" /\ call[p].ids = <<>> /\ UNCHANGED committed
    BY <1>5 DEF NothingToDelete
  <2>2. Store!Respond(p, Plain("ok"))
    BY <1>5, ReturnResponds DEF NothingToDelete, Finish, Goto
  <2>3. DOMAIN call[p].ids = {} /\ committed = [id \in Ids |-> committed[id]]
    BY <1>1, <2>1 DEF Maps
  <2>4. Store!Delete(p)
    BY <2>1, <2>2, <2>3 DEF Store!Delete, Plain, Store!Plain
  <2> QED
    BY <2>4 DEF Store!Next
<1>6. ASSUME NEW p \in Procs, pc[p] # "idle", UNCHANGED <<call, committed>>,
             NEW phase, phase # "idle", pc' = [pc EXCEPT ![p] = phase],
             \A q \in Procs : q # p => ret'[q] = ret[q]
      PROVE  UNCHANGED Store!vars
  <2>1. {q \in Procs : pc'[q] # "idle"} = {q \in Procs : pc[q] # "idle"}
    BY <1>1, <1>6
  <2>2. [q \in Procs |-> IF pc'[q] = "idle" THEN ret'[q] ELSE Plain("none")]
          = [q \in Procs |-> IF pc[q] = "idle" THEN ret[q] ELSE Plain("none")]
    BY <1>1, <1>6
  <2> QED
    BY <1>6, <2>1, <2>2 DEF Store!vars
<1>7. ASSUME NEW p \in Procs, CtxAlive(p) \/ Acquire(p) \/ ChecksPassed(p) PROVE UNCHANGED Store!vars
  BY <1>6, <1>7 DEF CtxAlive, Acquire, Lock, RLock, ChecksPassed, Goto
<1>8. ASSUME NEW p \in Procs,
             RowExists(p) \/ AllInserted(p) \/ AllMarked(p) \/ LookUp(p) \/ ScanEnd(p)
      PROVE  UNCHANGED Store!vars
  <2>1. /\ pc[p] # "idle" /\ UNCHANGED <<call, committed>>
        /\ \E phase \in {"wunlock", "runlock"} : pc' = [pc EXCEPT ![p] = phase]
        /\ \E r : ret' = [ret EXCEPT ![p] = r]
    BY <1>8 DEF RowExists, AllInserted, AllMarked, LookUp, ScanEnd, Finish, Goto
  <2>2. \A q \in Procs : q # p => ret'[q] = ret[q]
    BY <1>1, <2>1
  <2> QED
    BY <1>6, <2>1, <2>2
<1>9. ASSUME NEW p \in Procs, RowIsNew(p) \/ InsertRow(p) \/ MarkRow(p) \/ ScanRow(p)
      PROVE  UNCHANGED Store!vars
  BY <1>9 DEF RowIsNew, InsertRow, MarkRow, ScanRow, Store!vars
<1> QED
  BY <1>2, <1>3, <1>4, <1>5, <1>7, <1>8, <1>9, UnlockCommits, RUnlockAnswers DEF Next, Step

(* The in-memory storage is an implementation of the atomic store, however *)
(* many goroutines call it, as long as GenerateID does not repeat itself:  *)
(* batches are all or nothing, and every list and count is one snapshot.   *)
THEOREM ImplementsStore == ~IdsMayCollide => (Spec => Linearizable)
<1> SUFFICES ASSUME ~IdsMayCollide PROVE Spec => Linearizable
  OBVIOUS
<1>1. Init => Store!Init
  BY DEF Init, Store!Init, NoCall, Store!NoCall, Plain, Store!Plain
<1>2. Init => LockInv /\ IndexInv /\ AtomInv
  <2>1. Init => LockInv /\ IndexInv
    BY DEF Init, LockInv, WritePhases, ReadPhases, IndexInv, FreshInv, IndexAgrees, Todo, Present
  <2>2. Init => AtomInv
    BY DEF Init, AtomInv, Progress
  <2> QED
    BY <2>1, <2>2
<1>3. TypeInv /\ IndexInv /\ [Next]_vars => IndexInv'
  BY IndexInvStep
<1> QED
  BY <1>1, <1>2, <1>3, TypeInvInit, TypeInvStep, LockInvStep, AtomInvStep, StoreStep, PTL
  DEF Spec, Linearizable, Store!Spec
=============================================================================

------------------------------ MODULE UrlStore ------------------------------
(* What repository.Storage promises its callers (storage.go:14-26): every  *)
(* call takes effect at one instant between its invocation and its return, *)
(* on a table of rows.  A URL is stored by at most one successful Add or   *)
(* AddBatch; a batch is stored as a whole or not at all; a row never       *)
(* disappears, it can only be marked deleted, and only by its owner.       *)
EXTENDS UrlTypes

CONSTANT Procs  \* the callers

VARIABLES rows,     \* the stored rows
          pending,  \* the processes with a call in progress
          call,     \* the current or last call of each process
          ret       \* its result, once the call has returned

vars == <<rows, pending, call, ret>>

Init ==
  /\ rows = [id \in Ids |-> Absent]
  /\ pending = {}
  /\ call = [p \in Procs |-> NoCall]
  /\ ret = [p \in Procs |-> Plain("none")]

Request(p) ==
  /\ p \notin pending
  /\ pending' = pending \cup {p}
  /\ \E c \in Calls : call' = [call EXCEPT ![p] = c]
  /\ ret' = [ret EXCEPT ![p] = Plain("none")]
  /\ UNCHANGED rows

Respond(p, result) ==
  /\ p \in pending
  /\ pending' = pending \ {p}
  /\ ret' = [ret EXCEPT ![p] = result]
  /\ UNCHANGED call

Stored(url) == \E id \in Present(rows) : rows[id].url = url

(* A context cancelled before the storage is locked: no effect. *)
Cancel(p) == Respond(p, Plain("cancelled")) /\ UNCHANGED rows

Add(p) ==
  /\ call[p].op = "add"
  /\ \A url \in UrlsOf(call[p]) : ~Stored(url)
  /\ Respond(p, Plain("ok"))
  /\ rows' = [id \in Ids |->
                IF id \in IdsOf(call[p])
                THEN NewInfo(call[p].rows[CHOOSE i \in DOMAIN call[p].rows : call[p].rows[i].id = id])
                ELSE rows[id]]

(* A duplicate: the result names a row that holds one of the URLs. *)
AddDuplicate(p) ==
  /\ call[p].op = "add"
  /\ \E id \in Present(rows) :
       rows[id].url \in UrlsOf(call[p]) /\ Respond(p, AlreadyExists(id))
  /\ UNCHANGED rows

Delete(p) ==
  /\ call[p].op = "delete"
  /\ Respond(p, Plain("ok"))
  /\ rows' = [id \in Ids |->
                IF \E i \in DOMAIN call[p].ids : call[p].ids[i] = id
                THEN Marked(rows[id], call[p].user)
                ELSE rows[id]]

Get(p) ==
  /\ call[p].op = "get"
  /\ Respond(p, Fetch(rows, call[p].id))
  /\ UNCHANGED rows

Scan(p) ==
  /\ call[p].op \in {"list", "stats"}
  /\ Respond(p, Report(call[p], Entries(rows)))
  /\ UNCHANGED rows

Next ==
  \E p \in Procs :
    \/ Request(p) \/ Cancel(p)
    \/ Add(p) \/ AddDuplicate(p) \/ Delete(p) \/ Get(p) \/ Scan(p)

Spec == Init /\ [][Next]_vars
=============================================================================

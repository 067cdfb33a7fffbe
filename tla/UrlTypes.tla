------------------------------ MODULE UrlTypes ------------------------------
(* Values shared by the specifications of the storage layer: the rows the  *)
(* callers hand to repository.Storage, the calls of its interface and what *)
(* they return.  Strings (ids, URLs, user ids) are model values.           *)
EXTENDS Naturals, Sequences, FiniteSets

CONSTANTS Ids,         \* short ids utils.GenerateID can produce
          Urls,        \* original URLs
          Users,       \* user ids, the empty one of batch rows included
          Absent,      \* "no entry" of a Go map, "nobody" for a lock
          Batches,     \* row lists passed to Add (length 1) and AddBatch
          DeleteLists  \* id lists passed to DeleteBatch

Row == [id: Ids, url: Urls, user: Users]

UrlInfo == [url: Urls, user: Users, deleted: BOOLEAN]

ASSUME TypesAssumption ==
  /\ Absent \notin Ids \cup UrlInfo
  /\ IsFiniteSet(Ids)
  /\ Batches \subseteq Seq(Row)
  /\ DeleteLists \subseteq Seq(Ids)

-----------------------------------------------------------------------------
(* Calls.  Add is AddBatch of one row: both check the URL index, then      *)
(* insert.  Ping reads no state and is left out.                           *)

Calls == [op: {"add"}, rows: Batches]
         \cup [op: {"delete"}, user: Users, ids: DeleteLists]
         \cup [op: {"get"}, id: Ids]
         \cup [op: {"list"}, user: Users]
         \cup [op: {"stats"}]

(* Of a goroutine that has made no call yet. *)
NoCall == [op |-> "none"]

Writes(c) == c.op \in {"add", "delete"}

IdsOf(c) == IF c.op = "add" THEN {c.rows[i].id : i \in DOMAIN c.rows} ELSE {}

UrlsOf(c) == {c.rows[i].url : i \in DOMAIN c.rows}

(* Results. *)
UserURL == [id: Ids, url: Urls]

Results == [kind: {"none", "ok", "cancelled", "notfound", "gone"}]
           \cup [kind: {"exists"}, id: Ids]
           \cup [kind: {"url"}, url: Urls]
           \cup [kind: {"urls"}, rows: SUBSET UserURL]
           \cup [kind: {"stats"}, urls: Nat, users: Nat]

Plain(kind) == [kind |-> kind]

AlreadyExists(id) == [kind |-> "exists", id |-> id]

-----------------------------------------------------------------------------
(* A map from ids to UrlInfo is a function on Ids with Absent for a        *)
(* missing key.                                                            *)

Maps == [Ids -> UrlInfo \cup {Absent}]

Present(d) == {id \in Ids : d[id] # Absent}

Fetch(d, id) ==
  IF d[id] = Absent THEN Plain("notfound")
  ELSE IF d[id].deleted THEN Plain("gone")
  ELSE [kind |-> "url", url |-> d[id].url]

(* One pair of the iteration over the map, and all of them. *)
Entry(d, id) == [id |-> id, info |-> d[id]]

Entries(d) == {Entry(d, id) : id \in Present(d)}

Live(entries) == {e \in entries : ~e.info.deleted}

UrlsOfUser(entries, user) ==
  {[id |-> e.id, url |-> e.info.url] : e \in {x \in Live(entries) : x.info.user = user}}

(* What a scan over the given entries returns to call c. *)
Report(c, entries) ==
  IF c.op = "list"
  THEN [kind |-> "urls", rows |-> UrlsOfUser(entries, c.user)]
  ELSE [kind  |-> "stats",
        urls  |-> Cardinality(Live(entries)),
        users |-> Cardinality({e.info.user : e \in Live(entries)})]

NewInfo(row) == [url |-> row.url, user |-> row.user, deleted |-> FALSE]

(* The entry of id after deleteBatch has marked it for user. *)
Marked(info, user) ==
  IF info # Absent /\ info.user = user THEN [info EXCEPT !.deleted = TRUE] ELSE info
=============================================================================

--------------------------- MODULE UrlTypesProofs ---------------------------
(* Facts about calls, rows and map entries that the proofs about the       *)
(* storages share.                                                         *)
EXTENDS UrlTypes, FiniteSetTheorems, TLAPS

-----------------------------------------------------------------------------
(* A call that adds carries rows, one that deletes ids, and so on. *)
LEMMA CallFields ==
  ASSUME NEW c \in Calls
  PROVE  /\ c.op \in {"add", "delete", "get", "list", "stats"}
         /\ c.op = "add" => c.rows \in Batches
         /\ c.op = "delete" => c.user \in Users /\ c.ids \in DeleteLists
         /\ c.op = "get" => c.id \in Ids
         /\ c.op = "list" => c.user \in Users
BY DEF Calls

LEMMA NewInfoFields ==
  ASSUME NEW row
  PROVE  NewInfo(row).url = row.url /\ NewInfo(row).user = row.user /\ NewInfo(row).deleted = FALSE
BY DEF NewInfo

LEMMA RowFields ==
  ASSUME NEW rows \in Batches, NEW i \in DOMAIN rows
  PROVE  /\ rows[i].id \in Ids /\ rows[i].url \in Urls /\ rows[i].user \in Users
         /\ NewInfo(rows[i]) \in UrlInfo
         /\ NewInfo(rows[i]) # Absent
<1>1. rows \in Seq(Row) /\ Absent \notin UrlInfo
  BY TypesAssumption
<1>2. rows[i] \in Row
  BY <1>1
<1>3. rows[i].id \in Ids /\ rows[i].url \in Urls /\ rows[i].user \in Users
  BY <1>2 DEF Row
<1>4. NewInfo(rows[i]) \in UrlInfo
  BY <1>3 DEF NewInfo, UrlInfo
<1> QED
  BY <1>1, <1>3, <1>4

LEMMA DeletedIds ==
  ASSUME NEW ids \in DeleteLists, NEW i \in DOMAIN ids
  PROVE  ids[i] \in Ids
<1>1. ids \in Seq(Ids)
  BY TypesAssumption
<1> QED
  BY <1>1

(* A deletion mark keeps the entry's presence, URL and owner. *)
LEMMA MarkedFacts ==
  ASSUME NEW info \in UrlInfo \cup {Absent}, NEW user
  PROVE  /\ Marked(info, user) \in UrlInfo \cup {Absent}
         /\ Marked(info, user) = Absent <=> info = Absent
         /\ info # Absent =>
              /\ Marked(info, user).url = info.url
              /\ Marked(info, user).user = info.user
              /\ info.deleted => Marked(info, user).deleted
<1>1. Absent \notin UrlInfo
  BY TypesAssumption
<1>2. CASE info = Absent
  BY <1>1, <1>2 DEF Marked
<1>3. CASE info \in UrlInfo
  BY <1>1, <1>3 DEF Marked, UrlInfo
<1> QED
  BY <1>2, <1>3

LEMMA FetchType ==
  ASSUME NEW d \in Maps, NEW id \in Ids
  PROVE  Fetch(d, id) \in Results
<1>1. d[id] # Absent => d[id].url \in Urls
  BY DEF Maps, UrlInfo
<1> QED
  BY <1>1 DEF Fetch, Results, Plain

(* The statistics are natural numbers: the entries are finitely many. *)
LEMMA ReportType ==
  ASSUME NEW c, NEW S \in SUBSET [id: Ids, info: UrlInfo], IsFiniteSet(S)
  PROVE  Report(c, S) \in Results
<1> DEFINE L == Live(S)
           U == {e.info.user : e \in L}
<1>1. L \in SUBSET S
  BY DEF Live
<1>2. IsFiniteSet(L) /\ IsFiniteSet(U)
  <2>1. IsFiniteSet(L)
    BY <1>1, FS_Subset
  <2>2. [e \in L |-> e.info.user] \in Surjection(L, U)
    BY DEF Surjection
  <2> QED
    BY <2>1, <2>2, FS_Surjection
<1>3. Cardinality(L) \in Nat /\ Cardinality(U) \in Nat
  BY <1>2, FS_CardinalityType
<1>4. UrlsOfUser(S, c.user) \in SUBSET UserURL
  BY <1>1 DEF UrlsOfUser, UserURL, UrlInfo
<1> QED
  BY <1>3, <1>4 DEF Report, Results

(* A map has finitely many entries: there are finitely many ids. *)
LEMMA EntriesFinite ==
  ASSUME NEW d \in Maps
  PROVE  Entries(d) \in SUBSET [id: Ids, info: UrlInfo] /\ IsFiniteSet(Entries(d))
<1>1. IsFiniteSet(Present(d))
  BY TypesAssumption, FS_Subset DEF Present
<1>2. [id \in Present(d) |-> Entry(d, id)] \in Surjection(Present(d), Entries(d))
  BY DEF Surjection, Entries
<1>3. IsFiniteSet(Entries(d))
  BY <1>1, <1>2, FS_Surjection
<1>4. \A id \in Present(d) : Entry(d, id) \in [id: Ids, info: UrlInfo]
  BY DEF Present, Entry, Maps
<1> QED
  BY <1>3, <1>4 DEF Entries
=============================================================================

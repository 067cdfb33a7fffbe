----------------------------- MODULE FileStorage ----------------------------
(* repository.fileStorage: memStorage plus a file that Add and AddBatch    *)
(* append to, DeleteBatch rewrites and NewFileStorage replays.  The mutex  *)
(* (see MemStorage) admits one writer at a time, so at most one call is in *)
(* progress; it is taken apart at its file operations, each of which may   *)
(* fail, and the process may die between any two of them.  The readers,    *)
(* inherited from memStorage, do not touch the file and are left out.      *)
EXTENDS UrlTypes

CONSTANTS LongUrls,  \* URLs whose record does not fit load's 1 MiB buffer
          Garbage,   \* a line of the file that does not parse
          MaxLines   \* bound on the file, for model checking

ASSUME FileAssumption == LongUrls \subseteq Urls /\ Garbage \notin Row /\ MaxLines \in Nat

(* A line of the file: the record of a row, or text load cannot parse as   *)
(* one: a JSON array, the beginning of a record, two records run together. *)
Lines == Row \cup {Garbage}

Readable(line) == line # Garbage /\ line.url \notin LongUrls

VARIABLES mode,      \* process: "down", "loading", "up", "refused" to start
          data, urlToID,
          file,      \* the lines of the file (none: missing or empty)
          open,      \* the last line has no newline
          line,      \* the line load reads next
          job,       \* the call in progress
          phase,     \* its next file operation
          acked,     \* history: rows whose Add or AddBatch returned nil
          gone,      \* history: ids deleted by a DeleteBatch that returned nil
          rewritten, \* history: save has replaced the appended records
          torn       \* history: a write to the file was cut short

memory == <<data, urlToID>>
disk == <<file, open>>
history == <<acked, gone, rewritten, torn>>
vars == <<mode, memory, disk, line, job, phase, history>>

Jobs == [op: {"add", "addBatch"}, rows: Batches]
        \cup [op: {"delete"}, user: Users, ids: DeleteLists]
Idle == [op |-> "none"]

TypeOK ==
  /\ mode \in {"down", "loading", "up", "refused"}
  /\ data \in Maps
  /\ urlToID \in [Urls -> Ids \cup {Absent}]
  /\ file \in Seq(Lines) /\ open \in BOOLEAN
  /\ open => file # <<>>
  /\ line \in Nat \ {0}
  /\ job \in Jobs \cup {Idle}
  /\ phase \in {"idle", "open", "update", "append", "undo", "create", "encode"}
  /\ phase # "idle" => mode = "up"
  /\ phase = "idle" <=> job = Idle
  /\ phase \in {"create", "encode"} <=> job.op = "delete"
  /\ acked \subseteq Row /\ gone \subseteq Ids
  /\ rewritten \in BOOLEAN /\ torn \in BOOLEAN

NoData == [id \in Ids |-> Absent]
NoIndex == [url \in Urls |-> Absent]

Init ==
  /\ mode = "down"
  /\ data = NoData /\ urlToID = NoIndex
  /\ file = <<>> /\ open = FALSE
  /\ line = 1
  /\ job = Idle /\ phase = "idle"
  /\ acked = {} /\ gone = {} /\ rewritten = FALSE /\ torn = FALSE

-----------------------------------------------------------------------------
Recorded == {i \in DOMAIN file : file[i] # Garbage}

JobIds == IF job.op \in {"add", "addBatch"} THEN {job.rows[i].id : i \in DOMAIN job.rows} ELSE {}
JobUrls == {job.rows[i].url : i \in DOMAIN job.rows}

(* GenerateID never repeats itself here (MemStorage covers collisions). *)
Fresh(rows) ==
  /\ \A i \in DOMAIN rows :
       /\ data[rows[i].id] = Absent /\ rows[i].id \notin gone
       /\ \A row \in acked \cup {file[l] : l \in Recorded} : row.id # rows[i].id
  /\ \A i, j \in DOMAIN rows : rows[i].id = rows[j].id => i = j

(* The last position of url among the rows: the index entry that survives. *)
LastOf(rows, url) ==
  CHOOSE i \in DOMAIN rows : rows[i].url = url /\ \A j \in DOMAIN rows : rows[j].url = url => j <= i

Return == job' = Idle /\ phase' = "idle"

(* Whole lines appended to the file: the first one is glued to a last line *)
(* that has no newline.                                                    *)
Appended(lines) ==
  IF open /\ lines # <<>>
  THEN [file EXCEPT ![Len(file)] = Garbage] \o Tail(lines)
  ELSE file \o lines

-----------------------------------------------------------------------------
(* Seeded faults, one per property: plausible bugs of the Go code that the *)
(* property must catch.                                                    *)

(* A file opened with O_TRUNC instead of O_APPEND. *)
TruncatingWrite ==
  /\ phase = "append"
  /\ file' = job.rows /\ open' = FALSE
  /\ acked' = acked \cup {job.rows[i] : i \in DOMAIN job.rows}
  /\ Return
  /\ UNCHANGED <<mode, memory, line, gone, rewritten, torn>>

(* Newlines between the records only, none after the last. *)
UnterminatedWrite ==
  /\ phase = "append"
  /\ file' = Appended(job.rows) /\ open' = TRUE
  /\ acked' = acked \cup {job.rows[i] : i \in DOMAIN job.rows}
  /\ Return
  /\ UNCHANGED <<mode, memory, line, gone, rewritten, torn>>

(* Undo of only one of the two maps. *)
UndoIndexOnly ==
  /\ phase = "undo"
  /\ urlToID' = [url \in Urls |-> IF url \in JobUrls THEN Absent ELSE urlToID[url]]
  /\ Return
  /\ UNCHANGED <<mode, data, disk, line, history>>

UndoDataOnly ==
  /\ phase = "undo"
  /\ data' = [id \in Ids |-> IF id \in JobIds THEN Absent ELSE data[id]]
  /\ Return
  /\ UNCHANGED <<mode, urlToID, disk, line, history>>

(* save writing one record per line, but as now without the Deleted field. *)
EncodeWithoutMarks ==
  /\ phase = "encode"
  /\ LET rows == {[id |-> id, url |-> data[id].url, user |-> data[id].user] : id \in Present(data)}
     IN  \E lines \in [1..Cardinality(rows) -> rows] :
           rows = {lines[i] : i \in DOMAIN lines} /\ file' = lines
  /\ open' = FALSE
  /\ gone' = gone \cup {id \in Present(data) :
                          data[id].user = job.user /\ \E i \in DOMAIN job.ids : job.ids[i] = id}
  /\ Return
  /\ UNCHANGED <<mode, memory, line, acked, rewritten, torn>>

(* data[id] = urlInfo{} in place of delete(data, id). *)
UndoToZero ==
  /\ phase = "undo"
  /\ data' = [id \in Ids |-> IF id \in JobIds
                             THEN [url |-> Absent, user |-> Absent, deleted |-> FALSE] ELSE data[id]]
  /\ urlToID' = [url \in Urls |-> IF url \in JobUrls THEN Absent ELSE urlToID[url]]
  /\ Return
  /\ UNCHANGED <<mode, disk, line, history>>

-----------------------------------------------------------------------------
(* Add and AddBatch.  Both reject an empty list before they come here.     *)

Add ==
  /\ mode = "up" /\ phase = "idle"
  /\ \E rows \in Batches :
       /\ Fresh(rows) /\ Len(file) + Len(rows) <= MaxLines
       /\ \/ Len(rows) = 1 /\ job' = [op |-> "add", rows |-> rows] /\ phase' = "update"
          \/ job' = [op |-> "addBatch", rows |-> rows] /\ phase' = "open"
  /\ UNCHANGED <<mode, memory, disk, line, history>>

(* AddBatch opens the file before it looks at the maps. *)
OpenFirst ==
  /\ phase = "open"
  /\ phase' = "update"
  /\ UNCHANGED <<mode, memory, disk, line, job, history>>

OpenFirstFails ==
  /\ phase = "open"
  /\ Return
  /\ UNCHANGED <<mode, memory, disk, line, history>>

Duplicate ==
  /\ phase = "update"
  /\ \E url \in JobUrls : urlToID[url] # Absent
  /\ Return
  /\ UNCHANGED <<mode, memory, disk, line, history>>

(* memStorage.add, memStorage.addBatch *)
Update ==
  /\ phase = "update"
  /\ \A url \in JobUrls : urlToID[url] = Absent
  /\ data' = [id \in Ids |->
                IF id \in JobIds
                THEN NewInfo(job.rows[CHOOSE i \in DOMAIN job.rows : job.rows[i].id = id])
                ELSE data[id]]
  /\ urlToID' = [url \in Urls |->
                   IF url \in JobUrls THEN job.rows[LastOf(job.rows, url)].id ELSE urlToID[url]]
  /\ phase' = "append"
  /\ UNCHANGED <<mode, disk, line, job, history>>

(* appendRecords *)
WriteRecords ==
  /\ phase = "append"
  /\ file' = Appended(job.rows) /\ open' = FALSE
  /\ acked' = acked \cup {job.rows[i] : i \in DOMAIN job.rows}
  /\ Return
  /\ UNCHANGED <<mode, memory, line, gone, rewritten, torn>>

OpenFails ==
  /\ phase = "append"
  /\ phase' = "undo"
  /\ UNCHANGED <<mode, memory, disk, line, job, history>>

(* The write stops after n whole records, at a line boundary or inside the *)
(* next record, which is then garbage or lacks only its newline.           *)
ShortWrite ==
  /\ phase = "append"
  /\ \E n \in 0..(Len(job.rows) - 1) :
       LET whole == SubSeq(job.rows, 1, n)
       IN  \/ n > 0 /\ file' = Appended(whole) /\ open' = FALSE
           \/ \E piece \in {Garbage, job.rows[n + 1]} :
                file' = Appended(Append(whole, piece)) /\ open' = TRUE
  /\ torn' = TRUE
  /\ phase' = "undo"
  /\ UNCHANGED <<mode, memory, line, job, acked, gone, rewritten>>

Undo ==
  /\ phase = "undo"
  /\ data' = [id \in Ids |-> IF id \in JobIds THEN Absent ELSE data[id]]
  /\ urlToID' = [url \in Urls |-> IF url \in JobUrls THEN Absent ELSE urlToID[url]]
  /\ Return
  /\ UNCHANGED <<mode, disk, line, history>>

-----------------------------------------------------------------------------
(* DeleteBatch: the marks are set in memory, then save truncates the file  *)
(* and writes all rows as one indented JSON array.                         *)

Delete ==
  /\ mode = "up" /\ phase = "idle"
  /\ \E user \in Users, ids \in DeleteLists \ {<<>>} :
       /\ job' = [op |-> "delete", user |-> user, ids |-> ids]
       /\ data' = [id \in Ids |->
                     IF \E i \in DOMAIN ids : ids[i] = id THEN Marked(data[id], user) ELSE data[id]]
  /\ phase' = "create"
  /\ UNCHANGED <<mode, urlToID, disk, line, history>>

CreateFails ==
  /\ phase = "create"
  /\ Return
  /\ UNCHANGED <<mode, memory, disk, line, history>>

(* os.Create *)
Create ==
  /\ phase = "create"
  /\ file' = <<>> /\ open' = FALSE
  /\ rewritten' = TRUE
  /\ phase' = "encode"
  /\ UNCHANGED <<mode, memory, line, job, acked, gone, torn>>

(* encoder.Encode: no line of the array, not even "[]", parses as a record. *)
Encode ==
  /\ phase = "encode"
  /\ file' = <<Garbage>> /\ open' = FALSE
  /\ gone' = gone \cup {id \in Present(data) :
                          data[id].user = job.user /\ \E i \in DOMAIN job.ids : job.ids[i] = id}
  /\ Return
  /\ UNCHANGED <<mode, memory, line, acked, rewritten, torn>>

(* Nothing is written, or a part of the array, up to the end of a line or  *)
(* not; the marks stay in memory.                                          *)
EncodeFails ==
  /\ phase = "encode"
  /\ \/ UNCHANGED disk
     \/ file' = <<Garbage>> /\ open' \in BOOLEAN
  /\ torn' = TRUE
  /\ Return
  /\ UNCHANGED <<mode, memory, line, acked, gone, rewritten>>

-----------------------------------------------------------------------------
(* The process dies, in the middle of a call or of load; the file stays.   *)
Crash ==
  /\ mode \in {"loading", "up"}
  /\ mode' = "down"
  /\ data' = NoData /\ urlToID' = NoIndex
  /\ line' = 1
  /\ Return
  /\ UNCHANGED <<disk, history>>

(* NewFileStorage: load replays the file, a later line overriding an       *)
(* earlier one; a line it cannot read makes main exit.                     *)
Start ==
  /\ mode \in {"down", "refused"}
  /\ mode' = "loading"
  /\ line' = 1
  /\ UNCHANGED <<memory, disk, job, phase, history>>

LoadLine ==
  /\ mode = "loading" /\ line \in DOMAIN file
  /\ Readable(file[line])
  /\ data' = [data EXCEPT ![file[line].id] = NewInfo(file[line])]
  /\ urlToID' = [urlToID EXCEPT ![file[line].url] = file[line].id]
  /\ line' = line + 1
  /\ UNCHANGED <<mode, disk, job, phase, history>>

Refuse ==
  /\ mode = "loading" /\ line \in DOMAIN file
  /\ ~Readable(file[line])
  /\ mode' = "refused"
  /\ data' = NoData /\ urlToID' = NoIndex
  /\ line' = 1
  /\ UNCHANGED <<disk, job, phase, history>>

Loaded ==
  /\ mode = "loading" /\ line \notin DOMAIN file
  /\ mode' = "up"
  /\ line' = 1
  /\ UNCHANGED <<memory, disk, job, phase, history>>

Next ==
  \/ Add \/ OpenFirst \/ OpenFirstFails \/ Duplicate \/ Update
  \/ WriteRecords \/ OpenFails \/ ShortWrite \/ Undo
  \/ Delete \/ CreateFails \/ Create \/ Encode \/ EncodeFails
  \/ Crash \/ Start \/ LoadLine \/ Refuse \/ Loaded

Spec == Init /\ [][Next]_vars

-----------------------------------------------------------------------------
(* Until the first DeleteBatch, every row whose Add or AddBatch returned   *)
(* nil is served after any number of crashes, failed writes and restarts:  *)
(* a storage that comes up has lost none of them (file.go:30, 109-129).    *)
AckedRowsServed ==
  mode = "up" /\ ~rewritten =>
    \A row \in acked : /\ row.id \in Present(data)
                       /\ data[row.id].url = row.url /\ data[row.id].user = row.user

(* As long as no write was cut short and nothing deleted, memory and file  *)
(* hold the same rows between calls: a failed call is undone completely    *)
(* (file.go:145-150, 212-217), a successful one can be replayed.           *)
FileMirrorsMemory ==
  mode = "up" /\ phase = "idle" /\ ~rewritten /\ ~torn =>
    {file[i] : i \in DOMAIN file}
      = {[id |-> id, url |-> data[id].url, user |-> data[id].user] : id \in Present(data)}

(* data and urlToID agree, after undo and after load, too.                 *)
IndexAgrees ==
  /\ \A id \in Present(data) : urlToID[data[id].url] # Absent
  /\ \A url \in Urls : urlToID[url] # Absent
       => urlToID[url] \in Present(data) /\ data[urlToID[url]].url = url

(* A restart is refused only after a save, after a write that was cut      *)
(* short, or over a record longer than load's buffer (file.go:59, 71-73):  *)
(* appending alone never makes the file unreadable.                        *)
RefusedForCause ==
  mode = "refused" => rewritten \/ torn \/ \E row \in acked : row.url \in LongUrls

(* A link whose DeleteBatch has returned nil never redirects again, across *)
(* restarts: it is marked, or the storage has forgotten it altogether.     *)
GoneStaysGone ==
  mode = "up" => \A id \in gone : data[id] = Absent \/ data[id].deleted

(* "check new storage creation leaves data in storage" (file_test.go:39)   *)
(* and "loads existing data from the file" (file.go:30): a file written    *)
(* without I/O errors and with short URLs can be loaded again.             *)
RestartSucceeds ==
  mode = "refused" => torn \/ \E row \in acked : row.url \in LongUrls
=============================================================================

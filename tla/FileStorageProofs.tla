------------------------- MODULE FileStorageProofs --------------------------
(* Proofs about FileStorage for every set of ids, URLs, users and batches, *)
(* files of any length, and failures and crashes at every file operation.  *)
EXTENDS FileStorage, UrlTypesProofs, SequenceTheorems, WellFoundedInduction

-----------------------------------------------------------------------------
(* The calls in progress.                                                  *)

Adding == phase \in {"open", "update", "append", "undo"}
Deleting == phase \in {"create", "encode"}

LEMMA JobFields ==
  ASSUME TypeOK
  PROVE  /\ Adding => /\ job.op \in {"add", "addBatch"} /\ job.rows \in Batches /\ job.rows \in Seq(Row)
                      /\ job \in Jobs
         /\ Deleting => /\ job.op = "delete" /\ job.user \in Users /\ job.ids \in DeleteLists
                        /\ job \in Jobs
<1>1. Batches \subseteq Seq(Row)
  BY TypesAssumption
<1>2. CASE Adding
  BY <1>1, <1>2 DEF TypeOK, Adding, Deleting, Jobs, Idle
<1>3. CASE Deleting
  BY <1>3 DEF TypeOK, Adding, Deleting, Jobs, Idle
<1> QED
  BY <1>2, <1>3

(* The ids and the URLs of the batch. *)
LEMMA JobSets ==
  ASSUME TypeOK, Adding
  PROVE  /\ JobIds = {job.rows[i].id : i \in DOMAIN job.rows} /\ JobIds \subseteq Ids
         /\ JobUrls = {job.rows[i].url : i \in DOMAIN job.rows} /\ JobUrls \subseteq Urls
<1>1. job.op \in {"add", "addBatch"} /\ job.rows \in Batches
  BY JobFields
<1> QED
  BY <1>1, RowFields DEF JobIds, JobUrls

(* A set of positions has a last one. *)
LEMMA Largest ==
  ASSUME NEW n \in Nat, NEW S, S \subseteq 1..n, S # {}
  PROVE  \E i \in S : \A j \in S : j <= i
<1> DEFINE T == {n - i : i \in S}
           R == {p \in Nat \X Nat : p[1] < p[2]}
<1>1. IsWellFoundedOn(R, Nat)
  BY NatLessThanWellFounded DEF OpToRel
<1>2. \A i \in S : i \in Nat /\ n - i \in Nat
  OBVIOUS
<1>3. T \subseteq Nat /\ T # {}
  BY <1>2
<1>4. PICK x \in T : \A y \in T : ~(<<y, x>> \in R)
  <2> HIDE DEF T, R
  <2> QED
    BY <1>1, <1>3, WFMin
<1>5. \A y \in T : ~(y < x)
  <2>1. \A y \in T : <<y, x>> \in Nat \X Nat
    BY <1>3
  <2> QED
    BY <1>4, <2>1
<1>6. PICK i \in S : x = n - i
  OBVIOUS
<1>7. ASSUME NEW j \in S PROVE j <= i
  <2>1. ~(n - j < n - i)
    BY <1>5, <1>6
  <2> QED
    BY <1>2, <2>1
<1> QED
  BY <1>7

LEMMA LastOfFacts ==
  ASSUME NEW rows \in Seq(Row), NEW url, \E i \in DOMAIN rows : rows[i].url = url
  PROVE  LastOf(rows, url) \in DOMAIN rows /\ rows[LastOf(rows, url)].url = url
<1> DEFINE S == {i \in DOMAIN rows : rows[i].url = url}
<1>1. S \subseteq 1..Len(rows) /\ S # {} /\ Len(rows) \in Nat
  OBVIOUS
<1>2. \E i \in S : \A j \in S : j <= i
  <2> HIDE DEF S
  <2> QED
    BY <1>1, Largest
<1>3. \E i \in DOMAIN rows : rows[i].url = url /\ \A j \in DOMAIN rows : rows[j].url = url => j <= i
  BY <1>2
<1> QED
  BY <1>3 DEF LastOf

-----------------------------------------------------------------------------
(* The file.                                                               *)

(* What a write of rows has put out when it stops: some of the rows, then  *)
(* perhaps a beginning of the next one.                                    *)
Output(lines, rows) ==
  /\ lines \in Seq(Lines)
  /\ \A k \in DOMAIN lines : lines[k] = Garbage \/ (k \in DOMAIN rows /\ lines[k] = rows[k])

LEMMA WholeOutput ==
  ASSUME NEW rows \in Seq(Row)
  PROVE  Output(rows, rows)
<1>1. rows \in Seq(Lines)
  BY SeqMonotonic DEF Lines
<1> QED
  BY <1>1 DEF Output

LEMMA ShortOutput ==
  ASSUME NEW rows \in Seq(Row), NEW n \in 0..(Len(rows) - 1)
  PROVE  /\ Output(SubSeq(rows, 1, n), rows)
         /\ \A piece \in {Garbage, rows[n + 1]} :
              Output(Append(SubSeq(rows, 1, n), piece), rows) /\ Append(SubSeq(rows, 1, n), piece) # <<>>
<1> DEFINE whole == SubSeq(rows, 1, n)
<1>1. rows \in Seq(Lines) /\ Len(rows) \in Nat /\ DOMAIN rows = 1..Len(rows)
  BY SeqMonotonic DEF Lines
<1>2. whole \in Seq(Lines) /\ Len(whole) = n /\ \A k \in 1..n : whole[k] = rows[k] /\ k \in DOMAIN rows
  <2>1. \A i \in 1..n : rows[i] \in Lines
    BY <1>1
  <2>2. n \in Int /\ 1 \in Int
    OBVIOUS
  <2>3. /\ whole \in Seq(Lines) /\ Len(whole) = (IF 1 <= n THEN n - 1 + 1 ELSE 0)
        /\ \A i \in 1..(n - 1 + 1) : whole[i] = rows[1 + i - 1]
    BY <2>1, <2>2, SubSeqProperties
  <2> QED
    BY <1>1, <2>3
<1> HIDE DEF whole
<1>3. Output(whole, rows)
  BY <1>2 DEF Output
<1>4. ASSUME NEW piece \in {Garbage, rows[n + 1]}
      PROVE  Output(Append(whole, piece), rows) /\ Append(whole, piece) # <<>>
  <2>1. n + 1 \in DOMAIN rows
    BY <1>1
  <2>2. piece \in Lines
    BY <1>1, <2>1 DEF Lines
  <2>3. /\ Append(whole, piece) \in Seq(Lines) /\ Len(Append(whole, piece)) = n + 1
        /\ \A k \in 1..n : Append(whole, piece)[k] = whole[k]
        /\ Append(whole, piece)[n + 1] = piece
    BY <1>2, <2>2
  <2>4. \A k \in DOMAIN Append(whole, piece) : k \in 1..n \/ k = n + 1
    BY <2>3
  <2>5. \A k \in DOMAIN Append(whole, piece) :
          \/ Append(whole, piece)[k] = Garbage
          \/ k \in DOMAIN rows /\ Append(whole, piece)[k] = rows[k]
    BY <1>2, <2>1, <2>3, <2>4
  <2>6. Append(whole, piece) # <<>>
    BY <2>3, EmptySeq
  <2> QED
    BY <2>3, <2>5, <2>6 DEF Output
<1> QED
  BY <1>3, <1>4 DEF whole

(* What is appended comes after the lines that are there, unless the last  *)
(* one is open: then the first new line and it become one nobody can read. *)
LEMMA AppendedFacts ==
  ASSUME file \in Seq(Lines), open => file # <<>>, NEW lines \in Seq(Lines)
  PROVE  LET new == Appended(lines)
             before == IF open THEN Len(file) - 1 ELSE Len(file)
         IN  /\ new \in Seq(Lines)
             /\ ~open \/ lines = <<>> => new = file \o lines
             /\ lines # <<>> => new # <<>>
             /\ open /\ lines # <<>> => Len(file) \in DOMAIN new /\ new[Len(file)] = Garbage
             /\ \A i \in DOMAIN new :
                  \/ new[i] = Garbage
                  \/ i \in DOMAIN file /\ new[i] = file[i]
                  \/ \E k \in DOMAIN lines : i = before + k /\ new[i] = lines[k]
<1>0. PICK n : n = Len(file)
  OBVIOUS
<1>1. n = Len(file) /\ n \in Nat /\ DOMAIN file = 1..n /\ Len(lines) \in Nat /\ DOMAIN lines = 1..Len(lines)
  BY <1>0
<1>2. CASE ~open \/ lines = <<>>
  <2>1. Appended(lines) = file \o lines
    BY <1>2 DEF Appended
  <2>2. /\ file \o lines \in Seq(Lines) /\ Len(file \o lines) = n + Len(lines)
        /\ \A i \in 1..(n + Len(lines)) : (file \o lines)[i] = IF i <= n THEN file[i] ELSE lines[i - n]
    BY <1>0, ConcatProperties
  <2>3. DOMAIN (file \o lines) = 1..(n + Len(lines))
    BY <2>2
  <2>4. ASSUME NEW i \in 1..(n + Len(lines)), i > n
        PROVE  i - n \in DOMAIN lines /\ i = n + (i - n) /\ (file \o lines)[i] = lines[i - n] /\ lines # <<>>
    BY <1>1, <2>2, <2>4
  <2>5. ASSUME NEW i \in 1..(n + Len(lines))
        PROVE  \/ i \in DOMAIN file /\ (file \o lines)[i] = file[i]
               \/ \E k \in DOMAIN lines : lines # <<>> /\ i = n + k /\ (file \o lines)[i] = lines[k]
    <3>1. CASE i <= n
      BY <1>1, <2>2, <3>1
    <3>2. CASE i > n
      BY <2>4, <3>2
    <3> QED
      BY <1>1, <3>1, <3>2
  <2>6. lines # <<>> => file \o lines # <<>>
    BY <1>1, <2>2
  <2> QED
    BY <1>1, <1>2, <2>1, <2>2, <2>3, <2>5, <2>6
<1>3. CASE open /\ lines # <<>>
  <2>1. PICK cut, tail, new : /\ cut = [file EXCEPT ![n] = Garbage] /\ tail = Tail(lines)
                              /\ new = cut \o tail
    OBVIOUS
  <2>2. Appended(lines) = new
    BY <1>0, <1>3, <2>1 DEF Appended
  <2>3. n \in 1..n /\ Garbage \in Lines
    BY <1>1, <1>3, EmptySeq DEF Lines
  <2>4. cut \in Seq(Lines) /\ Len(cut) = n /\ \A i \in 1..n : cut[i] = IF i = n THEN Garbage ELSE file[i]
    BY <1>0, <2>1, <2>3, ExceptSeq
  <2>5. tail \in Seq(Lines) /\ Len(tail) = Len(lines) - 1 /\ \A i \in 1..Len(tail) : tail[i] = lines[i + 1]
    BY <1>3, <2>1, HeadTailProperties
  <2>6. /\ new \in Seq(Lines) /\ Len(new) = Len(cut) + Len(tail)
        /\ \A i \in 1..(Len(cut) + Len(tail)) : new[i] = IF i <= Len(cut) THEN cut[i] ELSE tail[i - Len(cut)]
    BY <2>1, <2>4, <2>5, ConcatProperties
  <2>7. PICK size, total : size = Len(lines) /\ total = (n + size) - 1
    OBVIOUS
  <2>8. size \in Nat /\ size >= 1 /\ total \in Nat /\ DOMAIN lines = 1..size /\ n <= total
    BY <1>1, <1>3, <2>7
  <2>9. Len(new) = total /\ Len(tail) = size - 1 /\ DOMAIN new = 1..total
    BY <1>1, <2>4, <2>5, <2>6, <2>7, <2>8
  <2>10. \A i \in 1..total : new[i] = IF i <= n THEN cut[i] ELSE tail[i - n]
    BY <2>4, <2>6, <2>9
  <2>11. n \in DOMAIN new /\ new[n] = Garbage
    BY <1>1, <2>3, <2>4, <2>8, <2>9, <2>10
  <2>12. ASSUME NEW i \in 1..total, i < n PROVE i \in DOMAIN file /\ new[i] = file[i]
    BY <1>1, <2>4, <2>10, <2>12
  <2>13. ASSUME NEW i \in 1..total, i > n PROVE \E k \in DOMAIN lines : i = (n - 1) + k /\ new[i] = lines[k]
    <3>1. i - n \in 1..Len(tail) /\ (i - n) + 1 \in DOMAIN lines /\ i = (n - 1) + ((i - n) + 1)
      BY <1>1, <2>7, <2>8, <2>9, <2>13
    <3>2. new[i] = tail[i - n] /\ tail[i - n] = lines[(i - n) + 1]
      BY <1>1, <2>5, <2>10, <2>13, <3>1
    <3> QED
      BY <3>1, <3>2
  <2>14. ASSUME NEW i \in DOMAIN new
         PROVE  \/ new[i] = Garbage
                \/ i \in DOMAIN file /\ new[i] = file[i]
                \/ \E k \in DOMAIN lines : i = (n - 1) + k /\ new[i] = lines[k]
    <3>1. i \in 1..total /\ (i < n \/ i = n \/ i > n)
      BY <1>1, <2>8, <2>9
    <3> QED
      BY <2>11, <2>12, <2>13, <3>1
  <2>15. new # <<>>
    BY <2>11
  <2> QED
    BY <1>0, <1>3, <2>2, <2>6, <2>11, <2>14, <2>15
<1> QED
  BY <1>2, <1>3

-----------------------------------------------------------------------------
(* What each kind of step does to the maps.                                *)

Distinct(rows) == \A i, j \in DOMAIN rows : rows[i].id = rows[j].id => i = j

LEMMA UpdateFacts ==
  ASSUME TypeOK, Update, Distinct(job.rows)
  PROVE  /\ data' \in Maps /\ urlToID' \in [Urls -> Ids \cup {Absent}]
         /\ \A i \in DOMAIN job.rows : data'[job.rows[i].id] = NewInfo(job.rows[i])
         /\ \A id \in Ids \ JobIds : data'[id] = data[id]
         /\ \A url \in JobUrls : \E i \in DOMAIN job.rows :
              job.rows[i].url = url /\ urlToID'[url] = job.rows[i].id
         /\ \A url \in Urls \ JobUrls : urlToID'[url] = urlToID[url]
<1>1. /\ phase = "update" /\ Adding /\ job.rows \in Batches /\ job.rows \in Seq(Row)
  BY JobFields DEF Update, Adding
<1>2. /\ JobIds = {job.rows[i].id : i \in DOMAIN job.rows} /\ JobIds \subseteq Ids
      /\ JobUrls = {job.rows[i].url : i \in DOMAIN job.rows} /\ JobUrls \subseteq Urls
  BY <1>1, JobSets
<1>3. \A i \in DOMAIN job.rows : (CHOOSE j \in DOMAIN job.rows : job.rows[j].id = job.rows[i].id) = i
  BY DEF Distinct
<1>4. \A i \in DOMAIN job.rows : data'[job.rows[i].id] = NewInfo(job.rows[i])
  BY <1>2, <1>3 DEF Update
<1>5. \A id \in Ids \ JobIds : data'[id] = data[id]
  BY DEF Update
<1>6. ASSUME NEW url \in JobUrls
      PROVE  \E i \in DOMAIN job.rows : job.rows[i].url = url /\ urlToID'[url] = job.rows[i].id
  <2>1. \E i \in DOMAIN job.rows : job.rows[i].url = url
    BY <1>2
  <2>2. LastOf(job.rows, url) \in DOMAIN job.rows /\ job.rows[LastOf(job.rows, url)].url = url
    BY <1>1, <2>1, LastOfFacts
  <2>3. urlToID'[url] = job.rows[LastOf(job.rows, url)].id
    BY <1>2 DEF Update
  <2> QED
    BY <2>2, <2>3
<1>7. \A url \in Urls \ JobUrls : urlToID'[url] = urlToID[url]
  BY DEF Update
<1>8. data' \in Maps
  <2>1. DOMAIN data' = Ids /\ data' = [id \in Ids |-> data'[id]]
    BY DEF Update
  <2>2. \A id \in Ids : data'[id] \in UrlInfo \cup {Absent}
    BY <1>1, <1>2, <1>4, <1>5, RowFields DEF TypeOK, Maps
  <2> QED
    BY <2>1, <2>2 DEF Maps
<1>9. urlToID' \in [Urls -> Ids \cup {Absent}]
  <2>1. urlToID' = [url \in Urls |-> urlToID'[url]]
    BY DEF Update
  <2>2. \A url \in Urls : urlToID'[url] \in Ids \cup {Absent}
    BY <1>1, <1>6, <1>7, RowFields DEF TypeOK
  <2> QED
    BY <2>1, <2>2
<1> QED
  BY <1>4, <1>5, <1>6, <1>7, <1>8, <1>9

LEMMA UndoFacts ==
  ASSUME TypeOK, Undo
  PROVE  /\ data' \in Maps /\ urlToID' \in [Urls -> Ids \cup {Absent}]
         /\ \A id \in Ids : data'[id] = IF id \in JobIds THEN Absent ELSE data[id]
         /\ \A url \in Urls : urlToID'[url] = IF url \in JobUrls THEN Absent ELSE urlToID[url]
BY DEF Undo, TypeOK, Maps

LEMMA DeleteFacts ==
  ASSUME TypeOK, Delete
  PROVE  /\ data' \in Maps
         /\ job' \in Jobs /\ job'.op = "delete" /\ job'.user \in Users /\ job'.ids \in DeleteLists
         /\ \A id \in Ids : data'[id] = IF \E i \in DOMAIN job'.ids : job'.ids[i] = id
                                        THEN Marked(data[id], job'.user) ELSE data[id]
<1>1. PICK user \in Users, ids \in DeleteLists \ {<<>>} :
        /\ job' = [op |-> "delete", user |-> user, ids |-> ids]
        /\ data' = [id \in Ids |->
                      IF \E i \in DOMAIN ids : ids[i] = id THEN Marked(data[id], user) ELSE data[id]]
  BY DEF Delete
<1>2. job' \in Jobs /\ job'.op = "delete" /\ job'.user = user /\ job'.ids = ids
  BY <1>1 DEF Jobs
<1>3. \A id \in Ids : data[id] \in UrlInfo \cup {Absent} /\ Marked(data[id], user) \in UrlInfo \cup {Absent}
  BY MarkedFacts DEF TypeOK, Maps
<1>4. data' \in Maps
  BY <1>1, <1>3 DEF Maps
<1> QED
  BY <1>1, <1>2, <1>4

LEMMA LoadLineFacts ==
  ASSUME TypeOK, LoadLine
  PROVE  /\ data' \in Maps /\ urlToID' \in [Urls -> Ids \cup {Absent}]
         /\ file[line] \in Row /\ file[line] # Garbage
         /\ file[line].id \in Ids /\ file[line].url \in Urls /\ file[line].user \in Users
         /\ NewInfo(file[line]) \in UrlInfo /\ NewInfo(file[line]) # Absent
         /\ data'[file[line].id] = NewInfo(file[line])
         /\ urlToID'[file[line].url] = file[line].id
         /\ \A id \in Ids : id # file[line].id => data'[id] = data[id]
         /\ \A url \in Urls : url # file[line].url => urlToID'[url] = urlToID[url]
<1>1. file[line] \in Row /\ file[line] # Garbage
  BY DEF TypeOK, LoadLine, Readable, Lines
<1>2. file[line].id \in Ids /\ file[line].url \in Urls /\ file[line].user \in Users
  BY <1>1 DEF Row
<1>3. NewInfo(file[line]) \in UrlInfo /\ NewInfo(file[line]) # Absent
  <2>1. NewInfo(file[line]) \in UrlInfo
    BY <1>2 DEF NewInfo, UrlInfo
  <2> QED
    BY <2>1, TypesAssumption
<1>4. /\ data' = [data EXCEPT ![file[line].id] = NewInfo(file[line])]
      /\ urlToID' = [urlToID EXCEPT ![file[line].url] = file[line].id]
      /\ data \in [Ids -> UrlInfo \cup {Absent}] /\ urlToID \in [Urls -> Ids \cup {Absent}]
  BY DEF LoadLine, TypeOK, Maps
<1> QED
  BY <1>1, <1>2, <1>3, <1>4 DEF Maps

(* Output is appended to the file and the last line may be left open. *)
LEMMA ShortWriteFacts ==
  ASSUME TypeOK, ShortWrite
  PROVE  \E lines : Output(lines, job.rows) /\ file' = Appended(lines) /\ (open' => lines # <<>>)
                    /\ open' \in BOOLEAN
<1>1. job.rows \in Seq(Row)
  BY JobFields DEF ShortWrite, Adding
<1>2. PICK n \in 0..(Len(job.rows) - 1) :
        \/ file' = Appended(SubSeq(job.rows, 1, n)) /\ open' = FALSE
        \/ \E piece \in {Garbage, job.rows[n + 1]} :
             file' = Appended(Append(SubSeq(job.rows, 1, n), piece)) /\ open' = TRUE
  BY DEF ShortWrite
<1>3. CASE file' = Appended(SubSeq(job.rows, 1, n)) /\ open' = FALSE
  BY <1>1, <1>3, ShortOutput
<1>4. CASE \E piece \in {Garbage, job.rows[n + 1]} :
             file' = Appended(Append(SubSeq(job.rows, 1, n), piece)) /\ open' = TRUE
  BY <1>1, <1>4, ShortOutput
<1> QED
  BY <1>2, <1>3, <1>4

LEMMA TypeInit == Init => TypeOK
<1> SUFFICES ASSUME Init PROVE TypeOK
  OBVIOUS
<1>1. data \in Maps /\ urlToID \in [Urls -> Ids \cup {Absent}]
  BY DEF Init, Maps, NoData, NoIndex
<1>2. file \in Seq(Lines)
  BY EmptySeq DEF Init
<1>3. job = Idle /\ phase = "idle" /\ job.op # "delete"
  BY DEF Init, Idle
<1>4. mode = "down" /\ open = FALSE /\ line = 1 /\ acked = {} /\ gone = {} /\ rewritten = FALSE /\ torn = FALSE
  BY DEF Init
<1>5. open \in BOOLEAN /\ rewritten \in BOOLEAN /\ torn \in BOOLEAN
  BY <1>4
<1>7. line \in Nat \ {0}
  BY <1>4
<1>6. (phase = "idle" <=> job = Idle) /\ (phase \in {"create", "encode"} <=> job.op = "delete")
  BY <1>3
<1> QED
  BY <1>1, <1>2, <1>3, <1>4, <1>5, <1>6, <1>7 DEF TypeOK

LEMMA TypeStep == TypeOK /\ [Next]_vars => TypeOK'
<1> SUFFICES ASSUME TypeOK, [Next]_vars PROVE TypeOK'
  OBVIOUS
<1>1. ASSUME Return, UNCHANGED <<mode, data, urlToID, line>>, file' \in Seq(Lines), open' \in BOOLEAN,
             open' => file' # <<>>, acked' \subseteq Row, gone' \subseteq Ids,
             rewritten' \in BOOLEAN, torn' \in BOOLEAN
      PROVE  TypeOK'
  BY <1>1 DEF TypeOK, Return, Idle
<1>2. CASE Add
  <2>1. PICK rows \in Batches :
          \/ job' = [op |-> "add", rows |-> rows] /\ phase' = "update"
          \/ job' = [op |-> "addBatch", rows |-> rows] /\ phase' = "open"
    BY <1>2 DEF Add
  <2>2. job' \in Jobs /\ job'.op \in {"add", "addBatch"} /\ job' # Idle
    BY <2>1 DEF Jobs, Idle
  <2>3. phase' \in {"update", "open"} /\ mode = "up"
        /\ UNCHANGED <<mode, data, urlToID, file, open, line, acked, gone, rewritten, torn>>
    BY <1>2, <2>1 DEF Add, memory, disk, history
  <2> QED
    BY <2>2, <2>3 DEF TypeOK
<1>3. CASE OpenFirst \/ OpenFails
  <2>1. /\ UNCHANGED <<mode, data, urlToID, file, open, line, job, acked, gone, rewritten, torn>>
        /\ phase \in {"open", "append"} /\ phase' \in {"update", "undo"}
    BY <1>3 DEF OpenFirst, OpenFails, memory, disk, history
  <2> QED
    BY <2>1 DEF TypeOK
<1>4. CASE OpenFirstFails \/ Duplicate \/ CreateFails
  <2>1. Return /\ UNCHANGED <<mode, data, urlToID, file, open, line, acked, gone, rewritten, torn>>
    BY <1>4 DEF OpenFirstFails, Duplicate, CreateFails, memory, disk, history
  <2> QED
    BY <1>1, <2>1 DEF TypeOK
<1>5. CASE Update
  <2>1. /\ UNCHANGED <<mode, file, open, line, job, acked, gone, rewritten, torn>>
        /\ phase = "update" /\ phase' = "append"
    BY <1>5 DEF Update, disk, history
  <2>2. data' \in Maps /\ urlToID' \in [Urls -> Ids \cup {Absent}]
    <3>1. job.rows \in Batches /\ job.rows \in Seq(Row) /\ Adding
      BY <2>1, JobFields DEF Adding
    <3>2. JobIds = {job.rows[i].id : i \in DOMAIN job.rows} /\ JobUrls = {job.rows[i].url : i \in DOMAIN job.rows}
      BY <3>1, JobSets
    <3>3. \A id \in JobIds : NewInfo(job.rows[CHOOSE i \in DOMAIN job.rows : job.rows[i].id = id]) \in UrlInfo
      BY <3>1, <3>2, RowFields
    <3>4. \A url \in JobUrls : job.rows[LastOf(job.rows, url)].id \in Ids
      BY <3>1, <3>2, RowFields, LastOfFacts
    <3>5. \A id \in Ids : data[id] \in UrlInfo \cup {Absent}
      BY DEF TypeOK, Maps
    <3>6. \A url \in Urls : urlToID[url] \in Ids \cup {Absent}
      BY DEF TypeOK
    <3>7. data' \in Maps
      BY <1>5, <3>3, <3>5 DEF Update, Maps
    <3>8. urlToID' \in [Urls -> Ids \cup {Absent}]
      BY <1>5, <3>4, <3>6 DEF Update
    <3> QED
      BY <3>7, <3>8
  <2> QED
    BY <2>1, <2>2 DEF TypeOK
<1>6. CASE WriteRecords
  <2>1. /\ UNCHANGED <<mode, data, urlToID, line, gone, rewritten, torn>> /\ Return
        /\ file' = Appended(job.rows) /\ open' = FALSE
        /\ acked' = acked \cup {job.rows[i] : i \in DOMAIN job.rows}
    BY <1>6 DEF WriteRecords, memory
  <2>2. job.rows \in Seq(Row)
    BY <1>6, JobFields DEF WriteRecords, Adding
  <2>3. job.rows \in Seq(Lines) /\ acked' \subseteq Row
    BY <2>1, <2>2, WholeOutput DEF TypeOK, Output
  <2>4. file' \in Seq(Lines)
    BY <2>1, <2>3, AppendedFacts DEF TypeOK
  <2> QED
    BY <1>1, <2>1, <2>3, <2>4 DEF TypeOK
<1>7. CASE ShortWrite
  <2>1. PICK lines : Output(lines, job.rows) /\ file' = Appended(lines) /\ (open' => lines # <<>>)
                     /\ open' \in BOOLEAN
    BY <1>7, ShortWriteFacts
  <2>2. lines \in Seq(Lines)
    BY <2>1 DEF Output
  <2>3. file' \in Seq(Lines) /\ (open' => file' # <<>>)
    BY <2>1, <2>2, AppendedFacts DEF TypeOK
  <2>4. /\ UNCHANGED <<mode, data, urlToID, line, job, acked, gone, rewritten>>
        /\ torn' = TRUE /\ phase = "append" /\ phase' = "undo"
    BY <1>7 DEF ShortWrite, memory
  <2> QED
    BY <2>1, <2>3, <2>4 DEF TypeOK
<1>8. CASE Undo
  <2>1. Return /\ UNCHANGED <<mode, file, open, line, acked, gone, rewritten, torn>>
    BY <1>8 DEF Undo, disk, history
  <2> QED
    BY <1>8, <2>1, UndoFacts DEF TypeOK, Return, Idle
<1>9. CASE Delete
  <2>1. /\ UNCHANGED <<mode, urlToID, file, open, line, acked, gone, rewritten, torn>>
        /\ mode = "up" /\ phase' = "create"
    BY <1>9 DEF Delete, disk, history
  <2>2. job' # Idle
    BY <1>9, DeleteFacts DEF Idle
  <2> QED
    BY <1>9, <2>1, <2>2, DeleteFacts DEF TypeOK
<1>10. CASE Create
  <2>1. /\ UNCHANGED <<mode, data, urlToID, line, job, acked, gone, torn>>
        /\ file' = <<>> /\ open' = FALSE /\ rewritten' = TRUE /\ phase = "create" /\ phase' = "encode"
    BY <1>10 DEF Create, memory
  <2>2. file' \in Seq(Lines)
    BY <2>1
  <2> QED
    BY <2>1, <2>2 DEF TypeOK
<1>11. CASE Encode
  <2>1. /\ UNCHANGED <<mode, data, urlToID, line, acked, rewritten, torn>> /\ Return
        /\ file' = <<Garbage>> /\ open' = FALSE /\ gone' \subseteq gone \cup Present(data)
    BY <1>11 DEF Encode, memory
  <2>2. Garbage \in Lines
    BY DEF Lines
  <2>3. file' \in Seq(Lines) /\ gone' \subseteq Ids
    BY <2>1, <2>2 DEF TypeOK, Present
  <2> QED
    BY <1>1, <2>1, <2>3 DEF TypeOK
<1>12. CASE EncodeFails
  <2>1. /\ UNCHANGED <<mode, data, urlToID, line, acked, gone, rewritten>> /\ Return /\ torn' = TRUE
        /\ (UNCHANGED <<file, open>> \/ (file' = <<Garbage>> /\ open' \in BOOLEAN))
    BY <1>12 DEF EncodeFails, memory, disk
  <2>2. Garbage \in Lines
    BY DEF Lines
  <2>3. <<Garbage>> \in Seq(Lines) /\ <<Garbage>> # <<>>
    BY <2>2
  <2>4. file' \in Seq(Lines) /\ open' \in BOOLEAN /\ (open' => file' # <<>>)
    <3>1. CASE UNCHANGED <<file, open>>
      BY <3>1 DEF TypeOK
    <3>2. CASE file' = <<Garbage>> /\ open' \in BOOLEAN
      BY <2>3, <3>2
    <3> QED
      BY <2>1, <3>1, <3>2
  <2> QED
    BY <1>1, <2>1, <2>4 DEF TypeOK
<1>13. CASE Crash
  <2>1. NoData \in Maps /\ NoIndex \in [Urls -> Ids \cup {Absent}]
    BY DEF NoData, NoIndex, Maps
  <2> QED
    BY <1>13, <2>1 DEF Crash, Return, TypeOK, Idle, disk, history
<1>14. CASE Start \/ Loaded
  BY <1>14 DEF Start, Loaded, TypeOK, memory, disk, history
<1>15. CASE LoadLine
  <2>1. UNCHANGED <<mode, file, open, job, phase, acked, gone, rewritten, torn>> /\ line' = line + 1
    BY <1>15 DEF LoadLine, disk, history
  <2> QED
    BY <1>15, <2>1, LoadLineFacts DEF TypeOK
<1>16. CASE Refuse
  <2>1. NoData \in Maps /\ NoIndex \in [Urls -> Ids \cup {Absent}]
    BY DEF NoData, NoIndex, Maps
  <2> QED
    BY <1>16, <2>1 DEF Refuse, TypeOK, disk, history
<1>17. CASE UNCHANGED vars
  BY <1>17 DEF vars, memory, disk, history, TypeOK
<1> QED
  BY <1>2, <1>3, <1>4, <1>5, <1>6, <1>7, <1>8, <1>9, <1>10, <1>11, <1>12, <1>13, <1>14, <1>15, <1>16, <1>17
  DEF Next

-----------------------------------------------------------------------------
(* The inductive invariant.                                                *)

(* No id is recorded twice, and none that has been deleted: the ids of the *)
(* rows that are added are fresh, and save leaves no record.               *)
FileInv ==
  /\ \A i, j \in Recorded : file[i].id = file[j].id => i = j
  /\ \A i \in Recorded : file[i].id \notin gone

Intact == \A i \in DOMAIN file : file[i] # Garbage

(* A file that load can read has every acknowledged row, unless save has   *)
(* replaced it; one that no write was cut short on has nothing else.       *)
HistoryInv ==
  /\ ~rewritten /\ ~torn => ~open /\ \A i \in DOMAIN file : file[i] \in acked
  /\ ~rewritten /\ Intact => \A row \in acked : \E i \in DOMAIN file : file[i] = row
  /\ phase = "encode" => rewritten

(* The rows that are being added are new, in memory until Update and in    *)
(* the file until it is written to.                                        *)
AddInv ==
  /\ Adding =>
       /\ Distinct(job.rows)
       /\ \A i \in DOMAIN job.rows :
            job.rows[i].id \notin gone /\ \A row \in acked : row.id # job.rows[i].id
  /\ phase \in {"open", "update"} => \A i \in DOMAIN job.rows : data[job.rows[i].id] = Absent
  /\ phase \in {"open", "update", "append"} =>
       \A i \in DOMAIN job.rows, l \in Recorded : file[l].id # job.rows[i].id
  /\ phase \in {"append", "undo"} =>
       /\ \A i \in DOMAIN job.rows : data[job.rows[i].id] = NewInfo(job.rows[i])
       /\ \A id \in Present(data) \ JobIds : data[id].url \notin JobUrls

(* While the file is rewritten, the marks are in memory. *)
DeleteInv ==
  Deleting => \A i \in DOMAIN job.ids :
                LET info == data[job.ids[i]]
                IN  info # Absent /\ info.user = job.user => info.deleted

(* load has put every line it has read in the maps, and nothing else. *)
LoadInv ==
  /\ mode \in {"down", "refused"} => data = NoData /\ urlToID = NoIndex
  /\ mode = "loading" =>
       /\ line <= Len(file) + 1
       /\ \A i \in 1..(line - 1) : file[i] # Garbage /\ data[file[i].id] = NewInfo(file[i])
       /\ \A id \in Present(data) : \E i \in 1..(line - 1) : file[i].id = id

RowOf(id) == [id |-> id, url |-> data[id].url, user |-> data[id].user]

(* The rows that are in memory but not, or not to stay, in the file. *)
Unwritten == IF phase \in {"append", "undo"} THEN JobIds ELSE {}

(* FileMirrorsMemory says nothing during a call; this does. *)
MirrorInv ==
  mode = "up" /\ ~rewritten /\ ~torn =>
    {file[i] : i \in DOMAIN file} = {RowOf(id) : id \in Present(data) \ Unwritten}

Inv ==
  /\ TypeOK
  /\ FileInv /\ HistoryInv
  /\ AddInv /\ DeleteInv
  /\ LoadInv /\ IndexAgrees /\ AckedRowsServed /\ GoneStaysGone
  /\ MirrorInv /\ RefusedForCause

-----------------------------------------------------------------------------
(* The steps, for the file and its history.                                *)

(* Lines appended on behalf of an Add. *)
LEMMA AppendStep ==
  ASSUME TypeOK, FileInv, AddInv, phase = "append", NEW lines, Output(lines, job.rows),
         file' = Appended(lines), UNCHANGED gone
  PROVE  FileInv'
<1>1. job.rows \in Seq(Row) /\ Distinct(job.rows)
      /\ \A k \in DOMAIN job.rows : job.rows[k].id \notin gone /\ \A l \in Recorded : file[l].id # job.rows[k].id
  BY JobFields DEF AddInv, Adding
<1>2. PICK before : before = IF open THEN Len(file) - 1 ELSE Len(file)
  OBVIOUS
<1>3. \A i \in DOMAIN file' :
        \/ file'[i] = Garbage
        \/ i \in DOMAIN file /\ file'[i] = file[i]
        \/ \E k \in DOMAIN lines : i = before + k /\ file'[i] = lines[k]
  BY <1>2, AppendedFacts DEF Output, TypeOK
<1>4. \A i \in Recorded' :
        \/ i \in Recorded /\ file'[i] = file[i]
        \/ \E k \in DOMAIN job.rows : i = before + k /\ file'[i] = job.rows[k]
  BY <1>3 DEF Recorded, Output
<1>5. ASSUME NEW i \in Recorded', NEW j \in Recorded', file'[i].id = file'[j].id
      PROVE  i = j
  <2>1. CASE i \in Recorded /\ file'[i] = file[i]
    <3>1. j \in Recorded /\ file'[j] = file[j]
      BY <1>1, <1>4, <1>5, <2>1
    <3> QED
      BY <1>5, <2>1, <3>1 DEF FileInv
  <2>2. CASE \E k \in DOMAIN job.rows : i = before + k /\ file'[i] = job.rows[k]
    <3>1. PICK k \in DOMAIN job.rows : i = before + k /\ file'[i] = job.rows[k]
      BY <2>2
    <3>2. PICK m \in DOMAIN job.rows : j = before + m /\ file'[j] = job.rows[m]
      BY <1>1, <1>4, <1>5, <3>1
    <3>3. k = m
      BY <1>1, <1>5, <3>1, <3>2 DEF Distinct
    <3> QED
      BY <3>1, <3>2, <3>3
  <2> QED
    BY <1>4, <2>1, <2>2
<1>6. \A i \in Recorded' : file'[i].id \notin gone'
  BY <1>1, <1>4 DEF FileInv
<1> QED
  BY <1>5, <1>6 DEF FileInv

(* If the file is still readable after an append, the last line was not    *)
(* open and nothing has been lost.                                         *)
LEMMA AppendKeeps ==
  ASSUME TypeOK, NEW lines \in Seq(Lines), file' = Appended(lines), Intact'
  PROVE  /\ Intact
         /\ \A i \in DOMAIN file : i \in DOMAIN file' /\ file'[i] = file[i]
         /\ \A k \in DOMAIN lines : \E i \in DOMAIN file' : file'[i] = lines[k]
<1>1. ~open \/ lines = <<>>
  BY AppendedFacts DEF TypeOK, Intact
<1>2. file' = file \o lines /\ file \in Seq(Lines)
  BY <1>1, AppendedFacts DEF TypeOK
<1>3. /\ Len(file \o lines) = Len(file) + Len(lines) /\ file \o lines \in Seq(Lines)
      /\ \A i \in 1..(Len(file) + Len(lines)) :
           (file \o lines)[i] = IF i <= Len(file) THEN file[i] ELSE lines[i - Len(file)]
  BY <1>2, ConcatProperties
<1>4. PICK n, m : n = Len(file) /\ m = Len(lines)
  OBVIOUS
<1>5. n \in Nat /\ m \in Nat /\ DOMAIN file = 1..n /\ DOMAIN lines = 1..m /\ DOMAIN file' = 1..(n + m)
  BY <1>2, <1>3, <1>4
<1>6. \A i \in 1..(n + m) : file'[i] = IF i <= n THEN file[i] ELSE lines[i - n]
  BY <1>2, <1>3, <1>4
<1>7. \A i \in DOMAIN file : i \in DOMAIN file' /\ file'[i] = file[i]
  BY <1>5, <1>6
<1>8. ASSUME NEW k \in DOMAIN lines PROVE \E i \in DOMAIN file' : file'[i] = lines[k]
  <2>1. n + k \in DOMAIN file' /\ ~(n + k <= n) /\ (n + k) - n = k
    BY <1>5
  <2> QED
    BY <1>5, <1>6, <2>1
<1>9. Intact
  BY <1>7 DEF Intact
<1> QED
  BY <1>7, <1>8, <1>9

LEMMA DiskUntouched ==
  ASSUME FileInv, HistoryInv, UNCHANGED <<file, open, acked, gone, rewritten, torn>>,
         phase' = "encode" => phase = "encode"
  PROVE  FileInv' /\ HistoryInv'
BY DEF FileInv, HistoryInv, Recorded, Intact

LEMMA WriteRecordsDisk ==
  ASSUME TypeOK, FileInv, HistoryInv, AddInv, WriteRecords
  PROVE  FileInv' /\ HistoryInv'
<1>1. /\ phase = "append" /\ phase' = "idle" /\ file' = Appended(job.rows) /\ open' = FALSE
      /\ acked' = acked \cup {job.rows[i] : i \in DOMAIN job.rows}
      /\ UNCHANGED <<gone, rewritten, torn>>
  BY DEF WriteRecords, Return
<1>2. job.rows \in Seq(Row) /\ Output(job.rows, job.rows) /\ job.rows \in Seq(Lines)
  BY <1>1, JobFields, WholeOutput DEF Adding, Output
<1>3. FileInv'
  BY <1>1, <1>2, AppendStep
<1>4. ASSUME ~rewritten, ~torn, NEW i \in DOMAIN file' PROVE file'[i] \in acked'
  <2>1. ~open /\ \A l \in DOMAIN file : file[l] \in acked
    BY <1>4 DEF HistoryInv
  <2>2. PICK n, m : n = Len(file) /\ m = Len(job.rows)
    OBVIOUS
  <2>3. file' = file \o job.rows /\ file \in Seq(Lines)
    BY <1>1, <1>2, <2>1, AppendedFacts DEF TypeOK
  <2>4. /\ Len(file') = n + m /\ file' \in Seq(Lines)
        /\ \A l \in 1..(n + m) : file'[l] = IF l <= n THEN file[l] ELSE job.rows[l - n]
    BY <1>2, <2>2, <2>3, ConcatProperties
  <2>5. n \in Nat /\ m \in Nat /\ DOMAIN file = 1..n /\ DOMAIN job.rows = 1..m /\ DOMAIN file' = 1..(n + m)
    BY <1>2, <2>2, <2>3, <2>4
  <2>6. CASE i <= n
    BY <1>1, <1>4, <2>1, <2>4, <2>5, <2>6
  <2>7. CASE i > n
    <3>1. i - n \in DOMAIN job.rows /\ file'[i] = job.rows[i - n]
      BY <1>4, <2>4, <2>5, <2>7
    <3> QED
      BY <1>1, <3>1
  <2> QED
    BY <1>4, <2>5, <2>6, <2>7
<1>5. ASSUME ~rewritten, Intact', NEW row \in acked' PROVE \E i \in DOMAIN file' : file'[i] = row
  <2>1. /\ Intact
        /\ \A i \in DOMAIN file : i \in DOMAIN file' /\ file'[i] = file[i]
        /\ \A k \in DOMAIN job.rows : \E i \in DOMAIN file' : file'[i] = job.rows[k]
    BY <1>1, <1>2, <1>5, AppendKeeps
  <2>2. row \in acked \/ \E k \in DOMAIN job.rows : row = job.rows[k]
    BY <1>1
  <2> QED
    BY <1>5, <2>1, <2>2 DEF HistoryInv
<1>6. HistoryInv'
  BY <1>1, <1>4, <1>5 DEF HistoryInv
<1> QED
  BY <1>3, <1>6

LEMMA ShortWriteDisk ==
  ASSUME TypeOK, FileInv, HistoryInv, AddInv, ShortWrite
  PROVE  FileInv' /\ HistoryInv'
<1>1. PICK lines : Output(lines, job.rows) /\ file' = Appended(lines)
  BY ShortWriteFacts
<1>2. phase = "append" /\ phase' = "undo" /\ torn' = TRUE /\ UNCHANGED <<acked, gone, rewritten>>
  BY DEF ShortWrite
<1>3. FileInv'
  BY <1>1, <1>2, AppendStep
<1>4. ASSUME ~rewritten, Intact', NEW row \in acked PROVE \E i \in DOMAIN file' : file'[i] = row
  <2>1. Intact /\ \A i \in DOMAIN file : i \in DOMAIN file' /\ file'[i] = file[i]
    BY <1>1, <1>4, AppendKeeps DEF Output
  <2> QED
    BY <1>4, <2>1 DEF HistoryInv
<1> QED
  BY <1>2, <1>3, <1>4 DEF HistoryInv

LEMMA DiskStep ==
  ASSUME TypeOK, FileInv, HistoryInv, AddInv, [Next]_vars
  PROVE  FileInv' /\ HistoryInv'
<1>1. CASE Create
  <2>1. file' = <<>> /\ rewritten' = TRUE /\ UNCHANGED gone
    BY <1>1 DEF Create
  <2> QED
    BY <2>1 DEF FileInv, HistoryInv, Recorded
<1>2. CASE Encode
  <2>1. file' = <<Garbage>> /\ phase = "encode" /\ UNCHANGED rewritten
    BY <1>2 DEF Encode
  <2>2. Recorded' = {}
    BY <2>1 DEF Recorded
  <2> QED
    BY <2>1, <2>2 DEF FileInv, HistoryInv
<1>3. CASE EncodeFails
  <2>1. /\ UNCHANGED file \/ file' = <<Garbage>>
        /\ phase = "encode" /\ UNCHANGED <<rewritten, gone>>
    BY <1>3 DEF EncodeFails, disk
  <2>2. CASE UNCHANGED file
    BY <2>1, <2>2 DEF FileInv, HistoryInv, Recorded
  <2>3. CASE file' = <<Garbage>>
    <3>1. Recorded' = {}
      BY <2>3 DEF Recorded
    <3> QED
      BY <2>1, <3>1 DEF FileInv, HistoryInv
  <2> QED
    BY <2>1, <2>2, <2>3
<1>4. CASE Add \/ OpenFirst \/ OpenFirstFails \/ Duplicate \/ Update \/ OpenFails \/ Undo \/ Delete \/ CreateFails
           \/ Crash \/ Start \/ LoadLine \/ Refuse \/ Loaded \/ UNCHANGED vars
  <2>1. UNCHANGED <<file, open, acked, gone, rewritten, torn>> /\ (phase' = "encode" => phase = "encode")
    BY <1>4 DEF Add, OpenFirst, OpenFirstFails, Duplicate, Update, OpenFails, Undo, Delete, CreateFails,
                Crash, Start, LoadLine, Refuse, Loaded, vars, Return, disk, history
  <2> QED
    BY <2>1, DiskUntouched
<1> QED
  BY <1>1, <1>2, <1>3, <1>4, WriteRecordsDisk, ShortWriteDisk DEF Next

-----------------------------------------------------------------------------
(* The steps, for the call in progress.                                    *)

LEMMA JobUpdate ==
  ASSUME TypeOK, AddInv, IndexAgrees, Update
  PROVE  AddInv'
<1>1. /\ phase = "update" /\ phase' = "append" /\ Adding
      /\ UNCHANGED <<file, job, acked, gone>>
  BY DEF Update, Adding, disk, history
<1>2. /\ Distinct(job.rows)
      /\ \A k \in DOMAIN job.rows : job.rows[k].id \notin gone /\ \A row \in acked : row.id # job.rows[k].id
      /\ \A k \in DOMAIN job.rows, l \in Recorded : file[l].id # job.rows[k].id
  BY <1>1 DEF AddInv
<1>3. /\ \A k \in DOMAIN job.rows : data'[job.rows[k].id] = NewInfo(job.rows[k])
      /\ \A id \in Ids \ JobIds : data'[id] = data[id]
  BY <1>2, UpdateFacts
<1>4. \A url \in JobUrls : urlToID[url] = Absent
  BY DEF Update
<1>5. JobIds' = JobIds /\ JobUrls' = JobUrls /\ Recorded' = Recorded
  BY <1>1 DEF JobIds, JobUrls, Recorded
<1>6. \A id \in Present(data)' \ JobIds : id \in Present(data) /\ data'[id] = data[id]
  BY <1>3 DEF Present
<1>7. \A id \in Present(data)' \ JobIds : data'[id].url \notin JobUrls
  BY <1>4, <1>6 DEF IndexAgrees
<1> QED
  BY <1>1, <1>2, <1>3, <1>5, <1>7 DEF AddInv, Adding

LEMMA JobDelete ==
  ASSUME TypeOK, Delete
  PROVE  DeleteInv'
<1>1. /\ job'.ids \in DeleteLists
      /\ \A id \in Ids : data'[id] = IF \E i \in DOMAIN job'.ids : job'.ids[i] = id
                                     THEN Marked(data[id], job'.user) ELSE data[id]
  BY DeleteFacts
<1>2. ASSUME NEW i \in DOMAIN job'.ids, data'[job'.ids[i]] # Absent, data'[job'.ids[i]].user = job'.user
      PROVE  data'[job'.ids[i]].deleted
  <2>1. PICK info : info = data[job'.ids[i]]
    OBVIOUS
  <2>2. job'.ids[i] \in Ids /\ info \in UrlInfo \cup {Absent}
    BY <1>1, <2>1, DeletedIds DEF TypeOK, Maps
  <2>3. data'[job'.ids[i]] = Marked(info, job'.user)
    BY <1>1, <2>1, <2>2
  <2>4. info # Absent /\ info.user = job'.user
    BY <1>2, <2>2, <2>3, MarkedFacts
  <2>5. info \in UrlInfo /\ Marked(info, job'.user) = [info EXCEPT !.deleted = TRUE]
    BY <2>2, <2>4 DEF Marked
  <2>6. Marked(info, job'.user).deleted = TRUE
    BY <2>5 DEF UrlInfo
  <2> QED
    BY <2>3, <2>6
<1> QED
  BY <1>2 DEF DeleteInv

LEMMA JobStep ==
  ASSUME TypeOK, FileInv, AddInv, DeleteInv, IndexAgrees, [Next]_vars
  PROVE  AddInv' /\ DeleteInv'
<1>1. ASSUME phase' = "idle" PROVE AddInv' /\ DeleteInv'
  BY <1>1 DEF AddInv, DeleteInv, Adding, Deleting
<1>2. CASE Add
  <2>1. PICK rows \in Batches : Fresh(rows) /\ job'.rows = rows
    BY <1>2 DEF Add
  <2>2. phase' \in {"open", "update"} /\ UNCHANGED <<data, file, acked, gone>>
    BY <1>2 DEF Add, memory, disk, history
  <2>3. /\ Distinct(rows)
        /\ \A i \in DOMAIN rows : data[rows[i].id] = Absent /\ rows[i].id \notin gone
        /\ \A i \in DOMAIN rows : \A row \in acked : row.id # rows[i].id
        /\ \A i \in DOMAIN rows, l \in Recorded : file[l].id # rows[i].id
    BY <2>1 DEF Fresh, Distinct
  <2>4. Recorded' = Recorded
    BY <2>2 DEF Recorded
  <2>5. AddInv'
    BY <2>1, <2>2, <2>3, <2>4 DEF AddInv
  <2> QED
    BY <2>2, <2>5 DEF DeleteInv, Deleting
<1>3. CASE OpenFirst \/ OpenFails
  <2>1. /\ UNCHANGED <<data, file, job, acked, gone>>
        /\ (phase = "open" /\ phase' = "update") \/ (phase = "append" /\ phase' = "undo")
    BY <1>3 DEF OpenFirst, OpenFails, memory, disk, history
  <2>2. Recorded' = Recorded /\ JobIds' = JobIds /\ JobUrls' = JobUrls /\ Present(data)' = Present(data)
    BY <2>1 DEF Recorded, JobIds, JobUrls, Present
  <2>3. AddInv'
    BY <2>1, <2>2 DEF AddInv, Adding
  <2> QED
    BY <2>1, <2>3 DEF DeleteInv, Deleting
<1>4. CASE Update
  <2>1. phase' = "append"
    BY <1>4 DEF Update
  <2> QED
    BY <1>4, <2>1, JobUpdate DEF DeleteInv, Deleting
<1>5. CASE ShortWrite
  <2>1. phase = "append" /\ phase' = "undo" /\ UNCHANGED <<data, job, acked, gone>>
    BY <1>5 DEF ShortWrite, memory
  <2>2. JobIds' = JobIds /\ JobUrls' = JobUrls /\ Present(data)' = Present(data)
    BY <2>1 DEF JobIds, JobUrls, Present
  <2>3. AddInv'
    BY <2>1, <2>2 DEF AddInv, Adding
  <2> QED
    BY <2>1, <2>3 DEF DeleteInv, Deleting
<1>6. CASE Delete
  <2>1. phase' = "create"
    BY <1>6 DEF Delete
  <2> QED
    BY <1>6, <2>1, JobDelete DEF AddInv, Adding
<1>7. CASE Create
  <2>1. phase = "create" /\ phase' = "encode" /\ UNCHANGED <<data, job>>
    BY <1>7 DEF Create, memory
  <2> QED
    BY <2>1 DEF AddInv, DeleteInv, Adding, Deleting
<1>8. CASE OpenFirstFails \/ Duplicate \/ WriteRecords \/ Undo \/ CreateFails \/ Encode \/ EncodeFails \/ Crash
  BY <1>1, <1>8 DEF OpenFirstFails, Duplicate, WriteRecords, Undo, CreateFails, Encode, EncodeFails, Crash, Return
<1>9. CASE Start \/ LoadLine \/ Refuse \/ Loaded
  <2>1. mode # "up" /\ UNCHANGED phase
    BY <1>9 DEF Start, LoadLine, Refuse, Loaded
  <2> QED
    BY <1>1, <2>1 DEF TypeOK
<1>10. CASE UNCHANGED vars
  <2>1. UNCHANGED <<phase, job, data, file, acked, gone>>
    BY <1>10 DEF vars, memory, disk, history
  <2>2. Recorded' = Recorded /\ JobIds' = JobIds /\ JobUrls' = JobUrls /\ Present(data)' = Present(data)
    BY <2>1 DEF Recorded, JobIds, JobUrls, Present
  <2> QED
    BY <2>1, <2>2 DEF AddInv, DeleteInv, Adding, Deleting
<1> QED
  BY <1>2, <1>3, <1>4, <1>5, <1>6, <1>7, <1>8, <1>9, <1>10 DEF Next

-----------------------------------------------------------------------------
(* The steps, for the maps.                                                *)

LEMMA IndexUpdate ==
  ASSUME TypeOK, AddInv, IndexAgrees, Update
  PROVE  IndexAgrees'
<1>1. /\ Adding /\ Distinct(job.rows) /\ job.rows \in Batches /\ data \in Maps
      /\ \A i \in DOMAIN job.rows : data[job.rows[i].id] = Absent
  BY JobFields DEF Update, Adding, AddInv, TypeOK
<1>2. /\ \A i \in DOMAIN job.rows : data'[job.rows[i].id] = NewInfo(job.rows[i])
      /\ \A id \in Ids \ JobIds : data'[id] = data[id]
      /\ \A url \in JobUrls : \E i \in DOMAIN job.rows :
           job.rows[i].url = url /\ urlToID'[url] = job.rows[i].id
      /\ \A url \in Urls \ JobUrls : urlToID'[url] = urlToID[url]
  BY <1>1, UpdateFacts
<1>3. /\ JobIds = {job.rows[i].id : i \in DOMAIN job.rows} /\ JobIds \subseteq Ids
      /\ JobUrls = {job.rows[i].url : i \in DOMAIN job.rows} /\ JobUrls \subseteq Urls
  BY <1>1, JobSets
<1>4. \A i \in DOMAIN job.rows : /\ NewInfo(job.rows[i]).url = job.rows[i].url
                                 /\ NewInfo(job.rows[i]) # Absent /\ job.rows[i].id # Absent
  BY <1>1, RowFields, TypesAssumption DEF NewInfo
<1>5. ASSUME NEW id \in Present(data)' PROVE urlToID'[data'[id].url] # Absent
  <2>1. CASE id \in JobIds
    <3>1. PICK i \in DOMAIN job.rows : id = job.rows[i].id
      BY <1>3, <2>1
    <3>2. data'[id].url \in JobUrls
      BY <1>2, <1>3, <1>4, <3>1
    <3> QED
      BY <1>2, <1>4, <3>2
  <2>2. CASE id \notin JobIds
    <3>1. id \in Present(data) /\ data'[id] = data[id]
      BY <1>2, <1>5, <2>2 DEF Present
    <3>2. data[id].url \in Urls /\ urlToID[data[id].url] # Absent
      BY <1>1, <3>1 DEF Present, Maps, UrlInfo, IndexAgrees
    <3>3. data[id].url \notin JobUrls
      BY <3>2 DEF Update
    <3> QED
      BY <1>2, <3>1, <3>2, <3>3
  <2> QED
    BY <2>1, <2>2
<1>6. ASSUME NEW url \in Urls, urlToID'[url] # Absent
      PROVE  urlToID'[url] \in Present(data)' /\ data'[urlToID'[url]].url = url
  <2>1. CASE url \in JobUrls
    BY <1>2, <1>3, <1>4, <2>1 DEF Present
  <2>2. CASE url \notin JobUrls
    <3>1. urlToID'[url] = urlToID[url] /\ urlToID[url] \in Present(data) /\ data[urlToID[url]].url = url
      BY <1>2, <1>6, <2>2 DEF IndexAgrees
    <3>2. urlToID[url] \in Ids \ JobIds
      BY <1>1, <1>3, <3>1 DEF Present
    <3> QED
      BY <1>2, <3>1, <3>2 DEF Present
  <2> QED
    BY <2>1, <2>2
<1> QED
  BY <1>5, <1>6 DEF IndexAgrees

LEMMA IndexUndo ==
  ASSUME TypeOK, AddInv, IndexAgrees, Undo
  PROVE  IndexAgrees'
<1>1. /\ Adding /\ phase = "undo" /\ data \in Maps /\ job.rows \in Batches
      /\ \A i \in DOMAIN job.rows : data[job.rows[i].id] = NewInfo(job.rows[i])
      /\ \A id \in Present(data) \ JobIds : data[id].url \notin JobUrls
  BY JobFields DEF Undo, Adding, AddInv, TypeOK
<1>2. /\ JobIds = {job.rows[i].id : i \in DOMAIN job.rows}
      /\ JobUrls = {job.rows[i].url : i \in DOMAIN job.rows}
  BY <1>1, JobSets
<1>3. /\ \A id \in Ids : data'[id] = IF id \in JobIds THEN Absent ELSE data[id]
      /\ \A url \in Urls : urlToID'[url] = IF url \in JobUrls THEN Absent ELSE urlToID[url]
  BY UndoFacts
<1>4. ASSUME NEW id \in JobIds PROVE data[id].url \in JobUrls
  <2>1. PICK i \in DOMAIN job.rows : id = job.rows[i].id
    BY <1>2
  <2>2. data[id] = NewInfo(job.rows[i])
    BY <1>1, <2>1
  <2>3. data[id].url = job.rows[i].url
    BY <2>2, NewInfoFields
  <2> QED
    BY <1>2, <2>3
<1>5. ASSUME NEW id \in Present(data)' PROVE urlToID'[data'[id].url] # Absent
  <2>1. id \in Present(data) \ JobIds /\ data'[id] = data[id]
    BY <1>3, <1>5 DEF Present
  <2>2. data[id].url \in Urls \ JobUrls /\ urlToID[data[id].url] # Absent
    BY <1>1, <2>1 DEF Present, Maps, UrlInfo, IndexAgrees
  <2> QED
    BY <1>3, <2>1, <2>2
<1>6. ASSUME NEW url \in Urls, urlToID'[url] # Absent
      PROVE  urlToID'[url] \in Present(data)' /\ data'[urlToID'[url]].url = url
  <2>1. /\ url \notin JobUrls /\ urlToID'[url] = urlToID[url]
        /\ urlToID[url] \in Present(data) /\ data[urlToID[url]].url = url
    BY <1>3, <1>6 DEF IndexAgrees
  <2>2. urlToID[url] \notin JobIds
    BY <1>4, <2>1
  <2> QED
    BY <1>3, <2>1, <2>2 DEF Present
<1> QED
  BY <1>5, <1>6 DEF IndexAgrees

(* Marks change neither the presence nor the contents of an entry. *)
LEMMA DeleteKeeps ==
  ASSUME TypeOK, Delete
  PROVE  /\ Present(data)' = Present(data)
         /\ \A id \in Present(data) : /\ data'[id].url = data[id].url /\ data'[id].user = data[id].user
                                      /\ data[id].deleted => data'[id].deleted
<1>1. \A id \in Ids : data'[id] = data[id] \/ data'[id] = Marked(data[id], job'.user)
  BY DeleteFacts
<1>2. \A id \in Ids : data[id] \in UrlInfo \cup {Absent}
  BY DEF TypeOK, Maps
<1>3. \A id \in Ids : /\ data'[id] = Absent <=> data[id] = Absent
                      /\ data[id] # Absent => /\ data'[id].url = data[id].url /\ data'[id].user = data[id].user
                                              /\ data[id].deleted => data'[id].deleted
  BY <1>1, <1>2, MarkedFacts
<1> QED
  BY <1>3 DEF Present

LEMMA IndexLoadLine ==
  ASSUME TypeOK, FileInv, LoadInv, IndexAgrees, LoadLine
  PROVE  IndexAgrees'
<1>1. /\ mode = "loading" /\ line \in DOMAIN file /\ line \in Recorded /\ data \in Maps
      /\ \A id \in Present(data) : \E i \in 1..(line - 1) : file[i].id = id /\ i \in Recorded
  <2>1. /\ mode = "loading" /\ line \in DOMAIN file /\ file[line] # Garbage
    BY LoadLineFacts DEF LoadLine
  <2>2. \A i \in 1..(line - 1) : i \in DOMAIN file
    BY <2>1 DEF TypeOK
  <2> QED
    BY <2>1, <2>2 DEF LoadInv, Recorded, TypeOK
<1>2. file[line].id \notin Present(data)
  <2>1. \A i \in 1..(line - 1) : i # line
    BY DEF TypeOK
  <2> QED
    BY <1>1, <2>1 DEF FileInv
<1>3. PICK row : row = file[line]
  OBVIOUS
<1>4. /\ row.id \in Ids /\ row.url \in Urls
      /\ data'[row.id] = NewInfo(row) /\ NewInfo(row) # Absent /\ urlToID'[row.url] = row.id
      /\ \A id \in Ids : id # row.id => data'[id] = data[id]
      /\ \A url \in Urls : url # row.url => urlToID'[url] = urlToID[url]
  BY <1>3, LoadLineFacts
<1>5. NewInfo(row).url = row.url /\ row.id # Absent
  BY <1>4, TypesAssumption DEF NewInfo
<1>6. ASSUME NEW id \in Present(data)' PROVE urlToID'[data'[id].url] # Absent
  <2>1. CASE id = row.id
    BY <1>4, <1>5, <2>1
  <2>2. CASE id # row.id
    <3>1. id \in Present(data) /\ data'[id] = data[id] /\ data[id].url \in Urls
      BY <1>1, <1>4, <1>6, <2>2 DEF Present, Maps, UrlInfo
    <3> QED
      BY <1>4, <1>5, <3>1 DEF IndexAgrees
  <2> QED
    BY <2>1, <2>2
<1>7. ASSUME NEW url \in Urls, urlToID'[url] # Absent
      PROVE  urlToID'[url] \in Present(data)' /\ data'[urlToID'[url]].url = url
  <2>1. CASE url = row.url
    BY <1>4, <1>5, <2>1 DEF Present
  <2>2. CASE url # row.url
    <3>1. urlToID'[url] = urlToID[url] /\ urlToID[url] \in Present(data) /\ data[urlToID[url]].url = url
      BY <1>4, <1>7, <2>2 DEF IndexAgrees
    <3>2. urlToID[url] # row.id /\ urlToID[url] \in Ids
      BY <1>2, <1>3, <3>1 DEF Present
    <3> QED
      BY <1>4, <3>1, <3>2 DEF Present
  <2> QED
    BY <2>1, <2>2
<1> QED
  BY <1>6, <1>7 DEF IndexAgrees

LEMMA IndexStep ==
  ASSUME TypeOK, FileInv, AddInv, LoadInv, IndexAgrees, [Next]_vars
  PROVE  IndexAgrees'
<1>1. CASE Delete
  <2>1. UNCHANGED urlToID
    BY <1>1 DEF Delete
  <2> QED
    BY <1>1, <2>1, DeleteKeeps DEF IndexAgrees
<1>2. CASE Crash \/ Refuse
  <2>1. data' = NoData /\ urlToID' = NoIndex
    BY <1>2 DEF Crash, Refuse
  <2> QED
    BY <2>1 DEF NoData, NoIndex, IndexAgrees, Present
<1>3. CASE Add \/ OpenFirst \/ OpenFirstFails \/ Duplicate \/ WriteRecords \/ OpenFails \/ ShortWrite \/ CreateFails
           \/ Create \/ Encode \/ EncodeFails \/ Start \/ Loaded \/ UNCHANGED vars
  <2>1. UNCHANGED <<data, urlToID>>
    BY <1>3 DEF Add, OpenFirst, OpenFirstFails, Duplicate, WriteRecords, OpenFails, ShortWrite, CreateFails,
                Create, Encode, EncodeFails, Start, Loaded, vars, memory
  <2> QED
    BY <2>1 DEF IndexAgrees, Present
<1> QED
  BY <1>1, <1>2, <1>3, IndexUpdate, IndexUndo, IndexLoadLine DEF Next

LEMMA LoadStep ==
  ASSUME TypeOK, FileInv, LoadInv, [Next]_vars
  PROVE  LoadInv'
<1>1. CASE Start
  <2>1. mode' = "loading" /\ line' = 1 /\ data = NoData /\ UNCHANGED <<data, file>>
    BY <1>1 DEF Start, LoadInv, memory, disk
  <2>2. Present(data)' = {} /\ Len(file) \in Nat
    BY <2>1 DEF Present, NoData, TypeOK
  <2> QED
    BY <2>1, <2>2 DEF LoadInv
<1>2. CASE LoadLine
  <2>1. /\ mode' = "loading" /\ line' = line + 1 /\ line \in 1..Len(file) /\ line \in Nat \ {0}
        /\ UNCHANGED file /\ file \in Seq(Lines)
    BY <1>2 DEF LoadLine, TypeOK, disk
  <2>2. /\ \A i \in 1..(line - 1) : file[i] # Garbage /\ data[file[i].id] = NewInfo(file[i])
        /\ \A id \in Present(data) : \E i \in 1..(line - 1) : file[i].id = id
    BY <1>2 DEF LoadLine, LoadInv
  <2>3. /\ file[line].id \in Ids /\ file[line] # Garbage /\ data'[file[line].id] = NewInfo(file[line])
        /\ \A id \in Ids : id # file[line].id => data'[id] = data[id]
    BY <1>2, LoadLineFacts
  <2>4. line \in Recorded /\ \A i \in 1..(line - 1) : i \in Recorded /\ i # line
    BY <2>1, <2>2, <2>3 DEF Recorded
  <2>5. \A i \in 1..(line - 1) : file[i].id \in Ids /\ file[i].id # file[line].id
    <3>1. \A i \in 1..(line - 1) : file[i] \in Row
      BY <2>1, <2>2 DEF Lines
    <3> QED
      BY <2>4, <3>1 DEF FileInv, Row
  <2>6. \A i \in 1..line : i = line \/ i \in 1..(line - 1)
    BY <2>1
  <2>7. \A i \in 1..line : file[i] # Garbage /\ data'[file[i].id] = NewInfo(file[i])
    BY <2>2, <2>3, <2>5, <2>6
  <2>8. \A id \in Present(data)' : \E i \in 1..line : file[i].id = id
    <3>1. \A id \in Present(data)' : id \in Present(data) \/ id = file[line].id
      BY <2>3 DEF Present
    <3>2. line \in 1..line /\ \A i \in 1..(line - 1) : i \in 1..line
      BY <2>1
    <3> QED
      BY <2>2, <3>1, <3>2
  <2>9. line' - 1 = line /\ line' <= Len(file) + 1
    BY <2>1
  <2> QED
    BY <2>1, <2>7, <2>8, <2>9 DEF LoadInv
<1>3. CASE Crash \/ Refuse
  BY <1>3 DEF Crash, Refuse, LoadInv
<1>4. CASE Loaded
  BY <1>4 DEF Loaded, LoadInv
<1>5. CASE Add \/ OpenFirst \/ OpenFirstFails \/ Duplicate \/ Update \/ WriteRecords \/ OpenFails \/ ShortWrite
           \/ Undo \/ Delete \/ CreateFails \/ Create \/ Encode \/ EncodeFails
  <2>1. mode = "up" /\ UNCHANGED mode
    BY <1>5 DEF Add, OpenFirst, OpenFirstFails, Duplicate, Update, WriteRecords, OpenFails, ShortWrite,
                Undo, Delete, CreateFails, Create, Encode, EncodeFails, TypeOK
  <2> QED
    BY <2>1 DEF LoadInv
<1>6. CASE UNCHANGED vars
  BY <1>6 DEF vars, memory, disk, LoadInv, Present
<1> QED
  BY <1>1, <1>2, <1>3, <1>4, <1>5, <1>6 DEF Next

(* When load is through, the file was readable and is in the maps. *)
LEMMA LoadedFacts ==
  ASSUME TypeOK, LoadInv, Loaded
  PROVE  /\ Intact /\ UNCHANGED <<data, file, acked, gone, rewritten, torn, job, phase>>
         /\ \A i \in DOMAIN file : file[i] \in Row /\ data[file[i].id] = NewInfo(file[i])
         /\ \A id \in Present(data) : \E i \in DOMAIN file : file[i].id = id
<1>1. /\ mode = "loading" /\ line \notin DOMAIN file /\ file \in Seq(Lines) /\ line \in Nat \ {0}
      /\ UNCHANGED <<data, file, acked, gone, rewritten, torn, job, phase>>
  BY DEF Loaded, TypeOK, memory, disk, history
<1>2. line <= Len(file) + 1
  BY <1>1 DEF LoadInv
<1>3. DOMAIN file = 1..(line - 1)
  BY <1>1, <1>2
<1>4. /\ \A i \in DOMAIN file : file[i] # Garbage /\ data[file[i].id] = NewInfo(file[i])
      /\ \A id \in Present(data) : \E i \in DOMAIN file : file[i].id = id
  BY <1>1, <1>3 DEF LoadInv
<1>5. \A i \in DOMAIN file : file[i] \in Row
  BY <1>1, <1>4 DEF Lines
<1> QED
  BY <1>1, <1>4, <1>5 DEF Intact

LEMMA AckedStep ==
  ASSUME TypeOK, HistoryInv, AddInv, LoadInv, AckedRowsServed, [Next]_vars
  PROVE  AckedRowsServed'
<1>1. \A row \in acked : row.id \in Ids
  BY DEF TypeOK, Row
<1>2. ASSUME UNCHANGED <<mode, acked, rewritten>>,
             \A row \in acked : row.id \in Present(data) =>
               row.id \in Present(data)' /\ data'[row.id].url = data[row.id].url
                                         /\ data'[row.id].user = data[row.id].user
      PROVE  AckedRowsServed'
  BY <1>2 DEF AckedRowsServed
<1>3. CASE Update \/ Undo
  <2>1. /\ Adding /\ UNCHANGED <<mode, acked, rewritten>> /\ job.rows \in Batches
        /\ JobIds = {job.rows[i].id : i \in DOMAIN job.rows}
    BY <1>3, JobFields, JobSets DEF Update, Undo, Adding, disk, history
  <2>2. \A row \in acked : row.id \notin JobIds
    BY <2>1 DEF AddInv
  <2>3. \A id \in Ids \ JobIds : data'[id] = data[id]
    BY <1>3 DEF Update, Undo
  <2> QED
    BY <1>1, <1>2, <2>1, <2>2, <2>3 DEF Present
<1>4. CASE WriteRecords
  <2>1. /\ UNCHANGED <<mode, data, rewritten>> /\ phase = "append"
        /\ acked' = acked \cup {job.rows[i] : i \in DOMAIN job.rows}
    BY <1>4 DEF WriteRecords, memory
  <2>2. job.rows \in Batches /\ \A i \in DOMAIN job.rows : data[job.rows[i].id] = NewInfo(job.rows[i])
    BY <2>1, JobFields DEF AddInv, Adding
  <2>3. \A i \in DOMAIN job.rows :
          /\ job.rows[i].id \in Present(data)
          /\ data[job.rows[i].id].url = job.rows[i].url /\ data[job.rows[i].id].user = job.rows[i].user
    BY <2>2, RowFields, NewInfoFields DEF Present
  <2>4. Present(data)' = Present(data)
    BY <2>1 DEF Present
  <2> QED
    BY <2>1, <2>3, <2>4 DEF AckedRowsServed
<1>5. CASE Delete
  <2>1. UNCHANGED <<mode, acked, rewritten>>
    BY <1>5 DEF Delete, history
  <2> QED
    BY <1>2, <1>5, <2>1, DeleteKeeps
<1>6. CASE Loaded
  <2>1. /\ Intact /\ UNCHANGED <<data, acked, rewritten>>
        /\ \A i \in DOMAIN file : file[i] \in Row /\ data[file[i].id] = NewInfo(file[i])
    BY <1>6, LoadedFacts
  <2>2. ASSUME ~rewritten, NEW row \in acked
        PROVE  row.id \in Present(data) /\ data[row.id].url = row.url /\ data[row.id].user = row.user
    <3>1. row \in Row /\ data[row.id] = NewInfo(row) /\ row.id \in Ids
      BY <1>1, <2>1, <2>2 DEF HistoryInv
    <3>2. NewInfo(row) \in UrlInfo
      BY <3>1 DEF NewInfo, UrlInfo, Row
    <3>3. NewInfo(row) # Absent /\ NewInfo(row).url = row.url /\ NewInfo(row).user = row.user
      BY <3>2, TypesAssumption DEF NewInfo
    <3> QED
      BY <3>1, <3>3 DEF Present
  <2>3. Present(data)' = Present(data)
    BY <2>1 DEF Present
  <2> QED
    BY <2>1, <2>2, <2>3 DEF AckedRowsServed
<1>7. CASE Create \/ Crash \/ Start \/ LoadLine \/ Refuse
  BY <1>7 DEF Create, Crash, Start, LoadLine, Refuse, AckedRowsServed
<1>8. CASE Add \/ OpenFirst \/ OpenFirstFails \/ Duplicate \/ OpenFails \/ ShortWrite \/ CreateFails
           \/ Encode \/ EncodeFails \/ UNCHANGED vars
  <2>1. UNCHANGED <<mode, acked, rewritten, data>>
    BY <1>8 DEF Add, OpenFirst, OpenFirstFails, Duplicate, OpenFails, ShortWrite, CreateFails, Encode,
                EncodeFails, vars, memory, history
  <2> QED
    BY <1>2, <2>1 DEF Present
<1> QED
  BY <1>3, <1>4, <1>5, <1>6, <1>7, <1>8 DEF Next

LEMMA GoneStep ==
  ASSUME TypeOK, FileInv, AddInv, DeleteInv, LoadInv, GoneStaysGone, [Next]_vars
  PROVE  GoneStaysGone'
<1>1. ASSUME UNCHANGED <<mode, gone>>,
             \A id \in gone : data[id] = Absent \/ data[id].deleted => data'[id] = Absent \/ data'[id].deleted
      PROVE  GoneStaysGone'
  BY <1>1 DEF GoneStaysGone
<1>2. gone \subseteq Ids
  BY DEF TypeOK
<1>3. CASE Update \/ Undo
  <2>1. /\ Adding /\ UNCHANGED <<mode, gone>> /\ JobIds = {job.rows[i].id : i \in DOMAIN job.rows}
    BY <1>3, JobSets DEF Update, Undo, Adding, disk, history
  <2>2. \A id \in gone : id \notin JobIds
    BY <2>1 DEF AddInv
  <2>3. \A id \in Ids \ JobIds : data'[id] = data[id]
    BY <1>3 DEF Update, Undo
  <2> QED
    BY <1>1, <1>2, <2>1, <2>2, <2>3
<1>4. CASE Delete
  <2>1. UNCHANGED <<mode, gone>>
    BY <1>4 DEF Delete, history
  <2>2. \A id \in Ids : data[id] = Absent \/ data[id].deleted => data'[id] = Absent \/ data'[id].deleted
    BY <1>4, DeleteKeeps DEF Present
  <2> QED
    BY <1>1, <1>2, <2>1, <2>2
<1>5. CASE Encode
  <2>1. /\ phase = "encode" /\ UNCHANGED <<mode, data>>
        /\ gone' = gone \cup {id \in Present(data) :
                     data[id].user = job.user /\ \E i \in DOMAIN job.ids : job.ids[i] = id}
    BY <1>5 DEF Encode, memory
  <2>2. \A i \in DOMAIN job.ids : data[job.ids[i]] # Absent /\ data[job.ids[i]].user = job.user
                                  => data[job.ids[i]].deleted
    BY <2>1 DEF DeleteInv, Deleting
  <2> QED
    BY <2>1, <2>2 DEF GoneStaysGone, Present
<1>6. CASE Loaded
  <2>1. /\ Intact /\ UNCHANGED <<data, gone>>
        /\ \A id \in Present(data) : \E i \in DOMAIN file : file[i].id = id
    BY <1>6, LoadedFacts
  <2>2. \A i \in DOMAIN file : file[i].id \notin gone
    BY <2>1 DEF FileInv, Recorded, Intact
  <2> QED
    BY <1>2, <2>1, <2>2 DEF GoneStaysGone, Present
<1>7. CASE Crash \/ Start \/ LoadLine \/ Refuse
  BY <1>7 DEF Crash, Start, LoadLine, Refuse, GoneStaysGone
<1>8. CASE Add \/ OpenFirst \/ OpenFirstFails \/ Duplicate \/ WriteRecords \/ OpenFails \/ ShortWrite \/ CreateFails
           \/ Create \/ EncodeFails \/ UNCHANGED vars
  <2>1. UNCHANGED <<mode, gone, data>>
    BY <1>8 DEF Add, OpenFirst, OpenFirstFails, Duplicate, WriteRecords, OpenFails, ShortWrite, CreateFails,
                Create, EncodeFails, vars, memory, history
  <2> QED
    BY <1>1, <2>1
<1> QED
  BY <1>3, <1>4, <1>5, <1>6, <1>7, <1>8 DEF Next

-----------------------------------------------------------------------------
(* The steps, for the mirror of the maps in the file.                      *)

LEMMA RowOfFacts ==
  ASSUME NEW row \in Row, data[row.id] = NewInfo(row)
  PROVE  RowOf(row.id) = row
BY NewInfoFields DEF RowOf, Row

LEMMA MirrorKept ==
  ASSUME MirrorInv, UNCHANGED <<mode, rewritten, torn, file>>,
         Present(data)' \ Unwritten' = Present(data) \ Unwritten,
         \A id \in Present(data) \ Unwritten : RowOf(id)' = RowOf(id)
  PROVE  MirrorInv'
<1>1. {RowOf(id)' : id \in Present(data)' \ Unwritten'} = {RowOf(id) : id \in Present(data) \ Unwritten}
  OBVIOUS
<1> QED
  BY <1>1 DEF MirrorInv

LEMMA MirrorWrite ==
  ASSUME TypeOK, HistoryInv, AddInv, MirrorInv, WriteRecords
  PROVE  MirrorInv'
<1> SUFFICES ASSUME mode' = "up", ~rewritten', ~torn'
             PROVE  {file'[i] : i \in DOMAIN file'} = {RowOf(id)' : id \in Present(data)' \ Unwritten'}
  BY DEF MirrorInv
<1>1. /\ UNCHANGED <<mode, data, rewritten, torn>> /\ phase = "append" /\ phase' = "idle"
      /\ file' = Appended(job.rows)
  BY DEF WriteRecords, memory, Return
<1>2. /\ job.rows \in Batches /\ job.rows \in Seq(Row) /\ job.rows \in Seq(Lines)
      /\ JobIds = {job.rows[i].id : i \in DOMAIN job.rows}
      /\ \A i \in DOMAIN job.rows : data[job.rows[i].id] = NewInfo(job.rows[i])
  BY <1>1, JobFields, JobSets, WholeOutput DEF AddInv, Adding, Output
<1>3. {file[i] : i \in DOMAIN file} = {RowOf(id) : id \in Present(data) \ JobIds}
  BY <1>1 DEF MirrorInv, Unwritten
<1>4. {RowOf(id)' : id \in Present(data)' \ Unwritten'} = {RowOf(id) : id \in Present(data)}
  BY <1>1 DEF RowOf, Present, Unwritten
<1>5. \A i \in DOMAIN job.rows : job.rows[i].id \in Present(data) /\ RowOf(job.rows[i].id) = job.rows[i]
  BY <1>2, RowFields, RowOfFacts DEF Present
<1>6. Intact /\ ~open
  BY <1>1, FileAssumption DEF HistoryInv, Intact, TypeOK
<1>7. /\ file' = file \o job.rows /\ file \in Seq(Lines)
  BY <1>1, <1>2, <1>6, AppendedFacts DEF TypeOK
<1>8. PICK n, m : n = Len(file) /\ m = Len(job.rows)
  OBVIOUS
<1>9. /\ n \in Nat /\ m \in Nat /\ DOMAIN file = 1..n /\ DOMAIN job.rows = 1..m /\ DOMAIN file' = 1..(n + m)
      /\ \A l \in 1..(n + m) : file'[l] = IF l <= n THEN file[l] ELSE job.rows[l - n]
  BY <1>2, <1>7, <1>8, ConcatProperties
<1>10. ASSUME NEW i \in DOMAIN file' PROVE file'[i] \in {RowOf(id) : id \in Present(data)}
  <2>1. CASE i <= n
    <3>1. file'[i] \in {file[l] : l \in DOMAIN file}
      BY <1>9, <1>10, <2>1
    <3> QED
      BY <1>3, <3>1
  <2>2. CASE i > n
    <3>1. i - n \in DOMAIN job.rows /\ file'[i] = job.rows[i - n]
      BY <1>9, <1>10, <2>2
    <3> QED
      BY <1>5, <3>1
  <2> QED
    BY <1>9, <1>10, <2>1, <2>2
<1>11. ASSUME NEW id \in Present(data) PROVE \E i \in DOMAIN file' : file'[i] = RowOf(id)
  <2>1. CASE id \in JobIds
    <3>1. PICK k \in DOMAIN job.rows : id = job.rows[k].id
      BY <1>2, <2>1
    <3>2. n + k \in DOMAIN file' /\ ~(n + k <= n) /\ (n + k) - n = k
      BY <1>9, <3>1
    <3> QED
      BY <1>5, <1>9, <3>1, <3>2
  <2>2. CASE id \notin JobIds
    <3>1. RowOf(id) \in {file[l] : l \in DOMAIN file}
      BY <1>3, <1>11, <2>2
    <3> QED
      BY <1>9, <3>1
  <2> QED
    BY <2>1, <2>2
<1> QED
  BY <1>4, <1>10, <1>11

LEMMA MirrorLoaded ==
  ASSUME TypeOK, LoadInv, Loaded
  PROVE  MirrorInv'
<1>1. /\ UNCHANGED <<data, file, phase>> /\ mode = "loading"
      /\ \A i \in DOMAIN file : file[i] \in Row /\ data[file[i].id] = NewInfo(file[i])
      /\ \A id \in Present(data) : \E i \in DOMAIN file : file[i].id = id
  BY LoadedFacts DEF Loaded
<1>2. Unwritten' = {}
  BY <1>1 DEF TypeOK, Unwritten
<1>3. {RowOf(id)' : id \in Present(data)' \ Unwritten'} = {RowOf(id) : id \in Present(data)}
  BY <1>1, <1>2 DEF RowOf, Present
<1>4. ASSUME NEW i \in DOMAIN file PROVE file[i].id \in Present(data) /\ RowOf(file[i].id) = file[i]
  <2>1. PICK row \in Row : row = file[i]
    BY <1>1
  <2>2. data[row.id] = NewInfo(row)
    BY <1>1, <2>1
  <2>3. NewInfo(row) \in UrlInfo /\ row.id \in Ids
    BY DEF NewInfo, UrlInfo, Row
  <2>4. NewInfo(row) # Absent
    BY <2>3, TypesAssumption
  <2> QED
    BY <2>1, <2>2, <2>3, <2>4, RowOfFacts DEF Present
<1>5. {file[i] : i \in DOMAIN file} = {RowOf(id) : id \in Present(data)}
  BY <1>1, <1>4
<1> QED
  BY <1>1, <1>3, <1>5 DEF MirrorInv

LEMMA MirrorStep ==
  ASSUME TypeOK, HistoryInv, AddInv, LoadInv, MirrorInv, [Next]_vars
  PROVE  MirrorInv'
<1>1. CASE Add \/ OpenFirst \/ OpenFirstFails \/ Duplicate \/ OpenFails \/ CreateFails \/ UNCHANGED vars
  <2>1. UNCHANGED <<mode, rewritten, torn, file, data>>
    BY <1>1 DEF Add, OpenFirst, OpenFirstFails, Duplicate, OpenFails, CreateFails, vars, memory, disk, history
  <2>2. /\ phase \in {"append", "undo"} <=> phase' \in {"append", "undo"}
        /\ phase \in {"append", "undo"} => UNCHANGED job
    BY <1>1 DEF Add, OpenFirst, OpenFirstFails, Duplicate, OpenFails, CreateFails, vars, Return
  <2>3. Unwritten' = Unwritten
    BY <2>2 DEF Unwritten, JobIds
  <2>4. Present(data)' = Present(data) /\ \A id : RowOf(id)' = RowOf(id)
    BY <2>1 DEF Present, RowOf
  <2> QED
    BY <2>1, <2>3, <2>4, MirrorKept
<1>2. CASE Update
  <2>1. /\ phase = "update" /\ phase' = "append" /\ Adding
        /\ UNCHANGED <<mode, rewritten, torn, file, job>>
    BY <1>2 DEF Update, Adding, disk, history
  <2>2. Unwritten = {} /\ Unwritten' = JobIds
    BY <2>1 DEF Unwritten, JobIds
  <2>3. /\ JobIds = {job.rows[i].id : i \in DOMAIN job.rows}
        /\ \A i \in DOMAIN job.rows : data[job.rows[i].id] = Absent
    BY <2>1, JobSets DEF AddInv
  <2>4. \A id \in Ids \ JobIds : data'[id] = data[id]
    BY <1>2 DEF Update
  <2>5. Present(data)' \ JobIds = Present(data) /\ \A id \in Present(data) : RowOf(id)' = RowOf(id)
    BY <2>3, <2>4 DEF Present, RowOf
  <2> QED
    BY <2>1, <2>2, <2>5, MirrorKept
<1>3. CASE Undo
  <2>1. /\ phase = "undo" /\ phase' = "idle" /\ UNCHANGED <<mode, rewritten, torn, file>>
    BY <1>3 DEF Undo, Return, disk, history
  <2>2. Unwritten = JobIds /\ Unwritten' = {}
    BY <2>1 DEF Unwritten
  <2>3. \A id \in Ids : data'[id] = IF id \in JobIds THEN Absent ELSE data[id]
    BY <1>3, UndoFacts
  <2>4. /\ Present(data)' = Present(data) \ JobIds
        /\ \A id \in Present(data) \ JobIds : RowOf(id)' = RowOf(id)
    BY <2>3 DEF Present, RowOf
  <2> QED
    BY <2>1, <2>2, <2>4, MirrorKept
<1>4. CASE Delete
  <2>1. /\ phase = "idle" /\ phase' = "create" /\ UNCHANGED <<mode, rewritten, torn, file>>
    BY <1>4 DEF Delete, disk, history
  <2>2. Unwritten = {} /\ Unwritten' = {}
    BY <2>1 DEF Unwritten
  <2>3. Present(data)' = Present(data) /\ \A id \in Present(data) : RowOf(id)' = RowOf(id)
    BY <1>4, DeleteKeeps DEF RowOf
  <2> QED
    BY <2>1, <2>2, <2>3, MirrorKept
<1>5. CASE ShortWrite \/ Create \/ Encode \/ EncodeFails
  BY <1>5 DEF ShortWrite, Create, Encode, EncodeFails, HistoryInv, MirrorInv
<1>6. CASE Crash \/ Start \/ LoadLine \/ Refuse
  BY <1>6 DEF Crash, Start, LoadLine, Refuse, MirrorInv
<1> QED
  BY <1>1, <1>2, <1>3, <1>4, <1>5, <1>6, MirrorWrite, MirrorLoaded DEF Next

LEMMA RefusedStep ==
  ASSUME TypeOK, HistoryInv, RefusedForCause, [Next]_vars
  PROVE  RefusedForCause'
<1>1. CASE Refuse
  <2>1. /\ line \in DOMAIN file /\ ~Readable(file[line]) /\ UNCHANGED <<acked, rewritten, torn>>
    BY <1>1 DEF Refuse, history
  <2>2. ~rewritten /\ ~torn => file[line] \in acked /\ file[line] # Garbage
    BY <2>1, FileAssumption DEF HistoryInv, TypeOK
  <2> QED
    BY <2>1, <2>2 DEF RefusedForCause, Readable
<1>2. CASE UNCHANGED <<mode, acked, rewritten, torn>>
  BY <1>2 DEF RefusedForCause
<1>3. ASSUME mode' # "refused" PROVE RefusedForCause'
  BY <1>3 DEF RefusedForCause
<1>4. CASE Add \/ OpenFirst \/ OpenFirstFails \/ Duplicate \/ Update \/ WriteRecords \/ OpenFails \/ ShortWrite
           \/ Undo \/ Delete \/ CreateFails \/ Create \/ Encode \/ EncodeFails
  <2>1. mode = "up" /\ UNCHANGED mode
    BY <1>4 DEF Add, OpenFirst, OpenFirstFails, Duplicate, Update, WriteRecords, OpenFails, ShortWrite,
                Undo, Delete, CreateFails, Create, Encode, EncodeFails, TypeOK
  <2> QED
    BY <1>3, <2>1
<1>5. CASE Crash \/ Start \/ LoadLine \/ Loaded
  BY <1>3, <1>5 DEF Crash, Start, LoadLine, Loaded
<1>6. CASE UNCHANGED vars
  BY <1>2, <1>6 DEF vars, history
<1> QED
  BY <1>1, <1>4, <1>5, <1>6 DEF Next

-----------------------------------------------------------------------------
(* The theorems.                                                           *)

LEMMA InvInit == Init => Inv
<1> SUFFICES ASSUME Init PROVE Inv
  OBVIOUS
<1>1. /\ mode = "down" /\ data = NoData /\ urlToID = NoIndex /\ file = <<>> /\ phase = "idle"
      /\ acked = {} /\ gone = {} /\ open = FALSE /\ rewritten = FALSE
  BY DEF Init
<1>2. FileInv /\ HistoryInv
  BY <1>1 DEF FileInv, HistoryInv, Recorded
<1>3. AddInv /\ DeleteInv
  BY <1>1 DEF AddInv, DeleteInv, Adding, Deleting
<1>4. IndexAgrees
  BY <1>1 DEF IndexAgrees, Present, NoData, NoIndex
<1>5. LoadInv /\ AckedRowsServed /\ GoneStaysGone /\ MirrorInv /\ RefusedForCause
  BY <1>1 DEF LoadInv, AckedRowsServed, GoneStaysGone, MirrorInv, RefusedForCause
<1> QED
  BY <1>2, <1>3, <1>4, <1>5, TypeInit DEF Inv

LEMMA InvStep == Inv /\ [Next]_vars => Inv'
BY TypeStep, DiskStep, JobStep, LoadStep, IndexStep, AckedStep, GoneStep, MirrorStep, RefusedStep DEF Inv

LEMMA Invariance == Spec => []Inv
BY InvInit, InvStep, PTL DEF Spec

(* Every call is at a file operation that it has, in a process that is up. *)
THEOREM TypeCorrect == Spec => []TypeOK
<1>1. Inv => TypeOK
  BY DEF Inv
<1> QED
  BY <1>1, Invariance, PTL

(* The two maps never disagree: not in a batch that repeats URLs, not      *)
(* after a failed write has been undone, not while the file is loaded.     *)
THEOREM MapsAgree == Spec => []IndexAgrees
<1>1. Inv => IndexAgrees
  BY DEF Inv
<1> QED
  BY <1>1, Invariance, PTL

(* Until the first DeleteBatch no crash, no failed write and no restart    *)
(* loses a row whose Add or AddBatch has returned nil.                     *)
THEOREM NothingAckedIsLost == Spec => []AckedRowsServed
<1>1. Inv => AckedRowsServed
  BY DEF Inv
<1> QED
  BY <1>1, Invariance, PTL

(* Without short writes and deletions the file is the map, between calls.  *)
THEOREM FileIsMirror == Spec => []FileMirrorsMemory
<1>1. Inv => FileMirrorsMemory
  <2> SUFFICES ASSUME Inv, mode = "up", phase = "idle", ~rewritten, ~torn
               PROVE  {file[i] : i \in DOMAIN file}
                        = {[id |-> id, url |-> data[id].url, user |-> data[id].user] : id \in Present(data)}
    BY DEF FileMirrorsMemory
  <2>1. {file[i] : i \in DOMAIN file} = {RowOf(id) : id \in Present(data) \ Unwritten}
    BY DEF Inv, MirrorInv
  <2>2. Present(data) \ Unwritten = Present(data)
    BY DEF Unwritten
  <2> QED
    BY <2>1, <2>2 DEF RowOf
<1> QED
  BY <1>1, Invariance, PTL

(* Appending alone never makes the file unreadable. *)
THEOREM RefusalsHaveACause == Spec => []RefusedForCause
<1>1. Inv => RefusedForCause
  BY DEF Inv
<1> QED
  BY <1>1, Invariance, PTL

(* A deletion that has returned nil is never undone, by no restart. *)
THEOREM DeletionsAreFinal == Spec => []GoneStaysGone
<1>1. Inv => GoneStaysGone
  BY DEF Inv
<1> QED
  BY <1>1, Invariance, PTL
=============================================================================

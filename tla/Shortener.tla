------------------------------ MODULE Shortener ------------------------------
(* The service with its HTTP and gRPC handlers, the deletions they start   *)
(* in the background, and the way main shuts all of it down.  A storage    *)
(* call is one step on a table of rows, which is what UrlStore promises    *)
(* and the storages are shown to implement; GenerateID returns an unused   *)
(* id here (MemStorage and DBStorage also treat collisions).               *)
EXTENDS Integers, Sequences, FiniteSets

CONSTANTS Ids,          \* short ids utils.GenerateID can produce
          Urls,         \* texts that clients submit as URLs, blank ones included
          Empty,        \* the empty text
          Trim,         \* strings.TrimSpace on texts
          TextLists,    \* the original_url fields of POST /api/shorten/batch
          Users,        \* user ids the authentication hands out
          Anonymous,    \* the empty user id
          DeleteLists,  \* bodies of DELETE /api/user/urls
          Absent,       \* no row, nobody
          Http, Grpc,   \* handler goroutines of the two servers
          Limits,       \* values of MAX_PARALLEL_WORKERS
          MaxDeletions  \* bound: deletions accepted in a run

Texts == Urls \cup {Empty}

INSTANCE UrlTypes WITH Users <- Users \cup {Anonymous}, Batches <- {}

ASSUME ShortenerAssumption ==
  /\ IsFiniteSet(Ids)
  /\ Empty \notin Urls /\ Anonymous \notin Users
  /\ Absent \notin Ids \cup Users \cup UrlInfo
  /\ Trim \in [Texts -> Texts] /\ Trim[Empty] = Empty
  /\ \A text \in Texts : Trim[Trim[text]] = Trim[text]
  /\ TextLists \subseteq Seq(Texts) /\ DeleteLists \subseteq Seq(Ids)
  /\ Http \cap Grpc = {}
  /\ Limits \subseteq Nat /\ MaxDeletions \in Nat

VARIABLES rows,     \* the storage
          creator,  \* history: the user whose request created an id
          told,     \* history: the URLs an id was handed out for
          jobs,     \* the goroutines started by DELETE /api/user/urls, in order
          wg,       \* counter of Handler.waitGroup
          slots,    \* Handler.maxParallelWorkers
          stage,    \* what each handler goroutine is doing
          main,     \* what the main goroutine is doing
          gaveUp    \* the waits of the shutdown that timed out

vars == <<rows, creator, told, jobs, wg, slots, stage, main, gaveUp>>

Handlers == Http \cup Grpc
Stages == {"idle", "received", "hung", "answered", "notify"}
MainStages == {"serving", "http", "background", "grpc", "audit", "exited", "crashed"}
JobPhases == {"waiting", "running", "done", "failed"}
Job == [user: Users, ids: DeleteLists, phase: JobPhases]

TypeOK ==
  /\ rows \in Maps
  /\ creator \in [Ids -> Users \cup {Absent}]
  /\ told \in [Ids -> SUBSET Texts]
  /\ jobs \in Seq(Job) /\ Len(jobs) <= MaxDeletions
  /\ wg \in Nat
  /\ slots \in Limits
  /\ stage \in [Handlers -> Stages]
  /\ main \in MainStages
  /\ gaveUp \subseteq {"http", "background"}

Init ==
  /\ rows = [id \in Ids |-> Absent]
  /\ creator = [id \in Ids |-> Absent]
  /\ told = [id \in Ids |-> {}]
  /\ jobs = <<>>
  /\ wg = 0
  /\ slots \in Limits
  /\ stage = [h \in Handlers |-> "idle"]
  /\ main = "serving"
  /\ gaveUp = {}

Up == main \notin {"exited", "crashed"}

store == <<rows, creator, told>>
deletions == <<jobs, wg>>
process == <<slots, main, gaveUp>>

-----------------------------------------------------------------------------
(* Outcomes of the service's methods: the rows after the call, the error   *)
(* it returns and the ids of the short URLs it returns with it.            *)
Outcome(newRows, error, ids) == [rows |-> newRows, error |-> error, ids |-> ids]

Free == Ids \ Present(rows)

IdsHolding(urls) == {id \in Present(rows) : rows[id].url \in urls}

Inserted(ids, texts, user) ==
  [id \in Ids |->
     IF \E i \in DOMAIN ids : ids[i] = id
     THEN NewInfo([id |-> id, user |-> user, url |-> texts[CHOOSE i \in DOMAIN ids : ids[i] = id]])
     ELSE rows[id]]

(* generated ids: one per text, all of them new *)
NewIds(texts) ==
  {ids \in [DOMAIN texts -> Free] : \A i, j \in DOMAIN texts : ids[i] = ids[j] => i = j}

(* the ids that rows for the texts can get: none when a URL is stored *)
Insertable(texts) ==
  IF IdsHolding({texts[i] : i \in DOMAIN texts}) = {} THEN NewIds(texts) ELSE {}

(* A storage call may always fail (context cancelled, connection lost,     *)
(* disk full): with nothing stored, or with the rows stored and the reply  *)
(* of the database lost.                                                   *)
StorageErrors(texts, user) ==
  {Outcome(rows, "storage", <<>>)}
  \cup {Outcome(Inserted(ids, texts, user), "storage", <<>>) : ids \in Insertable(texts)}

(* Seeded faults, one per property of the passing run, here and below. *)

(* 409 with the id that was generated for the refused row. *)
FreshIdOnConflict(user, text) ==
  LET original == Trim[text]
  IN  IF original = Empty THEN {Outcome(rows, "empty", <<>>)}
      ELSE {Outcome(IF IdsHolding({original}) = {} THEN Inserted(ids, <<original>>, user) ELSE rows,
                    IF IdsHolding({original}) = {} THEN "none" ELSE "duplicate", ids) :
              ids \in NewIds(<<original>>)}

(* UPDATE ... SET is_deleted without AND user_id. *)
DeleteAnybodys(user, ids) ==
  [id \in Ids |-> IF \E i \in DOMAIN ids : ids[i] = id THEN Marked(rows[id], rows[id].user) ELSE rows[id]]

-----------------------------------------------------------------------------
CreateShortURL(user, text) ==
  LET original == Trim[text]
  IN  IF original = Empty THEN {Outcome(rows, "empty", <<>>)}
      ELSE StorageErrors(<<original>>, user)
           \cup {Outcome(rows, "duplicate", <<id>>) : id \in IdsHolding({original})}
           \cup {Outcome(Inserted(ids, <<original>>, user), "none", ids) : ids \in Insertable(<<original>>)}

(* The rows of a batch carry no user, and its texts are not trimmed. *)
CreateShortURLsBatch(texts) ==
  IF texts = <<>> \/ Empty \in {texts[i] : i \in DOMAIN texts} THEN {Outcome(rows, "empty", <<>>)}
  ELSE StorageErrors(texts, Anonymous)
       \cup {Outcome(Inserted(ids, texts, Anonymous), "none", ids) : ids \in Insertable(texts)}

GetUserURLs(user) == UrlsOfUser(Entries(rows), user)

DeleteUserURLs(user, ids) ==
  [id \in Ids |-> IF \E i \in DOMAIN ids : ids[i] = id THEN Marked(rows[id], user) ELSE rows[id]]

(* The ids of an outcome that the response carries, each for its text. *)
Tell(ids, texts) ==
  told' = [id \in Ids |-> told[id] \cup {Trim[texts[i]] : i \in {i \in DOMAIN ids : ids[i] = id}}]

(* Commits an outcome; user is the one whose request it was. *)
Commit(outcome, user) ==
  /\ rows' = outcome.rows
  /\ creator' = [id \in Ids |-> IF rows[id] = Absent /\ outcome.rows[id] # Absent
                                THEN user ELSE creator[id]]

-----------------------------------------------------------------------------
(* Seeded faults. *)

(* http.Server.Close: the handlers are not waited for. *)
CloseListeners ==
  /\ main = "http"
  /\ main' = "background"
  /\ UNCHANGED <<store, deletions, slots, stage, gaveUp>>

(* waitGroup.Wait() without the timer. *)
PatientWaitForBackground ==
  /\ main = "background" /\ wg = 0
  /\ main' = "grpc"
  /\ UNCHANGED <<store, deletions, slots, stage, gaveUp>>

(* Done() in the goroutine as well as by waitGroup.Go. *)
DoneTwice(j) ==
  /\ Up /\ jobs[j].phase = "running"
  /\ rows' = DeleteUserURLs(jobs[j].user, jobs[j].ids)
  /\ jobs' = [jobs EXCEPT ![j].phase = "done"]
  /\ wg' = wg - 2
  /\ UNCHANGED <<creator, told, stage, process>>

(* One semaphore for all requests, whose slot is never given back. *)
LeakySemaphore(j) ==
  /\ Up /\ jobs[j].phase = "waiting"
  /\ Cardinality({i \in DOMAIN jobs : jobs[i].phase # "waiting"}) < slots
  /\ jobs' = [jobs EXCEPT ![j].phase = "running"]
  /\ UNCHANGED <<store, wg, stage, process>>

-----------------------------------------------------------------------------
(* Requests.  The servers start a goroutine for each one while they accept *)
(* connections; its body is read by the handler.                           *)
Accepting(h) ==
  main \in IF h \in Http THEN {"serving"} ELSE {"serving", "http", "background"}

Receive(h) ==
  /\ stage[h] = "idle" /\ Accepting(h)
  /\ stage' = [stage EXCEPT ![h] = "received"]
  /\ UNCHANGED <<store, deletions, process>>

(* The handler returns; with an action in its audit data the audit         *)
(* middleware has an event to hand over.                                   *)
Answer(h, audited) ==
  /\ Up /\ stage[h] = "received"
  /\ stage' = [stage EXCEPT ![h] = IF audited THEN "notify" ELSE "answered"]
  /\ UNCHANGED process

(* A body that cannot be read or decoded. *)
BadRequest(h) == Answer(h, FALSE) /\ UNCHANGED <<store, deletions>>

(* The audit action is recorded before the service decides; a duplicate is *)
(* answered with the existing link.                                        *)
Shorten(h, text) ==
  /\ h \in Http
  /\ Answer(h, TRUE)
  /\ \E user \in Users : \E outcome \in CreateShortURL(user, text) :
       /\ Commit(outcome, user)
       /\ Tell(outcome.ids, <<text>>)
  /\ UNCHANGED deletions

(* POST / with an empty body is a BadRequest, an empty url in the JSON of  *)
(* POST /api/shorten gets as far as the service, and the audit.            *)
ShortenURLHandler(h) == \E text \in Urls : Shorten(h, text)

ShortenJSONHandler(h) == \E text \in Texts : Shorten(h, text)

(* ShortenURL: blank texts never reach the audit, a duplicate is an error. *)
GRPCShortenURL(h) ==
  /\ h \in Grpc
  /\ Answer(h, TRUE)
  /\ \E user \in Users, text \in Texts :
       /\ Trim[text] # Empty
       /\ \E outcome \in CreateShortURL(user, Trim[text]) :
            /\ Commit(outcome, user)
            /\ Tell(IF outcome.error = "none" THEN outcome.ids ELSE <<>>, <<text>>)
  /\ UNCHANGED deletions

(* POST /api/shorten/batch is not audited. *)
PostBatchShortenHandler(h) ==
  /\ h \in Http
  /\ Answer(h, FALSE)
  /\ \E user \in Users, texts \in TextLists : \E outcome \in CreateShortURLsBatch(texts) :
       /\ Commit(outcome, user)
       /\ Tell(outcome.ids, texts)
  /\ UNCHANGED deletions

(* Reads hand out links as well; only a redirect is audited. *)
Show(links) ==
  /\ told' = [id \in Ids |-> told[id] \cup {Trim[link.url] : link \in {l \in links : l.id = id}}]
  /\ UNCHANGED <<rows, creator, deletions>>

Expand(h) ==
  \E id \in Ids :
    LET found == Fetch(rows, id)
    IN  \/ found.kind = "url" /\ Answer(h, TRUE) /\ Show({[id |-> id, url |-> found.url]})
        \/ found.kind # "url" /\ Answer(h, FALSE) /\ Show({})

ExpandURLHandler(h) == h \in Http /\ Expand(h)

GRPCExpandURL(h) == h \in Grpc /\ Expand(h)

List(h) == Answer(h, FALSE) /\ \E user \in Users : Show(GetUserURLs(user))

ListUserURLsHandler(h) == h \in Http /\ List(h)

GRPCListUserURLs(h) == h \in Grpc /\ List(h)

(* The two counts name no link; GET /ping looks the same from here. *)
StatsHandler(h) == h \in Http /\ Answer(h, FALSE) /\ Show({})

(* DELETE /api/user/urls: waitGroup.Go adds to the counter and starts the  *)
(* goroutine, then 202 is written.                                         *)
DeleteUserURLsHandler(h) ==
  /\ h \in Http /\ Len(jobs) < MaxDeletions
  /\ Answer(h, FALSE)
  /\ \E user \in Users, ids \in DeleteLists \ {<<>>} :
       jobs' = Append(jobs, [user |-> user, ids |-> ids, phase |-> "waiting"])
  /\ wg' = wg + 1
  /\ UNCHANGED store

(* The storage call of a handler need not return: it waits for a           *)
(* connection that GetStats keeps (stats_deadlock of DBStorage), and its   *)
(* context has no deadline.  It fails without an effect if the client goes *)
(* away, which ends the context.                                           *)
Hang(h) ==
  /\ Up /\ stage[h] = "received"
  /\ stage' = [stage EXCEPT ![h] = "hung"]
  /\ UNCHANGED <<store, deletions, process>>

ClientLeaves(h) ==
  /\ Up /\ stage[h] = "hung"
  /\ \E next \in {"answered", "notify"} : stage' = [stage EXCEPT ![h] = next]
  /\ UNCHANGED <<store, deletions, process>>

(* The audit middleware runs after the handler: NotifyAll, or nothing.     *)
(* Once the audit has been stopped NotifyAll panics, which the Recoverer   *)
(* of the HTTP server turns into the end of the request.                   *)
Finish(h) ==
  /\ Up /\ stage[h] \in {"answered", "notify"}
  /\ stage' = [stage EXCEPT ![h] = "idle"]
  /\ UNCHANGED <<store, deletions, process>>

HandlerStep(h) ==
  \/ BadRequest(h) \/ StatsHandler(h)
  \/ ShortenURLHandler(h) \/ ShortenJSONHandler(h) \/ GRPCShortenURL(h)
  \/ PostBatchShortenHandler(h)
  \/ ExpandURLHandler(h) \/ GRPCExpandURL(h) \/ ListUserURLsHandler(h) \/ GRPCListUserURLs(h)
  \/ DeleteUserURLsHandler(h) \/ Finish(h)

-----------------------------------------------------------------------------
(* The goroutine of a deletion.  Its semaphore was made for this request:  *)
(* the send succeeds at once, or never when the limit is 0.                *)
Acquire(j) ==
  /\ Up /\ jobs[j].phase = "waiting"
  /\ slots > 0
  /\ jobs' = [jobs EXCEPT ![j].phase = "running"]
  /\ UNCHANGED <<store, wg, stage, process>>

RunDeletion(j) ==
  /\ Up /\ jobs[j].phase = "running"
  /\ rows' = DeleteUserURLs(jobs[j].user, jobs[j].ids)
  /\ jobs' = [jobs EXCEPT ![j].phase = "done"]
  /\ wg' = wg - 1
  /\ UNCHANGED <<creator, told, stage, process>>

(* The deadline of 30 seconds has passed, or the storage fails: logged.    *)
(* The rows may be marked all the same: the file storage marks memory      *)
(* before it fails to save, and the reply to an UPDATE may be lost.        *)
FailDeletion(j) ==
  /\ Up /\ jobs[j].phase = "running"
  /\ rows' \in {rows, DeleteUserURLs(jobs[j].user, jobs[j].ids)}
  /\ jobs' = [jobs EXCEPT ![j].phase = "failed"]
  /\ wg' = wg - 1
  /\ UNCHANGED <<creator, told, stage, process>>

JobStep(j) == j \in DOMAIN jobs /\ (Acquire(j) \/ RunDeletion(j) \/ FailDeletion(j))

-----------------------------------------------------------------------------
(* main. *)
Signal ==
  /\ main = "serving"
  /\ main' = "http"
  /\ UNCHANGED <<store, deletions, slots, stage, gaveUp>>

(* A server stopped with an error: log.Fatal, without the deferred calls. *)
Fatal ==
  /\ main = "serving"
  /\ main' = "crashed"
  /\ UNCHANGED <<store, deletions, slots, stage, gaveUp>>

(* http.Server.Shutdown with a deadline of 5 seconds. *)
HttpShutdown ==
  /\ main = "http"
  /\ \/ (\A h \in Http : stage[h] = "idle") /\ UNCHANGED gaveUp
     \/ gaveUp' = gaveUp \cup {"http"}
  /\ main' = "background"
  /\ UNCHANGED <<store, deletions, slots, stage>>

(* The wait group or 5 seconds, whichever comes first. *)
WaitForBackground ==
  /\ main = "background"
  /\ \/ wg = 0 /\ UNCHANGED gaveUp
     \/ gaveUp' = gaveUp \cup {"background"}
  /\ main' = "grpc"
  /\ UNCHANGED <<store, deletions, slots, stage>>

(* GRPCServer.Shutdown ignores its context and waits for every call. *)
GracefulStop ==
  /\ main = "grpc"
  /\ \A h \in Grpc : stage[h] = "idle"
  /\ main' = "audit"
  /\ UNCHANGED <<store, deletions, slots, stage, gaveUp>>

(* The deferred auditor.Stop(), whose end is EventsDelivered of Audit, and *)
(* the end of the process with every goroutine that is left.               *)
StopAudit ==
  /\ main = "audit"
  /\ main' = "exited"
  /\ UNCHANGED <<store, deletions, slots, stage, gaveUp>>

ShutdownStep == HttpShutdown \/ WaitForBackground \/ GracefulStop \/ StopAudit

Next ==
  \/ \E h \in Handlers : Receive(h) \/ HandlerStep(h) \/ Hang(h) \/ ClientLeaves(h)
  \/ \E j \in 1..MaxDeletions : JobStep(j)
  \/ Signal \/ Fatal \/ ShutdownStep

(* Goroutines that can run are scheduled, deletions end within their       *)
(* deadline, and timers fire.  A handler goes on unless its storage call   *)
(* hangs, and a call that hangs need never return.  Nobody has to send a   *)
(* request or a signal.                                                    *)
Fairness ==
  /\ \A h \in Handlers : WF_vars(HandlerStep(h))
  /\ \A j \in 1..MaxDeletions : WF_vars(JobStep(j))
  /\ WF_vars(ShutdownStep)

Spec == Init /\ [][Next]_vars /\ Fairness

-----------------------------------------------------------------------------
(* A short link that a client was given, in whatever answer, names a row   *)
(* with the URL it was given for, through duplicates, batches, failed      *)
(* calls and deletions (CreateShortURL, CreateShortURLsBatch).  The row    *)
(* may be deleted: 410 counts as resolving here, also for the link that a  *)
(* 409 answers with.                                                       *)
LinksResolve ==
  \A id \in Ids : \A url \in told[id] : rows[id] # Absent /\ Trim[rows[id].url] = url

(* A link is only ever deleted by a deletion that its creator asked for by *)
(* its id, although the deletion runs long after the request was           *)
(* authenticated, and may have taken effect although it failed.            *)
DeletedByOwner ==
  \A id \in Present(rows) : rows[id].deleted =>
    \E j \in DOMAIN jobs :
      /\ jobs[j].phase \in {"done", "failed"} /\ jobs[j].user = creator[id]
      /\ \E i \in DOMAIN jobs[j].ids : jobs[j].ids[i] = id

(* When no wait of the shutdown timed out, no accepted deletion is lost    *)
(* and no request is cut off: Shutdown stops the handlers, which start     *)
(* deletions, before it waits for the deletions.                           *)
CleanShutdown ==
  main = "exited" /\ gaveUp = {} =>
    /\ \A j \in DOMAIN jobs : jobs[j].phase \in {"done", "failed"}
    /\ \A h \in Handlers : stage[h] = "idle"

(* After a signal the process ends, unless a gRPC call hangs for ever:     *)
(* GracefulStop has no deadline.  Neither a hung HTTP request nor a        *)
(* deletion that can never start (MAX_PARALLEL_WORKERS=0) keeps it.        *)
ShutdownEnds ==
  (\A h \in Grpc : []<>(stage[h] # "hung")) => (main = "http" ~> main = "exited")

(* A deletion answered with 202 is carried out or fails, unless the limit  *)
(* is 0 or the process ends first.                                         *)
DeletionsEnd ==
  \A j \in 1..MaxDeletions :
    j \in DOMAIN jobs /\ slots > 0
      ~> ~Up \/ (j \in DOMAIN jobs /\ jobs[j].phase \in {"done", "failed"})

(* api.go:105 "returns all URLs created by the authenticated user". *)
ListsOwnLinks ==
  \A user \in Users :
    {url.id : url \in GetUserURLs(user)}
      = {id \in Present(rows) : creator[id] = user /\ ~rows[id].deleted}

(* config.go:30 "max amount of parallel workers": deletions in the storage *)
(* at one time.                                                            *)
BoundedDeletions == Cardinality({j \in DOMAIN jobs : jobs[j].phase = "running"}) <= slots
=============================================================================

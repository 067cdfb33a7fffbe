-------------------------- MODULE ShortenerProofs --------------------------
(* Proofs about Shortener for every number of handlers, ids, users, texts, *)
(* deletions and every limit.                                              *)
EXTENDS Shortener, FiniteSetTheorems, TLAPS

-----------------------------------------------------------------------------
(* Facts about the tables a call can leave behind.                         *)

(* A deletion mark keeps the entry's presence, URL and owner, and is only  *)
(* put on an entry of the user it is for.                                  *)
LEMMA MarkedFacts ==
  ASSUME NEW info \in UrlInfo \cup {Absent}, NEW user
  PROVE  /\ Marked(info, user) \in UrlInfo \cup {Absent}
         /\ Marked(info, user) = Absent <=> info = Absent
         /\ info # Absent =>
              /\ Marked(info, user).url = info.url
              /\ Marked(info, user).user = info.user
              /\ Marked(info, user).deleted => info.deleted \/ info.user = user
<1>1. Absent \notin UrlInfo
  BY ShortenerAssumption
<1>2. CASE info = Absent
  BY <1>1, <1>2 DEF Marked
<1>3. CASE info \in UrlInfo
  BY <1>1, <1>3 DEF Marked, UrlInfo
<1> QED
  BY <1>2, <1>3

(* What a storage call made for user may do to the table: keep every row,  *)
(* add live ones that belong to the user or to nobody.                     *)
Extends(new, user) ==
  /\ new \in Maps
  /\ \A id \in Ids :
       \/ new[id] = rows[id]
       \/ /\ rows[id] = Absent /\ new[id] \in UrlInfo
          /\ ~new[id].deleted /\ new[id].user \in {user, Anonymous}

(* The returned ids lead to the texts they were asked for. *)
Lead(new, ids, texts) ==
  \A i \in DOMAIN ids :
    /\ i \in DOMAIN texts /\ ids[i] \in Ids
    /\ new[ids[i]] # Absent /\ Trim[new[ids[i]].url] = Trim[texts[i]]

LEMMA InsertedFacts ==
  ASSUME rows \in Maps, NEW texts \in Seq(Urls), NEW user \in Users \cup {Anonymous},
         NEW ids \in NewIds(texts)
  PROVE  /\ Extends(Inserted(ids, texts, user), user)
         /\ Lead(Inserted(ids, texts, user), ids, texts)
<1> DEFINE new == Inserted(ids, texts, user)
<1>1. /\ Absent \notin UrlInfo
      /\ DOMAIN ids = DOMAIN texts
      /\ \A i \in DOMAIN ids : ids[i] \in Ids /\ rows[ids[i]] = Absent /\ texts[i] \in Urls
      /\ \A i, j \in DOMAIN ids : ids[i] = ids[j] => i = j
  BY ShortenerAssumption DEF NewIds, Free, Present
<1>2. ASSUME NEW i \in DOMAIN ids
      PROVE  new[ids[i]] = [url |-> texts[i], user |-> user, deleted |-> FALSE]
  <2>1. (CHOOSE j \in DOMAIN ids : ids[j] = ids[i]) = i
    BY <1>1
  <2> QED
    BY <1>1, <2>1 DEF Inserted, NewInfo
<1>3. \A id \in Ids : (\A i \in DOMAIN ids : ids[i] # id) => new[id] = rows[id]
  BY DEF Inserted
<1>5. new = [id \in Ids |-> new[id]]
  BY DEF Inserted
<1> HIDE DEF new
<1>4. ASSUME NEW i \in DOMAIN ids
      PROVE  /\ new[ids[i]] \in UrlInfo /\ new[ids[i]].user = user
             /\ ~new[ids[i]].deleted /\ new[ids[i]].url = texts[i]
  <2>1. texts[i] \in Urls
    BY <1>1
  <2>2. new[ids[i]] = [url |-> texts[i], user |-> user, deleted |-> FALSE]
    BY <1>2
  <2> QED
    BY <2>1, <2>2 DEF UrlInfo
<1>6. \A id \in Ids :
       \/ new[id] = rows[id]
       \/ /\ rows[id] = Absent /\ new[id] \in UrlInfo
          /\ ~new[id].deleted /\ new[id].user \in {user, Anonymous}
  BY <1>1, <1>3, <1>4
<1>7. new \in Maps
  BY <1>5, <1>6 DEF Maps
<1>8. Lead(new, ids, texts)
  BY <1>1, <1>4 DEF Lead
<1> QED
  BY <1>6, <1>7, <1>8 DEF Extends, new

LEMMA CreateOutcome ==
  ASSUME rows \in Maps, NEW user \in Users, NEW text \in Texts,
         NEW outcome \in CreateShortURL(user, text)
  PROVE  Extends(outcome.rows, user) /\ Lead(outcome.rows, outcome.ids, <<text>>)
<1> DEFINE original == Trim[text]
<1>1. original \in Texts /\ Trim[original] = original
  BY ShortenerAssumption
<1>2. Extends(rows, user)
  BY DEF Extends
<1>3. CASE outcome = Outcome(rows, "empty", <<>>) \/ outcome = Outcome(rows, "storage", <<>>)
  BY <1>2, <1>3 DEF Outcome, Lead
<1>4. ASSUME NEW id \in IdsHolding({original}), outcome = Outcome(rows, "duplicate", <<id>>)
      PROVE  Extends(outcome.rows, user) /\ Lead(outcome.rows, outcome.ids, <<text>>)
  BY <1>1, <1>2, <1>4 DEF IdsHolding, Present, Outcome, Lead
<1>5. ASSUME original # Empty, NEW ids \in NewIds(<<original>>),
             \/ outcome = Outcome(Inserted(ids, <<original>>, user), "none", ids)
             \/ outcome = Outcome(Inserted(ids, <<original>>, user), "storage", <<>>)
      PROVE  Extends(outcome.rows, user) /\ Lead(outcome.rows, outcome.ids, <<text>>)
  <2>1. <<original>> \in Seq(Urls)
    BY <1>1, <1>5 DEF Texts
  <2>2. /\ Extends(Inserted(ids, <<original>>, user), user)
        /\ Lead(Inserted(ids, <<original>>, user), ids, <<original>>)
    BY <1>5, <2>1, InsertedFacts
  <2>3. DOMAIN ids = {1}
    BY <1>5 DEF NewIds
  <2>4. Lead(Inserted(ids, <<original>>, user), ids, <<text>>)
    BY <1>1, <2>2, <2>3 DEF Lead
  <2>5. Lead(Inserted(ids, <<original>>, user), <<>>, <<text>>)
    BY DEF Lead
  <2> QED
    BY <1>5, <2>2, <2>4, <2>5 DEF Outcome
<1>6. CASE outcome \in StorageErrors(<<original>>, user) /\ original # Empty
  BY <1>3, <1>5, <1>6 DEF StorageErrors, Insertable
<1> QED
  BY <1>3, <1>4, <1>5, <1>6 DEF CreateShortURL, Insertable

LEMMA BatchOutcome ==
  ASSUME rows \in Maps, NEW user \in Users, NEW texts \in TextLists,
         NEW outcome \in CreateShortURLsBatch(texts)
  PROVE  Extends(outcome.rows, user) /\ Lead(outcome.rows, outcome.ids, texts)
<1>1. Extends(rows, user)
  BY DEF Extends
<1>2. CASE outcome = Outcome(rows, "empty", <<>>) \/ outcome = Outcome(rows, "storage", <<>>)
  BY <1>1, <1>2 DEF Outcome, Lead
<1>3. ASSUME Empty \notin {texts[i] : i \in DOMAIN texts}, NEW ids \in NewIds(texts),
             \/ outcome = Outcome(Inserted(ids, texts, Anonymous), "none", ids)
             \/ outcome = Outcome(Inserted(ids, texts, Anonymous), "storage", <<>>)
      PROVE  Extends(outcome.rows, user) /\ Lead(outcome.rows, outcome.ids, texts)
  <2>1. texts \in Seq(Urls)
    BY <1>3, ShortenerAssumption DEF Texts
  <2>2. /\ Extends(Inserted(ids, texts, Anonymous), Anonymous)
        /\ Lead(Inserted(ids, texts, Anonymous), ids, texts)
    BY <1>3, <2>1, InsertedFacts
  <2>3. Lead(Inserted(ids, texts, Anonymous), <<>>, texts)
    BY DEF Lead
  <2> QED
    BY <1>3, <2>2, <2>3 DEF Outcome, Extends
<1> QED
  BY <1>2, <1>3 DEF CreateShortURLsBatch, StorageErrors, Insertable

-----------------------------------------------------------------------------
(* The table and its history.                                              *)

StoreType ==
  /\ rows \in Maps
  /\ creator \in [Ids -> Users \cup {Absent}]
  /\ told \in [Ids -> SUBSET Texts]

(* A stored row belongs to the user who had it created, or to nobody when  *)
(* it came in a batch; DeletedByOwner needs it to know that the user a     *)
(* deletion matches against is the creator.                                *)
CreatorInv ==
  \A id \in Present(rows) : creator[id] \in Users /\ rows[id].user \in {creator[id], Anonymous}

StoreInv == StoreType /\ CreatorInv /\ LinksResolve /\ DeletedByOwner

LEMMA StoreInvUnchanged == StoreInv /\ UNCHANGED <<store, jobs>> => StoreInv'
BY DEF StoreInv, StoreType, CreatorInv, LinksResolve, DeletedByOwner, Present, store

(* Deletions that have ended stay as they ended. *)
LEMMA StoreInvJobs ==
  ASSUME StoreInv, UNCHANGED store,
         \A j \in DOMAIN jobs : jobs[j].phase \in {"done", "failed"} => j \in DOMAIN jobs' /\ jobs'[j] = jobs[j]
  PROVE  StoreInv'
<1>1. (StoreType /\ CreatorInv /\ LinksResolve)'
  BY DEF StoreInv, StoreType, CreatorInv, LinksResolve, Present, store
<1>2. DeletedByOwner'
  BY DEF StoreInv, DeletedByOwner, Present, store
<1> QED
  BY <1>1, <1>2 DEF StoreInv

LEMMA StoreInvCommit ==
  ASSUME StoreInv, NEW user \in Users, NEW outcome, NEW ids, NEW texts \in Seq(Texts),
         Extends(outcome.rows, user), Lead(outcome.rows, ids, texts),
         Commit(outcome, user), Tell(ids, texts), UNCHANGED jobs
  PROVE  StoreInv'
<1> DEFINE new == outcome.rows
<1>1. rows' = new /\ new \in Maps /\ Absent \notin UrlInfo
  BY ShortenerAssumption DEF Commit, Extends
<1>2. \A id \in Ids : creator'[id] = IF rows[id] = Absent /\ new[id] # Absent THEN user ELSE creator[id]
  BY DEF Commit
<1>3. \A id \in Ids : \A i \in DOMAIN ids : Trim[texts[i]] \in Texts
  BY ShortenerAssumption DEF Lead
<1>4. StoreType'
  <2>1. creator' \in [Ids -> Users \cup {Absent}]
    BY DEF Commit, StoreInv, StoreType
  <2>2. told' \in [Ids -> SUBSET Texts]
    BY <1>3 DEF Tell, StoreInv, StoreType
  <2> QED
    BY <1>1, <2>1, <2>2 DEF StoreType
<1> HIDE DEF new
<1>5. \A id \in Ids :
       \/ new[id] = rows[id]
       \/ /\ rows[id] = Absent /\ new[id] # Absent
          /\ ~new[id].deleted /\ new[id].user \in {user, Anonymous}
  BY <1>1 DEF Extends, new
<1>6. CreatorInv'
  BY <1>1, <1>2, <1>5 DEF StoreInv, CreatorInv, Present
<1>7. LinksResolve'
  <2>1. ASSUME NEW id \in Ids, NEW url \in told'[id]
        PROVE  rows'[id] # Absent /\ Trim[rows'[id].url] = url
    <3>1. CASE url \in told[id]
      BY <1>1, <1>5, <3>1 DEF StoreInv, LinksResolve
    <3>2. CASE url \notin told[id]
      <4>1. PICK i \in DOMAIN ids : ids[i] = id /\ url = Trim[texts[i]]
        BY <2>1, <3>2 DEF Tell
      <4> QED
        BY <1>1, <4>1 DEF Lead, new
    <3> QED
      BY <3>1, <3>2
  <2> QED
    BY <2>1 DEF LinksResolve
<1>8. DeletedByOwner'
  <2>1. ASSUME NEW id \in Present(rows)', rows'[id].deleted
        PROVE  id \in Present(rows) /\ rows[id].deleted /\ creator'[id] = creator[id]
    BY <1>1, <1>2, <1>5, <2>1 DEF Present
  <2> QED
    BY <2>1 DEF StoreInv, DeletedByOwner
<1> QED
  BY <1>4, <1>6, <1>7, <1>8 DEF StoreInv

(* Links read from the table lead to what the table holds. *)
LEMMA StoreInvShow ==
  ASSUME StoreInv, NEW links,
         \A l \in links : l.id \in Ids => rows[l.id] # Absent /\ l.url = rows[l.id].url,
         Show(links)
  PROVE  StoreInv'
<1>1. UNCHANGED <<rows, creator, jobs>>
  BY DEF Show, deletions
<1>2. \A id \in Ids : \A l \in links : l.id = id => l.url \in Urls
  BY ShortenerAssumption DEF StoreInv, StoreType, Maps, UrlInfo
<1>3. StoreType'
  <2>1. \A id \in Ids : \A l \in links : l.id = id => Trim[l.url] \in Texts
    BY <1>2, ShortenerAssumption DEF Texts
  <2>2. told' \in [Ids -> SUBSET Texts]
    BY <2>1 DEF Show, StoreInv, StoreType
  <2> QED
    BY <1>1, <2>2 DEF StoreInv, StoreType
<1>4. LinksResolve'
  <2>1. ASSUME NEW id \in Ids, NEW url \in told'[id]
        PROVE  rows[id] # Absent /\ Trim[rows[id].url] = url
    <3>1. CASE url \in told[id]
      BY <3>1 DEF StoreInv, LinksResolve
    <3>2. CASE url \notin told[id]
      <4>1. PICK l \in links : l.id = id /\ url = Trim[l.url]
        BY <2>1, <3>2 DEF Show
      <4> QED
        BY <4>1
    <3> QED
      BY <3>1, <3>2
  <2> QED
    BY <1>1, <2>1 DEF LinksResolve
<1>5. (CreatorInv /\ DeletedByOwner)'
  BY <1>1 DEF StoreInv, CreatorInv, DeletedByOwner, Present
<1> QED
  BY <1>3, <1>4, <1>5 DEF StoreInv

(* A deletion, also one that then fails, marks rows of its user, who is    *)
(* their creator: batch rows belong to nobody.                             *)
LEMMA StoreInvDeletion ==
  ASSUME StoreInv, jobs \in Seq(Job), NEW j \in DOMAIN jobs, jobs[j].phase = "running",
         NEW phase \in {"done", "failed"},
         rows' = DeleteUserURLs(jobs[j].user, jobs[j].ids),
         jobs' = [jobs EXCEPT ![j].phase = phase], UNCHANGED <<creator, told>>
  PROVE  StoreInv'
<1> DEFINE user == jobs[j].user
           ids == jobs[j].ids
           Named(id) == \E i \in DOMAIN ids : ids[i] = id
<1>1. user \in Users /\ user # Anonymous
  <2>1. jobs[j] \in Job
    OBVIOUS
  <2> QED
    BY <2>1, ShortenerAssumption DEF Job
<1>2. /\ rows' = DeleteUserURLs(user, ids)
      /\ jobs' = [jobs EXCEPT ![j].phase = phase]
      /\ UNCHANGED <<creator, told>>
  OBVIOUS
<1>3. /\ j \in DOMAIN jobs' /\ jobs'[j].phase = phase /\ jobs'[j].user = user /\ jobs'[j].ids = ids
      /\ \A i \in DOMAIN jobs : jobs[i].phase \in {"done", "failed"} =>
           i \in DOMAIN jobs' /\ jobs'[i] = jobs[i]
  <2>1. \A i \in DOMAIN jobs : jobs[i] \in Job
    OBVIOUS
  <2>2. jobs[j].phase = "running"
    OBVIOUS
  <2>3. jobs'[j] = [jobs[j] EXCEPT !.phase = phase] /\ DOMAIN jobs' = DOMAIN jobs
        /\ \A i \in DOMAIN jobs : i # j => jobs'[i] = jobs[i]
    BY <1>2
  <2>4. jobs'[j].phase = phase /\ jobs'[j].user = user /\ jobs'[j].ids = ids
    BY <2>1, <2>3 DEF Job
  <2> QED
    BY <2>2, <2>3, <2>4
<1>4. \A id \in Ids : rows'[id] = IF Named(id) THEN Marked(rows[id], user) ELSE rows[id]
  BY <1>2 DEF DeleteUserURLs
<1> HIDE DEF user, ids, Named
<1>5. \A id \in Ids : rows[id] \in UrlInfo \cup {Absent}
  BY DEF StoreInv, StoreType, Maps
<1>6. rows' \in Maps
  <2>1. \A id \in Ids : rows'[id] \in UrlInfo \cup {Absent}
    BY <1>4, <1>5, MarkedFacts
  <2>2. rows' = [id \in Ids |-> rows'[id]]
    BY <1>2 DEF DeleteUserURLs
  <2> QED
    BY <2>1, <2>2 DEF Maps
<1>7. \A id \in Ids : /\ rows'[id] = Absent <=> rows[id] = Absent
                      /\ rows[id] # Absent =>
                           /\ rows'[id].url = rows[id].url /\ rows'[id].user = rows[id].user
                           /\ rows'[id].deleted =>
                                rows[id].deleted \/ (Named(id) /\ rows[id].user = user)
  BY <1>4, <1>5, MarkedFacts
<1>8. (StoreType /\ CreatorInv /\ LinksResolve)'
  BY <1>2, <1>6, <1>7 DEF StoreInv, StoreType, CreatorInv, LinksResolve, Present
<1>9. ASSUME NEW id \in Present(rows)', rows'[id].deleted
      PROVE  \E i \in DOMAIN jobs' :
               /\ jobs'[i].phase \in {"done", "failed"} /\ jobs'[i].user = creator'[id]
               /\ \E n \in DOMAIN jobs'[i].ids : jobs'[i].ids[n] = id
  <2>1. id \in Present(rows)
    BY <1>7, <1>9 DEF Present
  <2>2. CASE rows[id].deleted
    BY <1>2, <1>3, <2>1, <2>2 DEF StoreInv, DeletedByOwner
  <2>3. CASE Named(id) /\ rows[id].user = user
    <3>1. creator[id] = user
      BY <1>1, <2>1, <2>3 DEF StoreInv, CreatorInv
    <3> QED
      BY <1>2, <1>3, <2>3, <3>1 DEF Named
  <2> QED
    BY <1>7, <1>9, <2>1, <2>2, <2>3 DEF Present
<1>10. DeletedByOwner'
  BY <1>9 DEF DeletedByOwner
<1> QED
  BY <1>8, <1>10 DEF StoreInv

LEMMA StoreInvStep == jobs \in Seq(Job) /\ StoreInv /\ [Next]_vars => StoreInv'
<1> SUFFICES ASSUME jobs \in Seq(Job), StoreInv, [Next]_vars PROVE StoreInv'
  OBVIOUS
<1>1. rows \in Maps /\ \A text \in Texts : Trim[text] \in Texts /\ Trim[Trim[text]] = Trim[text]
  BY ShortenerAssumption DEF StoreInv, StoreType
<1>2. ASSUME NEW h, NEW text \in Texts, Shorten(h, text) PROVE StoreInv'
  <2>1. PICK user \in Users : \E outcome \in CreateShortURL(user, text) :
           Commit(outcome, user) /\ Tell(outcome.ids, <<text>>)
    BY <1>2 DEF Shorten
  <2>2. PICK outcome \in CreateShortURL(user, text) :
           Commit(outcome, user) /\ Tell(outcome.ids, <<text>>)
    BY <2>1
  <2>3. Extends(outcome.rows, user) /\ Lead(outcome.rows, outcome.ids, <<text>>)
    BY <1>1, CreateOutcome
  <2>4. UNCHANGED jobs /\ <<text>> \in Seq(Texts)
    BY <1>2 DEF Shorten, deletions
  <2> QED
    BY <2>2, <2>3, <2>4, StoreInvCommit
<1>3. ASSUME NEW h, GRPCShortenURL(h) PROVE StoreInv'
  <2>1. PICK user \in Users, text \in Texts :
          \E outcome \in CreateShortURL(user, Trim[text]) :
            /\ Commit(outcome, user)
            /\ Tell(IF outcome.error = "none" THEN outcome.ids ELSE <<>>, <<text>>)
    BY <1>3 DEF GRPCShortenURL
  <2>2. PICK outcome \in CreateShortURL(user, Trim[text]) :
            /\ Commit(outcome, user)
            /\ Tell(IF outcome.error = "none" THEN outcome.ids ELSE <<>>, <<text>>)
    BY <2>1
  <2>3. Extends(outcome.rows, user) /\ Lead(outcome.rows, outcome.ids, <<Trim[text]>>)
    BY <1>1, CreateOutcome
  <2>4. Lead(outcome.rows, IF outcome.error = "none" THEN outcome.ids ELSE <<>>, <<text>>)
    BY <1>1, <2>3 DEF Lead
  <2>5. UNCHANGED jobs /\ <<text>> \in Seq(Texts)
    BY <1>3 DEF GRPCShortenURL, deletions
  <2> QED
    BY <2>2, <2>3, <2>4, <2>5, StoreInvCommit
<1>4. ASSUME NEW h, PostBatchShortenHandler(h) PROVE StoreInv'
  <2>1. PICK user \in Users, texts \in TextLists : \E outcome \in CreateShortURLsBatch(texts) :
           Commit(outcome, user) /\ Tell(outcome.ids, texts)
    BY <1>4 DEF PostBatchShortenHandler
  <2>2. PICK outcome \in CreateShortURLsBatch(texts) :
           Commit(outcome, user) /\ Tell(outcome.ids, texts)
    BY <2>1
  <2>3. Extends(outcome.rows, user) /\ Lead(outcome.rows, outcome.ids, texts)
    BY <1>1, BatchOutcome
  <2>4. UNCHANGED jobs /\ texts \in Seq(Texts)
    BY <1>4, ShortenerAssumption DEF PostBatchShortenHandler, deletions
  <2> QED
    BY <2>2, <2>3, <2>4, StoreInvCommit
<1>5. ASSUME NEW h, Expand(h) PROVE StoreInv'
  <2>1. PICK id \in Ids :
          \/ /\ Fetch(rows, id).kind = "url"
             /\ Show({[id |-> id, url |-> Fetch(rows, id).url]})
          \/ Show({})
    BY <1>5 DEF Expand
  <2>2. Fetch(rows, id).kind = "url" => rows[id] # Absent /\ Fetch(rows, id).url = rows[id].url
    BY DEF Fetch, Plain
  <2> QED
    BY <2>1, <2>2, StoreInvShow
<1>6. ASSUME NEW h, List(h) PROVE StoreInv'
  <2>1. PICK user \in Users : Show(GetUserURLs(user))
    BY <1>6 DEF List
  <2>2. \A l \in GetUserURLs(user) : l.id \in Ids => rows[l.id] # Absent /\ l.url = rows[l.id].url
    BY DEF GetUserURLs, UrlsOfUser, Live, Entries, Entry, Present
  <2> QED
    BY <2>1, <2>2, StoreInvShow
<1>7. ASSUME NEW h, StatsHandler(h) PROVE StoreInv'
  BY <1>7, StoreInvShow DEF StatsHandler
<1>8. ASSUME NEW h, DeleteUserURLsHandler(h) PROVE StoreInv'
  <2>1. PICK job : jobs' = Append(jobs, job)
    BY <1>8 DEF DeleteUserURLsHandler
  <2>2. \A j \in DOMAIN jobs : j \in DOMAIN jobs' /\ jobs'[j] = jobs[j]
    BY <2>1
  <2> QED
    BY <1>8, <2>2, StoreInvJobs DEF DeleteUserURLsHandler
<1>9. ASSUME NEW j, JobStep(j) PROVE StoreInv'
  <2>1. j \in DOMAIN jobs
    BY <1>9 DEF JobStep
  <2>2. CASE RunDeletion(j) \/ (FailDeletion(j) /\ rows' = DeleteUserURLs(jobs[j].user, jobs[j].ids))
    BY <2>1, <2>2, StoreInvDeletion DEF RunDeletion, FailDeletion
  <2>3. CASE Acquire(j) \/ (FailDeletion(j) /\ rows' = rows)
    <3>1. \A i \in DOMAIN jobs : jobs[i].phase \in {"done", "failed"} =>
            i \in DOMAIN jobs' /\ jobs'[i] = jobs[i]
      BY <2>1, <2>3 DEF Acquire, FailDeletion
    <3>2. UNCHANGED store
      BY <2>3 DEF Acquire, FailDeletion, store
    <3> QED
      BY <3>1, <3>2, StoreInvJobs
  <2> QED
    BY <1>9, <2>2, <2>3 DEF JobStep, FailDeletion
<1>10. CASE UNCHANGED <<store, jobs>>
  BY <1>10, StoreInvUnchanged
<1>11. ASSUME NEW h, HandlerStep(h) PROVE StoreInv'
  <2>1. CASE BadRequest(h) \/ Finish(h)
    BY <1>10, <2>1 DEF BadRequest, Finish, deletions
  <2>2. CASE ShortenURLHandler(h) \/ ShortenJSONHandler(h)
    BY <1>2, <2>2 DEF ShortenURLHandler, ShortenJSONHandler, Texts
  <2> QED
    BY <1>3, <1>4, <1>5, <1>6, <1>7, <1>8, <1>11, <2>1, <2>2
    DEF HandlerStep, ExpandURLHandler, GRPCExpandURL, ListUserURLsHandler, GRPCListUserURLs
<1>12. CASE Signal \/ Fatal \/ ShutdownStep
  BY <1>10, <1>12
  DEF Signal, Fatal, ShutdownStep, HttpShutdown, WaitForBackground, GracefulStop, StopAudit, deletions
<1>13. ASSUME NEW h, Receive(h) \/ Hang(h) \/ ClientLeaves(h) PROVE StoreInv'
  BY <1>10, <1>13 DEF Receive, Hang, ClientLeaves, deletions
<1>14. CASE UNCHANGED vars
  BY <1>10, <1>14 DEF vars, store
<1> QED
  BY <1>9, <1>11, <1>12, <1>13, <1>14 DEF Next

-----------------------------------------------------------------------------
(* Deletions, handlers and the shutdown.                                   *)

(* The deletions the wait group has to count. *)
Pending == {j \in DOMAIN jobs : jobs[j].phase \in {"waiting", "running"}}

WgCounts == IsFiniteSet(Pending) /\ wg = Cardinality(Pending)

ProcessType ==
  /\ jobs \in Seq(Job) /\ Len(jobs) <= MaxDeletions
  /\ slots \in Limits
  /\ stage \in [Handlers -> Stages]
  /\ main \in MainStages
  /\ gaveUp \subseteq {"http", "background"}

(* What each wait of main has left behind, unless it timed out: no HTTP    *)
(* handler that could start a deletion, then no deletion, then no gRPC     *)
(* call.                                                                   *)
DrainInv ==
  /\ main \in {"background", "grpc", "audit", "exited"} /\ "http" \notin gaveUp
       => \A h \in Http : stage[h] = "idle"
  /\ main \in {"grpc", "audit", "exited"} /\ gaveUp = {} => Pending = {}
  /\ main \in {"audit", "exited"} => \A h \in Grpc : stage[h] = "idle"

ProcessInv == ProcessType /\ WgCounts /\ DrainInv

(* Requests move one handler between stages and leave main alone. *)
LEMMA ProcessInvHandler ==
  ASSUME ProcessInv, NEW h \in Handlers, UNCHANGED deletions,
         Receive(h) \/ HandlerStep(h) \/ Hang(h) \/ ClientLeaves(h)
  PROVE  ProcessInv'
<1>1. UNCHANGED <<jobs, wg, slots, main, gaveUp>>
  BY DEF deletions, process, Receive, Hang, ClientLeaves, HandlerStep, Answer, Finish, BadRequest, StatsHandler, Show,
         ShortenURLHandler, ShortenJSONHandler, Shorten, GRPCShortenURL, PostBatchShortenHandler,
         ExpandURLHandler, GRPCExpandURL, Expand, ListUserURLsHandler, GRPCListUserURLs, List,
         DeleteUserURLsHandler
<1>2. /\ stage[h] # "idle" \/ Accepting(h)
      /\ \E s \in Stages : stage' = [stage EXCEPT ![h] = s]
  BY DEF Stages, Receive, Hang, ClientLeaves, HandlerStep, Answer, Finish, BadRequest, StatsHandler,
         ShortenURLHandler, ShortenJSONHandler, Shorten, GRPCShortenURL, PostBatchShortenHandler,
         ExpandURLHandler, GRPCExpandURL, Expand, ListUserURLsHandler, GRPCListUserURLs, List,
         DeleteUserURLsHandler
<1>3. ProcessType' /\ WgCounts'
  BY <1>1, <1>2 DEF ProcessInv, ProcessType, WgCounts, Pending
<1>4. \A g \in Handlers : g # h => stage'[g] = stage[g]
  BY <1>2 DEF ProcessInv, ProcessType
<1>5. DrainInv'
  BY <1>1, <1>2, <1>4, ShortenerAssumption
  DEF ProcessInv, ProcessType, DrainInv, Pending, Accepting, Handlers
<1> QED
  BY <1>3, <1>5 DEF ProcessInv

(* waitGroup.Go: only a handler at work starts a deletion. *)
LEMMA ProcessInvDelete ==
  ASSUME ProcessInv, NEW h \in Handlers, DeleteUserURLsHandler(h)
  PROVE  ProcessInv'
<1>1. PICK user \in Users, ids \in DeleteLists \ {<<>>} :
        jobs' = Append(jobs, [user |-> user, ids |-> ids, phase |-> "waiting"])
  BY DEF DeleteUserURLsHandler
<1> DEFINE new == Len(jobs) + 1
<1>2. [user |-> user, ids |-> ids, phase |-> "waiting"] \in Job
  BY DEF Job, JobPhases
<1>3. /\ h \in Http /\ stage[h] = "received" /\ Len(jobs) < MaxDeletions /\ wg' = wg + 1
      /\ UNCHANGED <<slots, main, gaveUp>>
      /\ \E s \in Stages : stage' = [stage EXCEPT ![h] = s]
      /\ main \notin {"exited", "crashed"}
  BY DEF DeleteUserURLsHandler, Answer, process, Stages, Up
<1>4. jobs \in Seq(Job) /\ MaxDeletions \in Nat
  BY ShortenerAssumption DEF ProcessInv, ProcessType
<1>5. ProcessType'
  <2>1. jobs' \in Seq(Job) /\ Len(jobs') = Len(jobs) + 1
    BY <1>1, <1>2, <1>4
  <2>2. Len(jobs') <= MaxDeletions
    BY <1>3, <1>4, <2>1
  <2> QED
    BY <1>3, <2>1, <2>2 DEF ProcessInv, ProcessType
<1>6. Pending' = Pending \cup {new} /\ new \notin Pending
  BY <1>1, <1>4 DEF Pending
<1>7. WgCounts'
  BY <1>3, <1>6, FS_AddElement DEF ProcessInv, WgCounts
<1>8. \A g \in Handlers : g # h => stage'[g] = stage[g]
  BY <1>3 DEF ProcessInv, ProcessType
<1>9. DrainInv'
  BY <1>3, <1>8, ShortenerAssumption DEF ProcessInv, DrainInv, Handlers
<1> QED
  BY <1>5, <1>7, <1>9 DEF ProcessInv

LEMMA ProcessInvJob ==
  ASSUME ProcessInv, NEW j, JobStep(j)
  PROVE  ProcessInv'
<1>1. /\ j \in DOMAIN jobs /\ jobs[j].phase \in {"waiting", "running"}
      /\ UNCHANGED <<slots, stage, main, gaveUp>>
  BY DEF JobStep, Acquire, RunDeletion, FailDeletion, process
<1>2. PICK phase \in JobPhases :
        /\ jobs' = [jobs EXCEPT ![j].phase = phase]
        /\ IF phase = "running" THEN wg' = wg ELSE phase \in {"done", "failed"} /\ wg' = wg - 1
  BY DEF JobStep, Acquire, RunDeletion, FailDeletion, JobPhases
<1>3. jobs \in Seq(Job) /\ \A i \in DOMAIN jobs : jobs[i] \in Job
  BY DEF ProcessInv, ProcessType
<1>4. /\ DOMAIN jobs' = DOMAIN jobs
      /\ jobs'[j] = [jobs[j] EXCEPT !.phase = phase]
      /\ \A i \in DOMAIN jobs : i # j => jobs'[i] = jobs[i]
  BY <1>1, <1>2, <1>3
<1>5. jobs'[j] \in Job /\ jobs'[j].phase = phase
  BY <1>1, <1>3, <1>4 DEF Job
<1>6. ProcessType'
  <2>1. jobs' \in Seq(Job) /\ Len(jobs') = Len(jobs)
    BY <1>1, <1>2, <1>3, <1>4, <1>5
  <2> QED
    BY <1>1, <2>1 DEF ProcessInv, ProcessType
<1>7. Pending' = IF phase = "running" THEN Pending ELSE Pending \ {j}
  BY <1>1, <1>2, <1>4, <1>5 DEF Pending
<1>8. WgCounts'
  <2>1. j \in Pending
    BY <1>1 DEF Pending
  <2>2. IsFiniteSet(Pending \ {j}) /\ Cardinality(Pending \ {j}) = Cardinality(Pending) - 1
    BY <2>1, FS_RemoveElement DEF ProcessInv, WgCounts
  <2>3. CASE phase = "running"
    BY <1>2, <1>7, <2>3 DEF ProcessInv, WgCounts
  <2>4. CASE phase # "running"
    BY <1>2, <1>7, <2>2, <2>4 DEF ProcessInv, WgCounts
  <2> QED
    BY <2>3, <2>4
<1>9. DrainInv'
  BY <1>1, <1>7 DEF ProcessInv, DrainInv
<1> QED
  BY <1>6, <1>8, <1>9 DEF ProcessInv

(* The order of the shutdown: HTTP, deletions, gRPC, audit. *)
LEMMA ProcessInvMain ==
  ASSUME ProcessInv, Signal \/ Fatal \/ ShutdownStep
  PROVE  ProcessInv'
<1>1. UNCHANGED <<jobs, wg, slots, stage>>
  BY DEF Signal, Fatal, ShutdownStep, HttpShutdown, WaitForBackground, GracefulStop, StopAudit, deletions
<1>2. WgCounts'
  BY <1>1 DEF ProcessInv, WgCounts, Pending
<1>3. wg = 0 => Pending = {}
  BY FS_EmptySet DEF ProcessInv, WgCounts
<1>4. CASE Signal \/ Fatal
  BY <1>1, <1>2, <1>4 DEF Signal, Fatal, ProcessInv, ProcessType, MainStages, DrainInv
<1>5. CASE HttpShutdown
  BY <1>1, <1>2, <1>5 DEF HttpShutdown, ProcessInv, ProcessType, MainStages, DrainInv
<1>6. CASE WaitForBackground
  BY <1>1, <1>2, <1>3, <1>6
  DEF WaitForBackground, ProcessInv, ProcessType, MainStages, DrainInv, Pending
<1>7. CASE GracefulStop
  BY <1>1, <1>2, <1>7 DEF GracefulStop, ProcessInv, ProcessType, MainStages, DrainInv, Pending
<1>8. CASE StopAudit
  BY <1>1, <1>2, <1>8 DEF StopAudit, ProcessInv, ProcessType, MainStages, DrainInv, Pending
<1> QED
  BY <1>4, <1>5, <1>6, <1>7, <1>8 DEF ShutdownStep

LEMMA ProcessInvStep == ProcessInv /\ [Next]_vars => ProcessInv'
<1> SUFFICES ASSUME ProcessInv, [Next]_vars PROVE ProcessInv'
  OBVIOUS
<1>1. ASSUME NEW h \in Handlers, Receive(h) \/ Hang(h) \/ ClientLeaves(h) PROVE ProcessInv'
  BY <1>1, ProcessInvHandler DEF Receive, Hang, ClientLeaves
<1>2. ASSUME NEW h \in Handlers, HandlerStep(h) PROVE ProcessInv'
  <2>1. CASE DeleteUserURLsHandler(h)
    BY <2>1, ProcessInvDelete
  <2>2. CASE ~DeleteUserURLsHandler(h)
    <3>1. UNCHANGED deletions
      BY <1>2, <2>2
      DEF HandlerStep, Finish, BadRequest, StatsHandler, Show, ShortenURLHandler, ShortenJSONHandler,
          Shorten, GRPCShortenURL, PostBatchShortenHandler, ExpandURLHandler, GRPCExpandURL, Expand,
          ListUserURLsHandler, GRPCListUserURLs, List, deletions
    <3> QED
      BY <1>2, <3>1, ProcessInvHandler
  <2> QED
    BY <2>1, <2>2
<1>3. CASE UNCHANGED vars
  BY <1>3 DEF vars, ProcessInv, ProcessType, WgCounts, Pending, DrainInv
<1> QED
  BY <1>1, <1>2, <1>3, ProcessInvJob, ProcessInvMain DEF Next

-----------------------------------------------------------------------------
Inv == StoreInv /\ ProcessInv

LEMMA InvInit == Init => Inv
<1> SUFFICES ASSUME Init PROVE Inv
  OBVIOUS
<1>1. StoreInv
  BY DEF Init, StoreInv, StoreType, Maps, CreatorInv, LinksResolve, DeletedByOwner, Present
<1>2. Pending = {}
  BY DEF Init, Pending
<1>3. ProcessInv
  BY <1>2, FS_EmptySet, ShortenerAssumption
  DEF Init, ProcessInv, ProcessType, WgCounts, DrainInv, MainStages, Stages
<1> QED
  BY <1>1, <1>3 DEF Inv

LEMMA InvStep == Inv /\ [Next]_vars => Inv'
BY StoreInvStep, ProcessInvStep DEF Inv, ProcessInv, ProcessType

LEMMA InvHolds == Spec => []Inv
BY InvInit, InvStep, PTL DEF Spec

(* Every variable is always of its type: in particular the counter of the  *)
(* wait group never goes below zero, which would panic.                    *)
THEOREM TypeCorrect == Spec => []TypeOK
<1>1. Inv => TypeOK
  BY FS_CardinalityType DEF Inv, StoreInv, StoreType, ProcessInv, ProcessType, WgCounts, TypeOK
<1> QED
  BY <1>1, InvHolds, PTL

(* A short link names a row with the URL it was handed out for, in every   *)
(* state and whatever requests, duplicates, batches, failed calls and      *)
(* deletions came in between; the row may be deleted.                      *)
THEOREM LinksAlwaysResolve == Spec => []LinksResolve
<1>1. Inv => LinksResolve
  BY DEF Inv, StoreInv
<1> QED
  BY <1>1, InvHolds, PTL

(* Only the creator of a link can have it deleted, however late the        *)
(* background deletion runs and even if it takes effect and then fails.    *)
THEOREM OnlyOwnersDelete == Spec => []DeletedByOwner
<1>1. Inv => DeletedByOwner
  BY DEF Inv, StoreInv
<1> QED
  BY <1>1, InvHolds, PTL

(* A shutdown in which no wait timed out has carried out or failed every   *)
(* accepted deletion and has cut off no request.                           *)
THEOREM ShutdownIsClean == Spec => []CleanShutdown
<1>1. Inv => CleanShutdown
  <2> SUFFICES ASSUME Inv, main = "exited", gaveUp = {}
               PROVE  /\ \A j \in DOMAIN jobs : jobs[j].phase \in {"done", "failed"}
                      /\ \A h \in Handlers : stage[h] = "idle"
    BY DEF CleanShutdown
  <2>1. Pending = {} /\ \A h \in Http \cup Grpc : stage[h] = "idle"
    BY DEF Inv, ProcessInv, DrainInv
  <2>2. \A j \in DOMAIN jobs : jobs[j].phase \in JobPhases
    <3>1. \A j \in DOMAIN jobs : jobs[j] \in Job
      BY DEF Inv, ProcessInv, ProcessType
    <3> QED
      BY <3>1 DEF Job
  <2> QED
    BY <2>1, <2>2 DEF Pending, JobPhases, Handlers
<1> QED
  BY <1>1, InvHolds, PTL

=============================================================================

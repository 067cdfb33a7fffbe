--------------------------------- MODULE Web ---------------------------------
(* The middlewares every request goes through and the clients behind them: *)
(* GzipMiddleware wraps the response in a compressWriter from a pool,      *)
(* AuthMiddleware reads the client's cookie or creates a user and sets     *)
(* one, and the handler writes.  The cookie and the body reach whatever    *)
(* response the pooled writer points to.                                   *)
EXTENDS Naturals, FiniteSets

CONSTANTS Requests,  \* request goroutines
          Clients,   \* programs that keep cookies
          Users,     \* values of utils.GenerateUserID
          Writers,   \* compressWriter objects
          Secrets,   \* values of COOKIE_SECRET
          Blank,     \* where a zeroed gzip.Writer writes to
          None

(* sync.Pool allocates when it is empty; here it never is. *)
ASSUME WebAssumption ==
  /\ IsFiniteSet(Requests) /\ IsFiniteSet(Writers) /\ IsFiniteSet(Users)
  /\ Cardinality(Writers) >= Cardinality(Requests)
  /\ None \notin Requests \cup Clients \cup Users \cup Writers \cup Secrets
  /\ Blank \notin Requests \cup {None}

VARIABLES stage,    \* where each request is in the chain
          client,   \* who sent it
          sent,     \* the user of the cookie it carries
          user,     \* the user AuthMiddleware put in its context
          writer,   \* its compressWriter
          object,   \* the compressWriters
          pool,     \* those in compressWriterPool
          cookie,   \* Set-Cookie of its response
          body,     \* the requests whose output its response contains
          jar,      \* the cookie of each client, by its user
          signed,   \* the secret each user's token was signed with
          expired   \* users whose 24 hours are over

webVars == <<stage, client, sent, user, writer, object, pool, cookie, body, jar, signed, expired>>

Stages == {"idle", "received", "wrapped", "public", "protected", "written", "closed", "answered"}

Object == [w: Requests \cup {None}, zw: Requests \cup {None, Blank},
           compressed: BOOLEAN, wroteHeader: BOOLEAN]

Zero == [w |-> None, zw |-> None, compressed |-> FALSE, wroteHeader |-> FALSE]

WebTypeOK ==
  /\ stage \in [Requests -> Stages]
  /\ client \in [Requests -> Clients \cup {None}]
  /\ sent \in [Requests -> Users \cup {None}]
  /\ user \in [Requests -> Users \cup {None}]
  /\ \A r \in Requests : stage[r] = "protected" => user[r] \in Users
  /\ writer \in [Requests -> Writers \cup {None}]
  /\ object \in [Writers -> Object]
  /\ pool \subseteq Writers
  /\ cookie \in [Requests -> Users \cup {None}]
  /\ body \in [Requests -> SUBSET Requests]
  /\ jar \in [Clients -> Users \cup {None}]
  /\ signed \in [Users -> Secrets \cup {None}]
  /\ expired \subseteq Users

WebInit ==
  /\ stage = [r \in Requests |-> "idle"]
  /\ client = [r \in Requests |-> None]
  /\ sent = [r \in Requests |-> None]
  /\ user = [r \in Requests |-> None]
  /\ writer = [r \in Requests |-> None]
  /\ object = [o \in Writers |-> Zero]
  /\ pool = Writers
  /\ cookie = [r \in Requests |-> None]
  /\ body = [r \in Requests |-> {}]
  /\ jar = [c \in Clients |-> None]
  /\ signed = [u \in Users |-> None]
  /\ expired = {}

identity == <<client, sent, jar, signed, expired>>
response == <<cookie, body>>

Goto(r, next) == stage' = [stage EXCEPT ![r] = next]

Unused == {u \in Users : signed[u] = None}

-----------------------------------------------------------------------------
(* The client sends what is in its jar when it sends.  Users are a bound:  *)
(* a first request needs one that is left.                                 *)
Send(r) ==
  /\ stage[r] = "idle"
  /\ \E c \in Clients :
       /\ jar[c] = None =>
            Cardinality(Unused) > Cardinality({q \in Requests : stage[q] \in {"received", "wrapped"} /\ sent[q] = None})
       /\ client' = [client EXCEPT ![r] = c]
       /\ sent' = [sent EXCEPT ![r] = jar[c]]
  /\ Goto(r, "received")
  /\ UNCHANGED <<user, writer, object, pool, response, jar, signed, expired>>

(* GzipMiddleware: newCompressWriter when the client accepts gzip. *)
Wrap(r) ==
  /\ stage[r] = "received"
  /\ \E o \in pool :
       /\ pool' = pool \ {o}
       /\ object' = [object EXCEPT ![o].w = r]
       /\ writer' = [writer EXCEPT ![r] = o]
  /\ Goto(r, "wrapped")
  /\ UNCHANGED <<identity, user, response>>

Unwrapped(r) ==
  /\ stage[r] = "received"
  /\ Goto(r, "wrapped")
  /\ UNCHANGED <<identity, user, writer, object, pool, response>>

(* A body that is not gzip: 500, written past the compressWriter. *)
ReaderFails(r) ==
  /\ stage[r] = "wrapped"
  /\ body' = [body EXCEPT ![r] = @ \cup {r}]
  /\ Goto(r, "written")
  /\ UNCHANGED <<identity, user, writer, object, pool, cookie>>

(* The response the middlewares and the handler write to: w.Header() of a  *)
(* compressWriter is the header of the response it points to.              *)
Target(r) == IF writer[r] = None THEN r ELSE object[writer[r]].w

(* Output of r, as JSON or in plain text.  The first write fixes whether   *)
(* the writer compresses; compressed output appears when it is closed.     *)
Write(r, json) ==
  /\ IF writer[r] = None
     THEN body' = [body EXCEPT ![r] = @ \cup {r}] /\ UNCHANGED object
     ELSE LET o == object[writer[r]]
              now == IF o.wroteHeader THEN o
                     ELSE [o EXCEPT !.wroteHeader = TRUE, !.compressed = json,
                                    !.zw = IF json THEN o.w ELSE None]
          IN  /\ object' = [object EXCEPT ![writer[r]] = now]
              /\ body' = [q \in Requests |->
                            IF ~now.compressed /\ q = now.w THEN body[q] \cup {r} ELSE body[q]]
  /\ Goto(r, "written")
  /\ UNCHANGED <<identity, user, writer, pool, cookie>>

-----------------------------------------------------------------------------
(* AuthMiddleware, with the secret it was built with. *)
Valid(u, secret) == u \notin expired /\ signed[u] = secret

(* Seeded faults: a new user for a cookie that is not valid; one user id   *)
(* for the whole process.                                                  *)
NewUserForInvalid(r, secret) == ~(sent[r] # None /\ Valid(sent[r], secret))

SameUser == IF Unused = Users THEN Users ELSE Users \ Unused

(* no cookie -> create new user *)
NeedsUser(r, secret) == sent[r] = None

(* utils.GenerateUserID *)
NewUsers == Unused

CreateUser(r, secret) ==
  /\ stage[r] = "wrapped" /\ NeedsUser(r, secret)
  /\ \E u \in NewUsers :
       /\ user' = [user EXCEPT ![r] = u]
       /\ signed' = [signed EXCEPT ![u] = secret]
       /\ cookie' = [q \in Requests |-> IF q = Target(r) THEN u ELSE cookie[q]]
  /\ Goto(r, "protected")
  /\ UNCHANGED <<client, sent, jar, expired, writer, object, pool, body>>

Authenticate(r, secret) ==
  /\ stage[r] = "wrapped" /\ sent[r] # None /\ Valid(sent[r], secret)
  /\ user' = [user EXCEPT ![r] = sent[r]]
  /\ Goto(r, "protected")
  /\ UNCHANGED <<identity, writer, object, pool, response>>

(* Seeded fault: 401 without the return after it. *)
UnauthorizedGoesOn(r, secret) ==
  /\ stage[r] = "wrapped" /\ sent[r] # None /\ ~Valid(sent[r], secret)
  /\ Goto(r, "protected")
  /\ UNCHANGED <<identity, user, writer, object, pool, response>>

(* invalid cookie -> 401 *)
Unauthorized(r, secret) ==
  /\ stage[r] = "wrapped" /\ sent[r] # None /\ ~Valid(sent[r], secret)
  /\ Write(r, FALSE)

(* TrustedSubnetMiddleware: 403 to clients outside of the subnet. *)
Forbidden(r) == stage[r] = "wrapped" /\ Write(r, FALSE)

(* /ping, /{id}, and the statistics for the trusted subnet. *)
Public(r) ==
  /\ stage[r] = "wrapped"
  /\ Goto(r, "public")
  /\ UNCHANGED <<identity, user, writer, object, pool, response>>

Handle(r) == stage[r] \in {"public", "protected"} /\ \E json \in BOOLEAN : Write(r, json)

(* GRPCAuthInterceptor: the token is in the metadata; no user is created.  *)
GRPCAuthenticate(r, secret) ==
  /\ stage[r] = "received"
  /\ user' = [user EXCEPT ![r] = IF sent[r] # None /\ Valid(sent[r], secret) THEN sent[r] ELSE None]
  /\ body' = [body EXCEPT ![r] = {r}]
  /\ Goto(r, "answered")
  /\ UNCHANGED <<identity, writer, object, pool, cookie>>

-----------------------------------------------------------------------------
(* The deferred cw.Close(): zw.Close() flushes to the response the gzip    *)
(* writer was made for, the pointers are cleared, and the pool's Put       *)
(* resets the object before it is free.                                    *)
Flushed(r) ==
  [q \in Requests |-> IF q = object[writer[r]].zw THEN body[q] \cup {r} ELSE body[q]]

(* Seeded fault: the writer is free before it has been reset. *)
PublishFirst(r) ==
  /\ stage[r] = "written" /\ writer[r] # None
  /\ pool' = pool \cup {writer[r]}
  /\ object' = [object EXCEPT ![writer[r]].w = None, ![writer[r]].zw = None]
  /\ body' = Flushed(r)
  /\ Goto(r, "closed")
  /\ UNCHANGED <<identity, user, writer, cookie>>

CloseWriter(r) ==
  /\ stage[r] = "written" /\ writer[r] # None
  /\ object' = [object EXCEPT ![writer[r]].w = None, ![writer[r]].zw = None]
  /\ body' = Flushed(r)
  /\ Goto(r, "closed")
  /\ UNCHANGED <<identity, user, writer, pool, cookie>>

(* Seeded fault: a generated Reset that misses the two flags. *)
ResetPointers(o) == [o EXCEPT !.w = None, !.zw = IF o.zw = None THEN None ELSE Blank]

(* The pointer to a gzip.Writer stays, to a writer that is zeroed. *)
Reset(o) == [Zero EXCEPT !.zw = IF o.zw = None THEN None ELSE Blank]

PutWriter(r) ==
  /\ stage[r] = "closed"
  /\ object' = [object EXCEPT ![writer[r]] = Reset(@)]
  /\ pool' = pool \cup {writer[r]}
  /\ writer' = [writer EXCEPT ![r] = None]
  /\ Goto(r, "answered")
  /\ UNCHANGED <<identity, user, response>>

NoWriter(r) ==
  /\ stage[r] = "written" /\ writer[r] = None
  /\ Goto(r, "answered")
  /\ UNCHANGED <<identity, user, writer, object, pool, response>>

(* The client reads the response; answers overtake each other. *)
Deliver(r) ==
  /\ stage[r] = "answered"
  /\ jar' = IF cookie[r] = None THEN jar ELSE [jar EXCEPT ![client[r]] = cookie[r]]
  /\ Goto(r, "idle")
  /\ client' = [client EXCEPT ![r] = None]
  /\ sent' = [sent EXCEPT ![r] = None]
  /\ user' = [user EXCEPT ![r] = None]
  /\ cookie' = [cookie EXCEPT ![r] = None]
  /\ body' = [body EXCEPT ![r] = {}]
  /\ UNCHANGED <<signed, expired, writer, object, pool>>

(* The 24 hours of a token are over.  Its cookie has neither Expires nor   *)
(* MaxAge, and the client keeps it.                                        *)
Expire ==
  /\ \E u \in Users \ (expired \cup Unused) : expired' = expired \cup {u}
  /\ UNCHANGED <<stage, client, sent, user, writer, object, pool, response, jar, signed>>

(* The session of a client ends, a browser is closed: its cookie is gone. *)
EndSession ==
  /\ \E c \in Clients : jar[c] # None /\ jar' = [jar EXCEPT ![c] = None]
  /\ UNCHANGED <<stage, client, sent, user, writer, object, pool, response, signed, expired>>

Serve(r, secret) ==
  \/ Send(r) \/ Wrap(r) \/ Unwrapped(r) \/ ReaderFails(r)
  \/ CreateUser(r, secret) \/ Authenticate(r, secret) \/ Unauthorized(r, secret)
  \/ Forbidden(r) \/ Public(r) \/ GRPCAuthenticate(r, secret) \/ Handle(r)
  \/ CloseWriter(r) \/ PutWriter(r) \/ NoWriter(r) \/ Deliver(r)

-----------------------------------------------------------------------------
(* A compressWriter serves one request at a time, and from its Get to its  *)
(* Close it points to the response of that request (gzip.go:29-35, 70-82). *)
OwnWriter ==
  \A r \in Requests :
    writer[r] # None =>
      /\ writer[r] \notin pool
      /\ \A q \in Requests \ {r} : writer[q] # writer[r]
      /\ stage[r] # "closed" => object[writer[r]].w = r

(* A response carries the output of its own request, all of it once the    *)
(* chain has returned, and nothing of another one, compressed or not,      *)
(* whoever used the writer before.                                         *)
OwnResponse ==
  \A r \in Requests :
    /\ body[r] \subseteq {r}
    /\ stage[r] = "answered" => body[r] = {r}

(* Nobody gets a cookie that was made for another client: no two clients   *)
(* act as one user.                                                        *)
OneClientPerUser ==
  \A c, d \in Clients : c # d /\ jar[c] # None => jar[c] # jar[d]

(* A client changes its user in two ways: its session ends, or a request   *)
(* that it sent without a cookie is answered, with the user this request   *)
(* was served as.  Of two such requests the last answer wins; no 401,      *)
(* expiry or restart with another secret gives the client another user     *)
(* (auth.go:82-85: a user is made for a missing cookie, not an invalid).   *)
StableIdentity ==
  [][\A c \in Clients : jar'[c] # jar[c] =>
       \/ jar'[c] = None
       \/ \E r \in Requests : client[r] = c /\ sent[r] = None /\ user[r] = jar'[c]]_webVars

(* jwt.go:23 "expires in 24 hours", of the cookie: a client does not keep  *)
(* it for longer.                                                          *)
CookieExpires == \A c \in Clients : jar[c] \notin expired
=============================================================================

---------------------------- MODULE ServerProofs ----------------------------
(* Proofs about Server, and Web and Config in it, for every number of      *)
(* requests, clients, users and pooled writers and every deployment.       *)
EXTENDS Server, TLAPS

-----------------------------------------------------------------------------
(* The configuration.                                                      *)

(* The value of a setting as far as each step of the loading has taken it. *)
Found(s) ==
  IF s # "ConfigFilePath" THEN "default"
  ELSE IF "flag" \in given[s] THEN "flag"
  ELSE IF Environ(s) # "unset" THEN Environ(s) ELSE "default"

Fallback(s) == IF FileGives(s) THEN "file" ELSE Found(s)

Loaded(s) == IF OnCommandLine(s) THEN "flag" ELSE Fallback(s)

Effective(s) == IF Environ(s) # "unset" THEN Environ(s) ELSE Loaded(s)

ConfigType ==
  /\ given \in [Settings -> SUBSET Sources]
  /\ fromFile \in BOOLEAN
  /\ config \in [Settings -> Values]
  /\ step \in LoadSteps \cup BuildSteps \cup {"serving", "down"}

(* EffectiveValue says nothing until the configuration is complete; this   *)
(* says what it is after each source.                                      *)
LoadInv ==
  \A s \in Settings :
    /\ step \in {"down", "dotenv", "path"} => config[s] = "default"
    /\ step = "file" => config[s] = Found(s)
    /\ step = "flags" => config[s] = Fallback(s)
    /\ step = "env" => config[s] = Loaded(s)
    /\ step = "https" => config[s] = Effective(s)
    /\ step \in BuildSteps =>
         config[s] = Effective(s) \/ (s = "RunAddr" /\ Effective(s) = "default" /\ config[s] = "port 443")
    /\ config[s] = "port 443" => s = "RunAddr"

(* The middlewares never check tokens with a secret that is not there. *)
SecretInv ==
  /\ secret \in Secrets \cup {None}
  /\ step \in {"tls", "serving"} => secret \in Secrets

ConfigInv == ConfigType /\ LoadInv /\ SecretInv

LEMMA ConfigInvInit == Init => ConfigInv
BY DEF Init, NothingGiven, Defaults, Values, ConfigInv, ConfigType, LoadInv, SecretInv, BuildSteps

(* The process ends. *)
LEMMA ConfigInvDown == ConfigInv /\ Down => ConfigInv'
BY DEF Down, NothingGiven, Defaults, Values, ConfigInv, ConfigType, LoadInv, SecretInv, BuildSteps

LEMMA ConfigInvLoad == ConfigInv /\ Load /\ UNCHANGED secret => ConfigInv'
<1> SUFFICES ASSUME ConfigInv, Load, UNCHANGED secret PROVE ConfigInv'
  OBVIOUS
<1> USE DEF ConfigInv, ConfigType, LoadInv, SecretInv, Advance, LoadSteps, BuildSteps, Values
<1>1. \A s \in Settings : Environ(s) \in {"env", "dotenv", "unset"}
  BY DEF Environ
<1>2. CASE LoadDotenv
  BY <1>2 DEF LoadDotenv
<1>3. CASE FindConfigFile
  <2>1. "ConfigFilePath" \in Settings
    BY ConfigAssumption
  <2>2. \A s \in Settings : config[s] = "default" /\ Found(s)' = Found(s) /\ Found(s) \in {"default", "flag", "env", "dotenv"}
    BY <1>1, <1>3 DEF FindConfigFile, Found, Environ
  <2>3. config' = [config EXCEPT !["ConfigFilePath"] = Found("ConfigFilePath")]
    BY <1>3 DEF FindConfigFile, Found
  <2>4. \A s \in Settings : config'[s] = Found(s)
    BY <2>2, <2>3 DEF Found
  <2>5. config' \in [Settings -> Values]
    BY <2>1, <2>2, <2>3
  <2>6. step' = "file" /\ UNCHANGED <<given, secret>> /\ fromFile' \in BOOLEAN
    BY <1>3 DEF FindConfigFile
  <2>7. LoadInv'
    BY <2>2, <2>4, <2>6
  <2> QED
    BY <2>5, <2>6, <2>7
<1>4. CASE ReadConfigFile
  <2>1. \A s \in Settings : Fallback(s)' = Fallback(s) /\ Fallback(s) # "port 443"
    BY <1>1, <1>4 DEF ReadConfigFile, Fallback, Found, FileGives, Environ
  <2>2. \A s \in Settings : config'[s] = Fallback(s)
    BY <1>4 DEF ReadConfigFile, Fallback
  <2>3. step' = "flags" /\ UNCHANGED <<given, fromFile, secret>> /\ config' \in [Settings -> Values]
    BY <1>4 DEF ReadConfigFile
  <2>4. LoadInv'
    BY <2>1, <2>2, <2>3
  <2> QED
    BY <2>3, <2>4
<1>5. CASE ParseFlags
  <2>1. \A s \in Settings : Loaded(s)' = Loaded(s) /\ Loaded(s) # "port 443"
    BY <1>1, <1>5 DEF ParseFlags, Loaded, Fallback, Found, FileGives, Environ, OnCommandLine
  <2>2. \A s \in Settings : config'[s] = Loaded(s)
    BY <1>5 DEF ParseFlags, Loaded
  <2>3. step' = "env" /\ UNCHANGED <<given, fromFile, secret>> /\ config' \in [Settings -> Values]
    BY <1>5 DEF ParseFlags
  <2>4. LoadInv'
    BY <2>1, <2>2, <2>3
  <2> QED
    BY <2>3, <2>4
<1>6. CASE ParseEnv
  <2>1. \A s \in Settings : config'[s] = Effective(s)
    BY <1>6 DEF ParseEnv, Effective
  <2>2. \A s \in Settings : Effective(s)' = Effective(s)
    BY <1>6 DEF ParseEnv, Effective, Environ, Loaded, Fallback, Found, FileGives, OnCommandLine
  <2>3. config' \in [Settings -> Values]
    BY <1>1, <1>6 DEF ParseEnv
  <2>4. \A s \in Settings : Effective(s) # "port 443"
    BY <1>1 DEF Effective, Loaded, Fallback, Found
  <2>5. step' = "https" /\ UNCHANGED <<given, fromFile, secret>>
    BY <1>6 DEF ParseEnv
  <2>6. LoadInv'
    BY <2>1, <2>2, <2>4, <2>5
  <2> QED
    BY <2>3, <2>5, <2>6
<1>7. CASE DefaultHTTPSPort
  <2>1. \A s \in Settings : Effective(s)' = Effective(s)
    BY <1>7 DEF DefaultHTTPSPort, Effective, Environ, Loaded, Fallback, Found, FileGives, OnCommandLine
  <2>2. CASE config' = config
    BY <1>7, <2>1, <2>2 DEF DefaultHTTPSPort
  <2>3. CASE config["RunAddr"] = "default" /\ config' = [config EXCEPT !["RunAddr"] = "port 443"]
    <3>1. \A s \in Settings : IF s = "RunAddr" THEN config'[s] = "port 443" ELSE config'[s] = config[s]
      BY <2>3
    <3>2. config' \in [Settings -> Values]
      BY <2>3
    <3>3. step = "https" /\ step' = "logger" /\ UNCHANGED <<given, fromFile, secret>>
      BY <1>7 DEF DefaultHTTPSPort
    <3>4. \A s \in Settings : config[s] = Effective(s) /\ (config[s] = "port 443" => s = "RunAddr")
      BY <3>3
    <3>5. LoadInv'
      BY <2>1, <2>3, <3>1, <3>3, <3>4
    <3> QED
      BY <3>2, <3>3, <3>5
  <2> QED
    BY <1>7, <2>2, <2>3 DEF DefaultHTTPSPort
<1> QED
  BY <1>2, <1>3, <1>4, <1>5, <1>6, <1>7 DEF Load

LEMMA ConfigInvStep == ConfigInv /\ [Next]_vars => ConfigInv'
<1> SUFFICES ASSUME ConfigInv, [Next]_vars PROVE ConfigInv'
  OBVIOUS
<1>1. ASSUME UNCHANGED <<given, fromFile, config>>
      PROVE  \A s \in Settings : Effective(s)' = Effective(s)
  BY <1>1 DEF Effective, Environ, Loaded, Fallback, Found, FileGives, OnCommandLine
<1>2. CASE Start
  BY <1>2, ConfigAssumption DEF Start, ConfigInv, ConfigType, LoadInv, SecretInv, LoadSteps, BuildSteps
<1>3. CASE Fatal \/ Stop
  BY <1>3, ConfigInvDown DEF Fatal, Stop
<1>4. CASE Initialize \/ GetStorage \/ InitAudit
  BY <1>1, <1>4
  DEF Initialize, GetStorage, InitAudit, Advance, ConfigInv, ConfigType, LoadInv, SecretInv, BuildSteps
<1>5. CASE NewServer
  <2>1. config["CookieSecret"] \in Values \ {"port 443"}
    BY ServerAssumption DEF ConfigInv, ConfigType, LoadInv
  <2> QED
    BY <1>1, <1>5, <2>1, ServerAssumption
    DEF NewServer, Advance, ConfigInv, ConfigType, LoadInv, SecretInv, BuildSteps
<1>6. CASE ListenAndServe
  BY <1>6 DEF ListenAndServe, Advance, NothingGiven, Defaults, Values, ConfigInv, ConfigType, LoadInv,
              SecretInv, BuildSteps
<1>7. CASE UNCHANGED <<configVars, secret>>
  <2>1. UNCHANGED <<given, fromFile, config, step, secret>>
    BY <1>7 DEF configVars
  <2>2. \A s \in Settings : /\ Effective(s)' = Effective(s) /\ Loaded(s)' = Loaded(s)
                            /\ Fallback(s)' = Fallback(s) /\ Found(s)' = Found(s)
    BY <2>1 DEF Effective, Environ, Loaded, Fallback, Found, FileGives, OnCommandLine
  <2> QED
    BY <2>1, <2>2 DEF ConfigInv, ConfigType, LoadInv, SecretInv
<1> QED
  BY <1>2, <1>3, <1>4, <1>5, <1>6, <1>7, ConfigInvLoad DEF Next, vars

(* The service is built from the strongest source of each setting, for     *)
(* whatever the operator gives.                                            *)
THEOREM EffectiveConfig == Spec => []EffectiveValue
<1>1. ConfigInv => EffectiveValue
  <2> SUFFICES ASSUME ConfigInv, step \in BuildSteps, NEW s \in Settings
               PROVE  LET expected ==
                            CASE Environ(s) # "unset" -> Environ(s)
                              [] Environ(s) = "unset" /\ OnCommandLine(s) -> "flag"
                              [] OTHER -> IF FileGives(s) THEN "file" ELSE "default"
                      IN  \/ config[s] = expected
                          \/ s = "RunAddr" /\ expected = "default" /\ config[s] = "port 443"
    BY DEF EffectiveValue
  <2>1. Effective(s) =
          CASE Environ(s) # "unset" -> Environ(s)
            [] Environ(s) = "unset" /\ OnCommandLine(s) -> "flag"
            [] OTHER -> IF FileGives(s) THEN "file" ELSE "default"
    BY DEF Effective, Loaded, Fallback, Found, OnCommandLine
  <2> QED
    BY <2>1 DEF ConfigInv, LoadInv
<1> QED
  BY <1>1, ConfigInvInit, ConfigInvStep, PTL DEF Spec

-----------------------------------------------------------------------------
(* The compressWriters and the responses.                                  *)

Busy == {"wrapped", "public", "protected"}

(* A writer in the pool is as new; one in use belongs to one request. *)
PoolInv ==
  /\ \A o \in pool : object[o] = Zero
  /\ \A r \in Requests : writer[r] # None =>
       writer[r] \notin pool /\ \A q \in Requests \ {r} : writer[q] # writer[r]

(* The writer of r has written nothing before the handler of r has, and    *)
(* flushes to no other response.                                           *)
WriterHolds(r) ==
  /\ stage[r] = "closed" => writer[r] # None /\ object[writer[r]].zw = None
  /\ writer[r] # None =>
       /\ stage[r] \in Busy \cup {"written", "closed"}
       /\ stage[r] # "closed" => object[writer[r]].w = r
       /\ stage[r] \in Busy => ~object[writer[r]].wroteHeader /\ object[writer[r]].zw = None
       /\ object[writer[r]].zw \in {None, r}

(* What r has put out is in its response, or in the gzip writer that will  *)
(* be flushed to it.                                                       *)
BodyHolds(r) ==
  /\ stage[r] \in {"idle", "received"} \cup Busy => body[r] = {}
  /\ stage[r] = "written" =>
       body[r] = {r} \/ (body[r] = {} /\ writer[r] # None /\ object[writer[r]].zw = r)
  /\ stage[r] \in {"closed", "answered"} => body[r] = {r}

ResponseInv == WebTypeOK /\ PoolInv /\ \A r \in Requests : WriterHolds(r) /\ BodyHolds(r)

LEMMA ResponseInvInit == WebInit => ResponseInv
<1> SUFFICES ASSUME WebInit PROVE ResponseInv
  OBVIOUS
<1>1. WebTypeOK
  BY DEF WebInit, WebTypeOK, Stages, Object, Zero
<1>2. PoolInv /\ \A r \in Requests : WriterHolds(r) /\ BodyHolds(r)
  BY DEF WebInit, PoolInv, WriterHolds, BodyHolds
<1> QED
  BY <1>1, <1>2 DEF ResponseInv

(* Whom a step leaves alone, with its writer, is where it was. *)
LEMMA OthersKept ==
  ASSUME NEW q \in Requests, WriterHolds(q), BodyHolds(q),
         stage'[q] = stage[q], writer'[q] = writer[q], body'[q] = body[q],
         writer[q] # None => object'[writer[q]] = object[writer[q]]
  PROVE  (WriterHolds(q) /\ BodyHolds(q))'
BY DEF WriterHolds, BodyHolds

(* Steps that do not touch the writers. *)
LEMMA WritersUntouched ==
  ASSUME ResponseInv, WebTypeOK', NEW r \in Requests,
         UNCHANGED <<writer, object, pool>>,
         \A q \in Requests : q # r => stage'[q] = stage[q] /\ body'[q] = body[q],
         (WriterHolds(r) /\ BodyHolds(r))'
  PROVE  ResponseInv'
<1>1. \A q \in Requests : (WriterHolds(q) /\ BodyHolds(q))'
  BY OthersKept DEF ResponseInv
<1>2. PoolInv'
  BY DEF ResponseInv, PoolInv
<1> QED
  BY <1>1, <1>2 DEF ResponseInv

LEMMA WriteType ==
  ASSUME WebTypeOK, NEW r \in Requests, NEW json \in BOOLEAN, Write(r, json)
  PROVE  WebTypeOK'
<1>1. stage' = [stage EXCEPT ![r] = "written"] /\ UNCHANGED <<client, sent, jar, signed, expired, user, writer, pool, cookie>>
  BY DEF Write, Goto, identity
<1>2. CASE writer[r] = None
  BY <1>1, <1>2 DEF Write, WebTypeOK, Stages
<1>3. CASE writer[r] # None
  <2> DEFINE o == object[writer[r]]
             now == IF o.wroteHeader THEN o
                    ELSE [o EXCEPT !.wroteHeader = TRUE, !.compressed = json,
                                   !.zw = IF json THEN o.w ELSE None]
  <2>1. writer[r] \in Writers /\ o \in Object
    BY <1>3 DEF WebTypeOK
  <2>2. /\ object' = [object EXCEPT ![writer[r]] = now]
        /\ body' = [q \in Requests |-> IF ~now.compressed /\ q = now.w THEN body[q] \cup {r} ELSE body[q]]
    BY <1>3 DEF Write
  <2>3. now \in Object
    BY <2>1 DEF Object
  <2> HIDE DEF o, now
  <2>4. object' \in [Writers -> Object] /\ body' \in [Requests -> SUBSET Requests]
    BY <2>1, <2>2, <2>3 DEF WebTypeOK
  <2> QED
    BY <1>1, <2>4 DEF WebTypeOK, Stages
<1> QED
  BY <1>2, <1>3

(* The output of a handler: to its response, or to the gzip writer for it. *)
LEMMA WriteStep ==
  ASSUME ResponseInv, NEW r \in Requests, stage[r] \in Busy, NEW json \in BOOLEAN, Write(r, json)
  PROVE  ResponseInv'
<1>1. /\ WebTypeOK /\ WebTypeOK' /\ PoolInv /\ BodyHolds(r) /\ WriterHolds(r)
      /\ \A q \in Requests : WriterHolds(q) /\ BodyHolds(q)
      /\ None \notin Requests \cup Writers
  BY WriteType, WebAssumption DEF ResponseInv
<1>2. /\ stage'[r] = "written" /\ \A q \in Requests : q # r => stage'[q] = stage[q]
      /\ UNCHANGED <<writer, pool>>
  BY <1>1 DEF Write, Goto, WebTypeOK
<1>3. body[r] = {}
  BY <1>1 DEF BodyHolds, Busy
<1>4. CASE writer[r] = None
  <2>1. /\ UNCHANGED object /\ body'[r] = {r} /\ \A q \in Requests : q # r => body'[q] = body[q]
    BY <1>1, <1>3, <1>4 DEF Write, WebTypeOK
  <2>2. (WriterHolds(r) /\ BodyHolds(r))'
    BY <1>2, <1>4, <2>1 DEF WriterHolds, BodyHolds, Busy
  <2> QED
    BY <1>1, <1>2, <2>1, <2>2, WritersUntouched
<1>5. CASE writer[r] # None
  <2> DEFINE o == object[writer[r]]
             now == IF o.wroteHeader THEN o
                    ELSE [o EXCEPT !.wroteHeader = TRUE, !.compressed = json,
                                   !.zw = IF json THEN o.w ELSE None]
  <2>1. /\ writer[r] \in Writers /\ o \in Object /\ ~o.wroteHeader /\ o.w = r
        /\ writer[r] \notin pool /\ \A q \in Requests \ {r} : writer[q] # writer[r]
    BY <1>1, <1>5 DEF WebTypeOK, WriterHolds, PoolInv, Busy
  <2>2. /\ object' = [object EXCEPT ![writer[r]] = now]
        /\ body' = [q \in Requests |-> IF ~now.compressed /\ q = now.w THEN body[q] \cup {r} ELSE body[q]]
    BY <1>5 DEF Write
  <2>3. now.w = r /\ now.compressed = json /\ now.zw = IF json THEN r ELSE None
    BY <2>1 DEF Object
  <2> HIDE DEF o, now
  <2>4. /\ object'[writer[r]] = now
        /\ \A x \in Writers : x # writer[r] => object'[x] = object[x]
        /\ \A q \in Requests : body'[q] = IF ~json /\ q = r THEN {r} ELSE body[q]
    BY <1>1, <1>3, <2>1, <2>2, <2>3 DEF WebTypeOK
  <2>5. (WriterHolds(r) /\ BodyHolds(r))'
    BY <1>2, <1>3, <1>5, <2>3, <2>4 DEF WriterHolds, BodyHolds, Busy
  <2>6. \A q \in Requests : q # r => (WriterHolds(q) /\ BodyHolds(q))'
    BY <1>1, <1>2, <2>1, <2>4, OthersKept DEF WebTypeOK
  <2>7. PoolInv'
    BY <1>1, <1>2, <2>1, <2>4 DEF PoolInv, WebTypeOK
  <2> QED
    BY <1>1, <2>5, <2>6, <2>7 DEF ResponseInv
<1> QED
  BY <1>4, <1>5

LEMMA WrapStep ==
  ASSUME ResponseInv, NEW r \in Requests, Wrap(r)
  PROVE  ResponseInv'
<1>1. PICK o \in pool : /\ pool' = pool \ {o}
                        /\ object' = [object EXCEPT ![o].w = r]
                        /\ writer' = [writer EXCEPT ![r] = o]
  BY DEF Wrap
<1>2. /\ WebTypeOK /\ PoolInv /\ \A q \in Requests : WriterHolds(q) /\ BodyHolds(q)
      /\ None \notin Requests \cup Writers
  BY WebAssumption DEF ResponseInv
<1>3. /\ stage[r] = "received" /\ stage' = [stage EXCEPT ![r] = "wrapped"]
      /\ UNCHANGED <<client, sent, jar, signed, expired, user, cookie, body>>
  BY DEF Wrap, Goto, identity, response
<1>4. object[o] = Zero /\ o \in Writers /\ o # None
  BY <1>2 DEF PoolInv, WebTypeOK
<1>5. /\ object'[o] = [w |-> r, zw |-> None, compressed |-> FALSE, wroteHeader |-> FALSE]
      /\ \A x \in Writers : x # o => object'[x] = object[x]
      /\ writer'[r] = o /\ \A q \in Requests : q # r => writer'[q] = writer[q]
      /\ stage'[r] = "wrapped" /\ \A q \in Requests : q # r => stage'[q] = stage[q]
  <2>1. object'[o] = [object[o] EXCEPT !.w = r] /\ \A x \in Writers : x # o => object'[x] = object[x]
    BY <1>1, <1>2, <1>4 DEF WebTypeOK
  <2>2. object'[o] = [Zero EXCEPT !.w = r]
    BY <1>4, <2>1
  <2>3. object'[o] = [w |-> r, zw |-> None, compressed |-> FALSE, wroteHeader |-> FALSE]
    BY <2>2 DEF Zero
  <2>4. writer'[r] = o /\ \A q \in Requests : q # r => writer'[q] = writer[q]
    BY <1>1, <1>2 DEF WebTypeOK
  <2>5. stage'[r] = "wrapped" /\ \A q \in Requests : q # r => stage'[q] = stage[q]
    BY <1>2, <1>3 DEF WebTypeOK
  <2> QED
    BY <2>1, <2>3, <2>4, <2>5
<1>6. WebTypeOK'
  <2>1. object'[o] \in Object
    BY <1>5 DEF Object
  <2>2. object' \in [Writers -> Object]
    BY <1>1, <1>2, <1>4, <1>5, <2>1 DEF WebTypeOK
  <2>3. stage' \in [Requests -> Stages] /\ writer' \in [Requests -> Writers \cup {None}] /\ pool' \subseteq Writers
    BY <1>1, <1>2, <1>3, <1>4 DEF WebTypeOK, Stages
  <2> QED
    BY <1>2, <1>3, <1>5, <2>2, <2>3 DEF WebTypeOK
<1>7. (WriterHolds(r) /\ BodyHolds(r))'
  BY <1>2, <1>3, <1>4, <1>5 DEF WriterHolds, BodyHolds, Busy
<1>8. \A q \in Requests : q # r => writer[q] # o
  BY <1>2, <1>4 DEF PoolInv
<1>9. \A q \in Requests : q # r => (WriterHolds(q) /\ BodyHolds(q))'
  BY <1>2, <1>3, <1>5, <1>8, OthersKept DEF WebTypeOK
<1>10. PoolInv'
  BY <1>1, <1>2, <1>4, <1>5, <1>8 DEF PoolInv, WebTypeOK
<1> QED
  BY <1>6, <1>7, <1>9, <1>10 DEF ResponseInv

LEMMA CloseStep ==
  ASSUME ResponseInv, NEW r \in Requests, CloseWriter(r)
  PROVE  ResponseInv'
<1> DEFINE o == writer[r]
<1>1. /\ WebTypeOK /\ PoolInv /\ \A q \in Requests : WriterHolds(q) /\ BodyHolds(q)
      /\ None \notin Requests \cup Writers
  BY WebAssumption DEF ResponseInv
<1>2. /\ stage[r] = "written" /\ o # None
      /\ object' = [object EXCEPT ![o].w = None, ![o].zw = None]
      /\ body' = Flushed(r)
      /\ stage' = [stage EXCEPT ![r] = "closed"]
      /\ UNCHANGED <<client, sent, jar, signed, expired, user, writer, pool, cookie>>
  BY DEF CloseWriter, Goto, identity
<1>3. o \in Writers /\ object[o] \in Object /\ object[o].zw \in {None, r}
  BY <1>1, <1>2 DEF WebTypeOK, WriterHolds
<1>4. \A q \in Requests : body'[q] = IF q = object[o].zw THEN body[q] \cup {r} ELSE body[q]
  BY <1>2 DEF Flushed
<1>5. body'[r] = {r} /\ \A q \in Requests : q # r => body'[q] = body[q]
  <2>1. body[r] = {r} \/ (body[r] = {} /\ object[o].zw = r)
    BY <1>1, <1>2 DEF BodyHolds
  <2>2. \A q \in Requests : q # r => q # object[o].zw
    BY <1>1, <1>3
  <2> HIDE DEF o
  <2>3. body'[r] = {r}
    BY <1>4, <2>1
  <2> QED
    BY <1>4, <2>2, <2>3
<1>6. \A q \in Requests : q # r => writer[q] # o
  BY <1>1, <1>2 DEF PoolInv
<1>7. o \notin pool
  BY <1>1, <1>2 DEF PoolInv
<1> HIDE DEF o
<1>8. /\ object'[o] \in Object /\ object'[o].zw = None
      /\ \A x \in Writers : x # o => object'[x] = object[x]
  BY <1>1, <1>2, <1>3 DEF WebTypeOK, Object
<1>9. WebTypeOK'
  <2>1. object' \in [Writers -> Object]
    BY <1>1, <1>2, <1>3, <1>8 DEF WebTypeOK
  <2>2. body' \in [Requests -> SUBSET Requests]
    BY <1>1, <1>2, <1>4 DEF WebTypeOK, Flushed
  <2>3. stage' \in [Requests -> Stages]
    BY <1>1, <1>2 DEF WebTypeOK, Stages
  <2> QED
    BY <1>1, <1>2, <2>1, <2>2, <2>3 DEF WebTypeOK
<1>10. stage'[r] = "closed" /\ \A q \in Requests : q # r => stage'[q] = stage[q]
  BY <1>1, <1>2 DEF WebTypeOK
<1>11. (WriterHolds(r) /\ BodyHolds(r))'
  BY <1>2, <1>5, <1>8, <1>10 DEF WriterHolds, BodyHolds, Busy, o
<1>12. \A q \in Requests : q # r => (WriterHolds(q) /\ BodyHolds(q))'
  BY <1>1, <1>2, <1>5, <1>6, <1>8, <1>10, OthersKept DEF WebTypeOK
<1>13. PoolInv'
  BY <1>1, <1>2, <1>7, <1>8 DEF PoolInv, WebTypeOK
<1> QED
  BY <1>9, <1>11, <1>12, <1>13 DEF ResponseInv

LEMMA PutStep ==
  ASSUME ResponseInv, NEW r \in Requests, PutWriter(r)
  PROVE  ResponseInv'
<1> DEFINE o == writer[r]
<1>1. /\ WebTypeOK /\ PoolInv /\ \A q \in Requests : WriterHolds(q) /\ BodyHolds(q)
      /\ None \notin Requests \cup Writers
  BY WebAssumption DEF ResponseInv
<1>2. /\ stage[r] = "closed"
      /\ object' = [object EXCEPT ![o] = Zero]
      /\ pool' = pool \cup {o}
      /\ writer' = [writer EXCEPT ![r] = None]
      /\ stage' = [stage EXCEPT ![r] = "answered"]
      /\ UNCHANGED <<client, sent, jar, signed, expired, user, cookie, body>>
  <2>1. object[o].zw = None
    BY <1>1 DEF PutWriter, WriterHolds
  <2>2. Reset(object[o]) = Zero
    <3>1. Reset(object[o]) = [Zero EXCEPT !.zw = None]
      BY <2>1 DEF Reset
    <3>2. \A z \in Object : z.zw = None => [z EXCEPT !.zw = None] = z
      BY DEF Object
    <3>3. Zero \in Object /\ Zero.zw = None
      BY DEF Zero, Object
    <3> QED
      BY <3>1, <3>2, <3>3
  <2>3. object' = [object EXCEPT ![o] = Reset(object[o])]
    BY DEF PutWriter
  <2> QED
    BY <2>2, <2>3 DEF PutWriter, Goto, identity, response
<1>3. o \in Writers /\ o # None /\ body[r] = {r}
  BY <1>1, <1>2 DEF WebTypeOK, WriterHolds, BodyHolds
<1>4. \A q \in Requests : q # r => writer[q] # o
  BY <1>1, <1>3 DEF PoolInv
<1> HIDE DEF o
<1>5. /\ object'[o] = Zero /\ \A x \in Writers : x # o => object'[x] = object[x]
      /\ writer'[r] = None /\ \A q \in Requests : q # r => writer'[q] = writer[q]
      /\ stage'[r] = "answered" /\ \A q \in Requests : q # r => stage'[q] = stage[q]
  BY <1>1, <1>2, <1>3 DEF WebTypeOK
<1>6. WebTypeOK'
  <2>1. Zero \in Object
    BY DEF Zero, Object
  <2>2. /\ object' \in [Writers -> Object] /\ stage' \in [Requests -> Stages]
        /\ writer' \in [Requests -> Writers \cup {None}] /\ pool' \subseteq Writers
    BY <1>1, <1>2, <1>3, <2>1 DEF WebTypeOK, Stages
  <2> QED
    BY <1>1, <1>2, <1>5, <2>2 DEF WebTypeOK
<1>7. (WriterHolds(r) /\ BodyHolds(r))'
  BY <1>2, <1>3, <1>5 DEF WriterHolds, BodyHolds, Busy
<1>8. \A q \in Requests : q # r => (WriterHolds(q) /\ BodyHolds(q))'
  BY <1>1, <1>2, <1>4, <1>5, OthersKept DEF WebTypeOK
<1>9. PoolInv'
  <2>1. \A x \in pool' : object'[x] = Zero
    BY <1>1, <1>2, <1>5 DEF PoolInv, WebTypeOK
  <2> QED
    BY <1>1, <1>2, <1>4, <1>5, <2>1 DEF PoolInv
<1> QED
  BY <1>6, <1>7, <1>8, <1>9 DEF ResponseInv

LEMMA ResponseInvStep ==
  ASSUME ResponseInv, secret \in Secrets, NEW r \in Requests, Serve(r, secret)
  PROVE  ResponseInv'
<1>1. /\ WebTypeOK /\ WriterHolds(r) /\ BodyHolds(r)
      /\ None \notin Requests \cup Clients \cup Users \cup Writers \cup Secrets
  BY WebAssumption DEF ResponseInv
<1> DEFINE Moved(next) == /\ stage'[r] = next /\ \A q \in Requests : q # r => stage'[q] = stage[q]
<1>2. \A next \in Stages : Goto(r, next) => Moved(next) /\ stage' \in [Requests -> Stages]
  BY <1>1 DEF Goto, WebTypeOK
<1>3. CASE Send(r)
  <2>1. PICK c \in Clients : client' = [client EXCEPT ![r] = c] /\ sent' = [sent EXCEPT ![r] = jar[c]]
    BY <1>3 DEF Send
  <2>2. /\ UNCHANGED <<user, writer, object, pool, cookie, body, jar, signed, expired>>
        /\ stage[r] = "idle" /\ Moved("received") /\ stage' \in [Requests -> Stages]
    BY <1>2, <1>3 DEF Send, response, Stages
  <2>3. WebTypeOK'
    BY <1>1, <2>1, <2>2 DEF WebTypeOK
  <2>4. (WriterHolds(r) /\ BodyHolds(r))'
    BY <1>1, <2>2 DEF WriterHolds, BodyHolds, Busy
  <2> QED
    BY <2>2, <2>3, <2>4, WritersUntouched
<1>4. CASE Unwrapped(r)
  <2>1. /\ UNCHANGED <<client, sent, jar, signed, expired, user, writer, object, pool, cookie, body>>
        /\ stage[r] = "received" /\ Moved("wrapped") /\ stage' \in [Requests -> Stages]
    BY <1>2, <1>4 DEF Unwrapped, identity, response, Stages
  <2>2. WebTypeOK'
    BY <1>1, <2>1 DEF WebTypeOK
  <2>3. (WriterHolds(r) /\ BodyHolds(r))'
    BY <1>1, <2>1 DEF WriterHolds, BodyHolds, Busy
  <2> QED
    BY <2>1, <2>2, <2>3, WritersUntouched
<1>5. CASE ReaderFails(r)
  <2>1. /\ UNCHANGED <<client, sent, jar, signed, expired, user, writer, object, pool, cookie>>
        /\ stage[r] = "wrapped" /\ Moved("written") /\ stage' \in [Requests -> Stages]
        /\ body' = [body EXCEPT ![r] = @ \cup {r}]
    BY <1>2, <1>5 DEF ReaderFails, identity, Stages
  <2>2. body'[r] = {r} /\ \A q \in Requests : q # r => body'[q] = body[q]
    BY <1>1, <2>1 DEF WebTypeOK, BodyHolds, Busy
  <2>3. WebTypeOK'
    BY <1>1, <2>1 DEF WebTypeOK
  <2>4. (WriterHolds(r) /\ BodyHolds(r))'
    BY <1>1, <2>1, <2>2 DEF WriterHolds, BodyHolds, Busy
  <2> QED
    BY <2>1, <2>2, <2>3, <2>4, WritersUntouched
<1>6. CASE CreateUser(r, secret)
  <2>1. PICK u \in Unused :
          /\ user' = [user EXCEPT ![r] = u]
          /\ signed' = [signed EXCEPT ![u] = secret]
          /\ cookie' = [q \in Requests |-> IF q = Target(r) THEN u ELSE cookie[q]]
    BY <1>6 DEF CreateUser, NewUsers
  <2>2. /\ UNCHANGED <<client, sent, jar, expired, writer, object, pool, body>>
        /\ stage[r] = "wrapped" /\ Moved("protected") /\ stage' \in [Requests -> Stages]
    BY <1>2, <1>6 DEF CreateUser, Stages
  <2>3. WebTypeOK'
    BY <1>1, <2>1, <2>2 DEF WebTypeOK, Unused
  <2>4. (WriterHolds(r) /\ BodyHolds(r))'
    BY <1>1, <2>2 DEF WriterHolds, BodyHolds, Busy
  <2> QED
    BY <2>2, <2>3, <2>4, WritersUntouched
<1>7. CASE Authenticate(r, secret)
  <2>1. /\ UNCHANGED <<client, sent, jar, signed, expired, writer, object, pool, cookie, body>>
        /\ stage[r] = "wrapped" /\ Moved("protected") /\ stage' \in [Requests -> Stages]
        /\ sent[r] # None /\ user' = [user EXCEPT ![r] = sent[r]]
    BY <1>2, <1>7 DEF Authenticate, identity, response, Stages
  <2>2. WebTypeOK'
    BY <1>1, <2>1 DEF WebTypeOK
  <2>3. (WriterHolds(r) /\ BodyHolds(r))'
    BY <1>1, <2>1 DEF WriterHolds, BodyHolds, Busy
  <2> QED
    BY <2>1, <2>2, <2>3, WritersUntouched
<1>8. CASE Unauthorized(r, secret) \/ Forbidden(r) \/ Handle(r)
  <2>1. stage[r] \in Busy /\ \E json \in BOOLEAN : Write(r, json)
    BY <1>8 DEF Unauthorized, Forbidden, Handle, Busy
  <2> QED
    BY <2>1, WriteStep
<1>9. CASE Public(r)
  <2>1. /\ UNCHANGED <<client, sent, jar, signed, expired, user, writer, object, pool, cookie, body>>
        /\ stage[r] = "wrapped" /\ Moved("public") /\ stage' \in [Requests -> Stages]
    BY <1>2, <1>9 DEF Public, identity, response, Stages
  <2>2. WebTypeOK'
    BY <1>1, <2>1 DEF WebTypeOK
  <2>3. (WriterHolds(r) /\ BodyHolds(r))'
    BY <1>1, <2>1 DEF WriterHolds, BodyHolds, Busy
  <2> QED
    BY <2>1, <2>2, <2>3, WritersUntouched
<1>10. CASE GRPCAuthenticate(r, secret)
  <2>1. /\ UNCHANGED <<client, sent, jar, signed, expired, writer, object, pool, cookie>>
        /\ stage[r] = "received" /\ Moved("answered") /\ stage' \in [Requests -> Stages]
        /\ user' \in [Requests -> Users \cup {None}]
        /\ \A q \in Requests : q # r => user'[q] = user[q]
        /\ body' = [body EXCEPT ![r] = {r}]
    BY <1>1, <1>2, <1>10 DEF GRPCAuthenticate, identity, Stages, WebTypeOK
  <2>2. body'[r] = {r} /\ \A q \in Requests : q # r => body'[q] = body[q]
    BY <1>1, <2>1 DEF WebTypeOK
  <2>3. WebTypeOK'
    BY <1>1, <2>1 DEF WebTypeOK
  <2>4. (WriterHolds(r) /\ BodyHolds(r))'
    BY <1>1, <2>1, <2>2 DEF WriterHolds, BodyHolds, Busy
  <2> QED
    BY <2>1, <2>2, <2>3, <2>4, WritersUntouched
<1>11. CASE NoWriter(r)
  <2>1. /\ UNCHANGED <<client, sent, jar, signed, expired, user, writer, object, pool, cookie, body>>
        /\ stage[r] = "written" /\ writer[r] = None
        /\ Moved("answered") /\ stage' \in [Requests -> Stages]
    BY <1>2, <1>11 DEF NoWriter, identity, response, Stages
  <2>2. WebTypeOK'
    BY <1>1, <2>1 DEF WebTypeOK
  <2>3. (WriterHolds(r) /\ BodyHolds(r))'
    BY <1>1, <2>1 DEF WriterHolds, BodyHolds, Busy
  <2> QED
    BY <2>1, <2>2, <2>3, WritersUntouched
<1>12. CASE Deliver(r)
  <2>1. /\ UNCHANGED <<signed, expired, writer, object, pool>>
        /\ stage[r] = "answered" /\ Moved("idle") /\ stage' \in [Requests -> Stages]
        /\ client' = [client EXCEPT ![r] = None] /\ sent' = [sent EXCEPT ![r] = None]
        /\ user' = [user EXCEPT ![r] = None] /\ cookie' = [cookie EXCEPT ![r] = None]
        /\ body' = [body EXCEPT ![r] = {}]
    BY <1>2, <1>12 DEF Deliver, Stages
  <2>2. jar' \in [Clients -> Users \cup {None}]
    BY <1>1, <1>12 DEF Deliver, WebTypeOK
  <2>3. body'[r] = {} /\ \A q \in Requests : q # r => body'[q] = body[q]
    BY <1>1, <2>1 DEF WebTypeOK
  <2>4. WebTypeOK'
    BY <1>1, <2>1, <2>2 DEF WebTypeOK
  <2>5. (WriterHolds(r) /\ BodyHolds(r))'
    BY <1>1, <2>1, <2>3 DEF WriterHolds, BodyHolds, Busy
  <2> QED
    BY <2>1, <2>3, <2>4, <2>5, WritersUntouched
<1> QED
  BY <1>3, <1>4, <1>5, <1>6, <1>7, <1>8, <1>9, <1>10, <1>11, <1>12, WrapStep, CloseStep, PutStep DEF Serve

-----------------------------------------------------------------------------
(* The users and their cookies.                                            *)

(* A cookie on its way to a client is for a user nobody else has, in an    *)
(* answer to a request without one that was served as this user.           *)
CookieInv(r) ==
  cookie[r] # None =>
    /\ stage[r] \notin {"idle", "received"} /\ sent[r] = None /\ user[r] = cookie[r]
    /\ signed[cookie[r]] # None
    /\ \A c \in Clients : jar[c] # cookie[r]
    /\ \A q \in Requests \ {r} : cookie[q] # cookie[r]

IdentityInv ==
  /\ \A c \in Clients : jar[c] # None => signed[jar[c]] # None
  /\ OneClientPerUser
  /\ \A r \in Requests : stage[r] # "idle" => client[r] \in Clients
  /\ \A r \in Requests : CookieInv(r)

LEMMA IdentityInvInit == WebInit => IdentityInv
BY DEF WebInit, IdentityInv, OneClientPerUser, CookieInv

(* Steps of the middlewares that sign nothing. *)
LEMMA IdentityKept ==
  ASSUME IdentityInv, UNCHANGED <<client, sent, jar, signed, cookie>>,
         \A q \in Requests : stage[q] = "idle" <=> stage'[q] = "idle",
         \A q \in Requests : cookie[q] # None => stage'[q] # "received" /\ user'[q] = user[q]
  PROVE  IdentityInv'
BY DEF IdentityInv, OneClientPerUser, CookieInv

LEMMA CreateUserStep ==
  ASSUME ResponseInv, IdentityInv, NEW r \in Requests, NEW s \in Secrets, CreateUser(r, s)
  PROVE  IdentityInv'
<1>1. PICK u \in Unused :
        /\ user' = [user EXCEPT ![r] = u]
        /\ signed' = [signed EXCEPT ![u] = s]
        /\ cookie' = [q \in Requests |-> IF q = Target(r) THEN u ELSE cookie[q]]
  BY DEF CreateUser, NewUsers
<1>2. WebTypeOK /\ WriterHolds(r) /\ None \notin Requests \cup Clients \cup Users \cup Writers \cup Secrets
  BY WebAssumption DEF ResponseInv
<1>3. /\ stage[r] = "wrapped" /\ stage' = [stage EXCEPT ![r] = "protected"] /\ sent[r] = None
      /\ UNCHANGED <<client, sent, jar>>
  BY DEF CreateUser, Goto, NeedsUser
<1>4. Target(r) = r
  BY <1>2, <1>3 DEF Target, WriterHolds, Busy
<1>5. u \in Users /\ u # None /\ signed[u] = None
  BY <1>2 DEF Unused
<1>6. /\ signed'[u] # None /\ \A x \in Users : x # u => signed'[x] = signed[x]
      /\ cookie'[r] = u /\ \A q \in Requests : q # r => cookie'[q] = cookie[q]
      /\ user'[r] = u /\ \A q \in Requests : q # r => user'[q] = user[q]
  BY <1>1, <1>2, <1>4, <1>5 DEF WebTypeOK
<1>7. /\ \A c \in Clients : jar[c] \in Users \cup {None} /\ (jar[c] # None => signed[jar[c]] # None)
      /\ \A q \in Requests : cookie[q] \in Users \cup {None} /\ (cookie[q] # None => signed[cookie[q]] # None)
  BY <1>2 DEF WebTypeOK, IdentityInv, CookieInv
<1>8. (\A c \in Clients : jar[c] # u) /\ \A q \in Requests : cookie[q] # u
  BY <1>5, <1>7
<1>9. /\ \A q \in Requests : stage[q] = "idle" <=> stage'[q] = "idle"
      /\ stage'[r] = "protected" /\ \A q \in Requests : q # r => stage'[q] = stage[q]
  BY <1>2, <1>3 DEF WebTypeOK
<1>10. \A c \in Clients : jar'[c] # None => signed'[jar'[c]] # None
  BY <1>3, <1>6, <1>7, <1>8
<1>11. OneClientPerUser' /\ \A q \in Requests : stage'[q] # "idle" => client'[q] \in Clients
  BY <1>3, <1>9 DEF IdentityInv, OneClientPerUser
<1>12. CookieInv(r)'
  BY <1>3, <1>6, <1>8, <1>9 DEF CookieInv
<1>13. ASSUME NEW q \in Requests, q # r PROVE CookieInv(q)'
  BY <1>3, <1>6, <1>7, <1>8, <1>9, <1>13 DEF IdentityInv, CookieInv
<1> QED
  BY <1>10, <1>11, <1>12, <1>13 DEF IdentityInv

LEMMA DeliverStep ==
  ASSUME WebTypeOK, IdentityInv, NEW r \in Requests, Deliver(r)
  PROVE  IdentityInv'
<1>1. None \notin Requests \cup Clients \cup Users \cup Writers \cup Secrets
  BY WebAssumption
<1>2. /\ stage[r] = "answered" /\ UNCHANGED signed
      /\ \A q \in Requests : q # r => stage'[q] = stage[q] /\ client'[q] = client[q] /\ sent'[q] = sent[q]
                                      /\ cookie'[q] = cookie[q] /\ user'[q] = user[q]
      /\ stage'[r] = "idle" /\ cookie'[r] = None
  BY DEF Deliver, Goto, WebTypeOK
<1>3. client[r] \in Clients /\ CookieInv(r)
  BY <1>2 DEF IdentityInv
<1>4. CASE cookie[r] = None
  <2>1. UNCHANGED jar
    BY <1>4 DEF Deliver
  <2>2. \A q \in Requests : CookieInv(q)'
    BY <1>2, <2>1 DEF IdentityInv, CookieInv
  <2> QED
    BY <1>2, <2>1, <2>2 DEF IdentityInv, OneClientPerUser
<1>5. CASE cookie[r] # None
  <2>1. jar'[client[r]] = cookie[r] /\ \A c \in Clients : c # client[r] => jar'[c] = jar[c]
    BY <1>3, <1>5 DEF Deliver, WebTypeOK
  <2>2. /\ signed[cookie[r]] # None /\ \A c \in Clients : jar[c] # cookie[r]
        /\ \A q \in Requests : q # r => cookie[q] # cookie[r]
    BY <1>3, <1>5 DEF CookieInv
  <2>3. \A c \in Clients : jar'[c] # None => signed'[jar'[c]] # None
    BY <1>2, <2>1, <2>2 DEF IdentityInv
  <2>4. OneClientPerUser'
    BY <2>1, <2>2 DEF IdentityInv, OneClientPerUser
  <2>5. \A q \in Requests : CookieInv(q)'
    BY <1>2, <2>1, <2>2 DEF IdentityInv, CookieInv
  <2>6. \A q \in Requests : stage'[q] # "idle" => client'[q] \in Clients
    BY <1>2 DEF IdentityInv
  <2> QED
    BY <2>3, <2>4, <2>5, <2>6 DEF IdentityInv
<1> QED
  BY <1>4, <1>5

LEMMA IdentityInvStep ==
  ASSUME ResponseInv, IdentityInv, NEW s \in Secrets, NEW r \in Requests, Serve(r, s)
  PROVE  IdentityInv'
<1>1. WebTypeOK /\ stage \in [Requests -> Stages]
  BY DEF ResponseInv, WebTypeOK
<1>2. CASE Send(r)
  <2>1. PICK c \in Clients : client' = [client EXCEPT ![r] = c]
    BY <1>2 DEF Send
  <2>2. UNCHANGED <<jar, signed, cookie, user>> /\ stage[r] = "idle"
    BY <1>2 DEF Send, response
  <2>3. \A q \in Requests : q # r => client'[q] = client[q] /\ sent'[q] = sent[q] /\ stage'[q] = stage[q]
    BY <1>1, <1>2 DEF Send, Goto, WebTypeOK
  <2>4. cookie[r] = None /\ client'[r] = c
    BY <1>1, <2>1, <2>2 DEF IdentityInv, CookieInv, WebTypeOK
  <2>5. \A q \in Requests : CookieInv(q)'
    BY <2>2, <2>3, <2>4 DEF IdentityInv, CookieInv
  <2> QED
    BY <2>2, <2>3, <2>4, <2>5 DEF IdentityInv, OneClientPerUser
<1>3. ASSUME stage[r] # "idle", NEW next \in Stages \ {"idle", "received"}, Goto(r, next),
             UNCHANGED <<client, sent, jar, signed, cookie>>,
             \A q \in Requests : cookie[q] # None => user'[q] = user[q]
      PROVE  IdentityInv'
  <2>1. \A q \in Requests : stage[q] = "idle" <=> stage'[q] = "idle"
    BY <1>1, <1>3 DEF Goto
  <2>2. \A q \in Requests : cookie[q] # None => stage'[q] # "received"
    BY <1>1, <1>3 DEF Goto, IdentityInv, CookieInv
  <2> QED
    BY <1>3, <2>1, <2>2, IdentityKept
<1>4. CASE Wrap(r) \/ Unwrapped(r) \/ ReaderFails(r) \/ Public(r)
           \/ CloseWriter(r) \/ PutWriter(r) \/ NoWriter(r)
  <2>1. /\ stage[r] # "idle" /\ UNCHANGED <<client, sent, jar, signed, cookie, user>>
        /\ \E next \in Stages \ {"idle", "received"} : Goto(r, next)
    BY <1>4 DEF Wrap, Unwrapped, ReaderFails, Public, CloseWriter,
                PutWriter, NoWriter, identity, response, Stages
  <2> QED
    BY <1>3, <2>1
<1>6. CASE Authenticate(r, s) \/ GRPCAuthenticate(r, s)
  <2>1. /\ stage[r] # "idle" /\ UNCHANGED <<client, sent, jar, signed, cookie>>
        /\ \E next \in Stages \ {"idle", "received"} : Goto(r, next)
        /\ \A q \in Requests : q # r => user'[q] = user[q]
    BY <1>1, <1>6 DEF Authenticate, GRPCAuthenticate, identity, response, Stages, WebTypeOK
  <2>2. cookie[r] = None
    BY <1>6 DEF Authenticate, GRPCAuthenticate, IdentityInv, CookieInv
  <2> QED
    BY <1>3, <2>1, <2>2
<1>5. CASE Unauthorized(r, s) \/ Forbidden(r) \/ Handle(r)
  <2>1. stage[r] # "idle" /\ \E json \in BOOLEAN : Write(r, json)
    BY <1>5 DEF Unauthorized, Forbidden, Handle
  <2>2. /\ Goto(r, "written") /\ UNCHANGED <<client, sent, jar, signed, cookie, user>>
        /\ "written" \in Stages \ {"idle", "received"}
    BY <2>1 DEF Write, identity, Stages
  <2> QED
    BY <1>3, <2>1, <2>2
<1> QED
  BY <1>1, <1>2, <1>4, <1>5, <1>6, CreateUserStep, DeliverStep DEF Serve

-----------------------------------------------------------------------------
(* The process: configuration, responses and users together.               *)

Inv == ConfigInv /\ ResponseInv /\ IdentityInv

(* Starting, stopping, the passing of time and the end of a session touch  *)
(* no request.                                                             *)
LEMMA WebUntouched ==
  ASSUME ResponseInv, IdentityInv,
         UNCHANGED <<stage, client, sent, user, writer, object, pool, cookie, body, signed>>,
         \A c \in Clients : jar'[c] \in {jar[c], None},
         WebTypeOK'
  PROVE  ResponseInv' /\ IdentityInv'
<1>1. \A q \in Requests : (WriterHolds(q) /\ BodyHolds(q))'
  BY DEF ResponseInv, WriterHolds, BodyHolds
<1>2. PoolInv'
  BY DEF ResponseInv, PoolInv
<1>3. \A q \in Requests : CookieInv(q)'
  BY DEF IdentityInv, CookieInv
<1>4. IdentityInv'
  BY <1>3 DEF IdentityInv, OneClientPerUser
<1> QED
  BY <1>1, <1>2, <1>4 DEF ResponseInv

LEMMA InvInit == Init => Inv
BY ConfigInvInit, ResponseInvInit, IdentityInvInit DEF Init, Inv

LEMMA InvStep == Inv /\ [Next]_vars => Inv'
<1> SUFFICES ASSUME Inv, [Next]_vars PROVE Inv'
  OBVIOUS
<1>1. ConfigInv /\ ResponseInv /\ IdentityInv /\ ConfigInv'
  BY ConfigInvStep DEF Inv
<1>2. CASE UNCHANGED webVars
  <2>1. UNCHANGED <<stage, client, sent, user, writer, object, pool, cookie, body, jar, signed>> /\ WebTypeOK'
    BY <1>1, <1>2 DEF webVars, ResponseInv, WebTypeOK
  <2> QED
    BY <1>1, <2>1, WebUntouched DEF Inv
<1>3. CASE Expire
  <2>1. /\ UNCHANGED <<stage, client, sent, user, writer, object, pool, cookie, body, jar, signed>>
        /\ expired' \subseteq Users
    BY <1>1, <1>3 DEF Expire, response, ResponseInv, WebTypeOK
  <2>2. WebTypeOK'
    BY <1>1, <2>1 DEF ResponseInv, WebTypeOK
  <2> QED
    BY <1>1, <2>1, <2>2, WebUntouched DEF Inv
<1>4. CASE EndSession
  <2>1. PICK c \in Clients : jar' = [jar EXCEPT ![c] = None]
    BY <1>4 DEF EndSession
  <2>2. /\ UNCHANGED <<stage, client, sent, user, writer, object, pool, cookie, body, signed, expired>>
        /\ jar \in [Clients -> Users \cup {None}]
    BY <1>1, <1>4 DEF EndSession, response, ResponseInv, WebTypeOK
  <2>3. jar' \in [Clients -> Users \cup {None}] /\ \A d \in Clients : jar'[d] \in {jar[d], None}
    BY <2>1, <2>2
  <2>4. WebTypeOK'
    BY <1>1, <2>2, <2>3 DEF ResponseInv, WebTypeOK
  <2> QED
    BY <1>1, <2>2, <2>3, <2>4, WebUntouched DEF Inv
<1>5. ASSUME step = "serving", NEW r \in Requests, Serve(r, secret) PROVE Inv'
  <2>1. secret \in Secrets
    BY <1>1, <1>5 DEF ConfigInv, SecretInv
  <2> QED
    BY <1>1, <1>5, <2>1, ResponseInvStep, IdentityInvStep DEF Inv
<1>6. CASE Start \/ Fatal \/ Stop \/ (Load /\ UNCHANGED <<webVars, secret>>) \/ Initialize \/ GetStorage
           \/ InitAudit \/ NewServer \/ ListenAndServe
  BY <1>2, <1>6 DEF Start, Fatal, Stop, Down, Initialize, GetStorage, InitAudit, NewServer, ListenAndServe
<1> QED
  BY <1>2, <1>3, <1>4, <1>5, <1>6 DEF Next, vars

LEMMA Invariance == Spec => []Inv
BY InvInit, InvStep, PTL DEF Spec

(* Whatever the configuration, and through every restart, each request,    *)
(* writer and client is in a state the code knows.                         *)
THEOREM TypeCorrect == Spec => []TypeOK
<1>1. Inv => TypeOK
  BY DEF Inv, ConfigInv, ConfigType, SecretInv, ResponseInv, TypeOK
<1> QED
  BY <1>1, Invariance, PTL

(* However many requests share the pool, a writer serves one at a time. *)
THEOREM WritersAreOwned == Spec => []OwnWriter
<1>1. Inv => OwnWriter
  BY DEF Inv, ResponseInv, PoolInv, WriterHolds, OwnWriter
<1> QED
  BY <1>1, Invariance, PTL

(* No response contains the output of another request, and every answer    *)
(* is complete.                                                            *)
THEOREM ResponsesAreOwned == Spec => []OwnResponse
<1>1. Inv => OwnResponse
  BY DEF Inv, ResponseInv, WebTypeOK, WriterHolds, BodyHolds, OwnResponse, Stages, Busy
<1> QED
  BY <1>1, Invariance, PTL

(* No user id reaches two clients, through restarts and changed secrets. *)
THEOREM UsersAreNotShared == Spec => []OneClientPerUser
<1>1. Inv => OneClientPerUser
  BY DEF Inv, IdentityInv
<1> QED
  BY <1>1, Invariance, PTL

(* Nothing but the end of its session, or the answer to a request it sent  *)
(* without a cookie, changes the user of a client: no 401, no expiry of    *)
(* its token and no restart.                                               *)
THEOREM IdentityIsStable == Spec => StableIdentity
<1> DEFINE Changed(c) ==
             \/ jar'[c] = None
             \/ \E r \in Requests : client[r] = c /\ sent[r] = None /\ user[r] = jar'[c]
           Stable == \A c \in Clients : jar'[c] # jar[c] => Changed(c)
<1>1. Inv /\ [Next]_vars => [Stable]_webVars
  <2> SUFFICES ASSUME Inv, [Next]_vars, NEW c \in Clients, jar'[c] # jar[c] PROVE Changed(c)
    OBVIOUS
  <2>1. jar \in [Clients -> Users \cup {None}]
    BY DEF Inv, ResponseInv, WebTypeOK
  <2>2. ASSUME NEW r \in Requests, Deliver(r) PROVE Changed(c)
    <3>1. cookie[r] # None => sent[r] = None /\ user[r] = cookie[r]
      BY DEF Inv, IdentityInv, CookieInv
    <3>2. cookie[r] # None /\ client[r] = c /\ jar'[c] = cookie[r]
      BY <2>1, <2>2 DEF Deliver
    <3> QED
      BY <3>1, <3>2
  <2>3. ASSUME NEW r \in Requests, Serve(r, secret), ~Deliver(r) PROVE UNCHANGED jar
    BY <2>3 DEF Serve, Send, Wrap, Unwrapped, ReaderFails, CreateUser, Authenticate, Unauthorized, Forbidden,
                Public, GRPCAuthenticate, Handle, CloseWriter, PutWriter, NoWriter, Write, identity
  <2>4. CASE Expire
    BY <2>4 DEF Expire
  <2>5. CASE EndSession
    BY <2>1, <2>5 DEF EndSession
  <2>6. CASE UNCHANGED webVars
    BY <2>6 DEF webVars
  <2>7. CASE Start \/ Fatal \/ Stop \/ (Load /\ UNCHANGED <<webVars, secret>>) \/ Initialize \/ GetStorage
             \/ InitAudit \/ NewServer \/ ListenAndServe
    BY <2>6, <2>7 DEF Start, Fatal, Stop, Down, Initialize, GetStorage, InitAudit, NewServer, ListenAndServe
  <2> QED
    BY <2>2, <2>3, <2>4, <2>5, <2>6, <2>7 DEF Next, vars
<1> QED
  BY <1>1, Invariance, PTL DEF Spec, StableIdentity
=============================================================================

------------------------------- MODULE Server --------------------------------
(* The process: main loads the configuration, builds storage, audit and    *)
(* servers from it, and requests are served until it is stopped; the       *)
(* operator may start it again with another configuration, while the       *)
(* clients keep their cookies.                                             *)
EXTENDS Config, Web

(* A secret, like every value, is represented by its source. *)
ASSUME ServerAssumption ==
  "CookieSecret" \in Settings /\ Values \ {"port 443"} \subseteq Secrets

VARIABLE secret  \* the COOKIE_SECRET the middlewares were built with

vars == <<configVars, webVars, secret>>

BuildSteps == {"logger", "storage", "audit", "http", "tls"}

Starting == step \in LoadSteps \cup BuildSteps

TypeOK ==
  /\ given \in [Settings -> SUBSET Sources]
  /\ fromFile \in BOOLEAN
  /\ config \in [Settings -> Values]
  /\ step \in LoadSteps \cup BuildSteps \cup {"serving", "down"}
  /\ secret \in Secrets \cup {None}
  /\ WebTypeOK

NothingGiven == [s \in Settings |-> {}]

Init ==
  /\ given = NothingGiven
  /\ fromFile = FALSE
  /\ config = Defaults
  /\ step = "down"
  /\ secret = None
  /\ WebInit

Start ==
  /\ step = "down"
  /\ step' = "dotenv"
  /\ given' \in Deployments
  /\ UNCHANGED <<fromFile, config, webVars, secret>>

(* The process is gone: what it had loaded is forgotten. *)
Down ==
  /\ step' = "down"
  /\ given' = NothingGiven /\ fromFile' = FALSE /\ config' = Defaults
  /\ secret' = None
  /\ UNCHANGED webVars

(* A broken .env or config file, an unknown flag or log level, a storage   *)
(* or an audit file that cannot be opened, a subnet that is no CIDR, no    *)
(* certificate: log.Fatal.                                                 *)
Fatal == Starting /\ Down

Given(s) == config[s] # "default"

(* GetStorage refuses a database next to a file. *)
GetStorage ==
  /\ Advance("storage", "audit")
  /\ ~(Given("DatabaseURL") /\ Given("FileStoragePath"))
  /\ UNCHANGED <<given, fromFile, config, webVars, secret>>

Initialize == Advance("logger", "storage") /\ UNCHANGED <<given, fromFile, config, webVars, secret>>

InitAudit == Advance("audit", "http") /\ UNCHANGED <<given, fromFile, config, webVars, secret>>

NewServer ==
  /\ Advance("http", "tls")
  /\ secret' = config["CookieSecret"]
  /\ UNCHANGED <<given, fromFile, config, webVars>>

(* Certificates, NewGRPCServer, and both servers listen. *)
ListenAndServe ==
  /\ Advance("tls", "serving")
  /\ given' = NothingGiven /\ fromFile' = FALSE /\ config' = Defaults  \* read no more
  /\ UNCHANGED <<webVars, secret>>

(* A stop without requests in progress; Shortener has the other ones. *)
Stop == step = "serving" /\ (\A r \in Requests : stage[r] = "idle") /\ Down

Next ==
  \/ Start \/ Fatal \/ Stop
  \/ Load /\ UNCHANGED <<webVars, secret>>
  \/ Initialize \/ GetStorage \/ InitAudit \/ NewServer \/ ListenAndServe
  \/ /\ step = "serving"
     /\ (\E r \in Requests : Serve(r, secret)) \/ Expire \/ EndSession
     /\ UNCHANGED <<configVars, secret>>

Spec == Init /\ [][Next]_vars

-----------------------------------------------------------------------------
(* main builds everything from the strongest source of each setting: the   *)
(* environment, then .env, flags, the config file if a path to one was     *)
(* found, and the default (config.go:57-124).                              *)
EffectiveValue ==
  step \in BuildSteps => \A s \in Settings :
    LET expected ==
          CASE Environ(s) # "unset" -> Environ(s)
            [] Environ(s) = "unset" /\ OnCommandLine(s) -> "flag"
            [] OTHER -> IF FileGives(s) THEN "file" ELSE "default"
    IN  config[s] = expected \/ (s = "RunAddr" /\ expected = "default" /\ config[s] = "port 443")
=============================================================================

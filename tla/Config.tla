------------------------------- MODULE Config --------------------------------
(* config.LoadConfig: defaults, .env, the config file, flags and the       *)
(* environment, in the order of the code.  A setting's value is            *)
(* represented by the source it was taken from; an empty value counts as   *)
(* not given, EnableHTTPS is only given to switch it on and RunAddr only   *)
(* with another value than the default.  The two timeouts, with their      *)
(* units, are left out.                                                    *)
EXTENDS Naturals, FiniteSets

CONSTANTS Settings,    \* fields of Config
          Deployments  \* what an operator may give: sources of each setting

(* flag is -x or -x=, dashes is --x, which package flag accepts as well.   *)
Sources == {"dotenv", "file", "flag", "dashes", "env"}

ASSUME ConfigAssumption ==
  /\ {"ConfigFilePath", "RunAddr", "EnableHTTPS"} \subseteq Settings
  /\ Deployments \subseteq [Settings -> SUBSET Sources]

VARIABLES given,     \* the operator's sources
          fromFile,  \* whether a path of a config file was found
          config,    \* the source of each setting's value so far
          step       \* the next step of main

configVars == <<given, fromFile, config, step>>

LoadSteps == {"dotenv", "path", "file", "flags", "env", "https"}

Defaults == [s \in Settings |-> "default"]

Values == {"default", "file", "flag", "dotenv", "env", "port 443"}

(* os.Getenv after godotenv.Load, which overrides nothing. *)
Environ(s) ==
  IF "env" \in given[s] THEN "env" ELSE IF "dotenv" \in given[s] THEN "dotenv" ELSE "unset"

OnCommandLine(s) == given[s] \cap {"flag", "dashes"} # {}

Advance(from, to) == step = from /\ step' = to

LoadDotenv == Advance("dotenv", "path") /\ UNCHANGED <<given, fromFile, config>>

(* The loop over os.Args knows -c and -config only. *)
FindConfigFile ==
  /\ Advance("path", "file")
  /\ config' = [config EXCEPT !["ConfigFilePath"] =
                  IF "flag" \in given["ConfigFilePath"] THEN "flag"
                  ELSE IF Environ("ConfigFilePath") # "unset" THEN Environ("ConfigFilePath") ELSE "default"]
  /\ fromFile' = (config'["ConfigFilePath"] # "default")
  /\ UNCHANGED given

(* ConfigFilePath is json:"-". *)
FileGives(s) == fromFile /\ "file" \in given[s] /\ s # "ConfigFilePath"

ReadConfigFile ==
  /\ Advance("file", "flags")
  /\ config' = [s \in Settings |-> IF FileGives(s) THEN "file" ELSE config[s]]
  /\ UNCHANGED <<given, fromFile>>

(* Seeded fault: flags declared with the defaults of the program. *)
ParseFlagsAfresh ==
  /\ Advance("flags", "env")
  /\ config' = [s \in Settings |-> IF OnCommandLine(s) THEN "flag" ELSE "default"]
  /\ UNCHANGED <<given, fromFile>>

(* Each flag has the value so far as its default. *)
ParseFlags ==
  /\ Advance("flags", "env")
  /\ config' = [s \in Settings |-> IF OnCommandLine(s) THEN "flag" ELSE config[s]]
  /\ UNCHANGED <<given, fromFile>>

ParseEnv ==
  /\ Advance("env", "https")
  /\ config' = [s \in Settings |-> IF Environ(s) # "unset" THEN Environ(s) ELSE config[s]]
  /\ UNCHANGED <<given, fromFile>>

DefaultHTTPSPort ==
  /\ Advance("https", "logger")
  /\ config' = IF config["EnableHTTPS"] # "default" /\ config["RunAddr"] = "default"
               THEN [config EXCEPT !["RunAddr"] = "port 443"] ELSE config
  /\ UNCHANGED <<given, fromFile>>

Load == LoadDotenv \/ FindConfigFile \/ ReadConfigFile \/ ParseFlags \/ ParseEnv \/ DefaultHTTPSPort
=============================================================================

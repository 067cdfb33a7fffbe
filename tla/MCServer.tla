------------------------------ MODULE MCServer -------------------------------
(* Two clients, two requests at a time, three users; a handful of ways to  *)
(* configure the service, one of which changes the cookie secret.          *)
EXTENDS Server, TLC

CONSTANTS r1, r2, c1, c2, v1, v2, v3, o1, o2

D(s1, from1, s2, from2) ==
  [s \in Settings |-> (IF s = s1 THEN from1 ELSE {}) \cup (IF s = s2 THEN from2 ELSE {})]

MCDeployments ==
  {D("CookieSecret", {"env", "flag"}, "ConfigFilePath", {"flag"}),
   D("TrustedSubnet", {"file"}, "ConfigFilePath", {"dotenv", "file"}),
   D("TrustedSubnet", {"file"}, "ConfigFilePath", {"dashes", "file"}),
   D("TrustedSubnet", {"file", "flag"}, "ConfigFilePath", {"env", "file"}),
   D("EnableHTTPS", {"flag"}, "RunAddr", {"dotenv", "env"}),
   D("EnableHTTPS", {"dotenv"}, "DatabaseURL", {"flag"}),
   D("DatabaseURL", {"env"}, "FileStoragePath", {"flag"})}

Symmetric == Permutations(Requests) \cup Permutations(Clients)
             \cup Permutations(Users) \cup Permutations(Writers)
=============================================================================

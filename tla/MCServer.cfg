\* Starts and restarts with different configurations, concurrent requests of two clients.
SPECIFICATION Spec
CONSTANTS
  r1 = r1
  r2 = r2
  c1 = c1
  c2 = c2
  v1 = v1
  v2 = v2
  v3 = v3
  o1 = o1
  o2 = o2
  Blank = Blank
  None = None
  Settings = {"RunAddr", "EnableHTTPS", "DatabaseURL", "FileStoragePath", "CookieSecret", "TrustedSubnet", "ConfigFilePath"}
  Deployments <- MCDeployments
  Secrets = {"default", "file", "flag", "dotenv", "env"}
  Requests = {r1, r2}
  Clients = {c1, c2}
  Users = {v1, v2, v3}
  Writers = {o1, o2}
SYMMETRY Symmetric
INVARIANTS
  TypeOK
  OwnWriter
  OwnResponse
  OneClientPerUser
  
PROPERTIES
  StableIdentity

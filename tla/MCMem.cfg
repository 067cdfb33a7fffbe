\* Two goroutines, every interleaving of their calls, with liveness.
SPECIFICATION Spec
CONSTANTS
  p1 = p1
  p2 = p2
  i1 = i1
  i2 = i2
  i3 = i3
  u1 = u1
  u2 = u2
  ann = ann
  anon = anon
  Absent = Absent
  Procs = {p1, p2}
  Ids = {i1, i2, i3}
  Urls = {u1, u2}
  Users = {ann, anon}
  Batches <- MCBatches
  DeleteLists <- MCDeleteLists
  IdsMayCollide = FALSE
INVARIANTS
  TypeOK
  NoMapRace
  IndexAgrees
  ExistingIDHoldsURL
PROPERTIES
  RowsPermanent
  Linearizable
  CallsReturn

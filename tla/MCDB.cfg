\* Two concurrent callers, colliding ids, failing statements, lost replies, restarts.
SPECIFICATION Spec
CONSTANTS
  p1 = p1
  p2 = p2
  i1 = i1
  i2 = i2
  u1 = u1
  u2 = u2
  ann = ann
  anon = anon
  Absent = Absent
  Procs = {p1, p2}
  Ids = {i1, i2}
  Urls = {u1, u2}
  Users = {ann, anon}
  Batches <- MCBatches
  DeleteLists <- MCDeleteLists
  MaxOpenConns = 2
INVARIANTS
  TypeOK
  AckedRowsStored
  ServesFullSchema
PROPERTIES
  RowsPermanent
  Linearizable
  CallsReturnUnlessStatsFill

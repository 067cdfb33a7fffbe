\* A restart after a DeleteBatch.
SPECIFICATION Spec
CONSTANTS
  i1 = i1
  i2 = i2
  i3 = i3
  u1 = u1
  u2 = u2
  long = long
  ann = ann
  anon = anon
  Absent = Absent
  Garbage = Garbage
  Ids = {i1, i2, i3}
  Urls = {u1, u2, long}
  LongUrls = {long}
  Users = {ann, anon}
  Batches <- MCBatches
  DeleteLists <- MCDeleteLists
  MaxLines = 4
INVARIANTS
  RestartSucceeds

\* Two deletions under a limit of one.
SPECIFICATION Spec
CONSTANTS
  i1 = i1
  i2 = i2
  u1 = u1
  p1 = p1
  blank = blank
  ann = ann
  bob = bob
  h1 = h1
  g1 = g1
  Empty = Empty
  Anonymous = Anonymous
  Absent = Absent
  Ids = {i1, i2}
  Urls = {u1, p1, blank}
  Trim <- MCTrim
  TextLists <- MCTextLists
  Users = {ann, bob}
  DeleteLists <- MCDeleteLists
  Http = {h1}
  Grpc = {g1}
  Limits = {1}
  MaxDeletions = 2
INVARIANTS
  BoundedDeletions
\* The process ends.
CHECK_DEADLOCK FALSE

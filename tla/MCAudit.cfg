\* Two handlers contend for one slot and two workers while Stop is called twice.
SPECIFICATION Spec
CONSTANTS
  h1 = h1
  h2 = h2
  w1 = w1
  w2 = w2
  q1 = q1
  q2 = q2
  None = None
  Handlers = {h1, h2}
  Workers = {w1, w2}
  Stoppers = {q1, q2}
  Capacity = 1
  N = 2
INVARIANTS
  TypeOK
  ExactlyOnce
  WaitGroupExact
  DrainedBeforeStop
  NoNotifyAfterStop
PROPERTIES
  EventsDelivered
  NotifyAllEnds
  StopEnds
\* Every handler notifies once and every Stop returns: the system stops.
CHECK_DEADLOCK FALSE

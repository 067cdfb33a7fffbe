-------------------------------- MODULE Audit -------------------------------
(* audit.audit: request handlers hand events to a bounded channel, a fixed *)
(* pool of workers takes them from it and calls the observers, and Stop    *)
(* closes the channel, waits for the pool and then closes the observers.   *)
(* Each handler notifies once, with an event of its own; a task is an      *)
(* event and the index of an observer.  An HTTP handler may outlive the    *)
(* five seconds of the server's Shutdown, so Stop may come at any time.    *)
EXTENDS Naturals, Sequences, FiniteSets

CONSTANTS Handlers,   \* goroutines that call NotifyAll
          Workers,    \* goroutines of startWorkers
          Stoppers,   \* goroutines that call Stop
          Capacity,   \* of taskCh: maxParallelWorkers, 0 for unbuffered
          N,          \* number of observers: file, HTTP, both or none
          None        \* no task, no worker left

ASSUME AuditAssumption ==
  /\ Capacity \in Nat /\ N \in Nat
  /\ None \notin Handlers \X (1..N)
  /\ IsFiniteSet(Handlers)
  /\ Workers # {}               \* InitAudit starts ten

Task == Handlers \X (1..N)

VARIABLES next,     \* handler: 0 before NotifyAll, then the observer it sends
                    \* to next, N+1 when NotifyAll has returned
          panicked, \* handlers whose send panicked on the closed channel
          wg,       \* the WaitGroup of each NotifyAll
          taskCh,   \* the channel's buffer
          closed,   \* taskCh is closed
          pool,     \* workers that have not exited
          busy,     \* the task each worker is notifying, or None
          once,     \* sync.Once of Stop: "new", "running", "done"
          stopper,  \* where each call of Stop is
          stopping, \* the observer it stops next
          handled,  \* history: tasks whose Notify has ended
          stopped   \* observers that have been stopped

vars == <<next, panicked, wg, taskCh, closed, pool, busy, once, stopper, stopping, handled, stopped>>

TypeOK ==
  /\ next \in [Handlers -> 0..(N + 1)]
  /\ panicked \subseteq Handlers
  /\ wg \in [Handlers -> Nat]
  /\ taskCh \in Seq(Task) /\ Len(taskCh) <= Capacity
  /\ closed \in BOOLEAN
  /\ pool \subseteq Workers
  /\ busy \in [Workers -> Task \cup {None}]
  /\ once \in {"new", "running", "done"}
  /\ stopper \in [Stoppers -> {"idle", "once", "wait", "observers", "returned"}]
  /\ stopping \in [Stoppers -> 1..(N + 1)]
  /\ handled \subseteq Task
  /\ stopped \subseteq 1..N

(* InitAudit: the workers run, the observers are registered. *)
Init ==
  /\ next = [h \in Handlers |-> 0]
  /\ panicked = {}
  /\ wg = [h \in Handlers |-> 0]
  /\ taskCh = <<>> /\ closed = FALSE
  /\ pool = Workers
  /\ busy = [w \in Workers |-> None]
  /\ once = "new"
  /\ stopper = [q \in Stoppers |-> "idle"]
  /\ stopping = [q \in Stoppers |-> 1]
  /\ handled = {} /\ stopped = {}

-----------------------------------------------------------------------------
senders == <<next, panicked, wg>>
workers == <<pool, busy, handled>>
stop == <<once, stopper, stopping, stopped>>

Sending(h) == next[h] \in 1..N /\ h \notin panicked
Ready(w) == w \in pool /\ busy[w] = None

-----------------------------------------------------------------------------
(* Seeded faults, one per property: plausible bugs of the Go code that the *)
(* property must catch.                                                    *)

(* wg.Add(1) instead of wg.Add(len(s.observers)). *)
NotifyAllAddsOne(h) ==
  /\ next[h] = 0
  /\ next' = [next EXCEPT ![h] = 1]
  /\ wg' = [wg EXCEPT ![h] = 1]
  /\ UNCHANGED <<panicked, taskCh, closed, workers, stop>>

(* select with a default: a full channel drops the event. *)
SendOrDrop(h) ==
  /\ Sending(h) /\ ~closed
  /\ taskCh' = IF Len(taskCh) < Capacity THEN Append(taskCh, <<h, next[h]>>) ELSE taskCh
  /\ next' = [next EXCEPT ![h] = @ + 1]
  /\ UNCHANGED <<panicked, wg, closed, workers, stop>>

(* A panic of Notify that skips wg.Done. *)
NotifiedWithoutDone(w) ==
  /\ busy[w] # None
  /\ handled' = handled \cup {busy[w]}
  /\ \/ wg' = [wg EXCEPT ![busy[w][1]] = @ - 1]
     \/ UNCHANGED wg
  /\ busy' = [busy EXCEPT ![w] = None]
  /\ UNCHANGED <<next, panicked, taskCh, closed, pool, stop>>

(* A worker that leaves whenever the channel is empty. *)
ExitWhenEmpty(w) ==
  /\ Ready(w) /\ taskCh = <<>>
  /\ pool' = pool \ {w}
  /\ UNCHANGED <<senders, taskCh, closed, busy, handled, stop>>

(* A worker that leaves as soon as the channel is closed. *)
ExitWhenClosed(w) ==
  /\ Ready(w) /\ closed
  /\ pool' = pool \ {w}
  /\ UNCHANGED <<senders, taskCh, closed, busy, handled, stop>>

(* Stop that forgets to close the channel. *)
EnterOnceWithoutClose(q) ==
  /\ stopper[q] = "once" /\ once = "new"
  /\ once' = "running"
  /\ stopper' = [stopper EXCEPT ![q] = "wait"]
  /\ UNCHANGED <<senders, taskCh, closed, workers, stopping, stopped>>

(* A second call of Stop that closes and waits on its own. *)
StopAgain(q) ==
  /\ stopper[q] = "once" /\ once # "new"
  /\ stopper' = [stopper EXCEPT ![q] = "observers"]
  /\ UNCHANGED <<senders, taskCh, closed, workers, once, stopping, stopped>>

-----------------------------------------------------------------------------
(* Request handlers. *)

NotifyAll(h) ==
  /\ next[h] = 0
  /\ next' = [next EXCEPT ![h] = 1]
  /\ wg' = [wg EXCEPT ![h] = N]
  /\ UNCHANGED <<panicked, taskCh, closed, workers, stop>>

(* s.taskCh <- task: into the buffer, or straight to a waiting worker. *)
Send(h) ==
  /\ Sending(h) /\ ~closed
  /\ Len(taskCh) < Capacity
  /\ taskCh' = Append(taskCh, <<h, next[h]>>)
  /\ next' = [next EXCEPT ![h] = @ + 1]
  /\ UNCHANGED <<panicked, wg, closed, workers, stop>>

SendDirectly(h) ==
  /\ Sending(h) /\ ~closed
  /\ taskCh = <<>>
  /\ \E w \in Workers : Ready(w) /\ busy' = [busy EXCEPT ![w] = <<h, next[h]>>]
  /\ next' = [next EXCEPT ![h] = @ + 1]
  /\ UNCHANGED <<panicked, wg, taskCh, closed, pool, handled, stop>>

(* A send, begun before or after the close, on a closed channel. *)
SendPanics(h) ==
  /\ Sending(h) /\ closed
  /\ panicked' = panicked \cup {h}
  /\ UNCHANGED <<next, wg, taskCh, closed, workers, stop>>

-----------------------------------------------------------------------------
(* Workers: for t := range s.taskCh. *)

Receive(w) ==
  /\ Ready(w) /\ taskCh # <<>>
  /\ busy' = [busy EXCEPT ![w] = Head(taskCh)]
  /\ taskCh' = Tail(taskCh)
  /\ UNCHANGED <<senders, closed, pool, handled, stop>>

(* Notify returns, or panics and is recovered; then t.wg.Done(). *)
Notified(w) ==
  /\ busy[w] # None
  /\ handled' = handled \cup {busy[w]}
  /\ wg' = [wg EXCEPT ![busy[w][1]] = @ - 1]
  /\ busy' = [busy EXCEPT ![w] = None]
  /\ UNCHANGED <<next, panicked, taskCh, closed, pool, stop>>

Exit(w) ==
  /\ Ready(w) /\ taskCh = <<>> /\ closed
  /\ pool' = pool \ {w}
  /\ UNCHANGED <<senders, taskCh, closed, busy, handled, stop>>

-----------------------------------------------------------------------------
(* Stop. *)

Stop(q) ==
  /\ stopper[q] = "idle"
  /\ stopper' = [stopper EXCEPT ![q] = "once"]
  /\ UNCHANGED <<senders, taskCh, closed, workers, once, stopping, stopped>>

(* once.Do: the first caller closes the channel and waits for the workers. *)
EnterOnce(q) ==
  /\ stopper[q] = "once" /\ once = "new"
  /\ once' = "running" /\ closed' = TRUE
  /\ stopper' = [stopper EXCEPT ![q] = "wait"]
  /\ UNCHANGED <<senders, taskCh, workers, stopping, stopped>>

LeaveOnce(q) ==
  /\ stopper[q] = "wait" /\ pool = {}
  /\ once' = "done"
  /\ stopper' = [stopper EXCEPT ![q] = "observers"]
  /\ UNCHANGED <<senders, taskCh, closed, workers, stopping, stopped>>

(* ... the other callers block until it is done. *)
SkipOnce(q) ==
  /\ stopper[q] = "once" /\ once = "done"
  /\ stopper' = [stopper EXCEPT ![q] = "observers"]
  /\ UNCHANGED <<senders, taskCh, closed, workers, once, stopping, stopped>>

(* The observers one by one, up to the first that fails. *)
StopObserver(q) ==
  /\ stopper[q] = "observers" /\ stopping[q] <= N
  /\ stopped' = stopped \cup {stopping[q]}
  /\ stopping' = [stopping EXCEPT ![q] = @ + 1]
  /\ UNCHANGED <<senders, taskCh, closed, workers, once, stopper>>

StopReturns(q) ==
  /\ stopper[q] = "observers"
  /\ stopper' = [stopper EXCEPT ![q] = "returned"]
  /\ UNCHANGED <<senders, taskCh, closed, workers, once, stopping, stopped>>

-----------------------------------------------------------------------------
HandlerStep(h) == Send(h) \/ SendDirectly(h) \/ SendPanics(h)
WorkerStep(w) == Receive(w) \/ Notified(w) \/ Exit(w)
StopperStep(q) == EnterOnce(q) \/ LeaveOnce(q) \/ SkipOnce(q) \/ StopObserver(q) \/ StopReturns(q)

Next ==
  \/ \E h \in Handlers : NotifyAll(h) \/ HandlerStep(h)
  \/ \E w \in Workers : WorkerStep(w)
  \/ \E q \in Stoppers : Stop(q) \/ StopperStep(q)

(* Goroutines are scheduled; Notify ends, since the file observer writes a *)
(* line and the HTTP one bounds its retries and times out.  A handler      *)
(* blocked in a send is served in turn: only finitely many others, each    *)
(* with N sends, can overtake it.                                          *)
Fairness ==
  /\ \A h \in Handlers : WF_vars(HandlerStep(h))
  /\ \A w \in Workers : WF_vars(WorkerStep(w))
  /\ \A q \in Stoppers : WF_vars(StopperStep(q))

Spec == Init /\ [][Next]_vars /\ Fairness

-----------------------------------------------------------------------------
Sent(t) == t[2] < next[t[1]]

(* The places a task is in. *)
Queued(t) == {i \in DOMAIN taskCh : taskCh[i] = t}
Notifying(t) == {w \in Workers : busy[w] = t}

(* A task that was sent is in exactly one place - once in the channel, at  *)
(* one worker, or done - and one that was not sent is nowhere: no observer *)
(* misses an event or hears it twice (audit.go:58-74, 82-95).              *)
ExactlyOnce ==
  \A t \in Task :
    Cardinality(Queued(t)) + Cardinality(Notifying(t)) + (IF t \in handled THEN 1 ELSE 0)
      = IF Sent(t) THEN 1 ELSE 0

(* The WaitGroup NotifyAll returns counts exactly the observers that have  *)
(* not been notified yet, so Wait cannot return early, and Done never      *)
(* drives the counter below zero (audit.go:63, 83-84).                     *)
WaitGroupExact ==
  \A h \in Handlers : next[h] # 0 =>
    wg[h] = Cardinality({i \in 1..N : <<h, i>> \notin handled})

(* Once a Stop has got past its sync.Once, every event that went into the  *)
(* channel has been delivered, even those of handlers that were cut off by *)
(* the close: closing drains, it does not discard (audit.go:97-101).       *)
DrainedBeforeStop == once = "done" => \A t \in Task : Sent(t) => t \in handled

(* No observer is notified once a Stop has closed it, with several callers *)
(* of Stop racing: the file observer never writes to a closed file.        *)
NoNotifyAfterStop == \A w \in Workers : busy[w] # None => busy[w][2] \notin stopped

(* A NotifyAll that returned is followed by the delivery of its event to   *)
(* every observer, and its WaitGroup is released.                          *)
EventsDelivered == \A h \in Handlers : next[h] = N + 1 ~> wg[h] = 0

(* A full channel holds NotifyAll up but never for good: it returns, or    *)
(* panics because Stop has closed the channel.                             *)
NotifyAllEnds == \A h \in Handlers : next[h] # 0 ~> next[h] = N + 1 \/ h \in panicked

(* Stop returns to main, whatever the handlers do meanwhile.               *)
StopEnds == \A q \in Stoppers : stopper[q] # "idle" ~> stopper[q] = "returned"
=============================================================================

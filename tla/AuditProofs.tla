----------------------------- MODULE AuditProofs ----------------------------
(* Proofs about Audit for every number of handlers, workers, observers and *)
(* Stops and every capacity of the channel.                                *)
EXTENDS Audit, FiniteSetTheorems, SequenceTheorems, TLAPS

-----------------------------------------------------------------------------
(* The inductive invariant.                                                *)

(* Every task is in at most one place, and is somewhere exactly when it    *)
(* was sent.                                                               *)
QueuedOnce ==
  \A i, j \in DOMAIN taskCh : taskCh[i] = taskCh[j] => i = j

NotifiedByOne ==
  \A w, v \in Workers : busy[w] # None /\ busy[w] = busy[v] => w = v

QueuedOnlyThere ==
  \A i \in DOMAIN taskCh :
    /\ Sent(taskCh[i]) /\ taskCh[i] \notin handled
    /\ \A w \in Workers : busy[w] # taskCh[i]

NotifyingOnlyThere ==
  \A w \in Workers : busy[w] # None => Sent(busy[w]) /\ busy[w] \notin handled

HandledWasSent == \A t \in handled : Sent(t)

SentIsSomewhere ==
  \A t \in Task : Sent(t) =>
    \/ t \in handled
    \/ \E i \in DOMAIN taskCh : taskCh[i] = t
    \/ \E w \in Workers : busy[w] = t

PlaceInv ==
  /\ QueuedOnce /\ NotifiedByOne /\ QueuedOnlyThere
  /\ NotifyingOnlyThere /\ HandledWasSent /\ SentIsSomewhere

(* Who has left the pool has drained the closed channel; nobody gets past  *)
(* sync.Once before the pool is empty.                                     *)
StopInv ==
  /\ closed <=> once # "new"
  /\ \A w \in Workers \ pool : busy[w] = None /\ closed /\ taskCh = <<>>
  /\ once = "done" => pool = {}
  /\ \A q \in Stoppers : stopper[q] = "wait" => once # "new"
  /\ \A q \in Stoppers : stopper[q] \in {"observers", "returned"} => once = "done"
  /\ stopped # {} => once = "done"

Inv == TypeOK /\ PlaceInv /\ WaitGroupExact /\ StopInv

-----------------------------------------------------------------------------
(* A task is a handler and an observer, and never None. *)
LEMMA TaskFields ==
  ASSUME NEW t \in Task
  PROVE  /\ t[1] \in Handlers /\ t[2] \in 1..N /\ t # None
         /\ t = <<t[1], t[2]>>
BY AuditAssumption DEF Task

LEMMA InitInv == Init => Inv
<1> SUFFICES ASSUME Init PROVE Inv
  OBVIOUS
<1>1. TypeOK
  <2>1. taskCh \in Seq(Task) /\ Len(taskCh) = 0
    BY DEF Init
  <2>2. 0 \in 0..(N + 1) /\ 1 \in 1..(N + 1) /\ 0 <= Capacity
    BY AuditAssumption
  <2>3. stopper \in [Stoppers -> {"idle", "once", "wait", "observers", "returned"}]
    BY DEF Init
  <2>4. busy \in [Workers -> Task \cup {None}] /\ wg \in [Handlers -> Nat]
    BY DEF Init
  <2>5. next \in [Handlers -> 0..(N + 1)] /\ stopping \in [Stoppers -> 1..(N + 1)]
    BY <2>2 DEF Init
  <2> QED
    BY <2>1, <2>2, <2>3, <2>4, <2>5 DEF Init, TypeOK
<1>2. PlaceInv
  <2>1. \A t \in Task : ~Sent(t)
    BY TaskFields, AuditAssumption DEF Init, Sent
  <2> QED
    BY <2>1 DEF Init, PlaceInv, QueuedOnce, NotifiedByOne, QueuedOnlyThere,
         NotifyingOnlyThere, HandledWasSent, SentIsSomewhere
<1>3. WaitGroupExact
  BY DEF Init, WaitGroupExact
<1>4. StopInv
  BY DEF Init, StopInv
<1> QED
  BY <1>1, <1>2, <1>3, <1>4 DEF Inv

-----------------------------------------------------------------------------
(* Sync.Once, the pool and the close. *)
LEMMA StopStep == Inv /\ Next => StopInv'
<1> SUFFICES ASSUME Inv, Next PROVE StopInv'
  OBVIOUS
<1> USE DEF Inv, StopInv, senders, workers, stop
<1>1. ASSUME NEW h \in Handlers, NotifyAll(h) PROVE StopInv'
  BY <1>1 DEF NotifyAll, Ready, Sending, TypeOK
<1>2. ASSUME NEW h \in Handlers, Send(h) PROVE StopInv'
  BY <1>2 DEF Send, Ready, Sending, TypeOK
<1>3. ASSUME NEW h \in Handlers, SendDirectly(h) PROVE StopInv'
  BY <1>3 DEF SendDirectly, Ready, Sending, TypeOK
<1>4. ASSUME NEW h \in Handlers, SendPanics(h) PROVE StopInv'
  BY <1>4 DEF SendPanics, Ready, Sending, TypeOK
<1>5. ASSUME NEW w \in Workers, Receive(w) PROVE StopInv'
  BY <1>5 DEF Receive, Ready, Sending, TypeOK
<1>6. ASSUME NEW w \in Workers, Notified(w) PROVE StopInv'
  BY <1>6 DEF Notified, Ready, Sending, TypeOK
<1>7. ASSUME NEW w \in Workers, Exit(w) PROVE StopInv'
  BY <1>7 DEF Exit, Ready, Sending, TypeOK
<1>8. ASSUME NEW q \in Stoppers, Stop(q) PROVE StopInv'
  BY <1>8 DEF Stop, Ready, Sending, TypeOK
<1>9. ASSUME NEW q \in Stoppers, EnterOnce(q) PROVE StopInv'
  BY <1>9 DEF EnterOnce, Ready, Sending, TypeOK
<1>10. ASSUME NEW q \in Stoppers, LeaveOnce(q) PROVE StopInv'
  BY <1>10 DEF LeaveOnce, Ready, Sending, TypeOK
<1>11. ASSUME NEW q \in Stoppers, SkipOnce(q) PROVE StopInv'
  BY <1>11 DEF SkipOnce, Ready, Sending, TypeOK
<1>12. ASSUME NEW q \in Stoppers, StopObserver(q) PROVE StopInv'
  BY <1>12 DEF StopObserver, Ready, Sending, TypeOK
<1>13. ASSUME NEW q \in Stoppers, StopReturns(q) PROVE StopInv'
  BY <1>13 DEF StopReturns, Ready, Sending, TypeOK
<1> QED
  BY <1>1, <1>2, <1>3, <1>4, <1>5, <1>6, <1>7, <1>8, <1>9, <1>10, <1>11, <1>12, <1>13 DEF Next, HandlerStep, WorkerStep, StopperStep

-----------------------------------------------------------------------------
(* The WaitGroup. Only Notified handles a task, and it is the one that the *)
(* worker was notifying.                                                   *)

(* The observers that an event still has to reach. *)
Remaining(h) == {i \in 1..N : <<h, i>> \notin handled}

LEMMA RemainingFinite ==
  ASSUME NEW h
  PROVE  IsFiniteSet(Remaining(h)) /\ Cardinality(Remaining(h)) \in Nat
<1>1. IsFiniteSet(1..N)
  BY FS_Interval, AuditAssumption
<1>2. Remaining(h) \in SUBSET (1..N)
  BY DEF Remaining
<1> QED
  BY <1>1, <1>2, FS_Subset, FS_CardinalityType

(* Before its NotifyAll a handler has all of them left. *)
LEMMA NothingHandledBefore ==
  ASSUME Inv, NEW h \in Handlers, next[h] = 0
  PROVE  Cardinality(Remaining(h)) = N
<1>1. \A i \in 1..N : <<h, i>> \notin handled
  BY DEF Inv, PlaceInv, HandledWasSent, Sent
<1>2. Remaining(h) = 1..N
  BY <1>1 DEF Remaining
<1> QED
  BY <1>2, FS_Interval, AuditAssumption

LEMMA WaitGroupStep == Inv /\ Next => WaitGroupExact'
<1> SUFFICES ASSUME Inv, Next, NEW h \in Handlers, next'[h] # 0
             PROVE  wg'[h] = Cardinality(Remaining(h)')
  BY DEF WaitGroupExact, Remaining
<1>1. TypeOK
  BY DEF Inv
<1>2. next[h] # 0 => wg[h] = Cardinality(Remaining(h))
  BY DEF Inv, WaitGroupExact, Remaining
<1>3. ASSUME NEW g \in Handlers, NotifyAll(g) PROVE wg'[h] = Cardinality(Remaining(h)')
  <2>1. Remaining(h)' = Remaining(h)
    BY <1>3 DEF NotifyAll, workers, Remaining
  <2>2. CASE g = h
    <3>1. next[h] = 0 /\ wg'[h] = N
      BY <1>1, <1>3, <2>2 DEF NotifyAll, TypeOK
    <3> QED
      BY <2>1, <3>1, NothingHandledBefore
  <2>3. CASE g # h
    BY <1>1, <1>2, <1>3, <2>1, <2>3 DEF NotifyAll, TypeOK
  <2> QED
    BY <2>2, <2>3
<1>4. ASSUME NEW w \in Workers, Notified(w) PROVE wg'[h] = Cardinality(Remaining(h)')
  <2> DEFINE t == busy[w]
  <2>1. t \in Task /\ t \notin handled /\ Sent(t)
    BY <1>1, <1>4 DEF Notified, TypeOK, Inv, PlaceInv, NotifyingOnlyThere
  <2>2. t[1] \in Handlers /\ t[2] \in 1..N /\ t = <<t[1], t[2]>>
    BY <2>1, TaskFields
  <2>3. next' = next /\ handled' = handled \cup {t}
    BY <1>4 DEF Notified
  <2>4. wg' = [wg EXCEPT ![t[1]] = @ - 1]
    BY <1>4 DEF Notified
  <2>5. wg[h] = Cardinality(Remaining(h)) /\ wg[h] \in Nat
    BY <1>1, <1>2, <2>3 DEF TypeOK
  <2>6. CASE t[1] = h
    <3>1. wg'[h] = wg[h] - 1
      BY <1>1, <2>2, <2>4, <2>6 DEF TypeOK
    <3>2. t[2] \in Remaining(h)
      BY <2>1, <2>2, <2>6 DEF Remaining
    <3>3. Remaining(h)' = Remaining(h) \ {t[2]}
      BY <2>2, <2>3, <2>6 DEF Remaining
    <3>4. Cardinality(Remaining(h) \ {t[2]}) = Cardinality(Remaining(h)) - 1
      BY <3>2, RemainingFinite, FS_RemoveElement
    <3> QED
      BY <2>5, <3>1, <3>3, <3>4
  <2>7. CASE t[1] # h
    <3>1. wg'[h] = wg[h]
      BY <1>1, <2>4, <2>7 DEF TypeOK
    <3>2. \A i : <<h, i>> # t
      BY <2>2, <2>7
    <3>3. Remaining(h)' = Remaining(h)
      BY <2>3, <3>2 DEF Remaining
    <3> QED
      BY <2>5, <3>1, <3>3
  <2> QED
    BY <2>6, <2>7
<1>5. ASSUME wg' = wg, handled' = handled, next[h] = 0 => next'[h] = 0
      PROVE  wg'[h] = Cardinality(Remaining(h)')
  BY <1>2, <1>5 DEF Remaining
<1>6. ASSUME NEW g \in Handlers, HandlerStep(g) PROVE wg'[h] = Cardinality(Remaining(h)')
  BY <1>1, <1>5, <1>6
     DEF HandlerStep, Send, SendDirectly, SendPanics, Sending, workers, TypeOK
<1>7. ASSUME NEW w \in Workers, Receive(w) \/ Exit(w) PROVE wg'[h] = Cardinality(Remaining(h)')
  BY <1>5, <1>7 DEF Receive, Exit, senders
<1>8. ASSUME NEW q \in Stoppers, Stop(q) \/ StopperStep(q) PROVE wg'[h] = Cardinality(Remaining(h)')
  BY <1>5, <1>8 DEF Stop, StopperStep, EnterOnce, LeaveOnce, SkipOnce, StopObserver,
                   StopReturns, senders, workers
<1> QED
  BY <1>3, <1>4, <1>6, <1>7, <1>8 DEF Next, WorkerStep

-----------------------------------------------------------------------------
(* Types. The WaitGroup stays a natural number because it is exact. *)
LEMMA TypeStep == Inv /\ Next => TypeOK'
<1> SUFFICES ASSUME Inv, Next PROVE TypeOK'
  OBVIOUS
<1>1. TypeOK
  BY DEF Inv
<1>2. N \in Nat /\ Capacity \in Nat
  BY AuditAssumption
<1>3. ASSUME NEW h \in Handlers, NotifyAll(h) PROVE TypeOK'
  BY <1>1, <1>2, <1>3 DEF NotifyAll, TypeOK, workers, stop
<1>4. ASSUME NEW h \in Handlers, Sending(h)
      PROVE  <<h, next[h]>> \in Task /\ [next EXCEPT ![h] = @ + 1] \in [Handlers -> 0..(N + 1)]
  BY <1>1, <1>2, <1>4 DEF Sending, TypeOK, Task
<1>5. ASSUME NEW h \in Handlers, Send(h) PROVE TypeOK'
  <2>1. taskCh' \in Seq(Task) /\ Len(taskCh') = Len(taskCh) + 1
    BY <1>1, <1>4, <1>5, AppendProperties DEF Send, TypeOK
  <2>2. Len(taskCh') <= Capacity /\ next' \in [Handlers -> 0..(N + 1)]
    BY <1>1, <1>2, <1>4, <1>5, <2>1 DEF Send, TypeOK
  <2> QED
    BY <1>1, <1>5, <2>1, <2>2 DEF Send, TypeOK, workers, stop
<1>6. ASSUME NEW h \in Handlers, SendDirectly(h) PROVE TypeOK'
  <2>1. next' \in [Handlers -> 0..(N + 1)] /\ busy' \in [Workers -> Task \cup {None}]
    BY <1>1, <1>4, <1>6 DEF SendDirectly, TypeOK
  <2> QED
    BY <1>1, <1>6, <2>1 DEF SendDirectly, TypeOK, stop
<1>7. ASSUME NEW h \in Handlers, SendPanics(h) PROVE TypeOK'
  BY <1>1, <1>7 DEF SendPanics, TypeOK, workers, stop
<1>8. ASSUME NEW w \in Workers, Receive(w) PROVE TypeOK'
  <2>1. Head(taskCh) \in Task /\ taskCh' \in Seq(Task) /\ Len(taskCh') = Len(taskCh) - 1
    BY <1>1, <1>8, HeadTailProperties DEF Receive, TypeOK
  <2>2. Len(taskCh') <= Capacity /\ busy' \in [Workers -> Task \cup {None}]
    BY <1>1, <1>2, <1>8, <2>1 DEF Receive, TypeOK
  <2> QED
    BY <1>1, <1>8, <2>1, <2>2 DEF Receive, TypeOK, senders, stop
<1>9. ASSUME NEW w \in Workers, Notified(w) PROVE TypeOK'
  <2> PICK h : h = busy[w][1]
    OBVIOUS
  <2>1. busy[w] \in Task /\ Sent(busy[w])
    BY <1>1, <1>9 DEF Notified, TypeOK, Inv, PlaceInv, NotifyingOnlyThere
  <2>2. h \in Handlers /\ busy[w][2] \in 1..N
    BY <2>1, TaskFields
  <2>3. next[h] # 0 /\ next' = next
    BY <1>1, <1>2, <1>9, <2>1, <2>2 DEF Notified, Sent, TypeOK
  <2>4. wg'[h] = Cardinality(Remaining(h)')
    <3>1. WaitGroupExact'
      BY WaitGroupStep
    <3> QED
      BY <2>2, <2>3, <3>1 DEF WaitGroupExact, Remaining
  <2>5. wg'[h] \in Nat
    <3>1. IsFiniteSet(1..N)
      BY <1>2, FS_Interval
    <3>2. Remaining(h)' \in SUBSET (1..N)
      BY DEF Remaining
    <3> QED
      BY <2>4, <3>1, <3>2, FS_Subset, FS_CardinalityType
  <2>6. wg' \in [Handlers -> Nat]
    BY <1>1, <1>9, <2>2, <2>5 DEF Notified, TypeOK
  <2>7. busy' \in [Workers -> Task \cup {None}] /\ handled' \subseteq Task
    BY <1>1, <1>9, <2>1 DEF Notified, TypeOK
  <2> QED
    BY <1>1, <1>9, <2>6, <2>7 DEF Notified, TypeOK, stop
<1>10. ASSUME NEW w \in Workers, Exit(w) PROVE TypeOK'
  BY <1>1, <1>10 DEF Exit, TypeOK, senders, stop
<1>11. ASSUME NEW q \in Stoppers, Stop(q) \/ EnterOnce(q) \/ LeaveOnce(q) \/ SkipOnce(q) \/ StopReturns(q)
       PROVE  TypeOK'
  BY <1>1, <1>11 DEF Stop, EnterOnce, LeaveOnce, SkipOnce, StopReturns, TypeOK, senders, workers
<1>12. ASSUME NEW q \in Stoppers, StopObserver(q) PROVE TypeOK'
  <2>1. stopping[q] \in 1..N /\ stopping[q] + 1 \in 1..(N + 1)
    BY <1>1, <1>2, <1>12 DEF StopObserver, TypeOK
  <2>2. stopping' \in [Stoppers -> 1..(N + 1)] /\ stopped' \subseteq 1..N
    BY <1>1, <1>12, <2>1 DEF StopObserver, TypeOK
  <2> QED
    BY <1>1, <1>12, <2>2 DEF StopObserver, TypeOK, senders, workers
<1> QED
  BY <1>3, <1>5, <1>6, <1>7, <1>8, <1>9, <1>10, <1>11, <1>12
     DEF Next, HandlerStep, WorkerStep, StopperStep

-----------------------------------------------------------------------------
(* Places. A send adds a task that was nowhere, a receive and a            *)
(* notification move it on.                                                *)

LEMMA PlacesTyped ==
  ASSUME TypeOK
  PROVE  /\ \A i \in DOMAIN taskCh : taskCh[i] \in Task /\ taskCh[i] # None
         /\ \A w \in Workers : busy[w] # None => busy[w] \in Task
         /\ handled \subseteq Task
         /\ DOMAIN taskCh = 1..Len(taskCh) /\ Len(taskCh) \in Nat
BY TaskFields DEF TypeOK

(* The task that a handler is sending, and what sending it changes. *)
LEMMA NewTask ==
  ASSUME Inv, NEW h \in Handlers, Sending(h), next' = [next EXCEPT ![h] = @ + 1],
         NEW t, t = <<h, next[h]>>
  PROVE  /\ t \in Task /\ t # None
         /\ t \notin handled
         /\ \A i \in DOMAIN taskCh : taskCh[i] # t
         /\ \A w \in Workers : busy[w] # t
         /\ \A u \in Task : Sent(u)' <=> Sent(u) \/ u = t
<1>1. TypeOK
  BY DEF Inv
<1>2. t \in Task /\ t # None /\ next[h] \in Nat
  BY <1>1, TaskFields, AuditAssumption DEF Sending, TypeOK, Task
<1>3. ~Sent(t)
  BY <1>2 DEF Sent
<1>4. t \notin handled /\ (\A i \in DOMAIN taskCh : taskCh[i] # t) /\ (\A w \in Workers : busy[w] # t)
  BY <1>2, <1>3 DEF Inv, PlaceInv, HandledWasSent, QueuedOnlyThere, NotifyingOnlyThere
<1>5. ASSUME NEW u \in Task PROVE Sent(u)' <=> Sent(u) \/ u = t
  <2>1. u[1] \in Handlers /\ u[2] \in 1..N /\ u = <<u[1], u[2]>> /\ next \in [Handlers -> 0..(N + 1)]
    BY <1>1, TaskFields DEF TypeOK
  <2>2. CASE u[1] = h
    <3>1. Sent(u)' <=> u[2] < next[h] + 1
      BY <2>1, <2>2 DEF Sent
    <3>2. u = t <=> u[2] = next[h]
      BY <2>1, <2>2
    <3> QED
      BY <1>2, <2>1, <2>2, <3>1, <3>2, AuditAssumption DEF Sent
  <2>3. CASE u[1] # h
    BY <2>1, <2>3 DEF Sent
  <2> QED
    BY <2>2, <2>3
<1> QED
  BY <1>2, <1>4, <1>5

LEMMA SendPlaces ==
  ASSUME Inv, NEW h \in Handlers, Send(h)
  PROVE  PlaceInv'
<1> PICK t : t = <<h, next[h]>>
  OBVIOUS
<1>1. TypeOK /\ PlaceInv
  BY DEF Inv
<1>2. /\ t \in Task /\ t # None /\ t \notin handled
      /\ \A i \in DOMAIN taskCh : taskCh[i] # t
      /\ \A w \in Workers : busy[w] # t
      /\ \A u \in Task : Sent(u)' <=> Sent(u) \/ u = t
  BY NewTask DEF Send
<1>3. busy' = busy /\ handled' = handled /\ taskCh' = Append(taskCh, t)
  BY DEF Send, workers
<1>4. /\ DOMAIN taskCh' = 1..(Len(taskCh) + 1)
      /\ \A i \in DOMAIN taskCh : taskCh'[i] = taskCh[i]
      /\ taskCh'[Len(taskCh) + 1] = t
  BY <1>1, <1>2, <1>3, AppendProperties DEF TypeOK
<1>5. \A i \in DOMAIN taskCh' : i \in DOMAIN taskCh \/ i = Len(taskCh) + 1
  BY <1>1, <1>4, PlacesTyped
<1>6. QueuedOnce'
  BY <1>1, <1>2, <1>4, <1>5 DEF PlaceInv, QueuedOnce
<1>7. NotifiedByOne'
  BY <1>1, <1>3 DEF PlaceInv, NotifiedByOne
<1>8. QueuedOnlyThere'
  BY <1>1, <1>2, <1>3, <1>4, <1>5, PlacesTyped DEF PlaceInv, QueuedOnlyThere
<1>9. NotifyingOnlyThere'
  BY <1>1, <1>2, <1>3, PlacesTyped DEF PlaceInv, NotifyingOnlyThere
<1>10. HandledWasSent'
  BY <1>1, <1>2, <1>3, PlacesTyped DEF PlaceInv, HandledWasSent
<1>11. SentIsSomewhere'
  <2>1. \A i \in DOMAIN taskCh : i \in DOMAIN taskCh'
    BY <1>1, <1>4, PlacesTyped
  <2>2. Len(taskCh) + 1 \in DOMAIN taskCh'
    BY <1>1, <1>4, PlacesTyped
  <2> QED
    BY <1>1, <1>2, <1>3, <1>4, <2>1, <2>2 DEF PlaceInv, SentIsSomewhere
<1> QED
  BY <1>6, <1>7, <1>8, <1>9, <1>10, <1>11 DEF PlaceInv

LEMMA SendDirectlyPlaces ==
  ASSUME Inv, NEW h \in Handlers, SendDirectly(h)
  PROVE  PlaceInv'
<1> PICK t : t = <<h, next[h]>>
  OBVIOUS
<1>1. TypeOK /\ PlaceInv
  BY DEF Inv
<1>2. /\ t \in Task /\ t # None /\ t \notin handled
      /\ \A i \in DOMAIN taskCh : taskCh[i] # t
      /\ \A w \in Workers : busy[w] # t
      /\ \A u \in Task : Sent(u)' <=> Sent(u) \/ u = t
  BY NewTask DEF SendDirectly
<1> PICK w \in Workers : busy[w] = None /\ busy' = [busy EXCEPT ![w] = t]
  BY DEF SendDirectly, Ready
<1>3. handled' = handled /\ taskCh' = taskCh
  BY DEF SendDirectly
<1>4. busy'[w] = t /\ \A v \in Workers : v # w => busy'[v] = busy[v]
  BY <1>1 DEF TypeOK
<1>5. QueuedOnce'
  BY <1>1, <1>3 DEF PlaceInv, QueuedOnce
<1>6. NotifiedByOne'
  BY <1>1, <1>2, <1>4 DEF PlaceInv, NotifiedByOne
<1>7. QueuedOnlyThere'
  BY <1>1, <1>2, <1>3, <1>4, PlacesTyped DEF PlaceInv, QueuedOnlyThere
<1>8. NotifyingOnlyThere'
  BY <1>1, <1>2, <1>3, <1>4, PlacesTyped DEF PlaceInv, NotifyingOnlyThere
<1>9. HandledWasSent'
  BY <1>1, <1>2, <1>3, PlacesTyped DEF PlaceInv, HandledWasSent
<1>10. SentIsSomewhere'
  <2> SUFFICES ASSUME NEW u \in Task, Sent(u)'
               PROVE  \/ u \in handled
                      \/ \E i \in DOMAIN taskCh : taskCh[i] = u
                      \/ \E v \in Workers : busy'[v] = u
    BY <1>3 DEF SentIsSomewhere
  <2>1. CASE u = t
    BY <1>4, <2>1
  <2>2. CASE Sent(u)
    <3>1. \A v \in Workers : busy[v] = u => v # w
      BY TaskFields
    <3> QED
      BY <1>1, <1>4, <2>2, <3>1 DEF PlaceInv, SentIsSomewhere
  <2> QED
    BY <1>2, <2>1, <2>2
<1> QED
  BY <1>5, <1>6, <1>7, <1>8, <1>9, <1>10 DEF PlaceInv

LEMMA ReceivePlaces ==
  ASSUME Inv, NEW w \in Workers, Receive(w)
  PROVE  PlaceInv'
<1>1. TypeOK /\ PlaceInv
  BY DEF Inv
<1>2. taskCh # <<>> /\ busy[w] = None /\ next' = next /\ handled' = handled
  BY DEF Receive, Ready, senders
<1>3. \A u : Sent(u)' <=> Sent(u)
  BY <1>2 DEF Sent
<1>4. /\ DOMAIN taskCh' = 1..(Len(taskCh) - 1)
      /\ \A i \in DOMAIN taskCh' : taskCh'[i] = taskCh[i + 1]
  BY <1>1, <1>2, HeadTailProperties DEF Receive, TypeOK
<1>5. DOMAIN taskCh = 1..Len(taskCh) /\ Len(taskCh) \in Nat
  BY <1>1, PlacesTyped
<1>6. 1 \in DOMAIN taskCh /\ \A i \in DOMAIN taskCh' : i + 1 \in DOMAIN taskCh /\ i + 1 # 1
  BY <1>1, <1>2, <1>4, <1>5 DEF TypeOK
<1>7. busy'[w] = taskCh[1] /\ \A v \in Workers : v # w => busy'[v] = busy[v]
  BY <1>1, <1>2 DEF Receive, TypeOK
<1>8. QueuedOnce'
  BY <1>1, <1>4, <1>5, <1>6 DEF PlaceInv, QueuedOnce
<1>9. NotifiedByOne'
  BY <1>1, <1>6, <1>7 DEF PlaceInv, NotifiedByOne, QueuedOnlyThere
<1>10. QueuedOnlyThere'
  BY <1>1, <1>2, <1>3, <1>4, <1>6, <1>7 DEF PlaceInv, QueuedOnlyThere, QueuedOnce
<1>11. NotifyingOnlyThere'
  BY <1>1, <1>2, <1>3, <1>6, <1>7 DEF PlaceInv, QueuedOnlyThere, NotifyingOnlyThere
<1>12. HandledWasSent'
  BY <1>1, <1>2, <1>3 DEF PlaceInv, HandledWasSent
<1>13. SentIsSomewhere'
  <2> SUFFICES ASSUME NEW u \in Task, Sent(u)
               PROVE  \/ u \in handled
                      \/ \E i \in DOMAIN taskCh' : taskCh'[i] = u
                      \/ \E v \in Workers : busy'[v] = u
    BY <1>2, <1>3 DEF SentIsSomewhere
  <2>1. CASE u \in handled
    BY <2>1
  <2>2. ASSUME NEW i \in DOMAIN taskCh, taskCh[i] = u
        PROVE  \/ \E j \in DOMAIN taskCh' : taskCh'[j] = u
               \/ \E v \in Workers : busy'[v] = u
    <3>1. CASE i = 1
      BY <1>7, <2>2, <3>1
    <3>2. CASE i # 1
      <4>1. i - 1 \in DOMAIN taskCh' /\ (i - 1) + 1 = i
        BY <1>4, <1>5, <2>2, <3>2
      <4> QED
        BY <1>4, <2>2, <4>1
    <3> QED
      BY <3>1, <3>2
  <2>3. ASSUME NEW v \in Workers, busy[v] = u PROVE busy'[v] = u
    BY <1>2, <1>7, <2>3, TaskFields
  <2> QED
    BY <1>1, <2>1, <2>2, <2>3 DEF PlaceInv, SentIsSomewhere
<1> QED
  BY <1>8, <1>9, <1>10, <1>11, <1>12, <1>13 DEF PlaceInv

LEMMA NotifiedPlaces ==
  ASSUME Inv, NEW w \in Workers, Notified(w)
  PROVE  PlaceInv'
<1>1. TypeOK /\ PlaceInv
  BY DEF Inv
<1>2. busy[w] # None /\ next' = next /\ taskCh' = taskCh /\ handled' = handled \cup {busy[w]}
  BY DEF Notified
<1>3. \A u : Sent(u)' <=> Sent(u)
  BY <1>2 DEF Sent
<1>4. busy'[w] = None /\ \A v \in Workers : v # w => busy'[v] = busy[v]
  BY <1>1 DEF Notified, TypeOK
<1>5. \A i \in DOMAIN taskCh : taskCh[i] # busy[w] /\ taskCh[i] # None
  BY <1>1, PlacesTyped DEF PlaceInv, QueuedOnlyThere
<1>6. QueuedOnce'
  BY <1>1, <1>2 DEF PlaceInv, QueuedOnce
<1>7. NotifiedByOne'
  BY <1>1, <1>4 DEF PlaceInv, NotifiedByOne
<1>8. QueuedOnlyThere'
  BY <1>1, <1>2, <1>3, <1>4, <1>5 DEF PlaceInv, QueuedOnlyThere
<1>9. NotifyingOnlyThere'
  BY <1>1, <1>2, <1>3, <1>4 DEF PlaceInv, NotifyingOnlyThere, NotifiedByOne
<1>10. HandledWasSent'
  BY <1>1, <1>2, <1>3 DEF PlaceInv, HandledWasSent, NotifyingOnlyThere
<1>11. SentIsSomewhere'
  BY <1>1, <1>2, <1>3, <1>4 DEF PlaceInv, SentIsSomewhere
<1> QED
  BY <1>6, <1>7, <1>8, <1>9, <1>10, <1>11 DEF PlaceInv

LEMMA PlaceStep == Inv /\ Next => PlaceInv'
<1> SUFFICES ASSUME Inv, Next PROVE PlaceInv'
  OBVIOUS
<1>1. TypeOK /\ PlaceInv
  BY DEF Inv
<1>2. ASSUME taskCh' = taskCh, busy' = busy, handled' = handled,
             \A u \in Task : Sent(u)' <=> Sent(u)
      PROVE  PlaceInv'
  BY <1>1, <1>2, PlacesTyped
     DEF PlaceInv, QueuedOnce, NotifiedByOne, QueuedOnlyThere, NotifyingOnlyThere,
         HandledWasSent, SentIsSomewhere
<1>3. ASSUME NEW h \in Handlers, NotifyAll(h) PROVE PlaceInv'
  <2>1. taskCh' = taskCh /\ busy' = busy /\ handled' = handled
    BY <1>3 DEF NotifyAll, workers
  <2>2. \A u \in Task : Sent(u)' <=> Sent(u)
    BY <1>1, <1>3, TaskFields, AuditAssumption DEF NotifyAll, TypeOK, Sent
  <2> QED
    BY <1>2, <2>1, <2>2
<1>4. ASSUME next' = next, taskCh' = taskCh, busy' = busy, handled' = handled PROVE PlaceInv'
  BY <1>2, <1>4 DEF Sent
<1>5. ASSUME NEW h \in Handlers, HandlerStep(h) PROVE PlaceInv'
  BY <1>4, <1>5, SendPlaces, SendDirectlyPlaces DEF HandlerStep, SendPanics, workers
<1>6. ASSUME NEW w \in Workers, WorkerStep(w) PROVE PlaceInv'
  BY <1>4, <1>6, ReceivePlaces, NotifiedPlaces DEF WorkerStep, Exit, senders
<1>7. ASSUME NEW q \in Stoppers, Stop(q) \/ StopperStep(q) PROVE PlaceInv'
  BY <1>4, <1>7 DEF Stop, StopperStep, EnterOnce, LeaveOnce, SkipOnce, StopObserver,
                   StopReturns, senders, workers
<1> QED
  BY <1>3, <1>5, <1>6, <1>7 DEF Next

-----------------------------------------------------------------------------
LEMMA InvStep == Inv /\ [Next]_vars => Inv'
<1> SUFFICES ASSUME Inv, [Next]_vars PROVE Inv'
  OBVIOUS
<1>1. CASE Next
  BY <1>1, TypeStep, PlaceStep, WaitGroupStep, StopStep DEF Inv
<1>2. CASE UNCHANGED vars
  BY <1>2 DEF vars, Inv, TypeOK, PlaceInv, QueuedOnce, NotifiedByOne, QueuedOnlyThere,
              NotifyingOnlyThere, HandledWasSent, SentIsSomewhere, Sent,
              WaitGroupExact, StopInv
<1> QED
  BY <1>1, <1>2

(* Inv holds in every reachable state of the bus (audit.go:45-115): each   *)
(* sent task is in one place, the WaitGroups are exact and the stages of   *)
(* Stop follow one another.                                                *)
THEOREM Invariance == Spec => []Inv
<1> QED
  BY InitInv, InvStep, PTL DEF Spec

(* The bus is type correct; in particular Done never drives a WaitGroup    *)
(* below zero and the channel never exceeds its capacity (audit.go:58-95). *)
THEOREM TypeCorrect == Spec => []TypeOK
<1>1. Inv => TypeOK
  BY DEF Inv
<1> QED
  BY <1>1, Invariance, PTL

(* A sent event is in exactly one place, in the channel, at a worker or    *)
(* delivered, and one that was not sent is nowhere (audit.go:58-95).       *)
THEOREM ExactlyOnceCorrect == Spec => []ExactlyOnce
<1>1. Inv => ExactlyOnce
  <2> SUFFICES ASSUME Inv, NEW t \in Task
               PROVE  Cardinality(Queued(t)) + Cardinality(Notifying(t))
                        + (IF t \in handled THEN 1 ELSE 0)
                        = IF Sent(t) THEN 1 ELSE 0
    BY DEF ExactlyOnce
  <2>1. PlaceInv /\ t # None
    BY TaskFields DEF Inv
  <2>2. Cardinality({}) = 0 /\ \A x : Cardinality({x}) = 1
    BY FS_EmptySet, FS_Singleton
  <2>3. CASE \E i \in DOMAIN taskCh : taskCh[i] = t
    <3> PICK i \in DOMAIN taskCh : taskCh[i] = t
      BY <2>3
    <3>1. Queued(t) = {i}
      BY <2>1 DEF Queued, PlaceInv, QueuedOnce
    <3>2. Notifying(t) = {} /\ t \notin handled /\ Sent(t)
      BY <2>1 DEF Notifying, PlaceInv, QueuedOnlyThere
    <3>3. Cardinality(Queued(t)) = 1 /\ Cardinality(Notifying(t)) = 0
      BY <2>2, <3>1, <3>2
    <3> QED
      BY <3>2, <3>3
  <2>4. CASE \E w \in Workers : busy[w] = t
    <3> PICK w \in Workers : busy[w] = t
      BY <2>4
    <3>1. Notifying(t) = {w}
      BY <2>1 DEF Notifying, PlaceInv, NotifiedByOne
    <3>2. Queued(t) = {}
      BY <2>1 DEF Queued, PlaceInv, QueuedOnlyThere
    <3>3. t \notin handled /\ Sent(t)
      BY <2>1 DEF PlaceInv, NotifyingOnlyThere
    <3>4. Cardinality(Queued(t)) = 0 /\ Cardinality(Notifying(t)) = 1
      BY <2>2, <3>1, <3>2
    <3> QED
      BY <3>3, <3>4
  <2>5. CASE /\ \A i \in DOMAIN taskCh : taskCh[i] # t
             /\ \A w \in Workers : busy[w] # t
    <3>1. Queued(t) = {} /\ Notifying(t) = {}
      BY <2>5 DEF Queued, Notifying
    <3>2. t \in handled => Sent(t)
      BY <2>1 DEF PlaceInv, HandledWasSent
    <3>3. Sent(t) => t \in handled
      BY <2>1, <2>5 DEF PlaceInv, SentIsSomewhere
    <3>4. Cardinality(Queued(t)) = 0 /\ Cardinality(Notifying(t)) = 0
      BY <2>2, <3>1
    <3> QED
      BY <3>2, <3>3, <3>4
  <2> QED
    BY <2>3, <2>4, <2>5
<1> QED
  BY <1>1, Invariance, PTL

(* The WaitGroup that NotifyAll returns counts the observers not yet       *)
(* notified (audit.go:63, 83-84).                                          *)
THEOREM WaitGroupCorrect == Spec => []WaitGroupExact
<1>1. Inv => WaitGroupExact
  BY DEF Inv
<1> QED
  BY <1>1, Invariance, PTL

(* A Stop that is past its sync.Once finds every sent event delivered,     *)
(* however full the channel was when it was closed (audit.go:97-101).      *)
THEOREM StopDrains == Spec => []DrainedBeforeStop
<1>1. Inv => DrainedBeforeStop
  <2> SUFFICES ASSUME Inv, once = "done", NEW t \in Task, Sent(t)
               PROVE  t \in handled
    BY DEF DrainedBeforeStop
  <2>1. \A w \in Workers : busy[w] = None /\ taskCh = <<>>
    BY DEF Inv, StopInv
  <2>2. taskCh = <<>>
    BY <2>1, AuditAssumption
  <2>3. DOMAIN taskCh = {}
    BY <2>2
  <2> QED
    BY <2>1, <2>3, TaskFields DEF Inv, PlaceInv, SentIsSomewhere
<1> QED
  BY <1>1, Invariance, PTL

(* No worker notifies an observer that a Stop has closed, however many     *)
(* callers of Stop race (audit.go:97-108).                                 *)
THEOREM NoLateNotify == Spec => []NoNotifyAfterStop
<1>1. Inv => NoNotifyAfterStop
  BY DEF Inv, StopInv, NoNotifyAfterStop
<1> QED
  BY <1>1, Invariance, PTL
=============================================================================

--------------------------- MODULE MapUpdaterProofs ---------------------------
(***************************************************************************)
(* The barrier of MapManager::Update for every number of workers and maps. *)
(***************************************************************************)
EXTENDS MapUpdater, FiniteSetTheorems, TLAPS

\* WorldThreadAlone alone is not inductive: that pending = 0 means "nobody is
\* working" needs the count, the count needs to know which workers hold a
\* request, and the shutdown needs to know that the token precedes Cancel.
WorkerShape ==
    \A w \in Workers :
        /\ pc[w] = "pop" => request[w] = NoMap
        /\ pc[w] = "update" => request[w] # NoMap /\ ~token

ShutdownShape ==
    /\ shutdown => token
    /\ token => items = <<>> /\ Holding = {}
    /\ mainPc \in {"cancel", "join", "exited"} => token
    /\ mainPc \in {"idle", "delayed", "schedule", "deactivate"} => ~token

IInv ==
    /\ TypeOK
    /\ WorkerShape
    /\ ShutdownShape
    /\ PendingIsOutstanding
    /\ WorldThreadAlone
    /\ PoppedRequestIsHandled

------------------------------------------------------------------------------
\* The requests in the hands of workers can be counted.
LEMMA HoldingFinite ==
    IsFiniteSet(Holding) /\ Cardinality(Holding) \in Nat
<1>1. Holding \subseteq Workers /\ IsFiniteSet(Workers)
  BY MapsAssumption DEF Holding
<1>2. QED
  BY <1>1, FS_Subset, FS_CardinalityType

\* wait() sees 0 only if there is nothing to wait for.
LEMMA NothingPending ==
    ASSUME TypeOK, PendingIsOutstanding, pending = 0
    PROVE  items = <<>> /\ Holding = {}
<1>1. Len(items) \in Nat
  BY DEF TypeOK
<1>2. Len(items) = 0 /\ Cardinality(Holding) = 0
  BY <1>1, HoldingFinite DEF PendingIsOutstanding
<1>3. items = <<>>
  BY <1>2 DEF TypeOK
<1>4. QED
  BY <1>2, <1>3, HoldingFinite, FS_EmptySet

\* Nothing is scheduled, and every worker is about to wait.
LEMMA IInvInit == Init => IInv
<1> SUFFICES ASSUME Init PROVE IInv
  OBVIOUS
<1>1. items = <<>> /\ Holding = {} /\ pending = 0 /\ items \in Seq(Maps)
  BY DEF Init, QueueInit, Holding
<1>2. Cardinality(Holding) = 0
  BY <1>1, FS_EmptySet
<1>a. /\ pc \in [Workers -> {"pop", "check", "update", "exited"}]
      /\ request \in [Workers -> Maps \cup {NoMap}]
      /\ rest \in [Workers -> SUBSET Instances]
  BY DEF Init
<1>b. /\ shutdown \in BOOLEAN /\ token \in BOOLEAN /\ stopEvent \in BOOLEAN
      /\ sleeping \subseteq Workers /\ pending \in Nat
      /\ todo \subseteq BaseMaps /\ live \subseteq Maps /\ served \subseteq Maps
      /\ mainPc \in Serial \cup {"schedule", "wait", "blocked"}
  BY DEF Init, QueueInit, Serial
<1>3. TypeOK
  BY <1>1, <1>a, <1>b DEF TypeOK
<1>4. WorkerShape /\ ShutdownShape /\ PoppedRequestIsHandled
  BY <1>1 DEF Init, QueueInit, WorkerShape, ShutdownShape, PoppedRequestIsHandled
<1>5. PendingIsOutstanding /\ WorldThreadAlone
  BY <1>1, <1>2 DEF PendingIsOutstanding, WorldThreadAlone
<1>6. QED
  BY <1>3, <1>4, <1>5 DEF IInv

\* One request more in the queue and one more in the counter.
LEMMA ScheduleCounts ==
    ASSUME TypeOK, PendingIsOutstanding, NEW m \in Maps, schedule_update(m),
           UNCHANGED request
    PROVE  PendingIsOutstanding' /\ items' \in Seq(Maps) /\ pending' \in Nat
<1>1. items' = Append(items, m) /\ pending' = pending + 1 /\ Holding' = Holding
  BY DEF schedule_update, Push, Holding
<1>2. Len(items') = Len(items) + 1 /\ items' \in Seq(Maps)
  BY <1>1 DEF TypeOK
<1>3. QED
  BY <1>1, <1>2, HoldingFinite DEF PendingIsOutstanding, TypeOK

\* The world thread schedules a map of i_maps.
LEMMA ScheduleMapStep == IInv /\ ScheduleMap => IInv'
<1> SUFFICES ASSUME IInv, ScheduleMap PROVE IInv'
  OBVIOUS
<1> USE DEF IInv
<1>1. PICK m \in todo : schedule_update(m) /\ todo' = todo \ {m}
  BY DEF ScheduleMap
<1>2. m \in Maps /\ UNCHANGED <<mainPc, stopEvent, pc, request, rest, live, token, served, shutdown>>
  BY <1>1 DEF ScheduleMap, workerVars, schedule_update, Push, TypeOK, Maps
<1>3. PendingIsOutstanding' /\ items' \in Seq(Maps) /\ pending' \in Nat
  BY <1>1, <1>2, ScheduleCounts
<1>4. sleeping' \subseteq Workers /\ todo' \subseteq BaseMaps
  BY <1>1 DEF schedule_update, Push, NotifyOne, TypeOK
<1>5. mainPc = "schedule" /\ ~token
  BY DEF ScheduleMap, ShutdownShape
<1>6. TypeOK'
  BY <1>2, <1>3, <1>4 DEF TypeOK
<1>7. WorkerShape' /\ PoppedRequestIsHandled'
  BY <1>2 DEF WorkerShape, PoppedRequestIsHandled
<1>8. ShutdownShape' /\ WorldThreadAlone'
  BY <1>2, <1>5 DEF ShutdownShape, WorldThreadAlone, Serial
<1>9. QED
  BY <1>3, <1>6, <1>7, <1>8

\* A step of the world thread that touches neither the queue, the counter, the
\* token nor a worker, and stays on its side of the barrier.
LEMMA QuietStep ==
    ASSUME IInv, UNCHANGED <<queueVars, workerVars, pending, token>>,
           TypeOK',
           mainPc' \in Serial => mainPc \in Serial \/ pending = 0,
           mainPc' \in {"cancel", "join", "exited"} => token,
           mainPc' \in {"idle", "delayed", "schedule", "deactivate"} => ~token
    PROVE  IInv'
<1> USE DEF IInv
<1>1. UNCHANGED <<items, shutdown, sleeping, pc, request, rest>> /\ Holding' = Holding
  BY DEF queueVars, workerVars, Holding
<1>2. WorkerShape' /\ PoppedRequestIsHandled' /\ PendingIsOutstanding'
  BY <1>1 DEF WorkerShape, PoppedRequestIsHandled, PendingIsOutstanding
<1>3. ShutdownShape'
  BY <1>1 DEF ShutdownShape
<1>4. WorldThreadAlone'
  BY <1>1, NothingPending DEF WorldThreadAlone
<1>5. QED
  BY <1>2, <1>3, <1>4

\* The steps of the world thread between the schedule and the shutdown.
LEMMA MainQuietSteps ==
    ASSUME IInv,
           \/ StartUpdate \/ EndSchedule \/ WaitBlocks \/ MainSpuriousWake
           \/ WaitReturns \/ DelayedUpdate \/ EndUpdate \/ UnloadAll
           \/ DeactivateJoin \/ StopNow \/ (\E m \in Maps : CreateMap(m))
    PROVE  IInv'
<1> USE DEF IInv
<1>0. mainPc \in {"cancel", "join", "exited"} => token
  BY DEF ShutdownShape
<1>1. CASE StartUpdate
  <2>1. TypeOK'
    BY <1>1 DEF StartUpdate, TypeOK, queueVars, workerVars, Serial
  <2>2. QED
    BY <1>1, <2>1, QuietStep DEF StartUpdate, ShutdownShape, Serial
<1>2. CASE EndSchedule
  <2>1. TypeOK'
    BY <1>2 DEF EndSchedule, TypeOK, queueVars, workerVars, Serial
  <2>2. QED
    BY <1>2, <2>1, QuietStep DEF EndSchedule, ShutdownShape, Serial
<1>3. CASE WaitBlocks
  <2>1. TypeOK'
    BY <1>3 DEF WaitBlocks, TypeOK, queueVars, workerVars, Serial
  <2>2. QED
    BY <1>3, <2>1, QuietStep DEF WaitBlocks, ShutdownShape, Serial
<1>4. CASE MainSpuriousWake
  <2>1. TypeOK'
    BY <1>4 DEF MainSpuriousWake, TypeOK, queueVars, workerVars, Serial
  <2>2. QED
    BY <1>4, <2>1, QuietStep DEF MainSpuriousWake, ShutdownShape, Serial
<1>5. CASE WaitReturns
  <2>1. TypeOK'
    BY <1>5 DEF WaitReturns, TypeOK, queueVars, workerVars, Serial
  <2>2. QED
    BY <1>5, <2>1, QuietStep DEF WaitReturns
<1>6. CASE DelayedUpdate
  <2>1. TypeOK'
    BY <1>6 DEF DelayedUpdate, TypeOK, queueVars, workerVars
  <2>2. QED
    BY <1>6, <2>1, QuietStep DEF DelayedUpdate, ShutdownShape, Serial
<1>7. CASE EndUpdate
  <2>1. TypeOK'
    BY <1>7 DEF EndUpdate, TypeOK, queueVars, workerVars, Serial
  <2>2. QED
    BY <1>7, <2>1, QuietStep DEF EndUpdate, ShutdownShape, Serial
<1>8. CASE UnloadAll
  <2>1. TypeOK'
    BY <1>8 DEF UnloadAll, TypeOK, queueVars, workerVars, Serial
  <2>2. QED
    BY <1>8, <2>1, QuietStep DEF UnloadAll, ShutdownShape, Serial
<1>9. CASE DeactivateJoin
  <2>1. TypeOK'
    BY <1>9 DEF DeactivateJoin, TypeOK, queueVars, workerVars, Serial
  <2>2. QED
    BY <1>9, <1>0, <2>1, QuietStep DEF DeactivateJoin, Serial
<1>10. CASE StopNow
  <2>1. TypeOK'
    BY <1>10 DEF StopNow, TypeOK, queueVars, workerVars
  <2>2. QED
    BY <1>10, <1>0, <2>1, QuietStep DEF StopNow, ShutdownShape
<1>11. ASSUME NEW m \in Maps, CreateMap(m) PROVE IInv'
  <2>1. TypeOK'
    BY <1>11 DEF CreateMap, TypeOK, queueVars, mainVars, workerVars
  <2>2. QED
    BY <1>11, <1>0, <2>1, QuietStep DEF CreateMap, ShutdownShape, mainVars
<1>12. QED
  BY <1>1, <1>2, <1>3, <1>4, <1>5, <1>6, <1>7, <1>8, <1>9, <1>10, <1>11

\* The token is set while nobody holds a request, so nobody can lose one.
LEMMA DeactivateSteps == IInv /\ (Deactivate \/ DeactivateCancel) => IInv'
<1> SUFFICES ASSUME IInv, Deactivate \/ DeactivateCancel PROVE IInv'
  OBVIOUS
<1> USE DEF IInv
<1>1. mainPc \in Serial
  BY DEF Deactivate, DeactivateCancel, Serial
<1>2. items = <<>> /\ Holding = {} /\ pending = Cardinality(Holding)
  BY <1>1, HoldingFinite DEF WorldThreadAlone, PendingIsOutstanding
<1>3. CASE Deactivate
  <2>1. \A w \in Workers : request[w] = NoMap /\ pc[w] # "check" /\ pc[w] # "update"
    BY <1>2, <1>3 DEF Deactivate, Holding, PoppedRequestIsHandled, WorkerShape
  <2>2. UNCHANGED <<items, shutdown, sleeping, pc, request, rest, pending>> /\ Holding' = Holding
    BY <1>3 DEF Deactivate, queueVars, workerVars, Holding
  <2>3. TypeOK'
    BY <1>3, <2>2 DEF Deactivate, TypeOK, Serial
  <2>4. WorkerShape' /\ PoppedRequestIsHandled' /\ PendingIsOutstanding'
    BY <2>1, <2>2 DEF WorkerShape, PoppedRequestIsHandled, PendingIsOutstanding
  <2>5. ShutdownShape' /\ WorldThreadAlone'
    BY <1>2, <1>3, <2>2 DEF Deactivate, ShutdownShape, WorldThreadAlone, Serial
  <2>6. QED
    BY <2>3, <2>4, <2>5
<1>4. CASE DeactivateCancel
  <2>1. /\ items' = <<>> /\ shutdown' = TRUE /\ sleeping' = {} /\ mainPc' = "join"
        /\ UNCHANGED <<todo, stopEvent, pc, request, rest, live, pending, token, served>>
        /\ token /\ Holding' = Holding
    BY <1>4 DEF DeactivateCancel, Cancel, workerVars, ShutdownShape, Holding
  <2>2. items' \in Seq(Maps)
    BY <2>1
  <2>3. TypeOK'
    BY <2>1, <2>2 DEF TypeOK, Serial
  <2>4. WorkerShape' /\ PoppedRequestIsHandled' /\ PendingIsOutstanding'
    BY <1>2, <2>1 DEF WorkerShape, PoppedRequestIsHandled, PendingIsOutstanding
  <2>5. ShutdownShape' /\ WorldThreadAlone'
    BY <1>2, <2>1 DEF ShutdownShape, WorldThreadAlone
  <2>6. QED
    BY <2>3, <2>4, <2>5
<1>5. QED
  BY <1>3, <1>4

------------------------------------------------------------------------------
\* A worker goes to sleep, wakes up, leaves, or begins a map: what is counted
\* does not change.
LEMMA WorkerIdleSteps ==
    ASSUME IInv, NEW w \in Workers,
           WorkerSleeps(w) \/ WorkerSpuriousWake(w) \/ WorkerExits(w) \/ UpdateMap(w)
    PROVE  IInv'
<1> USE DEF IInv
<1>1. /\ UNCHANGED <<items, shutdown, mainPc, todo, stopEvent, request, pending, token, live, served>>
      /\ Holding' = Holding
  BY DEF WorkerSleeps, WorkerSpuriousWake, WorkerExits, UpdateMap, Sleep,
         SpuriousWake, queueVars, mainVars, workerVars, Holding
<1>2. /\ sleeping' \subseteq Workers
      /\ pc' \in [Workers -> {"pop", "check", "update", "exited"}]
      /\ rest' \in [Workers -> SUBSET Instances]
  BY DEF WorkerSleeps, WorkerSpuriousWake, WorkerExits, UpdateMap, Sleep,
         SpuriousWake, queueVars, mainVars, workerVars, TypeOK
<1>3. TypeOK'
  BY <1>1, <1>2 DEF TypeOK
<1>4. PendingIsOutstanding' /\ WorldThreadAlone' /\ ShutdownShape'
  BY <1>1 DEF PendingIsOutstanding, WorldThreadAlone, ShutdownShape
<1>5. \A v \in Workers :
         \/ pc'[v] = pc[v]
         \/ (pc'[v] = "exited" /\ pc[v] = "check" /\ token)
         \/ (pc'[v] = "update" /\ pc[v] = "check" /\ ~token)
  <2>1. CASE WorkerSleeps(w) \/ WorkerSpuriousWake(w)
    BY <2>1 DEF WorkerSleeps, WorkerSpuriousWake, workerVars
  <2>2. CASE WorkerExits(w)
    BY <2>2 DEF WorkerExits, TypeOK
  <2>3. CASE UpdateMap(w)
    BY <2>3 DEF UpdateMap, TypeOK
  <2>4. QED
    BY <2>1, <2>2, <2>3
<1>6. WorkerShape' /\ PoppedRequestIsHandled'
  BY <1>1, <1>5 DEF WorkerShape, PoppedRequestIsHandled
<1>7. QED
  BY <1>3, <1>4, <1>6

\* A request moves from the queue to a worker's hands.
LEMMA WorkerPopsStep ==
    ASSUME IInv, NEW w \in Workers, WorkerPops(w)
    PROVE  IInv'
<1> USE DEF IInv
<1>1. /\ pc[w] = "pop" /\ pc' = [pc EXCEPT ![w] = "check"] /\ request[w] = NoMap
      /\ UNCHANGED <<mainPc, todo, stopEvent, rest, live, pending, token, served>>
  BY DEF WorkerPops, mainVars, WorkerShape
<1>2. CASE GiveUp /\ UNCHANGED request
  <2>1. UNCHANGED <<items, shutdown, sleeping, request>> /\ Holding' = Holding /\ token
    BY <1>2 DEF GiveUp, queueVars, Holding, ShutdownShape
  <2>2. TypeOK'
    BY <1>1, <2>1 DEF TypeOK
  <2>3. WorkerShape' /\ PoppedRequestIsHandled'
    BY <1>1, <2>1 DEF WorkerShape, PoppedRequestIsHandled, TypeOK
  <2>4. PendingIsOutstanding' /\ WorldThreadAlone' /\ ShutdownShape'
    BY <1>1, <2>1 DEF PendingIsOutstanding, WorldThreadAlone, ShutdownShape
  <2>5. QED
    BY <2>2, <2>3, <2>4
<1>3. CASE Take /\ request' = [request EXCEPT ![w] = Head(items)]
  <2>1. items # <<>> /\ items' = Tail(items) /\ UNCHANGED <<shutdown, sleeping>>
    BY <1>3 DEF Take
  <2>2. Head(items) \in Maps /\ items' \in Seq(Maps) /\ Len(items') = Len(items) - 1
    BY <2>1 DEF TypeOK
  <2>3. Head(items) # NoMap
    BY <2>2, MapsAssumption DEF Maps
  <2>4. ~token /\ mainPc \notin Serial
    BY <2>1 DEF ShutdownShape, WorldThreadAlone
  <2>5. TypeOK'
    BY <1>1, <1>3, <2>1, <2>2 DEF TypeOK
  <2>6. Holding' = Holding \cup {w} /\ w \notin Holding
    BY <1>1, <1>3, <2>3 DEF Holding, TypeOK
  <2>7. Cardinality(Holding') = Cardinality(Holding) + 1
    BY <2>6, HoldingFinite, FS_AddElement
  <2>8. PendingIsOutstanding'
    BY <1>1, <2>2, <2>7, HoldingFinite DEF PendingIsOutstanding, TypeOK
  <2>9. WorkerShape' /\ PoppedRequestIsHandled'
    BY <1>1, <1>3, <2>3, <2>4 DEF WorkerShape, PoppedRequestIsHandled, TypeOK
  <2>10. WorldThreadAlone' /\ ShutdownShape'
    BY <1>1, <2>1, <2>4 DEF WorldThreadAlone, ShutdownShape
  <2>11. QED
    BY <2>5, <2>8, <2>9, <2>10
<1>4. QED
  BY <1>2, <1>3 DEF WorkerPops

\* A worker schedules further updates while its own request is outstanding,
\* so the world thread cannot have passed wait().
LEMMA VisitInstanceStep ==
    ASSUME IInv, NEW w \in Workers, VisitInstance(w)
    PROVE  IInv'
<1> USE DEF IInv
<1>1. PICK i \in rest[w] :
        /\ rest' = [rest EXCEPT ![w] = @ \ {i}]
        /\ \/ live' = live \ {i} /\ UNCHANGED <<queueVars, pending, served>>
           \/ served' = served \cup {i} /\ UNCHANGED <<queueVars, pending, live>>
           \/ schedule_update(i) /\ UNCHANGED <<live, served>>
  BY DEF VisitInstance
<1>2. i \in Instances /\ i \in Maps
  BY <1>1 DEF TypeOK, Maps
<1>3. pc[w] = "update" /\ UNCHANGED <<mainPc, todo, stopEvent, pc, request, token>>
  BY DEF VisitInstance, mainVars
<1>4. request[w] # NoMap /\ ~token /\ w \in Holding
  BY <1>3 DEF WorkerShape, Holding
<1>5. mainPc \notin Serial
  BY <1>4 DEF WorldThreadAlone
<1>6. rest' \in [Workers -> SUBSET Instances] /\ live' \subseteq Maps /\ served' \subseteq Maps
  BY <1>1, <1>2 DEF TypeOK
<1>7. PendingIsOutstanding' /\ items' \in Seq(Maps) /\ pending' \in Nat
  <2>1. CASE UNCHANGED <<queueVars, pending>>
    BY <2>1, <1>3 DEF queueVars, PendingIsOutstanding, Holding, TypeOK
  <2>2. CASE schedule_update(i)
    BY <2>2, <1>2, <1>3, ScheduleCounts
  <2>3. QED
    BY <1>1, <2>1, <2>2
<1>8. sleeping' \subseteq Workers /\ UNCHANGED shutdown
  BY <1>1 DEF queueVars, schedule_update, Push, NotifyOne, TypeOK
<1>9. TypeOK'
  BY <1>3, <1>6, <1>7, <1>8 DEF TypeOK
<1>10. WorkerShape' /\ PoppedRequestIsHandled'
  BY <1>3 DEF WorkerShape, PoppedRequestIsHandled
<1>11. ShutdownShape' /\ WorldThreadAlone'
  BY <1>3, <1>4, <1>5, <1>8 DEF ShutdownShape, WorldThreadAlone
<1>12. QED
  BY <1>7, <1>9, <1>10, <1>11

\* A worker is done with a map: one request less in its hands and in the counter.
LEMMA UpdateFinishedStep ==
    ASSUME IInv, NEW w \in Workers, update_finished(w)
    PROVE  IInv'
<1> USE DEF IInv
<1>1. /\ pc[w] = "update" /\ pending' = pending - 1
      /\ mainPc' = IF mainPc = "blocked" THEN "wait" ELSE mainPc
      /\ pc' = [pc EXCEPT ![w] = "pop"]
      /\ served' = served \cup {request[w]}
      /\ request' = [request EXCEPT ![w] = NoMap]
      /\ UNCHANGED <<items, shutdown, sleeping, todo, stopEvent, rest, live, token>>
  BY DEF update_finished, queueVars
<1>2. request[w] # NoMap /\ ~token /\ w \in Holding
  BY <1>1 DEF WorkerShape, Holding
<1>3. mainPc \notin Serial
  BY <1>2 DEF WorldThreadAlone
<1>4. Holding' = Holding \ {w}
  BY <1>1 DEF Holding, TypeOK
<1>5. Cardinality(Holding') = Cardinality(Holding) - 1 /\ Cardinality(Holding') \in Nat
  BY <1>2, <1>4, HoldingFinite, FS_RemoveElement, FS_CardinalityType
<1>6. Len(items) \in Nat
  BY DEF TypeOK
<1>7. pending' = Len(items) + Cardinality(Holding') /\ pending' \in Nat
  BY <1>1, <1>5, <1>6, HoldingFinite DEF PendingIsOutstanding
<1>8. mainPc' \in {"schedule", "wait", "blocked"}
  BY <1>1, <1>3 DEF TypeOK
<1>9. TypeOK'
  BY <1>1, <1>2, <1>7, <1>8 DEF TypeOK
<1>10. PendingIsOutstanding' /\ WorldThreadAlone'
  BY <1>1, <1>7, <1>8 DEF PendingIsOutstanding, WorldThreadAlone, Serial
<1>11. WorkerShape' /\ PoppedRequestIsHandled'
  BY <1>1, <1>2 DEF WorkerShape, PoppedRequestIsHandled, TypeOK
<1>12. ShutdownShape'
  BY <1>1, <1>2, <1>8 DEF ShutdownShape
<1>13. QED
  BY <1>9, <1>10, <1>11, <1>12

\* Every step of every thread keeps the inductive invariant.
LEMMA IInvNext == IInv /\ [Next]_vars => IInv'
<1> SUFFICES ASSUME IInv, [Next]_vars PROVE IInv'
  OBVIOUS
<1>1. CASE Main \/ MainSpuriousWake \/ StopNow
  BY <1>1, ScheduleMapStep, MainQuietSteps, DeactivateSteps DEF Main
<1>2. CASE \E m \in Maps : CreateMap(m)
  BY <1>2, MainQuietSteps
<1>3. CASE \E w \in Workers : Worker(w) \/ WorkerSpuriousWake(w)
  BY <1>3, WorkerIdleSteps, WorkerPopsStep, VisitInstanceStep, UpdateFinishedStep DEF Worker
<1>4. CASE UNCHANGED vars
  <2>1. UNCHANGED <<queueVars, workerVars, pending, token, mainPc, todo, stopEvent, live, served>>
    BY <1>4 DEF vars, mainVars
  <2>2. TypeOK'
    BY <2>1 DEF IInv, TypeOK, queueVars, workerVars
  <2>3. QED
    BY <2>1, <2>2, QuietStep DEF IInv, ShutdownShape
<1>5. QED
  BY <1>1, <1>2, <1>3, <1>4 DEF Next

\* The inductive invariant holds in every reachable state.
THEOREM SpecIInv == Spec => []IInv
  BY IInvInit, IInvNext, PTL DEF Spec

\* The variables keep their types, for every set of workers and maps.
THEOREM TypeCorrect == Spec => []TypeOK
<1>1. IInv => TypeOK
  BY DEF IInv
<1>2. QED
  BY <1>1, SpecIInv, PTL

\* MapManager::Update's barrier: outside the parallel phase no worker holds a
\* map and none is queued.
THEOREM Barrier == Spec => []WorldThreadAlone
<1>1. IInv => WorldThreadAlone
  BY DEF IInv
<1>2. QED
  BY <1>1, SpecIInv, PTL

\* pending_requests is exactly the number of requests queued or being worked on.
THEOREM CounterExact == Spec => []PendingIsOutstanding
<1>1. IInv => PendingIsOutstanding
  BY DEF IInv
<1>2. QED
  BY <1>1, SpecIInv, PTL

\* WorkerThread never calls through nullptr and deactivate() never drops a
\* request that was scheduled.
THEOREM RequestsHandled == Spec => []PoppedRequestIsHandled
<1>1. IInv => PoppedRequestIsHandled
  BY DEF IInv
<1>2. QED
  BY <1>1, SpecIInv, PTL

------------------------------------------------------------------------------
(* One updater per map.  A map is outstanding while it is queued or held; it *)
(* is unvisited while its own turn in MapInstanced::Update is still to come. *)
(* Its instances become outstanding only after that, one by one, through the *)
(* single worker that visits it.                                             *)
Queued == {items[k] : k \in DOMAIN items}
Outstanding == Queued \cup {request[w] : w \in Holding}
Unvisited ==
    Queued \cup {request[w] : w \in {v \in Holding : pc[v] = "check"}}
           \cup (IF mainPc = "schedule" THEN todo ELSE {})

LoopShape ==
    mainPc = "schedule" => todo \subseteq live /\ todo \cap Outstanding = {}

RestShape ==
    \A w \in Workers : \A i \in rest[w] :
        /\ pc[w] = "update" /\ i \in live
        /\ Parent[i] = request[w] /\ i \notin Outstanding

ParentsFirst == \A i \in Instances \cap Outstanding : Parent[i] \notin Unvisited

Separate == OneUpdaterPerMap /\ LoopShape /\ RestShape /\ ParentsFirst

\* Pushing a map adds it to the queue, at a place of its own.
LEMMA PushQueues ==
    ASSUME items \in Seq(Maps), NEW m \in Maps, items' = Append(items, m)
    PROVE  /\ Queued' = Queued \cup {m}
           /\ (m \notin Queued /\ \A i, j \in DOMAIN items : items[i] = items[j] => i = j)
                => \A i, j \in DOMAIN items' : items'[i] = items'[j] => i = j
<1>1. /\ Len(items) \in Nat /\ DOMAIN items = 1..Len(items) /\ DOMAIN items' = 1..(Len(items) + 1)
      /\ \A k \in 1..Len(items) : items'[k] = items[k]
      /\ items'[Len(items) + 1] = m
  OBVIOUS
<1>2. Queued' = Queued \cup {m}
  <2>1. ASSUME NEW x \in Queued' PROVE x \in Queued \cup {m}
    BY <1>1, <2>1 DEF Queued
  <2>2. ASSUME NEW x \in Queued \cup {m} PROVE x \in Queued'
    <3>1. CASE x = m
      BY <1>1, <3>1 DEF Queued
    <3>2. CASE x \in Queued
      <4>1. PICK k \in 1..Len(items) : items[k] = x
        BY <1>1, <3>2 DEF Queued
      <4>2. k \in DOMAIN items' /\ items'[k] = x
        BY <1>1, <4>1
      <4>3. QED
        BY <4>2 DEF Queued
    <3>3. QED
      BY <2>2, <3>1, <3>2
  <2>3. QED
    BY <2>1, <2>2
<1>3. ASSUME m \notin Queued, \A i, j \in DOMAIN items : items[i] = items[j] => i = j,
             NEW i \in DOMAIN items', NEW j \in DOMAIN items', items'[i] = items'[j]
      PROVE  i = j
  <2>1. \A k \in 1..Len(items) : items[k] # m
    BY <1>1, <1>3 DEF Queued
  <2>2. QED
    BY <1>1, <1>3, <2>1
<1>4. QED
  BY <1>2, <1>3

\* Taking the oldest request removes it, as it is queued once.
LEMMA TakeDequeues ==
    ASSUME items \in Seq(Maps), items # <<>>, items' = Tail(items),
           \A i, j \in DOMAIN items : items[i] = items[j] => i = j
    PROVE  /\ Head(items) \in Queued /\ Queued' = Queued \ {Head(items)}
           /\ \A i, j \in DOMAIN items' : items'[i] = items'[j] => i = j
<1>1. /\ Len(items) \in Nat /\ Len(items) # 0 /\ DOMAIN items = 1..Len(items)
      /\ DOMAIN items' = 1..(Len(items) - 1)
      /\ \A k \in 1..(Len(items) - 1) : items'[k] = items[k + 1]
      /\ Head(items) = items[1] /\ 1 \in DOMAIN items
  OBVIOUS
<1>2. ASSUME NEW x \in Queued' PROVE x \in Queued /\ x # Head(items)
  <2>1. PICK k \in 1..(Len(items) - 1) : items[k + 1] = x
    BY <1>1, <1>2 DEF Queued
  <2>2. k + 1 \in DOMAIN items /\ k + 1 # 1
    BY <1>1, <2>1
  <2>3. QED
    BY <1>1, <2>1, <2>2 DEF Queued
<1>3. ASSUME NEW x \in Queued, x # Head(items) PROVE x \in Queued'
  <2>1. PICK k \in 1..Len(items) : items[k] = x
    BY <1>1 DEF Queued
  <2>2. k - 1 \in 1..(Len(items) - 1) /\ items'[k - 1] = x
    BY <1>1, <1>3, <2>1
  <2>3. QED
    BY <1>1, <2>2 DEF Queued
<1>4. ASSUME NEW i \in DOMAIN items', NEW j \in DOMAIN items', items'[i] = items'[j]
      PROVE  i = j
  <2>1. i + 1 \in DOMAIN items /\ j + 1 \in DOMAIN items /\ items[i + 1] = items[j + 1]
    BY <1>1, <1>4
  <2>2. i + 1 = j + 1
    BY <2>1
  <2>3. QED
    BY <1>1, <2>2
<1>5. Head(items) \in Queued
  BY <1>1 DEF Queued
<1>6. QED
  BY <1>2, <1>3, <1>4, <1>5

\* OneUpdaterPerMap in terms of what is outstanding.
LEMMA SeparateParts ==
    OneUpdaterPerMap <=>
        /\ Outstanding \subseteq live
        /\ \A w, v \in Holding : request[w] = request[v] => w = v
        /\ \A i, j \in DOMAIN items : items[i] = items[j] => i = j
        /\ \A w \in Holding : request[w] \notin Queued
  BY DEF OneUpdaterPerMap, Outstanding, Queued

\* Nothing is outstanding or left to visit while the world thread is alone.
LEMMA AloneIsEmpty ==
    ASSUME IInv, RestShape, mainPc \in Serial
    PROVE  Outstanding = {} /\ Queued = {} /\ \A w \in Workers : rest[w] = {}
<1>1. items = <<>> /\ Holding = {}
  BY DEF IInv, WorldThreadAlone
<1>2. Queued = {} /\ Outstanding = {}
  BY <1>1 DEF Queued, Outstanding
<1>3. ASSUME NEW w \in Workers, NEW i \in rest[w] PROVE FALSE
  <2>1. pc[w] = "update" /\ request[w] = NoMap
    BY <1>1, <1>3 DEF RestShape, Holding
  <2>2. QED
    BY <2>1 DEF IInv, WorkerShape
<1>4. QED
  BY <1>2, <1>3

\* What a step leaves alone when no map changes hands and none is destroyed.
LEMMA SeparateFrame ==
    ASSUME Separate, UNCHANGED <<items, request, rest>>, live \subseteq live',
           \A w \in Workers : pc'[w] = pc[w] \/ (rest[w] = {} /\ pc'[w] # "check"),
           mainPc' = "schedule" => mainPc = "schedule" /\ todo' \subseteq todo
    PROVE  Separate'
<1>1. Queued' = Queued /\ Holding' = Holding /\ Outstanding' = Outstanding
  BY DEF Queued, Holding, Outstanding
<1>2. Unvisited' \subseteq Unvisited
  BY <1>1 DEF Unvisited, Holding
<1>3. OneUpdaterPerMap'
  BY <1>1 DEF Separate, OneUpdaterPerMap
<1>4. LoopShape' /\ ParentsFirst'
  BY <1>1, <1>2 DEF Separate, LoopShape, ParentsFirst
<1>5. RestShape'
  BY <1>1 DEF Separate, RestShape
<1>6. QED
  BY <1>3, <1>4, <1>5 DEF Separate

\* A map becomes outstanding that was not, and whose parent has been visited.
LEMMA SeparatePush ==
    ASSUME IInv, Separate, NEW m \in Maps, schedule_update(m),
           UNCHANGED <<request, pc, live, mainPc>>,
           m \notin Outstanding, m \in live,
           m \in Instances => Parent[m] \notin Unvisited /\ m \notin todo,
           todo' \subseteq todo, mainPc = "schedule" => m \notin todo',
           m \in BaseMaps => m \in Unvisited,
           \A w \in Workers : rest'[w] \subseteq rest[w] /\ m \notin rest'[w]
    PROVE  Separate'
<1>1. items \in Seq(Maps) /\ items' = Append(items, m)
  BY DEF IInv, TypeOK, schedule_update, Push
<1>2. Queued' = Queued \cup {m} /\ Holding' = Holding /\ Outstanding' = Outstanding \cup {m}
  BY <1>1, PushQueues DEF Outstanding, Holding
<1>3. m \notin Queued /\ \A w \in Holding : request[w] # m
  BY DEF Outstanding
<1>4. /\ Outstanding \subseteq live
      /\ \A w, v \in Holding : request[w] = request[v] => w = v
      /\ \A i, j \in DOMAIN items : items[i] = items[j] => i = j
      /\ \A w \in Holding : request[w] \notin Queued
  BY SeparateParts DEF Separate
<1>5. \A i, j \in DOMAIN items' : items'[i] = items'[j] => i = j
  BY <1>1, <1>3, <1>4, PushQueues
<1>6. OneUpdaterPerMap'
  <2>1. Outstanding' \subseteq live' /\ \A w \in Holding' : request'[w] \notin Queued'
    BY <1>2, <1>3, <1>4
  <2>2. \A w, v \in Holding' : request'[w] = request'[v] => w = v
    BY <1>2, <1>4
  <2>3. ASSUME NEW k \in DOMAIN items' PROVE items'[k] \in live' /\ \A w \in Holding' : items'[k] # request'[w]
    <3>1. items'[k] \in Queued'
      BY DEF Queued
    <3>2. QED
      BY <2>1, <3>1 DEF Outstanding
  <2>4. \A w \in Holding' : request'[w] \in live'
    BY <1>2, <1>4 DEF Outstanding
  <2>5. QED
    BY <1>5, <2>2, <2>3, <2>4 DEF OneUpdaterPerMap
<1>7. LoopShape'
  BY <1>2 DEF Separate, LoopShape
<1>8. RestShape'
  BY <1>2 DEF Separate, RestShape
<1>9. Unvisited' \subseteq Unvisited \cup {m}
  BY <1>2 DEF Unvisited
<1>10. ASSUME NEW i \in Instances, i \in Outstanding' PROVE Parent[i] \notin Unvisited'
  <2>1. Parent[i] \in BaseMaps /\ BaseMaps \cap Instances = {}
    BY MapsAssumption
  <2>2. Parent[i] \notin Unvisited
    BY <1>2, <1>10 DEF Separate, ParentsFirst
  <2>3. QED
    BY <1>9, <2>1, <2>2
<1>11. QED
  BY <1>6, <1>7, <1>8, <1>10 DEF Separate, ParentsFirst

\* The world thread schedules each base map of its loop once.
LEMMA SeparateScheduleMap == IInv /\ Separate /\ ScheduleMap => Separate'
<1> SUFFICES ASSUME IInv, Separate, ScheduleMap PROVE Separate'
  OBVIOUS
<1>1. PICK m \in todo : schedule_update(m) /\ todo' = todo \ {m}
  BY DEF ScheduleMap
<1>2. mainPc = "schedule" /\ UNCHANGED <<mainPc, pc, request, rest, live>>
  BY DEF ScheduleMap, workerVars
<1>3. m \in BaseMaps /\ m \in Maps /\ m \notin Instances
  BY MapsAssumption DEF IInv, TypeOK, Maps
<1>4. m \in live /\ m \notin Outstanding /\ m \in Unvisited
  BY <1>2 DEF Separate, LoopShape, Unvisited
<1>5. \A w \in Workers : rest'[w] \subseteq rest[w] /\ m \notin rest'[w]
  BY <1>2, <1>3 DEF IInv, TypeOK
<1>6. QED
  BY <1>1, <1>2, <1>3, <1>4, <1>5, SeparatePush

\* The other steps of the world thread, and its surroundings.
LEMMA SeparateMainSteps ==
    ASSUME IInv, Separate,
           \/ StartUpdate \/ EndSchedule \/ WaitBlocks \/ MainSpuriousWake
           \/ WaitReturns \/ DelayedUpdate \/ EndUpdate \/ UnloadAll
           \/ Deactivate \/ DeactivateCancel \/ DeactivateJoin \/ StopNow
           \/ (\E m \in Maps : CreateMap(m))
    PROVE  Separate'
<1>1. CASE StartUpdate
  <2>1. /\ mainPc = "idle" /\ todo' = live \cap BaseMaps
        /\ UNCHANGED <<items, request, rest, pc, live>>
    BY <1>1 DEF StartUpdate, queueVars, workerVars
  <2>2. Outstanding = {} /\ \A w \in Workers : rest[w] = {}
    BY <2>1, AloneIsEmpty DEF Separate, Serial
  <2>3. Outstanding' = {} /\ Holding' = Holding
    BY <2>1, <2>2 DEF Outstanding, Queued, Holding
  <2>4. OneUpdaterPerMap'
    BY <2>1, <2>3 DEF Separate, OneUpdaterPerMap
  <2>5. QED
    BY <2>1, <2>2, <2>3, <2>4 DEF Separate, LoopShape, RestShape, ParentsFirst
<1>2. CASE UnloadAll \/ DeactivateCancel
  <2>1. mainPc \in Serial /\ mainPc' # "schedule"
    BY <1>2 DEF UnloadAll, DeactivateCancel, Serial
  <2>2. items = <<>> /\ items' = <<>> /\ Holding = {} /\ UNCHANGED <<request, rest, pc>>
    BY <1>2, <2>1 DEF UnloadAll, DeactivateCancel, Cancel, queueVars, workerVars, IInv, WorldThreadAlone
  <2>3. \A w \in Workers : rest[w] = {}
    BY <2>1, AloneIsEmpty DEF Separate
  <2>4. Holding' = {} /\ Queued' = {} /\ Outstanding' = {}
    BY <2>2 DEF Holding, Outstanding, Queued
  <2>5. OneUpdaterPerMap'
    BY <2>2, <2>4 DEF OneUpdaterPerMap
  <2>6. QED
    BY <2>1, <2>2, <2>3, <2>4, <2>5 DEF Separate, LoopShape, RestShape, ParentsFirst
<1>3. CASE EndSchedule \/ WaitBlocks \/ MainSpuriousWake \/ WaitReturns \/ DelayedUpdate
           \/ EndUpdate \/ Deactivate \/ DeactivateJoin
  <2>1. mainPc' # "schedule" /\ UNCHANGED <<items, request, rest, pc, live>>
    BY <1>3 DEF EndSchedule, WaitBlocks, MainSpuriousWake, WaitReturns, DelayedUpdate,
                EndUpdate, Deactivate, DeactivateJoin, queueVars, workerVars
  <2>2. QED
    BY <2>1, SeparateFrame
<1>4. CASE StopNow \/ \E m \in Maps : CreateMap(m)
  <2>1. /\ UNCHANGED <<items, request, rest, pc, mainPc, todo>> /\ live \subseteq live'
    BY <1>4 DEF StopNow, CreateMap, queueVars, workerVars, mainVars
  <2>2. QED
    BY <2>1, SeparateFrame
<1>5. QED
  BY <1>1, <1>2, <1>3, <1>4

\* A map goes from the queue to one worker.
LEMMA SeparatePops == ASSUME IInv, Separate, NEW w \in Workers, WorkerPops(w) PROVE Separate'
<1>1. /\ pc[w] = "pop" /\ pc' = [pc EXCEPT ![w] = "check"] /\ request[w] = NoMap
      /\ UNCHANGED <<mainPc, todo, rest, live>>
  BY DEF WorkerPops, mainVars, IInv, WorkerShape
<1>2. \A v \in Workers : v # w => pc'[v] = pc[v]
  BY <1>1 DEF IInv, TypeOK
<1>3. rest[w] = {}
  BY <1>1 DEF Separate, RestShape
<1>4. CASE GiveUp /\ UNCHANGED request
  <2>1. UNCHANGED items /\ Queued' = Queued /\ Holding' = Holding /\ Outstanding' = Outstanding
    BY <1>4 DEF GiveUp, queueVars, Queued, Holding, Outstanding
  <2>2. w \notin Holding
    BY <1>1 DEF Holding
  <2>3. Unvisited' = Unvisited
    BY <1>1, <1>2, <1>4, <2>1, <2>2 DEF Unvisited, Holding
  <2>4. OneUpdaterPerMap'
    BY <1>1, <1>4, <2>1 DEF Separate, OneUpdaterPerMap
  <2>5. RestShape'
    BY <1>1, <1>2, <1>3, <1>4, <2>1 DEF Separate, RestShape
  <2>6. QED
    BY <1>1, <2>1, <2>3, <2>4, <2>5 DEF Separate, LoopShape, ParentsFirst
<1>5. CASE Take /\ request' = [request EXCEPT ![w] = Head(items)]
  <2> DEFINE m == Head(items)
  <2>1. items \in Seq(Maps) /\ items # <<>> /\ items' = Tail(items)
    BY <1>5 DEF Take, IInv, TypeOK
  <2>2. /\ Outstanding \subseteq live
        /\ \A u, v \in Holding : request[u] = request[v] => u = v
        /\ \A i, j \in DOMAIN items : items[i] = items[j] => i = j
        /\ \A v \in Holding : request[v] \notin Queued
    BY SeparateParts DEF Separate
  <2>3. /\ m \in Queued /\ Queued' = Queued \ {m}
        /\ \A i, j \in DOMAIN items' : items'[i] = items'[j] => i = j
    BY <2>1, <2>2, TakeDequeues
  <2>4. m \in Maps /\ m # NoMap
    BY <2>1, MapsAssumption DEF Maps
  <2>5. request'[w] = m /\ \A v \in Workers : v # w => request'[v] = request[v]
    BY <1>5 DEF IInv, TypeOK
  <2>6. Holding' = Holding \cup {w} /\ w \notin Holding
    BY <1>1, <2>4, <2>5 DEF Holding
  <2>7. pc'[w] = "check"
    BY <1>1 DEF IInv, TypeOK
  <2> HIDE DEF m
  <2>8. Outstanding' = Outstanding
    <3>1. {request'[v] : v \in Holding'} = {request[v] : v \in Holding} \cup {m}
      BY <2>5, <2>6 DEF Holding
    <3>2. QED
      BY <2>3, <3>1 DEF Outstanding
  <2>9. Unvisited' \subseteq Unvisited
    BY <1>1, <1>2, <2>3, <2>5, <2>6 DEF Unvisited, Holding
  <2>10. /\ \A u, v \in Holding' : request'[u] = request'[v] => u = v
         /\ \A v \in Holding' : request'[v] \notin Queued'
    BY <2>2, <2>3, <2>5, <2>6 DEF Holding
  <2>11. OneUpdaterPerMap'
    <3>1. ASSUME NEW k \in DOMAIN items' PROVE items'[k] \in live' /\ \A v \in Holding' : items'[k] # request'[v]
      <4>1. items'[k] \in Queued'
        BY DEF Queued
      <4>2. QED
        BY <1>1, <2>2, <2>8, <2>10, <4>1 DEF Outstanding
    <3>2. \A v \in Holding' : request'[v] \in live'
      BY <1>1, <2>2, <2>8 DEF Outstanding
    <3>3. QED
      BY <2>3, <2>10, <3>1, <3>2 DEF OneUpdaterPerMap
  <2>12. RestShape'
    <3>1. ASSUME NEW v \in Workers, NEW i \in rest[v] PROVE v # w
      BY <1>3, <3>1
    <3>2. QED
      BY <1>1, <1>2, <2>5, <2>8, <3>1 DEF Separate, RestShape
  <2>13. LoopShape' /\ ParentsFirst'
    BY <1>1, <2>8, <2>9 DEF Separate, LoopShape, ParentsFirst
  <2>14. QED
    BY <2>11, <2>12, <2>13 DEF Separate
<1>6. QED
  BY <1>4, <1>5 DEF WorkerPops

\* A worker that begins a MapInstanced finds none of its instances outstanding:
\* the map itself was unvisited.
LEMMA SeparateUpdateMap == ASSUME IInv, Separate, NEW w \in Workers, UpdateMap(w) PROVE Separate'
<1>1. /\ pc[w] = "check" /\ ~token /\ pc' = [pc EXCEPT ![w] = "update"]
      /\ rest' = [rest EXCEPT ![w] = {i \in live \cap Instances : Parent[i] = request[w]}]
      /\ UNCHANGED <<items, request, live, mainPc, todo>>
  BY DEF UpdateMap, queueVars, mainVars
<1>2. /\ pc'[w] = "update" /\ rest'[w] = {i \in live \cap Instances : Parent[i] = request[w]}
      /\ \A v \in Workers : v # w => pc'[v] = pc[v] /\ rest'[v] = rest[v]
  BY <1>1 DEF IInv, TypeOK
<1>3. Queued' = Queued /\ Holding' = Holding /\ Outstanding' = Outstanding
  BY <1>1 DEF Queued, Holding, Outstanding
<1>4. Unvisited' \subseteq Unvisited
  BY <1>1, <1>2, <1>3 DEF Unvisited, Holding
<1>5. OneUpdaterPerMap'
  BY <1>1, <1>3 DEF Separate, OneUpdaterPerMap
<1>6. w \in Holding /\ request[w] \in Unvisited
  <2>1. w \in Holding
    BY <1>1 DEF IInv, PoppedRequestIsHandled, Holding
  <2>2. QED
    BY <1>1, <2>1 DEF Unvisited
<1>7. ASSUME NEW v \in Workers, NEW i \in rest'[v]
      PROVE  pc'[v] = "update" /\ i \in live' /\ Parent[i] = request'[v] /\ i \notin Outstanding'
  <2>1. CASE v = w
    BY <1>1, <1>2, <1>3, <1>6, <1>7, <2>1 DEF Separate, ParentsFirst
  <2>2. CASE v # w
    BY <1>1, <1>2, <1>3, <1>7, <2>2 DEF Separate, RestShape
  <2>3. QED
    BY <2>1, <2>2
<1>8. LoopShape' /\ ParentsFirst'
  BY <1>1, <1>3, <1>4 DEF Separate, LoopShape, ParentsFirst
<1>9. QED
  BY <1>5, <1>7, <1>8 DEF Separate, RestShape

\* An instance is destroyed, passed over or scheduled by the only worker that
\* visits it, while nobody else has it.
LEMMA SeparateVisit == ASSUME IInv, Separate, NEW w \in Workers, VisitInstance(w) PROVE Separate'
<1>1. PICK i \in rest[w] :
        /\ rest' = [rest EXCEPT ![w] = @ \ {i}]
        /\ \/ live' = live \ {i} /\ UNCHANGED <<queueVars, pending, served>>
           \/ served' = served \cup {i} /\ UNCHANGED <<queueVars, pending, live>>
           \/ schedule_update(i) /\ UNCHANGED <<live, served>>
  BY DEF VisitInstance
<1>2. pc[w] = "update" /\ UNCHANGED <<mainPc, todo, pc, request>>
  BY DEF VisitInstance, mainVars
<1>3. i \in Instances /\ i \in Maps /\ i \in live /\ Parent[i] = request[w] /\ i \notin Outstanding
  BY <1>1 DEF IInv, TypeOK, Maps, Separate, RestShape
<1>4. i \notin todo /\ i \notin BaseMaps
  BY <1>3, MapsAssumption DEF IInv, TypeOK
<1>5. w \in Holding
  BY <1>2 DEF IInv, WorkerShape, Holding
<1>6. \A v \in Workers : rest'[v] \subseteq rest[v] /\ i \notin rest'[v]
  <2>1. rest'[w] = rest[w] \ {i} /\ \A v \in Workers : v # w => rest'[v] = rest[v]
    BY <1>1 DEF IInv, TypeOK
  <2>2. ASSUME NEW v \in Workers, v # w, i \in rest[v] PROVE FALSE
    <3>1. pc[v] = "update" /\ request[v] = request[w]
      BY <1>3, <2>2 DEF Separate, RestShape
    <3>2. v \in Holding
      BY <3>1 DEF IInv, WorkerShape, Holding
    <3>3. QED
      BY <1>5, <2>2, <3>1, <3>2 DEF Separate, OneUpdaterPerMap
  <2>3. QED
    BY <2>1, <2>2
<1>7. Parent[i] \notin Unvisited
  <2>1. request[w] \in Outstanding /\ request[w] \notin Queued
    BY <1>5, SeparateParts DEF Separate, Outstanding
  <2>2. \A v \in Holding : pc[v] = "check" => request[v] # request[w]
    BY <1>2, <1>5 DEF Separate, OneUpdaterPerMap
  <2>3. QED
    BY <1>3, <2>1, <2>2 DEF Unvisited, Separate, LoopShape
<1>8. CASE schedule_update(i) /\ UNCHANGED live
  BY <1>2, <1>3, <1>4, <1>6, <1>7, <1>8, SeparatePush
<1>9. CASE UNCHANGED items /\ (live' = live \/ live' = live \ {i})
  <2>1. Queued' = Queued /\ Holding' = Holding /\ Outstanding' = Outstanding /\ Unvisited' = Unvisited
    BY <1>2, <1>9 DEF Queued, Holding, Outstanding, Unvisited
  <2>2. Outstanding' \subseteq live'
    BY <1>3, <1>9, <2>1, SeparateParts DEF Separate
  <2>3. OneUpdaterPerMap'
    <3>1. \A k \in DOMAIN items' : items'[k] \in live'
      BY <2>2 DEF Outstanding, Queued
    <3>2. \A v \in Holding' : request'[v] \in live'
      BY <2>2 DEF Outstanding
    <3>3. QED
      BY <1>2, <1>9, <2>1, <3>1, <3>2 DEF Separate, OneUpdaterPerMap
  <2>4. RestShape'
    BY <1>2, <1>6, <1>9, <2>1 DEF Separate, RestShape
  <2>5. LoopShape' /\ ParentsFirst'
    BY <1>2, <1>4, <1>9, <2>1 DEF Separate, LoopShape, ParentsFirst
  <2>6. QED
    BY <2>3, <2>4, <2>5 DEF Separate
<1>10. QED
  BY <1>1, <1>8, <1>9 DEF queueVars

\* A map is handed back.
LEMMA SeparateFinished ==
    ASSUME IInv, Separate, NEW w \in Workers, update_finished(w) PROVE Separate'
<1>1. /\ pc[w] = "update" /\ rest[w] = {}
      /\ mainPc' = IF mainPc = "blocked" THEN "wait" ELSE mainPc
      /\ pc' = [pc EXCEPT ![w] = "pop"] /\ request' = [request EXCEPT ![w] = NoMap]
      /\ UNCHANGED <<items, todo, rest, live>>
  BY DEF update_finished, queueVars
<1>2. /\ \A v \in Workers : v # w => pc'[v] = pc[v] /\ request'[v] = request[v]
      /\ pc'[w] = "pop" /\ request'[w] = NoMap
  BY <1>1 DEF IInv, TypeOK
<1>3. Queued' = Queued /\ Holding' = Holding \ {w}
  BY <1>1, <1>2 DEF Queued, Holding
<1>4. Outstanding' \subseteq Outstanding
  BY <1>2, <1>3 DEF Outstanding, Holding
<1>5. Unvisited' \subseteq Unvisited
  BY <1>1, <1>2, <1>3 DEF Unvisited, Holding
<1>6. OneUpdaterPerMap'
  BY <1>1, <1>2, <1>3 DEF Separate, OneUpdaterPerMap, Holding
<1>7. LoopShape' /\ ParentsFirst'
  BY <1>1, <1>4, <1>5 DEF Separate, LoopShape, ParentsFirst
<1>8. RestShape'
  <2>1. ASSUME NEW v \in Workers, NEW i \in rest[v] PROVE v # w
    BY <1>1, <2>1
  <2>2. QED
    BY <1>1, <1>2, <1>4, <2>1 DEF Separate, RestShape
<1>9. QED
  BY <1>6, <1>7, <1>8 DEF Separate

\* Every step of every thread keeps maps apart.
LEMMA SeparateNext == IInv /\ Separate /\ [Next]_vars => Separate'
<1> SUFFICES ASSUME IInv, Separate, [Next]_vars PROVE Separate'
  OBVIOUS
<1>1. CASE Main \/ MainSpuriousWake \/ StopNow \/ \E m \in Maps : CreateMap(m)
  BY <1>1, SeparateScheduleMap, SeparateMainSteps DEF Main
<1>2. ASSUME NEW w \in Workers, Worker(w) \/ WorkerSpuriousWake(w) PROVE Separate'
  <2>1. CASE WorkerSleeps(w) \/ WorkerSpuriousWake(w)
    <3>1. UNCHANGED <<items, request, rest, pc, live, mainPc, todo>>
      BY <2>1 DEF WorkerSleeps, WorkerSpuriousWake, Sleep, SpuriousWake, mainVars, workerVars
    <3>2. QED
      BY <3>1, SeparateFrame
  <2>2. CASE WorkerExits(w)
    <3>1. /\ pc[w] = "check" /\ pc' = [pc EXCEPT ![w] = "exited"]
          /\ UNCHANGED <<items, request, rest, live, mainPc, todo>>
      BY <2>2 DEF WorkerExits, queueVars, mainVars
    <3>2. rest[w] = {}
      BY <3>1 DEF Separate, RestShape
    <3>3. \A v \in Workers : pc'[v] = pc[v] \/ (rest[v] = {} /\ pc'[v] # "check")
      BY <3>1, <3>2 DEF IInv, TypeOK
    <3>4. QED
      BY <3>1, <3>3, SeparateFrame
  <2>3. QED
    BY <1>2, <2>1, <2>2, SeparatePops, SeparateUpdateMap, SeparateVisit, SeparateFinished DEF Worker
<1>3. CASE UNCHANGED vars
  <2>1. UNCHANGED <<items, request, rest, pc, live, mainPc, todo>>
    BY <1>3 DEF vars, queueVars, mainVars, workerVars
  <2>2. QED
    BY <2>1, SeparateFrame
<1>4. QED
  BY <1>1, <1>2, <1>3 DEF Next

\* Nothing is outstanding in the beginning.
LEMMA SeparateInit == Init => Separate
<1> SUFFICES ASSUME Init PROVE Separate
  OBVIOUS
<1>1. Queued = {} /\ Holding = {} /\ Outstanding = {} /\ \A w \in Workers : rest[w] = {}
  BY DEF Init, QueueInit, Queued, Holding, Outstanding
<1>2. QED
  BY <1>1 DEF Init, QueueInit, Separate, OneUpdaterPerMap, LoopShape, RestShape, ParentsFirst

\* No map is updated by two workers, queued twice, queued while it is updated,
\* or destroyed before its request is done.
THEOREM MapsSeparate == Spec => []OneUpdaterPerMap
<1>1. Separate => OneUpdaterPerMap
  BY DEF Separate
<1>2. QED
  BY <1>1, SpecIInv, SeparateInit, SeparateNext, PTL DEF Spec

------------------------------------------------------------------------------
(* One turn per tick.  During a tick every map has had its turn, is          *)
(* outstanding, or is still to be reached: by the world thread's loop, by    *)
(* the worker that visits the instances of its parent, or by the one that    *)
(* will take that parent; and only one of these is true of it.               *)
InTick == mainPc \in {"schedule", "wait", "blocked"} /\ ~token

TurnsShape ==
    InTick =>
        /\ served \subseteq live
        /\ served \cap (Outstanding \cup Unvisited) = {}
        /\ \A w \in Workers : served \cap rest[w] = {}
        /\ \A i \in Instances \cap served : Parent[i] \notin Unvisited
        /\ \A m \in live :
              \/ m \in served \cup Outstanding \cup Unvisited
              \/ \E w \in Workers : m \in rest[w]
              \/ m \in Instances /\ Parent[m] \in Unvisited

\* A map that is destroyed before its instances would leave them without a turn.
ParentsLive == \A i \in Instances \cap live : Parent[i] \in live

Turns == TurnsShape /\ ParentsLive

\* Base maps go only when all maps go.
LEMMA ParentsLiveNext == IInv /\ Separate /\ ParentsLive /\ [Next]_vars => ParentsLive'
<1> SUFFICES ASSUME IInv, Separate, ParentsLive, [Next]_vars PROVE ParentsLive'
  OBVIOUS
<1>0. \A i \in Instances : Parent[i] \in BaseMaps /\ Parent[i] \notin Instances
  BY MapsAssumption
<1>1. CASE UnloadAll
  BY <1>1 DEF UnloadAll, ParentsLive
<1>2. ASSUME NEW m \in Maps, CreateMap(m) PROVE ParentsLive'
  BY <1>2 DEF CreateMap, ParentsLive
<1>3. ASSUME NEW w \in Workers, VisitInstance(w) PROVE ParentsLive'
  <2>1. PICK i \in rest[w] : live' = live \/ live' = live \ {i}
    BY <1>3 DEF VisitInstance
  <2>2. i \in Instances
    BY DEF IInv, TypeOK
  <2>3. QED
    BY <1>0, <2>1, <2>2 DEF ParentsLive
<1>4. CASE UNCHANGED live
  BY <1>4 DEF ParentsLive
<1>5. ASSUME NEW w \in Workers, Worker(w) \/ WorkerSpuriousWake(w), ~VisitInstance(w) PROVE UNCHANGED live
  BY <1>5 DEF Worker, WorkerSpuriousWake, WorkerSleeps, WorkerPops, WorkerExits, UpdateMap, update_finished
<1>6. (Main /\ ~UnloadAll) \/ MainSpuriousWake \/ StopNow => UNCHANGED live
  BY DEF Main, MainSpuriousWake, StopNow, StartUpdate, ScheduleMap, EndSchedule, WaitBlocks,
         WaitReturns, DelayedUpdate, EndUpdate, Deactivate, DeactivateCancel, DeactivateJoin
<1>7. UNCHANGED vars => UNCHANGED live
  BY DEF vars
<1>8. QED
  BY <1>1, <1>2, <1>3, <1>4, <1>5, <1>6, <1>7 DEF Next

\* A step that leaves the places of all maps as they are.
LEMMA TurnsFrame ==
    ASSUME TurnsShape, InTick' => InTick,
           UNCHANGED <<served, live, rest, Outstanding, Unvisited>>
    PROVE  TurnsShape'
  BY DEF TurnsShape

LEMMA TurnsScheduleMap == IInv /\ Separate /\ TurnsShape /\ ScheduleMap => TurnsShape'
<1> SUFFICES ASSUME IInv, Separate, TurnsShape, ScheduleMap PROVE TurnsShape'
  OBVIOUS
<1>1. PICK m \in todo : schedule_update(m) /\ todo' = todo \ {m}
  BY DEF ScheduleMap
<1>2. mainPc = "schedule" /\ UNCHANGED <<mainPc, pc, request, rest, live, served, token>>
  BY DEF ScheduleMap, workerVars
<1>3. m \in Maps /\ m \in Unvisited
  BY <1>2 DEF IInv, TypeOK, Maps, Unvisited
<1>4. items \in Seq(Maps) /\ items' = Append(items, m)
  BY <1>1 DEF IInv, TypeOK, schedule_update, Push
<1>5. Queued' = Queued \cup {m} /\ Holding' = Holding
  BY <1>2, <1>3, <1>4, PushQueues DEF Holding
<1>6. Outstanding' = Outstanding \cup {m} /\ Unvisited' = Unvisited
  BY <1>1, <1>2, <1>3, <1>5 DEF Outstanding, Unvisited
<1>7. QED
  BY <1>2, <1>3, <1>6 DEF TurnsShape, InTick

\* A tick starts with all base maps before it, and so their instances.
LEMMA TurnsStartUpdate == IInv /\ Separate /\ Turns /\ StartUpdate => TurnsShape'
<1> SUFFICES ASSUME IInv, Separate, Turns, StartUpdate PROVE TurnsShape'
  OBVIOUS
<1>1. /\ mainPc = "idle" /\ mainPc' = "schedule" /\ todo' = live \cap BaseMaps
      /\ served' = {} /\ UNCHANGED <<rest, live>>
  BY DEF StartUpdate, workerVars
<1>2. live \cap BaseMaps \subseteq Unvisited'
  BY <1>1 DEF Unvisited
<1>3. \A m \in live : m \in BaseMaps \/ (m \in Instances /\ Parent[m] \in BaseMaps /\ Parent[m] \in live)
  BY MapsAssumption DEF IInv, TypeOK, Maps, Turns, ParentsLive
<1>4. \A m \in live' : m \in Unvisited' \/ (m \in Instances /\ Parent[m] \in Unvisited')
  BY <1>1, <1>2, <1>3
<1> HIDE DEF Unvisited, Outstanding
<1>5. QED
  BY <1>1, <1>4 DEF TurnsShape

\* Outside a tick nothing is claimed; in it the world thread only waits.
LEMMA TurnsMainSteps ==
    ASSUME IInv, Separate, TurnsShape,
           \/ EndSchedule \/ WaitBlocks \/ MainSpuriousWake
           \/ WaitReturns \/ DelayedUpdate \/ EndUpdate \/ UnloadAll
           \/ Deactivate \/ DeactivateCancel \/ DeactivateJoin \/ StopNow
           \/ (\E m \in Maps : CreateMap(m))
    PROVE  TurnsShape'
<1>1. CASE ~InTick'
  BY <1>1 DEF TurnsShape
<1>2. CASE InTick'
  <2>1. EndSchedule \/ WaitBlocks \/ MainSpuriousWake \/ StopNow
    BY <1>2 DEF InTick, WaitReturns, DelayedUpdate, EndUpdate, UnloadAll, Deactivate,
                DeactivateCancel, DeactivateJoin, CreateMap, mainVars
  <2>2. UNCHANGED <<items, request, pc, rest, live, served, token, todo>>
    BY <2>1 DEF EndSchedule, WaitBlocks, MainSpuriousWake, StopNow, queueVars, workerVars
  <2>3. UNCHANGED <<Queued, Holding, Outstanding>>
    BY <2>2 DEF Queued, Holding, Outstanding
  <2>4. /\ (IF mainPc' = "schedule" THEN todo' ELSE {}) = (IF mainPc = "schedule" THEN todo ELSE {})
        /\ InTick
    BY <1>2, <2>1, <2>2 DEF EndSchedule, WaitBlocks, MainSpuriousWake, StopNow, InTick
  <2>5. UNCHANGED Unvisited
    BY <2>2, <2>3, <2>4 DEF Unvisited
  <2>6. QED
    BY <2>2, <2>3, <2>4, <2>5, TurnsFrame
<1>3. QED
  BY <1>1, <1>2

\* A request taken from the queue is still to be visited.
LEMMA TurnsPops == ASSUME IInv, Separate, TurnsShape, NEW w \in Workers, WorkerPops(w) PROVE TurnsShape'
<1>1. /\ pc[w] = "pop" /\ pc' = [pc EXCEPT ![w] = "check"] /\ request[w] = NoMap
      /\ UNCHANGED <<mainPc, todo, rest, live, served, token>>
  BY DEF WorkerPops, mainVars, IInv, WorkerShape
<1>2. pc'[w] = "check" /\ \A v \in Workers : v # w => pc'[v] = pc[v]
  BY <1>1 DEF IInv, TypeOK
<1>3. CASE GiveUp /\ UNCHANGED request
  <2>1. token'
    BY <1>1, <1>3 DEF GiveUp, IInv, ShutdownShape
  <2>2. QED
    BY <2>1 DEF TurnsShape, InTick
<1>4. CASE Take /\ request' = [request EXCEPT ![w] = Head(items)]
  <2> DEFINE m == Head(items)
  <2>1. items \in Seq(Maps) /\ items # <<>> /\ items' = Tail(items)
    BY <1>4 DEF Take, IInv, TypeOK
  <2>2. \A i, j \in DOMAIN items : items[i] = items[j] => i = j
    BY DEF Separate, OneUpdaterPerMap
  <2>3. m \in Queued /\ Queued' = Queued \ {m}
    BY <2>1, <2>2, TakeDequeues
  <2>4. m \in Maps /\ m # NoMap
    BY <2>1, MapsAssumption DEF Maps
  <2>5. request'[w] = m /\ \A v \in Workers : v # w => request'[v] = request[v]
    BY <1>4 DEF IInv, TypeOK
  <2> HIDE DEF m
  <2>6. Holding' = Holding \cup {w} /\ w \notin Holding
    BY <1>1, <2>4, <2>5 DEF Holding
  <2>7. {request'[v] : v \in Holding'} = {request[v] : v \in Holding} \cup {m}
    BY <2>5, <2>6 DEF Holding
  <2>8. {request'[v] : v \in {u \in Holding' : pc'[u] = "check"}}
            = {request[v] : v \in {u \in Holding : pc[u] = "check"}} \cup {m}
    <3>1. {u \in Holding' : pc'[u] = "check"} = {u \in Holding : pc[u] = "check"} \cup {w}
      BY <1>2, <2>6 DEF Holding
    <3>2. w \notin {u \in Holding : pc[u] = "check"}
      BY <2>6
    <3>3. QED
      BY <2>5, <3>1, <3>2 DEF Holding
  <2>9. Outstanding' = Outstanding
    BY <2>3, <2>7 DEF Outstanding
  <2>10. Unvisited' = Unvisited
    BY <1>1, <2>3, <2>8 DEF Unvisited
  <2>11. QED
    BY <1>1, <2>9, <2>10, TurnsFrame DEF InTick
<1>5. QED
  BY <1>3, <1>4 DEF WorkerPops

\* A map that a worker visits makes way for its instances.
LEMMA TurnsUpdateMap ==
    ASSUME IInv, Separate, TurnsShape, NEW w \in Workers, UpdateMap(w) PROVE TurnsShape'
<1>1. /\ pc[w] = "check" /\ ~token /\ pc' = [pc EXCEPT ![w] = "update"]
      /\ rest' = [rest EXCEPT ![w] = {i \in live \cap Instances : Parent[i] = request[w]}]
      /\ UNCHANGED <<items, request, live, mainPc, todo, served, token>>
  BY DEF UpdateMap, queueVars, mainVars
<1>2. /\ pc'[w] = "update" /\ rest'[w] = {i \in live \cap Instances : Parent[i] = request[w]}
      /\ \A v \in Workers : v # w => pc'[v] = pc[v] /\ rest'[v] = rest[v]
      /\ rest[w] = {}
  BY <1>1 DEF IInv, TypeOK, Separate, RestShape
<1>3. Queued' = Queued /\ Holding' = Holding /\ Outstanding' = Outstanding
  BY <1>1 DEF Queued, Holding, Outstanding
<1>4. w \in Holding /\ request[w] \in Outstanding
  BY <1>1 DEF IInv, PoppedRequestIsHandled, Holding, Outstanding
<1>5. request[w] \in Unvisited
  BY <1>1, <1>4 DEF Unvisited
<1>6. Unvisited' \subseteq Unvisited /\ \A m \in Unvisited : m = request[w] \/ m \in Unvisited'
  <2>1. {u \in Holding' : pc'[u] = "check"} = {u \in Holding : pc[u] = "check"} \ {w}
    BY <1>1, <1>2, <1>3 DEF Holding
  <2>2. QED
    BY <1>1, <1>3, <2>1 DEF Unvisited
<1>7. InTick' = InTick
  BY <1>1 DEF InTick
<1> HIDE DEF Outstanding, Unvisited, InTick
<1>8. CASE InTick
  <2>1. served \cap rest'[w] = {}
    BY <1>2, <1>5, <1>8 DEF TurnsShape
  <2>2. ASSUME NEW m \in live
        PROVE  \/ m \in served \cup Outstanding' \cup Unvisited'
               \/ \E v \in Workers : m \in rest'[v]
               \/ m \in Instances /\ Parent[m] \in Unvisited'
    <3>1. CASE m \in served \cup Outstanding \cup Unvisited
      BY <1>3, <1>4, <1>6, <3>1
    <3>2. CASE \E v \in Workers : m \in rest[v]
      BY <1>2, <3>2
    <3>3. CASE m \in Instances /\ Parent[m] \in Unvisited
      BY <1>2, <1>6, <3>3
    <3>4. QED
      BY <1>8, <3>1, <3>2, <3>3 DEF TurnsShape
  <2>3. \A v \in Workers : served \cap rest'[v] = {}
    BY <1>2, <1>8, <2>1 DEF TurnsShape
  <2>4. \A i \in Instances \cap served : Parent[i] \notin Unvisited'
    BY <1>6, <1>8 DEF TurnsShape
  <2>5. served \subseteq live /\ served \cap (Outstanding' \cup Unvisited') = {}
    BY <1>3, <1>6, <1>8 DEF TurnsShape
  <2>6. served' = served /\ live' = live
    BY <1>1
  <2>7. QED
    BY <2>2, <2>3, <2>4, <2>5, <2>6 DEF TurnsShape
<1>9. QED
  BY <1>7, <1>8 DEF TurnsShape

\* An instance of the map that is visited goes, loses its turn or is queued.
LEMMA TurnsVisit ==
    ASSUME IInv, Separate, TurnsShape, NEW w \in Workers, VisitInstance(w) PROVE TurnsShape'
<1>1. PICK i \in rest[w] :
        /\ rest' = [rest EXCEPT ![w] = @ \ {i}]
        /\ \/ live' = live \ {i} /\ UNCHANGED <<queueVars, pending, served>>
           \/ served' = served \cup {i} /\ UNCHANGED <<queueVars, pending, live>>
           \/ schedule_update(i) /\ UNCHANGED <<live, served>>
  BY DEF VisitInstance
<1>2. pc[w] = "update" /\ UNCHANGED <<mainPc, todo, pc, request, token>>
  BY DEF VisitInstance, mainVars
<1>3. i \in Instances /\ i \in Maps /\ i \in live /\ Parent[i] = request[w] /\ i \notin Outstanding
  BY <1>1 DEF IInv, TypeOK, Maps, Separate, RestShape
<1>4. i \notin todo /\ i \notin BaseMaps /\ i \notin Unvisited
  <2>1. i \notin todo /\ i \notin BaseMaps
    BY <1>3, MapsAssumption DEF IInv, TypeOK
  <2>2. QED
    BY <1>3, <2>1 DEF Unvisited, Outstanding
<1>5. w \in Holding
  BY <1>2 DEF IInv, WorkerShape, Holding
<1>6. /\ rest'[w] = rest[w] \ {i} /\ \A v \in Workers : v # w => rest'[v] = rest[v] /\ i \notin rest[v]
  <2>1. rest'[w] = rest[w] \ {i} /\ \A v \in Workers : v # w => rest'[v] = rest[v]
    BY <1>1 DEF IInv, TypeOK
  <2>2. ASSUME NEW v \in Workers, v # w, i \in rest[v] PROVE FALSE
    <3>1. pc[v] = "update" /\ request[v] = request[w]
      BY <1>3, <2>2 DEF Separate, RestShape
    <3>2. v \in Holding
      BY <3>1 DEF IInv, WorkerShape, Holding
    <3>3. QED
      BY <1>5, <2>2, <3>1, <3>2 DEF Separate, OneUpdaterPerMap
  <2>3. QED
    BY <2>1, <2>2
<1>7. Parent[i] \notin Unvisited
  <2>1. request[w] \in Outstanding /\ request[w] \notin Queued
    BY <1>5, SeparateParts DEF Separate, Outstanding
  <2>2. \A v \in Holding : pc[v] = "check" => request[v] # request[w]
    BY <1>2, <1>5 DEF Separate, OneUpdaterPerMap
  <2>3. QED
    BY <1>3, <2>1, <2>2 DEF Unvisited, Separate, LoopShape
<1>8. InTick' = InTick
  BY <1>2 DEF InTick
<1>9. CASE ~InTick
  BY <1>8, <1>9 DEF TurnsShape
<1>10. CASE InTick /\ schedule_update(i) /\ UNCHANGED <<live, served>>
  <2>1. items \in Seq(Maps) /\ items' = Append(items, i)
    BY <1>10 DEF IInv, TypeOK, schedule_update, Push
  <2>2. Queued' = Queued \cup {i} /\ Holding' = Holding
    BY <1>2, <1>3, <2>1, PushQueues DEF Holding
  <2>3. Outstanding' = Outstanding \cup {i} /\ Unvisited' = Unvisited \cup {i}
    BY <1>2, <2>2 DEF Outstanding, Unvisited
  <2>4. i \notin served
    BY <1>1, <1>10 DEF TurnsShape
  <2>5. \A j \in Instances : Parent[j] # i
    BY <1>4, MapsAssumption
  <2>6. QED
    BY <1>6, <1>10, <2>3, <2>4, <2>5 DEF TurnsShape
<1>11. CASE /\ InTick /\ UNCHANGED items
            /\ \/ live' = live \ {i} /\ served' = served
               \/ served' = served \cup {i} /\ live' = live
  <2>1. Queued' = Queued /\ Holding' = Holding
    BY <1>2, <1>11 DEF Queued, Holding
  <2>2. Outstanding' = Outstanding /\ Unvisited' = Unvisited
    BY <1>2, <2>1 DEF Outstanding, Unvisited
  <2>3. i \notin served
    BY <1>1, <1>11 DEF TurnsShape
  <2>4. CASE live' = live \ {i} /\ served' = served
    BY <1>6, <1>11, <2>2, <2>3, <2>4 DEF TurnsShape
  <2>5. CASE served' = served \cup {i} /\ live' = live
    BY <1>3, <1>4, <1>6, <1>7, <1>11, <2>2, <2>5 DEF TurnsShape
  <2>6. QED
    BY <1>11, <2>4, <2>5
<1>12. QED
  BY <1>1, <1>9, <1>10, <1>11 DEF queueVars

\* A map that was updated has had its turn, and its instances are under way.
LEMMA TurnsFinished ==
    ASSUME IInv, Separate, TurnsShape, NEW w \in Workers, update_finished(w) PROVE TurnsShape'
<1>1. /\ pc[w] = "update" /\ rest[w] = {}
      /\ mainPc' = IF mainPc = "blocked" THEN "wait" ELSE mainPc
      /\ pc' = [pc EXCEPT ![w] = "pop"] /\ request' = [request EXCEPT ![w] = NoMap]
      /\ served' = served \cup {request[w]}
      /\ UNCHANGED <<items, todo, rest, live, token>>
  BY DEF update_finished, queueVars
<1>2. /\ \A v \in Workers : v # w => pc'[v] = pc[v] /\ request'[v] = request[v]
      /\ pc'[w] = "pop" /\ request'[w] = NoMap
  BY <1>1 DEF IInv, TypeOK
<1>3. Queued' = Queued /\ Holding' = Holding \ {w} /\ w \in Holding
  BY <1>1, <1>2 DEF Queued, Holding, IInv, WorkerShape
<1>4. /\ request[w] \in Outstanding /\ request[w] \in live /\ request[w] \notin Queued
      /\ \A v \in Holding : request[v] = request[w] => v = w
  BY <1>3, SeparateParts DEF Separate, Outstanding
<1>5. Outstanding' = Outstanding \ {request[w]}
  BY <1>2, <1>3, <1>4 DEF Outstanding, Holding
<1>6. Unvisited' = Unvisited
  <2>1. {u \in Holding' : pc'[u] = "check"} = {u \in Holding : pc[u] = "check"}
    BY <1>1, <1>2, <1>3
  <2>2. w \notin {u \in Holding : pc[u] = "check"}
    BY <1>1
  <2>3. QED
    BY <1>1, <1>2, <1>3, <2>1, <2>2 DEF Unvisited
<1>7. request[w] \notin Unvisited
  BY <1>1, <1>3, <1>4 DEF Unvisited, Separate, LoopShape
<1>8. \A v \in Workers : request[w] \notin rest[v]
  BY <1>4 DEF Separate, RestShape
<1>9. request[w] \in Instances => Parent[request[w]] \notin Unvisited
  BY <1>4 DEF Separate, ParentsFirst
<1>10. InTick' = InTick
  BY <1>1 DEF InTick
<1> HIDE DEF Outstanding, Unvisited, InTick
<1>11. QED
  BY <1>1, <1>4, <1>5, <1>6, <1>7, <1>8, <1>9, <1>10 DEF TurnsShape

LEMMA TurnsNext == IInv /\ Separate /\ Turns /\ [Next]_vars => Turns'
<1> SUFFICES ASSUME IInv, Separate, Turns, [Next]_vars PROVE TurnsShape'
  BY ParentsLiveNext DEF Turns
<1>1. TurnsShape
  BY DEF Turns
<1>2. CASE Main \/ MainSpuriousWake \/ StopNow \/ \E m \in Maps : CreateMap(m)
  BY <1>1, <1>2, TurnsScheduleMap, TurnsStartUpdate, TurnsMainSteps DEF Main
<1>3. ASSUME NEW w \in Workers, WorkerPops(w) \/ UpdateMap(w) \/ VisitInstance(w) \/ update_finished(w)
      PROVE  TurnsShape'
  BY <1>1, <1>3, TurnsPops, TurnsUpdateMap, TurnsVisit, TurnsFinished
<1>4. ASSUME NEW w \in Workers, WorkerExits(w) PROVE TurnsShape'
  BY <1>4 DEF WorkerExits, TurnsShape, InTick
<1>5. CASE UNCHANGED vars \/ \E w \in Workers : WorkerSleeps(w) \/ WorkerSpuriousWake(w)
  <2>1. UNCHANGED <<items, mainVars, workerVars, live, token, served>>
    BY <1>5 DEF vars, queueVars, WorkerSleeps, WorkerSpuriousWake, Sleep, SpuriousWake
  <2>2. UNCHANGED <<Queued, Holding, Outstanding, Unvisited, InTick>>
    BY <2>1 DEF mainVars, workerVars, Queued, Holding, Outstanding, Unvisited, InTick
  <2>3. QED
    BY <1>1, <2>1, <2>2, TurnsFrame DEF workerVars
<1>6. QED
  BY <1>2, <1>3, <1>4, <1>5 DEF Next, Worker

LEMMA TurnsInit == Init => Turns
  BY DEF Init, Turns, TurnsShape, ParentsLive, InTick

LEMMA TurnsAlways == Spec => [](IInv /\ Separate /\ Turns)
<1>1. Init => IInv /\ Separate /\ Turns
  BY IInvInit, SeparateInit, TurnsInit
<1>2. IInv /\ Separate /\ Turns /\ [Next]_vars => (IInv /\ Separate /\ Turns)'
  BY IInvNext, SeparateNext, TurnsNext
<1>3. QED
  BY <1>1, <1>2, PTL DEF Spec

------------------------------------------------------------------------------
(* The refinement: one lemma for the steps of each kind, over the images of  *)
(* the abstract variables.                                                   *)

Phase == IF mainPc \in {"schedule", "wait", "blocked"} /\ ~token THEN "parallel"
         ELSE IF mainPc \in {"idle", "delayed"} THEN "serial" ELSE "stopped"
Active == {request[w] : w \in {v \in Workers : pc[v] = "update"}}

\* A worker begins the turn of a map that exists and has not had it.
LEMMA UpdateBegins ==
    ASSUME IInv, Separate, Turns, NEW w \in Workers, UpdateMap(w)
    PROVE  /\ Phase = "parallel" /\ request[w] \in live \ (Active \cup served)
           /\ Active' = Active \cup {request[w]} /\ UNCHANGED <<Phase, live, served>>
<1>1. /\ pc[w] = "check" /\ ~token /\ pc' = [pc EXCEPT ![w] = "update"]
      /\ UNCHANGED <<request, live, mainPc, served, token>>
  BY DEF UpdateMap, mainVars
<1>2. w \in Holding
  BY <1>1 DEF IInv, PoppedRequestIsHandled, Holding
<1>3. mainPc \notin Serial /\ mainPc \in Serial \cup {"schedule", "wait", "blocked"}
  BY <1>2 DEF IInv, TypeOK, WorldThreadAlone
<1>4. Phase = "parallel" /\ InTick
  BY <1>1, <1>3 DEF Phase, InTick, Serial
<1>5. request[w] \in live /\ request[w] \in Outstanding
      /\ \A v \in Holding : request[v] = request[w] => v = w
  BY <1>2, SeparateParts DEF Separate, Outstanding
<1>6. request[w] \notin served
  BY <1>4, <1>5 DEF Turns, TurnsShape
<1>7. \A v \in Workers : pc[v] = "update" => v \in Holding /\ v # w
  BY <1>1 DEF IInv, WorkerShape, Holding
<1>8. request[w] \notin Active
  BY <1>5, <1>7 DEF Active
<1>9. {v \in Workers : pc'[v] = "update"} = {v \in Workers : pc[v] = "update"} \cup {w}
  BY <1>1 DEF IInv, TypeOK
<1>10. Active' = Active \cup {request[w]}
  BY <1>1, <1>9 DEF Active
<1>11. QED
  BY <1>1, <1>4, <1>5, <1>6, <1>8, <1>10 DEF Phase

\* A worker ends the turn of the map it was updating.
LEMMA UpdateFinishes ==
    ASSUME IInv, Separate, NEW w \in Workers, update_finished(w)
    PROVE  /\ request[w] \in Active /\ Active' = Active \ {request[w]}
           /\ served' = served \cup {request[w]} /\ UNCHANGED <<Phase, live>>
<1>1. /\ pc[w] = "update"
      /\ mainPc' = IF mainPc = "blocked" THEN "wait" ELSE mainPc
      /\ pc' = [pc EXCEPT ![w] = "pop"] /\ request' = [request EXCEPT ![w] = NoMap]
      /\ served' = served \cup {request[w]} /\ UNCHANGED <<live, token>>
  BY DEF update_finished
<1>2. \A v \in Workers : pc[v] = "update" => v \in Holding
  BY DEF IInv, WorkerShape, Holding
<1>3. \A v \in Workers : pc[v] = "update" /\ request[v] = request[w] => v = w
  BY <1>1, <1>2 DEF Separate, OneUpdaterPerMap
<1>4. {v \in Workers : pc'[v] = "update"} = {v \in Workers : pc[v] = "update"} \ {w}
      /\ \A v \in Workers : v # w => request'[v] = request[v]
  BY <1>1 DEF IInv, TypeOK
<1>5. Active' = {request[v] : v \in {u \in Workers : pc[u] = "update"} \ {w}}
  BY <1>4 DEF Active
<1>6. request[w] \in Active /\ Active' = Active \ {request[w]}
  BY <1>1, <1>3, <1>5 DEF Active
<1>7. QED
  BY <1>1, <1>6 DEF Phase

\* An instance is queued, goes, or loses its turn before the turn began.
LEMMA VisitPrecedesTurn ==
    ASSUME IInv, Separate, Turns, NEW w \in Workers, VisitInstance(w)
    PROVE  /\ UNCHANGED <<Phase, Active>>
           /\ \/ UNCHANGED <<live, served>>
              \/ \E i \in Maps :
                    /\ Phase = "parallel" /\ i \in live \ (Active \cup served)
                    /\ \/ live' = live \ {i} /\ served' = served
                       \/ served' = served \cup {i} /\ live' = live
<1>1. PICK i \in rest[w] :
           \/ live' = live \ {i} /\ served' = served
           \/ served' = served \cup {i} /\ live' = live
           \/ live' = live /\ served' = served
  BY DEF VisitInstance
<1>2. pc[w] = "update" /\ UNCHANGED <<mainPc, pc, request, token>>
  BY DEF VisitInstance, mainVars
<1>3. i \in Maps /\ i \in live /\ i \notin Outstanding
  BY <1>1 DEF IInv, TypeOK, Maps, Separate, RestShape
<1>4. w \in Holding /\ ~token
  BY <1>2 DEF IInv, WorkerShape, Holding
<1>5. mainPc \notin Serial /\ mainPc \in Serial \cup {"schedule", "wait", "blocked"}
  BY <1>4 DEF IInv, TypeOK, WorldThreadAlone
<1>6. Phase = "parallel" /\ InTick
  BY <1>4, <1>5 DEF Phase, InTick, Serial
<1>7. i \notin served
  BY <1>1, <1>6 DEF Turns, TurnsShape
<1>8. Active \subseteq Outstanding
  BY DEF Active, Outstanding, IInv, WorkerShape, Holding
<1>9. UNCHANGED <<Phase, Active>>
  BY <1>2 DEF Phase, Active
<1>10. QED
  BY <1>1, <1>3, <1>6, <1>7, <1>8, <1>9

\* When wait() lets the world thread go on, all maps have had their turn.
LEMMA WaitEndsTick ==
    ASSUME IInv, Separate, Turns, WaitReturns, ~token
    PROVE  /\ Phase = "parallel" /\ Phase' = "serial" /\ Active = {} /\ served = live
           /\ UNCHANGED <<Active, live, served>>
<1>1. /\ mainPc = "wait" /\ mainPc' = "delayed" /\ pending = 0
      /\ UNCHANGED <<pc, request, live, served, token>>
  BY DEF WaitReturns, workerVars
<1>2. items = <<>> /\ Holding = {}
  BY <1>1, NothingPending DEF IInv
<1>3. Queued = {} /\ Outstanding = {} /\ Unvisited = {}
  BY <1>1, <1>2 DEF Queued, Outstanding, Unvisited
<1>4. \A v \in Workers : pc[v] # "update"
  BY <1>2 DEF IInv, WorkerShape, Holding
<1>5. Active = {} /\ Active' = Active
  BY <1>1, <1>4 DEF Active
<1>6. \A v \in Workers : rest[v] = {}
  BY <1>4 DEF Separate, RestShape
<1>7. InTick
  BY <1>1 DEF InTick
<1>8. served = live
  <2>1. served \subseteq live
    BY <1>7 DEF Turns, TurnsShape
  <2>2. \A m \in live : m \in served
    BY <1>3, <1>6, <1>7 DEF Turns, TurnsShape
  <2>3. QED
    BY <2>1, <2>2
<1>9. QED
  BY <1>1, <1>5, <1>8 DEF Phase

\* The other steps are not seen by someone who looks at turns only.
LEMMA OtherStepsHidden ==
    ASSUME IInv,
           \/ ScheduleMap \/ EndSchedule \/ WaitBlocks \/ (WaitReturns /\ token)
           \/ DelayedUpdate \/ EndUpdate \/ Deactivate \/ DeactivateCancel \/ DeactivateJoin
           \/ MainSpuriousWake \/ StopNow \/ UNCHANGED vars
           \/ \E w \in Workers : WorkerSleeps(w) \/ WorkerPops(w) \/ WorkerExits(w) \/ WorkerSpuriousWake(w)
    PROVE  UNCHANGED <<Phase, live, Active, served>>
<1>1. CASE \/ ScheduleMap \/ EndSchedule \/ WaitBlocks \/ (WaitReturns /\ token)
           \/ DelayedUpdate \/ EndUpdate \/ Deactivate \/ DeactivateCancel \/ DeactivateJoin
           \/ MainSpuriousWake \/ StopNow \/ UNCHANGED vars
  <2>1. UNCHANGED <<pc, request, live, served>>
    BY <1>1 DEF ScheduleMap, EndSchedule, WaitBlocks, WaitReturns, DelayedUpdate, EndUpdate, Deactivate,
       DeactivateCancel, DeactivateJoin, MainSpuriousWake, StopNow, vars, workerVars
  <2>2. Phase' = Phase
    BY <1>1 DEF ScheduleMap, EndSchedule, WaitBlocks, WaitReturns, DelayedUpdate, EndUpdate, Deactivate,
       DeactivateCancel, DeactivateJoin, MainSpuriousWake, StopNow, vars, mainVars, Phase
  <2>3. QED
    BY <2>1, <2>2 DEF Active
<1>2. ASSUME NEW w \in Workers,
             WorkerSleeps(w) \/ WorkerPops(w) \/ WorkerExits(w) \/ WorkerSpuriousWake(w)
      PROVE  UNCHANGED <<Phase, live, Active, served>>
  <2>1. UNCHANGED <<mainPc, token, live, served>>
    BY <1>2 DEF WorkerSleeps, WorkerPops, WorkerExits, WorkerSpuriousWake, mainVars
  <2>2. CASE WorkerSleeps(w) \/ WorkerSpuriousWake(w)
    BY <2>1, <2>2 DEF WorkerSleeps, WorkerSpuriousWake, workerVars, Phase, Active
  <2>3. CASE WorkerPops(w) \/ WorkerExits(w)
    <3>1. /\ pc[w] # "update" /\ pc'[w] # "update"
          /\ \A v \in Workers : v # w => pc'[v] = pc[v] /\ request'[v] = request[v]
      BY <2>3 DEF WorkerPops, WorkerExits, IInv, TypeOK
    <3>2. {v \in Workers : pc'[v] = "update"} = {v \in Workers : pc[v] = "update"}
      BY <3>1
    <3>3. Active' = Active
      BY <3>1, <3>2 DEF Active
    <3>4. QED
      BY <2>1, <3>3 DEF Phase
  <2>4. QED
    BY <1>2, <2>2, <2>3
<1>3. QED
  BY <1>1, <1>2

\* MapManager and MapUpdater implement the ticks of MapTicks: the world
\* alternates between phases, and in each parallel phase every map that exists
\* is updated exactly once, unless its instance gave up its turn, and by one
\* worker at a time (MapUpdater::wait, MapInstanced::Update).
THEOREM MapUpdaterImplementsTicks == Spec => ImplementsMapTicks
<1>1. Init => Ticks!Init
  BY DEF Init, Ticks!Init
<1>2. ASSUME IInv, Separate, Turns, [Next]_vars
      PROVE  [Ticks!Next]_<<Phase, live, Active, served>>
  <2>1. ASSUME NEW w \in Workers, UpdateMap(w) PROVE \E m \in Maps : Ticks!Begin(m)
    <3>1. request[w] \in Maps
      BY <1>2, <2>1, UpdateBegins DEF IInv, TypeOK
    <3>2. QED
      BY <1>2, <2>1, <3>1, UpdateBegins DEF Ticks!Begin, Phase, Active
  <2>2. ASSUME NEW w \in Workers, update_finished(w) PROVE \E m \in Maps : Ticks!Finish(m)
    <3>1. request[w] \in Maps
      BY <1>2, <2>2 DEF update_finished, IInv, TypeOK, WorkerShape
    <3>2. QED
      BY <1>2, <2>2, <3>1, UpdateFinishes DEF Ticks!Finish, Phase, Active
  <2>3. ASSUME NEW w \in Workers, VisitInstance(w)
        PROVE  \/ \E i \in Maps : Ticks!Destroy(i) \/ Ticks!Skip(i)
               \/ UNCHANGED <<Phase, live, Active, served>>
    BY <1>2, <2>3, VisitPrecedesTurn DEF Ticks!Destroy, Ticks!Skip, Phase, Active
  <2>4. CASE WaitReturns /\ ~token
    BY <1>2, <2>4, WaitEndsTick DEF Ticks!Next, Ticks!EndTick, Phase, Active
  <2>5. CASE StartUpdate
    <3>1. mainPc = "idle" /\ mainPc' = "schedule" /\ ~token /\ UNCHANGED token
      BY <1>2, <2>5 DEF StartUpdate, IInv, ShutdownShape
    <3>2. QED
      BY <2>5, <3>1 DEF StartUpdate, workerVars, Ticks!Next, Ticks!StartTick
  <2>6. CASE UnloadAll
    BY <2>6 DEF UnloadAll, workerVars, Ticks!Next, Ticks!Stop
  <2>7. ASSUME NEW m \in Maps, CreateMap(m) PROVE Ticks!Create(m)
    BY <2>7 DEF CreateMap, mainVars, workerVars, Ticks!Create
  <2>8. CASE \E w \in Workers : UpdateMap(w) \/ update_finished(w) \/ VisitInstance(w)
    BY <2>1, <2>2, <2>3, <2>8 DEF Ticks!Next
  <2>9. CASE \E m \in Maps : CreateMap(m)
    BY <2>7, <2>9 DEF Ticks!Next
  <2>10. CASE UNCHANGED <<Phase, live, Active, served>>
    BY <2>10
  <2> HIDE DEF Phase, Active
  <2>11. QED
    BY <1>2, <2>4, <2>5, <2>6, <2>8, <2>9, <2>10, OtherStepsHidden DEF Next, Main, Worker
<1>3. [Ticks!Next]_<<Phase, live, Active, served>> => [Ticks!Next]_(Ticks!vars)
  BY DEF Ticks!vars, Phase, Active
<1>4. QED
  BY <1>1, <1>2, <1>3, TurnsAlways, PTL DEF Spec, ImplementsMapTicks, Ticks!Spec
===============================================================================

------------------------------ MODULE MapUpdater ------------------------------
(***************************************************************************)
(* game/Maps: MapManager::Update and UnloadAll on the world thread,        *)
(* MapUpdater's worker threads, and MapInstanced::Update, which runs in a  *)
(* worker and schedules further updates or destroys instances.  A step is  *)
(* a section under MapUpdater::_lock or the queue's lock, or a piece of    *)
(* unlocked code; schedule_update takes the queue's lock inside _lock and  *)
(* nothing takes them the other way round, so it is one step.              *)
(***************************************************************************)
EXTENDS ProducerConsumerQueue, FiniteSets

CONSTANTS Workers,        \* _workerThreads (CONFIG_NUMTHREADS > 0)
          BaseMaps,       \* keys of i_maps
          Instances,      \* keys of every m_InstancedMaps
          Parent,         \* the MapInstanced an instance belongs to
          NoMap           \* nullptr

ASSUME MapsAssumption ==
    /\ Workers # {} /\ IsFiniteSet(Workers)
    /\ BaseMaps \cap Instances = {}
    /\ Parent \in [Instances -> BaseMaps]
    /\ NoMap \notin BaseMaps \cup Instances

Maps == BaseMaps \cup Instances

VARIABLES mainPc,     \* where the world thread is
          todo,       \* the rest of its loop over i_maps
          live,       \* the maps that exist
          pending,    \* pending_requests
          token,      \* _cancelationToken
          stopEvent,  \* World::m_stopEvent
          pc,         \* where each worker is
          request,    \* the map of the MapUpdateRequest a worker holds
          rest,       \* the instances MapInstanced::Update has still to visit
          served      \* history: the maps that had their turn in this tick

mainVars == <<mainPc, todo, stopEvent>>
workerVars == <<pc, request, rest>>
vars == <<queueVars, mainVars, workerVars, live, pending, token, served>>

Init ==
    /\ QueueInit
    /\ mainPc = "idle" /\ todo = {} /\ stopEvent = FALSE
    /\ live = {} /\ pending = 0 /\ token = FALSE /\ served = {}
    /\ pc = [w \in Workers |-> "pop"]
    /\ request = [w \in Workers |-> NoMap]
    /\ rest = [w \in Workers |-> {}]

------------------------------------------------------------------------------
(* The world thread.                                                        *)

\* MapManager::CreateMap, from the packet and login handlers of the world
\* thread: the base map on first use, then the instance.
CreateMap(m) ==
    /\ mainPc = "idle" /\ m \notin live
    /\ m \in Instances => Parent[m] \in live
    /\ live' = live \cup {m}
    /\ UNCHANGED <<queueVars, mainVars, workerVars, pending, token, served>>

\* World::StopNow, from a signal, the console or a timed shutdown.
StopNow ==
    /\ ~stopEvent /\ stopEvent' = TRUE
    /\ UNCHANGED <<queueVars, mainPc, todo, workerVars, live, pending, token, served>>

\* MapManager::Update when i_timer has passed.
StartUpdate ==
    /\ mainPc = "idle" /\ ~stopEvent
    /\ mainPc' = "schedule" /\ todo' = live \cap BaseMaps
    /\ served' = {}
    /\ UNCHANGED <<queueVars, workerVars, live, pending, token, stopEvent>>

schedule_update(m) ==
    /\ Push(m)
    /\ pending' = pending + 1

ScheduleMap ==
    /\ mainPc = "schedule"
    /\ \E m \in todo : schedule_update(m) /\ todo' = todo \ {m}
    /\ UNCHANGED <<mainPc, stopEvent, workerVars, live, token, served>>

\* Faulty variant: the loop's last map is left out of the tick.
EndScheduleEarly ==
    /\ mainPc = "schedule" /\ Cardinality(todo) <= 1
    /\ mainPc' = "wait"
    /\ UNCHANGED <<queueVars, todo, stopEvent, workerVars, live, pending, token, served>>

EndSchedule ==
    /\ mainPc = "schedule" /\ todo = {}
    /\ mainPc' = "wait"
    /\ UNCHANGED <<queueVars, todo, stopEvent, workerVars, live, pending, token, served>>

\* wait(): called at the end of the loop and by deactivate().
WaitBlocks ==
    /\ mainPc = "wait" /\ pending > 0
    /\ mainPc' = "blocked"
    /\ UNCHANGED <<queueVars, todo, stopEvent, workerVars, live, pending, token, served>>

MainSpuriousWake ==
    /\ mainPc = "blocked" /\ mainPc' = "wait"
    /\ UNCHANGED <<queueVars, todo, stopEvent, workerVars, live, pending, token, served>>

\* Faulty variant: wait() looks at the queue instead of the counter, which
\* forgets the requests the workers have taken and not finished.
WaitQueueEmpty ==
    /\ mainPc = "wait" /\ items = <<>>
    /\ mainPc' = IF token THEN "cancel" ELSE "delayed"
    /\ todo' = IF token THEN {} ELSE live \cap BaseMaps
    /\ UNCHANGED <<queueVars, stopEvent, workerVars, live, pending, token, served>>

WaitReturns ==
    /\ mainPc = "wait" /\ pending = 0
    /\ mainPc' = IF token THEN "cancel" ELSE "delayed"
    /\ todo' = IF token THEN {} ELSE live \cap BaseMaps
    /\ UNCHANGED <<queueVars, stopEvent, workerVars, live, pending, token, served>>

\* The second loop of MapManager::Update; MapInstanced::DelayedUpdate visits
\* the instances of the map too.
DelayedUpdate ==
    /\ mainPc = "delayed" /\ todo # {}
    /\ \E m \in todo : todo' = todo \ {m}
    /\ UNCHANGED <<queueVars, mainPc, stopEvent, workerVars, live, pending, token, served>>

EndUpdate ==
    /\ mainPc = "delayed" /\ todo = {}
    /\ mainPc' = "idle"
    /\ UNCHANGED <<queueVars, todo, stopEvent, workerVars, live, pending, token, served>>

\* MapManager::UnloadAll, after WorldUpdateLoop has returned.
UnloadAll ==
    /\ mainPc = "idle" /\ stopEvent
    /\ mainPc' = "deactivate" /\ live' = {}
    /\ UNCHANGED <<queueVars, todo, stopEvent, workerVars, pending, token, served>>

\* Faulty variant: the queue is cancelled before the token is set.
DeactivateCancelsFirst ==
    /\ mainPc = "deactivate"
    /\ Cancel
    /\ mainPc' = "wait"
    /\ UNCHANGED <<todo, stopEvent, workerVars, live, pending, token, served>>

\* deactivate(): _cancelationToken = true, then wait().
Deactivate ==
    /\ mainPc = "deactivate" /\ ~token
    /\ token' = TRUE /\ mainPc' = "wait"
    /\ UNCHANGED <<queueVars, todo, stopEvent, workerVars, live, pending, served>>

DeactivateCancel ==
    /\ mainPc = "cancel" /\ Cancel
    /\ mainPc' = "join"
    /\ UNCHANGED <<todo, stopEvent, workerVars, live, pending, token, served>>

DeactivateJoin ==
    /\ mainPc = "join" /\ \A w \in Workers : pc[w] = "exited"
    /\ mainPc' = "exited"
    /\ UNCHANGED <<queueVars, todo, stopEvent, workerVars, live, pending, token, served>>

Main ==
    \/ StartUpdate \/ ScheduleMap \/ EndSchedule
    \/ WaitBlocks \/ WaitReturns
    \/ DelayedUpdate \/ EndUpdate
    \/ UnloadAll \/ Deactivate \/ DeactivateCancel \/ DeactivateJoin

------------------------------------------------------------------------------
(* MapUpdater::WorkerThread.                                                *)

WorkerSleeps(w) ==
    /\ pc[w] = "pop" /\ w \notin sleeping
    /\ Sleep(w)
    /\ UNCHANGED <<mainVars, workerVars, live, pending, token, served>>

WorkerSpuriousWake(w) ==
    /\ SpuriousWake(w)
    /\ UNCHANGED <<mainVars, workerVars, live, pending, token, served>>

WorkerPops(w) ==
    /\ pc[w] = "pop" /\ w \notin sleeping
    /\ \/ Take /\ request' = [request EXCEPT ![w] = Head(items)]
       \/ GiveUp /\ UNCHANGED request
    /\ pc' = [pc EXCEPT ![w] = "check"]
    /\ UNCHANGED <<mainVars, rest, live, pending, token, served>>

\* The token is read after the queue has let the thread go.
WorkerExits(w) ==
    /\ pc[w] = "check" /\ token
    /\ pc' = [pc EXCEPT ![w] = "exited"]
    /\ UNCHANGED <<queueVars, mainVars, request, rest, live, pending, token, served>>

\* request->call(): Map::Update of the map itself; for a MapInstanced the
\* loop over its instances follows.
UpdateMap(w) ==
    /\ pc[w] = "check" /\ ~token
    /\ pc' = [pc EXCEPT ![w] = "update"]
    /\ rest' = [rest EXCEPT ![w] = {i \in live \cap Instances : Parent[i] = request[w]}]
    /\ UNCHANGED <<queueVars, mainVars, request, live, pending, token, served>>

\* Faulty variant: an instance is destroyed after its update was scheduled.
ScheduleAndDestroy(w) ==
    /\ pc[w] = "update"
    /\ \E i \in rest[w] :
          /\ rest' = [rest EXCEPT ![w] = @ \ {i}]
          /\ schedule_update(i)
          /\ live' = live \/ live' = live \ {i}
    /\ UNCHANGED <<mainVars, pc, request, token, served>>

\* MapInstanced::Update visits one instance: DestroyInstance if it can unload,
\* which gives up (the instance loses its turn) if players remain in it;
\* schedule_update otherwise.
VisitInstance(w) ==
    /\ pc[w] = "update"
    /\ \E i \in rest[w] :
          /\ rest' = [rest EXCEPT ![w] = @ \ {i}]
          /\ \/ live' = live \ {i} /\ UNCHANGED <<queueVars, pending, served>>
             \/ served' = served \cup {i} /\ UNCHANGED <<queueVars, pending, live>>
             \/ schedule_update(i) /\ UNCHANGED <<live, served>>
    /\ UNCHANGED <<mainVars, pc, request, token>>

\* Faulty variant: the counter goes down and the world thread is not told.
FinishSilently(w) ==
    /\ pc[w] = "update" /\ rest[w] = {}
    /\ pending' = pending - 1
    /\ pc' = [pc EXCEPT ![w] = "pop"]
    /\ served' = served \cup {request[w]}
    /\ request' = [request EXCEPT ![w] = NoMap]
    /\ UNCHANGED <<queueVars, mainVars, rest, live, token>>

\* update_finished(), then the request is deleted.
update_finished(w) ==
    /\ pc[w] = "update" /\ rest[w] = {}
    /\ pending' = pending - 1
    /\ mainPc' = IF mainPc = "blocked" THEN "wait" ELSE mainPc
    /\ pc' = [pc EXCEPT ![w] = "pop"]
    /\ served' = served \cup {request[w]}
    /\ request' = [request EXCEPT ![w] = NoMap]
    /\ UNCHANGED <<queueVars, todo, stopEvent, rest, live, token>>

Worker(w) ==
    \/ WorkerSleeps(w) \/ WorkerPops(w) \/ WorkerExits(w)
    \/ UpdateMap(w) \/ VisitInstance(w) \/ update_finished(w)

Next ==
    \/ Main \/ MainSpuriousWake \/ StopNow
    \/ \E m \in Maps : CreateMap(m)
    \/ \E w \in Workers : Worker(w) \/ WorkerSpuriousWake(w)

Spec == Init /\ [][Next]_vars

\* The operating system runs every thread that can run; nothing forces a map
\* to be created, a thread to wake by itself or the server to be stopped.
FairSpec ==
    /\ Spec
    /\ WF_vars(Main)
    /\ \A w \in Workers : WF_vars(Worker(w))

------------------------------------------------------------------------------
(* Properties.                                                              *)

Holding == {w \in Workers : request[w] # NoMap}
Serial == {"idle", "delayed", "deactivate", "cancel", "join", "exited"}

TypeOK ==
    /\ items \in Seq(Maps) /\ shutdown \in BOOLEAN /\ sleeping \subseteq Workers
    /\ mainPc \in Serial \cup {"schedule", "wait", "blocked"}
    /\ todo \subseteq BaseMaps /\ live \subseteq Maps /\ served \subseteq Maps
    /\ pending \in Nat /\ token \in BOOLEAN /\ stopEvent \in BOOLEAN
    /\ pc \in [Workers -> {"pop", "check", "update", "exited"}]
    /\ request \in [Workers -> Maps \cup {NoMap}]
    /\ rest \in [Workers -> SUBSET Instances]

\* pending_requests counts the requests queued and those a worker has taken
\* and not finished: wait() can neither return early nor block for nothing.
PendingIsOutstanding == pending = Len(items) + Cardinality(Holding)

\* Whenever the world thread is past wait() and before the next schedule_update
\* (sessions, map creation, DelayedUpdate, UnloadAll, the shutdown of the
\* queue), no worker has a map in its hands and none is queued.
WorldThreadAlone ==
    mainPc \in Serial => items = <<>> /\ Holding = {}

\* A request refers to a map that still exists, though MapInstanced::Update
\* deletes instances while other workers run and UnloadAll deletes everything;
\* and no map is updated by two workers, or queued while it is updated.
OneUpdaterPerMap ==
    /\ \A i \in DOMAIN items : items[i] \in live
    /\ \A w \in Holding : request[w] \in live
    /\ \A w, v \in Holding : request[w] = request[v] => w = v
    /\ \A i, j \in DOMAIN items : items[i] = items[j] => i = j
    /\ \A i \in DOMAIN items, w \in Holding : items[i] # request[w]

\* WorkerThread dereferences what WaitAndPop gave it unless the token is set,
\* and drops it if the token is set: the first must not be nullptr, the
\* second must not be a request.
PoppedRequestIsHandled ==
    \A w \in Workers :
        /\ pc[w] = "check" => (token <=> request[w] = NoMap)
        /\ pc[w] = "exited" => request[w] = NoMap

\* Seen without threads the system is MapTicks: serial and parallel phases
\* alternate and every map gets exactly one turn per tick.
Ticks == INSTANCE MapTicks WITH
    phase <- IF mainPc \in {"schedule", "wait", "blocked"} /\ ~token THEN "parallel"
             ELSE IF mainPc \in {"idle", "delayed"} THEN "serial" ELSE "stopped",
    active <- {request[w] : w \in {v \in Workers : pc[v] = "update"}},
    done <- served
ImplementsMapTicks == Ticks!Spec

\* No wake-up is lost: wait() is always released, so that a tick that has
\* started ends, and a stop request ends with the workers joined.
EveryoneIsWoken ==
    /\ mainPc = "schedule" ~> mainPc = "idle"
    /\ stopEvent ~> mainPc = "exited"
==============================================================================

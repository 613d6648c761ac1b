-------------------------- MODULE DatabaseWorkerPool --------------------------
(***************************************************************************)
(* shared/Database: DatabaseWorkerPool with its asynchronous workers       *)
(* (DatabaseWorker on a ProducerConsumerQueue), its synchronous            *)
(* connections (GetFreeConnection), KeepAlive and Close.  An operation is  *)
(* its number in the order of the calls of Enqueue; what executing one     *)
(* does to the database is the module TransactionTask.                     *)
(***************************************************************************)
EXTENDS ProducerConsumerQueue, FiniteSets

CONSTANTS NumWorkers,     \* asynchronous connections, each with its thread
          NumConnections, \* synchronous connections
          Threads,        \* the threads of the core that use the pool
          MaxOps          \* bound: operations enqueued in a behaviour

ASSUME PoolAssumption ==
    NumWorkers \in Nat \ {0} /\ NumConnections \in Nat \ {0} /\ MaxOps \in Nat

Workers == 1..NumWorkers
Connections == 0..(NumConnections - 1)
None == 0

VARIABLES submitted,   \* number of operations enqueued so far
          executed,    \* the operations executed
          wpc,         \* where each worker is in WorkerThread
          hand,        \* its local "operation", None for nullptr
          token,       \* its _cancelationToken
          open,        \* asynchronous connections not deleted yet
          closer,      \* where the main thread is in Close
          current,     \* the connection Close is deleting
          tpc,         \* where each thread is
          index,       \* its i in GetFreeConnection or KeepAlive
          locked       \* the synchronous connections whose m_Mutex is held

workerVars == <<executed, wpc, hand>>
closeVars == <<token, open, closer, current>>
synchVars == <<tpc, index, locked>>
vars == <<queueVars, submitted, workerVars, closeVars, synchVars>>

Init ==
    /\ QueueInit
    /\ submitted = 0 /\ executed = {}
    /\ wpc = [w \in Workers |-> "pop"] /\ hand = [w \in Workers |-> None]
    /\ token = [w \in Workers |-> FALSE]
    /\ open = Workers /\ closer = "serving" /\ current = 1
    /\ tpc = [t \in Threads |-> "idle"] /\ index = [t \in Threads |-> 0]
    /\ locked = {}

------------------------------------------------------------------------------
(* DatabaseWorker::WorkerThread.                                            *)

WorkerSleeps(w) ==
    /\ wpc[w] = "pop" /\ w \notin sleeping
    /\ Sleep(w)
    /\ UNCHANGED <<submitted, workerVars, closeVars, synchVars>>

WorkerSpuriousWake(w) ==
    /\ SpuriousWake(w)
    /\ UNCHANGED <<submitted, workerVars, closeVars, synchVars>>

\* Faulty variant: front() without pop().
WorkerPeeks(w) ==
    /\ wpc[w] = "pop" /\ w \notin sleeping
    /\ \/ /\ items # <<>> /\ ~shutdown /\ UNCHANGED queueVars
          /\ hand' = [hand EXCEPT ![w] = Head(items)]
       \/ GiveUp /\ UNCHANGED hand
    /\ wpc' = [wpc EXCEPT ![w] = "check"]
    /\ UNCHANGED <<submitted, executed, closeVars, synchVars>>

\* Faulty variant: the newest operation first.
WorkerPopsNewest(w) ==
    /\ wpc[w] = "pop" /\ w \notin sleeping
    /\ \/ /\ items # <<>> /\ ~shutdown /\ UNCHANGED <<shutdown, sleeping>>
          /\ items' = SubSeq(items, 1, Len(items) - 1)
          /\ hand' = [hand EXCEPT ![w] = items[Len(items)]]
       \/ GiveUp /\ UNCHANGED hand
    /\ wpc' = [wpc EXCEPT ![w] = "check"]
    /\ UNCHANGED <<submitted, executed, closeVars, synchVars>>

WorkerPops(w) ==
    /\ wpc[w] = "pop" /\ w \notin sleeping
    /\ \/ Take /\ hand' = [hand EXCEPT ![w] = Head(items)]
       \/ GiveUp /\ UNCHANGED hand
    /\ wpc' = [wpc EXCEPT ![w] = "check"]
    /\ UNCHANGED <<submitted, executed, closeVars, synchVars>>

\* "if (_cancelationToken || !operation) return;"
WorkerChecks(w) ==
    /\ wpc[w] = "check"
    /\ wpc' = [wpc EXCEPT ![w] = IF token[w] \/ hand[w] = None THEN "exited" ELSE "call"]
    /\ UNCHANGED <<queueVars, submitted, executed, hand, closeVars, synchVars>>

WorkerCalls(w) ==
    /\ wpc[w] = "call"
    /\ executed' = executed \cup {hand[w]}
    /\ hand' = [hand EXCEPT ![w] = None]
    /\ wpc' = [wpc EXCEPT ![w] = "pop"]
    /\ UNCHANGED <<queueVars, submitted, closeVars, synchVars>>

\* A condition variable wakes nobody on its own account for ever.
WorkerSteps(w) ==
    WorkerSleeps(w) \/ WorkerPops(w) \/ WorkerChecks(w) \/ WorkerCalls(w)

------------------------------------------------------------------------------
(* The threads of the core.                                                 *)

Serving == closer = "serving"

\* Execute, AsyncQuery, DelayQueryHolder, CommitTransaction.
Enqueue(t) ==
    /\ Serving /\ tpc[t] = "idle" /\ submitted < MaxOps
    /\ submitted' = submitted + 1
    /\ Push(submitted')
    /\ UNCHANGED <<workerVars, closeVars, synchVars>>

\* DirectExecute, Query, DirectCommitTransaction: "uint8 i = 0".
CallSynch(t) ==
    /\ Serving /\ tpc[t] = "idle"
    /\ tpc' = [tpc EXCEPT ![t] = "spin"] /\ index' = [index EXCEPT ![t] = 0]
    /\ UNCHANGED <<queueVars, submitted, workerVars, closeVars, locked>>

\* One round of GetFreeConnection: "_connections[++i % num_cons]" (the wrap of
\* the uint8 i only makes it look at a connection again).
TryNext(t) ==
    /\ tpc[t] = "spin"
    /\ LET c == (index[t] + 1) % NumConnections IN
       /\ index' = [index EXCEPT ![t] = c]
       /\ \/ c \in locked /\ UNCHANGED <<tpc, locked>>
          \/ /\ c \notin locked
             /\ locked' = locked \cup {c} /\ tpc' = [tpc EXCEPT ![t] = "use"]
    /\ UNCHANGED <<queueVars, submitted, workerVars, closeVars>>

\* The query is answered and the caller unlocks the connection.
FinishSynch(t) ==
    /\ tpc[t] = "use"
    /\ locked' = locked \ {index[t]} /\ tpc' = [tpc EXCEPT ![t] = "idle"]
    /\ UNCHANGED <<queueVars, submitted, workerVars, closeVars, index>>

KeepAlive(t) ==
    /\ Serving /\ tpc[t] = "idle" /\ submitted + NumWorkers <= MaxOps
    /\ tpc' = [tpc EXCEPT ![t] = "keepalive"] /\ index' = [index EXCEPT ![t] = 0]
    /\ UNCHANGED <<queueVars, submitted, workerVars, closeVars, locked>>

\* The next connection of KeepAlive's loop, or the pings after the last.
KeepAliveAdvances(t) ==
    IF index[t] + 1 < NumConnections
    THEN tpc' = [tpc EXCEPT ![t] = "keepalive"] /\ index' = [index EXCEPT ![t] = @ + 1]
    ELSE tpc' = [tpc EXCEPT ![t] = "ping"] /\ index' = [index EXCEPT ![t] = 0]

\* A synchronous connection that is in use needs no ping.
PingSynch(t) ==
    /\ tpc[t] = "keepalive"
    /\ IF index[t] \in locked
       THEN KeepAliveAdvances(t) /\ UNCHANGED locked
       ELSE /\ locked' = locked \cup {index[t]}
            /\ tpc' = [tpc EXCEPT ![t] = "pinging"] /\ UNCHANGED index
    /\ UNCHANGED <<queueVars, submitted, workerVars, closeVars>>

\* Faulty variant: KeepAlive goes on without Unlock.
PongKeepsLock(t) ==
    /\ tpc[t] = "pinging"
    /\ KeepAliveAdvances(t)
    /\ UNCHANGED <<queueVars, submitted, workerVars, closeVars, locked>>

PongSynch(t) ==
    /\ tpc[t] = "pinging"
    /\ locked' = locked \ {index[t]}
    /\ KeepAliveAdvances(t)
    /\ UNCHANGED <<queueVars, submitted, workerVars, closeVars>>

\* One PingOperation for each asynchronous connection.
PingAsync(t) ==
    /\ tpc[t] = "ping" /\ submitted < MaxOps
    /\ submitted' = submitted + 1
    /\ Push(submitted')
    /\ IF index[t] + 1 < NumWorkers
       THEN index' = [index EXCEPT ![t] = @ + 1] /\ UNCHANGED tpc
       ELSE tpc' = [tpc EXCEPT ![t] = "idle"] /\ index' = [index EXCEPT ![t] = 0]
    /\ UNCHANGED <<workerVars, closeVars, locked>>

ThreadSteps(t) ==
    TryNext(t) \/ FinishSynch(t) \/ PingSynch(t) \/ PongSynch(t) \/ PingAsync(t)

------------------------------------------------------------------------------
(* Close, called when no other thread of the core is left: every            *)
(* asynchronous connection is deleted, which stops its worker first.        *)

StartClose ==
    /\ Serving /\ \A t \in Threads : tpc[t] = "idle"
    /\ closer' = "token"
    /\ UNCHANGED <<queueVars, submitted, workerVars, token, open, current, synchVars>>

\* ~DatabaseWorker: "_cancelationToken = true;"
SetToken ==
    /\ closer = "token"
    /\ token' = [token EXCEPT ![current] = TRUE] /\ closer' = "cancel"
    /\ UNCHANGED <<queueVars, submitted, workerVars, open, current, synchVars>>

\* ~DatabaseWorker: "_queue->Cancel();" deletes what is queued.
CancelQueue ==
    /\ closer = "cancel"
    /\ Cancel
    /\ closer' = "join"
    /\ UNCHANGED <<submitted, workerVars, token, open, current, synchVars>>

\* ~DatabaseWorker: "_workerThread.join();", then the connection is gone.  The
\* synchronous connections, deleted last, are out of use.
JoinAndDelete ==
    /\ closer = "join" /\ wpc[current] = "exited"
    /\ open' = open \ {current}
    /\ IF current < NumWorkers
       THEN current' = current + 1 /\ closer' = "token"
       ELSE closer' = "closed" /\ UNCHANGED current
    /\ UNCHANGED <<queueVars, submitted, workerVars, token, synchVars>>

CloseSteps == SetToken \/ CancelQueue \/ JoinAndDelete

Next ==
    \/ \E w \in Workers : WorkerSteps(w) \/ WorkerSpuriousWake(w)
    \/ \E t \in Threads : Enqueue(t) \/ CallSynch(t) \/ KeepAlive(t) \/ ThreadSteps(t)
    \/ StartClose \/ CloseSteps

Spec == Init /\ [][Next]_vars

\* Every thread runs; nobody has to make a call, and the server may run on.
FairSpec ==
    /\ Spec
    /\ \A w \in Workers : WF_vars(WorkerSteps(w))
    /\ \A t \in Threads : WF_vars(ThreadSteps(t))
    /\ WF_vars(CloseSteps)

------------------------------------------------------------------------------
(* Properties.                                                              *)

Queued == {items[i] : i \in DOMAIN items}
Held == {hand[w] : w \in Workers} \ {None}

TypeOK ==
    /\ items \in Seq(1..submitted) /\ shutdown \in BOOLEAN /\ sleeping \subseteq Workers
    /\ submitted \in 0..MaxOps /\ executed \subseteq 1..submitted
    /\ wpc \in [Workers -> {"pop", "check", "call", "exited"}]
    /\ hand \in [Workers -> 0..submitted]
    /\ token \in [Workers -> BOOLEAN] /\ open \subseteq Workers
    /\ closer \in {"serving", "token", "cancel", "join", "closed"}
    /\ current \in Workers
    /\ tpc \in [Threads -> {"idle", "spin", "use", "keepalive", "pinging", "ping"}]
    /\ index \in [Threads -> 0..(NumConnections + NumWorkers)]
    /\ locked \subseteq Connections

\* An operation is in one place only, so that none is executed or deleted
\* twice; and until the pool closes every operation is somewhere.
EachOperationOnce ==
    /\ TypeOK
    /\ Queued \cap Held = {} /\ (Queued \cup Held) \cap executed = {}
    /\ Cardinality(Queued) = Len(items)
    /\ \A v, w \in Workers : v # w /\ hand[v] # None => hand[v] # hand[w]
    /\ Serving => Queued \cup Held \cup executed = 1..submitted

\* A synchronous connection is never handed to two threads, and its mutex is
\* held exactly while one uses it ("or you will get deadlocks"); a worker's
\* connection is there as long as the worker is.
ConnectionsAreOwned ==
    /\ \A c \in Connections :
        /\ Cardinality({t \in Threads : tpc[t] \in {"use", "pinging"} /\ index[t] = c}) <= 1
        /\ (c \in locked) <=> (\E t \in Threads : tpc[t] \in {"use", "pinging"}
                                                  /\ index[t] = c)
    /\ \A w \in Workers : wpc[w] # "exited" => w \in open

\* The pool does what AsyncOperations promises.
Promise == INSTANCE AsyncOperations WITH Lanes <- NumWorkers, closing <- ~Serving
ImplementsAsyncOperations == Promise!Spec

\* No wake-up is lost: what is enqueued is executed unless the pool is closed,
\* and Close returns, as every worker hears of it, asleep or not.
WorkersAreWoken ==
    /\ \A k \in 1..MaxOps : submitted >= k ~> (k \in executed \/ ~Serving)
    /\ closer = "token" ~> closer = "closed"
==============================================================================

---------------------------- MODULE DatabaseProofs -----------------------------
(***************************************************************************)
(* shared/Database.  The pool for every number of workers, connections,    *)
(* threads and operations; then one operation on its connection: the order *)
(* in which statements take effect, and that a transaction is atomic, for  *)
(* every number and size of transactions and every number of lost          *)
(* connections.                                                            *)
(***************************************************************************)
EXTENDS DatabaseWorkerPool, TransactionTask, FiniteSetTheorems, TLAPS

Uses(t) == tpc[t] \in {"use", "pinging"}

\* Where a worker holds an operation.
HandShape ==
    \A w \in Workers : (wpc[w] = "pop" => hand[w] = None) /\ (wpc[w] = "call" => hand[w] # None)

\* The queue is first in, first out: what was taken from it are the first n
\* operations, and until Cancel the others wait in order.
Fifo ==
    \E n \in 0..submitted :
        /\ executed \cup Held = 1..n
        /\ \/ shutdown /\ items = <<>>
           \/ Len(items) = submitted - n /\ \A i \in 1..Len(items) : items[i] = n + i

OneHand ==
    /\ executed \cap Held = {}
    /\ \A v, w \in Workers : (v # w /\ hand[v] # None) => hand[v] # hand[w]

\* Close begins when no thread is inside a call, and cancels the queue later.
CloseShape == IF Serving THEN ~shutdown ELSE \A t \in Threads : tpc[t] = "idle"

\* Where a thread is in the arrays of connections.
IndexShape ==
    \A t \in Threads :
        /\ tpc[t] \in {"keepalive", "use", "pinging"} => index[t] \in Connections
        /\ tpc[t] = "ping" => index[t] \in 0..(NumWorkers - 1)

\* The mutexes and those who hold them.
LocksShape ==
    /\ \A t \in Threads : Uses(t) => index[t] \in locked
    /\ \A c \in locked : \E t \in Threads : Uses(t) /\ index[t] = c
    /\ \A s, t \in Threads : (Uses(s) /\ Uses(t) /\ s # t) => index[s] # index[t]

WorkersHaveConnections == \A w \in Workers : wpc[w] # "exited" => w \in open

QueueInv == HandShape /\ Fifo /\ OneHand /\ CloseShape
IInv == TypeOK /\ QueueInv /\ IndexShape /\ LocksShape /\ WorkersHaveConnections

------------------------------------------------------------------------------

LEMMA IInvInit == Init => IInv
<1> SUFFICES ASSUME Init PROVE IInv
  OBVIOUS
<1>1. TypeOK
  <2>1. items \in Seq(1..submitted) /\ sleeping \subseteq Workers /\ shutdown \in BOOLEAN
    <3>1. \A S : <<>> \in Seq(S)
      OBVIOUS
    <3>2. QED
      BY <3>1 DEF Init, QueueInit
  <2>2. submitted \in 0..MaxOps /\ executed \subseteq 1..submitted /\ current \in Workers
    BY PoolAssumption DEF Init, Workers
  <2>3. hand \in [Workers -> 0..submitted] /\ wpc \in [Workers -> {"pop", "check", "call", "exited"}]
    BY DEF Init, None
  <2>4. 0 \in 0..(NumConnections + NumWorkers)
    BY PoolAssumption
  <2>5. index \in [Threads -> 0..(NumConnections + NumWorkers)]
    BY <2>4 DEF Init
  <2>6. QED
    BY <2>1, <2>2, <2>3, <2>5 DEF Init, TypeOK
<1>2. Held = {}
  BY DEF Init, Held
<1>3. Fifo
  <2>1. executed \cup Held = 1..0 /\ Len(items) = 0 /\ ~shutdown /\ submitted = 0
    BY <1>2 DEF Init, QueueInit
  <2>2. 0 \in 0..submitted /\ Len(items) = submitted - 0 /\ \A i \in 1..Len(items) : items[i] = 0 + i
    BY <2>1
  <2>3. \E n \in 0..submitted :
            /\ executed \cup Held = 1..n
            /\ Len(items) = submitted - n /\ \A i \in 1..Len(items) : items[i] = n + i
    BY <2>1, <2>2, Zenon
  <2>4. QED
    BY <2>3 DEF Fifo
<1>4. HandShape /\ OneHand /\ CloseShape
  BY <1>2 DEF Init, QueueInit, HandShape, OneHand, CloseShape, Serving, None
<1>5. IndexShape /\ LocksShape /\ WorkersHaveConnections
  BY DEF Init, IndexShape, LocksShape, Uses, WorkersHaveConnections
<1>6. QED
  BY <1>1, <1>3, <1>4, <1>5 DEF IInv, QueueInv

\* A call that appends an operation to the queue.
LEMMA PushStep ==
    ASSUME TypeOK, QueueInv, Serving, submitted < MaxOps, submitted' = submitted + 1,
           Push(submitted'), UNCHANGED workerVars, UNCHANGED closeVars
    PROVE  /\ HandShape' /\ Fifo' /\ OneHand'
           /\ items' \in Seq(1..submitted') /\ submitted' \in 0..MaxOps /\ executed' \subseteq 1..submitted'
           /\ hand' \in [Workers -> 0..submitted'] /\ sleeping' \subseteq Workers
           /\ shutdown' = shutdown /\ ~shutdown
<1>1. /\ items' = Append(items, submitted + 1) /\ shutdown' = shutdown /\ ~shutdown /\ submitted \in Nat
      /\ UNCHANGED <<executed, wpc, hand>> /\ items \in Seq(1..submitted)
  BY PoolAssumption DEF Push, QueueInv, CloseShape, workerVars, TypeOK
<1>2. /\ items' \in Seq(1..(submitted + 1)) /\ Len(items') = Len(items) + 1
      /\ items'[Len(items) + 1] = submitted + 1
      /\ \A i \in 1..Len(items) : items'[i] = items[i]
  <2>1. items \in Seq(1..(submitted + 1)) /\ submitted + 1 \in 1..(submitted + 1)
    BY <1>1
  <2>2. QED
    BY <1>1, <2>1
<1>3. Held' = Held
  BY <1>1 DEF Held
<1>4. Fifo'
  <2>1. PICK n \in 0..submitted : /\ executed \cup Held = 1..n /\ Len(items) = submitted - n
                                  /\ \A i \in 1..Len(items) : items[i] = n + i
    BY <1>1 DEF QueueInv, Fifo
  <2>2. n \in 0..submitted' /\ executed' \cup Held' = 1..n
    BY <1>1, <1>3, <2>1
  <2>3. Len(items') = submitted' - n
    BY <1>1, <1>2, <2>1
  <2>4. ASSUME NEW i \in 1..Len(items') PROVE items'[i] = n + i
    <3>1. CASE i = Len(items) + 1
      BY <1>1, <1>2, <2>1, <3>1
    <3>2. CASE i # Len(items) + 1
      <4>1. i \in 1..Len(items)
        BY <1>1, <1>2, <3>2
      <4>2. QED
        BY <1>2, <2>1, <4>1
    <3>3. QED
      BY <3>1, <3>2
  <2>5. QED
    BY <1>1, <2>2, <2>3, <2>4 DEF Fifo
<1>5. HandShape' /\ OneHand'
  BY <1>1, <1>3 DEF QueueInv, HandShape, OneHand
<1>6. executed' \subseteq 1..submitted' /\ hand' \in [Workers -> 0..submitted'] /\ submitted' \in 0..MaxOps
  BY <1>1, PoolAssumption DEF TypeOK
<1>7. sleeping' \subseteq Workers
  BY DEF Push, NotifyOne, TypeOK
<1>8. QED
  BY <1>1, <1>2, <1>4, <1>5, <1>6, <1>7

LEMMA EnqueueStep == ASSUME IInv, NEW t \in Threads, Enqueue(t) PROVE IInv'
<1>1. /\ Serving /\ submitted < MaxOps /\ submitted' = submitted + 1 /\ Push(submitted')
      /\ UNCHANGED workerVars /\ UNCHANGED closeVars /\ UNCHANGED synchVars
  BY DEF Enqueue
<1>2. /\ HandShape' /\ Fifo' /\ OneHand'
      /\ items' \in Seq(1..submitted') /\ submitted' \in 0..MaxOps /\ executed' \subseteq 1..submitted'
      /\ hand' \in [Workers -> 0..submitted'] /\ sleeping' \subseteq Workers
      /\ shutdown' = shutdown /\ ~shutdown
  BY <1>1, PushStep DEF IInv
<1>3. TypeOK'
  BY <1>1, <1>2 DEF IInv, TypeOK, workerVars, closeVars, synchVars
<1>4. CloseShape' /\ IndexShape' /\ LocksShape' /\ WorkersHaveConnections'
  BY <1>1, <1>2 DEF IInv, QueueInv, CloseShape, Serving, IndexShape, LocksShape, Uses,
                    WorkersHaveConnections, workerVars, closeVars, synchVars
<1>5. QED
  BY <1>2, <1>3, <1>4 DEF IInv, QueueInv

LEMMA PingAsyncStep == ASSUME IInv, NEW t \in Threads, PingAsync(t) PROVE IInv'
<1>1. /\ tpc[t] = "ping" /\ Serving /\ submitted < MaxOps /\ submitted' = submitted + 1 /\ Push(submitted')
      /\ UNCHANGED workerVars /\ UNCHANGED closeVars /\ UNCHANGED locked
      /\ index[t] \in 0..(NumWorkers - 1)
  BY DEF PingAsync, IInv, QueueInv, CloseShape, IndexShape
<1>2. /\ HandShape' /\ Fifo' /\ OneHand'
      /\ items' \in Seq(1..submitted') /\ submitted' \in 0..MaxOps /\ executed' \subseteq 1..submitted'
      /\ hand' \in [Workers -> 0..submitted'] /\ sleeping' \subseteq Workers
      /\ shutdown' = shutdown /\ ~shutdown
  BY <1>1, PushStep DEF IInv
<1>3. \/ index' = [index EXCEPT ![t] = @ + 1] /\ UNCHANGED tpc /\ index[t] + 1 \in 0..(NumWorkers - 1)
      \/ index' = [index EXCEPT ![t] = 0] /\ tpc' = [tpc EXCEPT ![t] = "idle"]
  BY <1>1, PoolAssumption DEF PingAsync
<1>4. /\ tpc' \in [Threads -> {"idle", "spin", "use", "keepalive", "pinging", "ping"}]
      /\ index' \in [Threads -> 0..(NumConnections + NumWorkers)]
  <2>1. index[t] + 1 \in 0..(NumWorkers - 1) => index[t] + 1 \in 0..(NumConnections + NumWorkers)
    BY PoolAssumption
  <2>2. 0 \in 0..(NumConnections + NumWorkers)
    BY PoolAssumption
  <2>3. QED
    BY <1>3, <2>1, <2>2 DEF IInv, TypeOK
<1>5. TypeOK'
  BY <1>1, <1>2, <1>4 DEF IInv, TypeOK, workerVars, closeVars
<1>6. ~Uses(t) /\ ~Uses(t)' /\ \A s \in Threads \ {t} : tpc'[s] = tpc[s] /\ index'[s] = index[s]
  BY <1>1, <1>3 DEF IInv, TypeOK, Uses
<1>7. LocksShape'
  BY <1>1, <1>6 DEF IInv, LocksShape, Uses
<1>8. IndexShape'
  BY <1>1, <1>3, <1>6 DEF IInv, TypeOK, IndexShape
<1>9. CloseShape' /\ WorkersHaveConnections'
  BY <1>1, <1>2 DEF IInv, CloseShape, Serving, WorkersHaveConnections, workerVars, closeVars
<1>10. QED
  BY <1>2, <1>5, <1>7, <1>8, <1>9 DEF IInv, QueueInv

------------------------------------------------------------------------------
(* The worker threads.                                                      *)

LEMMA SleepStep ==
    ASSUME IInv, NEW w \in Workers, WorkerSleeps(w) \/ WorkerSpuriousWake(w)
    PROVE  IInv'
<1>1. /\ UNCHANGED <<items, shutdown, submitted, workerVars, closeVars, synchVars>>
      /\ sleeping' \subseteq Workers
  BY DEF WorkerSleeps, WorkerSpuriousWake, Sleep, SpuriousWake, IInv, TypeOK
<1>2. Held' = Held
  BY <1>1 DEF Held, workerVars
<1>3. QED
  BY <1>1, <1>2 DEF IInv, TypeOK, QueueInv, HandShape, Fifo, OneHand, CloseShape, Serving, IndexShape,
                    LocksShape, Uses, WorkersHaveConnections, workerVars, closeVars, synchVars

\* The operation taken is the first one not taken before.
LEMMA PopStep == ASSUME IInv, NEW w \in Workers, WorkerPops(w) PROVE IInv'
<1>1. /\ wpc[w] = "pop" /\ hand[w] = None /\ wpc' = [wpc EXCEPT ![w] = "check"]
      /\ UNCHANGED <<shutdown, sleeping, submitted, executed, closeVars, synchVars>>
  BY DEF WorkerPops, IInv, QueueInv, HandShape, Take, GiveUp, queueVars
<1>2. IndexShape' /\ LocksShape' /\ CloseShape' /\ WorkersHaveConnections'
  BY <1>1 DEF IInv, TypeOK, QueueInv, IndexShape, LocksShape, Uses, CloseShape, Serving,
              WorkersHaveConnections, closeVars, synchVars
<1>3. CASE GiveUp /\ UNCHANGED hand
  <2>1. UNCHANGED <<items, hand>> /\ Held' = Held
    BY <1>3 DEF GiveUp, queueVars, Held
  <2>2. HandShape' /\ Fifo' /\ OneHand'
    BY <1>1, <2>1 DEF IInv, TypeOK, QueueInv, HandShape, Fifo, OneHand
  <2>3. TypeOK'
    BY <1>1, <2>1 DEF IInv, TypeOK, closeVars, synchVars
  <2>4. QED
    BY <1>2, <2>2, <2>3 DEF IInv, QueueInv
<1>4. CASE Take /\ hand' = [hand EXCEPT ![w] = Head(items)]
  <2>1. items # <<>> /\ ~shutdown /\ items' = Tail(items) /\ items \in Seq(1..submitted) /\ submitted \in Nat
    BY <1>4, PoolAssumption DEF Take, IInv, TypeOK
  <2>2. /\ Len(items) \in Nat \ {0} /\ Head(items) = items[1] /\ Head(items) \in 1..submitted
        /\ Len(items') = Len(items) - 1 /\ items' \in Seq(1..submitted)
        /\ \A i \in 1..Len(items') : items'[i] = items[i + 1]
    BY <2>1
  <2>3. PICK n \in 0..submitted : /\ executed \cup Held = 1..n /\ Len(items) = submitted - n
                                  /\ \A i \in 1..Len(items) : items[i] = n + i
    BY <2>1 DEF IInv, QueueInv, Fifo
  <2>4. Head(items) = n + 1 /\ n + 1 \in 1..submitted
    BY <2>1, <2>2, <2>3
  <2>5. hand \in [Workers -> 0..submitted] /\ hand' = [hand EXCEPT ![w] = n + 1]
    BY <1>4, <2>4 DEF IInv, TypeOK
  <2>6. Held' = Held \cup {n + 1}
    <3>1. n + 1 # None
      BY <2>4 DEF None
    <3>2. hand'[w] = n + 1 /\ \A v \in Workers \ {w} : hand'[v] = hand[v]
      BY <2>5
    <3>3. QED
      BY <1>1, <3>1, <3>2 DEF Held
  <2>7. Fifo'
    <3>1. executed' \cup Held' = 1..(n + 1)
      BY <1>1, <2>3, <2>6
    <3>2. Len(items') = submitted' - (n + 1)
      BY <1>1, <2>1, <2>2, <2>3
    <3>3. \A i \in 1..Len(items') : items'[i] = (n + 1) + i
      BY <2>1, <2>2, <2>3
    <3>4. n + 1 \in 0..submitted'
      BY <1>1, <2>4
    <3>5. \E m \in 0..submitted' :
              /\ executed' \cup Held' = 1..m
              /\ Len(items') = submitted' - m /\ \A i \in 1..Len(items') : items'[i] = m + i
      BY <3>1, <3>2, <3>3, <3>4, Zenon
    <3>6. QED
      BY <3>5 DEF Fifo
  <2>8. OneHand'
    <3>1. n + 1 \notin executed \cup Held
      BY <2>3
    <3>2. \A v \in Workers : hand[v] # n + 1
      BY <3>1, <2>4 DEF Held, None
    <3>3. executed' \cap Held' = {}
      BY <1>1, <2>6, <3>1 DEF IInv, QueueInv, OneHand
    <3>4. QED
      BY <2>5, <3>2, <3>3 DEF IInv, QueueInv, OneHand
  <2>9. HandShape'
    BY <1>1, <2>5 DEF IInv, TypeOK, QueueInv, HandShape
  <2>10. hand' \in [Workers -> 0..submitted']
    BY <1>1, <2>1, <2>4, <2>5
  <2>11. TypeOK'
    BY <1>1, <2>2, <2>10 DEF IInv, TypeOK, closeVars, synchVars
  <2>12. QED
    BY <1>2, <2>7, <2>8, <2>9, <2>11 DEF IInv, QueueInv
<1>5. QED
  BY <1>3, <1>4 DEF WorkerPops

LEMMA CheckStep == ASSUME IInv, NEW w \in Workers, WorkerChecks(w) PROVE IInv'
<1>1. /\ UNCHANGED <<queueVars, submitted, executed, hand, closeVars, synchVars>>
      /\ wpc' = [wpc EXCEPT ![w] = IF token[w] \/ hand[w] = None THEN "exited" ELSE "call"]
      /\ wpc[w] = "check" /\ Held' = Held
  BY DEF WorkerChecks, Held
<1>2. TypeOK' /\ HandShape' /\ WorkersHaveConnections'
  BY <1>1 DEF IInv, TypeOK, QueueInv, HandShape, WorkersHaveConnections, queueVars, closeVars, synchVars
<1>3. Fifo' /\ OneHand' /\ CloseShape' /\ IndexShape' /\ LocksShape'
  BY <1>1 DEF IInv, QueueInv, Fifo, OneHand, CloseShape, Serving, IndexShape, LocksShape, Uses,
              queueVars, closeVars, synchVars
<1>4. QED
  BY <1>2, <1>3 DEF IInv, QueueInv

LEMMA CallStep == ASSUME IInv, NEW w \in Workers, WorkerCalls(w) PROVE IInv'
<1>1. /\ UNCHANGED <<queueVars, submitted, closeVars, synchVars>>
      /\ executed' = executed \cup {hand[w]} /\ hand' = [hand EXCEPT ![w] = None]
      /\ wpc' = [wpc EXCEPT ![w] = "pop"] /\ wpc[w] = "call" /\ hand[w] # None
  BY DEF WorkerCalls, IInv, QueueInv, HandShape
<1>2. hand \in [Workers -> 0..submitted] /\ hand[w] \in Held /\ hand[w] \in 1..submitted /\ submitted \in Nat
  BY <1>1, PoolAssumption DEF IInv, TypeOK, Held, None
<1>3. Held' = Held \ {hand[w]}
  <2>1. hand'[w] = None /\ \A v \in Workers \ {w} : hand'[v] = hand[v]
    BY <1>1, <1>2
  <2>2. \A v \in Workers \ {w} : hand[v] # hand[w]
    BY <1>1 DEF IInv, QueueInv, OneHand
  <2>3. QED
    BY <1>1, <2>1, <2>2 DEF Held
<1>4. executed' \cup Held' = executed \cup Held
  BY <1>1, <1>2, <1>3
<1>5. Fifo'
  BY <1>1, <1>4 DEF IInv, QueueInv, Fifo, queueVars
<1>6. OneHand'
  BY <1>1, <1>2, <1>3 DEF IInv, QueueInv, OneHand
<1>7. HandShape' /\ WorkersHaveConnections'
  BY <1>1, <1>2 DEF IInv, TypeOK, QueueInv, HandShape, WorkersHaveConnections, closeVars
<1>8. CloseShape' /\ IndexShape' /\ LocksShape'
  BY <1>1 DEF IInv, QueueInv, CloseShape, Serving, IndexShape, LocksShape, Uses, queueVars, closeVars, synchVars
<1>9. hand' \in [Workers -> 0..submitted'] /\ executed' \subseteq 1..submitted'
  <2>1. None \in 0..submitted /\ submitted' = submitted /\ executed \subseteq 1..submitted
    BY <1>1, <1>2 DEF IInv, TypeOK, None
  <2>2. QED
    BY <1>1, <1>2, <2>1
<1>10. TypeOK'
  BY <1>1, <1>9 DEF IInv, TypeOK, queueVars, closeVars, synchVars
<1>11. QED
  BY <1>5, <1>6, <1>7, <1>8, <1>10 DEF IInv, QueueInv

------------------------------------------------------------------------------
(* The threads of the core and their connections.                           *)

\* A step of one thread inside a synchronous call leaves the queue alone.
LEMMA SynchStep ==
    ASSUME IInv, Serving, UNCHANGED <<queueVars, submitted, workerVars, closeVars>>,
           TypeOK', IndexShape', LocksShape'
    PROVE  IInv'
<1>1. Held' = Held
  BY DEF Held, workerVars
<1>2. HandShape' /\ Fifo' /\ OneHand' /\ CloseShape' /\ WorkersHaveConnections'
  BY <1>1 DEF IInv, QueueInv, HandShape, Fifo, OneHand, CloseShape, Serving, WorkersHaveConnections,
              queueVars, workerVars, closeVars
<1>3. QED
  BY <1>2 DEF IInv, QueueInv

\* A thread that neither uses a connection before nor after the step.
LEMMA IdleStep ==
    ASSUME IInv, Serving, UNCHANGED <<queueVars, submitted, workerVars, closeVars, locked>>,
           NEW t \in Threads, ~Uses(t), NEW place \in {"idle", "spin", "keepalive", "ping"},
           NEW i \in 0..(NumConnections + NumWorkers),
           tpc' = [tpc EXCEPT ![t] = place], index' = [index EXCEPT ![t] = i],
           place = "keepalive" => i \in Connections, place = "ping" => i \in 0..(NumWorkers - 1)
    PROVE  IInv'
<1>1. TypeOK'
  BY DEF IInv, TypeOK, queueVars, workerVars, closeVars
<1>2. \A s \in Threads \ {t} : tpc'[s] = tpc[s] /\ index'[s] = index[s]
  BY DEF IInv, TypeOK
<1>3. tpc'[t] = place /\ index'[t] = i
  BY DEF IInv, TypeOK
<1>4. IndexShape'
  BY <1>2, <1>3 DEF IInv, IndexShape
<1>5. LocksShape'
  BY <1>2, <1>3 DEF IInv, LocksShape, Uses
<1>6. QED
  BY <1>1, <1>4, <1>5, SynchStep

\* A thread locks a connection that nobody holds.
LEMMA LockStep ==
    ASSUME IInv, Serving, UNCHANGED <<queueVars, submitted, workerVars, closeVars>>,
           NEW t \in Threads, ~Uses(t), NEW place \in {"use", "pinging"},
           NEW c \in Connections, c \notin locked, locked' = locked \cup {c},
           tpc' = [tpc EXCEPT ![t] = place], index' = [index EXCEPT ![t] = c]
    PROVE  IInv'
<1>1. c \in 0..(NumConnections + NumWorkers)
  BY PoolAssumption DEF Connections
<1>2. TypeOK'
  BY <1>1 DEF IInv, TypeOK, queueVars, workerVars, closeVars
<1>3. \A s \in Threads \ {t} : tpc'[s] = tpc[s] /\ index'[s] = index[s]
  BY DEF IInv, TypeOK
<1>4. tpc'[t] = place /\ index'[t] = c
  BY <1>1 DEF IInv, TypeOK
<1>5. IndexShape'
  BY <1>3, <1>4 DEF IInv, IndexShape
<1>6. LocksShape'
  BY <1>3, <1>4 DEF IInv, LocksShape, Uses
<1>7. QED
  BY <1>2, <1>5, <1>6, SynchStep

\* A thread gives back the connection it holds.
LEMMA UnlockStep ==
    ASSUME IInv, Serving, UNCHANGED <<queueVars, submitted, workerVars, closeVars>>,
           NEW t \in Threads, Uses(t), locked' = locked \ {index[t]},
           NEW place \in {"idle", "keepalive", "ping"}, NEW i \in 0..(NumConnections + NumWorkers),
           tpc' = [tpc EXCEPT ![t] = place], index' = [index EXCEPT ![t] = i],
           place = "keepalive" => i \in Connections, place = "ping" => i \in 0..(NumWorkers - 1)
    PROVE  IInv'
<1>1. TypeOK'
  BY DEF IInv, TypeOK, queueVars, workerVars, closeVars
<1>2. \A s \in Threads \ {t} : tpc'[s] = tpc[s] /\ index'[s] = index[s]
  BY DEF IInv, TypeOK
<1>3. tpc'[t] = place /\ index'[t] = i
  BY DEF IInv, TypeOK
<1>4. IndexShape'
  BY <1>2, <1>3 DEF IInv, IndexShape
<1>5. LocksShape'
  BY <1>2, <1>3 DEF IInv, LocksShape, Uses
<1>6. QED
  BY <1>1, <1>4, <1>5, SynchStep

\* KeepAlive goes to a connection that is there.
LEMMA AdvanceStep ==
    ASSUME IInv, NEW t \in Threads, tpc[t] \in {"keepalive", "pinging"}, KeepAliveAdvances(t)
    PROVE  \E place \in {"keepalive", "ping"}, i \in 0..(NumConnections + NumWorkers) :
              /\ tpc' = [tpc EXCEPT ![t] = place] /\ index' = [index EXCEPT ![t] = i]
              /\ place = "keepalive" => i \in Connections
              /\ place = "ping" => i \in 0..(NumWorkers - 1)
<1>1. index[t] \in 0..(NumConnections - 1) /\ index \in [Threads -> 0..(NumConnections + NumWorkers)]
  BY DEF IInv, TypeOK, IndexShape, Connections
<1>2. CASE index[t] + 1 < NumConnections
  <2>1. /\ tpc' = [tpc EXCEPT ![t] = "keepalive"] /\ index' = [index EXCEPT ![t] = index[t] + 1]
        /\ index[t] + 1 \in Connections /\ index[t] + 1 \in 0..(NumConnections + NumWorkers)
    BY <1>1, <1>2, PoolAssumption DEF KeepAliveAdvances, Connections
  <2>2. QED
    BY <2>1
<1>3. CASE ~(index[t] + 1 < NumConnections)
  <2>1. /\ tpc' = [tpc EXCEPT ![t] = "ping"] /\ index' = [index EXCEPT ![t] = 0]
        /\ 0 \in 0..(NumWorkers - 1) /\ 0 \in 0..(NumConnections + NumWorkers)
    BY <1>3, PoolAssumption DEF KeepAliveAdvances
  <2>2. QED
    BY <2>1
<1>4. QED
  BY <1>2, <1>3

LEMMA ThreadStep ==
    ASSUME IInv, NEW t \in Threads,
           CallSynch(t) \/ KeepAlive(t) \/ TryNext(t) \/ FinishSynch(t) \/ PingSynch(t) \/ PongSynch(t)
    PROVE  IInv'
<1>1. 0 \in 0..(NumConnections + NumWorkers) /\ 0 \in Connections
  BY PoolAssumption DEF Connections
<1>2. tpc[t] # "idle" => Serving
  BY DEF IInv, QueueInv, CloseShape
<1>3. CASE CallSynch(t)
  BY <1>1, <1>3, IdleStep DEF CallSynch, Uses, closeVars
<1>4. CASE KeepAlive(t)
  BY <1>1, <1>4, IdleStep DEF KeepAlive, Uses
<1>5. CASE TryNext(t)
  <2> DEFINE c == (index[t] + 1) % NumConnections
  <2>1. c \in Connections /\ c \in 0..(NumConnections + NumWorkers)
    <3>1. index[t] \in Nat
      BY DEF IInv, TypeOK
    <3>2. c \in 0..(NumConnections - 1)
      BY <3>1, PoolAssumption
    <3>3. QED
      BY <3>2, PoolAssumption DEF Connections
  <2>2. tpc[t] = "spin" /\ ~Uses(t) /\ Serving /\ index' = [index EXCEPT ![t] = c]
    BY <1>2, <1>5 DEF TryNext, Uses
  <2>3. CASE c \in locked /\ UNCHANGED <<tpc, locked>>
    <3>1. tpc' = [tpc EXCEPT ![t] = "spin"]
      BY <2>2, <2>3 DEF IInv, TypeOK
    <3>2. QED
      BY <1>5, <2>1, <2>2, <2>3, <3>1, IdleStep DEF TryNext
  <2>4. CASE c \notin locked /\ locked' = locked \cup {c} /\ tpc' = [tpc EXCEPT ![t] = "use"]
    BY <1>5, <2>1, <2>2, <2>4, LockStep DEF TryNext
  <2>5. QED
    BY <1>5, <2>3, <2>4 DEF TryNext
<1>6. CASE FinishSynch(t)
  <2>1. index' = [index EXCEPT ![t] = index[t]] /\ index[t] \in 0..(NumConnections + NumWorkers)
    BY <1>6 DEF FinishSynch, IInv, TypeOK
  <2>2. Uses(t) /\ Serving
    BY <1>2, <1>6 DEF FinishSynch, Uses
  <2>3. QED
    BY <1>6, <2>1, <2>2, UnlockStep DEF FinishSynch
<1>7. CASE PingSynch(t)
  <2>1. tpc[t] = "keepalive" /\ ~Uses(t) /\ Serving /\ index[t] \in Connections
    BY <1>2, <1>7 DEF PingSynch, Uses, IInv, IndexShape
  <2>2. CASE index[t] \in locked /\ KeepAliveAdvances(t) /\ UNCHANGED locked
    BY <1>7, <2>1, <2>2, AdvanceStep, IdleStep DEF PingSynch
  <2>3. CASE /\ index[t] \notin locked /\ locked' = locked \cup {index[t]}
             /\ tpc' = [tpc EXCEPT ![t] = "pinging"] /\ UNCHANGED index
    <3>1. index' = [index EXCEPT ![t] = index[t]]
      BY <2>3 DEF IInv, TypeOK
    <3>2. QED
      BY <1>7, <2>1, <2>3, <3>1, LockStep DEF PingSynch
  <2>4. QED
    BY <1>7, <2>2, <2>3 DEF PingSynch
<1>8. CASE PongSynch(t)
  <2>1. tpc[t] = "pinging" /\ Uses(t) /\ Serving
    BY <1>2, <1>8 DEF PongSynch, Uses
  <2>2. QED
    BY <1>8, <2>1, AdvanceStep, UnlockStep DEF PongSynch
<1>9. QED
  BY <1>3, <1>4, <1>5, <1>6, <1>7, <1>8

------------------------------------------------------------------------------
(* Close.                                                                   *)

LEMMA CloseStep == IInv /\ (StartClose \/ CloseSteps) => IInv'
<1> SUFFICES ASSUME IInv, StartClose \/ CloseSteps PROVE IInv'
  OBVIOUS
<1>1. UNCHANGED <<submitted, workerVars, synchVars>> /\ Held' = Held
  BY DEF StartClose, CloseSteps, SetToken, CancelQueue, JoinAndDelete, Held, workerVars
<1>2. HandShape' /\ OneHand' /\ IndexShape' /\ LocksShape'
  BY <1>1 DEF IInv, QueueInv, HandShape, OneHand, IndexShape, LocksShape, Uses, workerVars, synchVars
<1>3. CloseShape'
  BY DEF IInv, QueueInv, CloseShape, Serving, StartClose, CloseSteps, SetToken, CancelQueue, JoinAndDelete, synchVars
<1>4. WorkersHaveConnections'
  BY DEF IInv, WorkersHaveConnections, StartClose, CloseSteps, SetToken, CancelQueue, JoinAndDelete, workerVars
<1>5. CASE CancelQueue
  <2>1. items' = <<>> /\ shutdown' = TRUE /\ sleeping' = {} /\ UNCHANGED <<token, open, current>> /\ closer' = "join"
    BY <1>5 DEF CancelQueue, Cancel
  <2>2. Fifo'
    BY <1>1, <2>1 DEF IInv, QueueInv, Fifo, workerVars
  <2>3. items' \in Seq(1..submitted')
    BY <2>1
  <2>4. TypeOK'
    BY <1>1, <2>1, <2>3 DEF IInv, TypeOK, workerVars, synchVars
  <2>5. QED
    BY <1>2, <1>3, <1>4, <2>2, <2>4 DEF IInv, QueueInv
<1>6. CASE StartClose \/ SetToken \/ JoinAndDelete
  <2>1. UNCHANGED queueVars
    BY <1>6 DEF StartClose, SetToken, JoinAndDelete
  <2>2. Fifo'
    BY <1>1, <2>1 DEF IInv, QueueInv, Fifo, workerVars, queueVars
  <2>3. /\ token' \in [Workers -> BOOLEAN] /\ open' \subseteq Workers /\ current' \in Workers
        /\ closer' \in {"serving", "token", "cancel", "join", "closed"}
    <3>1. /\ token \in [Workers -> BOOLEAN] /\ open \subseteq Workers /\ current \in Workers
          /\ current < NumWorkers => current + 1 \in Workers
      BY PoolAssumption DEF IInv, TypeOK, Workers
    <3>2. CASE StartClose
      BY <3>1, <3>2 DEF StartClose
    <3>3. CASE SetToken
      BY <3>1, <3>3 DEF SetToken
    <3>4. CASE JoinAndDelete
      BY <3>1, <3>4 DEF JoinAndDelete
    <3>5. QED
      BY <1>6, <3>2, <3>3, <3>4
  <2>4. TypeOK'
    BY <1>1, <2>1, <2>3 DEF IInv, TypeOK, workerVars, synchVars, queueVars
  <2>5. QED
    BY <1>2, <1>3, <1>4, <2>2, <2>4 DEF IInv, QueueInv
<1>7. QED
  BY <1>5, <1>6 DEF CloseSteps

LEMMA IInvStep == IInv /\ [Next]_vars => IInv'
<1> SUFFICES ASSUME IInv, [Next]_vars PROVE IInv'
  OBVIOUS
<1>1. ASSUME NEW w \in Workers, WorkerSteps(w) \/ WorkerSpuriousWake(w) PROVE IInv'
  BY <1>1, SleepStep, PopStep, CheckStep, CallStep DEF WorkerSteps
<1>2. ASSUME NEW t \in Threads, Enqueue(t) \/ CallSynch(t) \/ KeepAlive(t) \/ ThreadSteps(t) PROVE IInv'
  BY <1>2, EnqueueStep, PingAsyncStep, ThreadStep DEF ThreadSteps
<1>3. CASE StartClose \/ CloseSteps
  BY <1>3, CloseStep
<1>4. CASE UNCHANGED vars
  <2>1. Held' = Held
    BY <1>4 DEF vars, workerVars, Held
  <2>2. QED
    BY <1>4, <2>1 DEF vars, queueVars, workerVars, closeVars, synchVars, IInv, TypeOK, QueueInv, HandShape, Fifo,
                      OneHand, CloseShape, Serving, IndexShape, LocksShape, Uses, WorkersHaveConnections
<1>5. QED
  BY <1>1, <1>2, <1>3, <1>4 DEF Next

LEMMA IInvAlways == Spec => []IInv
<1>1. QED
  BY IInvInit, IInvStep, PTL DEF Spec

------------------------------------------------------------------------------
(* Results.                                                                 *)

\* No operation is in two places, none is lost before Close, and they are
\* taken in the order of the calls (Enqueue, WorkerThread, Cancel).
THEOREM OperationsOnce == Spec => []EachOperationOnce
<1>1. ASSUME IInv PROVE EachOperationOnce
  <2>1. PICK n \in 0..submitted :
            /\ executed \cup Held = 1..n
            /\ \/ shutdown /\ items = <<>>
               \/ Len(items) = submitted - n /\ \A i \in 1..Len(items) : items[i] = n + i
    BY <1>1 DEF IInv, QueueInv, Fifo
  <2>2. submitted \in Nat /\ DOMAIN items = 1..Len(items) /\ Len(items) \in Nat
    BY <1>1, PoolAssumption DEF IInv, TypeOK
  <2>3. CASE items = <<>> /\ shutdown
    <3>1. Queued = {} /\ Len(items) = 0
      BY <2>3 DEF Queued
    <3>2. ~Serving
      BY <1>1, <2>3 DEF IInv, QueueInv, CloseShape
    <3>3. QED
      BY <1>1, <3>1, <3>2, FS_EmptySet DEF EachOperationOnce, IInv, QueueInv, OneHand
  <2>4. CASE Len(items) = submitted - n /\ \A i \in 1..Len(items) : items[i] = n + i
    <3>1. Queued = (n + 1)..submitted
      <4>1. ASSUME NEW k \in (n + 1)..submitted PROVE k \in Queued
        <5>1. k - n \in 1..Len(items) /\ n + (k - n) = k
          BY <2>2, <2>4
        <5>2. items[k - n] = k
          BY <2>4, <5>1
        <5>3. QED
          BY <2>2, <5>1, <5>2 DEF Queued
      <4>2. ASSUME NEW k \in Queued PROVE k \in (n + 1)..submitted
        BY <2>2, <2>4, <4>2 DEF Queued
      <4>3. QED
        BY <4>1, <4>2
    <3>2. Cardinality(Queued) = Len(items)
      <4>1. Cardinality((n + 1)..submitted) = IF n + 1 > submitted THEN 0 ELSE submitted - (n + 1) + 1
        BY <2>2, FS_Interval
      <4>2. QED
        BY <2>2, <2>4, <3>1, <4>1
    <3>3. Queued \cap (executed \cup Held) = {} /\ Queued \cup Held \cup executed = 1..submitted
      BY <2>1, <2>2, <3>1
    <3>4. QED
      BY <1>1, <3>2, <3>3 DEF EachOperationOnce, IInv, QueueInv, OneHand
  <2>5. QED
    BY <2>1, <2>3, <2>4
<1>2. QED
  BY <1>1, IInvAlways, PTL

\* A synchronous connection has at most one user, its mutex is held exactly
\* while it has one, and a worker outlives its connection never
\* (GetFreeConnection, KeepAlive, ~DatabaseWorker).
THEOREM ConnectionsOwned == Spec => []ConnectionsAreOwned
<1>1. ASSUME IInv PROVE ConnectionsAreOwned
  <2>1. ASSUME NEW c \in Connections
        PROVE  /\ Cardinality({t \in Threads : tpc[t] \in {"use", "pinging"} /\ index[t] = c}) <= 1
               /\ (c \in locked) <=> (\E t \in Threads : tpc[t] \in {"use", "pinging"} /\ index[t] = c)
    <3> DEFINE users == {t \in Threads : tpc[t] \in {"use", "pinging"} /\ index[t] = c}
    <3>1. \A s, t \in users : s = t
      BY <1>1 DEF IInv, LocksShape, Uses
    <3>2. users = {} \/ \E t : users = {t}
      BY <3>1
    <3>3. Cardinality(users) <= 1
      <4> HIDE DEF users
      <4>1. CASE users = {}
        <5>1. Cardinality({}) = 0
          BY FS_EmptySet
        <5>2. QED
          BY <4>1, <5>1
      <4>2. ASSUME NEW t, users = {t} PROVE Cardinality(users) <= 1
        <5>1. Cardinality({t}) = 1
          BY FS_Singleton
        <5>2. QED
          BY <4>2, <5>1
      <4>3. QED
        BY <3>2, <4>1, <4>2
    <3>4. (c \in locked) <=> (\E t \in Threads : tpc[t] \in {"use", "pinging"} /\ index[t] = c)
      BY <1>1 DEF IInv, LocksShape, Uses
    <3>5. QED
      BY <3>3, <3>4
  <2>2. QED
    BY <1>1, <2>1 DEF ConnectionsAreOwned, IInv, WorkersHaveConnections
<1>2. QED
  BY <1>1, IInvAlways, PTL

\* An operation that is executed overtakes only operations that other workers
\* hold.
LEMMA FewOvertaken ==
    ASSUME IInv, NEW w \in Workers, hand[w] # None
    PROVE  Cardinality({j \in 1..(hand[w] - 1) : j \notin executed}) < NumWorkers
<1> DEFINE k == hand[w]
           overtaken == {j \in 1..(k - 1) : j \notin executed}
           others == Workers \ {w}
           held == {hand[v] : v \in others}
           f == [v \in others |-> hand[v]]
<1>1. hand \in [Workers -> 0..submitted] /\ k \in 1..submitted /\ submitted \in Nat /\ k \in Held
  BY PoolAssumption DEF IInv, TypeOK, None, Held
<1>2. PICK n \in 0..submitted : executed \cup Held = 1..n
  BY DEF IInv, QueueInv, Fifo
<1>3. overtaken \subseteq held
  <2>1. ASSUME NEW j \in overtaken PROVE j \in held
    <3>1. j \in Held /\ j # k
      BY <1>1, <1>2
    <3>2. QED
      BY <3>1 DEF Held
  <2>2. QED
    BY <2>1
<1>4. IsFiniteSet(Workers) /\ Cardinality(Workers) = NumWorkers
  BY PoolAssumption, FS_Interval DEF Workers
<1>5. IsFiniteSet(others) /\ Cardinality(others) = NumWorkers - 1
  BY <1>4, FS_RemoveElement
<1>6. f \in Surjection(others, held)
  BY DEF Surjection
<1>7. IsFiniteSet(held) /\ Cardinality(held) <= Cardinality(others)
  BY <1>5, <1>6, FS_Surjection
<1>8. Cardinality(overtaken) <= Cardinality(held)
  BY <1>3, <1>7, FS_Subset
<1>9. Cardinality(overtaken) \in Nat /\ Cardinality(held) \in Nat
  BY <1>3, <1>7, FS_Subset, FS_CardinalityType
<1>10. QED
  BY <1>5, <1>7, <1>8, <1>9, PoolAssumption

\* The pool promises what AsyncOperations says: each operation at most once,
\* and no more overtaken ones than there are other workers.
THEOREM PoolImplementsPromise == Spec => ImplementsAsyncOperations
<1>1. Init => Promise!Init
  BY DEF Init, Promise!Init, Serving
<1>2. ASSUME IInv, [Next]_vars
      PROVE  [Promise!Next]_<<submitted, executed, ~Serving>>
  <2>1. ASSUME NEW w \in Workers, WorkerCalls(w) PROVE Promise!Execute
    <3>1. /\ hand[w] # None /\ hand[w] \in 1..submitted /\ hand[w] \notin executed
          /\ executed' = executed \cup {hand[w]} /\ UNCHANGED <<submitted, closer>>
      BY <1>2, <2>1, PoolAssumption DEF WorkerCalls, closeVars, IInv, QueueInv, HandShape, OneHand, TypeOK, Held, None
    <3>2. Cardinality({j \in 1..(hand[w] - 1) : j \notin executed}) < NumWorkers
      BY <1>2, <3>1, FewOvertaken
    <3>3. Promise!Cardinality(Promise!Overtaken(hand[w])) < NumWorkers
      BY <3>2 DEF Promise!Overtaken, Promise!Cardinality, Cardinality
    <3>4. QED
      BY <3>1, <3>3 DEF Promise!Execute, Serving
  <2>2. ASSUME NEW w \in Workers,
               WorkerSleeps(w) \/ WorkerPops(w) \/ WorkerChecks(w) \/ WorkerSpuriousWake(w)
        PROVE  UNCHANGED <<submitted, executed, closer>>
    BY <2>2 DEF WorkerSleeps, WorkerPops, WorkerChecks, WorkerSpuriousWake, workerVars, closeVars
  <2>3. ASSUME NEW t \in Threads, Enqueue(t) \/ PingAsync(t) PROVE Promise!Submit
    <3>1. Serving /\ submitted' = submitted + 1 /\ UNCHANGED <<executed, closer>>
      BY <1>2, <2>3 DEF Enqueue, PingAsync, IInv, QueueInv, CloseShape, workerVars, closeVars
    <3>2. QED
      BY <3>1 DEF Promise!Submit, Serving
  <2>4. ASSUME NEW t \in Threads,
               CallSynch(t) \/ KeepAlive(t) \/ TryNext(t) \/ FinishSynch(t) \/ PingSynch(t) \/ PongSynch(t)
        PROVE  UNCHANGED <<submitted, executed, closer>>
    BY <2>4 DEF CallSynch, KeepAlive, TryNext, FinishSynch, PingSynch, PongSynch, workerVars, closeVars
  <2>5. CASE StartClose
    BY <2>5 DEF StartClose, Promise!Next, Promise!Close, Serving, workerVars
  <2>6. CASE CloseSteps
    BY <2>6 DEF CloseSteps, SetToken, CancelQueue, JoinAndDelete, Serving, workerVars
  <2>7. CASE UNCHANGED vars
    BY <2>7 DEF vars, workerVars, closeVars, Serving
  <2>8. UNCHANGED <<submitted, executed, closer>> => UNCHANGED <<submitted, executed, ~Serving>>
    BY DEF Serving
  <2>9. QED
    BY <1>2, <2>1, <2>2, <2>3, <2>4, <2>5, <2>6, <2>7, <2>8 DEF Next, WorkerSteps, ThreadSteps, Promise!Next
<1>3. QED
  BY <1>1, <1>2, IInvAlways, PTL DEF Spec, ImplementsAsyncOperations, Promise!Spec

------------------------------------------------------------------------------
(* One operation on one connection.                                         *)

Places == (1..Tasks) \X (1..Statements)
NotAfter(s, t, n) == s[1] < t \/ (s[1] = t /\ s[2] <= n)
Sorted(q) == \A i, j \in DOMAIN q : i < j => NotAfter(q[i], q[j][1], q[j][2])

\* The session holds uncommitted work only between START TRANSACTION and the
\* end of the same transaction, and all that is durable is of earlier tasks
\* then.  Outside a transaction the statement sent next may have taken effect
\* already, if the connection was lost before the answer.
ServerShape ==
    /\ \A i \in DOMAIN durable : NotAfter(durable[i], task, next)
    /\ inTransaction =>
          /\ task # 0 /\ pc \in {"statement", "rollback"} /\ IsTransaction
          /\ \A i \in DOMAIN durable : durable[i][1] < task
    /\ ~inTransaction => work = <<>>
    /\ \A j \in DOMAIN work : work[j][1] = task /\ work[j][2] < next
    /\ Sorted(work)

\* START TRANSACTION is sent by a task that has no effect yet: what is retried
\* is an empty transaction, as the ROLLBACK and the end of the connection clear
\* the errno that asks for a retry.
RetryShape ==
    /\ pc # "idle" => task # 0
    /\ pc \in {"begin", "rollback", "failed"} => IsTransaction
    /\ (pc = "begin" /\ Size > 0) => \A i \in DOMAIN durable : durable[i][1] < task
    /\ attempt > 0 => task # 0 /\ Size = 0
    /\ (pc = "failed" /\ errno = "deadlock") => Size = 0
    /\ ~connected => errno = "none"
    /\ reconnecting => Sending /\ connected
    /\ (reconnecting \/ ~connected) => ~inTransaction

TaskInv == TaskTypeOK /\ ServerShape /\ RetryShape /\ Sorted(durable)

------------------------------------------------------------------------------
\* What is sorted stays so when nothing in it comes after what is added.
LEMMA SortedAppend ==
    ASSUME NEW q \in Seq(Places), Sorted(q), NEW t \in 1..Tasks, NEW n \in 1..Statements,
           \A i \in DOMAIN q : NotAfter(q[i], t, n)
    PROVE  /\ Append(q, <<t, n>>) \in Seq(Places) /\ Sorted(Append(q, <<t, n>>))
           /\ \A i \in DOMAIN Append(q, <<t, n>>) : NotAfter(Append(q, <<t, n>>)[i], t, n)
<1> DEFINE a == Append(q, <<t, n>>)
<1>1. <<t, n>> \in Places
  BY DEF Places
<1>2. /\ a \in Seq(Places) /\ Len(q) \in Nat /\ DOMAIN q = 1..Len(q) /\ DOMAIN a = 1..(Len(q) + 1)
      /\ a[Len(q) + 1] = <<t, n>> /\ \A i \in 1..Len(q) : a[i] = q[i]
  BY <1>1
<1> HIDE DEF a
<1>3. NotAfter(<<t, n>>, t, n)
  BY DEF NotAfter
<1>4. ASSUME NEW i \in DOMAIN a PROVE NotAfter(a[i], t, n)
  <2>1. CASE i = Len(q) + 1
    BY <1>2, <1>3, <2>1
  <2>2. CASE i \in 1..Len(q)
    BY <1>2, <2>2
  <2>3. QED
    BY <1>2, <2>1, <2>2
<1>5. ASSUME NEW i \in DOMAIN a, NEW j \in DOMAIN a, i < j PROVE NotAfter(a[i], a[j][1], a[j][2])
  <2>1. CASE j = Len(q) + 1
    BY <1>2, <1>4, <2>1
  <2>2. CASE j # Len(q) + 1
    BY <1>2, <1>5, <2>2 DEF Sorted
  <2>3. QED
    BY <2>1, <2>2
<1>6. QED
  BY <1>2, <1>4, <1>5 DEF Sorted, a

\* The work of a task follows what earlier tasks made durable.
LEMMA SortedConcat ==
    ASSUME NEW q \in Seq(Places), NEW r \in Seq(Places), Sorted(q), Sorted(r),
           NEW t \in Nat, \A i \in DOMAIN q : q[i][1] < t, \A j \in DOMAIN r : r[j][1] = t
    PROVE  q \o r \in Seq(Places) /\ Sorted(q \o r)
<1> DEFINE c == q \o r
<1>1. /\ c \in Seq(Places) /\ Len(q) \in Nat /\ Len(r) \in Nat
      /\ DOMAIN q = 1..Len(q) /\ DOMAIN r = 1..Len(r) /\ DOMAIN c = 1..(Len(q) + Len(r))
      /\ \A i \in 1..Len(q) : c[i] = q[i]
      /\ \A i \in (Len(q) + 1)..(Len(q) + Len(r)) : c[i] = r[i - Len(q)]
  OBVIOUS
<1> HIDE DEF c
<1>2. ASSUME NEW i \in DOMAIN c, NEW j \in DOMAIN c, i < j PROVE NotAfter(c[i], c[j][1], c[j][2])
  <2>1. CASE j <= Len(q)
    <3>1. i \in DOMAIN q /\ j \in DOMAIN q
      BY <1>1, <1>2, <2>1
    <3>2. c[i] = q[i] /\ c[j] = q[j]
      BY <1>1, <3>1
    <3>3. QED
      BY <1>2, <3>1, <3>2 DEF Sorted
  <2>2. CASE i <= Len(q) /\ j > Len(q)
    <3>1. c[i][1] < t
      BY <1>1, <2>2
    <3>2. j - Len(q) \in DOMAIN r /\ c[j] = r[j - Len(q)]
      BY <1>1, <2>2
    <3>3. QED
      BY <3>1, <3>2 DEF NotAfter
  <2>3. CASE i > Len(q)
    <3>1. /\ i \in (Len(q) + 1)..(Len(q) + Len(r)) /\ j \in (Len(q) + 1)..(Len(q) + Len(r))
          /\ i - Len(q) \in 1..Len(r) /\ j - Len(q) \in 1..Len(r) /\ i - Len(q) < j - Len(q)
      BY <1>1, <1>2, <2>3
    <3>2. c[i] = r[i - Len(q)] /\ c[j] = r[j - Len(q)]
      BY <1>1, <3>1
    <3>3. QED
      BY <1>1, <3>1, <3>2 DEF Sorted
  <2>4. QED
    BY <1>1, <2>1, <2>2, <2>3
<1>3. QED
  BY <1>1, <1>2 DEF Sorted, c

\* Where a task stands is a number.
LEMMA OperationSize ==
    ASSUME TaskTypeOK, task # 0
    PROVE  /\ task \in 1..Tasks /\ Size \in 0..Statements
           /\ ops[task].kind \in {"transaction", "plain"}
           /\ ops[task].kind = "plain" => Size = 1
  BY TransactionAssumption DEF TaskTypeOK, Operations, Size

\* Nothing has been executed in the beginning.
LEMMA TaskInvInit == TaskInit => TaskInv
<1> SUFFICES ASSUME TaskInit PROVE TaskInv
  OBVIOUS
<1>1. work \in Seq(Places) /\ durable \in Seq(Places) /\ DOMAIN work = {} /\ DOMAIN durable = {}
  BY DEF TaskInit
<1>2. TaskTypeOK
  <2>1. /\ ops \in [1..Tasks -> Operations] /\ task \in 0..Tasks /\ next \in 1..(Statements + 1)
        /\ attempt \in 0..LoopBreaker /\ losses \in 0..MaxLosses
        /\ result \in [1..Tasks -> {"none", "ok", "failed"}]
    BY TransactionAssumption DEF TaskInit, LoopBreaker
  <2>2. /\ pc = "idle" /\ errno = "none" /\ cause = "none"
        /\ connected = TRUE /\ reconnecting = FALSE /\ inTransaction = FALSE
    BY DEF TaskInit
  <2>3. QED
    BY <1>1, <2>1, <2>2 DEF TaskTypeOK, Places
<1>3. ServerShape /\ RetryShape /\ Sorted(durable)
  BY <1>1 DEF TaskInit, ServerShape, RetryShape, Sorted
<1>4. QED
  BY <1>2, <1>3 DEF TaskInv

\* Steps that neither reach the server nor change what is sent next.
LEMMA QuietSteps ==
    ASSUME TaskInv, EmptyTransaction \/ Reconnect \/ Retry \/ Finish \/ NextTask
    PROVE  TaskInv'
<1> USE DEF TaskInv
<1>1. UNCHANGED <<ops, inTransaction, work, durable, connected, losses>>
  BY DEF EmptyTransaction, Reconnect, Retry, Finish, NextTask, session
<1>2. CASE NextTask
  <2>1. /\ task \in 0..Tasks /\ task < Tasks /\ task' = task + 1 /\ task' \in 1..Tasks
        /\ ops[task + 1].kind \in {"transaction", "plain"}
    BY <1>2, TransactionAssumption DEF NextTask, TaskTypeOK, Operations
  <2>2. TaskTypeOK'
    BY <1>1, <1>2, <2>1, TransactionAssumption DEF NextTask, TaskTypeOK, LoopBreaker, session
  <2>3. \A i \in DOMAIN durable : durable[i][1] < task'
    <3>1. ASSUME NEW i \in DOMAIN durable PROVE durable[i][1] < task + 1
      <4>1. durable[i][1] \in Nat /\ NotAfter(durable[i], task, next)
        BY DEF TaskTypeOK, ServerShape
      <4>2. QED
        BY <2>1, <4>1 DEF NotAfter
    <3>2. QED
      BY <2>1, <3>1
  <2>4. ~inTransaction /\ work = <<>>
    BY <1>2 DEF NextTask, ServerShape
  <2>5. ServerShape'
    <3>1. /\ \A i \in DOMAIN durable' : NotAfter(durable'[i], task', next')
          /\ ~inTransaction' /\ work' = <<>> /\ DOMAIN work' = {}
      BY <1>1, <2>3, <2>4 DEF NotAfter
    <3>2. QED
      BY <3>1 DEF ServerShape, Sorted
  <2>6. RetryShape'
    <3>1. /\ pc = "idle" /\ attempt' = 0 /\ UNCHANGED <<errno, reconnecting>>
          /\ pc' \in {"begin", "statement"}
          /\ pc' = "begin" => ops[task + 1].kind = "transaction"
      BY <1>2 DEF NextTask
    <3>2. pc' = "begin" => IsTransaction'
      BY <1>1, <2>1, <3>1 DEF IsTransaction
    <3>3. ~reconnecting
      BY <3>1 DEF RetryShape, Sending
    <3>4. QED
      BY <1>1, <2>1, <2>3, <2>4, <3>1, <3>2, <3>3 DEF RetryShape
  <2>7. QED
    BY <1>1, <2>2, <2>5, <2>6 DEF Sorted
<1>3. CASE EmptyTransaction \/ Reconnect \/ Retry \/ Finish
  <2>1. UNCHANGED <<task, next, errno, cause>>
    BY <1>3 DEF EmptyTransaction, Reconnect, Retry, Finish
  <2>2. Size' = Size /\ IsTransaction' = IsTransaction
    BY <1>1, <2>1 DEF Size, IsTransaction
  <2>3. TaskTypeOK'
    <3>1. work' = work /\ durable' = durable /\ inTransaction' = inTransaction
      BY <1>1 DEF session
    <3>2. CASE EmptyTransaction \/ Reconnect
      BY <1>1, <2>1, <3>1, <3>2 DEF TaskTypeOK, EmptyTransaction, Reconnect
    <3>3. CASE Retry
      <4>1. attempt' \in 0..LoopBreaker /\ pc' = "begin" /\ UNCHANGED <<reconnecting, result>>
        BY <3>3 DEF TaskTypeOK, Retry, RetryWanted, LoopBreaker
      <4>2. QED
        BY <1>1, <2>1, <3>1, <4>1 DEF TaskTypeOK
    <3>4. CASE Finish
      <4>1. result' \in [1..Tasks -> {"none", "ok", "failed"}] /\ pc' = "idle" /\ UNCHANGED <<reconnecting, attempt>>
        BY <3>4 DEF TaskTypeOK, Finish
      <4>2. QED
        BY <1>1, <2>1, <3>1, <4>1 DEF TaskTypeOK
    <3>5. QED
      BY <1>3, <3>2, <3>3, <3>4
  <2>4. RetryShape'
    <3>1. CASE EmptyTransaction
      <4>1. pc = "begin" /\ Size = 0 /\ pc' = "failed" /\ UNCHANGED <<attempt, reconnecting>>
        BY <3>1 DEF EmptyTransaction
      <4>2. ~Sending
        BY <4>1 DEF Sending
      <4>3. QED
        BY <1>1, <2>1, <2>2, <4>1, <4>2 DEF RetryShape
    <3>2. CASE Reconnect
      BY <1>1, <2>1, <2>2, <3>2 DEF Reconnect, RetryShape
    <3>6. CASE Finish
      <4>1. ~Sending /\ pc' = "idle" /\ UNCHANGED <<attempt, reconnecting>>
        BY <3>6 DEF Finish, Sending
      <4>2. QED
        BY <1>1, <2>1, <2>2, <4>1 DEF RetryShape
    <3>3. CASE Retry
      <4>1. Size = 0 /\ task # 0 /\ pc' = "begin" /\ IsTransaction /\ ~reconnecting
        BY <3>3 DEF Retry, RetryWanted, RetryShape, TaskTypeOK, Sending
      <4>2. UNCHANGED <<connected, reconnecting, inTransaction>>
        BY <3>3 DEF Retry, session
      <4>3. QED
        BY <1>1, <2>1, <2>2, <4>1, <4>2 DEF RetryShape, Sending
    <3>4. QED
      BY <1>3, <3>1, <3>2, <3>3, <3>6
  <2>5. ServerShape'
    <3>1. ~inTransaction \/ pc' = pc
      BY <1>3 DEF EmptyTransaction, Reconnect, Retry, Finish, ServerShape
    <3>2. QED
      BY <1>1, <2>1, <2>2, <3>1 DEF ServerShape, session, Sorted
  <2>6. QED
    BY <1>1, <2>3, <2>4, <2>5 DEF Sorted
<1>4. QED
  BY <1>2, <1>3

\* START TRANSACTION finds no open transaction.
LEMMA BeginStep == ASSUME TaskInv, BeginTransaction PROVE TaskInv'
<1> USE DEF TaskInv
<1>1. /\ pc = "begin" /\ Size > 0 /\ connected /\ ~reconnecting /\ pc' = "statement" /\ next' = 1
      /\ errno' = "none" /\ work' = <<>> /\ inTransaction' = TRUE /\ durable' = durable \o work
      /\ UNCHANGED <<ops, task, attempt, cause, connected, reconnecting, result, losses>>
  BY DEF BeginTransaction, ServerCommits, Usable
<1>2. ~inTransaction /\ work = <<>> /\ durable' = durable
  <2>1. ~inTransaction /\ work = <<>>
    BY <1>1 DEF ServerShape
  <2>2. QED
    BY <1>1, <2>1 DEF TaskTypeOK
<1>3. task # 0 /\ \A i \in DOMAIN durable : durable[i][1] < task
  BY <1>1 DEF RetryShape
<1>4. IsTransaction /\ task \in 1..Tasks /\ UNCHANGED <<IsTransaction, Size>>
  BY <1>1, <1>3, OperationSize DEF RetryShape, IsTransaction, Size
<1>5. TaskTypeOK'
  BY <1>1, <1>2, TransactionAssumption DEF TaskTypeOK
<1>6. ServerShape'
  <2>1. \A i \in DOMAIN durable : NotAfter(durable[i], task, 1)
    BY <1>3 DEF NotAfter
  <2>2. QED
    BY <1>1, <1>2, <1>3, <1>4, <2>1 DEF ServerShape, Sorted
<1>7. RetryShape'
  BY <1>1, <1>4 DEF RetryShape
<1>8. QED
  BY <1>2, <1>5, <1>6, <1>7 DEF Sorted

\* A statement takes its place after all that was executed before it.
LEMMA ExecuteStep == ASSUME TaskInv, ExecuteStatement PROVE TaskInv'
<1> USE DEF TaskInv
<1>1. /\ pc = "statement" /\ connected /\ ~reconnecting /\ next <= Size /\ errno' = "none" /\ next' = next + 1
      /\ pc' = IF IsTransaction THEN pc ELSE "succeeded"
      /\ UNCHANGED <<ops, task, attempt, cause, connected, reconnecting, result, losses, inTransaction>>
  BY DEF ExecuteStatement, Usable, ServerExecutes, session
<1>2. /\ task # 0 /\ task \in 1..Tasks /\ next \in 1..Statements /\ next' \in 1..(Statements + 1)
      /\ UNCHANGED <<IsTransaction, Size>>
  <2>1. task # 0
    BY <1>1 DEF RetryShape
  <2>2. QED
    BY <1>1, <2>1, OperationSize, TransactionAssumption DEF TaskTypeOK, IsTransaction, Size
<1>3. work \in Seq(Places) /\ durable \in Seq(Places)
  BY DEF TaskTypeOK, Places
<1>4. RetryShape'
  BY <1>1, <1>2 DEF RetryShape
<1>5. CASE inTransaction
  <2>1. work' = Append(work, <<task, next>>) /\ durable' = durable /\ IsTransaction
    BY <1>1, <1>5 DEF ExecuteStatement, ServerExecutes, ServerShape
  <2>2. \A j \in DOMAIN work : NotAfter(work[j], task, next)
    BY <1>2, <1>3 DEF ServerShape, NotAfter, Places
  <2>3. work' \in Seq(Places) /\ Sorted(work')
    BY <1>2, <1>3, <2>1, <2>2, SortedAppend DEF ServerShape
  <2>4. \A j \in DOMAIN work' : work'[j][1] = task /\ work'[j][2] < next + 1
    <3>1. /\ DOMAIN work = 1..Len(work) /\ DOMAIN work' = 1..(Len(work) + 1) /\ Len(work) \in Nat
          /\ work'[Len(work) + 1] = <<task, next>>
          /\ \A j \in 1..Len(work) : work'[j] = work[j]
      BY <1>2, <1>3, <2>1 DEF Places
    <3>2. ASSUME NEW j \in 1..Len(work) PROVE work[j][1] = task /\ work[j][2] < next + 1
      <4>1. j \in DOMAIN work /\ work[j] \in Places
        BY <1>3, <3>1
      <4>2. work[j][1] = task /\ work[j][2] < next /\ work[j][2] \in 1..Statements
        BY <4>1 DEF ServerShape, Places
      <4>3. QED
        BY <1>2, <4>2
    <3>3. ASSUME NEW j \in DOMAIN work', j = Len(work) + 1
          PROVE  work'[j][1] = task /\ work'[j][2] < next + 1
      BY <1>2, <3>1, <3>3
    <3>4. \A j \in DOMAIN work' : j \in 1..Len(work) \/ j = Len(work) + 1
      BY <3>1
    <3>5. QED
      BY <3>1, <3>2, <3>3, <3>4
  <2>5. TaskTypeOK'
    BY <1>1, <1>2, <2>1, <2>3 DEF TaskTypeOK, Places
  <2>6. ServerShape'
    <3>1. \A i \in DOMAIN durable : NotAfter(durable[i], task, next + 1)
      BY <1>5 DEF ServerShape, NotAfter
    <3>2. QED
      BY <1>1, <1>2, <1>5, <2>1, <2>3, <2>4, <3>1 DEF ServerShape
  <2>7. QED
    BY <1>4, <2>1, <2>5, <2>6
<1>6. CASE ~inTransaction
  <2>1. durable' = Append(durable, <<task, next>>) /\ work' = work /\ work = <<>>
    BY <1>1, <1>6 DEF ExecuteStatement, ServerExecutes, ServerShape, session
  <2>2. /\ durable' \in Seq(Places) /\ Sorted(durable')
        /\ \A i \in DOMAIN durable' : NotAfter(durable'[i], task, next)
    BY <1>2, <1>3, <2>1, SortedAppend DEF ServerShape
  <2>3. TaskTypeOK'
    BY <1>1, <1>2, <2>1, <2>2 DEF TaskTypeOK, Places
  <2>4. \A i \in DOMAIN durable' : NotAfter(durable'[i], task, next + 1)
    <3>1. ASSUME NEW i \in DOMAIN durable' PROVE NotAfter(durable'[i], task, next + 1)
      <4>1. NotAfter(durable'[i], task, next) /\ durable'[i] \in Places
        BY <2>2
      <4>2. QED
        BY <1>2, <4>1 DEF NotAfter, Places
    <3>2. QED
      BY <3>1
  <2>5. ServerShape'
    BY <1>1, <1>6, <2>1, <2>4 DEF ServerShape, Sorted
  <2>6. QED
    BY <1>4, <2>2, <2>3, <2>5
<1>7. QED
  BY <1>5, <1>6

\* A failed statement, and the ROLLBACK, make nothing durable.
LEMMA FailSteps == ASSUME TaskInv, StatementFails \/ RollbackTransaction PROVE TaskInv'
<1> USE DEF TaskInv
<1>1. /\ UNCHANGED <<ops, task, next, attempt, connected, reconnecting, result, losses, durable>>
      /\ UNCHANGED <<IsTransaction, Size>> /\ task # 0 /\ connected
      /\ \/ UNCHANGED <<inTransaction, work>>
         \/ work' = <<>> /\ inTransaction' = FALSE
  BY DEF session, StatementFails, RollbackTransaction, ServerRollsBack, Usable, RetryShape, IsTransaction, Size
<1>2. CASE StatementFails
  <2>1. /\ pc = "statement" /\ next <= Size /\ errno' \in {"deadlock", "other"} /\ cause' = errno'
        /\ pc' = IF IsTransaction THEN "rollback" ELSE "aborted"
    BY <1>2 DEF StatementFails
  <2>2. TaskTypeOK'
    <3>1. inTransaction' \in BOOLEAN
      BY <1>1 DEF TaskTypeOK
    <3>2. work \in Seq(Places) /\ <<>> \in Seq(Places)
      BY DEF TaskTypeOK, Places
    <3>3. work' \in Seq(Places)
      <4>1. work' = work \/ work' = <<>>
        BY <1>1
      <4>2. QED
        BY <3>2, <4>1
    <3>4. QED
      BY <1>1, <2>1, <3>1, <3>3 DEF TaskTypeOK, Places
  <2>3. ServerShape'
    <3>1. CASE UNCHANGED <<inTransaction, work>>
      BY <1>1, <2>1, <3>1 DEF ServerShape, Sorted
    <3>2. CASE work' = <<>> /\ inTransaction' = FALSE
      BY <1>1, <2>1, <3>2 DEF ServerShape, Sorted
    <3>3. QED
      BY <1>1, <3>1, <3>2
  <2>4. RetryShape'
    <3>1. ~reconnecting /\ pc' \in {"rollback", "aborted"} /\ (pc' = "rollback" => IsTransaction)
      BY <1>2, <2>1 DEF StatementFails, Usable
    <3>2. QED
      BY <1>1, <3>1 DEF RetryShape
  <2>5. QED
    BY <1>1, <2>2, <2>3, <2>4 DEF Sorted
<1>3. CASE RollbackTransaction
  <2>1. /\ pc = "rollback" /\ errno' = "none" /\ pc' = "failed" /\ UNCHANGED cause
        /\ work' = <<>> /\ inTransaction' = FALSE
    BY <1>3 DEF RollbackTransaction, ServerRollsBack
  <2>2. TaskTypeOK'
    <3>1. work' \in Seq(Places)
      BY <2>1
    <3>2. QED
      BY <1>1, <2>1, <3>1 DEF TaskTypeOK, Places
  <2>3. ServerShape' /\ RetryShape'
    <3>1. ServerShape'
      BY <1>1, <2>1 DEF ServerShape, Sorted
    <3>2. ~reconnecting /\ IsTransaction
      BY <1>3, <2>1 DEF RollbackTransaction, Usable, RetryShape
    <3>3. RetryShape'
      BY <1>1, <2>1, <3>2 DEF RetryShape
    <3>4. QED
      BY <3>1, <3>3
  <2>4. QED
    BY <1>1, <2>2, <2>3 DEF Sorted
<1>4. QED
  BY <1>2, <1>3

\* The work of a transaction becomes durable behind that of earlier tasks.
LEMMA WorkBecomesDurable ==
    ASSUME TaskInv, pc = "statement", durable' = durable \o work, UNCHANGED <<task, next>>
    PROVE  /\ durable' \in Seq(Places) /\ Sorted(durable')
           /\ \A i \in DOMAIN durable' : NotAfter(durable'[i], task, next)
<1> USE DEF TaskInv
<1>1. work \in Seq(Places) /\ durable \in Seq(Places) /\ task \in Nat /\ next \in Nat
  BY DEF TaskTypeOK, Places
<1>2. CASE ~inTransaction
  <2>1. durable' = durable
    BY <1>1, <1>2 DEF ServerShape
  <2>2. QED
    BY <1>1, <2>1 DEF ServerShape
<1>3. CASE inTransaction
  <2>1. /\ \A i \in DOMAIN durable : durable[i][1] < task
        /\ \A j \in DOMAIN work : work[j][1] = task /\ work[j][2] < next
    BY <1>3 DEF ServerShape
  <2>2. durable' \in Seq(Places) /\ Sorted(durable')
    BY <1>1, <2>1, SortedConcat DEF ServerShape
  <2>3. ASSUME NEW i \in DOMAIN durable' PROVE NotAfter(durable'[i], task, next)
    <3>1. /\ Len(durable) \in Nat /\ Len(work) \in Nat /\ i \in 1..(Len(durable) + Len(work))
          /\ DOMAIN durable = 1..Len(durable) /\ DOMAIN work = 1..Len(work)
          /\ i <= Len(durable) => durable'[i] = durable[i]
          /\ i > Len(durable) => durable'[i] = work[i - Len(durable)]
      BY <1>1
    <3>2. CASE i <= Len(durable)
      BY <2>1, <3>1, <3>2 DEF NotAfter
    <3>3. CASE i > Len(durable)
      <4>1. i - Len(durable) \in DOMAIN work
        BY <3>1, <3>3
      <4>2. durable'[i][1] = task /\ durable'[i][2] < next /\ durable'[i] \in Places
        BY <1>1, <2>1, <3>1, <3>3, <4>1
      <4>3. QED
        BY <1>1, <4>2 DEF NotAfter, Places
    <3>4. QED
      BY <3>1, <3>2, <3>3
  <2>4. QED
    BY <2>2, <2>3
<1>4. QED
  BY <1>2, <1>3

\* COMMIT.
LEMMA CommitStep == ASSUME TaskInv, CommitTransaction PROVE TaskInv'
<1> USE DEF TaskInv
<1>1. /\ pc = "statement" /\ pc' = "succeeded" /\ errno' = "none" /\ connected
      /\ durable' = durable \o work /\ work' = <<>> /\ inTransaction' = FALSE
      /\ UNCHANGED <<ops, task, next, attempt, cause, connected, reconnecting, result, losses>>
  BY DEF CommitTransaction, ServerCommits, Usable
<1>2. /\ durable' \in Seq(Places) /\ Sorted(durable')
      /\ \A i \in DOMAIN durable' : NotAfter(durable'[i], task, next)
  BY <1>1, WorkBecomesDurable
<1>3. TaskTypeOK'
  <2>1. work' \in Seq(Places)
    BY <1>1
  <2>2. QED
    BY <1>1, <1>2, <2>1 DEF TaskTypeOK, Places
<1>4. ServerShape' /\ RetryShape'
  <2>1. ServerShape'
    BY <1>1, <1>2 DEF ServerShape, Sorted
  <2>2. ~reconnecting /\ task # 0 /\ Size' = Size
    BY <1>1 DEF CommitTransaction, Usable, RetryShape, Size
  <2>3. RetryShape'
    BY <1>1, <2>2 DEF RetryShape
  <2>4. QED
    BY <2>1, <2>3
<1>5. QED
  BY <1>2, <1>3, <1>4

\* A lost connection takes the uncommitted work with it, or the request came
\* through and only the answer is lost.
LEMMA LostStep == ASSUME TaskInv, ConnectionLost PROVE TaskInv'
<1> USE DEF TaskInv
<1>1. /\ losses < MaxLosses /\ losses' = losses + 1 /\ reconnecting' = TRUE /\ connected /\ Sending
      /\ work' = <<>> /\ inTransaction' = FALSE
      /\ UNCHANGED <<ops, task, pc, next, attempt, errno, cause, connected, result>>
      /\ UNCHANGED <<IsTransaction, Size>>
  BY DEF ConnectionLost, Usable, IsTransaction, Size
<1>2. /\ durable' \in Seq(Places) /\ Sorted(durable')
      /\ \A i \in DOMAIN durable' : NotAfter(durable'[i], task, next)
      /\ pc = "begin" => durable' = durable
  <2>1. CASE UNCHANGED durable
    BY <2>1 DEF ServerShape, TaskTypeOK, Places
  <2>2. CASE pc = "statement" /\ next <= Size /\ durable' = Append(durable, <<task, next>>)
    <3>1. task \in 1..Tasks /\ next \in 1..Statements
      BY <2>2, OperationSize, TransactionAssumption DEF TaskTypeOK, RetryShape
    <3>2. durable \in Seq(Places)
      BY DEF TaskTypeOK, Places
    <3>3. QED
      BY <2>2, <3>1, <3>2, SortedAppend DEF ServerShape
  <2>3. CASE pc = "statement" /\ durable' = durable \o work
    BY <1>1, <2>3, WorkBecomesDurable
  <2>4. QED
    BY <2>1, <2>2, <2>3 DEF ConnectionLost
<1>3. TaskTypeOK'
  <2>1. work' \in Seq(Places)
    BY <1>1
  <2>2. losses' \in 0..MaxLosses
    BY <1>1, TransactionAssumption DEF TaskTypeOK
  <2>3. QED
    BY <1>1, <1>2, <2>1, <2>2 DEF TaskTypeOK, Places
<1>4. ServerShape'
  BY <1>1, <1>2 DEF ServerShape, Sorted
<1>5. RetryShape'
  BY <1>1, <1>2 DEF RetryShape, Sending
<1>6. QED
  BY <1>2, <1>3, <1>4, <1>5

\* Without a connection nothing reaches the server.
LEMMA DisconnectedSteps == ASSUME TaskInv, ExecuteDisconnected \/ GiveUpReconnecting PROVE TaskInv'
<1> USE DEF TaskInv
<1>1. /\ UNCHANGED <<ops, task, attempt, cause, inTransaction, work, durable, result, losses, IsTransaction, Size>>
      /\ connected' = FALSE /\ errno' = "none" /\ reconnecting' \in BOOLEAN
  BY DEF ExecuteDisconnected, GiveUpReconnecting, RetryShape, TaskTypeOK, IsTransaction, Size, session
<1>2. Sending /\ OnFalse /\ ~inTransaction /\ work = <<>> /\ task # 0 /\ reconnecting' = FALSE
  BY DEF ExecuteDisconnected, GiveUpReconnecting, RetryShape, ServerShape, TaskTypeOK, Sending
<1>3. /\ task \in 1..Tasks /\ next' \in 1..(Statements + 1)
      /\ pc' \in {"statement", "aborted", "rollback", "succeeded", "failed"}
      /\ pc' = "rollback" \/ pc' = "failed" => IsTransaction
      /\ \A i \in DOMAIN durable : NotAfter(durable[i], task, next')
  <2>1. CASE pc = "begin"
    <3>1. next' = 1 /\ pc' = "statement" /\ \A i \in DOMAIN durable : durable[i][1] < task
      BY <1>2, <2>1 DEF OnFalse, Sending, RetryShape
    <3>2. QED
      BY <1>2, <3>1, OperationSize, TransactionAssumption DEF NotAfter
  <2>2. CASE pc = "rollback"
    <3>1. next' = next /\ pc' = "failed" /\ IsTransaction
      BY <1>2, <2>2 DEF OnFalse, RetryShape
    <3>2. QED
      BY <1>2, <3>1, OperationSize DEF ServerShape, TaskTypeOK
  <2>3. CASE pc = "statement"
    <3>1. next' = next
      BY <1>2, <2>3 DEF OnFalse
    <3>2. \/ ~IsTransaction /\ pc' = "aborted"
          \/ IsTransaction /\ pc' \in {"rollback", "succeeded"}
      <4>1. next \in Nat /\ Size \in Nat
        BY <1>2, OperationSize DEF TaskTypeOK
      <4>2. next <= Size \/ next > Size
        BY <4>1
      <4>3. QED
        BY <1>2, <2>3, <4>2 DEF OnFalse
    <3>3. QED
      BY <1>2, <3>1, <3>2, OperationSize DEF ServerShape, TaskTypeOK
  <2>4. QED
    BY <1>2, <2>1, <2>2, <2>3 DEF Sending
<1>4. TaskTypeOK'
  BY <1>1, <1>2, <1>3 DEF TaskTypeOK, session
<1>5. ServerShape'
  BY <1>1, <1>2, <1>3 DEF ServerShape, session, Sorted
<1>6. RetryShape'
  BY <1>1, <1>2, <1>3 DEF RetryShape, session
<1>7. QED
  BY <1>1, <1>4, <1>5, <1>6 DEF Sorted

\* Every request and every decision keeps the inductive invariant.
LEMMA TaskInvNext == TaskInv /\ [TaskNext]_taskVars => TaskInv'
<1> SUFFICES ASSUME TaskInv, [TaskNext]_taskVars PROVE TaskInv'
  OBVIOUS
<1>1. CASE TaskNext
  BY <1>1, QuietSteps, BeginStep, ExecuteStep, FailSteps, CommitStep, LostStep,
     DisconnectedSteps DEF TaskNext
<1>2. CASE UNCHANGED taskVars
  BY <1>2 DEF taskVars, session, TaskInv, TaskTypeOK, ServerShape, RetryShape, Sorted, Size, IsTransaction, Sending
<1>3. QED
  BY <1>1, <1>2

\* The inductive invariant holds in every reachable state.
THEOREM TasksAreConsistent == TaskSpec => []TaskInv
  BY TaskInvInit, TaskInvNext, PTL DEF TaskSpec

\* The variables keep their types, for any number and size of operations.
THEOREM TaskTypes == TaskSpec => []TaskTypeOK
<1>1. TaskInv => TaskTypeOK
  BY DEF TaskInv
<1>2. QED
  BY <1>1, TasksAreConsistent, PTL

\* Statements take effect in the order in which they were appended, whatever
\* fails, is retried or is lost on the way (ExecuteTransaction, Execute,
\* _HandleMySQLErrno).
THEOREM StatementsInOrder == TaskSpec => []InAppendedOrder
<1>1. TaskInv => InAppendedOrder
  BY DEF TaskInv, InAppendedOrder, Sorted, NotAfter
<1>2. QED
  BY <1>1, TasksAreConsistent, PTL

------------------------------------------------------------------------------
(* As long as the connection lasts: what is durable of a task is everything *)
(* or nothing, and which of them its result says.                           *)
Whole(t) == result[t] = "ok" \/ (t = task /\ pc = "succeeded")
Distinct(q) == \A i, j \in DOMAIN q : q[i] = q[j] => i = j

AtomicShape ==
    /\ connected /\ ~reconnecting
    /\ Distinct(durable)
    /\ \A t \in 1..Tasks : Effect(durable, t) = IF Whole(t) THEN 1..ops[t].size ELSE {}
    /\ \A t \in 1..Tasks : result[t] # "none" => t < task \/ (t = task /\ pc = "idle")
    /\ pc = "statement" =>
          /\ next <= Size + 1
          /\ IsTransaction <=> inTransaction
          /\ ~IsTransaction => next = 1
          /\ inTransaction => Len(work) = next - 1 /\ \A j \in DOMAIN work : work[j] = <<task, j>>

Atomic == losses = 0 => AtomicShape

\* What a statement adds to the effect of its task.
LEMMA EffectAppend ==
    ASSUME NEW q \in Seq(Places), NEW t \in 1..Tasks, NEW n \in 1..Statements, NEW u \in 1..Tasks
    PROVE  Effect(Append(q, <<t, n>>), u) = Effect(q, u) \cup (IF u = t THEN {n} ELSE {})
<1> DEFINE a == Append(q, <<t, n>>)
<1>1. <<t, n>> \in Places
  BY DEF Places
<1>2. /\ Len(q) \in Nat /\ DOMAIN q = 1..Len(q) /\ DOMAIN a = 1..(Len(q) + 1)
      /\ a[Len(q) + 1] = <<t, n>> /\ \A i \in 1..Len(q) : a[i] = q[i]
  BY <1>1
<1> HIDE DEF a
<1>3. ASSUME NEW x \in Effect(a, u) PROVE x \in Effect(q, u) \cup (IF u = t THEN {n} ELSE {})
  <2>1. PICK i \in DOMAIN a : a[i][1] = u /\ a[i][2] = x
    BY <1>3 DEF Effect
  <2>2. CASE i = Len(q) + 1
    BY <1>2, <2>1, <2>2
  <2>3. CASE i # Len(q) + 1
    <3>1. i \in DOMAIN q /\ a[i] = q[i]
      BY <1>2, <2>3
    <3>2. QED
      BY <2>1, <3>1 DEF Effect
  <2>4. QED
    BY <2>2, <2>3
<1>4. ASSUME NEW x \in Effect(q, u) PROVE x \in Effect(a, u)
  <2>1. PICK i \in DOMAIN q : q[i][1] = u /\ q[i][2] = x
    BY <1>4 DEF Effect
  <2>2. i \in DOMAIN a /\ a[i] = q[i]
    BY <1>2
  <2>3. QED
    BY <2>1, <2>2 DEF Effect
<1>5. u = t => n \in Effect(a, u)
  <2>1. SUFFICES ASSUME u = t PROVE n \in Effect(a, u)
    OBVIOUS
  <2>2. Len(q) + 1 \in DOMAIN a /\ a[Len(q) + 1][1] = u /\ a[Len(q) + 1][2] = n
    BY <1>2, <2>1
  <2>3. QED
    BY <2>2 DEF Effect
<1>6. QED
  BY <1>3, <1>4, <1>5 DEF a

\* What the work of a whole transaction adds.
LEMMA EffectConcat ==
    ASSUME NEW q \in Seq(Places), NEW r \in Seq(Places), NEW t \in 1..Tasks, NEW u \in 1..Tasks,
           \A j \in DOMAIN r : r[j] = <<t, j>>
    PROVE  Effect(q \o r, u) = Effect(q, u) \cup (IF u = t THEN 1..Len(r) ELSE {})
<1> DEFINE c == q \o r
<1>1. /\ Len(q) \in Nat /\ Len(r) \in Nat
      /\ DOMAIN q = 1..Len(q) /\ DOMAIN r = 1..Len(r) /\ DOMAIN c = 1..(Len(q) + Len(r))
      /\ \A i \in 1..Len(q) : c[i] = q[i]
      /\ \A i \in (Len(q) + 1)..(Len(q) + Len(r)) : c[i] = r[i - Len(q)]
  OBVIOUS
<1> HIDE DEF c
<1>2. ASSUME NEW x \in Effect(c, u) PROVE x \in Effect(q, u) \cup (IF u = t THEN 1..Len(r) ELSE {})
  <2>1. PICK i \in DOMAIN c : c[i][1] = u /\ c[i][2] = x
    BY <1>2 DEF Effect
  <2>2. CASE i <= Len(q)
    <3>1. i \in DOMAIN q /\ c[i] = q[i]
      BY <1>1, <2>2
    <3>2. QED
      BY <2>1, <3>1 DEF Effect
  <2>3. CASE i > Len(q)
    <3>1. i \in (Len(q) + 1)..(Len(q) + Len(r)) /\ i - Len(q) \in 1..Len(r)
      BY <1>1, <2>3
    <3>2. c[i] = <<t, i - Len(q)>>
      BY <1>1, <3>1
    <3>3. QED
      BY <2>1, <3>1, <3>2
  <2>4. QED
    BY <1>1, <2>2, <2>3
<1>3. ASSUME NEW x \in Effect(q, u) PROVE x \in Effect(c, u)
  <2>1. PICK i \in DOMAIN q : q[i][1] = u /\ q[i][2] = x
    BY <1>3 DEF Effect
  <2>2. i \in DOMAIN c /\ c[i] = q[i]
    BY <1>1
  <2>3. QED
    BY <2>1, <2>2 DEF Effect
<1>4. ASSUME u = t, NEW x \in 1..Len(r) PROVE x \in Effect(c, u)
  <2>1. Len(q) + x \in DOMAIN c /\ Len(q) + x \in (Len(q) + 1)..(Len(q) + Len(r)) /\ (Len(q) + x) - Len(q) = x
    BY <1>1
  <2>2. c[Len(q) + x] = <<t, x>>
    BY <1>1, <2>1
  <2>3. c[Len(q) + x][1] = u /\ c[Len(q) + x][2] = x
    BY <1>4, <2>2
  <2>4. QED
    BY <2>1, <2>3 DEF Effect
<1>5. QED
  BY <1>2, <1>3, <1>4 DEF c

\* Nothing is durable twice that was not before.
LEMMA DistinctAppend ==
    ASSUME NEW q \in Seq(Places), Distinct(q), NEW t \in 1..Tasks, NEW n \in 1..Statements,
           n \notin Effect(q, t)
    PROVE  Distinct(Append(q, <<t, n>>))
<1> DEFINE a == Append(q, <<t, n>>)
<1>1. <<t, n>> \in Places
  BY DEF Places
<1>2. /\ Len(q) \in Nat /\ DOMAIN q = 1..Len(q) /\ DOMAIN a = 1..(Len(q) + 1)
      /\ a[Len(q) + 1] = <<t, n>> /\ \A i \in 1..Len(q) : a[i] = q[i]
  BY <1>1
<1> HIDE DEF a
<1>3. \A i \in DOMAIN q : q[i] # <<t, n>>
  BY DEF Effect
<1>4. ASSUME NEW i \in DOMAIN a, NEW j \in DOMAIN a, a[i] = a[j] PROVE i = j
  <2>1. i \in DOMAIN q \/ i = Len(q) + 1
    BY <1>2
  <2>2. j \in DOMAIN q \/ j = Len(q) + 1
    BY <1>2
  <2>3. QED
    BY <1>2, <1>3, <1>4, <2>1, <2>2 DEF Distinct
<1>5. QED
  BY <1>4 DEF Distinct, a

\* The same of a whole transaction.
LEMMA DistinctConcat ==
    ASSUME NEW q \in Seq(Places), NEW r \in Seq(Places), Distinct(q), NEW t \in 1..Tasks,
           \A i \in DOMAIN q : q[i][1] < t, \A j \in DOMAIN r : r[j] = <<t, j>>
    PROVE  Distinct(q \o r)
<1> DEFINE c == q \o r
<1>1. /\ Len(q) \in Nat /\ Len(r) \in Nat
      /\ DOMAIN q = 1..Len(q) /\ DOMAIN r = 1..Len(r) /\ DOMAIN c = 1..(Len(q) + Len(r))
      /\ \A i \in 1..Len(q) : c[i] = q[i]
      /\ \A i \in (Len(q) + 1)..(Len(q) + Len(r)) : c[i] = r[i - Len(q)]
  OBVIOUS
<1> HIDE DEF c
<1>2. \A i \in DOMAIN q : c[i] = q[i] /\ c[i][1] < t
  BY <1>1
<1>3. ASSUME NEW i \in DOMAIN c, i \notin DOMAIN q
      PROVE  c[i] = <<t, i - Len(q)>> /\ c[i][1] = t /\ c[i][2] = i - Len(q)
  <2>1. i \in (Len(q) + 1)..(Len(q) + Len(r)) /\ i - Len(q) \in DOMAIN r
    BY <1>1, <1>3
  <2>2. QED
    BY <1>1, <2>1
<1>4. ASSUME NEW i \in DOMAIN c, NEW j \in DOMAIN c, c[i] = c[j] PROVE i = j
  <2>1. CASE i \in DOMAIN q /\ j \in DOMAIN q
    BY <1>2, <1>4, <2>1 DEF Distinct
  <2>2. CASE i \notin DOMAIN q /\ j \notin DOMAIN q
    <3>1. i - Len(q) = j - Len(q)
      BY <1>3, <1>4, <2>2
    <3>2. QED
      BY <1>1, <3>1
  <2>3. CASE (i \in DOMAIN q /\ j \notin DOMAIN q) \/ (i \notin DOMAIN q /\ j \in DOMAIN q)
    BY <1>2, <1>3, <1>4, <2>3
  <2>4. QED
    BY <2>1, <2>2, <2>3
<1>5. QED
  BY <1>4 DEF Distinct, c

\* Steps that make nothing durable and bring no task to its end or to a statement.
LEMMA AtomicQuiet ==
    ASSUME TaskInv, AtomicShape, UNCHANGED <<ops, durable, result, connected, reconnecting>>,
           pc' # "statement", pc # "idle", pc # "succeeded", pc' # "succeeded", pc' # "idle",
           task' = task
    PROVE  AtomicShape'
<1>1. \A t \in 1..Tasks : Whole(t)' <=> Whole(t)
  BY DEF Whole
<1>2. \A t \in 1..Tasks : Effect(durable, t)' = Effect(durable, t)
  BY DEF Effect
<1>3. QED
  BY <1>1, <1>2 DEF AtomicShape, Distinct

\* The effect of a task that is not over is nothing.
LEMMA NothingYet ==
    ASSUME TaskInv, AtomicShape, pc # "idle", pc # "succeeded"
    PROVE  task \in 1..Tasks /\ ~Whole(task) /\ Effect(durable, task) = {}
<1>1. task \in 1..Tasks
  BY OperationSize DEF TaskInv, RetryShape
<1>2. result[task] = "none"
  <2>1. task \in Nat
    BY <1>1
  <2>2. QED
    BY <1>1, <2>1 DEF AtomicShape
<1>3. QED
  BY <1>1, <1>2 DEF AtomicShape, Whole

\* A task begins; it has no effect yet.
LEMMA AtomicNext == TaskInv /\ AtomicShape /\ NextTask => AtomicShape'
<1> SUFFICES ASSUME TaskInv, AtomicShape, NextTask PROVE AtomicShape'
  OBVIOUS
<1>1. /\ pc = "idle" /\ task < Tasks /\ task' = task + 1 /\ next' = 1
      /\ pc' = IF ops[task + 1].kind = "transaction" THEN "begin" ELSE "statement"
      /\ UNCHANGED <<ops, connected, reconnecting, inTransaction, work, durable, result>>
  BY DEF NextTask, session
<1>2. task \in 0..Tasks /\ task' \in 1..Tasks
  BY <1>1, TransactionAssumption DEF TaskInv, TaskTypeOK
<1>3. \A t \in 1..Tasks : Whole(t)' <=> Whole(t)
  BY <1>1 DEF Whole
<1>4. \A t \in 1..Tasks : Effect(durable, t)' = Effect(durable, t)
  BY <1>1 DEF Effect
<1>5. \A t \in 1..Tasks : result[t] # "none" => t < task + 1
  BY <1>1, <1>2 DEF AtomicShape
<1>6. pc' = "statement" => ~inTransaction /\ ~(IsTransaction') /\ Size' = 1
  <2>1. SUFFICES ASSUME pc' = "statement" PROVE ~inTransaction /\ ~(IsTransaction') /\ Size' = 1
    OBVIOUS
  <2>2. ops[task + 1].kind # "transaction" /\ ops[task + 1].kind \in {"transaction", "plain"}
        /\ (ops[task + 1].kind = "plain" => ops[task + 1].size = 1)
    <3>1. ops[task + 1] \in Operations /\ ops[task + 1].kind # "transaction"
      BY <1>1, <1>2, <2>1 DEF TaskInv, TaskTypeOK
    <3>2. QED
      BY <3>1 DEF Operations
  <2>3. ~inTransaction
    BY <1>1 DEF TaskInv, ServerShape
  <2>4. QED
    BY <1>1, <2>2, <2>3 DEF IsTransaction, Size
<1>7. QED
  BY <1>1, <1>3, <1>4, <1>5, <1>6 DEF AtomicShape, Distinct

\* A task ends and its result says what became of it.
LEMMA AtomicFinish == TaskInv /\ AtomicShape /\ Finish => AtomicShape'
<1> SUFFICES ASSUME TaskInv, AtomicShape, Finish PROVE AtomicShape'
  OBVIOUS
<1>1. /\ pc # "idle" /\ pc' = "idle" /\ task' = task
      /\ result' = [result EXCEPT ![task] = IF pc = "succeeded" THEN "ok" ELSE "failed"]
      /\ UNCHANGED <<ops, connected, reconnecting, durable>>
  BY DEF Finish
<1>2. task \in 1..Tasks
  BY <1>1, OperationSize DEF TaskInv, RetryShape
<1>3. result[task] = "none"
  <2>1. task \in Nat
    BY <1>2
  <2>2. QED
    BY <1>1, <1>2, <2>1 DEF AtomicShape
<1>4. \A t \in 1..Tasks : result'[t] = IF t = task THEN IF pc = "succeeded" THEN "ok" ELSE "failed" ELSE result[t]
  BY <1>1, <1>2 DEF TaskInv, TaskTypeOK
<1>5. \A t \in 1..Tasks : Whole(t)' <=> Whole(t)
  BY <1>1, <1>3, <1>4 DEF Whole
<1>6. \A t \in 1..Tasks : Effect(durable, t)' = Effect(durable, t)
  BY <1>1 DEF Effect
<1>7. \A t \in 1..Tasks : result'[t] # "none" => t < task \/ t = task
  BY <1>1, <1>4 DEF AtomicShape
<1>8. QED
  BY <1>1, <1>5, <1>6, <1>7 DEF AtomicShape, Distinct

\* START TRANSACTION opens the transaction the statements go to.
LEMMA AtomicBegin == TaskInv /\ AtomicShape /\ BeginTransaction => AtomicShape'
<1> SUFFICES ASSUME TaskInv, AtomicShape, BeginTransaction PROVE AtomicShape'
  OBVIOUS
<1>1. /\ pc = "begin" /\ Size > 0 /\ pc' = "statement" /\ next' = 1
      /\ work' = <<>> /\ inTransaction' = TRUE /\ durable' = durable \o work
      /\ UNCHANGED <<ops, task, connected, reconnecting, result>>
  BY DEF BeginTransaction, ServerCommits
<1>2. durable' = durable
  <2>1. work = <<>> /\ durable \in Seq(Places)
    BY <1>1 DEF TaskInv, ServerShape, TaskTypeOK, Places
  <2>2. QED
    BY <1>1, <2>1
<1>3. \A t \in 1..Tasks : Whole(t)' <=> Whole(t)
  BY <1>1 DEF Whole
<1>4. \A t \in 1..Tasks : Effect(durable, t)' = Effect(durable, t)
  BY <1>2 DEF Effect
<1>5. IsTransaction'
  BY <1>1 DEF TaskInv, RetryShape, IsTransaction
<1>6. Len(work') = 0 /\ DOMAIN work' = {}
  BY <1>1
<1>7. next' <= Size' + 1 /\ Len(work') = next' - 1
  <2>1. ops[task].size \in Nat /\ Size' = ops[task].size
    BY <1>1, OperationSize DEF TaskInv, RetryShape, Size
  <2>2. QED
    BY <1>1, <1>6, <2>1
<1>8. QED
  BY <1>1, <1>2, <1>3, <1>4, <1>5, <1>6, <1>7 DEF AtomicShape, Distinct

\* A statement joins the work of its transaction, or is all there is to do.
LEMMA AtomicExecute == TaskInv /\ AtomicShape /\ ExecuteStatement => AtomicShape'
<1> SUFFICES ASSUME TaskInv, AtomicShape, ExecuteStatement PROVE AtomicShape'
  OBVIOUS
<1>1. /\ pc = "statement" /\ next <= Size /\ next' = next + 1
      /\ pc' = IF IsTransaction THEN pc ELSE "succeeded"
      /\ UNCHANGED <<ops, task, connected, reconnecting, result, inTransaction, IsTransaction, Size>>
  BY DEF ExecuteStatement, ServerExecutes, session, IsTransaction, Size
<1>2. /\ task \in 1..Tasks /\ ~Whole(task) /\ Effect(durable, task) = {}
      /\ next \in 1..Statements /\ Size \in Nat
  <2>1. task \in 1..Tasks /\ ~Whole(task) /\ Effect(durable, task) = {}
    BY <1>1, NothingYet
  <2>2. TaskTypeOK /\ task # 0
    BY <2>1 DEF TaskInv
  <2>3. next \in Nat /\ next >= 1 /\ Size \in 0..Statements
    BY <2>2, OperationSize, TransactionAssumption DEF TaskTypeOK
  <2>4. QED
    BY <1>1, <2>1, <2>3, TransactionAssumption
<1>3. durable \in Seq(Places) /\ work \in Seq(Places)
  BY DEF TaskInv, TaskTypeOK, Places
<1>4. CASE inTransaction
  <2>1. work' = Append(work, <<task, next>>) /\ durable' = durable /\ IsTransaction /\ pc' = "statement"
    BY <1>1, <1>4 DEF ExecuteStatement, ServerExecutes, AtomicShape
  <2>2. \A t \in 1..Tasks : Whole(t)' <=> Whole(t)
    BY <1>1, <2>1 DEF Whole
  <2>3. \A t \in 1..Tasks : Effect(durable, t)' = Effect(durable, t)
    BY <2>1 DEF Effect
  <2>4. Len(work) = next - 1 /\ \A j \in DOMAIN work : work[j] = <<task, j>>
    BY <1>1, <1>4 DEF AtomicShape
  <2>5. <<task, next>> \in Places
    BY <1>2 DEF Places
  <2>6. /\ Len(work') = next /\ DOMAIN work' = 1..next /\ work'[next] = <<task, next>>
        /\ \A j \in 1..(next - 1) : j \in DOMAIN work /\ work'[j] = work[j]
    BY <1>2, <1>3, <2>1, <2>4, <2>5
  <2>7. \A j \in DOMAIN work' : work'[j] = <<task, j>>
    <3>1. ASSUME NEW j \in 1..next PROVE work'[j] = <<task, j>>
      <4>1. j = next \/ j \in 1..(next - 1)
        BY <1>2
      <4>2. QED
        BY <2>4, <2>6, <4>1
    <3>2. QED
      BY <2>6, <3>1
  <2>8. next' <= Size' + 1 /\ Len(work') = next' - 1
    BY <1>1, <1>2, <2>6
  <2>9. QED
    BY <1>1, <1>4, <2>1, <2>2, <2>3, <2>7, <2>8 DEF AtomicShape, Distinct
<1>5. CASE ~inTransaction
  <2>1. durable' = Append(durable, <<task, next>>) /\ ~IsTransaction /\ pc' = "succeeded" /\ next = 1
    BY <1>1, <1>5 DEF ExecuteStatement, ServerExecutes, AtomicShape
  <2>2. ops[task].size = 1 /\ 1..1 = {1}
    BY <1>2, <2>1, OperationSize DEF TaskInv, IsTransaction, Size
  <2>3. Distinct(durable')
    BY <1>2, <1>3, <2>1, DistinctAppend DEF AtomicShape
  <2>4. ASSUME NEW t \in 1..Tasks
        PROVE  Effect(durable', t) = IF Whole(t)' THEN 1..ops[t].size ELSE {}
    <3>1. Effect(durable', t) = Effect(durable, t) \cup (IF t = task THEN {next} ELSE {})
      BY <1>2, <1>3, <2>1, EffectAppend
    <3>2. CASE t = task
      <4>1. Whole(t)'
        BY <1>1, <2>1, <3>2 DEF Whole
      <4>2. QED
        BY <1>2, <2>1, <2>2, <3>1, <3>2, <4>1
    <3>3. CASE t # task
      <4>1. Whole(t)' <=> Whole(t)
        BY <1>1, <3>3 DEF Whole
      <4>2. QED
        BY <3>1, <3>3, <4>1 DEF AtomicShape
    <3>4. QED
      BY <3>2, <3>3
  <2>5. QED
    BY <1>1, <2>1, <2>3, <2>4 DEF AtomicShape
<1>6. QED
  BY <1>4, <1>5

\* COMMIT makes the whole transaction durable.
LEMMA AtomicCommit == TaskInv /\ AtomicShape /\ CommitTransaction => AtomicShape'
<1> SUFFICES ASSUME TaskInv, AtomicShape, CommitTransaction PROVE AtomicShape'
  OBVIOUS
<1>1. /\ pc = "statement" /\ next > Size /\ pc' = "succeeded" /\ durable' = durable \o work
      /\ UNCHANGED <<ops, task, connected, reconnecting, result>>
  BY DEF CommitTransaction, ServerCommits
<1>2. /\ task \in 1..Tasks /\ ~Whole(task) /\ Effect(durable, task) = {}
      /\ next \in Nat /\ Size \in Nat
  BY <1>1, NothingYet, OperationSize DEF TaskInv, TaskTypeOK, RetryShape
<1>3. durable \in Seq(Places) /\ work \in Seq(Places)
  BY DEF TaskInv, TaskTypeOK, Places
<1>4. inTransaction
  <2>1. ~inTransaction => next = 1 /\ Size = 1
    BY <1>1, <1>2, OperationSize DEF AtomicShape, TaskInv, IsTransaction
  <2>2. QED
    BY <1>1, <2>1
<1>5. next = Size + 1 /\ Len(work) = Size /\ \A j \in DOMAIN work : work[j] = <<task, j>>
  BY <1>1, <1>2, <1>4 DEF AtomicShape
<1>6. \A i \in DOMAIN durable : durable[i][1] < task
  BY <1>4 DEF TaskInv, ServerShape
<1>7. Distinct(durable')
  BY <1>1, <1>2, <1>3, <1>5, <1>6, DistinctConcat DEF AtomicShape
<1>8. ASSUME NEW t \in 1..Tasks
      PROVE  Effect(durable', t) = IF Whole(t)' THEN 1..ops[t].size ELSE {}
  <2>1. Effect(durable', t) = Effect(durable, t) \cup (IF t = task THEN 1..Size ELSE {})
    <3>1. Effect(durable \o work, t) = Effect(durable, t) \cup (IF t = task THEN 1..Len(work) ELSE {})
      BY <1>2, <1>3, <1>5, EffectConcat, SMTT(30)
    <3>2. QED
      BY <1>1, <1>5, <3>1
  <2>2. CASE t = task
    <3>1. Whole(t)' /\ Size = ops[t].size
      BY <1>1, <2>2 DEF Whole, Size
    <3>2. QED
      BY <1>2, <2>1, <2>2, <3>1
  <2>3. CASE t # task
    <3>1. Whole(t)' <=> Whole(t)
      BY <1>1, <2>3 DEF Whole
    <3>2. QED
      BY <2>1, <2>3, <3>1 DEF AtomicShape
  <2>4. QED
    BY <2>2, <2>3
<1>9. QED
  BY <1>1, <1>7, <1>8 DEF AtomicShape

\* No step of a connection that lasts breaks the atomicity.
LEMMA AtomicSteps == TaskInv /\ Atomic /\ [TaskNext]_taskVars => Atomic'
<1> SUFFICES ASSUME TaskInv, Atomic, [TaskNext]_taskVars, losses' = 0 PROVE AtomicShape'
  BY DEF Atomic
<1>1. losses = 0 /\ AtomicShape
  <2>1. losses' = losses \/ losses' = losses + 1
    BY DEF TaskNext, EmptyTransaction, BeginTransaction, ExecuteStatement, StatementFails,
           RollbackTransaction, CommitTransaction, ConnectionLost, Reconnect,
           GiveUpReconnecting, ExecuteDisconnected, Retry, Finish, NextTask, taskVars
  <2>2. losses \in Nat
    BY DEF TaskInv, TaskTypeOK
  <2>3. QED
    BY <2>1, <2>2 DEF Atomic
<1>2. CASE EmptyTransaction \/ StatementFails \/ RollbackTransaction \/ Retry
  <2>1. /\ UNCHANGED <<ops, task, durable, result, connected, reconnecting>>
        /\ pc' \notin {"statement", "succeeded", "idle"} /\ pc \notin {"idle", "succeeded"}
    BY <1>2 DEF EmptyTransaction, StatementFails, RollbackTransaction, Retry, ServerRollsBack, session
  <2>2. QED
    BY <1>1, <2>1, AtomicQuiet
<1>3. CASE BeginTransaction \/ ExecuteStatement \/ CommitTransaction \/ Finish \/ NextTask
  BY <1>1, <1>3, AtomicBegin, AtomicExecute, AtomicCommit, AtomicFinish, AtomicNext
<1>4. CASE ConnectionLost \/ Reconnect \/ GiveUpReconnecting \/ ExecuteDisconnected
  <2>1. connected /\ ~reconnecting /\ losses' # losses + 1
    BY <1>1 DEF AtomicShape
  <2>2. QED
    BY <1>4, <2>1 DEF ConnectionLost, Reconnect, GiveUpReconnecting, ExecuteDisconnected
<1>5. CASE UNCHANGED taskVars
  <2>1. UNCHANGED <<ops, task, pc, next, connected, reconnecting, inTransaction, work, durable, result>>
    BY <1>5 DEF taskVars, session
  <2>2. \A t \in 1..Tasks : Effect(durable, t)' = Effect(durable, t) /\ (Whole(t)' <=> Whole(t))
    BY <2>1 DEF Effect, Whole
  <2>3. QED
    BY <1>1, <2>1, <2>2 DEF AtomicShape, Distinct, Size, IsTransaction
<1>6. QED
  BY <1>2, <1>3, <1>4, <1>5 DEF TaskNext

\* Nothing has an effect in the beginning.
LEMMA AtomicInit == TaskInit => Atomic
<1> SUFFICES ASSUME TaskInit PROVE AtomicShape
  BY DEF Atomic
<1>1. DOMAIN durable = {} /\ pc = "idle" /\ connected /\ ~reconnecting
  BY DEF TaskInit
<1>2. \A t \in 1..Tasks : result[t] = "none" /\ ~Whole(t) /\ Effect(durable, t) = {}
  BY <1>1 DEF TaskInit, Whole, Effect
<1>3. QED
  BY <1>1, <1>2 DEF AtomicShape, Distinct

\* As long as the connection lasts a transaction takes effect once and as a
\* whole, or not at all, and its result says which (TransactionTask::Execute,
\* ExecuteTransaction).
THEOREM TransactionsAreAtomic == TaskSpec => []AtomicWhileConnected
<1>1. TaskInv /\ Atomic => AtomicWhileConnected
  <2> SUFFICES ASSUME TaskInv, Atomic, losses = 0
               PROVE  /\ AllOrNothing
                      /\ \A t \in 1..Tasks :
                            /\ result[t] = "ok" => EffectOf(t) = 1..ops[t].size
                            /\ result[t] = "failed" => EffectOf(t) = {}
    BY DEF AtomicWhileConnected, TaskInv
  <2>1. AtomicShape
    BY DEF Atomic
  <2>2. AllOrNothing
    BY <2>1 DEF AtomicShape, AllOrNothing, EffectOf, Distinct
  <2>3. ASSUME NEW t \in 1..Tasks, result[t] = "failed" PROVE ~Whole(t)
    BY <2>1, <2>3 DEF Whole, AtomicShape, TaskInv, TaskTypeOK
  <2>4. QED
    BY <2>1, <2>2, <2>3 DEF AtomicShape, EffectOf, Whole
<1>2. QED
  BY <1>1, TasksAreConsistent, AtomicInit, AtomicSteps, PTL DEF TaskSpec
================================================================================

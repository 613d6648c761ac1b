------------------------ MODULE ProducerConsumerQueue ------------------------
(***************************************************************************)
(* shared/Threading/ProducerConsumerQueue.h: the blocking queue between    *)
(* the world thread and the worker threads (map updates, asynchronous SQL  *)
(* operations).  Every member function runs under _queueLock from its      *)
(* first line to its last, so a call is one step; the only place the lock  *)
(* is released inside a call is the wait of WaitAndPop, which is why that  *)
(* call is split into Sleep and the three ways of returning.               *)
(***************************************************************************)
EXTENDS Naturals, Sequences

VARIABLES items,          \* _queue, oldest element first
          shutdown,       \* _shutdown
          sleeping        \* the threads blocked on _condition

queueVars == <<items, shutdown, sleeping>>

QueueInit == items = <<>> /\ shutdown = FALSE /\ sleeping = {}

\* _condition.notify_one(): one of the blocked threads, if there is any.
NotifyOne ==
    \/ sleeping = {} /\ UNCHANGED sleeping
    \/ \E c \in sleeping : sleeping' = sleeping \ {c}

Push(v) ==
    /\ items' = Append(items, v)
    /\ NotifyOne
    /\ UNCHANGED shutdown

\* WaitAndPop, the predicate of the wait is false: block, lock released.
Sleep(c) ==
    /\ items = <<>> /\ ~shutdown
    /\ sleeping' = sleeping \cup {c}
    /\ UNCHANGED <<items, shutdown>>

\* A condition variable may wake a thread nobody notified.
SpuriousWake(c) ==
    /\ c \in sleeping
    /\ sleeping' = sleeping \ {c}
    /\ UNCHANGED <<items, shutdown>>

\* WaitAndPop returns the oldest element, Head(items).
Take ==
    /\ items # <<>> /\ ~shutdown
    /\ items' = Tail(items)
    /\ UNCHANGED <<shutdown, sleeping>>

\* WaitAndPop returns with its argument untouched.
GiveUp == shutdown /\ UNCHANGED queueVars

\* Faulty variant: only one of the blocked threads learns of the shutdown.
CancelNotifyOne ==
    /\ items' = <<>> /\ shutdown' = TRUE
    /\ NotifyOne

\* Cancel deletes what is queued and releases every blocked thread.
Cancel ==
    /\ items' = <<>> /\ shutdown' = TRUE
    /\ sleeping' = {}
==============================================================================

--------------------------- MODULE AsyncOperations ---------------------------
(***************************************************************************)
(* What the rest of the server may rely on when it hands SQL operations to *)
(* a DatabaseWorkerPool: each is executed at most once, and one can only   *)
(* overtake as many earlier ones as there are other worker threads.  With  *)
(* one worker thread, the default, operations take effect in the order of  *)
(* the calls, so a load enqueued after a save sees the save.               *)
(***************************************************************************)
EXTENDS Naturals, FiniteSets

CONSTANT Lanes       \* number of worker threads

VARIABLES submitted, \* operations are numbered 1, 2, ... as they are enqueued
          executed,  \* those that have been executed
          closing    \* Close has been called

Init == submitted = 0 /\ executed = {} /\ closing = FALSE

Submit ==
    /\ ~closing /\ submitted' = submitted + 1
    /\ UNCHANGED <<executed, closing>>

Overtaken(k) == {j \in 1..(k - 1) : j \notin executed}

\* Operations in the hands of a worker are still executed while closing.
Execute ==
    /\ \E k \in (1..submitted) \ executed :
           /\ Cardinality(Overtaken(k)) < Lanes
           /\ executed' = executed \cup {k}
    /\ UNCHANGED <<submitted, closing>>

Close == closing' = TRUE /\ UNCHANGED <<submitted, executed>>

Next == Submit \/ Execute \/ Close

Spec == Init /\ [][Next]_<<submitted, executed, closing>>
==============================================================================

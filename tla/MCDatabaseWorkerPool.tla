------------------------- MODULE MCDatabaseWorkerPool -------------------------
(* Model checking DatabaseWorkerPool: the threads are interchangeable. *)
EXTENDS DatabaseWorkerPool, TLC

CONSTANTS t1, t2

MCThreads == {t1, t2}
==============================================================================

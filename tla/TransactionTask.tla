--------------------------- MODULE TransactionTask ---------------------------
(***************************************************************************)
(* shared/Database: TransactionTask::Execute and BasicStatementTask::      *)
(* Execute on one MySQLConnection, and the MySQL session behind it.        *)
(* DirectCommitTransaction has the same control on a synchronous           *)
(* connection.  A step is one request to the server with its answer, one   *)
(* attempt to reconnect, or one decision of TransactionTask::Execute.  The *)
(* server is external: it is modelled by the answers the code tells apart. *)
(***************************************************************************)
EXTENDS Naturals, Sequences

CONSTANTS Tasks,       \* bound: operations executed one after another
          Statements,  \* bound: statements in a transaction
          MaxLosses    \* bound: connection losses in a behaviour

ASSUME TransactionAssumption ==
    Tasks \in Nat \ {0} /\ Statements \in Nat \ {0} /\ MaxLosses \in Nat

LoopBreaker == 5

\* What the worker takes from the queue: a transaction, possibly empty, or a
\* single statement (BasicStatementTask).
Operations == [kind : {"transaction"}, size : 0..Statements]
                  \cup {[kind |-> "plain", size |-> 1]}

VARIABLES ops,          \* the operations, in the order the worker takes them
          task,         \* the one being executed
          pc,           \* where TransactionTask::Execute / ExecuteTransaction is
          next,         \* the statement ExecuteTransaction sends next
          attempt,      \* 0 outside the retry loop, i + 1 inside it
          errno,        \* mysql_errno(m_Mysql): set by every request, also a successful one
          cause,        \* history: what broke the last attempt
          connected,    \* m_Mysql # NULL
          reconnecting, \* m_reconnecting
          inTransaction, work,  \* the server session: uncommitted statements
          durable,      \* the statements that took effect, in order
          result,       \* of each transaction
          losses

session == <<inTransaction, work>>
taskVars == <<ops, task, pc, next, attempt, errno, cause, connected, reconnecting,
          inTransaction, work, durable, result, losses>>

TaskInit ==
    /\ ops \in [1..Tasks -> Operations]
    /\ task = 0 /\ pc = "idle" /\ next = 1 /\ attempt = 0
    /\ errno = "none" /\ cause = "none"
    /\ connected = TRUE /\ reconnecting = FALSE
    /\ inTransaction = FALSE /\ work = <<>> /\ durable = <<>>
    /\ result = [t \in 1..Tasks |-> "none"] /\ losses = 0

------------------------------------------------------------------------------
(* The server.                                                              *)

\* A statement outside a transaction is committed as soon as it is executed
\* (mysql_autocommit(m_Mysql, 1)).
ServerExecutes(stmt) ==
    IF inTransaction
    THEN work' = Append(work, stmt) /\ UNCHANGED <<inTransaction, durable>>
    ELSE durable' = Append(durable, stmt) /\ UNCHANGED session

\* COMMIT; START TRANSACTION commits an open transaction too.
ServerCommits(reopen) ==
    durable' = durable \o work /\ work' = <<>> /\ inTransaction' = reopen

ServerRollsBack ==
    work' = <<>> /\ inTransaction' = FALSE /\ UNCHANGED durable

------------------------------------------------------------------------------
(* MySQLConnection::ExecuteTransaction.                                     *)

Usable == connected /\ ~reconnecting
Size == ops[task].size
IsTransaction == ops[task].kind = "transaction"

\* "if (queries.empty()) return false;": nothing is sent, errno is stale.
EmptyTransaction ==
    /\ pc = "begin" /\ Size = 0
    /\ pc' = "failed"
    /\ UNCHANGED <<ops, task, next, attempt, errno, cause, connected, reconnecting,
                   session, durable, result, losses>>

BeginTransaction ==
    /\ pc = "begin" /\ Size > 0 /\ Usable
    /\ ServerCommits(TRUE)
    /\ errno' = "none" /\ pc' = "statement" /\ next' = 1
    /\ UNCHANGED <<ops, task, attempt, cause, connected, reconnecting, result, losses>>

ExecuteStatement ==
    /\ pc = "statement" /\ Usable /\ next <= Size
    /\ ServerExecutes(<<task, next>>)
    /\ errno' = "none" /\ next' = next + 1
    /\ pc' = IF IsTransaction THEN pc ELSE "succeeded"
    /\ UNCHANGED <<ops, task, attempt, cause, connected, reconnecting, result, losses>>

\* ER_LOCK_DEADLOCK: the server has rolled the whole transaction back.
\* ER_DUP_ENTRY and the rest: it has skipped the statement.
StatementFails ==
    /\ pc = "statement" /\ Usable /\ next <= Size
    /\ \/ errno' = "deadlock" /\ ServerRollsBack
       \/ errno' = "other" /\ UNCHANGED <<session, durable>>
    /\ cause' = errno' /\ pc' = IF IsTransaction THEN "rollback" ELSE "aborted"
    /\ UNCHANGED <<ops, task, next, attempt, connected, reconnecting, result, losses>>

\* Faulty variant: ExecuteTransaction returns false without rolling back.
AbandonTransaction ==
    /\ pc = "rollback" /\ Usable
    /\ errno' = "none" /\ pc' = "failed"
    /\ UNCHANGED <<ops, task, next, attempt, cause, connected, reconnecting, session,
                   durable, result, losses>>

\* Faulty variant: the errno of the failed statement survives the ROLLBACK.
RollbackKeepsErrno ==
    /\ pc = "rollback" /\ Usable
    /\ ServerRollsBack
    /\ errno' = cause /\ pc' = "failed"
    /\ UNCHANGED <<ops, task, next, attempt, cause, connected, reconnecting, result, losses>>

\* The ROLLBACK is a request of its own: it leaves its own errno behind.
RollbackTransaction ==
    /\ pc = "rollback" /\ Usable
    /\ ServerRollsBack
    /\ errno' = "none" /\ pc' = "failed"
    /\ UNCHANGED <<ops, task, next, attempt, cause, connected, reconnecting, result, losses>>

CommitTransaction ==
    /\ pc = "statement" /\ Usable /\ next > Size
    /\ ServerCommits(FALSE)
    /\ errno' = "none" /\ pc' = "succeeded"
    /\ UNCHANGED <<ops, task, next, attempt, cause, connected, reconnecting, result, losses>>

\* A request is about to be sent.
Sending == (pc = "begin" /\ Size > 0) \/ pc \in {"statement", "rollback"}

\* Where the caller of Execute goes on when Execute returns false: the answers
\* to START TRANSACTION, ROLLBACK and COMMIT are ignored.
OnFalse ==
    /\ next' = IF pc = "begin" THEN 1 ELSE next
    /\ pc' = CASE pc = "begin" -> "statement"
               [] pc = "statement" /\ ~IsTransaction -> "aborted"
               [] pc = "statement" /\ IsTransaction /\ next <= Size -> "rollback"
               [] pc = "statement" /\ IsTransaction /\ next > Size -> "succeeded"
               [] pc = "rollback" -> "failed"

\* Every Execute on a connection whose reconnection was given up.
ExecuteDisconnected ==
    /\ Sending /\ ~connected
    /\ OnFalse
    /\ UNCHANGED <<ops, task, attempt, errno, cause, connected, reconnecting, session,
                   durable, result, losses>>

\* CR_SERVER_GONE_ERROR, CR_SERVER_LOST: the session is gone with its
\* uncommitted work; the request may or may not have been executed before.
ConnectionLost ==
    /\ Sending /\ Usable
    /\ losses < MaxLosses /\ losses' = losses + 1
    /\ reconnecting' = TRUE
    /\ work' = <<>> /\ inTransaction' = FALSE
    /\ \/ UNCHANGED durable
       \/ /\ pc = "statement" /\ next <= Size /\ ~inTransaction
          /\ durable' = Append(durable, <<task, next>>)
       \/ /\ pc = "statement" /\ next > Size
          /\ durable' = durable \o work
    /\ UNCHANGED <<ops, task, pc, next, attempt, errno, cause, connected, result>>

\* _HandleMySQLErrno: Open() succeeds and the same request is sent again, in a
\* fresh session.
Reconnect ==
    /\ reconnecting /\ reconnecting' = FALSE
    /\ UNCHANGED <<ops, task, pc, next, attempt, errno, cause, connected, session,
                   durable, result, losses>>

\* Open() fails with an errno _HandleMySQLErrno does not retry: m_Mysql stays
\* NULL for good and the request returns false.
GiveUpReconnecting ==
    /\ reconnecting /\ reconnecting' = FALSE
    /\ connected' = FALSE /\ errno' = "none"
    /\ OnFalse
    /\ UNCHANGED <<ops, task, attempt, cause, session, durable, result, losses>>

------------------------------------------------------------------------------
(* TransactionTask::Execute.                                                *)

\* "if (m_conn->GetLastError() == 1213)", then at most loopBreaker times.
RetryWanted == IF attempt = 0 THEN errno = "deadlock" ELSE attempt < LoopBreaker

\* Faulty variant: any failure is retried, without end.
RetryForever ==
    /\ pc = "failed"
    /\ pc' = "begin" /\ UNCHANGED attempt
    /\ UNCHANGED <<ops, task, next, errno, cause, connected, reconnecting, session,
                   durable, result, losses>>

Retry ==
    /\ pc = "failed" /\ RetryWanted
    /\ attempt' = attempt + 1 /\ pc' = "begin"
    /\ UNCHANGED <<ops, task, next, errno, cause, connected, reconnecting, session,
                   durable, result, losses>>

Finish ==
    /\ \/ pc \in {"succeeded", "aborted"}
       \/ pc = "failed" /\ ~RetryWanted
    /\ result' = [result EXCEPT ![task] = IF pc = "succeeded" THEN "ok" ELSE "failed"]
    /\ pc' = "idle"
    /\ UNCHANGED <<ops, task, next, attempt, errno, cause, connected, reconnecting,
                   session, durable, losses>>

\* DatabaseWorker::WorkerThread takes the next operation from the queue.
NextTask ==
    /\ pc = "idle" /\ task < Tasks
    /\ task' = task + 1 /\ attempt' = 0 /\ cause' = "none" /\ next' = 1
    /\ pc' = IF ops[task + 1].kind = "transaction" THEN "begin" ELSE "statement"
    /\ UNCHANGED <<ops, errno, connected, reconnecting, session, durable, result,
                   losses>>

TaskNext ==
    \/ EmptyTransaction \/ BeginTransaction \/ ExecuteStatement \/ StatementFails
    \/ RollbackTransaction \/ CommitTransaction
    \/ ConnectionLost \/ Reconnect \/ GiveUpReconnecting \/ ExecuteDisconnected
    \/ Retry \/ Finish \/ NextTask

TaskSpec == TaskInit /\ [][TaskNext]_taskVars

\* The worker thread runs and the server answers; nothing forces an error.
FairTaskSpec == TaskSpec /\ WF_taskVars(TaskNext)

------------------------------------------------------------------------------
(* Properties.                                                              *)

Effect(q, t) == {q[i][2] : i \in {k \in DOMAIN q : q[k][1] = t}}
EffectOf(t) == Effect(durable, t)

TaskTypeOK ==
    /\ ops \in [1..Tasks -> Operations]
    /\ task \in 0..Tasks /\ next \in 1..(Statements + 1)
    /\ pc \in {"begin", "statement", "rollback", "failed", "aborted", "succeeded",
              "idle"}
    /\ attempt \in 0..LoopBreaker
    /\ errno \in {"none", "deadlock", "other"} /\ cause \in {"none", "deadlock", "other"}
    /\ connected \in BOOLEAN /\ reconnecting \in BOOLEAN /\ inTransaction \in BOOLEAN
    /\ work \in Seq((1..Tasks) \X (1..Statements))
    /\ durable \in Seq((1..Tasks) \X (1..Statements))
    /\ result \in [1..Tasks -> {"none", "ok", "failed"}]
    /\ losses \in 0..MaxLosses

\* A transaction takes effect as a whole or not at all, and no statement twice,
\* in every state and across the transactions that follow on the connection.
AllOrNothing ==
    /\ \A t \in 1..Tasks : EffectOf(t) \in {{}, 1..ops[t].size}
    /\ \A i, j \in DOMAIN durable : durable[i] = durable[j] => i = j

\* As long as the connection lasts, whatever statements fail and whatever is
\* retried, no transaction takes effect in part, and TransactionTask::Execute
\* returns true exactly for what took effect.
AtomicWhileConnected ==
    /\ TaskTypeOK
    /\ losses = 0 =>
          /\ AllOrNothing
          /\ \A t \in 1..Tasks :
                /\ result[t] = "ok" => EffectOf(t) = 1..ops[t].size
                /\ result[t] = "failed" => EffectOf(t) = {}

\* Whatever the connection goes through, the statements that take effect do so
\* in the order in which they were appended (a lost answer may repeat one).
InAppendedOrder ==
    \A i, j \in DOMAIN durable :
        i < j => \/ durable[i][1] < durable[j][1]
                 \/ /\ durable[i][1] = durable[j][1]
                    /\ durable[i][2] <= durable[j][2]

\* Errors, losses and deadlocks never hold a worker for ever.
EveryTaskEnds == <>(pc = "idle" /\ task = Tasks)

\* What Transaction.cpp says of errno 1213: a transaction the server chose as
\* the victim of a deadlock is tried again before it is given up.
DeadlockIsRetried ==
    (/\ pc = "idle" /\ task > 0 /\ IsTransaction
     /\ result[task] = "failed" /\ cause = "deadlock")
        => attempt = LoopBreaker
==============================================================================

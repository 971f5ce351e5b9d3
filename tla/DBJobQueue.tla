----------------------------- MODULE DBJobQueue -----------------------------
(***************************************************************************)
(* internal/jobqueue/dbjobqueue: the job queue of osbuild-composer kept in *)
(* a PostgreSQL database, for any number of composers.                     *)
(*                                                                         *)
(* Every operation takes a connection from a pool of MaxConns and waits    *)
(* for one if there is none.  FinishJob and CancelJob are one transaction  *)
(* each and one action.  Enqueue is a transaction of several statements:   *)
(* its foreign keys lock the rows of the dependencies until it commits,    *)
(* and Dequeue skips rows that are locked.  Dequeue keeps its connection   *)
(* while it waits for a notification, and makes two transactions: the one  *)
(* that starts the job and the one that inserts its heartbeat.             *)
(***************************************************************************)
EXTENDS Naturals, FiniteSets

CONSTANTS
    Jobs, Types,
    Tokens,        \* the tokens Dequeue draws from (uuid.New())
    Results, Nil,
    Dequeuers,     \* goroutines that call Dequeue, one per polling worker
    Accepts,       \* the job types each of them asks for
    MaxConns,      \* connections in the pool
    Faults         \* what may go wrong: a subset of FaultKinds

(***************************************************************************)
(* "timeout": the context of a waiting Dequeue ends (request_job_timeout); *)
(* "lost": it ends, or the connection breaks, anywhere in Dequeue;         *)
(* "query": sqlDequeue fails on a connection that stays usable;            *)
(* "rollback": an Enqueue fails half way; "crash": composer stops.         *)
(***************************************************************************)
FaultKinds == {"timeout", "lost", "query", "rollback", "crash"}

ASSUME DBAssumption ==
    /\ Nil \notin Jobs \cup Tokens \cup Results
    /\ Accepts \in [Dequeuers -> (SUBSET Types) \ {{}}]
    /\ MaxConns \in Nat \ {0}
    /\ Faults \subseteq FaultKinds

VARIABLES
    table,         \* the table jobs, with the rows of job_dependencies: id -> row
    heartbeats,    \* the table heartbeats: token -> "none", or its age: "fresh" or "old"
    enqueuing,     \* the transactions of Enqueue that are open
    call,          \* dequeuer -> where its call is, and the token of the job it started
    notified,      \* dequeuers with a notification to receive
    rolledBack,    \* history: an Enqueue with dependencies was rolled back
    cutOff         \* history: tokens of jobs whose Dequeue ended before it inserted the heartbeat

history == <<rolledBack, cutOff>>

vars == <<table, heartbeats, enqueuing, call, notified, history>>

Row == [Type : Types, Dependencies : SUBSET Jobs, Token : Tokens \cup {Nil},
        Result : Results \cup {Nil}, started_at : BOOLEAN, finished_at : BOOLEAN,
        canceled : BOOLEAN]

NewRow(type, deps) ==
    [Type |-> type, Dependencies |-> deps, Token |-> Nil, Result |-> Nil,
     started_at |-> FALSE, finished_at |-> FALSE, canceled |-> FALSE]

Insert == [id : Jobs, type : Types, deps : SUBSET Jobs]

At(where) == [at |-> where, token |-> Nil]

Idle == At("idle")

\* Connections that are not in the pool.
Used == Cardinality({d \in Dequeuers : call[d] # Idle}) + Cardinality(enqueuing)

Acquires == Used < MaxConns

Running(j) == table[j].started_at /\ ~table[j].finished_at /\ ~table[j].canceled

(***************************************************************************)
(* Types, the constraints of the table jobs that matter (001_jobs.sql),    *)
(* and that the pool is not overdrawn.                                     *)
(***************************************************************************)
TypeOK ==
    /\ DOMAIN table \subseteq Jobs
    /\ table \in [DOMAIN table -> Row]
    /\ \A j \in DOMAIN table :
          /\ table[j].finished_at => table[j].started_at /\ ~table[j].canceled
          /\ table[j].started_at <=> table[j].Token # Nil
          /\ table[j].Dependencies \subseteq DOMAIN table
    /\ heartbeats \in [Tokens -> {"none", "fresh", "old"}]
    /\ enqueuing \subseteq Insert
    /\ call \in [Dequeuers -> [at : {"idle", "listening", "waiting", "misled", "started"},
                               token : Tokens \cup {Nil}]]
    /\ notified \subseteq Dequeuers
    /\ Used <= MaxConns
    /\ rolledBack \in BOOLEAN
    /\ cutOff \subseteq Tokens

-----------------------------------------------------------------------------
\* NOTIFY reaches the connections that listen.
Notify == notified' = notified \cup {d \in Dequeuers : call[d] # Idle}

\* The foreign key of job_dependencies: the row must exist, and is locked.
EnqueueBegin(id, type, deps) ==
    /\ Acquires
    /\ id \notin DOMAIN table \cup {e.id : e \in enqueuing}
    /\ deps \subseteq DOMAIN table
    /\ enqueuing' = enqueuing \cup {[id |-> id, type |-> type, deps |-> deps]}
    /\ UNCHANGED <<table, heartbeats, call, notified, history>>

\* mutant: NOTIFY only for a job that is ready
EnqueueCommit_ReadyOnly(e) ==
    /\ e \in enqueuing
    /\ enqueuing' = enqueuing \ {e}
    /\ table' = [j \in DOMAIN table \cup {e.id} |->
                    IF j = e.id THEN NewRow(e.type, e.deps) ELSE table[j]]
    /\ IF \A d \in e.deps : table[d].finished_at THEN Notify ELSE UNCHANGED notified
    /\ UNCHANGED <<heartbeats, call, history>>

\* mutant: the connection is not released
EnqueueCommit_Leaks(e) ==
    /\ e \in enqueuing
    /\ table' = [j \in DOMAIN table \cup {e.id} |->
                    IF j = e.id THEN NewRow(e.type, e.deps) ELSE table[j]]
    /\ e.id \notin DOMAIN table
    /\ Notify
    /\ UNCHANGED <<heartbeats, enqueuing, call, history>>

EnqueueCommit(e) ==
    /\ e \in enqueuing
    /\ enqueuing' = enqueuing \ {e}
    /\ table' = [j \in DOMAIN table \cup {e.id} |->
                    IF j = e.id THEN NewRow(e.type, e.deps) ELSE table[j]]
    /\ Notify
    /\ UNCHANGED <<heartbeats, call, history>>

EnqueueRollback(e) ==
    /\ "rollback" \in Faults
    /\ e \in enqueuing
    /\ enqueuing' = enqueuing \ {e}
    /\ rolledBack' = (rolledBack \/ e.deps # {})
    /\ UNCHANGED <<table, heartbeats, call, notified, cutOff>>

-----------------------------------------------------------------------------
\* Acquire a connection and LISTEN.
Dequeue(d) ==
    /\ call[d] = Idle
    /\ Acquires
    /\ call' = [call EXCEPT ![d] = At("listening")]
    /\ notified' = notified \ {d}
    /\ UNCHANGED <<table, heartbeats, enqueuing, history>>

\* mutant: the dependencies of a canceled job do not count
ready_jobs_Canceled ==
    {j \in DOMAIN table :
        /\ ~table[j].started_at
        /\ ~table[j].canceled
        /\ \A d \in table[j].Dependencies : table[d].finished_at \/ table[d].canceled}

\* The view of 001_jobs.sql.
ready_jobs ==
    {j \in DOMAIN table :
        /\ ~table[j].started_at
        /\ ~table[j].canceled
        /\ \A d \in table[j].Dependencies : table[d].finished_at}

\* sqlDequeue: FOR UPDATE SKIP LOCKED.
Available(d) ==
    {j \in ready_jobs : table[j].Type \in Accepts[d] /\ ~\E e \in enqueuing : j \in e.deps}

\* mutant: the token is not stored
DequeueStart_NoToken(d, j, token) ==
    /\ call[d] = At("listening")
    /\ j \in Available(d)
    /\ \A x \in DOMAIN table : table[x].Token # token
    /\ table' = [table EXCEPT ![j].started_at = TRUE]
    /\ call' = [call EXCEPT ![d] = [at |-> "started", token |-> token]]
    /\ UNCHANGED <<heartbeats, enqueuing, notified, history>>

DequeueStart(d, j, token) ==
    /\ call[d] = At("listening")
    /\ j \in Available(d)
    /\ \A x \in DOMAIN table : table[x].Token # token
    /\ table' = [table EXCEPT ![j].started_at = TRUE, ![j].Token = token]
    /\ call' = [call EXCEPT ![d] = [at |-> "started", token |-> token]]
    /\ UNCHANGED <<heartbeats, enqueuing, notified, history>>

DequeueNone(d) ==
    /\ call[d] = At("listening")
    /\ Available(d) = {}
    /\ call' = [call EXCEPT ![d] = At("waiting")]
    /\ UNCHANGED <<table, heartbeats, enqueuing, notified, history>>

(***************************************************************************)
(* errors.As(err, &pgx.ErrNoRows) is true of every error: a Dequeue whose  *)
(* query failed waits as if there were no job, and is misled if there is.  *)
(***************************************************************************)
DequeueFails(d) ==
    /\ "query" \in Faults
    /\ call[d] = At("listening")
    /\ call' = [call EXCEPT ![d] = At("misled")]
    /\ UNCHANGED <<table, heartbeats, enqueuing, notified, history>>

Waits(d) == call[d] \in {At("waiting"), At("misled")}

WaitForNotification(d) ==
    /\ Waits(d)
    /\ d \in notified
    /\ notified' = notified \ {d}
    /\ call' = [call EXCEPT ![d] = At("listening")]
    /\ UNCHANGED <<table, heartbeats, enqueuing, history>>

\* mutant: the heartbeat is not inserted
InsertHeartbeat_Missing(d) ==
    /\ call[d].at = "started"
    /\ call' = [call EXCEPT ![d] = Idle]
    /\ UNCHANGED <<table, heartbeats, enqueuing, notified, history>>

\* sqlInsertHeartbeat; then the job and its token are returned.
InsertHeartbeat(d) ==
    /\ call[d].at = "started"
    /\ heartbeats' = [heartbeats EXCEPT ![call[d].token] = "fresh"]
    /\ call' = [call EXCEPT ![d] = Idle]
    /\ UNCHANGED <<table, enqueuing, notified, history>>

DequeueTimeout(d) ==
    /\ "timeout" \in Faults
    /\ Waits(d)
    /\ call' = [call EXCEPT ![d] = Idle]
    /\ UNCHANGED <<table, heartbeats, enqueuing, notified, history>>

\* Dequeue returns an error, whatever it has done in the database (on a broken
\* connection or with an ended context WaitForNotification fails as well).
DequeueLost(d) ==
    /\ "lost" \in Faults
    /\ call[d] # Idle
    /\ call' = [call EXCEPT ![d] = Idle]
    /\ cutOff' = cutOff \cup ({call[d].token} \ {Nil})
    /\ UNCHANGED <<table, heartbeats, enqueuing, notified, rolledBack>>

-----------------------------------------------------------------------------
(***************************************************************************)
(* FinishJob scans four columns into five destinations, so its checks of   *)
(* `canceled' and `finished' never see anything.  What refuses the job is  *)
(* that it has no heartbeat, the WHERE of sqlFinishJob, or the constraint  *)
(* not_finished_when_canceled; the transaction is then rolled back.        *)
(***************************************************************************)
Finishable(j) ==
    /\ table[j].Token # Nil
    /\ heartbeats[table[j].Token] # "none"
    /\ ~table[j].finished_at
    /\ ~table[j].canceled

FinishJob(j, result) ==
    /\ Acquires
    /\ j \in DOMAIN table
    /\ Finishable(j)
    /\ heartbeats' = [t \in Tokens |-> IF t = table[j].Token THEN "none" ELSE heartbeats[t]]
    /\ table' = [table EXCEPT ![j].finished_at = TRUE, ![j].Result = result]
    /\ Notify
    /\ UNCHANGED <<enqueuing, call, history>>

CancelJob(j) ==
    /\ Acquires
    /\ j \in DOMAIN table
    /\ ~table[j].finished_at
    /\ table' = [table EXCEPT ![j].canceled = TRUE]
    /\ UNCHANGED <<heartbeats, enqueuing, call, notified, history>>

RefreshHeartbeat(token) ==
    /\ Acquires
    /\ heartbeats[token] # "none"
    /\ heartbeats' = [heartbeats EXCEPT ![token] = "fresh"]
    /\ UNCHANGED <<table, enqueuing, call, notified, history>>

Age(token) ==
    /\ heartbeats[token] = "fresh"
    /\ heartbeats' = [heartbeats EXCEPT ![token] = "old"]
    /\ UNCHANGED <<table, enqueuing, call, notified, history>>

\* The server closes the connections: what was not committed is undone.
Crash ==
    /\ "crash" \in Faults
    /\ enqueuing' = {}
    /\ call' = [d \in Dequeuers |-> Idle]
    /\ notified' = {}
    /\ cutOff' = cutOff \cup ({call[d].token : d \in Dequeuers} \ {Nil})
    /\ UNCHANGED <<table, heartbeats, rolledBack>>

-----------------------------------------------------------------------------
Init ==
    /\ table = [j \in {} |-> Nil]
    /\ heartbeats = [t \in Tokens |-> "none"]
    /\ enqueuing = {}
    /\ call = [d \in Dequeuers |-> Idle]
    /\ notified = {}
    /\ rolledBack = FALSE
    /\ cutOff = {}

Dequeuing(d) ==
    \/ Dequeue(d)
    \/ \E j \in Jobs, token \in Tokens : DequeueStart(d, j, token)
    \/ DequeueNone(d)
    \/ WaitForNotification(d)
    \/ InsertHeartbeat(d)

Next ==
    \/ \E id \in Jobs, type \in Types, deps \in SUBSET DOMAIN table : EnqueueBegin(id, type, deps)
    \/ \E e \in enqueuing : EnqueueCommit(e) \/ EnqueueRollback(e)
    \/ \E d \in Dequeuers : Dequeuing(d) \/ DequeueFails(d) \/ DequeueTimeout(d) \/ DequeueLost(d)
    \/ \E j \in Jobs, result \in Results : FinishJob(j, result)
    \/ \E j \in Jobs : CancelJob(j)
    \/ \E token \in Tokens : RefreshHeartbeat(token) \/ Age(token)
    \/ Crash

Spec == Init /\ [][Next]_vars

(***************************************************************************)
(* Fairness: the database commits what was begun, the goroutines of        *)
(* Dequeue keep running and workers keep polling.  Without                 *)
(* request_job_timeout no deadline ever wakes a Dequeue that sleeps.       *)
(***************************************************************************)
FairSpec ==
    /\ Spec
    /\ WF_vars(\E e \in enqueuing : EnqueueCommit(e))
    /\ \A d \in Dequeuers : WF_vars(Dequeuing(d))

-----------------------------------------------------------------------------
(***************************************************************************)
(* dbjobqueue implements the interface JobQueue: job by job, a status, a   *)
(* token and a result, whatever transactions are open at the time.         *)
(***************************************************************************)
status(row) ==
    IF row.canceled THEN "canceled"
    ELSE IF row.finished_at THEN "finished"
    ELSE IF row.started_at THEN "running" ELSE "queued"

AbstractJobs ==
    [j \in DOMAIN table |->
        [Type |-> table[j].Type, Dependencies |-> table[j].Dependencies,
         status |-> status(table[j]), Token |-> table[j].Token, Result |-> table[j].Result]]

Abstract == INSTANCE JobQueue WITH jobs <- AbstractJobs

ImplementsJobQueue == Abstract!Spec

(***************************************************************************)
(* "Goes through all running jobs, removing any unresponsive ones"         *)
(* (WatchHeartbeats): a running job has the heartbeat by which it is       *)
(* watched, or the Dequeue that started it is about to insert it.  Dequeue *)
(* does so in a second transaction: only a call that failed or was cut off *)
(* by a stop of composer between the two leaves a job that runs for ever.  *)
(***************************************************************************)
RunningIsWatched ==
    \A j \in DOMAIN table :
        Running(j) => \/ heartbeats[table[j].Token] # "none"
                      \/ \E d \in Dequeuers : call[d].token = table[j].Token
                      \/ table[j].Token \in cutOff

\* From some time on composer does not stop and no call of Dequeue fails.
Calm == <>[][~Crash /\ ~\E d \in Dequeuers : DequeueLost(d)]_vars

\* Everybody who could take a job of this type sleeps after a failed query.
AllMisled(type) == \A d \in Dequeuers : type \in Accepts[d] => call[d] = At("misled")

(***************************************************************************)
(* "Dequeues a job, blocking until one is available" (jobqueue.go): a job  *)
(* that is ready is started or canceled in the end, although Dequeue skips *)
(* rows that are locked and then sleeps until a notification, and whatever *)
(* failed before, as long as one of those who may take it is not misled.   *)
(* (Nobody wakes the misled ones before the next notification, nor those   *)
(* that have skipped a row when the transaction that locked it is rolled   *)
(* back.)                                                                  *)
(***************************************************************************)
ReadyJobStarts ==
    Calm => \A j \in Jobs :
        (j \in DOMAIN table /\ j \in ready_jobs /\ \E d \in Dequeuers : table[j].Type \in Accepts[d])
            ~> \/ rolledBack
               \/ j \in DOMAIN table /\ (table[j].started_at \/ table[j].canceled)
               \/ j \in DOMAIN table /\ AllMisled(table[j].Type)

(***************************************************************************)
(* "It is safe for concurrent use" (jobqueue.go): while fewer workers poll *)
(* than the pool has connections, the calls that would give them something *)
(* to do get one, although Dequeue keeps its connection while it sleeps.   *)
(***************************************************************************)
StaysAvailable == Cardinality(Dequeuers) < MaxConns => []<>Acquires
=============================================================================

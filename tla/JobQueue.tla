------------------------------ MODULE JobQueue ------------------------------
(***************************************************************************)
(* What package jobqueue promises (internal/jobqueue/jobqueue.go): the     *)
(* interface JobQueue, free of the way a queue is stored.  A job is        *)
(* enqueued once, is handed to one worker when every dependency has        *)
(* finished, and then either finishes with a result or is canceled.        *)
(* fsjobqueue and dbjobqueue are two implementations of it.                *)
(***************************************************************************)

CONSTANTS Jobs,      \* the job ids a run of the system may create
          Types,     \* the job types
          Tokens,    \* the tokens handed to workers (never uuid.Nil)
          Results,   \* the results a worker may report
          Nil        \* no token, no result

VARIABLE jobs        \* the enqueued jobs: id -> parameters and status

Job == [Type : Types, Dependencies : SUBSET Jobs,
        status : {"queued", "running", "finished", "canceled"},
        Token : Tokens \cup {Nil}, Result : Results \cup {Nil}]

With(id, j) == [x \in DOMAIN jobs \cup {id} |-> IF x = id THEN j ELSE jobs[x]]

-----------------------------------------------------------------------------
(***************************************************************************)
(* "All dependencies must already exist."                                  *)
(***************************************************************************)
Enqueue(id, type, deps) ==
    /\ id \notin DOMAIN jobs
    /\ deps \subseteq DOMAIN jobs
    /\ jobs' = With(id, [Type |-> type, Dependencies |-> deps,
                         status |-> "queued", Token |-> Nil, Result |-> Nil])

(***************************************************************************)
(* "The job isn't run until all of them have finished."  The token is new. *)
(***************************************************************************)
Dequeue(id, token) ==
    /\ id \in DOMAIN jobs
    /\ jobs[id].status = "queued"
    /\ \A d \in jobs[id].Dependencies : jobs[d].status = "finished"
    /\ \A x \in DOMAIN jobs : jobs[x].Token # token
    /\ jobs' = [jobs EXCEPT ![id].status = "running", ![id].Token = token]

FinishJob(id, result) ==
    /\ id \in DOMAIN jobs
    /\ jobs[id].status = "running"
    /\ jobs' = [jobs EXCEPT ![id].status = "finished", ![id].Result = result]

(***************************************************************************)
(* "Does nothing if the job has already finished."                         *)
(***************************************************************************)
CancelJob(id) ==
    /\ id \in DOMAIN jobs
    /\ jobs[id].status \in {"queued", "running"}
    /\ jobs' = [jobs EXCEPT ![id].status = "canceled"]

-----------------------------------------------------------------------------
Init == \E S \in SUBSET Jobs : jobs \in [S -> {j \in Job : j.status = "running"}]

Next ==
    \/ \E id \in Jobs, type \in Types, deps \in SUBSET Jobs : Enqueue(id, type, deps)
    \/ \E id \in Jobs, token \in Tokens : Dequeue(id, token)
    \/ \E id \in Jobs, result \in Results : FinishJob(id, result)
    \/ \E id \in Jobs : CancelJob(id)

Spec == Init /\ [][Next]_jobs
=============================================================================

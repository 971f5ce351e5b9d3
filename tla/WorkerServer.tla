---------------------------- MODULE WorkerServer ----------------------------
(***************************************************************************)
(* internal/worker and cmd/osbuild-worker: the API through which workers   *)
(* take jobs from the queue, say that they are alive, upload artifacts and *)
(* report results, and the worker processes on the other side of it.       *)
(*                                                                         *)
(* The queue is the abstract JobQueue, which FSJobQueue and DBJobQueue     *)
(* implement, with the tokens and heartbeats of one of the two.  Each of   *)
(* its operations is atomic, but a handler of the server makes several,    *)
(* and other handlers run between them: the steps of FinishJob are in      *)
(* `finishing', those of GetJob in `polls'.                                *)
(*                                                                         *)
(* A worker process runs each kind of job in a goroutine of its own, here  *)
(* a slot.  Jobs are osbuild jobs with one image file.                     *)
(***************************************************************************)
EXTENDS Naturals

CONSTANTS
    Jobs, Tokens,
    Slots,         \* goroutines that run jobs, in all worker processes
    Process,       \* slot -> its worker process
    Backend,       \* the queue: "fs" or "db"
    Remote,        \* the processes that are osbuild-remote-worker services
    Nil,           \* no job, no token, no process
    Faults,        \* what may go wrong: a subset of FaultKinds
    MaxRestarts    \* bound on the restarts of composer

(***************************************************************************)
(* "lost": requests and answers get lost; "worker": worker processes die;  *)
(* "disk": artifacts/ cannot be written, or the queue cannot be read.      *)
(***************************************************************************)
FaultKinds == {"lost", "worker", "disk"}

ASSUME WorkerAssumption ==
    /\ Nil \notin Jobs \cup Tokens \cup {Process[s] : s \in Slots}
    /\ Backend \in {"fs", "db"}
    /\ Remote \subseteq {Process[s] : s \in Slots}
    /\ Faults \subseteq FaultKinds
    /\ MaxRestarts \in Nat

VARIABLES
    jobs,          \* the queue (see JobQueue)
    jobIdByToken,  \* token -> job, or Nil
    heartbeats,    \* token -> "none", or its age: "fresh" or "old"
    tmp,           \* token -> the image in artifacts/tmp/$TOKEN, "none" without a directory
    final,         \* job -> the image in artifacts/$JOB, likewise
    handle,        \* token -> where the file of an upload in progress is
    deleted,       \* jobs whose artifacts DeleteArtifacts has removed
    stranded,      \* history: jobs whose FinishJob ended before it moved the artifacts
    finishing,     \* calls of Server.FinishJob that have looked up their token
    expired,       \* tokens WatchHeartbeats has yet to finish
    polls,         \* calls of GetJob that have looked up their token
    slot,          \* slot -> what it is doing
    restarts       \* restarts of composer so far

queue     == <<jobs, jobIdByToken, heartbeats>>
artifacts == <<tmp, final, handle, deleted, stranded>>
handlers  == <<finishing, expired, polls>>
vars      == <<queue, artifacts, handlers, slot, restarts>>

(***************************************************************************)
(* OSBuildJobResult: the success flag, OSBuildOutput and its success, and  *)
(* whether TargetErrors is not empty.  Null is what JSON null decodes to.  *)
(***************************************************************************)
OSBuildJobResult == [Success : BOOLEAN, Output : {"none", "good", "bad"},
                     TargetErrors : BOOLEAN]

Null == [Success |-> FALSE, Output |-> "none", TargetErrors |-> FALSE]

Built == [Null EXCEPT !.Output = "good"]

Queue == INSTANCE JobQueue WITH Types <- {"osbuild"}, Results <- OSBuildJobResult

File == {"empty", "partial", "complete"}

Idle == [st |-> "idle", token |-> Nil, result |-> Null]

\* The process has ended for good.
Gone == [Idle EXCEPT !.st = "gone"]

Busy(s) == slot[s] \notin {Idle, Gone}

\* The call belongs to a worker's UpdateJob (its slot), or to the watcher.
Call == [by : Slots \cup {Nil}, token : Tokens, id : Jobs,
         result : OSBuildJobResult, step : {"finish", "move"}]

GetJobCall == [token : Tokens, id : Jobs, to : {Process[s] : s \in Slots} \cup {Nil},
               step : {"refresh", "status"}]

(***************************************************************************)
(* Types, and that an open upload points at an unfinished file.            *)
(***************************************************************************)
TypeOK ==
    /\ DOMAIN jobs \subseteq Jobs
    /\ \A j \in DOMAIN jobs : jobs[j] \in Queue!Job
    /\ jobIdByToken \in [Tokens -> Jobs \cup {Nil}]
    /\ heartbeats \in [Tokens -> {"none", "fresh", "old"}]
    /\ tmp \in [Tokens -> File \cup {"none"}]
    /\ final \in [Jobs -> File \cup {"none"}]
    /\ handle \in [Tokens -> {"closed", "tmp", "final", "deleted"}]
    /\ \A t \in Tokens : handle[t] = "tmp" => tmp[t] = "partial"
    /\ deleted \subseteq Jobs
    /\ stranded \subseteq Jobs
    /\ finishing \subseteq Call
    /\ expired \subseteq Tokens
    /\ polls \subseteq GetJobCall
    /\ slot \in [Slots -> [st : {"idle", "gone", "building", "upload", "copying", "targets",
                               "update", "updating"},
                         token : Tokens \cup {Nil},
                         result : OSBuildJobResult]]
    /\ restarts \in 0 .. MaxRestarts

-----------------------------------------------------------------------------
(***************************************************************************)
(* The queue's tokens and heartbeats.                                      *)
(***************************************************************************)
Track(token, j) ==
    /\ jobIdByToken' = [jobIdByToken EXCEPT ![token] = j]
    /\ heartbeats' = [heartbeats EXCEPT ![token] = "fresh"]

Untrack(token) ==
    /\ jobIdByToken' = [jobIdByToken EXCEPT ![token] = Nil]
    /\ heartbeats' = [heartbeats EXCEPT ![token] = "none"]

\* sqlQueryRunningId leaves out canceled jobs.
IdFromToken(token) ==
    LET j == jobIdByToken[token]
    IN  IF Backend = "db" /\ j # Nil /\ jobs[j].status = "canceled" THEN Nil ELSE j

Enqueue(j) ==
    /\ Queue!Enqueue(j, "osbuild", {})
    /\ UNCHANGED <<jobIdByToken, heartbeats, artifacts, handlers, slot, restarts>>

\* mutant: the token is forgotten with the heartbeat
ForgetCanceled_Token(token) ==
    /\ heartbeats' = [t \in Tokens |-> IF t = token THEN "none" ELSE heartbeats[t]]
    /\ jobIdByToken' = [t \in Tokens |-> IF t = token THEN Nil ELSE jobIdByToken[t]]

\* dbjobqueue keeps the heartbeat.
ForgetCanceled(token) ==
    /\ heartbeats' = [t \in Tokens |-> IF Backend = "fs" /\ t = token THEN "none"
                                       ELSE heartbeats[t]]
    /\ UNCHANGED jobIdByToken

\* A canceled job may be canceled again.
Cancel(j) ==
    /\ j \in DOMAIN jobs
    /\ Queue!CancelJob(j) \/ (jobs[j].status = "canceled" /\ UNCHANGED jobs)
    /\ ForgetCanceled(jobs[j].Token)
    /\ UNCHANGED <<artifacts, handlers, slot, restarts>>

-----------------------------------------------------------------------------
(***************************************************************************)
(* RequestJob: Dequeue, then the directory for the token's artifacts,      *)
(* before anybody is told the token.                                       *)
(***************************************************************************)
HandOut(j, token, directory) ==
    /\ Queue!Dequeue(j, token)
    /\ Track(token, j)
    /\ tmp' = [tmp EXCEPT ![token] = directory]
    /\ UNCHANGED <<final, handle, deleted, stranded, handlers, restarts>>

RequestJob(s, j, token) ==
    /\ slot[s] = Idle
    /\ HandOut(j, token, "empty")
    /\ slot' = [slot EXCEPT ![s] = [st |-> "building", token |-> token, result |-> Null]]

\* The answer does not reach the worker that asked, or is an error: os.MkdirAll failed.
RequestJobLost(s, j, token) ==
    /\ slot[s] = Idle
    /\ \/ "lost" \in Faults /\ HandOut(j, token, "empty")
       \/ "disk" \in Faults /\ HandOut(j, token, "none")
    /\ UNCHANGED slot

-----------------------------------------------------------------------------
(***************************************************************************)
(* OSBuildJobImpl.Run in a slot.                                           *)
(***************************************************************************)
Work(s, from, to, result) ==
    /\ slot[s].st = from
    /\ slot' = [slot EXCEPT ![s].st = to, ![s].result = result]

\* RunOSBuild: an error, a failed build, or an image.
Build(s) ==
    /\ \/ Work(s, "building", "update", Null)
       \/ Work(s, "building", "update", [Null EXCEPT !.Output = "bad"])
       \/ Work(s, "building", "upload", Built)
    /\ UNCHANGED <<queue, artifacts, handlers, restarts>>

\* Run returns without a report: the other implementations do so on errors.
Abort(s) ==
    /\ slot[s].st = "building"
    /\ slot' = [slot EXCEPT ![s] = Idle]
    /\ UNCHANGED <<queue, artifacts, handlers, restarts>>

(***************************************************************************)
(* UploadJobArtifact: os.Create in the token's directory, then io.Copy.    *)
(* The open file is written wherever it has been moved meanwhile.          *)
(***************************************************************************)
UploadJobArtifact(s) ==
    LET token == slot[s].token IN
    /\ Work(s, "upload", "copying", Built)
    /\ tmp[token] # "none"
    /\ tmp' = [tmp EXCEPT ![token] = "partial"]
    /\ handle' = [handle EXCEPT ![token] = "tmp"]
    /\ UNCHANGED <<queue, final, deleted, stranded, handlers, restarts>>

Copied(s) ==
    LET token == slot[s].token IN
    /\ Work(s, "copying", "targets", Built)
    /\ handle[token] # "closed"
    /\ tmp' = IF handle[token] = "tmp" THEN [tmp EXCEPT ![token] = "complete"] ELSE tmp
    /\ final' = [j \in Jobs |-> IF /\ handle[token] = "final"
                                   /\ j \in DOMAIN jobs
                                   /\ jobs[j].Token = token
                                THEN "complete" ELSE final[j]]
    /\ handle' = [handle EXCEPT ![token] = "closed"]
    /\ UNCHANGED <<queue, deleted, stranded, handlers, restarts>>

\* The directory is gone, composer restarted, the connection broke, or the image cannot be opened.
UploadCut(s) ==
    LET token == slot[s].token IN
    /\ \/ slot[s].st = "upload" /\ (tmp[token] = "none" \/ "lost" \in Faults)
       \/ slot[s].st = "copying" /\ (handle[token] = "closed" \/ "lost" \in Faults)
    /\ handle' = [handle EXCEPT ![token] = "closed"]
    /\ UNCHANGED <<queue, tmp, final, deleted, stranded, handlers, restarts>>

\* mutant: the error of UploadArtifact is ignored
UploadBroken_Ignored(s) ==
    /\ UploadCut(s)
    /\ slot' = [slot EXCEPT ![s].st = "targets"]

UploadBroken(s) ==
    /\ UploadCut(s)
    /\ slot' = [slot EXCEPT ![s].st = "update"]

\* No target, or the upload to it succeeds or fails.
Target(s) ==
    /\ \/ Work(s, "targets", "update", [Built EXCEPT !.Success = TRUE])
       \/ Work(s, "targets", "update", [Built EXCEPT !.TargetErrors = TRUE])
    /\ UNCHANGED <<queue, artifacts, handlers, restarts>>

(***************************************************************************)
(* job.Update: UpdateJob calls Server.FinishJob, which begins with         *)
(* IdFromToken.  Whatever the answer, the slot asks for the next job.      *)
(***************************************************************************)
Update(s) ==
    LET token == slot[s].token IN
    /\ slot[s].st = "update"
    /\ IF IdFromToken(token) = Nil
         THEN /\ slot' = [slot EXCEPT ![s] = Idle]
              /\ UNCHANGED finishing
         ELSE /\ slot' = [slot EXCEPT ![s].st = "updating"]
              /\ finishing' = finishing \cup
                    {[by |-> s, token |-> token, id |-> IdFromToken(token),
                      result |-> slot[s].result, step |-> "finish"]}
    /\ UNCHANGED <<queue, artifacts, expired, polls, restarts>>

UpdateLost(s) ==
    /\ "lost" \in Faults
    /\ slot[s].st \in {"update", "updating"}
    /\ slot' = [slot EXCEPT ![s] = Idle]
    /\ UNCHANGED <<queue, artifacts, handlers, restarts>>

Updated(s) ==
    /\ slot[s].st = "updating"
    /\ ~\E c \in finishing : c.by = s /\ c.token = slot[s].token
    /\ slot' = [slot EXCEPT ![s] = Idle]
    /\ UNCHANGED <<queue, artifacts, handlers, restarts>>

-----------------------------------------------------------------------------
(***************************************************************************)
(* The rest of Server.FinishJob: the queue's FinishJob, which fails unless *)
(* the job is running, then the move of the artifacts.                     *)
(***************************************************************************)
FinishJob(c) ==
    /\ c \in finishing
    /\ c.step = "finish"
    /\ Queue!FinishJob(c.id, c.result)
    /\ Untrack(jobs[c.id].Token)
    /\ finishing' = (finishing \ {c}) \cup {[c EXCEPT !.step = "move"]}
    /\ UNCHANGED <<artifacts, expired, polls, slot, restarts>>

\* mutant: the error is logged and the artifacts are moved all the same
FinishRefused_Moves(c) ==
    /\ c \in finishing
    /\ c.step = "finish"
    /\ jobs[c.id].status # "running"
    /\ finishing' = (finishing \ {c}) \cup {[c EXCEPT !.step = "move"]}
    /\ UNCHANGED <<queue, artifacts, expired, polls, slot, restarts>>

FinishRefused(c) ==
    /\ c \in finishing
    /\ c.step = "finish"
    /\ jobs[c.id].status # "running"
    /\ finishing' = finishing \ {c}
    /\ UNCHANGED <<queue, artifacts, expired, polls, slot, restarts>>

Moved(token) == [handle EXCEPT ![token] = IF @ = "tmp" THEN "final" ELSE @]

\* os.Rename; there may be nothing to rename.
MoveArtifacts(c) ==
    /\ c \in finishing
    /\ c.step = "move"
    /\ IF tmp[c.token] = "none"
         THEN UNCHANGED <<tmp, final, handle>>
         ELSE /\ final' = [final EXCEPT ![c.id] = tmp[c.token]]
              /\ tmp' = [tmp EXCEPT ![c.token] = "none"]
              /\ handle' = Moved(c.token)
    /\ finishing' = finishing \ {c}
    /\ UNCHANGED <<queue, deleted, stranded, expired, polls, slot, restarts>>

\* The status of the job cannot be read back, or os.Rename fails: an error is
\* returned or logged, and nobody moves the directory later.
MoveFails(c) ==
    /\ "disk" \in Faults
    /\ c \in finishing
    /\ c.step = "move"
    /\ finishing' = finishing \ {c}
    /\ stranded' = stranded \cup {c.id}
    /\ UNCHANGED <<queue, tmp, final, handle, deleted, expired, polls, slot, restarts>>

DeleteArtifacts(j) ==
    /\ j \in DOMAIN jobs
    /\ jobs[j].status = "finished"
    /\ deleted' = deleted \cup {j}
    /\ final' = [final EXCEPT ![j] = "none"]
    /\ handle' = [t \in Tokens |->
                    IF handle[t] = "final" /\ t = jobs[j].Token THEN "deleted" ELSE handle[t]]
    /\ UNCHANGED <<queue, tmp, stranded, handlers, slot, restarts>>

-----------------------------------------------------------------------------
(***************************************************************************)
(* WatchJob asks every 15 seconds while its job runs; GetJob looks up the  *)
(* token, refreshes the heartbeat and then reads the job's status.  A 404  *)
(* is ignored by WatchJob.                                                 *)
(***************************************************************************)
GetJob(s) ==
    LET token == slot[s].token IN
    /\ Busy(s)
    /\ IdFromToken(token) # Nil
    /\ ~\E p \in polls : p.token = token
    /\ polls' = polls \cup {[token |-> token, id |-> IdFromToken(token),
                             to |-> Process[s], step |-> "refresh"]}
    /\ UNCHANGED <<queue, artifacts, finishing, expired, slot, restarts>>

\* fsjobqueue adds a heartbeat that is missing, dbjobqueue does not.
RefreshHeartbeat(p) ==
    /\ p \in polls
    /\ p.step = "refresh"
    /\ heartbeats' = [heartbeats EXCEPT ![p.token] =
                        IF Backend = "db" /\ @ = "none" THEN "none" ELSE "fresh"]
    /\ polls' = (polls \ {p}) \cup {[p EXCEPT !.step = "status"]}
    /\ UNCHANGED <<jobs, jobIdByToken, artifacts, finishing, expired, slot, restarts>>

\* A worker process ends, and its requests with it.
Exit(process, answered, after) ==
    LET its == {s \in Slots : Process[s] = process} IN
    /\ slot' = [s \in Slots |-> IF s \in its THEN after ELSE slot[s]]
    /\ handle' = [t \in Tokens |->
                    IF \E s \in its : slot[s].token = t THEN "closed" ELSE handle[t]]
    /\ polls' = {[p EXCEPT !.to = IF @ = process THEN Nil ELSE @] : p \in polls \ answered}
    /\ UNCHANGED <<queue, tmp, final, deleted, stranded, finishing, expired, restarts>>

\* mutant: the service of a local worker restarts on failures only
AfterExit_OnFailure(process) == Gone

\* systemd after exit code 0: Restart=always locally, Restart=on-failure for a remote worker.
AfterExit(process) == IF process \in Remote THEN Gone ELSE Idle

\* WatchJob exits on the answer that the job was canceled, even a late one.
AnswerCanceled(p) ==
    /\ p \in polls
    /\ p.step = "status"
    /\ jobs[p.id].status = "canceled"
    /\ p.to # Nil
    /\ Exit(p.to, {p}, AfterExit(p.to))

AnswerOther(p) ==
    /\ p \in polls
    /\ p.step = "status"
    /\ jobs[p.id].status # "canceled" \/ p.to = Nil \/ "lost" \in Faults
    /\ polls' = polls \ {p}
    /\ UNCHANGED <<queue, artifacts, finishing, expired, slot, restarts>>

(***************************************************************************)
(* WatchHeartbeats.  A heartbeat grows older than two minutes only when no *)
(* worker asks for the job or the requests of one get lost.                *)
(***************************************************************************)
Age(token) ==
    /\ heartbeats[token] = "fresh"
    /\ "lost" \in Faults \/ \A s \in Slots : slot[s].token # token
    /\ heartbeats' = [heartbeats EXCEPT ![token] = "old"]
    /\ UNCHANGED <<jobs, jobIdByToken, artifacts, handlers, slot, restarts>>

\* The watcher is between two rounds.
Resting == expired = {} /\ ~\E c \in finishing : c.by = Nil

WatchHeartbeats ==
    /\ Resting
    /\ \E token \in Tokens : heartbeats[token] = "old"
    /\ expired' = {token \in Tokens : heartbeats[token] = "old"}
    /\ UNCHANGED <<queue, artifacts, finishing, polls, slot, restarts>>

\* FinishJob(token, nil), one token after the other.
Expire(token) ==
    /\ token \in expired
    /\ ~\E c \in finishing : c.by = Nil
    /\ expired' = expired \ {token}
    /\ finishing' = IF IdFromToken(token) = Nil THEN finishing
                    ELSE finishing \cup
                           {[by |-> Nil, token |-> token, id |-> IdFromToken(token),
                             result |-> Null, step |-> "finish"]}
    /\ UNCHANGED <<queue, artifacts, polls, slot, restarts>>

-----------------------------------------------------------------------------
\* mutant: heartbeats are not restored
Retrack_NoHeartbeats ==
    /\ jobIdByToken' = [t \in Tokens |->
          IF \E j \in DOMAIN jobs : jobs[j].status = "running" /\ jobs[j].Token = t
            THEN CHOOSE j \in DOMAIN jobs : jobs[j].Token = t ELSE Nil]
    /\ heartbeats' = [t \in Tokens |-> "none"]

\* fsjobqueue.New: the running jobs get their tokens back, and new heartbeats.
Retrack ==
    LET runs(t) == {j \in DOMAIN jobs : jobs[j].status = "running" /\ jobs[j].Token = t}
    IN  /\ jobIdByToken' = [t \in Tokens |-> IF runs(t) = {} THEN Nil
                                             ELSE CHOOSE j \in runs(t) : TRUE]
        /\ heartbeats' = [t \in Tokens |-> IF runs(t) = {} THEN "none" ELSE "fresh"]

\* Composer stops and starts: every handler and every connection is gone.
\* dbjobqueue has nothing in memory.
Restart ==
    /\ restarts < MaxRestarts
    /\ restarts' = restarts + 1
    /\ IF Backend = "fs" THEN Retrack ELSE UNCHANGED <<jobIdByToken, heartbeats>>
    /\ handle' = [t \in Tokens |-> "closed"]
    /\ stranded' = stranded \cup {c.id : c \in {d \in finishing : d.step = "move"}}
    /\ finishing' = {}
    /\ expired' = {}
    /\ polls' = {}
    /\ UNCHANGED <<jobs, tmp, final, deleted, slot>>

\* A failure; both services start the process again.
WorkerDies(s) ==
    /\ "worker" \in Faults
    /\ Busy(s)
    /\ Exit(Process[s], {}, Idle)

-----------------------------------------------------------------------------
Init ==
    /\ jobs = [j \in {} |-> Nil]
    /\ jobIdByToken = [t \in Tokens |-> Nil]
    /\ heartbeats = [t \in Tokens |-> "none"]
    /\ tmp = [t \in Tokens |-> "none"]
    /\ final = [j \in Jobs |-> "none"]
    /\ handle = [t \in Tokens |-> "closed"]
    /\ deleted = {}
    /\ stranded = {}
    /\ finishing = {}
    /\ expired = {}
    /\ polls = {}
    /\ slot = [s \in Slots |-> Idle]
    /\ restarts = 0

Working(s) ==
    \/ \E j \in Jobs, token \in Tokens : RequestJob(s, j, token) \/ RequestJobLost(s, j, token)
    \/ Build(s) \/ Abort(s)
    \/ UploadJobArtifact(s) \/ Copied(s) \/ UploadBroken(s)
    \/ Target(s)
    \/ Update(s) \/ UpdateLost(s) \/ Updated(s)
    \/ GetJob(s)
    \/ WorkerDies(s)

Answering(p) == RefreshHeartbeat(p) \/ AnswerCanceled(p) \/ AnswerOther(p)

Finishing(c) == FinishJob(c) \/ FinishRefused(c) \/ MoveArtifacts(c) \/ MoveFails(c)

Next ==
    \/ \E j \in Jobs : Enqueue(j) \/ Cancel(j) \/ DeleteArtifacts(j)
    \/ \E s \in Slots : Working(s)
    \/ \E p \in polls : Answering(p)
    \/ \E c \in finishing : Finishing(c)
    \/ \E token \in Tokens : Age(token) \/ Expire(token)
    \/ WatchHeartbeats
    \/ Restart

Spec == Init /\ [][Next]_vars

-----------------------------------------------------------------------------
\* The whole image is in its final place, or still where it was uploaded: the call that
\* finished the job has yet to move it, or ended before it did.
ArtifactReady(j) ==
    \/ final[j] = "complete"
    \/ /\ tmp[jobs[j].Token] = "complete"
       /\ j \in stranded \/ \E c \in finishing : c.id = j /\ c.step = "move"

(***************************************************************************)
(* A job its worker marked a success (jobimpl-osbuild.go) has the whole    *)
(* image in its artifacts, whatever uploads, reports, expiry, cancellation *)
(* and the move of the directory do to each other, unless it was deleted.  *)
(* Where composer stopped before the move, could not read the job back or  *)
(* could not rename the directory, the image is still whole under          *)
(* artifacts/tmp, where no handler looks for it.                           *)
(***************************************************************************)
SuccessHasArtifact ==
    \A j \in DOMAIN jobs \ deleted :
        jobs[j].status = "finished" /\ jobs[j].Result.Success => ArtifactReady(j)

(***************************************************************************)
(* Only finished jobs have artifacts in the final place (JobArtifact):     *)
(* the move never follows a refused FinishJob.                             *)
(***************************************************************************)
OnlyFinishedHaveArtifacts ==
    \A j \in Jobs : final[j] # "none" => j \in DOMAIN jobs /\ jobs[j].status = "finished"

(***************************************************************************)
(* Fairness: the goroutines of composer keep running, time passes, and the *)
(* ticker of WatchJob keeps asking; of its answers not all are lost.       *)
(* Builds, uploads and reports may take forever.                           *)
(***************************************************************************)
Fairness ==
    /\ WF_vars(WatchHeartbeats)
    /\ \A token \in Tokens : WF_vars(Age(token)) /\ WF_vars(Expire(token))
    /\ WF_vars(\E c \in finishing : Finishing(c))
    /\ WF_vars(\E p \in polls : RefreshHeartbeat(p) \/ AnswerOther(p))
    /\ \A s \in Slots : WF_vars(GetJob(s))
    /\ \A token \in Tokens : SF_vars(\E p \in polls : p.token = token /\ AnswerCanceled(p))

FairSpec == Spec /\ Fairness

\* In a slot that is not stuck, requests, builds, uploads and reports come to an end.
Progress(s) ==
    \/ \E j \in Jobs, token \in Tokens : RequestJob(s, j, token)
    \/ Build(s) \/ UploadJobArtifact(s) \/ Copied(s) \/ UploadBroken(s) \/ Target(s)
    \/ Update(s) \/ Updated(s)

BusySpec == FairSpec /\ \A s \in Slots : WF_vars(Progress(s))

Held(j) == \E s \in Slots : Busy(s) /\ slot[s].token = jobs[j].Token

(***************************************************************************)
(* A job whose worker died, gave up, or never got the answer of RequestJob *)
(* does not stay running for ever: WatchHeartbeats fails it, also when     *)
(* composer restarts.                                                      *)
(***************************************************************************)
AbandonedJobEnds ==
    \A j \in Jobs :
        (j \in DOMAIN jobs /\ jobs[j].status = "running" /\ ~Held(j))
            ~> (j \in DOMAIN jobs /\ jobs[j].status # "running")

(***************************************************************************)
(* "Regularly ask osbuild-composer if the compose we're currently working  *)
(* on was canceled and exit the process if it was" (WatchJob): a worker    *)
(* does not go on with a canceled job, even if the build takes for ever    *)
(* and answers get lost.  (A restart of composer with a fsjobqueue forgets *)
(* the tokens of canceled jobs.)                                           *)
(***************************************************************************)
CanceledWorkerStops ==
    \A s \in Slots, j \in Jobs :
        LET working == j \in DOMAIN jobs /\ Busy(s) /\ slot[s].token = jobs[j].Token
        IN  (working /\ jobs[j].status = "canceled") ~> (~working \/ restarts > 0)

(***************************************************************************)
(* "Exiting here will make systemd clean up the whole cgroup and restart   *)
(* this service" (WatchJob): workers that are not stuck take every job in  *)
(* the end, whichever of their jobs are canceled.                          *)
(***************************************************************************)
QueuedJobIsTaken ==
    \A j \in Jobs :
        (j \in DOMAIN jobs /\ jobs[j].status = "queued")
            ~> (j \in DOMAIN jobs /\ jobs[j].status # "queued")

(***************************************************************************)
(* The artifacts have their types and places: an open upload points at an  *)
(* unfinished file, and only finished jobs have files in the final place,  *)
(* since the move never follows a refused FinishJob.                       *)
(***************************************************************************)
ArtifactsInPlace == TypeOK /\ OnlyFinishedHaveArtifacts
=============================================================================

---------------------------- MODULE KojiCompose -----------------------------
(***************************************************************************)
(* A Koji compose: internal/kojiapi enqueues a koji-init job, an           *)
(* osbuild-koji job per image that depends on it, and a koji-finalize job  *)
(* that depends on them all; the job implementations of cmd/osbuild-worker *)
(* talk to Koji and hand their results on through the queue.               *)
(*                                                                         *)
(* A worker first acts on Koji and then reports, and may be gone, or taken *)
(* for dead, between the two.  A job that composer gives up on is finished *)
(* with JSON null, which every later reader decodes to a zero value.       *)
(*                                                                         *)
(* The queue is the abstract JobQueue; each job is dequeued once, so its   *)
(* id stands for its token.                                                *)
(***************************************************************************)
EXTENDS Naturals, Sequences

CONSTANTS
    initID, finalizeID,
    buildIDs,      \* sequence of the ids of the build jobs
    Nil,
    Mortal,        \* jobs whose worker may die, or return without a report
    Faults         \* what else may go wrong: a subset of FaultKinds

(***************************************************************************)
(* "koji": calls of Koji fail; "lost": a live worker is taken for dead;    *)
(* "crash": composer stops while it handles the request.                   *)
(***************************************************************************)
FaultKinds == {"koji", "lost", "crash"}

Builds == {buildIDs[i] : i \in 1 .. Len(buildIDs)}

Jobs == {initID, finalizeID} \cup Builds

ASSUME KojiAssumption ==
    /\ initID # finalizeID
    /\ {initID, finalizeID} \cap Builds = {}
    /\ Nil \notin Jobs
    /\ Mortal \subseteq Jobs
    /\ Faults \subseteq FaultKinds

VARIABLES
    jobs,          \* the queue (see JobQueue)
    handler,       \* where PostCompose is
    alive,         \* jobs whose worker is still at work
    outcome,       \* job -> the result its worker has yet to report, or Nil
    koji,          \* the build in Koji
    uploaded,      \* builds whose image is in the Koji directory
    expired        \* history: jobs that composer has given up on

vars == <<jobs, handler, alive, outcome, koji, uploaded, expired>>

(***************************************************************************)
(* The fields of KojiInitJobResult, OSBuildKojiJobResult and               *)
(* KojiFinalizeJobResult that are looked at: KojiError # "", whether there *)
(* is a build id and token, and OSBuildOutput with its success.            *)
(***************************************************************************)
Result == [KojiError : BOOLEAN, BuildID : BOOLEAN, Output : {"none", "good", "bad"}]

Null == [KojiError |-> FALSE, BuildID |-> FALSE, Output |-> "none"]

Error == [Null EXCEPT !.KojiError = TRUE]

Queue == INSTANCE JobQueue WITH Types <- {"koji-init", "osbuild-koji", "koji-finalize"},
                                Tokens <- Jobs, Results <- Result

(***************************************************************************)
(* Types, and that workers are at work on dequeued jobs only.              *)
(***************************************************************************)
TypeOK ==
    /\ DOMAIN jobs \subseteq Jobs
    /\ \A j \in DOMAIN jobs : jobs[j] \in Queue!Job
    /\ handler \in {"new", "building", "waiting", "created", "refused", "crashed"}
    /\ alive \subseteq {j \in DOMAIN jobs : jobs[j].status # "queued"}
    /\ outcome \in [Jobs -> Result \cup {Nil}]
    /\ koji \in {"none", "building", "complete", "failed"}
    /\ uploaded \subseteq Builds
    /\ expired \subseteq {j \in DOMAIN jobs : jobs[j].status = "finished"}

-----------------------------------------------------------------------------
(***************************************************************************)
(* PostCompose enqueues the jobs one by one, while workers may already run *)
(* the first, and then waits for the init job.                             *)
(***************************************************************************)
EnqueueKojiInit ==
    /\ handler = "new"
    /\ Queue!Enqueue(initID, "koji-init", {})
    /\ handler' = "building"
    /\ UNCHANGED <<alive, outcome, koji, uploaded, expired>>

EnqueueOSBuildKoji(i) ==
    /\ handler = "building"
    /\ \A k \in 1 .. i - 1 : buildIDs[k] \in DOMAIN jobs
    /\ Queue!Enqueue(buildIDs[i], "osbuild-koji", {initID})
    /\ UNCHANGED <<handler, alive, outcome, koji, uploaded, expired>>

FinalizeDependencies == {initID} \cup Builds

EnqueueKojiFinalize ==
    /\ handler = "building"
    /\ Builds \subseteq DOMAIN jobs
    /\ Queue!Enqueue(finalizeID, "koji-finalize", FinalizeDependencies)
    /\ handler' = "waiting"
    /\ UNCHANGED <<alive, outcome, koji, uploaded, expired>>

ReplyCompose ==
    /\ handler = "waiting"
    /\ jobs[initID].status = "finished"
    /\ handler' = IF jobs[initID].Result.KojiError THEN "refused" ELSE "created"
    /\ UNCHANGED <<jobs, alive, outcome, koji, uploaded, expired>>

Crash ==
    /\ "crash" \in Faults
    /\ handler \in {"building", "waiting"}
    /\ handler' = "crashed"
    /\ UNCHANGED <<jobs, alive, outcome, koji, uploaded, expired>>

-----------------------------------------------------------------------------
(***************************************************************************)
(* Workers.                                                                *)
(***************************************************************************)
Start(j) ==
    /\ Queue!Dequeue(j, j)
    /\ alive' = alive \cup {j}
    /\ UNCHANGED <<handler, outcome, koji, uploaded, expired>>

Runs(j) == j \in alive /\ outcome[j] = Nil

Returns(j, result) == outcome' = [outcome EXCEPT ![j] = result]

\* Koji: CGInitBuild opens a build; one that is open can be imported or failed.
Opened == koji = "none" /\ koji' = "building"

Closed(verdict) == jobs[initID].Result.BuildID /\ koji = "building" /\ koji' = verdict

\* Without a build id and token Koji refuses the call; any call may fail.
CallFails == /\ "koji" \in Faults \/ (jobs[initID].status = "finished" /\ ~jobs[initID].Result.BuildID)
             /\ UNCHANGED koji

\* What a worker makes of a call that took effect: its answer may be lost.
Answers(result) == {result} \cup {[result EXCEPT !.KojiError = TRUE, !.BuildID = FALSE] :
                                      f \in Faults \cap {"koji"}}

KojiInit ==
    /\ Runs(initID)
    /\ \/ Opened /\ \E r \in Answers([Null EXCEPT !.BuildID = TRUE]) : Returns(initID, r)
       \/ CallFails /\ Returns(initID, Error)
    /\ UNCHANGED <<jobs, handler, alive, uploaded, expired>>

(***************************************************************************)
(* OSBuildKojiJobImpl: nothing is built after a failed init; an image is   *)
(* uploaded when osbuild succeeds.                                         *)
(***************************************************************************)
InitFailed == jobs[initID].Result.KojiError

OSBuildKoji(b) ==
    /\ Runs(b)
    /\ \/ InitFailed /\ Returns(b, Null) /\ UNCHANGED uploaded
       \/ ~InitFailed /\ Returns(b, [Null EXCEPT !.Output = "bad"]) /\ UNCHANGED uploaded
       \/ /\ ~InitFailed
          /\ \E r \in Answers([Null EXCEPT !.Output = "good"]) : Returns(b, r)
          /\ uploaded' = uploaded \cup {b}
       \/ /\ ~InitFailed
          /\ "koji" \in Faults
          /\ Returns(b, [Error EXCEPT !.Output = "good"])
          /\ UNCHANGED uploaded
    /\ UNCHANGED <<jobs, handler, alive, koji, expired>>

-----------------------------------------------------------------------------
(***************************************************************************)
(* KojiFinalizeJobImpl.  hasFailedDependency looks at the results in order *)
(* and stops at the first failure; OSBuildOutput of a null result is a nil *)
(* pointer, and the worker process panics.                                 *)
(***************************************************************************)
build(i) == jobs[buildIDs[i]].Result

\* mutant: KojiError of a build is not looked at
Stops_IgnoreUploads == {i \in 1 .. Len(buildIDs) : build(i).Output # "good"}

\* The results at which the loop does not go on.
Stops == {i \in 1 .. Len(buildIDs) : build(i).Output # "good" \/ build(i).KojiError}

First(i) == i \in Stops /\ \A k \in Stops : i <= k

Panics == ~InitFailed /\ \E i \in Stops : First(i) /\ build(i).Output = "none"

hasFailedDependency == InitFailed \/ \E i \in Stops : First(i) /\ build(i).Output # "none"

\* mutant: the build in Koji is left open
FinalizeFails_Quietly ==
    /\ Runs(finalizeID)
    /\ hasFailedDependency
    /\ Returns(finalizeID, Null)
    /\ UNCHANGED <<jobs, handler, alive, koji, uploaded, expired>>

FinalizeFails ==
    /\ Runs(finalizeID)
    /\ hasFailedDependency
    /\ \/ Closed("failed") /\ \E r \in Answers(Null) : Returns(finalizeID, r)
       \/ CallFails /\ Returns(finalizeID, Error)
    /\ UNCHANGED <<jobs, handler, alive, uploaded, expired>>

FinalizeImports ==
    /\ Runs(finalizeID)
    /\ ~InitFailed
    /\ Stops = {}
    /\ \/ Closed("complete") /\ \E r \in Answers(Null) : Returns(finalizeID, r)
       \/ CallFails /\ Returns(finalizeID, Error)
    /\ UNCHANGED <<jobs, handler, alive, uploaded, expired>>

FinalizePanics ==
    /\ Runs(finalizeID)
    /\ Panics
    /\ alive' = alive \ {finalizeID}
    /\ UNCHANGED <<jobs, handler, outcome, koji, uploaded, expired>>

-----------------------------------------------------------------------------
\* job.Update; composer refuses the report of a job it has given up on.
Report(j) ==
    /\ j \in alive
    /\ outcome[j] # Nil
    /\ alive' = alive \ {j}
    /\ \/ Queue!FinishJob(j, outcome[j])
       \/ jobs[j].status # "running" /\ UNCHANGED jobs
    /\ UNCHANGED <<handler, outcome, koji, uploaded, expired>>

\* OSBuildKojiJobImpl also returns without a report when osbuild cannot be run.
WorkerDies(j) ==
    /\ j \in Mortal \cap alive
    /\ alive' = alive \ {j}
    /\ UNCHANGED <<jobs, handler, outcome, koji, uploaded, expired>>

\* mutant: unresponsive jobs are left alone
Expire_Never(j) == FALSE /\ UNCHANGED vars

\* WatchHeartbeats finishes the job with null; a live worker goes on.
Expire(j) ==
    /\ j \notin alive \/ "lost" \in Faults
    /\ Queue!FinishJob(j, Null)
    /\ expired' = expired \cup {j}
    /\ UNCHANGED <<handler, alive, outcome, koji, uploaded>>

-----------------------------------------------------------------------------
Init ==
    /\ jobs = [j \in {} |-> Nil]
    /\ handler = "new"
    /\ alive = {}
    /\ outcome = [j \in Jobs |-> Nil]
    /\ koji = "none"
    /\ uploaded = {}
    /\ expired = {}

PostCompose ==
    \/ EnqueueKojiInit
    \/ \E i \in 1 .. Len(buildIDs) : EnqueueOSBuildKoji(i)
    \/ EnqueueKojiFinalize
    \/ ReplyCompose

Run == \/ KojiInit
       \/ \E b \in Builds : OSBuildKoji(b)
       \/ FinalizeFails
       \/ FinalizeImports
       \/ FinalizePanics

Next ==
    \/ PostCompose
    \/ Run
    \/ \E j \in Jobs : Start(j) \/ Report(j) \/ Expire(j) \/ WorkerDies(j)
    \/ Crash

Spec == Init /\ [][Next]_vars

(***************************************************************************)
(* Fairness: the handler and the workers keep running, workers poll for    *)
(* jobs, and WatchHeartbeats finds the jobs without a worker.              *)
(***************************************************************************)
FairSpec ==
    /\ Spec
    /\ WF_vars(PostCompose)
    /\ WF_vars(Run)
    /\ \A j \in Jobs : WF_vars(Start(j)) /\ WF_vars(Report(j)) /\ WF_vars(j \notin alive /\ Expire(j))

-----------------------------------------------------------------------------
\* mutant: an error of the import is not looked at
ComposeFailed_NoImport == InitFailed \/ \E i \in 1 .. Len(buildIDs) : build(i).Output = "bad"

ComposeFailed ==
    \/ InitFailed
    \/ \E i \in 1 .. Len(buildIDs) : build(i).Output = "bad" \/ build(i).KojiError
    \/ jobs[finalizeID].Result.KojiError

\* composeStatusFromJobStatus, of a compose that exists.
ComposeStatus ==
    IF finalizeID \notin DOMAIN jobs THEN "unknown"
    ELSE IF jobs[finalizeID].status # "finished" THEN "pending"
    ELSE IF ComposeFailed THEN "failure" ELSE "success"

\* imageStatusFromJobStatus
ImageStatus(i) ==
    IF jobs[initID].status = "finished" /\ InitFailed THEN "failure"
    ELSE CASE jobs[buildIDs[i]].status = "queued" -> "pending"
           [] jobs[buildIDs[i]].status = "running" -> "building"
           [] OTHER -> IF build(i).Output = "good" /\ ~build(i).KojiError THEN "success" ELSE "failure"

(***************************************************************************)
(* A build is imported into Koji only with every one of its images in the  *)
(* directory and every build job reported good, whichever workers died or  *)
(* came back late.                                                         *)
(***************************************************************************)
ImportedIsWhole ==
    koji = "complete" =>
        /\ uploaded = Builds
        /\ \A i \in 1 .. Len(buildIDs) : jobs[buildIDs[i]].status = "finished" /\ build(i).Output = "good"

Success ==
    /\ koji = "complete"
    /\ \A i \in 1 .. Len(buildIDs) : ImageStatus(i) = "success"

(***************************************************************************)
(* A compose that composeStatusFromJobStatus reports as a success has been *)
(* imported into Koji with every image, whichever calls of Koji failed or  *)
(* lost their answers, as long as no job was given up on.                  *)
(***************************************************************************)
SuccessUnlessExpired == ComposeStatus = "success" /\ expired = {} => Success

(***************************************************************************)
(* A compose that was accepted does not stay pending, whatever happens to  *)
(* its workers.                                                            *)
(***************************************************************************)
ComposeSettles == (handler = "created") ~> (ComposeStatus \in {"success", "failure"})

(***************************************************************************)
(* "Fail the koji build if any of them failed" (KojiFinalizeJobImpl): a    *)
(* build that was opened in Koji is imported or failed, also when uploads  *)
(* to Koji fail, unless a job was given up on, koji-finalize reports that  *)
(* Koji refused it, or composer stopped before all jobs were enqueued.     *)
(***************************************************************************)
KojiBuildIsClosed ==
    (koji = "building") ~> \/ koji \in {"complete", "failed"}
                           \/ expired # {}
                           \/ outcome[finalizeID] # Nil /\ outcome[finalizeID].KojiError
                           \/ handler = "crashed" /\ finalizeID \notin DOMAIN jobs

(***************************************************************************)
(* What Koji imports is whole, in states of the right types.               *)
(***************************************************************************)
ImportIsSound == TypeOK /\ ImportedIsWhole
=============================================================================

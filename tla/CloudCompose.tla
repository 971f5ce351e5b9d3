---------------------------- MODULE CloudCompose ----------------------------
(***************************************************************************)
(* A compose of the cloud APIs (internal/cloudapi/v1 and v2): PostCompose  *)
(* of v2 enqueues a depsolve job, polls for it inside the request, makes a *)
(* manifest of what it found and enqueues an osbuild job with one target;  *)
(* Compose of v1 depsolves by itself.  Workers run the jobs, upload the    *)
(* image and report; the status and the metadata of a compose are read     *)
(* from the result of its osbuild job.  The Weldr API enqueues the same    *)
(* osbuild jobs (see WeldrComposes), also for targets the other two lack.  *)
(*                                                                         *)
(* The queue is the abstract JobQueue; each job is dequeued once, so its   *)
(* id stands for its token.                                                *)
(***************************************************************************)
EXTENDS UploadTargets

CONSTANT
    Asks           \* what the requests may ask for together

ASSUME AsksAssumption == Asks \subseteq [Requests -> Args]

VARIABLES
    jobs,          \* the queue (see JobQueue)
    handler,       \* request -> where its handler is
    solving,       \* requests whose depsolve job a worker is at work on
    expired        \* history: jobs that composer has given up on

queueVars == <<jobs, handler, solving, expired>>

vars == <<args, workerVars, queueVars>>

depsolve(r) == <<"depsolve", r>>

osbuild(r) == <<"osbuild", r>>

Jobs == {"depsolve", "osbuild"} \X Requests

(***************************************************************************)
(* DepsolveJobResult, and what a reader decodes from a JSON null.          *)
(***************************************************************************)
DepsolveResult == [Error : BOOLEAN, PackageSpecs : BOOLEAN]

Null(j) == IF j[1] = "depsolve" THEN [Error |-> FALSE, PackageSpecs |-> FALSE]
           ELSE [NewResult EXCEPT !.Output = "none"]

Queue == INSTANCE JobQueue WITH Types <- {"depsolve", "osbuild"}, Tokens <- Jobs,
                                Results <- DepsolveResult \cup OSBuildResult

Finished(j) == j \in DOMAIN jobs /\ jobs[j].status = "finished"

(***************************************************************************)
(* Types, and that uploads under way are of pages that have been read.     *)
(***************************************************************************)
TypeOK ==
    /\ args \in [Requests -> Args]
    /\ DOMAIN jobs \subseteq Jobs
    /\ \A j \in DOMAIN jobs : jobs[j] \in Queue!Job
    /\ handler \in [Requests -> {"new", "polling", "enqueued", "created", "refused", "gone"}]
    /\ alive \subseteq Requests /\ solving \subseteq Requests /\ trouble \subseteq Requests
    /\ result \in [Requests -> OSBuildResult]
    /\ \A r \in Requests : /\ upload[r].sending \subseteq 1 .. upload[r].next - 1
                           /\ upload[r].next \in 1 .. Pages + 1
                           /\ Cardinality(upload[r].sending) <= threads
    /\ expired \subseteq {j \in DOMAIN jobs : jobs[j].status = "finished"}

-----------------------------------------------------------------------------
At_(r, h) == handler[r] = h

Moves(r, h) == handler' = [handler EXCEPT ![r] = h]

\* An unknown distribution, architecture, image type or repository.
Refuse(r) ==
    /\ At_(r, "new")
    /\ Moves(r, "refused")
    /\ UNCHANGED <<args, jobs, solving, expired, workerVars>>

EnqueueOSBuild(r, packages) ==
    /\ Queue!Enqueue(osbuild(r), "osbuild", {})
    /\ args' = [args EXCEPT ![r].packages = packages]
    /\ Moves(r, "enqueued")

CloudTargets == {"aws", "aws.s3", "gcp", "azure.image"}

\* The options of an upload request of v1 become a target of its type.
uploadRequest(r) == args[r].target \in CloudTargets

\* In v2 the image type decides on the target; the other image types have none.
UploadOptions(r) == args[r].target \in CloudTargets

(***************************************************************************)
(* Compose of v1 has run dnf itself; of more than one image it says only   *)
(* at the end that it supports one.                                        *)
(***************************************************************************)
composeV1(r) ==
    /\ At_(r, "new")
    /\ args[r].api = "v1"
    /\ \/ args[r].images = 1 /\ uploadRequest(r) /\ EnqueueOSBuild(r, TRUE)
       \/ Moves(r, "refused") /\ UNCHANGED <<args, jobs>>
    /\ UNCHANGED <<solving, expired, workerVars>>

composeWeldr(r) ==
    /\ At_(r, "new")
    /\ args[r].api = "weldr"
    /\ EnqueueOSBuild(r, TRUE)
    /\ UNCHANGED <<solving, expired, workerVars>>

EnqueueDepsolve(r) ==
    /\ At_(r, "new")
    /\ args[r].api = "v2"
    /\ Queue!Enqueue(depsolve(r), "depsolve", {})
    /\ Moves(r, "polling")
    /\ UNCHANGED <<args, solving, expired, workerVars>>

\* mutant: any finished depsolve job will do
DepsolveFailed_Never(r) == FALSE

DepsolveFailed(r) == jobs[depsolve(r)].Result.Error

(***************************************************************************)
(* The rest of PostCompose: the OSTree ref, its parent, the manifest and   *)
(* the upload options are looked at after the depsolve.                    *)
(***************************************************************************)
PostCompose(r) ==
    /\ At_(r, "polling")
    /\ Finished(depsolve(r))
    /\ \/ Moves(r, "refused") /\ UNCHANGED <<args, jobs>>
       \/ /\ ~DepsolveFailed(r)
          /\ UploadOptions(r)
          /\ EnqueueOSBuild(r, jobs[depsolve(r)].Result.PackageSpecs)
    /\ UNCHANGED <<solving, expired, workerVars>>

Reply(r) ==
    /\ At_(r, "enqueued")
    /\ Moves(r, "created")
    /\ UNCHANGED <<args, jobs, solving, expired, workerVars>>

\* The queue outlives composer, the requests do not.
Crash ==
    /\ "crash" \in Faults
    /\ \E r \in Requests : handler[r] \in {"polling", "enqueued"}
    /\ handler' = [r \in Requests |-> IF handler[r] \in {"polling", "enqueued"} THEN "gone" ELSE handler[r]]
    /\ UNCHANGED <<args, jobs, solving, expired, workerVars>>

-----------------------------------------------------------------------------
StartDepsolve(r) ==
    /\ Queue!Dequeue(depsolve(r), depsolve(r))
    /\ solving' = solving \cup {r}
    /\ UNCHANGED <<args, handler, expired, workerVars>>

StartOSBuild(r) ==
    /\ Queue!Dequeue(osbuild(r), osbuild(r))
    /\ alive' = alive \cup {r}
    /\ Goes(r, "RunOSBuild")
    /\ result' = [result EXCEPT ![r] = NewResult]
    /\ UNCHANGED <<args, handler, solving, expired, cloud, upload, trouble>>

\* job.Update: composer refuses the report of a job it has given up on.
Update(j, res) ==
    \/ Queue!FinishJob(j, res)
    \/ jobs[j].status # "running" /\ UNCHANGED jobs

\* DepsolveJobImpl: package specs for every set, or an error.
Depsolve(r) ==
    /\ r \in solving
    /\ solving' = solving \ {r}
    /\ \E error \in BOOLEAN : Update(depsolve(r), [Error |-> error, PackageSpecs |-> ~error])
    /\ UNCHANGED <<args, handler, expired, workerVars>>

ReportOSBuild(r) ==
    /\ At(r, "returned")
    /\ alive' = alive \ {r}
    /\ Update(osbuild(r), result[r])
    /\ UNCHANGED <<args, handler, solving, expired, step, result, cloud, upload, trouble>>

WorkerDies(r) ==
    /\ r \in Mortal
    /\ \/ r \in solving /\ solving' = solving \ {r} /\ UNCHANGED workerVars
       \/ /\ r \in alive
          /\ alive' = alive \ {r}
          /\ upload' = [upload EXCEPT ![r].sending = {}]
          /\ Troubled(r)
          /\ UNCHANGED <<solving, step, result, cloud>>
    /\ UNCHANGED <<args, jobs, handler, expired>>

HasWorker(j) == j[2] \in IF j[1] = "depsolve" THEN solving ELSE alive

\* mutant: unresponsive jobs are left alone
Expire_Never(j) == FALSE /\ UNCHANGED vars

\* WatchHeartbeats finishes the job with null; a live worker goes on.
Expire(j) ==
    /\ ~HasWorker(j) \/ ("lost" \in Faults /\ j[2] \in Mortal)
    /\ Queue!FinishJob(j, Null(j))
    /\ expired' = expired \cup {j}
    /\ trouble' = trouble \cup {j[2]}
    /\ UNCHANGED <<args, handler, solving, alive, step, result, cloud, upload>>

-----------------------------------------------------------------------------
Init ==
    /\ args \in Asks
    /\ jobs = [j \in {} |-> Nil]
    /\ handler = [r \in Requests |-> "new"]
    /\ solving = {} /\ alive = {} /\ expired = {} /\ trouble = {}
    /\ step = [r \in Requests |-> "idle"]
    /\ result = [r \in Requests |-> NewResult]
    /\ cloud = EmptyCloud
    /\ upload = [r \in Requests |-> NewUpload]

Handle(r) == composeV1(r) \/ composeWeldr(r) \/ EnqueueDepsolve(r) \/ PostCompose(r) \/ Reply(r)

Work(r) == Run(r) /\ UNCHANGED queueVars

Wait(r) == (Clouds(r) \/ \E p \in 1 .. Pages : UploadPage(r, p)) /\ UNCHANGED queueVars

Next ==
    \/ \E r \in Requests : \/ Refuse(r) \/ Handle(r) \/ Work(r) \/ Wait(r)
                           \/ StartDepsolve(r) \/ Depsolve(r)
                           \/ StartOSBuild(r) \/ ReportOSBuild(r) \/ WorkerDies(r)
    \/ \E j \in Jobs : Expire(j)
    \/ Crash

(***************************************************************************)
(* Fairness: of each request something goes on, as long as a handler can   *)
(* run on, a polling worker take its job, a worker or a cloud get ahead    *)
(* with it, or WatchHeartbeats find that its job has lost its worker.      *)
(* Nothing is assumed of crashes and faults.                               *)
(***************************************************************************)
Progress(r) ==
    \/ Handle(r) \/ Work(r) \/ Wait(r)
    \/ StartDepsolve(r) \/ Depsolve(r) \/ StartOSBuild(r) \/ ReportOSBuild(r)
    \/ \E j \in {depsolve(r), osbuild(r)} : ~HasWorker(j) /\ Expire(j)

Fairness == \A r \in Requests : WF_vars(Progress(r))

Spec == Init /\ [][Next]_vars /\ Fairness

-----------------------------------------------------------------------------
(***************************************************************************)
(* What the APIs answer.  JobStatus overrides Success "for backwards       *)
(* compatibility".                                                         *)
(***************************************************************************)
JobStatus(r) ==
    LET res == jobs[osbuild(r)].Result
    IN  [res EXCEPT !.Success = @ \/ (res.Output = "good" /\ ~res.TargetErrors)]

composeStatusFromJobStatus(r) ==
    IF osbuild(r) \notin DOMAIN jobs THEN "none"
    ELSE CASE jobs[osbuild(r)].status = "queued" -> "pending"
           [] jobs[osbuild(r)].status = "running" -> "building"
           [] OTHER -> IF JobStatus(r).Success THEN "success" ELSE "failure"

\* The status, and UploadStatus when the job has a target result.
GetComposeStatus(r) ==
    [Status |-> composeStatusFromJobStatus(r),
     UploadStatus |-> IF ~Finished(osbuild(r)) \/ ~JobStatus(r).TargetResult THEN "none"
                      ELSE IF jobs[osbuild(r)].Result.Success THEN "success" ELSE "failure"]

ComposeStatus(r) == GetComposeStatus(r)

GetComposeMetadata(r) ==
    IF ~Finished(osbuild(r)) THEN "empty"
    ELSE IF ~JobStatus(r).Success THEN "empty"
    ELSE IF JobStatus(r).Output = "none" THEN "malformed" ELSE "packages"

\* v1 has no check of the result: without OSBuildOutput the handler panics.
ComposeMetadataV1(r) ==
    IF ~Finished(osbuild(r)) THEN "empty"
    ELSE IF JobStatus(r).Output = "none" THEN "panic" ELSE "packages"

-----------------------------------------------------------------------------
Answer(r) == IF args[r].api = "v1" THEN ComposeStatus(r) ELSE GetComposeStatus(r)

Succeeded(r) == args[r].api # "weldr" /\ Answer(r).Status = "success"

\* Another upload to Azure under the same name, which replaces blob and image.
Rivals(r) == {q \in Requests \ {r} : args[q].name = args[r].name
                                  /\ args[q].target = "azure.image" /\ args[r].target = "azure.image"}

Usable(r) ==
    CASE args[r].target = "aws.s3" -> r \in cloud.objects
      [] args[r].target = "aws" -> \E i \in cloud.images : i.cloud = "aws" /\ i.of = r
      [] args[r].target = "gcp" -> \E i \in cloud.images : i.cloud = "gcp" /\ i.of = r
      [] args[r].target = "azure.image" ->
            /\ \E i \in cloud.images : i.cloud = "azure" /\ i.of = r
            /\ \A p \in 1 .. Pages : cloud.blobs[Blob(r)].pages[p] = r
      [] OTHER -> TRUE

(***************************************************************************)
(* A compose that the cloud APIs report as a success has, in its cloud, an *)
(* image or object of its own that is complete, and its status names it:   *)
(* whichever calls failed, whoever was taken for dead or uploads under the *)
(* same name, except to Azure, which replaces images.                      *)
(***************************************************************************)
SuccessIsUsable ==
    \A r \in Requests : Succeeded(r) /\ Rivals(r) = {} => Usable(r) /\ Answer(r).UploadStatus = "success"

\* Register of awsupload shares an AMI with the last account of a list alone.
OneOfSeveral(r) == args[r].target = "aws" /\ Len(args[r].share) > 1

(***************************************************************************)
(* The image of a compose that is a success is shared with the accounts    *)
(* share_with_accounts lists, with all of them and with nobody else.  An   *)
(* AMI for several accounts is the exception: of those one can use it.     *)
(***************************************************************************)
SharedAsListed ==
    \A r \in Requests : Succeeded(r) /\ args[r].target \in {"aws", "gcp"} =>
        LET listed == Members(args[r].share)
        IN  \E i \in cloud.images :
                /\ i.of = r
                /\ i.users \subseteq listed
                /\ listed # {} => i.users # {}
                /\ ~OneOfSeveral(r) => i.users = listed

(***************************************************************************)
(* What the upload puts into the cloud only to import it is gone when the  *)
(* job has ended: of a successful AMI, and of an import into Compute       *)
(* Engine whether it succeeded or not, as long as no call failed and no    *)
(* worker was lost.                                                        *)
(***************************************************************************)
NothingLeftBehind ==
    \A r \in Requests :
        Finished(osbuild(r)) /\ r \notin trouble =>
            /\ args[r].target = "gcp" => r \notin cloud.objects \cup cloud.leftovers
            /\ args[r].target = "aws" /\ Succeeded(r) => r \notin cloud.objects

(***************************************************************************)
(* The metadata of a successful compose is answered with its packages.  v2 *)
(* answers every other compose without any, and never that the result is   *)
(* malformed; v1 may do either, or panic.                                  *)
(***************************************************************************)
MetadataOfSuccess ==
    \A r \in Requests :
        IF composeStatusFromJobStatus(r) = "success"
        THEN GetComposeMetadata(r) = "packages" /\ ComposeMetadataV1(r) = "packages"
        ELSE GetComposeMetadata(r) = "empty"

(***************************************************************************)
(* An osbuild job of v2 is made from packages of its own depsolve job,     *)
(* unless composer had given up on that one: then there are none.          *)
(***************************************************************************)
BuildIsOfDepsolve ==
    \A r \in Requests : args[r].api = "v2" /\ osbuild(r) \in DOMAIN jobs =>
        \/ Finished(depsolve(r)) /\ jobs[depsolve(r)].Result.PackageSpecs /\ args[r].packages
        \/ depsolve(r) \in expired /\ ~args[r].packages

(***************************************************************************)
(* A request that waits for its depsolve job is answered, and a compose    *)
(* that was accepted becomes a success or a failure, whoever dies on the   *)
(* way; unless composer stops, and with it the request.                    *)
(***************************************************************************)
RequestSettles ==
    \A r \in Requests :
        (handler[r] # "new") ~>
            \/ handler[r] \in {"refused", "gone"}
            \/ At_(r, "created") /\ composeStatusFromJobStatus(r) \in {"success", "failure"}

(***************************************************************************)
(* What a client gets from a successful compose: an image or object that   *)
(* is complete, that the accounts of the request can use (one of them, for *)
(* an AMI that was to be shared with several), and its metadata.           *)
(***************************************************************************)
SuccessIsDelivered == TypeOK /\ SuccessIsUsable /\ SharedAsListed /\ MetadataOfSuccess
=============================================================================

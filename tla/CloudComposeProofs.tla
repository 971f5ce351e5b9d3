-------------------------- MODULE CloudComposeProofs ------------------------
(***************************************************************************)
(* Proofs about CloudCompose, for any requests, names, accounts, sizes of  *)
(* images and faults.                                                      *)
(***************************************************************************)
EXTENDS CloudCompose, FiniteSetTheorems, TLAPS

-----------------------------------------------------------------------------
(***************************************************************************)
(* The types that TypeOK leaves out.                                       *)
(***************************************************************************)
SnapshotSteps == {"ImportSnapshot", "WaitUntilImported", "DeleteObject"}

AMISteps == SnapshotSteps \cup {"DescribeImportSnapshotTasks", "ModifySnapshotAttribute",
                                "RegisterImage", "ModifyImageAttribute"}

ImportSteps == {"GetBuild", "CleanupGood", "CleanupBad"}

ObjectSteps == ImportSteps \cup {"PickZone", "CreateBuild", "ImportDone", "ImportFailed"}

ImageIsImported == {"CleanupGood", "ImportDone", "ComputeImageShare"}

AccountSteps == {"GetResourceNameByTag", "CreateStorageAccount"}

BlobSteps == {"CreateBlob", "UploadPages"}

Steps == {"idle", "RunOSBuild", "returned", "UploadArtifact", "none", "UploadImage", "Upload",
          "S3ObjectPresignedURL", "StorageObjectUpload", "ComputeImageShare", "CreateStorageContainer",
          "CreateOrUpdate"}
            \cup AMISteps \cup ObjectSteps \cup AccountSteps \cup BlobSteps

Images == [cloud : {"vmware", "aws", "gcp", "azure"}, name : Names, of : Requests, users : SUBSET Accounts]

BlobType == [md5 : Requests \cup {Nil}, pages : [1 .. Pages -> Requests \cup {Nil}]]

CloudType == [objects   : SUBSET Requests,
              snapshots : [Requests -> {"none", "importing", "completed", "deleted"}],
              builds    : [Requests -> {"none", "working", "success", "failure"}],
              leftovers : SUBSET Requests,
              images    : SUBSET Images,
              accounts  : SUBSET Requests,
              account   : [Requests -> Requests \cup {Nil}],
              blobs     : [Requests \X Names -> BlobType]]

UploadType == [next : Nat, sending : SUBSET Nat, error : BOOLEAN]

Types ==
    /\ TypeOK
    /\ step \in [Requests -> Steps]
    /\ cloud \in CloudType
    /\ upload \in [Requests -> UploadType]

-----------------------------------------------------------------------------
(***************************************************************************)
(* The queue.  Nothing is canceled; a job that has ended has the result    *)
(* its worker returned or, with composer having given up on it, none.      *)
(***************************************************************************)
Unstarted(j) == j \notin DOMAIN jobs \/ jobs[j].status = "queued"

DepsolveIsReported(r) ==
    Finished(depsolve(r)) =>
        /\ jobs[depsolve(r)].Result \in DepsolveResult
        /\ IF depsolve(r) \in expired THEN jobs[depsolve(r)].Result = Null(depsolve(r))
           ELSE jobs[depsolve(r)].Result.Error = ~jobs[depsolve(r)].Result.PackageSpecs

OSBuildIsReported(r) ==
    /\ Unstarted(osbuild(r)) <=> step[r] = "idle"
    /\ r \in alive => step[r] # "idle" /\ (Finished(osbuild(r)) => osbuild(r) \in expired)
    /\ Finished(osbuild(r)) =>
        IF osbuild(r) \in expired THEN jobs[osbuild(r)].Result = Null(osbuild(r)) /\ r \in trouble
        ELSE jobs[osbuild(r)].Result = result[r] /\ step[r] = "returned"
    /\ osbuild(r) \in DOMAIN jobs /\ args[r].api # "weldr" => args[r].target \in CloudTargets

NothingCanceled == \A j \in DOMAIN jobs : jobs[j].status # "canceled"

BuildOf(r) ==
    args[r].api = "v2" /\ osbuild(r) \in DOMAIN jobs =>
        \/ Finished(depsolve(r)) /\ jobs[depsolve(r)].Result.PackageSpecs /\ args[r].packages
        \/ depsolve(r) \in expired /\ ~args[r].packages

(***************************************************************************)
(* A worker: each call is one of the job's target, and the result is a     *)
(* success only after the last.                                            *)
(***************************************************************************)
OfTarget(s, a) ==
    /\ s = "Upload" => a.target \in {"aws", "aws.s3"}
    /\ s = "S3ObjectPresignedURL" => a.target = "aws.s3"
    /\ s \in AMISteps => a.target = "aws"
    /\ s \in ObjectSteps \cup {"StorageObjectUpload", "ComputeImageShare"} => a.target = "gcp"
    /\ s \in AccountSteps \cup {"CreateStorageContainer", "CreateOrUpdate"} => a.target = "azure.image"
    /\ s \in BlobSteps => a.target \in {"azure", "azure.image"}
    /\ s = "UploadImage" => a.target = "vmware"
    /\ s = "none" => a.target = "none"
    /\ s = "UploadArtifact" => a.api = "weldr"

StepIsOfTarget(r) == OfTarget(step[r], args[r])

ResultIsOfStep(r) ==
    /\ step[r] \in {"idle", "RunOSBuild"} => result[r] = NewResult
    /\ step[r] \notin {"idle", "RunOSBuild", "returned"} => result[r].Output = "good"
    /\ result[r].TargetErrors => step[r] = "returned"
    /\ result[r].Success =>
        /\ step[r] = "returned" /\ result[r].Output = "good" /\ ~result[r].TargetErrors
        /\ args[r].target \in CloudTargets => result[r].TargetResult
    /\ step[r] = "returned" /\ result[r].Output = "good" /\ ~result[r].TargetErrors /\ args[r].api # "weldr"
        => result[r].Success

(***************************************************************************)
(* The clouds: what is left of a job that met no trouble, and the images   *)
(* and objects it has made.                                                *)
(***************************************************************************)
LeftIsInUse(r) ==
    /\ r \in cloud.objects /\ r \notin trouble =>
        \/ args[r].target = "aws.s3"
        \/ args[r].target = "aws" /\ (step[r] \in SnapshotSteps \/ result[r].TargetErrors)
        \/ step[r] \in ObjectSteps
    /\ r \in cloud.leftovers /\ r \notin trouble => step[r] \in ImportSteps

ImageOf(r, c, users) == \E i \in cloud.images : i.cloud = c /\ i.of = r /\ i.users = users

ImageIsMade(r) ==
    /\ args[r].target = "aws.s3" /\ (step[r] = "S3ObjectPresignedURL" \/ result[r].Success) => r \in cloud.objects
    /\ step[r] = "ModifyImageAttribute" => \E i \in cloud.images : i.cloud = "aws" /\ i.of = r
    /\ args[r].target = "aws" /\ result[r].Success => ImageOf(r, "aws", launchPerms(args[r].share))
    /\ cloud.builds[r] = "success" /\ step[r] # "returned" => ImageOf(r, "gcp", {})
    /\ step[r] \in ImageIsImported => cloud.builds[r] = "success"
    /\ args[r].target = "gcp" /\ result[r].Success => ImageOf(r, "gcp", Members(args[r].share))
    /\ args[r].target = "azure.image" /\ result[r].Success /\ Rivals(r) = {} =>
        \E i \in cloud.images : i.cloud = "azure" /\ i.of = r

ImagesAreNamed == \A i \in cloud.images : i.name = args[i.of].name

(***************************************************************************)
(* Page blobs: jobs write to the same one only under the same name, and    *)
(* else its pages are those that were sent.                                *)
(***************************************************************************)
HasBlob(r) ==
    \/ step[r] \in BlobSteps \cup {"CreateOrUpdate"}
    \/ upload[r].sending # {}
    \/ args[r].target = "azure.image" /\ result[r].Success

BlobIsOwn(r) ==
    /\ HasBlob(r) \/ step[r] = "CreateStorageContainer" =>
        \/ args[r].target = "azure"
        \/ args[r].target = "azure.image" /\ cloud.account[r] # Nil
    /\ cloud.account[r] # Nil => cloud.account[r] \in cloud.accounts
    /\ args[r].target = "azure" => cloud.account[r] = Nil
    /\ r \in cloud.accounts => args[r].target = "azure.image"

PagesAreSent(r) ==
    args[r].target = "azure.image" /\ Rivals(r) = {} =>
        /\ At(r, "UploadPages") /\ ~upload[r].error =>
            \A p \in (1 .. upload[r].next - 1) \ upload[r].sending : cloud.blobs[Blob(r)].pages[p] = r
        /\ step[r] = "CreateOrUpdate" \/ result[r].Success =>
            \A p \in 1 .. Pages : cloud.blobs[Blob(r)].pages[p] = r

-----------------------------------------------------------------------------
QueueInv(r) == DepsolveIsReported(r) /\ OSBuildIsReported(r) /\ BuildOf(r)

WorkerInv(r) == StepIsOfTarget(r) /\ ResultIsOfStep(r)

CloudInv(r) == LeftIsInUse(r) /\ ImageIsMade(r) /\ BlobIsOwn(r) /\ PagesAreSent(r)

(***************************************************************************)
(* The inductive invariant.                                                *)
(***************************************************************************)
IInv ==
    /\ Types
    /\ NothingCanceled
    /\ ImagesAreNamed
    /\ \A r \in Requests : QueueInv(r) /\ WorkerInv(r) /\ CloudInv(r)

-----------------------------------------------------------------------------
(***************************************************************************)
(* What a step of job r may leave the clouds as: new belongs to others as  *)
(* much as before, but for images and blobs of the same name.              *)
(***************************************************************************)
Local(r, new) ==
    /\ new \in CloudType
    /\ \A q \in Requests \ {r} :
        /\ q \in new.objects <=> q \in cloud.objects
        /\ q \in new.leftovers <=> q \in cloud.leftovers
        /\ q \in new.accounts <=> q \in cloud.accounts
        /\ new.builds[q] = cloud.builds[q]
        /\ new.account[q] = cloud.account[q]
    /\ \A i \in cloud.images : i.of # r =>
        \/ i \in new.images
        \/ i.cloud = "azure" /\ i.name = args[r].name /\ args[r].target = "azure.image"
    /\ \A i \in new.images : i.name = args[i.of].name
    /\ \A b \in Requests \X Names : new.blobs[b] = cloud.blobs[b] \/ (HasBlob(r) /\ b = Blob(r))
    /\ cloud.accounts \subseteq new.accounts
    /\ cloud.account[r] # Nil => new.account[r] # Nil
    /\ new.account[r] # Nil => new.account[r] \in new.accounts
    /\ args[r].target = "azure" => new.account[r] = Nil
    /\ r \in new.accounts => args[r].target = "azure.image"

\* A step of job r is none of the others.
Elsewhere(r) ==
    /\ \A q \in Requests \ {r} :
        /\ step'[q] = step[q] /\ result'[q] = result[q] /\ upload'[q] = upload[q]
        /\ q \in alive' <=> q \in alive
    /\ trouble \subseteq trouble'
    /\ UNCHANGED <<args, queueVars>>

WorkerTypes ==
    /\ alive \subseteq Requests /\ trouble \subseteq Requests
    /\ result \in [Requests -> OSBuildResult]
    /\ step \in [Requests -> Steps]
    /\ upload \in [Requests -> UploadType]
    /\ \A r \in Requests : /\ upload[r].sending \subseteq 1 .. upload[r].next - 1
                           /\ upload[r].next \in 1 .. Pages + 1
                           /\ Cardinality(upload[r].sending) <= threads

LEMMA ArgsTypes ==
    ASSUME Types, NEW r \in Requests
    PROVE  /\ args[r].target \in Targets /\ args[r].name \in Names /\ args[r].api \in {"v1", "v2", "weldr"}
           /\ args[r].packages \in BOOLEAN
           /\ args[r].share \in {<<>>} \cup UNION {[1 .. n -> Accounts] : n \in 1 .. 2}
  BY DEF Types, TypeOK, Args

LEMMA BlobTypes ==
    ASSUME IInv, NEW r \in Requests
    PROVE  Blob(r) \in Requests \X Names
<1>1. Types /\ cloud \in CloudType /\ args[r].name \in Names
  BY ArgsTypes DEF IInv, Types
<1>2. cloud.account[r] \in Requests \cup {Nil}
  BY <1>1 DEF CloudType
<1> QED BY <1>1, <1>2 DEF Blob

\* Two jobs with a blob have the same one only as rivals.
LEMMA OwnBlob ==
    ASSUME IInv, NEW r \in Requests, NEW q \in Requests, q # r, HasBlob(q), HasBlob(r),
           args[q].target = "azure.image", Rivals(q) = {}
    PROVE  Blob(q) # Blob(r)
<1>1. cloud.account[q] # Nil /\ cloud.account[q] \in cloud.accounts
  BY DEF IInv, CloudInv, BlobIsOwn
<1>2. CASE args[r].target = "azure.image"
  <2>1. args[r].name # args[q].name
    BY <1>2 DEF Rivals
  <2> QED BY <2>1 DEF Blob
<1>3. CASE args[r].target = "azure"
  <2>1. cloud.account[r] = Nil /\ r \notin cloud.accounts
    BY <1>3 DEF IInv, CloudInv, BlobIsOwn
  <2> QED BY <1>1, <2>1 DEF Blob
<1> QED BY <1>2, <1>3 DEF IInv, CloudInv, BlobIsOwn

LEMMA OthersKeep ==
    ASSUME IInv, NEW r \in Requests, NEW q \in Requests, q # r, Elsewhere(r), Local(r, cloud')
    PROVE  WorkerInv(q)' /\ CloudInv(q)'
<1>1. /\ step'[q] = step[q] /\ result'[q] = result[q] /\ upload'[q] = upload[q]
      /\ q \in alive' <=> q \in alive
      /\ q \in trouble => q \in trouble'
      /\ args' = args
  BY DEF Elsewhere
<1>2. /\ q \in cloud'.objects <=> q \in cloud.objects
      /\ q \in cloud'.leftovers <=> q \in cloud.leftovers
      /\ q \in cloud'.accounts <=> q \in cloud.accounts
      /\ cloud'.builds[q] = cloud.builds[q]
      /\ cloud'.account[q] = cloud.account[q]
      /\ cloud.accounts \subseteq cloud'.accounts
  BY DEF Local
<1>3. WorkerInv(q) /\ CloudInv(q)
  BY DEF IInv
<1>4. WorkerInv(q)'
  BY <1>1, <1>3 DEF WorkerInv, StepIsOfTarget, ResultIsOfStep, OfTarget
<1>5. LeftIsInUse(q)' /\ BlobIsOwn(q)'
  BY <1>1, <1>2, <1>3 DEF CloudInv, LeftIsInUse, BlobIsOwn, HasBlob
<1>6. ImageIsMade(q)'
  <2>1. \A i \in cloud.images : i.of = q /\ i.cloud # "azure" => i \in cloud'.images
    BY DEF Local
  <2>2. /\ (\E i \in cloud.images : i.cloud = "aws" /\ i.of = q) =>
             \E i \in cloud'.images : i.cloud = "aws" /\ i.of = q
        /\ \A c \in {"aws", "gcp"} : \A users :
             (\E i \in cloud.images : i.cloud = c /\ i.of = q /\ i.users = users) =>
             \E i \in cloud'.images : i.cloud = c /\ i.of = q /\ i.users = users
    BY <2>1
  <2>3. args[q].target = "azure.image" /\ result[q].Success /\ Rivals(q) = {} =>
            \E i \in cloud'.images : i.cloud = "azure" /\ i.of = q
    <3> SUFFICES ASSUME args[q].target = "azure.image", result[q].Success, Rivals(q) = {}
                 PROVE  \E i \in cloud'.images : i.cloud = "azure" /\ i.of = q
      OBVIOUS
    <3>1. PICK i \in cloud.images : i.cloud = "azure" /\ i.of = q
      BY <1>3 DEF CloudInv, ImageIsMade
    <3>2. i.name = args[q].name
      BY <3>1 DEF IInv, ImagesAreNamed
    <3>3. ~(args[r].name = args[q].name /\ args[r].target = "azure.image")
      BY DEF Rivals
    <3>4. i \in cloud'.images
      BY <3>1, <3>2, <3>3 DEF Local
    <3> QED BY <3>1, <3>4
  <2>4. Rivals(q)' = Rivals(q)
    BY <1>1 DEF Rivals
  <2> QED BY <1>1, <1>2, <1>3, <2>2, <2>3, <2>4 DEF CloudInv, ImageIsMade, ImageOf
<1>7. PagesAreSent(q)'
  <2>1. Rivals(q)' = Rivals(q) /\ Blob(q)' = Blob(q) /\ Blob(q) \in Requests \X Names
    BY <1>1, <1>2, BlobTypes DEF Rivals, Blob
  <2>2. HasBlob(q) /\ args[q].target = "azure.image" /\ Rivals(q) = {} =>
            cloud'.blobs[Blob(q)] = cloud.blobs[Blob(q)]
    BY <2>1, OwnBlob DEF Local
  <2> QED BY <1>1, <1>3, <2>1, <2>2 DEF CloudInv, PagesAreSent, HasBlob, At, BlobSteps
<1> QED BY <1>4, <1>5, <1>6, <1>7 DEF CloudInv

\* A step of a worker, or of a cloud, keeps the invariant if it keeps that of its own job.
LEMMA Combine ==
    ASSUME IInv, NEW r \in Requests, Elsewhere(r), Local(r, cloud'), WorkerTypes',
           \/ r \in alive /\ step'[r] # "idle"
           \/ UNCHANGED <<alive, step, result>>,
           r \in alive' => r \in alive,
           WorkerInv(r)', CloudInv(r)'
    PROVE  IInv'
<1>1. Types'
  BY DEF IInv, Types, TypeOK, WorkerTypes, Elsewhere, Local, queueVars
<1>2. NothingCanceled' /\ ImagesAreNamed'
  BY DEF IInv, NothingCanceled, ImagesAreNamed, Local, Elsewhere, queueVars
<1>3. \A q \in Requests : WorkerInv(q)' /\ CloudInv(q)'
  BY OthersKeep
<1>4. ASSUME NEW q \in Requests PROVE QueueInv(q)'
  <2>1. QueueInv(q) /\ UNCHANGED <<jobs, expired, args>>
    BY DEF IInv, Elsewhere, queueVars
  <2>2. DepsolveIsReported(q)' /\ BuildOf(q)'
    BY <2>1 DEF QueueInv, DepsolveIsReported, BuildOf, Finished, depsolve, osbuild
  <2>3. OSBuildIsReported(q)'
    <3>1. CASE q # r \/ UNCHANGED <<alive, step, result>>
      <4>1. step'[q] = step[q] /\ result'[q] = result[q] /\ (q \in alive' <=> q \in alive)
        BY <3>1 DEF Elsewhere
      <4> QED BY <2>1, <4>1 DEF QueueInv, OSBuildIsReported, Elsewhere, Unstarted, Finished, osbuild
    <3>2. CASE q = r /\ r \in alive /\ step'[r] # "idle"
      <4>1. step[q] # "idle" /\ (Finished(osbuild(q)) => osbuild(q) \in expired)
        BY <2>1, <3>2 DEF QueueInv, OSBuildIsReported
      <4> QED BY <2>1, <3>2, <4>1 DEF QueueInv, OSBuildIsReported, Elsewhere, Unstarted, Finished, osbuild
    <3> QED BY <3>1, <3>2
  <2> QED BY <2>2, <2>3 DEF QueueInv
<1> QED BY <1>1, <1>2, <1>3, <1>4 DEF IInv

-----------------------------------------------------------------------------
(***************************************************************************)
(* The steps that the calls have in common.                                *)
(***************************************************************************)
Calls == Steps \ {"idle", "RunOSBuild", "returned"}

LEMMA GoesTo ==
    ASSUME Types, NEW r \in Requests, NEW s \in Steps, Goes(r, s)
    PROVE  /\ step' \in [Requests -> Steps] /\ step'[r] = s
           /\ \A q \in Requests \ {r} : step'[q] = step[q]
  BY DEF Types, Goes

LEMMA ErrorIsAppended ==
    ASSUME Types, NEW r \in Requests, appendTargetError(r)
    PROVE  /\ step' \in [Requests -> Steps] /\ step'[r] = "returned"
           /\ result' \in [Requests -> OSBuildResult]
           /\ result'[r].TargetErrors
           /\ result'[r].Success = result[r].Success
           /\ result'[r].Output = result[r].Output
           /\ \A q \in Requests \ {r} : step'[q] = step[q] /\ result'[q] = result[q]
<1>1. "returned" \in Steps /\ Goes(r, "returned") /\ result[r] \in OSBuildResult
  BY DEF Types, TypeOK, Steps, appendTargetError, Return
<1>2. result' = [result EXCEPT ![r].TargetErrors = TRUE] /\ result \in [Requests -> OSBuildResult]
  BY DEF Types, TypeOK, appendTargetError
<1>3. /\ result' \in [Requests -> OSBuildResult] /\ result'[r].TargetErrors
      /\ result'[r].Success = result[r].Success /\ result'[r].Output = result[r].Output
      /\ \A q \in Requests \ {r} : result'[q] = result[q]
  BY <1>1, <1>2 DEF OSBuildResult
<1> QED BY <1>1, <1>3, GoesTo

LEMMA SuccessIsSet ==
    ASSUME Types, NEW r \in Requests, NEW shows \in BOOLEAN, Uploaded(r, shows)
    PROVE  /\ step' \in [Requests -> Steps] /\ step'[r] = "returned"
           /\ result' \in [Requests -> OSBuildResult]
           /\ result'[r].Success
           /\ result'[r].TargetResult = shows
           /\ result'[r].TargetErrors = result[r].TargetErrors
           /\ result'[r].Output = result[r].Output
           /\ \A q \in Requests \ {r} : step'[q] = step[q] /\ result'[q] = result[q]
<1>1. /\ "returned" \in Steps /\ Goes(r, "returned") /\ result[r] \in OSBuildResult
      /\ result \in [Requests -> OSBuildResult]
      /\ result' = [result EXCEPT ![r].Success = TRUE, ![r].TargetResult = shows]
  BY DEF Types, TypeOK, Steps, Uploaded, Return
<1>2. /\ result'[r] = [result[r] EXCEPT !.Success = TRUE, !.TargetResult = shows]
      /\ \A q \in Requests \ {r} : result'[q] = result[q]
      /\ DOMAIN result' = Requests /\ result' = [q \in Requests |-> result'[q]]
  BY <1>1
<1>3. /\ result'[r] \in OSBuildResult /\ result'[r].Success /\ result'[r].TargetResult = shows
      /\ result'[r].TargetErrors = result[r].TargetErrors /\ result'[r].Output = result[r].Output
  BY <1>1, <1>2 DEF OSBuildResult
<1>4. result' \in [Requests -> OSBuildResult]
  BY <1>1, <1>2, <1>3
<1> QED BY <1>1, <1>2, <1>3, <1>4, GoesTo

\* A job that is at a call of its target has an image and has not failed.
LEMMA Calling ==
    ASSUME IInv, NEW r \in Requests, NEW s \in Calls, At(r, s)
    PROVE  /\ r \in alive /\ step[r] = s
           /\ result[r].Output = "good" /\ ~result[r].TargetErrors /\ ~result[r].Success
           /\ OfTarget(s, args[r])
  BY DEF IInv, WorkerInv, ResultIsOfStep, StepIsOfTarget, At, Calls

LEMMA LocalSame ==
    ASSUME IInv, NEW r \in Requests
    PROVE  Local(r, cloud)
  BY DEF IInv, Types, CloudInv, BlobIsOwn, ImagesAreNamed, Local

\* A call has failed, with or without effect.
LEMMA Failing ==
    ASSUME IInv, NEW r \in Requests, NEW s \in Calls, At(r, s), Local(r, cloud'),
           appendTargetError(r), trouble' \in {trouble, trouble \cup {r}},
           \/ r \in trouble'
           \/ r \notin cloud'.leftovers /\ (r \in cloud'.objects => args[r].target \in {"aws", "aws.s3"}),
           UNCHANGED <<args, alive, upload, queueVars>>
    PROVE  IInv'
<1>1. /\ step' \in [Requests -> Steps] /\ step'[r] = "returned"
      /\ result' \in [Requests -> OSBuildResult]
      /\ result'[r].TargetErrors
      /\ result'[r].Success = result[r].Success
      /\ result'[r].Output = result[r].Output
      /\ \A q \in Requests \ {r} : step'[q] = step[q] /\ result'[q] = result[q]
  BY ErrorIsAppended DEF IInv
<1>2. r \in alive /\ step[r] = s /\ ~result[r].Success
  BY Calling
<1>4. Elsewhere(r)
  BY <1>1 DEF Elsewhere
<1>5. WorkerTypes'
  BY <1>1 DEF WorkerTypes, IInv, Types, TypeOK
<1>6. WorkerInv(r)'
  BY <1>1, <1>2 DEF WorkerInv, StepIsOfTarget, OfTarget, ResultIsOfStep,
                    AMISteps, SnapshotSteps, ObjectSteps, ImportSteps, AccountSteps, BlobSteps
<1>7. CloudInv(r)'
  <2>1. LeftIsInUse(r)'
    BY <1>1 DEF LeftIsInUse
  <2>2. ImageIsMade(r)'
    BY <1>1, <1>2 DEF ImageIsMade, ImageIsImported
  <2>3. BlobIsOwn(r)'
    BY <1>1, <1>2 DEF IInv, CloudInv, BlobIsOwn, HasBlob, BlobSteps, Local
  <2>4. PagesAreSent(r)'
    BY <1>1, <1>2 DEF PagesAreSent, At
  <2> QED BY <2>1, <2>2, <2>3, <2>4 DEF CloudInv
<1> QED BY <1>1, <1>2, <1>4, <1>5, <1>6, <1>7, Combine

\* What job r has to find in the clouds for its next call, and what it may have left there.
Ready(r, new, next) ==
    /\ OfTarget(next, args[r])
    /\ next = "S3ObjectPresignedURL" => r \in new.objects
    /\ next = "ModifyImageAttribute" => \E i \in new.images : i.cloud = "aws" /\ i.of = r
    /\ new.builds[r] = "success" => \E i \in new.images : i.cloud = "gcp" /\ i.of = r /\ i.users = {}
    /\ next \in ImageIsImported => new.builds[r] = "success"
    /\ next \in BlobSteps \cup {"CreateOrUpdate", "CreateStorageContainer"} =>
        args[r].target = "azure" \/ new.account[r] # Nil
    /\ next = "CreateOrUpdate" =>
        /\ new.account[r] = cloud.account[r]
        /\ Rivals(r) = {} => \A p \in 1 .. Pages : new.blobs[Blob(r)].pages[p] = r

Tidy(r, new, next) ==
    /\ r \in new.objects =>
        \/ args[r].target = "aws.s3"
        \/ args[r].target = "aws" /\ next \in SnapshotSteps
        \/ next \in ObjectSteps
    /\ r \in new.leftovers => next \in ImportSteps

\* The next call.
LEMMA Moving ==
    ASSUME IInv, NEW r \in Requests, NEW s \in Calls, At(r, s), Local(r, cloud'),
           NEW next \in Calls \ {"UploadPages"}, Goes(r, next),
           Ready(r, cloud', next), r \in trouble' \/ Tidy(r, cloud', next),
           trouble' \in {trouble, trouble \cup {r}},
           UNCHANGED <<args, alive, result, upload, queueVars>>
    PROVE  IInv'
<1>1. next \in Steps /\ next \notin {"idle", "RunOSBuild", "returned"} /\ Types
  BY DEF Calls, IInv
<1>2. /\ step' \in [Requests -> Steps] /\ step'[r] = next
      /\ \A q \in Requests \ {r} : step'[q] = step[q]
  BY <1>1, GoesTo
<1>3. /\ r \in alive /\ step[r] = s /\ OfTarget(s, args[r])
      /\ result[r].Output = "good" /\ ~result[r].TargetErrors /\ ~result[r].Success
  BY Calling
<1>4. Elsewhere(r)
  BY <1>2 DEF Elsewhere
<1>5. WorkerTypes'
  BY <1>2 DEF WorkerTypes, IInv, Types, TypeOK
<1>6. WorkerInv(r)'
  BY <1>1, <1>2, <1>3 DEF WorkerInv, StepIsOfTarget, OfTarget, ResultIsOfStep, Ready
<1>7. CloudInv(r)'
  <2>1. LeftIsInUse(r)'
    BY <1>2, <1>3 DEF LeftIsInUse, Tidy
  <2>2. ImageIsMade(r)'
    BY <1>2, <1>3 DEF ImageIsMade, ImageOf, Ready
  <2>3. BlobIsOwn(r)'
    <3>1. HasBlob(r)' \/ next = "CreateStorageContainer" =>
            \/ next \in BlobSteps \cup {"CreateOrUpdate", "CreateStorageContainer"}
            \/ HasBlob(r)
      BY <1>2, <1>3 DEF HasBlob
    <3> QED BY <1>1, <1>2, <1>3, <3>1 DEF IInv, CloudInv, BlobIsOwn, Local, Ready, OfTarget
  <2>4. PagesAreSent(r)'
    BY <1>2, <1>3 DEF PagesAreSent, At, Ready, Blob, Rivals
  <2> QED BY <2>1, <2>2, <2>3, <2>4 DEF CloudInv
<1> QED BY <1>1, <1>2, <1>3, <1>4, <1>5, <1>6, <1>7, Combine

LEMMA CallKeeps ==
    ASSUME IInv, NEW r \in Requests, NEW s \in Calls, NEW new,
           NEW next \in Calls \ {"UploadPages"},
           Call(r, s, new, next), Local(r, new), Ready(r, new, next),
           r \in trouble \/ Tidy(r, new, next), UNCHANGED queueVars
    PROVE  IInv'
<1>1. CASE cloud' = new /\ Goes(r, next) /\ UNCHANGED <<result, trouble>>
  BY <1>1, Moving DEF Call
<1>2. CASE Fails(r) /\ cloud' \in {cloud, new} /\ appendTargetError(r)
  BY <1>2, LocalSame, Failing DEF Call, Fails, Troubled
<1> QED BY <1>1, <1>2 DEF Call

LEMMA RefusedKeeps ==
    ASSUME IInv, NEW r \in Requests, NEW s \in Calls \ ObjectSteps, Refused(r, s), UNCHANGED queueVars
    PROVE  IInv'
<1>1. Local(r, cloud')
  BY LocalSame DEF Refused
<1>2. step[r] = s /\ ~result[r].TargetErrors
  BY Calling DEF Refused
<1>3. \/ r \in trouble
      \/ r \notin cloud.leftovers /\ (r \in cloud.objects => args[r].target \in {"aws", "aws.s3"})
  BY <1>2 DEF IInv, CloudInv, LeftIsInUse, ObjectSteps
<1> QED BY <1>1, <1>3, Failing DEF Refused

\* What a job that was successful has to find in the clouds.
Delivered(r, new) ==
    /\ args[r].target = "aws.s3" => r \in new.objects
    /\ args[r].target = "aws" =>
        \E i \in new.images : i.cloud = "aws" /\ i.of = r /\ i.users = launchPerms(args[r].share)
    /\ args[r].target = "gcp" =>
        \E i \in new.images : i.cloud = "gcp" /\ i.of = r /\ i.users = Members(args[r].share)
    /\ args[r].target = "azure.image" =>
        /\ new.account[r] # Nil /\ new.account[r] = cloud.account[r]
        /\ Rivals(r) = {} =>
            /\ \E i \in new.images : i.cloud = "azure" /\ i.of = r
            /\ \A p \in 1 .. Pages : new.blobs[Blob(r)].pages[p] = r

LEMMA Succeeding ==
    ASSUME IInv, NEW r \in Requests, NEW s \in Calls, At(r, s), Local(r, cloud'),
           NEW shows \in BOOLEAN, Uploaded(r, shows), args[r].target \in CloudTargets => shows,
           Delivered(r, cloud'), r \in trouble \/ Tidy(r, cloud', "returned"),
           UNCHANGED <<args, alive, upload, trouble, queueVars>>
    PROVE  IInv'
<1>1. /\ step' \in [Requests -> Steps] /\ step'[r] = "returned"
      /\ result' \in [Requests -> OSBuildResult]
      /\ result'[r].Success
      /\ result'[r].TargetResult = shows
      /\ result'[r].TargetErrors = result[r].TargetErrors
      /\ result'[r].Output = result[r].Output
      /\ \A q \in Requests \ {r} : step'[q] = step[q] /\ result'[q] = result[q]
  BY SuccessIsSet DEF IInv
<1>2. /\ r \in alive /\ step[r] = s /\ result[r].Output = "good" /\ ~result[r].TargetErrors
  BY Calling
<1>3. Elsewhere(r)
  BY <1>1 DEF Elsewhere
<1>4. WorkerTypes'
  BY <1>1 DEF WorkerTypes, IInv, Types, TypeOK
<1>5. WorkerInv(r)'
  BY <1>1, <1>2 DEF WorkerInv, StepIsOfTarget, OfTarget, ResultIsOfStep,
                    AMISteps, SnapshotSteps, ObjectSteps, ImportSteps, AccountSteps, BlobSteps
<1>6. CloudInv(r)'
  <2>1. LeftIsInUse(r)'
    BY <1>1 DEF LeftIsInUse, Tidy, SnapshotSteps, ObjectSteps, ImportSteps
  <2>2. Rivals(r)' = Rivals(r) /\ (args[r].target = "azure.image" => Blob(r)' = Blob(r))
    BY DEF Rivals, Blob, Delivered
  <2>3. ImageIsMade(r)'
    BY <1>1, <2>2 DEF ImageIsMade, ImageOf, Delivered, ImageIsImported
  <2>4. BlobIsOwn(r)'
    BY <1>1, <1>2 DEF IInv, CloudInv, BlobIsOwn, HasBlob, BlobSteps, Local, Delivered
  <2>5. PagesAreSent(r)'
    BY <1>1, <2>2 DEF PagesAreSent, At, Delivered
  <2> QED BY <2>1, <2>3, <2>4, <2>5 DEF CloudInv
<1> QED BY <1>1, <1>2, <1>3, <1>4, <1>5, <1>6, Combine

LEMMA LastKeeps ==
    ASSUME IInv, NEW r \in Requests, NEW s \in Calls, NEW new, NEW shows \in BOOLEAN,
           Last(r, s, new, shows), Local(r, new), args[r].target \in CloudTargets => shows,
           Delivered(r, new), r \in trouble \/ Tidy(r, new, "returned"), UNCHANGED queueVars
    PROVE  IInv'
<1>1. CASE cloud' = new /\ Uploaded(r, shows) /\ UNCHANGED trouble
  BY <1>1, Succeeding DEF Last
<1>2. CASE Fails(r) /\ cloud' \in {cloud, new} /\ appendTargetError(r)
  BY <1>2, LocalSame, Failing DEF Last, Fails, Troubled
<1> QED BY <1>1, <1>2 DEF Last

-----------------------------------------------------------------------------
(***************************************************************************)
(* What the calls change in the clouds.                                    *)
(***************************************************************************)

\* The invariant at a call.
LEMMA Here ==
    ASSUME IInv, NEW r \in Requests, NEW s \in Calls, At(r, s)
    PROVE  Ready(r, cloud, s) /\ (r \in trouble \/ Tidy(r, cloud, s))
<1>1. /\ step[r] = s /\ OfTarget(s, args[r]) /\ ~result[r].TargetErrors /\ s # "returned"
  BY Calling DEF Calls
<1>2. LeftIsInUse(r) /\ ImageIsMade(r) /\ BlobIsOwn(r) /\ PagesAreSent(r)
  BY DEF IInv, CloudInv
<1>3. r \in trouble \/ Tidy(r, cloud, s)
  BY <1>1, <1>2 DEF LeftIsInUse, Tidy
<1>4. Ready(r, cloud, s)
  BY <1>1, <1>2 DEF Ready, ImageIsMade, ImageOf, BlobIsOwn, HasBlob, PagesAreSent, OfTarget
<1> QED BY <1>3, <1>4

LEMMA LocalObjects ==
    ASSUME IInv, NEW r \in Requests, NEW S \in SUBSET Requests, NEW new, new = Put("objects", S),
           \A q \in Requests \ {r} : q \in S <=> q \in cloud.objects
    PROVE  /\ Local(r, new)
           /\ new.objects = S /\ new.leftovers = cloud.leftovers /\ new.images = cloud.images
           /\ new.builds = cloud.builds /\ new.account = cloud.account
<1>1. cloud \in CloudType /\ Local(r, cloud)
  BY LocalSame DEF IInv, Types
<1>2. /\ new \in CloudType
      /\ new.objects = S /\ new.leftovers = cloud.leftovers /\ new.images = cloud.images
      /\ new.builds = cloud.builds /\ new.account = cloud.account /\ new.accounts = cloud.accounts
      /\ new.blobs = cloud.blobs
  BY <1>1 DEF CloudType, Put
<1> QED BY <1>1, <1>2 DEF Local

LEMMA LocalLeftovers ==
    ASSUME IInv, NEW r \in Requests, NEW new, new = Put("leftovers", cloud.leftovers \ {r})
    PROVE  /\ Local(r, new)
           /\ new.objects = cloud.objects /\ new.leftovers = cloud.leftovers \ {r}
           /\ new.images = cloud.images /\ new.builds = cloud.builds /\ new.account = cloud.account
<1>1. cloud \in CloudType /\ Local(r, cloud)
  BY LocalSame DEF IInv, Types
<1>2. /\ new \in CloudType
      /\ new.objects = cloud.objects /\ new.leftovers = cloud.leftovers \ {r} /\ new.images = cloud.images
      /\ new.builds = cloud.builds /\ new.account = cloud.account /\ new.accounts = cloud.accounts
      /\ new.blobs = cloud.blobs
  BY <1>1 DEF CloudType, Put
<1> QED BY <1>1, <1>2 DEF Local

LEMMA LocalSnapshot ==
    ASSUME IInv, NEW r \in Requests, NEW x \in {"importing", "completed", "deleted"}, NEW new,
           new = [cloud EXCEPT !.snapshots[r] = x]
    PROVE  /\ Local(r, new)
           /\ new.objects = cloud.objects /\ new.leftovers = cloud.leftovers /\ new.images = cloud.images
           /\ new.builds = cloud.builds /\ new.account = cloud.account
           /\ new.accounts = cloud.accounts /\ new.blobs = cloud.blobs
<1>1. cloud \in CloudType /\ Local(r, cloud)
  BY LocalSame DEF IInv, Types
<1>2. /\ new \in CloudType
      /\ new.objects = cloud.objects /\ new.leftovers = cloud.leftovers /\ new.images = cloud.images
      /\ new.builds = cloud.builds /\ new.account = cloud.account /\ new.accounts = cloud.accounts
      /\ new.blobs = cloud.blobs
  BY <1>1 DEF CloudType
<1> QED BY <1>1, <1>2 DEF Local

\* Images come, are shared, or are replaced by one of the same name.
LEMMA LocalImages ==
    ASSUME IInv, NEW r \in Requests, NEW S \in SUBSET Images, NEW new, new = Put("images", S),
           \A i \in cloud.images : i.of # r =>
               \/ i \in S
               \/ i.cloud = "azure" /\ i.name = args[r].name /\ args[r].target = "azure.image",
           \A i \in S : i.name = args[i.of].name
    PROVE  /\ Local(r, new)
           /\ new.images = S
           /\ new.objects = cloud.objects /\ new.leftovers = cloud.leftovers
           /\ new.builds = cloud.builds /\ new.account = cloud.account /\ new.blobs = cloud.blobs
<1>1. cloud \in CloudType /\ Local(r, cloud)
  BY LocalSame DEF IInv, Types
<1>2. /\ new \in CloudType
      /\ new.objects = cloud.objects /\ new.leftovers = cloud.leftovers /\ new.images = S
      /\ new.builds = cloud.builds /\ new.account = cloud.account /\ new.accounts = cloud.accounts
      /\ new.blobs = cloud.blobs
  BY <1>1 DEF CloudType, Put
<1> QED BY <1>1, <1>2 DEF Local

LEMMA ImageTypes ==
    ASSUME IInv, NEW r \in Requests, NEW c \in {"vmware", "aws", "gcp", "azure"}
    PROVE  /\ Image(c, args[r].name, r, {}) \in Images
           /\ Image(c, args[r].name, r, {}).cloud = c /\ Image(c, args[r].name, r, {}).of = r
           /\ Image(c, args[r].name, r, {}).users = {}
           /\ Image(c, args[r].name, r, {}).name = args[r].name
<1>1. args[r].name \in Names
  BY ArgsTypes DEF IInv
<1> QED BY <1>1 DEF Image, Images

LEMMA LocalImageAdded ==
    ASSUME IInv, NEW r \in Requests, NEW c \in {"vmware", "aws", "gcp", "azure"}, NEW new,
           new = Put("images", cloud.images \cup {Image(c, args[r].name, r, {})})
    PROVE  /\ Local(r, new)
           /\ new.images = cloud.images \cup {Image(c, args[r].name, r, {})}
           /\ new.objects = cloud.objects /\ new.leftovers = cloud.leftovers
           /\ new.builds = cloud.builds /\ new.account = cloud.account /\ new.blobs = cloud.blobs
<1> DEFINE i0 == Image(c, args[r].name, r, {})
           S == cloud.images \cup {i0}
<1>1. i0 \in Images /\ i0.of = r /\ i0.name = args[r].name
  BY ImageTypes
<1>2. cloud.images \subseteq Images /\ \A i \in cloud.images : i.name = args[i.of].name
  BY DEF IInv, Types, CloudType, ImagesAreNamed
<1>3. S \in SUBSET Images /\ \A i \in S : i.name = args[i.of].name
  BY <1>1, <1>2
<1> HIDE DEF i0
<1>4. new = Put("images", S)
  BY DEF i0
<1> QED BY <1>3, <1>4, LocalImages DEF i0

\* An image of job r is shared.
Shares(r, c, users) ==
    {IF i.cloud = c /\ i.of = r THEN [i EXCEPT !.users = users] ELSE i : i \in cloud.images}

LEMMA LocalImageShared ==
    ASSUME IInv, NEW r \in Requests, NEW c \in {"aws", "gcp"}, NEW users \in SUBSET Accounts, NEW new,
           new = Put("images", Shares(r, c, users)),
           \E i \in cloud.images : i.cloud = c /\ i.of = r
    PROVE  /\ Local(r, new)
           /\ \E i \in new.images : i.cloud = c /\ i.of = r /\ i.users = users
           /\ new.objects = cloud.objects /\ new.leftovers = cloud.leftovers
           /\ new.builds = cloud.builds /\ new.account = cloud.account
<1>1. cloud.images \subseteq Images /\ \A i \in cloud.images : i.name = args[i.of].name
  BY DEF IInv, Types, CloudType, ImagesAreNamed
<1>2. \A i \in Images : /\ [i EXCEPT !.users = users] \in Images
                        /\ [i EXCEPT !.users = users].of = i.of
                        /\ [i EXCEPT !.users = users].name = i.name
                        /\ [i EXCEPT !.users = users].cloud = i.cloud
                        /\ [i EXCEPT !.users = users].users = users
  BY DEF Images
<1>3. Shares(r, c, users) \in SUBSET Images
  BY <1>1, <1>2 DEF Shares
<1>4. ASSUME NEW i \in Shares(r, c, users) PROVE i.name = args[i.of].name
  <2>1. PICK k \in cloud.images :
            i = IF k.cloud = c /\ k.of = r THEN [k EXCEPT !.users = users] ELSE k
    BY DEF Shares
  <2>2. i.name = k.name /\ i.of = k.of
    BY <1>1, <1>2, <2>1
  <2> QED BY <1>1, <2>2
<1>5. \A i \in cloud.images : i.of # r => i \in Shares(r, c, users)
  BY DEF Shares
<1>6. \E i \in Shares(r, c, users) : i.cloud = c /\ i.of = r /\ i.users = users
  <2>1. PICK k \in cloud.images : k.cloud = c /\ k.of = r
    OBVIOUS
  <2>2. [k EXCEPT !.users = users] \in Shares(r, c, users)
    BY <2>1 DEF Shares
  <2> QED BY <1>1, <1>2, <2>1, <2>2
<1> QED BY <1>3, <1>4, <1>5, <1>6, LocalImages

-----------------------------------------------------------------------------
(***************************************************************************)
(* The build, and the targets that are one call.                           *)
(***************************************************************************)
USE DEF Calls, Steps, AMISteps, SnapshotSteps, ObjectSteps, ImportSteps, AccountSteps, BlobSteps,
        ImageIsImported

LEMMA First ==
    ASSUME IInv, NEW r \in Requests
    PROVE  /\ FirstCall(args[r].target) \in Calls \ {"UploadPages"}
           /\ OfTarget(FirstCall(args[r].target), args[r])
           /\ FirstCall(args[r].target) \in
                {"none", "Upload", "StorageObjectUpload", "GetResourceNameByTag", "CreateBlob", "UploadImage"}
<1>1. args[r].target \in Targets
  BY ArgsTypes DEF IInv
<1> QED BY <1>1 DEF FirstCall, Targets, OfTarget

LEMMA RunOSBuildKeeps ==
    ASSUME IInv, NEW r \in Requests, RunOSBuild(r), UNCHANGED queueVars
    PROVE  IInv'
<1>1. PICK output \in {"none", "bad", "good"} :
          /\ result' = [result EXCEPT ![r].Output = output]
          /\ Goes(r, IF output # "good" THEN "returned"
                     ELSE IF args[r].api = "weldr" THEN "UploadArtifact"
                     ELSE FirstCall(args[r].target))
  BY DEF RunOSBuild
<1> DEFINE next == IF output # "good" THEN "returned"
                   ELSE IF args[r].api = "weldr" THEN "UploadArtifact"
                   ELSE FirstCall(args[r].target)
<1>2. /\ r \in alive /\ step[r] = "RunOSBuild" /\ result[r] = NewResult /\ Types
      /\ UNCHANGED <<args, alive, cloud, upload, trouble>>
  BY DEF IInv, WorkerInv, ResultIsOfStep, RunOSBuild, At
<1>3. /\ next \in Steps \ {"idle", "RunOSBuild", "UploadPages"}
      /\ output # "good" <=> next = "returned"
      /\ OfTarget(next, args[r])
      /\ next \in {"returned", "UploadArtifact", "none", "Upload", "StorageObjectUpload",
                   "GetResourceNameByTag", "CreateBlob", "UploadImage"}
  BY First DEF OfTarget
<1>4. /\ step' \in [Requests -> Steps] /\ step'[r] = next
      /\ \A q \in Requests \ {r} : step'[q] = step[q]
  BY <1>1, <1>2, <1>3, GoesTo
<1> HIDE DEF next
<1>5. /\ result' \in [Requests -> OSBuildResult]
      /\ result'[r].Output = output /\ ~result'[r].Success /\ ~result'[r].TargetErrors
      /\ \A q \in Requests \ {r} : result'[q] = result[q]
  <2>1. result \in [Requests -> OSBuildResult]
    BY <1>2 DEF Types, TypeOK
  <2>2. /\ result' = [q \in Requests |-> result'[q]]
        /\ result'[r] = [NewResult EXCEPT !.Output = output]
        /\ \A q \in Requests \ {r} : result'[q] = result[q]
    BY <1>1, <1>2, <2>1
  <2>3. /\ result'[r] \in OSBuildResult
        /\ result'[r].Output = output /\ ~result'[r].Success /\ ~result'[r].TargetErrors
    BY <2>2 DEF OSBuildResult, NewResult
  <2> QED BY <2>1, <2>2, <2>3
<1>6. ~result[r].Success /\ ~result[r].TargetErrors
  BY <1>2 DEF NewResult
<1>7. Local(r, cloud') /\ Elsewhere(r)
  BY <1>2, <1>4, <1>5, LocalSame DEF Elsewhere
<1>8. WorkerTypes'
  BY <1>2, <1>4, <1>5 DEF WorkerTypes, Types, TypeOK
<1>9. WorkerInv(r)'
  BY <1>2, <1>3, <1>4, <1>5 DEF WorkerInv, StepIsOfTarget, OfTarget, ResultIsOfStep
<1>10. CloudInv(r)'
  <2>1. LeftIsInUse(r) /\ ImageIsMade(r) /\ BlobIsOwn(r)
    BY DEF IInv, CloudInv
  <2>2. LeftIsInUse(r)'
    BY <1>2, <1>4, <1>5, <1>6, <2>1 DEF LeftIsInUse
  <2>3. ImageIsMade(r)'
    BY <1>2, <1>3, <1>4, <1>5, <1>6, <2>1 DEF ImageIsMade, ImageOf
  <2>4. BlobIsOwn(r)'
    <3>1. next = "CreateBlob" => args[r].target = "azure" \/ next # FirstCall(args[r].target)
      BY ArgsTypes DEF FirstCall, Targets, IInv
    <3>2. next = "CreateBlob" => args[r].target = "azure"
      BY <3>1 DEF next
    <3> QED BY <1>2, <1>3, <1>4, <1>5, <1>6, <2>1, <3>2 DEF BlobIsOwn, HasBlob
  <2>5. PagesAreSent(r)'
    BY <1>2, <1>3, <1>4, <1>5 DEF PagesAreSent, At
  <2> QED BY <2>2, <2>3, <2>4, <2>5 DEF CloudInv
<1> QED BY <1>2, <1>3, <1>4, <1>7, <1>8, <1>9, <1>10, Combine

\* The first call of a target finds nothing of the job in the clouds.
LEMMA FirstReady ==
    ASSUME IInv, NEW r \in Requests, At(r, "UploadArtifact")
    PROVE  LET next == FirstCall(args[r].target)
           IN  Ready(r, cloud, next) /\ (r \in trouble \/ Tidy(r, cloud, next))
<1>1. Ready(r, cloud, "UploadArtifact") /\ (r \in trouble \/ Tidy(r, cloud, "UploadArtifact"))
  BY Here
<1>2. FirstCall(args[r].target) = "CreateBlob" => args[r].target = "azure"
  BY ArgsTypes DEF FirstCall, Targets, IInv
<1> QED BY <1>1, <1>2, First DEF Ready, Tidy

LEMMA UploadArtifactKeeps ==
    ASSUME IInv, NEW r \in Requests, UploadArtifact(r), UNCHANGED queueVars
    PROVE  IInv'
<1>1. At(r, "UploadArtifact") /\ UNCHANGED <<args, alive, result, cloud, upload>>
  BY DEF UploadArtifact
<1>2. CASE Goes(r, FirstCall(args[r].target)) /\ UNCHANGED trouble
  <2>1. Local(r, cloud')
    BY <1>1, LocalSame
  <2>2. Ready(r, cloud', FirstCall(args[r].target)) /\ (r \in trouble' \/ Tidy(r, cloud', FirstCall(args[r].target)))
    BY <1>1, <1>2, FirstReady
  <2> QED BY <1>1, <1>2, <2>1, <2>2, First, Moving
<1>3. CASE Fails(r) /\ Return(r)
  <2>1. /\ step' \in [Requests -> Steps] /\ step'[r] = "returned"
        /\ \A q \in Requests \ {r} : step'[q] = step[q]
    BY <1>3, GoesTo DEF IInv, Return
  <2>2. /\ r \in alive /\ step[r] = "UploadArtifact" /\ args[r].api = "weldr"
        /\ result[r].Output = "good" /\ ~result[r].TargetErrors /\ ~result[r].Success
    BY <1>1, Calling DEF OfTarget
  <2>3. trouble' = trouble \cup {r}
    BY <1>3 DEF Fails, Troubled
  <2>4. Local(r, cloud') /\ Elsewhere(r)
    BY <1>1, <2>1, <2>3, LocalSame DEF Elsewhere
  <2>5. WorkerTypes'
    BY <1>1, <2>1, <2>3 DEF WorkerTypes, IInv, Types, TypeOK
  <2>6. WorkerInv(r)'
    BY <1>1, <2>1, <2>2 DEF WorkerInv, StepIsOfTarget, OfTarget, ResultIsOfStep
  <2>7. LeftIsInUse(r)' /\ ImageIsMade(r)'
    BY <1>1, <2>1, <2>2, <2>3 DEF LeftIsInUse, ImageIsMade
  <2>8. BlobIsOwn(r)' /\ PagesAreSent(r)'
    BY <1>1, <2>1, <2>2 DEF IInv, CloudInv, BlobIsOwn, HasBlob, PagesAreSent, At
  <2> QED BY <2>1, <2>2, <2>4, <2>5, <2>6, <2>7, <2>8, <1>1, Combine DEF CloudInv
<1> QED BY <1>2, <1>3 DEF UploadArtifact

LEMMA NoTargetKeeps ==
    ASSUME IInv, NEW r \in Requests, NoTarget(r), UNCHANGED queueVars
    PROVE  IInv'
<1>1. /\ At(r, "none") /\ Uploaded(r, FALSE) /\ UNCHANGED <<args, alive, cloud, upload, trouble>>
      /\ args[r].target = "none"
  BY Calling DEF NoTarget, OfTarget
<1>2. Local(r, cloud')
  BY <1>1, LocalSame
<1>3. Delivered(r, cloud')
  BY <1>1 DEF Delivered
<1>4. r \in trouble \/ Tidy(r, cloud', "returned")
  BY <1>1, Here DEF Tidy
<1> QED BY <1>1, <1>2, <1>3, <1>4, Succeeding DEF CloudTargets

LEMMA VmwareKeeps ==
    ASSUME IInv, NEW r \in Requests, vmwareUploadImage(r), UNCHANGED queueVars
    PROVE  IInv'
<1>1. CASE Refused(r, "UploadImage")
  BY <1>1, RefusedKeeps
<1> DEFINE new == Put("images", cloud.images \cup {Image("vmware", args[r].name, r, {})})
<1>2. CASE Last(r, "UploadImage", new, FALSE)
  <2>1. At(r, "UploadImage") /\ args[r].target = "vmware"
    BY <1>2, Calling DEF Last, OfTarget
  <2>2. /\ Local(r, new)
        /\ new.objects = cloud.objects /\ new.leftovers = cloud.leftovers
    BY LocalImageAdded
  <2> HIDE DEF new
  <2>3. Delivered(r, new)
    BY <2>1 DEF Delivered
  <2>4. r \in trouble \/ Tidy(r, new, "returned")
    BY <2>1, <2>2, Here DEF Tidy
  <2> QED BY <1>2, <2>1, <2>2, <2>3, <2>4, LastKeeps DEF CloudTargets
<1> QED BY <1>1, <1>2 DEF vmwareUploadImage

-----------------------------------------------------------------------------
(***************************************************************************)
(* aws                                                                     *)
(***************************************************************************)

\* A call that leaves the clouds alone.
LEMMA QuietCallKeeps ==
    ASSUME IInv, NEW r \in Requests, NEW s \in Calls,
           NEW next \in Calls \ {"UploadPages"}, Call(r, s, cloud, next),
           Ready(r, cloud, next), r \in trouble \/ Tidy(r, cloud, next), UNCHANGED queueVars
    PROVE  IInv'
  BY LocalSame, CallKeeps

LEMMA UploadKeeps ==
    ASSUME IInv, NEW r \in Requests, Upload(r), UNCHANGED queueVars
    PROVE  IInv'
<1> DEFINE new == Put("objects", cloud.objects \cup {r})
           next == IF args[r].target = "aws" THEN "ImportSnapshot" ELSE "S3ObjectPresignedURL"
<1>1. At(r, "Upload") /\ Call(r, "Upload", new, next) /\ args[r].target \in {"aws", "aws.s3"}
  BY Calling DEF Upload, Call, OfTarget
<1>2. cloud.objects \cup {r} \in SUBSET Requests
  BY DEF IInv, Types, CloudType
<1>3. /\ Local(r, new)
      /\ new.objects = cloud.objects \cup {r} /\ new.leftovers = cloud.leftovers
      /\ new.images = cloud.images /\ new.builds = cloud.builds
  BY <1>2, LocalObjects
<1> HIDE DEF new
<1>4. Ready(r, cloud, "Upload") /\ (r \in trouble \/ Tidy(r, cloud, "Upload"))
  BY <1>1, Here
<1>5. Ready(r, new, next) /\ (r \in trouble \/ Tidy(r, new, next))
  BY <1>1, <1>3, <1>4 DEF Ready, Tidy, OfTarget
<1> QED BY <1>1, <1>3, <1>5, CallKeeps

LEMMA PresignedKeeps ==
    ASSUME IInv, NEW r \in Requests, S3ObjectPresignedURL(r), UNCHANGED queueVars
    PROVE  IInv'
<1>1. /\ At(r, "S3ObjectPresignedURL") /\ Last(r, "S3ObjectPresignedURL", cloud, TRUE)
      /\ args[r].target = "aws.s3"
  BY Calling DEF S3ObjectPresignedURL, Last, OfTarget
<1>2. Ready(r, cloud, "S3ObjectPresignedURL") /\ (r \in trouble \/ Tidy(r, cloud, "S3ObjectPresignedURL"))
  BY <1>1, Here
<1>3. Delivered(r, cloud) /\ (r \in trouble \/ Tidy(r, cloud, "returned"))
  BY <1>1, <1>2 DEF Ready, Tidy, Delivered
<1> QED BY <1>1, <1>3, LocalSame, LastKeeps

LEMMA ImportSnapshotKeeps ==
    ASSUME IInv, NEW r \in Requests, ImportSnapshot(r), UNCHANGED queueVars
    PROVE  IInv'
<1> DEFINE new == [cloud EXCEPT !.snapshots[r] = "importing"]
<1>1. /\ At(r, "ImportSnapshot") /\ Call(r, "ImportSnapshot", new, "WaitUntilImported")
      /\ args[r].target = "aws"
  BY Calling DEF ImportSnapshot, Call, OfTarget
<1>2. /\ Local(r, new)
      /\ new.objects = cloud.objects /\ new.leftovers = cloud.leftovers
      /\ new.images = cloud.images /\ new.builds = cloud.builds
  BY LocalSnapshot
<1> HIDE DEF new
<1>3. Ready(r, cloud, "ImportSnapshot") /\ (r \in trouble \/ Tidy(r, cloud, "ImportSnapshot"))
  BY <1>1, Here
<1>4. Ready(r, new, "WaitUntilImported") /\ (r \in trouble \/ Tidy(r, new, "WaitUntilImported"))
  BY <1>1, <1>2, <1>3 DEF Ready, Tidy, OfTarget
<1> QED BY <1>1, <1>2, <1>4, CallKeeps

LEMMA WaitKeeps ==
    ASSUME IInv, NEW r \in Requests, WaitUntilImportSnapshotTaskCompleted(r), UNCHANGED queueVars
    PROVE  IInv'
<1>1. CASE Refused(r, "WaitUntilImported")
  BY <1>1, RefusedKeeps
<1>2. CASE Call(r, "WaitUntilImported", cloud, "DeleteObject")
  <2>1. At(r, "WaitUntilImported")
    BY <1>2 DEF Call
  <2>2. Ready(r, cloud, "WaitUntilImported") /\ (r \in trouble \/ Tidy(r, cloud, "WaitUntilImported"))
    BY <2>1, Here
  <2>3. Ready(r, cloud, "DeleteObject") /\ (r \in trouble \/ Tidy(r, cloud, "DeleteObject"))
    BY <2>2 DEF Ready, Tidy, OfTarget
  <2> QED BY <1>2, <2>3, QuietCallKeeps
<1> QED BY <1>1, <1>2 DEF WaitUntilImportSnapshotTaskCompleted

LEMMA DeleteObjectKeeps ==
    ASSUME IInv, NEW r \in Requests, DeleteObject(r), UNCHANGED queueVars
    PROVE  IInv'
<1> DEFINE new == Put("objects", cloud.objects \ {r})
<1>1. At(r, "DeleteObject") /\ Call(r, "DeleteObject", new, "DescribeImportSnapshotTasks")
  BY DEF DeleteObject, Call
<1>2. cloud.objects \ {r} \in SUBSET Requests
  BY DEF IInv, Types, CloudType
<1>3. /\ Local(r, new)
      /\ new.objects = cloud.objects \ {r} /\ new.leftovers = cloud.leftovers
      /\ new.images = cloud.images /\ new.builds = cloud.builds
  BY <1>2, LocalObjects
<1> HIDE DEF new
<1>4. Ready(r, cloud, "DeleteObject") /\ (r \in trouble \/ Tidy(r, cloud, "DeleteObject"))
  BY <1>1, Here
<1>5. /\ Ready(r, new, "DescribeImportSnapshotTasks")
      /\ r \in trouble \/ Tidy(r, new, "DescribeImportSnapshotTasks")
  BY <1>1, <1>3, <1>4 DEF Ready, Tidy, OfTarget
<1> QED BY <1>1, <1>3, <1>5, CallKeeps

LEMMA DescribeKeeps ==
    ASSUME IInv, NEW r \in Requests, DescribeImportSnapshotTasks(r) \/ ModifySnapshotAttribute(r),
           UNCHANGED queueVars
    PROVE  IInv'
<1>1. CASE Call(r, "DescribeImportSnapshotTasks", cloud, "ModifySnapshotAttribute")
  <2>1. At(r, "DescribeImportSnapshotTasks")
    BY <1>1 DEF Call
  <2>2. /\ Ready(r, cloud, "ModifySnapshotAttribute")
        /\ r \in trouble \/ Tidy(r, cloud, "ModifySnapshotAttribute")
    BY <2>1, Here DEF Ready, Tidy, OfTarget
  <2> QED BY <1>1, <2>2, QuietCallKeeps
<1>2. CASE Call(r, "ModifySnapshotAttribute", cloud, "RegisterImage")
  <2>1. At(r, "ModifySnapshotAttribute")
    BY <1>2 DEF Call
  <2>2. Ready(r, cloud, "RegisterImage") /\ (r \in trouble \/ Tidy(r, cloud, "RegisterImage"))
    BY <2>1, Here DEF Ready, Tidy, OfTarget
  <2> QED BY <1>2, <2>2, QuietCallKeeps
<1> QED BY <1>1, <1>2 DEF DescribeImportSnapshotTasks, ModifySnapshotAttribute

LEMMA RegisterImageKeeps ==
    ASSUME IInv, NEW r \in Requests, RegisterImage(r), UNCHANGED queueVars
    PROVE  IInv'
<1> DEFINE new == Put("images", cloud.images \cup {Image("aws", args[r].name, r, {})})
<1>1. CASE Refused(r, "RegisterImage")
  BY <1>1, RefusedKeeps
<1>2. CASE Call(r, "RegisterImage", new, "ModifyImageAttribute")
  <2>1. At(r, "RegisterImage")
    BY <1>2 DEF Call
  <2>0. new = Put("images", cloud.images \cup {Image("aws", args[r].name, r, {})})
    OBVIOUS
  <2> HIDE DEF new
  <2>2. /\ Local(r, new) /\ new.images = cloud.images \cup {Image("aws", args[r].name, r, {})}
        /\ new.objects = cloud.objects /\ new.leftovers = cloud.leftovers /\ new.builds = cloud.builds
    BY <2>0, LocalImageAdded
  <2>3. /\ Image("aws", args[r].name, r, {}).cloud = "aws" /\ Image("aws", args[r].name, r, {}).of = r
    BY ImageTypes
  <2>4. Ready(r, cloud, "RegisterImage") /\ (r \in trouble \/ Tidy(r, cloud, "RegisterImage"))
    BY <2>1, Here
  <2>5. Ready(r, new, "ModifyImageAttribute") /\ (r \in trouble \/ Tidy(r, new, "ModifyImageAttribute"))
    BY <2>2, <2>3, <2>4 DEF Ready, Tidy, OfTarget
  <2> QED BY <1>2, <2>2, <2>5, CallKeeps
<1> QED BY <1>1, <1>2 DEF RegisterImage

\* The accounts an image is shared with.
LEMMA SharedWith ==
    ASSUME IInv, NEW r \in Requests
    PROVE  /\ launchPerms(args[r].share) \subseteq Members(args[r].share)
           /\ Members(args[r].share) \subseteq Accounts
           /\ Members(args[r].share) # {} => launchPerms(args[r].share) # {}
           /\ Len(args[r].share) > 1 \/ launchPerms(args[r].share) = Members(args[r].share)
           /\ args[r].share = <<>> => Members(args[r].share) = {}
<1> DEFINE share == args[r].share
<1>1. share \in {<<>>} \cup UNION {[1 .. n -> Accounts] : n \in 1 .. 2}
  BY ArgsTypes DEF IInv
<1> HIDE DEF share
<1>2. CASE share = <<>>
  BY <1>2 DEF launchPerms, Members, share
<1>3. CASE share # <<>>
  <2>1. PICK n \in 1 .. 2 : share \in [1 .. n -> Accounts]
    BY <1>1, <1>3
  <2>2. share \in Seq(Accounts) /\ Len(share) = n /\ DOMAIN share = 1 .. n
    BY <2>1
  <2>3. Len(share) \in DOMAIN share /\ \A k \in DOMAIN share : share[k] \in Accounts
    BY <2>1, <2>2
  <2>4. n = 1 \/ Len(share) > 1
    BY <2>1, <2>2
  <2>5. n = 1 => Members(share) = {share[1]} /\ launchPerms(share) = {share[1]}
    BY <1>3, <2>2 DEF launchPerms, Members
  <2> QED BY <1>3, <2>3, <2>4, <2>5 DEF launchPerms, Members, share
<1> QED BY <1>2, <1>3

LEMMA ModifyImageKeeps ==
    ASSUME IInv, NEW r \in Requests, ModifyImageAttribute(r), UNCHANGED queueVars
    PROVE  IInv'
<1> DEFINE users == launchPerms(args[r].share)
           new == Put("images", Shares(r, "aws", users))
<1>1. At(r, "ModifyImageAttribute") /\ Last(r, "ModifyImageAttribute", new, TRUE)
  BY DEF ModifyImageAttribute, Last, Shares
<1>2. Ready(r, cloud, "ModifyImageAttribute") /\ (r \in trouble \/ Tidy(r, cloud, "ModifyImageAttribute"))
  BY <1>1, Here
<1>3. args[r].target = "aws" /\ \E i \in cloud.images : i.cloud = "aws" /\ i.of = r
  BY <1>2 DEF Ready, OfTarget
<1>4. users \in SUBSET Accounts
  BY SharedWith
<1>5. /\ Local(r, new)
      /\ \E i \in new.images : i.cloud = "aws" /\ i.of = r /\ i.users = users
      /\ new.objects = cloud.objects /\ new.leftovers = cloud.leftovers
  BY <1>3, <1>4, LocalImageShared
<1> HIDE DEF new
<1>6. Delivered(r, new) /\ (r \in trouble \/ Tidy(r, new, "returned"))
  BY <1>2, <1>3, <1>5 DEF Delivered, Tidy
<1> QED BY <1>1, <1>5, <1>6, LastKeeps

-----------------------------------------------------------------------------
(***************************************************************************)
(* gcp                                                                     *)
(***************************************************************************)
LEMMA ObjectUploadKeeps ==
    ASSUME IInv, NEW r \in Requests, StorageObjectUpload(r), UNCHANGED queueVars
    PROVE  IInv'
<1> DEFINE new == Put("objects", cloud.objects \cup {r})
<1>1. At(r, "StorageObjectUpload") /\ Call(r, "StorageObjectUpload", new, "PickZone")
  BY DEF StorageObjectUpload, Call
<1>2. cloud.objects \cup {r} \in SUBSET Requests
  BY DEF IInv, Types, CloudType
<1>3. /\ Local(r, new)
      /\ new.objects = cloud.objects \cup {r} /\ new.leftovers = cloud.leftovers
      /\ new.images = cloud.images /\ new.builds = cloud.builds
  BY <1>2, LocalObjects
<1> HIDE DEF new
<1>4. Ready(r, cloud, "StorageObjectUpload") /\ (r \in trouble \/ Tidy(r, cloud, "StorageObjectUpload"))
  BY <1>1, Here
<1>5. Ready(r, new, "PickZone") /\ (r \in trouble \/ Tidy(r, new, "PickZone"))
  BY <1>1, <1>3, <1>4 DEF Ready, Tidy, OfTarget
<1> QED BY <1>1, <1>3, <1>5, CallKeeps

\* A worker dies, and with it the pages it was sending.
LEMMA Dying ==
    ASSUME IInv, NEW r \in Requests, r \in alive, alive' = alive \ {r}, Troubled(r),
           \/ UNCHANGED upload
           \/ upload' = [upload EXCEPT ![r].sending = {}],
           UNCHANGED <<args, step, result, cloud, queueVars>>
    PROVE  IInv'
<1>1. Types /\ trouble' = trouble \cup {r}
  BY DEF IInv, Troubled
<1>2. /\ upload' \in [Requests -> UploadType]
      /\ upload'[r].sending \in {upload[r].sending, {}} /\ upload'[r].next = upload[r].next
      /\ \A q \in Requests \ {r} : upload'[q] = upload[q]
  BY <1>1 DEF Types, UploadType
<1>3. Local(r, cloud') /\ Elsewhere(r)
  BY <1>1, <1>2, LocalSame DEF Elsewhere
<1>4. WorkerTypes'
  <2>1. Cardinality(upload'[r].sending) <= threads
    <3>1. Cardinality(upload[r].sending) <= threads
      BY <1>1 DEF Types, TypeOK
    <3>2. Cardinality({}) <= threads
      BY FS_EmptySet, UploadAssumption
    <3> QED BY <1>2, <3>1, <3>2
  <2> QED BY <1>1, <1>2, <2>1 DEF WorkerTypes, Types, TypeOK
<1>5. step[r] # "idle"
  BY DEF IInv, QueueInv, OSBuildIsReported
<1>6. WorkerInv(r)'
  BY DEF IInv, WorkerInv, StepIsOfTarget, OfTarget, ResultIsOfStep
<1>7. CloudInv(r)'
  <2>1. LeftIsInUse(r)' /\ ImageIsMade(r)'
    BY <1>1 DEF IInv, CloudInv, LeftIsInUse, ImageIsMade, ImageOf, Rivals
  <2>2. BlobIsOwn(r)'
    BY <1>2 DEF IInv, CloudInv, BlobIsOwn, HasBlob
  <2>3. PagesAreSent(r)'
    BY DEF IInv, CloudInv, PagesAreSent, At, Blob, Rivals
  <2> QED BY <2>1, <2>2, <2>3 DEF CloudInv
<1> QED BY <1>3, <1>4, <1>5, <1>6, <1>7, Combine

LEMMA PickZoneKeeps ==
    ASSUME IInv, NEW r \in Requests, PickZone(r), UNCHANGED queueVars
    PROVE  IInv'
<1>1. At(r, "PickZone") /\ UNCHANGED <<args, result, cloud, upload>>
  BY DEF PickZone
<1>2. Ready(r, cloud, "PickZone") /\ (r \in trouble \/ Tidy(r, cloud, "PickZone"))
  BY <1>1, Here
<1>3. Local(r, cloud')
  BY <1>1, LocalSame
<1>4. ASSUME NEW next \in {"CreateBuild", "ImportFailed"}, Goes(r, next), UNCHANGED alive,
             UNCHANGED trouble \/ Fails(r)
      PROVE  IInv'
  <2>1. Ready(r, cloud', next) /\ (r \in trouble \/ Tidy(r, cloud', next))
    BY <1>1, <1>2 DEF Ready, Tidy, OfTarget
  <2>2. trouble' \in {trouble, trouble \cup {r}}
    BY <1>4 DEF Fails, Troubled
  <2> QED BY <1>1, <1>3, <1>4, <2>1, <2>2, Moving
<1>5. CASE Fails(r) /\ alive' = alive \ {r} /\ UNCHANGED step
  BY <1>1, <1>5, Dying DEF Fails, At
<1> QED BY <1>4, <1>5 DEF PickZone

LEMMA LocalImport ==
    ASSUME IInv, NEW r \in Requests, NEW new, new = ImportStarted(r)
    PROVE  /\ Local(r, new)
           /\ new.objects = cloud.objects /\ new.leftovers = cloud.leftovers \cup {r}
           /\ new.images = cloud.images /\ new.builds[r] = "working"
<1>1. cloud \in CloudType /\ Local(r, cloud)
  BY LocalSame DEF IInv, Types
<1>2. /\ new \in CloudType
      /\ new.objects = cloud.objects /\ new.leftovers = cloud.leftovers \cup {r}
      /\ new.images = cloud.images
      /\ new.builds = [cloud.builds EXCEPT ![r] = "working"] /\ new.account = cloud.account
      /\ new.accounts = cloud.accounts /\ new.blobs = cloud.blobs
  BY <1>1 DEF CloudType, ImportStarted
<1>3. new.builds[r] = "working" /\ \A q \in Requests \ {r} : new.builds[q] = cloud.builds[q]
  BY <1>1, <1>2 DEF CloudType
<1> QED BY <1>1, <1>2, <1>3 DEF Local

LEMMA CreateBuildKeeps ==
    ASSUME IInv, NEW r \in Requests, CreateBuild(r), UNCHANGED queueVars
    PROVE  IInv'
<1>1. At(r, "CreateBuild") /\ UNCHANGED <<args, alive, result, upload>>
  BY DEF CreateBuild
<1>2. Ready(r, cloud, "CreateBuild") /\ (r \in trouble \/ Tidy(r, cloud, "CreateBuild"))
  BY <1>1, Here
<1> DEFINE new == ImportStarted(r)
<1>3. /\ Local(r, new) /\ Local(r, cloud)
      /\ new.objects = cloud.objects /\ new.leftovers = cloud.leftovers \cup {r}
      /\ new.images = cloud.images /\ new.builds[r] = "working"
  BY LocalImport, LocalSame
<1> HIDE DEF new
<1>4. Ready(r, new, "GetBuild") /\ (r \in trouble \/ Tidy(r, new, "GetBuild"))
  BY <1>2, <1>3 DEF Ready, Tidy, OfTarget
<1>5. Ready(r, new, "ImportFailed") /\ Ready(r, cloud, "ImportFailed")
  BY <1>2, <1>3 DEF Ready, OfTarget
<1>6. CASE cloud' = new /\ Goes(r, "GetBuild") /\ UNCHANGED trouble
  BY <1>1, <1>3, <1>4, <1>6, Moving
<1>7. CASE Fails(r) /\ cloud' \in {cloud, new} /\ Goes(r, "ImportFailed")
  BY <1>1, <1>3, <1>5, <1>7, Moving DEF Fails, Troubled
<1> QED BY <1>6, <1>7 DEF CreateBuild, new

LEMMA GetBuildKeeps ==
    ASSUME IInv, NEW r \in Requests, GetBuild(r), UNCHANGED queueVars
    PROVE  IInv'
<1>1. At(r, "GetBuild") /\ UNCHANGED <<args, alive, result, cloud, upload>>
  BY DEF GetBuild
<1>2. Ready(r, cloud, "GetBuild") /\ (r \in trouble \/ Tidy(r, cloud, "GetBuild"))
  BY <1>1, Here
<1>3. Local(r, cloud')
  BY <1>1, LocalSame
<1>4. CASE cloud.builds[r] = "success" /\ Goes(r, "CleanupGood") /\ UNCHANGED trouble
  <2>1. Ready(r, cloud', "CleanupGood") /\ (r \in trouble \/ Tidy(r, cloud', "CleanupGood"))
    BY <1>1, <1>2, <1>4 DEF Ready, Tidy, OfTarget
  <2> QED BY <1>1, <1>3, <1>4, <2>1, Moving
<1>5. CASE Goes(r, "CleanupBad") /\ UNCHANGED trouble
  <2>1. Ready(r, cloud', "CleanupBad") /\ (r \in trouble \/ Tidy(r, cloud', "CleanupBad"))
    BY <1>1, <1>2 DEF Ready, Tidy, OfTarget
  <2> QED BY <1>1, <1>3, <1>5, <2>1, Moving
<1>6. CASE Fails(r) /\ Goes(r, "ImportFailed")
  <2>1. Ready(r, cloud', "ImportFailed")
    BY <1>1, <1>2 DEF Ready, OfTarget
  <2> QED BY <1>1, <1>3, <1>6, <2>1, Moving DEF Fails, Troubled
<1> QED BY <1>4, <1>5, <1>6 DEF GetBuild

LEMMA CleanupKeeps ==
    ASSUME IInv, NEW r \in Requests, CloudbuildBuildCleanup(r), UNCHANGED queueVars
    PROVE  IInv'
<1> DEFINE new == Put("leftovers", cloud.leftovers \ {r})
           next == IF step[r] = "CleanupGood" THEN "ImportDone" ELSE "ImportFailed"
<1>1. /\ At(r, step[r]) /\ step[r] \in {"CleanupGood", "CleanupBad"} /\ Goes(r, next)
      /\ UNCHANGED <<args, alive, result, upload>>
  BY DEF CloudbuildBuildCleanup, At
<1>2. Ready(r, cloud, step[r]) /\ (r \in trouble \/ Tidy(r, cloud, step[r]))
  BY <1>1, Here
<1>3. /\ Local(r, new) /\ Local(r, cloud)
      /\ new.objects = cloud.objects /\ new.leftovers = cloud.leftovers \ {r}
      /\ new.images = cloud.images /\ new.builds = cloud.builds
  BY LocalLeftovers, LocalSame
<1> HIDE DEF new
<1>4. Ready(r, new, next) /\ Ready(r, cloud, next) /\ (r \in trouble \/ Tidy(r, new, next))
  BY <1>1, <1>2, <1>3 DEF Ready, Tidy, OfTarget
<1>5. next \in Calls \ {"UploadPages"}
  OBVIOUS
<1> HIDE DEF next
<1>6. CASE cloud' = new /\ UNCHANGED trouble
  BY <1>1, <1>3, <1>4, <1>5, <1>6, Moving
<1>7. CASE Fails(r) /\ UNCHANGED cloud
  BY <1>1, <1>3, <1>4, <1>5, <1>7, Moving DEF Fails, Troubled
<1> QED BY <1>6, <1>7 DEF CloudbuildBuildCleanup, Logged, new

LEMMA ObjectDeleteKeeps ==
    ASSUME IInv, NEW r \in Requests, StorageObjectDelete(r), UNCHANGED queueVars
    PROVE  IInv'
<1> DEFINE new == Put("objects", cloud.objects \ {r})
<1>1. /\ At(r, step[r]) /\ step[r] \in {"ImportDone", "ImportFailed"} /\ UNCHANGED <<args, alive, upload>>
  BY DEF StorageObjectDelete, At
<1>2. Ready(r, cloud, step[r]) /\ (r \in trouble \/ Tidy(r, cloud, step[r]))
  BY <1>1, Here
<1>3. cloud.objects \ {r} \in SUBSET Requests
  BY DEF IInv, Types, CloudType
<1>4. /\ Local(r, new) /\ Local(r, cloud)
      /\ new.objects = cloud.objects \ {r} /\ new.leftovers = cloud.leftovers
      /\ new.images = cloud.images /\ new.builds = cloud.builds
  BY <1>3, LocalObjects, LocalSame
<1>5. \/ cloud' = new /\ UNCHANGED trouble
      \/ cloud' = cloud /\ trouble' = trouble \cup {r}
  BY DEF StorageObjectDelete, Logged, Fails, Troubled
<1> HIDE DEF new
<1>6. CASE step[r] = "ImportDone" /\ Goes(r, "ComputeImageShare") /\ UNCHANGED result
  <2>1. /\ Ready(r, new, "ComputeImageShare") /\ Ready(r, cloud, "ComputeImageShare")
        /\ r \in trouble \/ Tidy(r, new, "ComputeImageShare")
    BY <1>2, <1>4, <1>6 DEF Ready, Tidy, OfTarget
  <2> QED BY <1>1, <1>4, <1>5, <1>6, <2>1, Moving
<1>7. CASE step[r] = "ImportFailed" /\ appendTargetError(r)
  <2>1. r \in trouble \/ r \notin new.objects \cup new.leftovers
    BY <1>2, <1>4, <1>7 DEF Tidy
  <2> QED BY <1>1, <1>4, <1>5, <1>7, <2>1, Failing
<1> QED BY <1>6, <1>7 DEF StorageObjectDelete, At

LEMMA ImageShareKeeps ==
    ASSUME IInv, NEW r \in Requests, ComputeImageShare(r), UNCHANGED queueVars
    PROVE  IInv'
<1> DEFINE users == Members(args[r].share)
           new == Put("images", Shares(r, "gcp", users))
<1>1. At(r, "ComputeImageShare")
  BY DEF ComputeImageShare, Last
<1>2. Ready(r, cloud, "ComputeImageShare") /\ (r \in trouble \/ Tidy(r, cloud, "ComputeImageShare"))
  BY <1>1, Here
<1>3. /\ args[r].target = "gcp"
      /\ \E i \in cloud.images : i.cloud = "gcp" /\ i.of = r /\ i.users = {}
  BY <1>2 DEF Ready, OfTarget
<1>4. users \in SUBSET Accounts /\ (args[r].share = <<>> => users = {})
  BY SharedWith
<1>5. /\ Local(r, new) /\ Local(r, cloud)
      /\ \E i \in new.images : i.cloud = "gcp" /\ i.of = r /\ i.users = users
      /\ new.objects = cloud.objects /\ new.leftovers = cloud.leftovers
  BY <1>3, <1>4, LocalImageShared, LocalSame
<1>6. CASE args[r].share = <<>>
  <2>1. /\ Uploaded(r, TRUE) /\ UNCHANGED <<args, alive, cloud, upload, trouble>>
    BY <1>6 DEF ComputeImageShare
  <2>2. Delivered(r, cloud') /\ (r \in trouble \/ Tidy(r, cloud', "returned"))
    BY <1>2, <1>3, <1>4, <1>6, <2>1 DEF Delivered, Tidy
  <2> QED BY <1>1, <1>5, <2>1, <2>2, Succeeding
<1>7. CASE args[r].share # <<>>
  <2>1. Last(r, "ComputeImageShare", new, TRUE)
    BY <1>7 DEF ComputeImageShare, Shares
  <2> HIDE DEF new
  <2>2. Delivered(r, new) /\ (r \in trouble \/ Tidy(r, new, "returned"))
    BY <1>2, <1>3, <1>5 DEF Delivered, Tidy
  <2> QED BY <1>5, <2>1, <2>2, LastKeeps
<1> QED BY <1>6, <1>7

-----------------------------------------------------------------------------
(***************************************************************************)
(* azure                                                                   *)
(***************************************************************************)
LEMMA LocalAccount ==
    ASSUME IInv, NEW r \in Requests, args[r].target = "azure.image", NEW a \in Requests,
           NEW A \in {cloud.accounts, cloud.accounts \cup {r}}, a \in A,
           NEW new, new \in {[cloud EXCEPT !.account[r] = a], [cloud EXCEPT !.accounts = A, !.account[r] = a]},
           new.accounts = A
    PROVE  /\ Local(r, new)
           /\ new.objects = cloud.objects /\ new.leftovers = cloud.leftovers
           /\ new.images = cloud.images /\ new.builds = cloud.builds /\ new.account[r] # Nil
<1>1. cloud \in CloudType /\ Local(r, cloud) /\ a # Nil
  BY LocalSame, UploadAssumption DEF IInv, Types
<1>2. cloud.accounts \in SUBSET Requests /\ A \in SUBSET Requests
  BY <1>1 DEF CloudType
<1>3. /\ new \in CloudType
      /\ new.objects = cloud.objects /\ new.leftovers = cloud.leftovers
      /\ new.images = cloud.images /\ new.builds = cloud.builds
      /\ new.account = [cloud.account EXCEPT ![r] = a]
      /\ new.blobs = cloud.blobs
  <2>1. CASE new = [cloud EXCEPT !.account[r] = a]
    BY <1>1, <2>1 DEF CloudType
  <2>2. CASE new = [cloud EXCEPT !.accounts = A, !.account[r] = a]
    <3>1. /\ new.objects = cloud.objects /\ new.leftovers = cloud.leftovers
          /\ new.images = cloud.images /\ new.builds = cloud.builds
          /\ new.account = [cloud.account EXCEPT ![r] = a]
          /\ new.blobs = cloud.blobs
      BY <1>1, <2>2 DEF CloudType
    <3>2. new.account \in [Requests -> Requests \cup {Nil}]
      BY <1>1, <3>1 DEF CloudType
    <3>3. new \in CloudType
      BY <1>1, <1>2, <2>2, <3>2 DEF CloudType
    <3> QED BY <3>1, <3>3
  <2> QED BY <2>1, <2>2
<1>4. new.account[r] = a /\ \A q \in Requests \ {r} : new.account[q] = cloud.account[q]
  BY <1>1, <1>3 DEF CloudType
<1>5. \A q \in cloud.accounts : args[q].target = "azure.image"
  BY <1>2 DEF IInv, CloudInv, BlobIsOwn
<1> QED BY <1>1, <1>2, <1>3, <1>4, <1>5 DEF Local

LEMMA GetResourceKeeps ==
    ASSUME IInv, NEW r \in Requests, GetResourceNameByTag(r), UNCHANGED queueVars
    PROVE  IInv'
<1>1. At(r, "GetResourceNameByTag") /\ UNCHANGED <<args, alive, upload>>
  BY DEF GetResourceNameByTag
<1>2. Ready(r, cloud, "GetResourceNameByTag") /\ (r \in trouble \/ Tidy(r, cloud, "GetResourceNameByTag"))
  BY <1>1, Here
<1>3. CASE Goes(r, "CreateStorageAccount") /\ UNCHANGED <<cloud, result, trouble>>
  <2>1. Ready(r, cloud', "CreateStorageAccount") /\ (r \in trouble \/ Tidy(r, cloud', "CreateStorageAccount"))
    BY <1>2, <1>3 DEF Ready, Tidy, OfTarget
  <2> QED BY <1>1, <1>3, <2>1, LocalSame, Moving
<1>4. ASSUME NEW a \in cloud.accounts, cloud' = [cloud EXCEPT !.account[r] = a],
             Goes(r, "CreateStorageContainer"), UNCHANGED <<result, trouble>>
      PROVE  IInv'
  <2>1. a \in Requests /\ cloud'.accounts = cloud.accounts /\ args[r].target = "azure.image"
    BY <1>2, <1>4 DEF IInv, Types, CloudType, Ready, OfTarget
  <2>2. /\ Local(r, cloud')
        /\ cloud'.objects = cloud.objects /\ cloud'.leftovers = cloud.leftovers
        /\ cloud'.images = cloud.images /\ cloud'.builds = cloud.builds /\ cloud'.account[r] # Nil
    BY <1>4, <2>1, LocalAccount
  <2>3. Ready(r, cloud', "CreateStorageContainer") /\ (r \in trouble \/ Tidy(r, cloud', "CreateStorageContainer"))
    BY <1>2, <2>2 DEF Ready, Tidy, OfTarget
  <2> QED BY <1>1, <1>4, <2>2, <2>3, Moving
<1>5. CASE Fails(r) /\ appendTargetError(r) /\ UNCHANGED cloud
  BY <1>1, <1>5, LocalSame, Failing DEF Fails, Troubled
<1> QED BY <1>3, <1>4, <1>5 DEF GetResourceNameByTag

LEMMA CreateAccountKeeps ==
    ASSUME IInv, NEW r \in Requests, CreateStorageAccount(r), UNCHANGED queueVars
    PROVE  IInv'
<1> DEFINE new == [cloud EXCEPT !.accounts = @ \cup {r}, !.account[r] = r]
<1>1. At(r, "CreateStorageAccount") /\ Call(r, "CreateStorageAccount", new, "CreateStorageContainer")
  BY DEF CreateStorageAccount, Call
<1>2. Ready(r, cloud, "CreateStorageAccount") /\ (r \in trouble \/ Tidy(r, cloud, "CreateStorageAccount"))
  BY <1>1, Here
<1>3. /\ args[r].target = "azure.image" /\ new.accounts = cloud.accounts \cup {r}
      /\ new = [cloud EXCEPT !.accounts = cloud.accounts \cup {r}, !.account[r] = r]
  BY <1>2 DEF IInv, Types, CloudType, Ready, OfTarget
<1> HIDE DEF new
<1>4. /\ Local(r, new)
      /\ new.objects = cloud.objects /\ new.leftovers = cloud.leftovers
      /\ new.images = cloud.images /\ new.builds = cloud.builds /\ new.account[r] # Nil
  BY <1>3, LocalAccount
<1>5. Ready(r, new, "CreateStorageContainer") /\ (r \in trouble \/ Tidy(r, new, "CreateStorageContainer"))
  BY <1>2, <1>4 DEF Ready, Tidy, OfTarget
<1> QED BY <1>1, <1>4, <1>5, CallKeeps

LEMMA CreateContainerKeeps ==
    ASSUME IInv, NEW r \in Requests, CreateStorageContainerIfNotExist(r), UNCHANGED queueVars
    PROVE  IInv'
<1>1. At(r, "CreateStorageContainer") /\ Call(r, "CreateStorageContainer", cloud, "CreateBlob")
  BY DEF CreateStorageContainerIfNotExist, Call
<1>2. Ready(r, cloud, "CreateStorageContainer") /\ (r \in trouble \/ Tidy(r, cloud, "CreateStorageContainer"))
  BY <1>1, Here
<1>3. Ready(r, cloud, "CreateBlob") /\ (r \in trouble \/ Tidy(r, cloud, "CreateBlob"))
  BY <1>2 DEF Ready, Tidy, OfTarget
<1> QED BY <1>1, <1>3, QuietCallKeeps

\* A job writes to its own blob.
LEMMA LocalBlob ==
    ASSUME IInv, NEW r \in Requests, HasBlob(r), NEW b \in BlobType, NEW new,
           new = [cloud EXCEPT !.blobs[Blob(r)] = b]
    PROVE  /\ Local(r, new) /\ new.blobs[Blob(r)] = b
           /\ new.objects = cloud.objects /\ new.leftovers = cloud.leftovers
           /\ new.images = cloud.images /\ new.builds = cloud.builds /\ new.account = cloud.account
           /\ new.accounts = cloud.accounts
<1>1. cloud \in CloudType /\ Local(r, cloud) /\ Blob(r) \in Requests \X Names
  BY LocalSame, BlobTypes DEF IInv, Types
<1>2. cloud.blobs \in [Requests \X Names -> BlobType]
  BY <1>1 DEF CloudType
<1>3. /\ new.objects = cloud.objects /\ new.leftovers = cloud.leftovers
      /\ new.images = cloud.images /\ new.builds = cloud.builds /\ new.account = cloud.account
      /\ new.accounts = cloud.accounts /\ new.snapshots = cloud.snapshots
      /\ new.blobs = [cloud.blobs EXCEPT ![Blob(r)] = b]
  BY <1>1 DEF CloudType
<1>4. /\ new.blobs \in [Requests \X Names -> BlobType] /\ new.blobs[Blob(r)] = b
      /\ \A x \in Requests \X Names : x # Blob(r) => new.blobs[x] = cloud.blobs[x]
  BY <1>1, <1>2, <1>3
<1>5. new \in CloudType
  BY <1>1, <1>4 DEF CloudType
<1> QED BY <1>1, <1>3, <1>4, <1>5 DEF Local

LEMMA UploadTypes ==
    ASSUME IInv, NEW r \in Requests
    PROVE  /\ upload[r] \in UploadType
           /\ upload[r].next \in 1 .. Pages + 1
           /\ upload[r].sending \subseteq 1 .. upload[r].next - 1
           /\ IsFiniteSet(upload[r].sending) /\ Cardinality(upload[r].sending) \in Nat
           /\ Cardinality(upload[r].sending) <= threads
<1>1. /\ upload[r] \in UploadType
      /\ upload[r].next \in 1 .. Pages + 1
      /\ upload[r].sending \subseteq 1 .. upload[r].next - 1
      /\ Cardinality(upload[r].sending) <= threads
  BY DEF IInv, Types, TypeOK
<1>2. IsFiniteSet(1 .. upload[r].next - 1)
  <2>1. 1 \in Int /\ upload[r].next - 1 \in Int
    BY <1>1, UploadAssumption
  <2> QED BY <2>1, FS_Interval
<1>3. IsFiniteSet(upload[r].sending)
  BY <1>1, <1>2, FS_Subset
<1> QED BY <1>1, <1>3, FS_CardinalityType

LEMMA BlobValues ==
    ASSUME NEW r \in Requests
    PROVE  NoBlob \in BlobType /\ [NoBlob EXCEPT !.md5 = r] \in BlobType
  BY DEF NoBlob, BlobType

LEMMA CreateBlobKeeps ==
    ASSUME IInv, NEW r \in Requests, CreateBlob(r), UNCHANGED queueVars
    PROVE  IInv'
<1>1. /\ At(r, "CreateBlob") /\ UNCHANGED <<args, alive>> /\ Types
      /\ r \in alive /\ step[r] = "CreateBlob" /\ OfTarget("CreateBlob", args[r])
      /\ result[r].Output = "good" /\ ~result[r].TargetErrors /\ ~result[r].Success
  BY Calling DEF CreateBlob, IInv
<1>2. Ready(r, cloud, "CreateBlob") /\ (r \in trouble \/ Tidy(r, cloud, "CreateBlob")) /\ HasBlob(r)
  BY <1>1, Here DEF HasBlob
<1>3. CASE /\ cloud' = [cloud EXCEPT !.blobs[Blob(r)] = [NoBlob EXCEPT !.md5 = r]]
           /\ Goes(r, "UploadPages")
           /\ upload' = [upload EXCEPT ![r] = NewUpload]
           /\ UNCHANGED <<result, trouble>>
  <2>1. /\ step' \in [Requests -> Steps] /\ step'[r] = "UploadPages"
        /\ \A q \in Requests \ {r} : step'[q] = step[q]
    BY <1>1, <1>3, GoesTo
  <2>2. /\ Local(r, cloud')
        /\ cloud'.objects = cloud.objects /\ cloud'.leftovers = cloud.leftovers
        /\ cloud'.images = cloud.images /\ cloud'.builds = cloud.builds /\ cloud'.account = cloud.account
    <3> DEFINE b == [NoBlob EXCEPT !.md5 = r]
    <3>1. b \in BlobType /\ cloud' = [cloud EXCEPT !.blobs[Blob(r)] = b]
      BY <1>3, BlobValues
    <3> HIDE DEF b
    <3> QED BY <1>2, <3>1, LocalBlob
  <2>3. /\ upload' \in [Requests -> UploadType] /\ \A q \in Requests \ {r} : upload'[q] = upload[q]
        /\ upload'[r].next = 1 /\ upload'[r].sending = {}
    BY <1>1, <1>3 DEF Types, UploadType, NewUpload
  <2>4. Elsewhere(r)
    BY <1>1, <1>3, <2>1, <2>3 DEF Elsewhere
  <2>5. WorkerTypes'
    <3>1. Cardinality(upload'[r].sending) <= threads /\ upload'[r].next \in 1 .. Pages + 1
      BY <2>3, FS_EmptySet, UploadAssumption
    <3> QED BY <1>1, <1>3, <2>1, <2>3, <3>1 DEF WorkerTypes, Types, TypeOK
  <2>6. WorkerInv(r)'
    BY <1>1, <1>3, <2>1 DEF WorkerInv, StepIsOfTarget, OfTarget, ResultIsOfStep
  <2>7. LeftIsInUse(r)' /\ ImageIsMade(r)'
    BY <1>1, <1>2, <1>3, <2>1, <2>2 DEF LeftIsInUse, ImageIsMade, ImageOf, Tidy, Ready
  <2>8. BlobIsOwn(r)'
    BY <1>1, <1>2, <1>3, <2>1, <2>2 DEF BlobIsOwn, Ready, Local, OfTarget
  <2>9. PagesAreSent(r)'
    BY <1>1, <1>3, <2>1, <2>3 DEF PagesAreSent
  <2> QED BY <1>1, <2>1, <2>2, <2>4, <2>5, <2>6, <2>7, <2>8, <2>9, Combine DEF CloudInv
<1>4. CASE /\ Fails(r)
           /\ cloud' \in {cloud, [cloud EXCEPT !.blobs[Blob(r)] = NoBlob]}
           /\ appendTargetError(r)
           /\ UNCHANGED upload
  <2>1. Local(r, cloud')
    BY <1>2, <1>4, BlobValues, LocalBlob, LocalSame
  <2> QED BY <1>1, <1>4, <2>1, Failing DEF Fails, Troubled
<1> QED BY <1>3, <1>4 DEF CreateBlob

LEMMA ReadPageKeeps ==
    ASSUME IInv, NEW r \in Requests, ReadPage(r), UNCHANGED queueVars
    PROVE  IInv'
<1>1. At(r, "UploadPages") /\ UNCHANGED <<args, alive, cloud>> /\ Types /\ upload[r].next <= Pages
  BY DEF ReadPage, IInv
<1>2. CASE /\ HasSlot(r)
           /\ upload' = [upload EXCEPT ![r].next = @ + 1, ![r].sending = @ \cup {upload[r].next}]
           /\ UNCHANGED <<step, result, trouble>>
  <2> DEFINE n == upload[r].next
             S == upload[r].sending
  <2>1. /\ upload[r] \in UploadType /\ n \in 1 .. Pages + 1 /\ S \subseteq 1 .. n - 1
        /\ IsFiniteSet(S) /\ Cardinality(S) \in Nat
    BY UploadTypes
  <2>2. /\ upload' = [q \in Requests |-> upload'[q]]
        /\ upload'[r] = [upload[r] EXCEPT !.next = n + 1, !.sending = S \cup {n}]
        /\ \A q \in Requests \ {r} : upload'[q] = upload[q]
    BY <1>1, <1>2 DEF Types
  <2>3. /\ upload'[r] \in UploadType /\ upload'[r].next = n + 1 /\ upload'[r].sending = S \cup {n}
        /\ upload'[r].error = upload[r].error
    <3>1. n + 1 \in Nat /\ S \cup {n} \in SUBSET Nat
      BY <2>1, UploadAssumption DEF UploadType
    <3> HIDE DEF n, S
    <3> QED BY <2>1, <2>2, <3>1 DEF UploadType
  <2>4. Cardinality(S \cup {n}) <= threads
    <3>1. Cardinality(S) < threads
      BY <1>2 DEF HasSlot
    <3> HIDE DEF n, S
    <3>2. Cardinality(S \cup {n}) \in {Cardinality(S), Cardinality(S) + 1}
      BY <2>1, FS_AddElement
    <3> QED BY <2>1, <3>1, <3>2, UploadAssumption
  <2>5. Local(r, cloud') /\ Elsewhere(r)
    BY <1>1, <1>2, <2>2, LocalSame DEF Elsewhere
  <2>6. WorkerTypes'
    <3>1. upload' \in [Requests -> UploadType]
      BY <1>1, <2>2, <2>3 DEF Types
    <3>2. n + 1 \in 1 .. Pages + 1 /\ S \cup {n} \subseteq 1 .. (n + 1) - 1
      BY <1>1, <2>1, UploadAssumption
    <3> QED BY <1>1, <1>2, <2>2, <2>3, <2>4, <3>1, <3>2 DEF WorkerTypes, Types, TypeOK
  <2>7. WorkerInv(r)'
    BY <1>1, <1>2 DEF IInv, WorkerInv, StepIsOfTarget, OfTarget, ResultIsOfStep
  <2>8. LeftIsInUse(r)' /\ ImageIsMade(r)'
    BY <1>1, <1>2 DEF IInv, CloudInv, LeftIsInUse, ImageIsMade, ImageOf, Rivals
  <2>9. BlobIsOwn(r)'
    BY <1>1, <1>2 DEF IInv, CloudInv, BlobIsOwn, HasBlob, At
  <2>10. PagesAreSent(r)'
    <3>1. (1 .. (n + 1) - 1) \ (S \cup {n}) \subseteq (1 .. n - 1) \ S
      BY <1>1, <2>1, UploadAssumption
    <3>2. PagesAreSent(r) /\ Rivals(r)' = Rivals(r) /\ Blob(r)' = Blob(r)
      BY <1>1 DEF IInv, CloudInv, Rivals, Blob
    <3> QED BY <1>1, <1>2, <2>3, <3>1, <3>2 DEF PagesAreSent, At
  <2> QED BY <1>1, <1>2, <2>5, <2>6, <2>7, <2>8, <2>9, <2>10, Combine DEF CloudInv, At
<1>3. CASE Fails(r) /\ appendTargetError(r) /\ UNCHANGED upload
  BY <1>1, <1>3, LocalSame, Failing DEF Fails, Troubled
<1> QED BY <1>2, <1>3 DEF ReadPage

LEMMA CheckBlobKeeps ==
    ASSUME IInv, NEW r \in Requests, CheckBlob(r), UNCHANGED queueVars
    PROVE  IInv'
<1>1. CASE Refused(r, "UploadPages")
  BY <1>1, RefusedKeeps
<1>2. CASE args[r].target = "azure" /\ Last(r, "UploadPages", cloud, FALSE)
  <2>1. r \in trouble \/ Tidy(r, cloud, "UploadPages")
    BY <1>2, Here DEF Last
  <2>2. Delivered(r, cloud) /\ (r \in trouble \/ Tidy(r, cloud, "returned"))
    BY <1>2, <2>1 DEF Tidy, Delivered
  <2> QED BY <1>2, <2>2, LocalSame, LastKeeps DEF CloudTargets
<1>3. CASE ~upload[r].error /\ args[r].target # "azure" /\ Call(r, "UploadPages", cloud, "CreateOrUpdate")
  <2>1. At(r, "UploadPages")
    BY <1>3 DEF Call
  <2>2. Ready(r, cloud, "UploadPages") /\ (r \in trouble \/ Tidy(r, cloud, "UploadPages"))
    BY <2>1, Here
  <2>3. args[r].target = "azure.image"
    BY <1>3, <2>2 DEF Ready, OfTarget
  <2>4. 1 .. Pages \subseteq (1 .. upload[r].next - 1) \ upload[r].sending
    BY UploadTypes, UploadAssumption DEF CheckBlob, PagesSent
  <2>5. Rivals(r) = {} => \A p \in 1 .. Pages : cloud.blobs[Blob(r)].pages[p] = r
    BY <1>3, <2>1, <2>3, <2>4 DEF IInv, CloudInv, PagesAreSent
  <2>6. Ready(r, cloud, "CreateOrUpdate") /\ (r \in trouble \/ Tidy(r, cloud, "CreateOrUpdate"))
    BY <2>2, <2>3, <2>5 DEF Ready, Tidy, OfTarget
  <2> QED BY <1>3, <2>6, QuietCallKeeps
<1>4. upload[r].error \in BOOLEAN
  BY UploadTypes DEF UploadType
<1> QED BY <1>1, <1>2, <1>3, <1>4 DEF CheckBlob

LEMMA AzureRegisterKeeps ==
    ASSUME IInv, NEW r \in Requests, azureRegisterImage(r), UNCHANGED queueVars
    PROVE  IInv'
<1> DEFINE i0 == Image("azure", args[r].name, r, {})
           S == (cloud.images \ Named("azure", args[r].name)) \cup {i0}
           new == Put("images", S)
<1>1. At(r, "CreateOrUpdate") /\ Last(r, "CreateOrUpdate", new, TRUE)
  BY DEF azureRegisterImage, Last
<1>2. Ready(r, cloud, "CreateOrUpdate") /\ (r \in trouble \/ Tidy(r, cloud, "CreateOrUpdate"))
  BY <1>1, Here
<1>3. args[r].target = "azure.image" /\ cloud.account[r] # Nil
  BY <1>2 DEF Ready, OfTarget
<1>4. i0 \in Images /\ i0.of = r /\ i0.name = args[r].name /\ i0.cloud = "azure"
  BY ImageTypes
<1> HIDE DEF i0
<1>5. /\ S \in SUBSET Images /\ \A i \in S : i.name = args[i.of].name
      /\ \A i \in cloud.images : i.of # r =>
            \/ i \in S
            \/ i.cloud = "azure" /\ i.name = args[r].name /\ args[r].target = "azure.image"
  BY <1>3, <1>4 DEF IInv, Types, CloudType, ImagesAreNamed, Named
<1>6. /\ Local(r, new) /\ new.images = S
      /\ new.objects = cloud.objects /\ new.leftovers = cloud.leftovers
      /\ new.account = cloud.account /\ new.blobs = cloud.blobs
  <2> HIDE DEF S
  <2> QED BY <1>5, LocalImages
<1> HIDE DEF new
<1>7. Delivered(r, new) /\ (r \in trouble \/ Tidy(r, new, "returned"))
  BY <1>2, <1>3, <1>4, <1>6 DEF Delivered, Ready, Tidy
<1> QED BY <1>1, <1>6, <1>7, LastKeeps

-----------------------------------------------------------------------------
(***************************************************************************)
(* The clouds, and the goroutines that upload pages.                       *)
(***************************************************************************)
LEMMA Staying ==
    ASSUME IInv, NEW r \in Requests, Local(r, cloud'), CloudInv(r)',
           UNCHANGED <<args, alive, step, result, upload, trouble, queueVars>>
    PROVE  IInv'
<1>1. Elsewhere(r) /\ WorkerTypes'
  BY DEF Elsewhere, WorkerTypes, IInv, Types, TypeOK
<1>2. WorkerInv(r)'
  BY DEF IInv, WorkerInv, StepIsOfTarget, ResultIsOfStep
<1> QED BY <1>1, <1>2, Combine

LEMMA SnapshotImportedKeeps ==
    ASSUME IInv, NEW r \in Requests, SnapshotImported(r), UNCHANGED queueVars
    PROVE  IInv'
<1>1. PICK x \in {"completed", "deleted"} : cloud' = [cloud EXCEPT !.snapshots[r] = x]
  BY DEF SnapshotImported
<1>2. /\ Local(r, cloud')
      /\ cloud'.objects = cloud.objects /\ cloud'.leftovers = cloud.leftovers /\ cloud'.images = cloud.images
      /\ cloud'.builds = cloud.builds /\ cloud'.account = cloud.account
      /\ cloud'.accounts = cloud.accounts /\ cloud'.blobs = cloud.blobs
  BY <1>1, LocalSnapshot
<1>3. UNCHANGED <<args, alive, step, result, upload, trouble>>
  BY DEF SnapshotImported
<1>4. CloudInv(r)
  BY DEF IInv
<1>5. LeftIsInUse(r)' /\ ImageIsMade(r)'
  BY <1>2, <1>3, <1>4 DEF CloudInv, LeftIsInUse, ImageIsMade, ImageOf, Rivals
<1>6. BlobIsOwn(r)' /\ PagesAreSent(r)'
  BY <1>2, <1>3, <1>4 DEF CloudInv, BlobIsOwn, HasBlob, PagesAreSent, Rivals, Blob, At
<1> QED BY <1>2, <1>3, <1>5, <1>6, Staying DEF CloudInv

LEMMA BuildEndsKeeps ==
    ASSUME IInv, NEW r \in Requests, BuildEnds(r), UNCHANGED queueVars
    PROVE  IInv'
<1> DEFINE i0 == Image("gcp", args[r].name, r, {})
<1>1. /\ cloud \in CloudType /\ Local(r, cloud) /\ cloud.builds[r] = "working"
      /\ UNCHANGED <<args, alive, step, result, upload, trouble>>
  BY LocalSame DEF BuildEnds, IInv, Types
<1>2. i0 \in Images /\ i0.cloud = "gcp" /\ i0.of = r /\ i0.users = {} /\ i0.name = args[r].name
  BY ImageTypes
<1>3. \/ cloud' = [cloud EXCEPT !.builds[r] = "success", !.images = cloud.images \cup {i0}]
      \/ cloud' = [cloud EXCEPT !.builds[r] = "failure"]
  BY <1>1 DEF BuildEnds, CloudType
<1> HIDE DEF i0
<1>4. /\ cloud'.objects = cloud.objects /\ cloud'.leftovers = cloud.leftovers
      /\ cloud'.account = cloud.account /\ cloud'.snapshots = cloud.snapshots
      /\ cloud'.accounts = cloud.accounts /\ cloud'.blobs = cloud.blobs
  BY <1>1, <1>3 DEF CloudType
<1>5. /\ cloud'.builds \in [Requests -> {"none", "working", "success", "failure"}]
      /\ \A q \in Requests \ {r} : cloud'.builds[q] = cloud.builds[q]
      /\ \/ cloud'.builds[r] = "success" /\ cloud'.images = cloud.images \cup {i0}
         \/ cloud'.builds[r] = "failure" /\ cloud'.images = cloud.images
  <2>1. \/ /\ cloud'.builds = [cloud.builds EXCEPT ![r] = "success"]
           /\ cloud'.images = cloud.images \cup {i0}
        \/ cloud'.builds = [cloud.builds EXCEPT ![r] = "failure"] /\ cloud'.images = cloud.images
    BY <1>1, <1>3 DEF CloudType
  <2>2. cloud.builds \in [Requests -> {"none", "working", "success", "failure"}]
    BY <1>1 DEF CloudType
  <2> QED BY <2>1, <2>2
<1>6. cloud'.images \in SUBSET Images
  BY <1>1, <1>2, <1>5 DEF CloudType
<1>7. cloud' \in CloudType
  <2>1. CASE cloud' = [cloud EXCEPT !.builds[r] = "success", !.images = cloud.images \cup {i0}]
    BY <1>1, <1>5, <1>6, <2>1 DEF CloudType
  <2>2. CASE cloud' = [cloud EXCEPT !.builds[r] = "failure"]
    BY <1>1, <2>2 DEF CloudType
  <2> QED BY <1>3, <2>1, <2>2
<1>8. Local(r, cloud')
  BY <1>1, <1>2, <1>4, <1>5, <1>7 DEF Local
<1>9. ImageIsMade(r)'
  BY <1>1, <1>2, <1>4, <1>5 DEF IInv, CloudInv, ImageIsMade, ImageOf, Rivals
<1>10. CloudInv(r)'
  BY <1>1, <1>4, <1>9 DEF IInv, CloudInv, LeftIsInUse, BlobIsOwn, HasBlob, PagesAreSent, Rivals, Blob, At
<1> QED BY <1>1, <1>8, <1>10, Staying

LEMMA UploadPageKeeps ==
    ASSUME IInv, NEW r \in Requests, NEW p \in 1 .. Pages, UploadPage(r, p), UNCHANGED queueVars
    PROVE  IInv'
<1> DEFINE S == upload[r].sending
           b == [cloud.blobs[Blob(r)] EXCEPT !.pages[p] = r]
<1>1. /\ p \in S /\ Types /\ upload[r] \in UploadType /\ upload \in [Requests -> UploadType]
      /\ cloud.blobs[Blob(r)] \in BlobType /\ Blob(r) \in Requests \X Names
      /\ UNCHANGED <<args, alive, step, result>> /\ HasBlob(r)
  BY BlobTypes DEF UploadPage, IInv, Types, CloudType, HasBlob
<1>2. /\ upload[r].next \in 1 .. Pages + 1 /\ S \subseteq 1 .. upload[r].next - 1
      /\ IsFiniteSet(S) /\ Cardinality(S) \in Nat /\ Cardinality(S) <= threads
  BY UploadTypes
<1>3. Cardinality(S \ {p}) <= threads
  <2> HIDE DEF S
  <2>1. Cardinality(S \ {p}) \in {Cardinality(S), Cardinality(S) - 1}
    BY <1>2, FS_RemoveElement
  <2> QED BY <1>2, <2>1, UploadAssumption
<1>4. /\ b \in BlobType /\ b.pages[p] = r
      /\ \A x \in 1 .. Pages : x # p => b.pages[x] = cloud.blobs[Blob(r)].pages[x]
  BY <1>1 DEF BlobType
<1>5. ASSUME Local(r, cloud'), trouble' \in {trouble, trouble \cup {r}},
             upload' \in [Requests -> UploadType], \A q \in Requests \ {r} : upload'[q] = upload[q],
             upload'[r].next = upload[r].next, upload'[r].sending = S \ {p},
             cloud'.objects = cloud.objects, cloud'.leftovers = cloud.leftovers,
             cloud'.images = cloud.images, cloud'.builds = cloud.builds, cloud'.account = cloud.account,
             cloud'.accounts = cloud.accounts, PagesAreSent(r)'
      PROVE  IInv'
  <2>1. Elsewhere(r)
    BY <1>1, <1>5 DEF Elsewhere
  <2>2. WorkerTypes'
    BY <1>1, <1>2, <1>3, <1>5 DEF WorkerTypes, Types, TypeOK
  <2>3. WorkerInv(r)'
    BY <1>1 DEF IInv, WorkerInv, StepIsOfTarget, ResultIsOfStep
  <2>4. LeftIsInUse(r)'
    BY <1>1, <1>5 DEF IInv, CloudInv, LeftIsInUse
  <2>5. ImageIsMade(r)'
    <3>1. ImageIsMade(r) /\ Rivals(r)' = Rivals(r)
      BY <1>1 DEF IInv, CloudInv, Rivals
    <3> QED BY <1>1, <1>5, <3>1 DEF ImageIsMade, ImageOf
  <2>6. BlobIsOwn(r)'
    BY <1>1, <1>5 DEF IInv, CloudInv, BlobIsOwn, HasBlob
  <2> QED BY <1>1, <1>5, <2>1, <2>2, <2>3, <2>4, <2>5, <2>6, Combine DEF CloudInv
<1>6. PagesAreSent(r)
  BY DEF IInv, CloudInv
<1>7. CASE /\ cloud' = [cloud EXCEPT !.blobs[Blob(r)].pages[p] = r]
           /\ upload' = [upload EXCEPT ![r].sending = @ \ {p}]
           /\ UNCHANGED trouble
  <2>1. cloud' = [cloud EXCEPT !.blobs[Blob(r)] = b]
    BY <1>1, <1>7 DEF Types, CloudType, BlobType
  <2> HIDE DEF b
  <2>2. /\ Local(r, cloud') /\ cloud'.blobs[Blob(r)] = b
        /\ cloud'.objects = cloud.objects /\ cloud'.leftovers = cloud.leftovers
        /\ cloud'.images = cloud.images /\ cloud'.builds = cloud.builds /\ cloud'.account = cloud.account
        /\ cloud'.accounts = cloud.accounts
    BY <1>1, <1>4, <2>1, LocalBlob
  <2>3. /\ upload' \in [Requests -> UploadType] /\ \A q \in Requests \ {r} : upload'[q] = upload[q]
        /\ upload'[r].next = upload[r].next /\ upload'[r].sending = S \ {p}
        /\ upload'[r].error = upload[r].error
    BY <1>1, <1>7 DEF UploadType
  <2>4. Blob(r)' = Blob(r) /\ Rivals(r)' = Rivals(r) /\ cloud'.blobs[Blob(r)] = b
    BY <1>1, <2>2 DEF Blob, Rivals
  <2>5. \A x \in (1 .. upload[r].next - 1) \ (S \ {p}) :
            x \in 1 .. Pages /\ (x # p => x \in (1 .. upload[r].next - 1) \ S)
    BY <1>2, UploadAssumption
  <2>6. PagesAreSent(r)'
    BY <1>1, <1>4, <1>6, <2>3, <2>4, <2>5 DEF PagesAreSent, At
  <2> QED BY <1>5, <1>7, <2>2, <2>3, <2>6
<1>8. CASE /\ Fails(r)
           /\ upload' = [upload EXCEPT ![r].sending = @ \ {p}, ![r].error = TRUE]
           /\ UNCHANGED cloud
  <2>1. /\ upload' = [q \in Requests |-> upload'[q]] /\ \A q \in Requests \ {r} : upload'[q] = upload[q]
        /\ upload'[r] = [upload[r] EXCEPT !.sending = S \ {p}, !.error = TRUE]
    BY <1>1, <1>8
  <2>2. /\ upload'[r] \in UploadType
        /\ upload'[r].next = upload[r].next /\ upload'[r].sending = S \ {p} /\ upload'[r].error
    <3>1. S \ {p} \in SUBSET Nat
      BY <1>1 DEF UploadType
    <3> HIDE DEF S
    <3> QED BY <1>1, <2>1, <3>1 DEF UploadType
  <2>3. upload' \in [Requests -> UploadType]
    BY <1>1, <2>1, <2>2
  <2>4. PagesAreSent(r)'
    BY <1>1, <1>6, <1>8, <2>2 DEF PagesAreSent, At, Blob, Rivals
  <2>5. trouble' \in {trouble, trouble \cup {r}}
    BY <1>8 DEF Fails, Troubled
  <2> QED BY <1>5, <1>8, <2>1, <2>2, <2>3, <2>4, <2>5, LocalSame
<1> QED BY <1>7, <1>8 DEF UploadPage

-----------------------------------------------------------------------------
(***************************************************************************)
(* The queue.                                                              *)
(***************************************************************************)
Moved(j) ==
    /\ DOMAIN jobs' = DOMAIN jobs \cup {j}
    /\ \A x \in DOMAIN jobs \ {j} : jobs'[x] = jobs[x]
    /\ jobs'[j] \in Queue!Job /\ jobs'[j].status # "canceled"

JobsOf(r) == {depsolve(r), osbuild(r)}

LEMMA Enqueues ==
    ASSUME IInv, NEW j, NEW type \in {"depsolve", "osbuild"}, Queue!Enqueue(j, type, {})
    PROVE  j \notin DOMAIN jobs /\ Moved(j) /\ jobs'[j].status = "queued"
  BY DEF Queue!Enqueue, Queue!With, Queue!Job, Moved

LEMMA Dequeues ==
    ASSUME IInv, NEW j \in Jobs, Queue!Dequeue(j, j)
    PROVE  /\ j \in DOMAIN jobs /\ jobs[j].status = "queued"
           /\ Moved(j) /\ jobs'[j].status = "running"
<1>1. j \in DOMAIN jobs /\ jobs[j].status = "queued" /\ jobs[j] \in Queue!Job
  BY DEF Queue!Dequeue, IInv, Types, TypeOK
<1>2. /\ DOMAIN jobs' = DOMAIN jobs \cup {j} /\ \A x \in DOMAIN jobs \ {j} : jobs'[x] = jobs[x]
      /\ jobs'[j] = [jobs[j] EXCEPT !.status = "running", !.Token = j]
  BY <1>1 DEF Queue!Dequeue
<1>3. jobs'[j] \in Queue!Job /\ jobs'[j].status = "running"
  BY <1>1, <1>2 DEF Queue!Job
<1> QED BY <1>1, <1>2, <1>3 DEF Moved

LEMMA Finishes ==
    ASSUME IInv, NEW j \in Jobs, NEW res \in DepsolveResult \cup OSBuildResult, Queue!FinishJob(j, res)
    PROVE  /\ j \in DOMAIN jobs /\ jobs[j].status = "running"
           /\ Moved(j) /\ jobs'[j].status = "finished" /\ jobs'[j].Result = res
<1>1. j \in DOMAIN jobs /\ jobs[j].status = "running" /\ jobs[j] \in Queue!Job
  BY DEF Queue!FinishJob, IInv, Types, TypeOK
<1>2. /\ DOMAIN jobs' = DOMAIN jobs \cup {j} /\ \A x \in DOMAIN jobs \ {j} : jobs'[x] = jobs[x]
      /\ jobs'[j] = [jobs[j] EXCEPT !.status = "finished", !.Result = res]
  BY <1>1 DEF Queue!FinishJob
<1>3. jobs'[j] \in Queue!Job /\ jobs'[j].status = "finished" /\ jobs'[j].Result = res
  BY <1>1, <1>2 DEF Queue!Job
<1> QED BY <1>1, <1>2, <1>3 DEF Moved

\* A request is what it was, but for the packages of its manifest.
SameArgs(q) ==
    args'[q].target = args[q].target /\ args'[q].name = args[q].name
    /\ args'[q].api = args[q].api /\ args'[q].share = args[q].share

LEMMA WorkersKeep ==
    ASSUME IInv, \A q \in Requests : SameArgs(q), UNCHANGED <<step, result, cloud, upload>>,
           alive' \subseteq alive, trouble \subseteq trouble', trouble' \subseteq Requests
    PROVE  /\ WorkerTypes' /\ cloud' \in CloudType /\ ImagesAreNamed'
           /\ \A q \in Requests : WorkerInv(q)' /\ CloudInv(q)'
<1>1. WorkerTypes' /\ cloud' \in CloudType
  BY DEF WorkerTypes, IInv, Types, TypeOK
<1>2. ImagesAreNamed'
  <2>1. \A i \in cloud.images : i.of \in Requests
    BY DEF IInv, Types, CloudType, Images
  <2> QED BY <2>1 DEF IInv, ImagesAreNamed, SameArgs
<1>3. ASSUME NEW q \in Requests PROVE WorkerInv(q)' /\ CloudInv(q)'
  <2>1. WorkerInv(q) /\ CloudInv(q) /\ SameArgs(q)
    BY DEF IInv
  <2>2. Rivals(q)' = Rivals(q) /\ Blob(q)' = Blob(q)
    BY <2>1 DEF Rivals, Blob, SameArgs
  <2>3. WorkerInv(q)'
    BY <2>1 DEF WorkerInv, StepIsOfTarget, OfTarget, ResultIsOfStep, SameArgs
  <2>4. LeftIsInUse(q)' /\ ImageIsMade(q)'
    BY <2>1, <2>2 DEF CloudInv, LeftIsInUse, ImageIsMade, ImageOf, SameArgs
  <2>5. BlobIsOwn(q)' /\ PagesAreSent(q)'
    BY <2>1, <2>2 DEF CloudInv, BlobIsOwn, HasBlob, PagesAreSent, At, SameArgs
  <2> QED BY <2>3, <2>4, <2>5 DEF CloudInv
<1> QED BY <1>1, <1>2, <1>3

\* A step that moves no job but one of request r keeps the invariant if it keeps that of r.
LEMMA Requested ==
    ASSUME IInv, NEW r \in Requests, NEW j \in JobsOf(r),
           Moved(j) \/ UNCHANGED jobs, UNCHANGED jobs \/ j \notin expired,
           args' \in [Requests -> Args], \A q \in Requests \ {r} : args'[q] = args[q],
           handler' \in [Requests -> {"new", "polling", "enqueued", "created", "refused", "gone"}],
           solving' \subseteq Requests,
           \/ UNCHANGED expired
           \/ expired' = expired \cup {j} /\ j \in DOMAIN jobs' /\ jobs'[j].status = "finished",
           \A q \in Requests \ {r} : /\ step'[q] = step[q] /\ result'[q] = result[q]
                                     /\ q \in alive' <=> q \in alive
                                     /\ q \in trouble => q \in trouble',
           WorkerTypes', cloud' \in CloudType, ImagesAreNamed',
           \A q \in Requests : WorkerInv(q)' /\ CloudInv(q)',
           QueueInv(r)'
    PROVE  IInv'
<1>1. Types'
  <2>1. j \in Jobs
    BY DEF Jobs, JobsOf, depsolve, osbuild
  <2>2. DOMAIN jobs' \subseteq Jobs /\ \A x \in DOMAIN jobs' : jobs'[x] \in Queue!Job
    BY <2>1 DEF Moved, IInv, Types, TypeOK
  <2>3. expired' \subseteq {x \in DOMAIN jobs' : jobs'[x].status = "finished"}
    BY DEF Moved, IInv, Types, TypeOK
  <2> QED BY <2>2, <2>3 DEF Types, TypeOK, WorkerTypes
<1>2. NothingCanceled'
  BY DEF Moved, IInv, NothingCanceled
<1>3. ASSUME NEW q \in Requests, q # r PROVE QueueInv(q)'
  <2>1. depsolve(q) # j /\ osbuild(q) # j
    BY <1>3 DEF depsolve, osbuild, JobsOf
  <2>2. /\ depsolve(q) \in DOMAIN jobs' <=> depsolve(q) \in DOMAIN jobs
        /\ osbuild(q) \in DOMAIN jobs' <=> osbuild(q) \in DOMAIN jobs
        /\ depsolve(q) \in DOMAIN jobs => jobs'[depsolve(q)] = jobs[depsolve(q)]
        /\ osbuild(q) \in DOMAIN jobs => jobs'[osbuild(q)] = jobs[osbuild(q)]
        /\ depsolve(q) \in expired' <=> depsolve(q) \in expired
        /\ osbuild(q) \in expired' <=> osbuild(q) \in expired
    BY <2>1 DEF Moved
  <2>3. QueueInv(q) /\ args'[q] = args[q] /\ (Finished(depsolve(q))' <=> Finished(depsolve(q)))
        /\ (Finished(osbuild(q))' <=> Finished(osbuild(q))) /\ (Unstarted(osbuild(q))' <=> Unstarted(osbuild(q)))
        /\ depsolve(q)' = depsolve(q) /\ osbuild(q)' = osbuild(q)
    BY <1>3, <2>2 DEF IInv, Finished, Unstarted, depsolve, osbuild
  <2>4. DepsolveIsReported(q)' /\ BuildOf(q)'
    BY <2>2, <2>3 DEF QueueInv, DepsolveIsReported, BuildOf, Finished
  <2>5. OSBuildIsReported(q)'
    BY <1>3, <2>2, <2>3 DEF QueueInv, OSBuildIsReported, Finished
  <2> QED BY <2>4, <2>5 DEF QueueInv
<1> QED BY <1>1, <1>2, <1>3 DEF IInv

Handlers == {"new", "polling", "enqueued", "created", "refused", "gone"}

LEMMA MovesTo ==
    ASSUME IInv, NEW r \in Requests, NEW h \in Handlers, Moves(r, h)
    PROVE  handler' \in [Requests -> Handlers]
  BY DEF IInv, Types, TypeOK, Moves, Handlers

LEMMA ArgsSame ==
    ASSUME IInv, UNCHANGED args
    PROVE  args' \in [Requests -> Args] /\ \A q \in Requests : SameArgs(q) /\ args'[q] = args[q]
  BY DEF IInv, Types, TypeOK, SameArgs

\* A handler that does not touch the queue.
LEMMA OnlyReplies ==
    ASSUME IInv, handler' \in [Requests -> Handlers], solving' \subseteq Requests,
           UNCHANGED <<args, jobs, expired, workerVars>>
    PROVE  IInv'
<1>1. Types'
  BY DEF IInv, Types, TypeOK, workerVars, Handlers
<1>2. NothingCanceled' /\ ImagesAreNamed'
  BY DEF IInv, NothingCanceled, ImagesAreNamed, workerVars
<1>3. ASSUME NEW q \in Requests PROVE QueueInv(q)' /\ WorkerInv(q)' /\ CloudInv(q)'
  <2>1. QueueInv(q)'
    BY DEF IInv, QueueInv, DepsolveIsReported, OSBuildIsReported, BuildOf, Finished, Unstarted,
           depsolve, osbuild, workerVars
  <2>2. WorkerInv(q)'
    BY DEF IInv, WorkerInv, StepIsOfTarget, ResultIsOfStep, workerVars
  <2>3. CloudInv(q)'
    BY DEF IInv, CloudInv, LeftIsInUse, ImageIsMade, ImageOf, BlobIsOwn, HasBlob, PagesAreSent,
           Rivals, Blob, At, workerVars
  <2> QED BY <2>1, <2>2, <2>3
<1> QED BY <1>1, <1>2, <1>3 DEF IInv

LEMMA CrashKeeps == ASSUME IInv, Crash PROVE IInv'
<1>1. handler' \in [Requests -> Handlers]
  BY DEF IInv, Types, TypeOK, Crash, Handlers
<1>2. solving' \subseteq Requests
  BY DEF IInv, Types, TypeOK, Crash
<1> QED BY <1>1, <1>2, OnlyReplies DEF Crash

\* The manifest is made, and its job enqueued.
LEMMA EnqueueKeeps ==
    ASSUME IInv, NEW r \in Requests, NEW packages \in BOOLEAN, EnqueueOSBuild(r, packages),
           args[r].api # "weldr" => args[r].target \in CloudTargets,
           args[r].api = "v2" => /\ Finished(depsolve(r)) /\ ~jobs[depsolve(r)].Result.Error
                                 /\ packages = jobs[depsolve(r)].Result.PackageSpecs,
           UNCHANGED <<solving, expired, workerVars>>
    PROVE  IInv'
<1>1. /\ osbuild(r) \notin DOMAIN jobs /\ Moved(osbuild(r)) /\ jobs'[osbuild(r)].status = "queued"
  BY Enqueues DEF EnqueueOSBuild
<1>2. /\ args' \in [Requests -> Args] /\ args'[r].packages = packages
      /\ \A q \in Requests : SameArgs(q)
      /\ \A q \in Requests \ {r} : args'[q] = args[q]
  <2>1. args' = [args EXCEPT ![r].packages = packages] /\ args \in [Requests -> Args]
    BY DEF EnqueueOSBuild, IInv, Types, TypeOK
  <2> QED BY <2>1 DEF Args, SameArgs
<1>3. handler' \in [Requests -> Handlers] /\ solving' \subseteq Requests
  <2>1. Moves(r, "enqueued") /\ "enqueued" \in Handlers
    BY DEF EnqueueOSBuild, Handlers
  <2> QED BY <2>1, MovesTo DEF IInv, Types, TypeOK
<1>4. /\ WorkerTypes' /\ cloud' \in CloudType /\ ImagesAreNamed'
      /\ \A q \in Requests : WorkerInv(q)' /\ CloudInv(q)'
  <2>1. trouble' \subseteq Requests /\ UNCHANGED <<step, result, cloud, upload, alive, trouble>>
    BY DEF workerVars, IInv, Types, TypeOK
  <2> QED BY <1>2, <2>1, WorkersKeep
<1>5. /\ depsolve(r) # osbuild(r) /\ osbuild(r) \notin expired /\ QueueInv(r)
      /\ depsolve(r) \in DOMAIN jobs' <=> depsolve(r) \in DOMAIN jobs
      /\ depsolve(r) \in DOMAIN jobs => jobs'[depsolve(r)] = jobs[depsolve(r)]
  BY <1>1 DEF depsolve, osbuild, Moved, IInv, Types, TypeOK
<1>6. DepsolveIsReported(r)'
  BY <1>5 DEF QueueInv, DepsolveIsReported, Finished, depsolve
<1>7. OSBuildIsReported(r)'
  BY <1>1, <1>2, <1>5 DEF QueueInv, OSBuildIsReported, Finished, Unstarted, osbuild, workerVars, SameArgs, Moved
<1>8. BuildOf(r)'
  <2>1. SUFFICES ASSUME args[r].api = "v2"
                 PROVE  \/ Finished(depsolve(r)) /\ jobs[depsolve(r)].Result.PackageSpecs /\ packages
                        \/ depsolve(r) \in expired /\ ~packages
    BY <1>2, <1>5 DEF BuildOf, Finished, depsolve, SameArgs
  <2>2. /\ Finished(depsolve(r)) /\ ~jobs[depsolve(r)].Result.Error
        /\ packages = jobs[depsolve(r)].Result.PackageSpecs
    BY <2>1
  <2>3. CASE depsolve(r) \in expired
    BY <1>5, <2>2, <2>3 DEF QueueInv, DepsolveIsReported, Null, depsolve
  <2>4. CASE depsolve(r) \notin expired
    <3>1. jobs[depsolve(r)].Result.PackageSpecs
      BY <1>5, <2>2, <2>4 DEF QueueInv, DepsolveIsReported
    <3> QED BY <2>2, <3>1
  <2> QED BY <2>3, <2>4
<1>9. QueueInv(r)' /\ osbuild(r) \in JobsOf(r)
  BY <1>6, <1>7, <1>8 DEF QueueInv, JobsOf
<1> QED BY <1>1, <1>2, <1>3, <1>4, <1>5, <1>9, Requested DEF workerVars, Handlers

LEMMA HandleKeeps ==
    ASSUME IInv, NEW r \in Requests, Refuse(r) \/ composeV1(r) \/ composeWeldr(r) \/ PostCompose(r) \/ Reply(r)
    PROVE  IInv'
<1>1. solving \subseteq Requests /\ {"refused", "created"} \subseteq Handlers
  BY DEF IInv, Types, TypeOK, Handlers
<1>2. ASSUME NEW h \in {"refused", "created"}, Moves(r, h), UNCHANGED <<args, jobs, solving, expired, workerVars>>
      PROVE  IInv'
  BY <1>1, <1>2, MovesTo, OnlyReplies
<1>3. CASE Refuse(r)
  BY <1>2, <1>3 DEF Refuse
<1>4. CASE composeV1(r)
  BY <1>2, <1>4, EnqueueKeeps DEF composeV1, uploadRequest
<1>5. CASE composeWeldr(r)
  BY <1>5, EnqueueKeeps DEF composeWeldr
<1>6. CASE PostCompose(r)
  <2>1. Finished(depsolve(r)) /\ UNCHANGED <<solving, expired, workerVars>>
    BY <1>6 DEF PostCompose
  <2>2. jobs[depsolve(r)].Result.PackageSpecs \in BOOLEAN
    BY <2>1 DEF IInv, QueueInv, DepsolveIsReported, DepsolveResult
  <2> QED BY <1>2, <1>6, <2>1, <2>2, EnqueueKeeps DEF PostCompose, DepsolveFailed, UploadOptions
<1>7. CASE Reply(r)
  BY <1>2, <1>7 DEF Reply
<1> QED BY <1>3, <1>4, <1>5, <1>6, <1>7

\* A depsolve job moves on; no osbuild job of its request has been made yet.
LEMMA DepsolveMoves ==
    ASSUME IInv, NEW r \in Requests, Moved(depsolve(r)), ~Finished(depsolve(r)),
           handler' \in [Requests -> Handlers], solving' \subseteq Requests,
           \/ UNCHANGED expired
           \/ expired' = expired \cup {depsolve(r)} /\ jobs'[depsolve(r)].status = "finished",
           trouble' \in {trouble, trouble \cup {r}},
           DepsolveIsReported(r)', UNCHANGED <<args, alive, step, result, cloud, upload>>
    PROVE  IInv'
<1>1. depsolve(r) \notin expired /\ depsolve(r) # osbuild(r) /\ depsolve(r) \in JobsOf(r) /\ QueueInv(r)
  BY DEF IInv, Types, TypeOK, Finished, depsolve, osbuild, JobsOf
<1>2. args' \in [Requests -> Args] /\ \A q \in Requests : SameArgs(q) /\ args'[q] = args[q]
  BY ArgsSame
<1>3. /\ WorkerTypes' /\ cloud' \in CloudType /\ ImagesAreNamed'
      /\ \A q \in Requests : WorkerInv(q)' /\ CloudInv(q)'
  <2>1. trouble' \subseteq Requests /\ trouble \subseteq trouble'
    BY DEF IInv, Types, TypeOK
  <2> QED BY <1>2, <2>1, WorkersKeep
<1>4. /\ osbuild(r) \in DOMAIN jobs' <=> osbuild(r) \in DOMAIN jobs
      /\ osbuild(r) \in DOMAIN jobs => jobs'[osbuild(r)] = jobs[osbuild(r)]
      /\ osbuild(r) \in expired' <=> osbuild(r) \in expired
  BY <1>1 DEF Moved
<1>5. OSBuildIsReported(r)'
  BY <1>1, <1>4 DEF QueueInv, OSBuildIsReported, Finished, Unstarted, osbuild
<1>6. BuildOf(r)'
  BY <1>1, <1>4 DEF QueueInv, BuildOf, osbuild
<1>7. QueueInv(r)'
  BY <1>5, <1>6 DEF QueueInv
<1> QED BY <1>1, <1>2, <1>3, <1>7, Requested DEF Handlers, Moved

LEMMA EnqueueDepsolveKeeps ==
    ASSUME IInv, NEW r \in Requests, EnqueueDepsolve(r)
    PROVE  IInv'
<1>1. /\ depsolve(r) \notin DOMAIN jobs /\ Moved(depsolve(r)) /\ jobs'[depsolve(r)].status = "queued"
  BY Enqueues DEF EnqueueDepsolve
<1>2. handler' \in [Requests -> Handlers] /\ solving' \subseteq Requests
  <2>1. Moves(r, "polling") /\ "polling" \in Handlers
    BY DEF EnqueueDepsolve, Handlers
  <2> QED BY <2>1, MovesTo DEF IInv, Types, TypeOK, EnqueueDepsolve
<1>3. DepsolveIsReported(r)' /\ ~Finished(depsolve(r))
  BY <1>1 DEF DepsolveIsReported, Finished, depsolve
<1> QED BY <1>1, <1>2, <1>3, DepsolveMoves DEF EnqueueDepsolve, workerVars

LEMMA StartDepsolveKeeps ==
    ASSUME IInv, NEW r \in Requests, StartDepsolve(r)
    PROVE  IInv'
<1>1. /\ depsolve(r) \in DOMAIN jobs /\ jobs[depsolve(r)].status = "queued"
      /\ Moved(depsolve(r)) /\ jobs'[depsolve(r)].status = "running"
  BY Dequeues DEF StartDepsolve, Jobs, depsolve
<1>2. handler' \in [Requests -> Handlers] /\ solving' \subseteq Requests
  BY DEF IInv, Types, TypeOK, StartDepsolve, Handlers
<1>3. DepsolveIsReported(r)' /\ ~Finished(depsolve(r))
  BY <1>1 DEF DepsolveIsReported, Finished, depsolve
<1> QED BY <1>1, <1>2, <1>3, DepsolveMoves DEF StartDepsolve, workerVars

LEMMA DepsolveKeeps ==
    ASSUME IInv, NEW r \in Requests, Depsolve(r)
    PROVE  IInv'
<1>1. PICK error \in BOOLEAN : Update(depsolve(r), [Error |-> error, PackageSpecs |-> ~error])
  BY DEF Depsolve
<1>2. /\ handler' \in [Requests -> Handlers] /\ solving' \subseteq Requests
      /\ UNCHANGED <<args, handler, expired, workerVars>>
  BY DEF IInv, Types, TypeOK, Depsolve, Handlers
<1>3. CASE UNCHANGED jobs
  BY <1>2, <1>3, OnlyReplies
<1>4. CASE Queue!FinishJob(depsolve(r), [Error |-> error, PackageSpecs |-> ~error])
  <2> DEFINE res == [Error |-> error, PackageSpecs |-> ~error]
  <2>1. res \in DepsolveResult /\ res.Error = ~res.PackageSpecs /\ depsolve(r) \in Jobs
    BY DEF DepsolveResult, Jobs, depsolve
  <2> HIDE DEF res
  <2>2. /\ depsolve(r) \in DOMAIN jobs /\ jobs[depsolve(r)].status = "running"
        /\ Moved(depsolve(r)) /\ jobs'[depsolve(r)].status = "finished" /\ jobs'[depsolve(r)].Result = res
    BY <1>4, <2>1, Finishes DEF res
  <2>3. depsolve(r) \notin expired' /\ ~Finished(depsolve(r))
    BY <1>2, <2>2 DEF IInv, Types, TypeOK, Finished
  <2>4. DepsolveIsReported(r)'
    BY <2>1, <2>2, <2>3 DEF DepsolveIsReported, depsolve
  <2> QED BY <1>2, <2>2, <2>3, <2>4, DepsolveMoves DEF workerVars
<1> QED BY <1>1, <1>3, <1>4 DEF Update

\* The osbuild job of a request moves on.
LEMMA OSBuildMoves ==
    ASSUME IInv, NEW r \in Requests, Moved(osbuild(r)) \/ UNCHANGED jobs,
           osbuild(r) \in DOMAIN jobs,
           UNCHANGED jobs \/ osbuild(r) \notin expired,
           \/ UNCHANGED expired
           \/ expired' = expired \cup {osbuild(r)} /\ jobs'[osbuild(r)].status = "finished",
           \A q \in Requests \ {r} : /\ step'[q] = step[q] /\ result'[q] = result[q]
                                     /\ q \in alive' <=> q \in alive
                                     /\ q \in trouble => q \in trouble',
           WorkerTypes', cloud' \in CloudType, ImagesAreNamed',
           \A q \in Requests : WorkerInv(q)' /\ CloudInv(q)',
           OSBuildIsReported(r)', UNCHANGED <<args, handler, solving>>
    PROVE  IInv'
<1>1. depsolve(r) # osbuild(r) /\ osbuild(r) \in JobsOf(r) /\ QueueInv(r)
  BY DEF IInv, depsolve, osbuild, JobsOf
<1>2. /\ depsolve(r) \in DOMAIN jobs' <=> depsolve(r) \in DOMAIN jobs
      /\ depsolve(r) \in DOMAIN jobs => jobs'[depsolve(r)] = jobs[depsolve(r)]
      /\ depsolve(r) \in expired' <=> depsolve(r) \in expired
  BY <1>1 DEF Moved
<1>3. DepsolveIsReported(r)'
  BY <1>1, <1>2 DEF QueueInv, DepsolveIsReported, Finished, depsolve
<1>4. BuildOf(r)'
  BY <1>1, <1>2 DEF QueueInv, BuildOf, Finished, depsolve
<1>5. QueueInv(r)'
  BY <1>3, <1>4 DEF QueueInv
<1>6. osbuild(r) \in DOMAIN jobs'
  BY DEF Moved
<1>7. /\ args' \in [Requests -> Args] /\ solving' \subseteq Requests
      /\ handler' \in [Requests -> {"new", "polling", "enqueued", "created", "refused", "gone"}]
  BY DEF IInv, Types, TypeOK
<1> QED BY <1>1, <1>5, <1>6, <1>7, Requested

LEMMA ReportKeeps ==
    ASSUME IInv, NEW r \in Requests, ReportOSBuild(r)
    PROVE  IInv'
<1>1. /\ r \in alive /\ step[r] = "returned" /\ alive' = alive \ {r}
      /\ UNCHANGED <<args, handler, solving, expired, step, result, cloud, upload, trouble>>
  BY DEF ReportOSBuild, At
<1>2. osbuild(r) \in DOMAIN jobs /\ osbuild(r) \in Jobs /\ QueueInv(r) /\ result[r] \in OSBuildResult
  BY <1>1 DEF IInv, Types, TypeOK, QueueInv, OSBuildIsReported, Unstarted, osbuild, Jobs
<1>3. /\ WorkerTypes' /\ cloud' \in CloudType /\ ImagesAreNamed'
      /\ \A q \in Requests : WorkerInv(q)' /\ CloudInv(q)'
  <2>1. trouble' \subseteq Requests /\ \A q \in Requests : SameArgs(q)
    BY <1>1, ArgsSame DEF IInv, Types, TypeOK
  <2> QED BY <1>1, <2>1, WorkersKeep
<1>4. CASE Queue!FinishJob(osbuild(r), result[r])
  <2>1. /\ jobs[osbuild(r)].status = "running"
        /\ Moved(osbuild(r)) /\ jobs'[osbuild(r)].status = "finished" /\ jobs'[osbuild(r)].Result = result[r]
    BY <1>2, <1>4, Finishes
  <2>2. osbuild(r) \notin expired
    BY <2>1 DEF IInv, Types, TypeOK
  <2>3. OSBuildIsReported(r)'
    BY <1>1, <1>2, <2>1, <2>2 DEF QueueInv, OSBuildIsReported, Unstarted, osbuild, Moved
  <2> QED BY <1>1, <1>2, <1>3, <2>1, <2>2, <2>3, OSBuildMoves
<1>5. CASE UNCHANGED jobs
  <2>1. OSBuildIsReported(r)'
    BY <1>1, <1>2, <1>5 DEF QueueInv, OSBuildIsReported, Unstarted, Finished, osbuild
  <2> QED BY <1>1, <1>2, <1>3, <1>5, <2>1, OSBuildMoves
<1> QED BY <1>4, <1>5 DEF ReportOSBuild, Update

LEMMA WorkerDiesKeeps ==
    ASSUME IInv, NEW r \in Requests, WorkerDies(r)
    PROVE  IInv'
<1>1. CASE solving' = solving \ {r} /\ UNCHANGED workerVars
  <2>1. handler' \in [Requests -> Handlers] /\ solving' \subseteq Requests
    BY <1>1 DEF IInv, Types, TypeOK, WorkerDies, Handlers
  <2> QED BY <1>1, <2>1, OnlyReplies DEF WorkerDies
<1>2. CASE /\ r \in alive
           /\ alive' = alive \ {r}
           /\ upload' = [upload EXCEPT ![r].sending = {}]
           /\ Troubled(r)
           /\ UNCHANGED <<solving, step, result, cloud>>
  BY <1>2, Dying DEF WorkerDies, queueVars
<1> QED BY <1>1, <1>2 DEF WorkerDies

LEMMA StartOSBuildKeeps ==
    ASSUME IInv, NEW r \in Requests, StartOSBuild(r)
    PROVE  IInv'
<1>1. /\ Goes(r, "RunOSBuild") /\ alive' = alive \cup {r} /\ Types
      /\ UNCHANGED <<args, handler, solving, expired, cloud, upload, trouble>>
  BY DEF StartOSBuild, IInv
<1>2. /\ osbuild(r) \in DOMAIN jobs /\ jobs[osbuild(r)].status = "queued"
      /\ Moved(osbuild(r)) /\ jobs'[osbuild(r)].status = "running"
  BY Dequeues DEF StartOSBuild, Jobs, osbuild
<1>3. /\ QueueInv(r) /\ WorkerInv(r) /\ CloudInv(r)
      /\ step[r] = "idle" /\ result[r] = NewResult /\ osbuild(r) \notin expired
  <2>1. QueueInv(r) /\ WorkerInv(r) /\ CloudInv(r) /\ osbuild(r) \notin expired
    BY <1>2 DEF IInv, Types, TypeOK
  <2>2. step[r] = "idle"
    BY <1>2, <2>1 DEF QueueInv, OSBuildIsReported, Unstarted
  <2> QED BY <2>1, <2>2 DEF WorkerInv, ResultIsOfStep
<1>4. /\ step' \in [Requests -> Steps] /\ step'[r] = "RunOSBuild"
      /\ \A q \in Requests \ {r} : step'[q] = step[q]
  BY <1>1, GoesTo
<1>5. result' = result
  BY <1>1, <1>3 DEF StartOSBuild, Types, TypeOK
<1>6. WorkerTypes' /\ cloud' \in CloudType
  BY <1>1, <1>4, <1>5 DEF WorkerTypes, Types, TypeOK
<1>7. ImagesAreNamed' /\ Local(r, cloud')
  BY <1>1, LocalSame DEF IInv, ImagesAreNamed
<1>8. WorkerInv(r)'
  BY <1>1, <1>3, <1>4, <1>5 DEF WorkerInv, StepIsOfTarget, OfTarget, ResultIsOfStep, NewResult
<1>9. CloudInv(r)'
  <2>1. Rivals(r)' = Rivals(r) /\ Blob(r)' = Blob(r) /\ ~NewResult.Success
    BY <1>1 DEF Rivals, Blob, NewResult
  <2>2. LeftIsInUse(r)' /\ ImageIsMade(r)'
    BY <1>1, <1>3, <1>4, <1>5, <2>1 DEF CloudInv, LeftIsInUse, ImageIsMade, ImageOf
  <2>3. BlobIsOwn(r)' /\ PagesAreSent(r)'
    BY <1>1, <1>3, <1>4, <1>5, <2>1 DEF CloudInv, BlobIsOwn, HasBlob, PagesAreSent, At
  <2> QED BY <2>2, <2>3 DEF CloudInv
<1>10. ASSUME NEW q \in Requests, q # r PROVE WorkerInv(q)' /\ CloudInv(q)'
  <2>1. /\ step'[q] = step[q] /\ result'[q] = result[q] /\ (q \in alive' <=> q \in alive)
        /\ WorkerInv(q) /\ CloudInv(q)
    BY <1>1, <1>4, <1>5, <1>10 DEF IInv
  <2>2. WorkerInv(q)'
    BY <1>1, <2>1 DEF WorkerInv, StepIsOfTarget, ResultIsOfStep
  <2>3. CloudInv(q)'
    BY <1>1, <2>1 DEF CloudInv, LeftIsInUse, ImageIsMade, ImageOf, BlobIsOwn, HasBlob, PagesAreSent,
                      Rivals, Blob, At
  <2> QED BY <2>2, <2>3
<1>11. OSBuildIsReported(r)'
  BY <1>1, <1>2, <1>3, <1>4 DEF QueueInv, OSBuildIsReported, Unstarted, Finished, osbuild, Moved
<1> QED BY <1>1, <1>2, <1>3, <1>4, <1>5, <1>6, <1>7, <1>8, <1>9, <1>10, <1>11, OSBuildMoves

LEMMA ExpireKeeps ==
    ASSUME IInv, NEW j \in Jobs, Expire(j)
    PROVE  IInv'
<1>1. PICK r \in Requests : j = depsolve(r) \/ j = osbuild(r)
  BY DEF Jobs, depsolve, osbuild
<1>2. /\ Queue!FinishJob(j, Null(j)) /\ expired' = expired \cup {j} /\ trouble' = trouble \cup {r}
      /\ UNCHANGED <<args, handler, solving, alive, step, result, cloud, upload>>
  BY <1>1 DEF Expire, depsolve, osbuild
<1>3. CASE j = depsolve(r)
  <2>1. Null(j) \in DepsolveResult
    BY <1>3 DEF Null, depsolve, DepsolveResult
  <2>2. /\ jobs[j].status = "running"
        /\ Moved(j) /\ jobs'[j].status = "finished" /\ jobs'[j].Result = Null(j)
    BY <1>2, <2>1, Finishes
  <2>3. DepsolveIsReported(r)' /\ ~Finished(j)
    BY <1>2, <1>3, <2>1, <2>2 DEF DepsolveIsReported, Finished, depsolve
  <2>4. handler' \in [Requests -> Handlers] /\ solving' \subseteq Requests
    BY <1>2 DEF IInv, Types, TypeOK, Handlers
  <2> QED BY <1>2, <1>3, <2>2, <2>3, <2>4, DepsolveMoves
<1>4. CASE j = osbuild(r)
  <2>1. Null(j) \in OSBuildResult
    BY <1>4 DEF Null, osbuild, OSBuildResult, NewResult
  <2>2. /\ j \in DOMAIN jobs /\ jobs[j].status = "running"
        /\ Moved(j) /\ jobs'[j].status = "finished" /\ jobs'[j].Result = Null(j)
    BY <1>2, <2>1, Finishes
  <2>3. j \notin expired
    BY <2>2 DEF IInv, Types, TypeOK
  <2>4. /\ WorkerTypes' /\ cloud' \in CloudType /\ ImagesAreNamed'
        /\ \A q \in Requests : WorkerInv(q)' /\ CloudInv(q)'
    <3>1. trouble' \subseteq Requests /\ \A q \in Requests : SameArgs(q)
      BY <1>2, ArgsSame DEF IInv, Types, TypeOK
    <3> QED BY <1>2, <3>1, WorkersKeep
  <2>5. OSBuildIsReported(r)'
    <3>1. OSBuildIsReported(r)
      BY DEF IInv, QueueInv
    <3> QED BY <1>2, <1>4, <2>2, <3>1 DEF OSBuildIsReported, Unstarted, Finished, osbuild, Moved
  <2> QED BY <1>2, <1>4, <2>2, <2>3, <2>4, <2>5, OSBuildMoves
<1> QED BY <1>1, <1>3, <1>4

-----------------------------------------------------------------------------
LEMMA Initially == Init => IInv
<1> SUFFICES ASSUME Init PROVE IInv
  OBVIOUS
<1>1. /\ args \in [Requests -> Args] /\ DOMAIN jobs = {} /\ expired = {} /\ alive = {}
      /\ step = [r \in Requests |-> "idle"] /\ result = [r \in Requests |-> NewResult]
      /\ cloud = EmptyCloud /\ upload = [r \in Requests |-> NewUpload]
  BY AsksAssumption DEF Init
<1>2. cloud \in CloudType
  BY <1>1, BlobValues DEF EmptyCloud, CloudType, BlobType, NoBlob
<1>3. /\ cloud.objects = {} /\ cloud.leftovers = {} /\ cloud.images = {} /\ cloud.accounts = {}
      /\ cloud.builds = [r \in Requests |-> "none"] /\ cloud.account = [r \in Requests |-> Nil]
  BY <1>1 DEF EmptyCloud
<1>4. NewResult \in OSBuildResult /\ ~NewResult.Success /\ ~NewResult.TargetErrors
  BY DEF NewResult, OSBuildResult
<1>5. Types
  <2>1. \A r \in Requests : /\ upload[r] \in UploadType
                            /\ upload[r].sending \subseteq 1 .. upload[r].next - 1
                            /\ upload[r].next \in 1 .. Pages + 1
                            /\ Cardinality(upload[r].sending) <= threads
    <3>1. Cardinality({}) <= threads /\ 1 \in 1 .. Pages + 1 /\ 1 \in Nat
      BY UploadAssumption, FS_EmptySet
    <3>2. /\ NewUpload \in UploadType /\ NewUpload.sending = {} /\ NewUpload.next = 1
      BY DEF NewUpload, UploadType
    <3> QED BY <1>1, <3>1, <3>2
  <2> QED BY <1>1, <1>2, <1>4, <2>1 DEF Init, Types, TypeOK
<1>6. NothingCanceled /\ ImagesAreNamed
  BY <1>1, <1>3 DEF NothingCanceled, ImagesAreNamed
<1>7. ASSUME NEW r \in Requests PROVE QueueInv(r) /\ WorkerInv(r) /\ CloudInv(r)
  <2>1. QueueInv(r)
    BY <1>1 DEF QueueInv, DepsolveIsReported, OSBuildIsReported, BuildOf, Finished, Unstarted
  <2>2. WorkerInv(r)
    BY <1>1, <1>4 DEF WorkerInv, StepIsOfTarget, OfTarget, ResultIsOfStep
  <2>3. LeftIsInUse(r) /\ ImageIsMade(r)
    BY <1>1, <1>3, <1>4 DEF LeftIsInUse, ImageIsMade
  <2>4. BlobIsOwn(r) /\ PagesAreSent(r)
    BY <1>1, <1>3, <1>4 DEF BlobIsOwn, HasBlob, PagesAreSent, At, NewUpload
  <2> QED BY <2>1, <2>2, <2>3, <2>4 DEF CloudInv
<1> QED BY <1>5, <1>6, <1>7 DEF IInv

LEMMA WorkKeeps == ASSUME IInv, NEW r \in Requests, Work(r) PROVE IInv'
<1>1. Run(r) /\ UNCHANGED queueVars
  BY DEF Work
<1>2. CASE RunOSBuild(r) \/ UploadArtifact(r) \/ NoTarget(r) \/ vmwareUploadImage(r)
  BY <1>1, <1>2, RunOSBuildKeeps, UploadArtifactKeeps, NoTargetKeeps, VmwareKeeps
<1>3. CASE aws(r)
  BY <1>1, <1>3, UploadKeeps, PresignedKeeps, ImportSnapshotKeeps, WaitKeeps, DeleteObjectKeeps,
     DescribeKeeps, RegisterImageKeeps, ModifyImageKeeps DEF aws
<1>4. CASE gcp(r)
  BY <1>1, <1>4, ObjectUploadKeeps, PickZoneKeeps, CreateBuildKeeps, GetBuildKeeps, CleanupKeeps,
     ObjectDeleteKeeps, ImageShareKeeps DEF gcp
<1>5. CASE azure(r)
  BY <1>1, <1>5, GetResourceKeeps, CreateAccountKeeps, CreateContainerKeeps, CreateBlobKeeps,
     ReadPageKeeps, CheckBlobKeeps, AzureRegisterKeeps DEF azure
<1> QED BY <1>1, <1>2, <1>3, <1>4, <1>5 DEF Run

LEMMA Step == ASSUME IInv, [Next]_vars PROVE IInv'
<1>1. ASSUME NEW r \in Requests, Handle(r) \/ Refuse(r) PROVE IInv'
  BY <1>1, HandleKeeps, EnqueueDepsolveKeeps DEF Handle
<1>2. ASSUME NEW r \in Requests, Wait(r) PROVE IInv'
  BY <1>2, SnapshotImportedKeeps, BuildEndsKeeps, UploadPageKeeps DEF Wait, Clouds
<1>3. ASSUME NEW r \in Requests,
             StartDepsolve(r) \/ Depsolve(r) \/ StartOSBuild(r) \/ ReportOSBuild(r) \/ WorkerDies(r)
      PROVE  IInv'
  BY <1>3, StartDepsolveKeeps, DepsolveKeeps, StartOSBuildKeeps, ReportKeeps, WorkerDiesKeeps
<1>4. CASE UNCHANGED vars
  <2>1. handler' \in [Requests -> Handlers] /\ solving' \subseteq Requests
    BY <1>4 DEF IInv, Types, TypeOK, Handlers, vars, queueVars
  <2> QED BY <1>4, <2>1, OnlyReplies DEF vars, queueVars
<1> QED BY <1>1, <1>2, <1>3, <1>4, WorkKeeps, ExpireKeeps, CrashKeeps DEF Next

-----------------------------------------------------------------------------
(***************************************************************************)
(* What is reported of a job is what its worker left in the clouds, step   *)
(* by step of every target: the inductive invariant holds in every state,  *)
(* whichever calls fail, workers die or jobs are given up on.              *)
(***************************************************************************)
THEOREM Invariant == Spec => []IInv
<1>1. Init => IInv
  BY Initially
<1>2. IInv /\ [Next]_vars => IInv'
  BY Step
<1> QED BY <1>1, <1>2, PTL DEF Spec

(***************************************************************************)
(* PostCompose of v2 enqueues an osbuild job only with the packages of its *)
(* own depsolve job, or with none after composer gave up on that one.      *)
(***************************************************************************)
THEOREM OfDepsolve == Spec => []BuildIsOfDepsolve
<1>1. IInv => BuildIsOfDepsolve
  BY DEF IInv, QueueInv, BuildOf, BuildIsOfDepsolve
<1> QED BY <1>1, Invariant, PTL

\* The result of a job that composer has not given up on is that of its worker.
LEMMA Reported ==
    ASSUME IInv, NEW r \in Requests, Finished(osbuild(r)), JobStatus(r).Success \/ r \notin trouble
    PROVE  /\ jobs[osbuild(r)].Result = result[r] /\ step[r] = "returned"
           /\ result[r] \in OSBuildResult /\ osbuild(r) \notin expired
<1>1. OSBuildIsReported(r) /\ result[r] \in OSBuildResult
  BY DEF IInv, QueueInv, Types, TypeOK
<1>2. osbuild(r) \notin expired
  <2>1. SUFFICES ASSUME osbuild(r) \in expired PROVE FALSE
    OBVIOUS
  <2>2. jobs[osbuild(r)].Result = Null(osbuild(r)) /\ JobStatus(r).Success
    BY <1>1, <2>1 DEF OSBuildIsReported
  <2> QED BY <2>2 DEF JobStatus, Null, osbuild, NewResult
<1> QED BY <1>1, <1>2 DEF OSBuildIsReported

LEMMA StatusOf ==
    ASSUME IInv, NEW r \in Requests
    PROVE  composeStatusFromJobStatus(r) = "success" <=> Finished(osbuild(r)) /\ JobStatus(r).Success
<1>1. osbuild(r) \in DOMAIN jobs => jobs[osbuild(r)].status \in {"queued", "running", "finished"}
  BY DEF IInv, Types, TypeOK, NothingCanceled, Queue!Job
<1> QED BY <1>1 DEF composeStatusFromJobStatus, Finished

LEMMA StatusFields ==
    ASSUME IInv, NEW r \in Requests, jobs[osbuild(r)].Result = result[r]
    PROVE  /\ JobStatus(r).Success <=> result[r].Success \/ (result[r].Output = "good" /\ ~result[r].TargetErrors)
           /\ JobStatus(r).Output = result[r].Output
           /\ JobStatus(r).TargetResult = result[r].TargetResult
<1>1. result[r] \in OSBuildResult
  BY DEF IInv, Types, TypeOK
<1> QED BY <1>1 DEF JobStatus, OSBuildResult

\* A compose that the cloud APIs report as a success.
LEMMA Successful ==
    ASSUME IInv, NEW r \in Requests, Succeeded(r)
    PROVE  /\ Finished(osbuild(r)) /\ jobs[osbuild(r)].Result = result[r]
           /\ result[r].Success /\ result[r].TargetResult /\ ~result[r].TargetErrors
           /\ args[r].target \in CloudTargets
<1>1. args[r].api # "weldr" /\ composeStatusFromJobStatus(r) = "success"
  BY DEF Succeeded, Answer, ComposeStatus, GetComposeStatus
<1>2. Finished(osbuild(r)) /\ JobStatus(r).Success
  BY <1>1, StatusOf
<1>3. jobs[osbuild(r)].Result = result[r] /\ step[r] = "returned"
  BY <1>2, Reported
<1>4. result[r].Success
  BY <1>1, <1>2, <1>3, StatusFields DEF IInv, WorkerInv, ResultIsOfStep
<1>5. args[r].target \in CloudTargets
  BY <1>1, <1>2 DEF IInv, QueueInv, OSBuildIsReported, Finished
<1> QED BY <1>2, <1>3, <1>4, <1>5 DEF IInv, WorkerInv, ResultIsOfStep

(***************************************************************************)
(* What awsupload and gcp put into the cloud only to import it is deleted  *)
(* before the job of an AMI succeeds, and before that of an import into    *)
(* Compute Engine ends, as long as no call failed and no worker was lost.  *)
(***************************************************************************)
THEOREM LeftBehind == Spec => []NothingLeftBehind
<1>1. ASSUME IInv, NEW r \in Requests, Finished(osbuild(r)), r \notin trouble
      PROVE  /\ args[r].target = "gcp" => r \notin cloud.objects \cup cloud.leftovers
             /\ args[r].target = "aws" /\ Succeeded(r) => r \notin cloud.objects
  <2>1. step[r] = "returned"
    BY <1>1, Reported
  <2>2. Succeeded(r) => ~result[r].TargetErrors
    BY <1>1, Successful
  <2> QED BY <1>1, <2>1, <2>2 DEF IInv, CloudInv, LeftIsInUse
<1>2. IInv => NothingLeftBehind
  BY <1>1 DEF NothingLeftBehind
<1> QED BY <1>2, Invariant, PTL

LEMMA ImpliesUsable == IInv => SuccessIsUsable
<1> SUFFICES ASSUME IInv, NEW r \in Requests, Succeeded(r), Rivals(r) = {}
             PROVE  Usable(r) /\ Answer(r).UploadStatus = "success"
  BY DEF SuccessIsUsable
<1>1. /\ Finished(osbuild(r)) /\ jobs[osbuild(r)].Result = result[r]
      /\ result[r].Success /\ result[r].TargetResult /\ args[r].target \in CloudTargets
  BY Successful
<1>2. Answer(r).UploadStatus = "success"
  BY <1>1, StatusFields DEF Answer, ComposeStatus, GetComposeStatus
<1>3. ImageIsMade(r) /\ PagesAreSent(r)
  BY DEF IInv, CloudInv
<1>4. Usable(r)
  BY <1>1, <1>3 DEF Usable, CloudTargets, ImageIsMade, ImageOf, PagesAreSent
<1> QED BY <1>2, <1>4

LEMMA ImpliesShared == IInv => SharedAsListed
<1> SUFFICES ASSUME IInv, NEW r \in Requests, Succeeded(r), args[r].target \in {"aws", "gcp"}
             PROVE  \E i \in cloud.images :
                        /\ i.of = r
                        /\ i.users \subseteq Members(args[r].share)
                        /\ Members(args[r].share) # {} => i.users # {}
                        /\ ~OneOfSeveral(r) => i.users = Members(args[r].share)
  BY DEF SharedAsListed
<1>1. result[r].Success /\ ImageIsMade(r)
  BY Successful DEF IInv, CloudInv
<1>2. /\ args[r].target = "aws" => ImageOf(r, "aws", launchPerms(args[r].share))
      /\ args[r].target = "gcp" => ImageOf(r, "gcp", Members(args[r].share))
  BY <1>1 DEF ImageIsMade
<1>3. /\ launchPerms(args[r].share) \subseteq Members(args[r].share)
      /\ Members(args[r].share) # {} => launchPerms(args[r].share) # {}
      /\ Len(args[r].share) > 1 \/ launchPerms(args[r].share) = Members(args[r].share)
  BY SharedWith
<1> HIDE DEF Members, launchPerms
<1> QED BY <1>2, <1>3 DEF ImageOf, OneOfSeveral

LEMMA ImpliesMetadata == IInv => MetadataOfSuccess
<1> SUFFICES ASSUME IInv, NEW r \in Requests
             PROVE  IF composeStatusFromJobStatus(r) = "success"
                    THEN GetComposeMetadata(r) = "packages" /\ ComposeMetadataV1(r) = "packages"
                    ELSE GetComposeMetadata(r) = "empty"
  BY DEF MetadataOfSuccess
<1>1. CASE composeStatusFromJobStatus(r) = "success"
  <2>1. Finished(osbuild(r)) /\ JobStatus(r).Success
    BY <1>1, StatusOf
  <2>2. jobs[osbuild(r)].Result = result[r]
    BY <2>1, Reported
  <2>3. JobStatus(r).Output = "good"
    BY <2>1, <2>2, StatusFields DEF IInv, WorkerInv, ResultIsOfStep
  <2> QED BY <1>1, <2>1, <2>3 DEF GetComposeMetadata, ComposeMetadataV1
<1>2. CASE composeStatusFromJobStatus(r) # "success"
  BY <1>2, StatusOf DEF GetComposeMetadata
<1> QED BY <1>1, <1>2

(***************************************************************************)
(* A compose that GetComposeStatus or ComposeStatus shows as a success has *)
(* a complete image or object of its own in its cloud, shared with exactly *)
(* the accounts of the request (an AMI for several: with one of them), and *)
(* its metadata; for any number of requests, names, pages and threads, and *)
(* any faults.                                                             *)
(***************************************************************************)
THEOREM Delivery == Spec => []SuccessIsDelivered
<1>1. IInv => SuccessIsDelivered
  BY ImpliesUsable, ImpliesShared, ImpliesMetadata DEF SuccessIsDelivered, IInv, Types
<1> QED BY <1>1, Invariant, PTL

(***************************************************************************)
(* The handlers of both APIs, the workers and WatchHeartbeats use the      *)
(* queue as JobQueue says they may, although two kinds of jobs with        *)
(* results of their own share it: cloud composes are a behaviour of        *)
(* JobQueue, so they may run on either implementation.                     *)
(***************************************************************************)
THEOREM UsesJobQueue == Spec => Queue!Spec
<1>1. Init => Queue!Init
  <2> SUFFICES ASSUME Init PROVE Queue!Init
    OBVIOUS
  <2>1. jobs \in [{} -> {j \in Queue!Job : j.status = "running"}]
    BY DEF Init
  <2> QED BY <2>1 DEF Queue!Init
<1>2. IInv /\ [Next]_vars => [Queue!Next]_jobs
  <2> SUFFICES ASSUME IInv, [Next]_vars PROVE Queue!Next \/ jobs' = jobs
    OBVIOUS
  <2>1. ASSUME NEW r \in Requests, NEW packages, EnqueueOSBuild(r, packages) PROVE Queue!Next
    <3>1. osbuild(r) \in Jobs
      BY DEF osbuild, Jobs
    <3> QED BY <2>1, <3>1 DEF EnqueueOSBuild, Queue!Next
  <2>2. ASSUME NEW r \in Requests, Handle(r) \/ Refuse(r) PROVE Queue!Next \/ jobs' = jobs
    <3>1. ASSUME EnqueueDepsolve(r) PROVE Queue!Next
      <4>1. depsolve(r) \in Jobs
        BY DEF depsolve, Jobs
      <4> QED BY <3>1, <4>1 DEF EnqueueDepsolve, Queue!Next
    <3>2. ASSUME composeV1(r) \/ composeWeldr(r) \/ PostCompose(r) \/ Reply(r) \/ Refuse(r)
          PROVE  Queue!Next \/ jobs' = jobs
      BY <3>2, <2>1 DEF composeV1, composeWeldr, PostCompose, Reply, Refuse
    <3> QED BY <2>2, <3>1, <3>2 DEF Handle
  <2>3. ASSUME NEW r \in Requests, StartDepsolve(r) \/ StartOSBuild(r) PROVE Queue!Next
    <3>1. depsolve(r) \in Jobs /\ osbuild(r) \in Jobs
      BY DEF depsolve, osbuild, Jobs
    <3> QED BY <2>3, <3>1 DEF StartDepsolve, StartOSBuild, Queue!Next
  <2>4. ASSUME NEW j \in Jobs, NEW res \in DepsolveResult \cup OSBuildResult, Update(j, res)
        PROVE  Queue!Next \/ jobs' = jobs
    BY <2>4 DEF Update, Queue!Next
  <2>5. ASSUME NEW r \in Requests, Depsolve(r) PROVE Queue!Next \/ jobs' = jobs
    <3>1. depsolve(r) \in Jobs
      BY DEF depsolve, Jobs
    <3>2. PICK error \in BOOLEAN : Update(depsolve(r), [Error |-> error, PackageSpecs |-> ~error])
      BY <2>5 DEF Depsolve
    <3>3. [Error |-> error, PackageSpecs |-> ~error] \in DepsolveResult
      BY DEF DepsolveResult
    <3> QED BY <2>4, <3>1, <3>2, <3>3
  <2>6. ASSUME NEW r \in Requests, ReportOSBuild(r) PROVE Queue!Next \/ jobs' = jobs
    <3>1. osbuild(r) \in Jobs /\ result[r] \in OSBuildResult
      BY DEF osbuild, Jobs, IInv, Types, TypeOK
    <3> QED BY <2>4, <2>6, <3>1 DEF ReportOSBuild
  <2>7. ASSUME NEW j \in Jobs, Expire(j) PROVE Queue!Next
    <3>1. Null(j) \in DepsolveResult \cup OSBuildResult
      BY DEF Null, DepsolveResult, OSBuildResult, NewResult
    <3> QED BY <2>7, <3>1 DEF Expire, Queue!Next
  <2>8. ASSUME NEW r \in Requests, Work(r) \/ Wait(r) \/ WorkerDies(r) PROVE jobs' = jobs
    BY <2>8 DEF Work, Wait, WorkerDies, queueVars
  <2>9. ASSUME Crash PROVE jobs' = jobs
    BY <2>9 DEF Crash
  <2> QED BY <2>2, <2>3, <2>5, <2>6, <2>7, <2>8, <2>9 DEF Next, vars, queueVars
<1> QED BY <1>1, <1>2, Invariant, PTL DEF Spec, Queue!Spec
=============================================================================

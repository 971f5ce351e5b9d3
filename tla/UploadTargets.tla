--------------------------- MODULE UploadTargets ----------------------------
(***************************************************************************)
(* The osbuild job of a worker (cmd/osbuild-worker/jobimpl-osbuild.go) and *)
(* the clients it hands an image to: internal/upload/awsupload, azure and  *)
(* vmware, and internal/cloud/gcp.                                         *)
(*                                                                         *)
(* A target is a row of calls of a cloud, each of which may fail, with or  *)
(* without having taken effect.  The step of a job is the call it makes    *)
(* next; most errors end the job with an entry in TargetErrors, and what   *)
(* the calls before it left in the cloud stays there.                      *)
(***************************************************************************)
EXTENDS Naturals, Sequences, FiniteSets

CONSTANTS
    Requests,      \* the jobs
    Names,         \* image names, as users give them
    Accounts,      \* accounts an image may be shared with
    Pages,         \* pages of an image (page blobs)
    threads,       \* pages that are uploaded at the same time
    Nil,
    Mortal,        \* jobs whose worker may die and whose calls may fail
    Faults         \* what may go wrong: a subset of FaultKinds

(***************************************************************************)
(* "cloud": a call fails, with or without effect; "lost": a live worker is *)
(* taken for dead; "crash": composer stops and comes back.                 *)
(***************************************************************************)
FaultKinds == {"cloud", "lost", "crash"}

ASSUME UploadAssumption ==
    /\ Pages \in Nat \ {0}
    /\ threads \in Nat \ {0}
    /\ Nil \notin Requests \cup Accounts
    /\ Mortal \subseteq Requests
    /\ Faults \subseteq FaultKinds

VARIABLES
    args,          \* what a job is to build, and for which target
    alive,         \* jobs that a worker is at work on
    step,          \* job -> the call it makes next
    result,        \* job -> its OSBuildJobResult so far
    cloud,         \* what is in the clouds
    upload,        \* job -> where UploadPageBlob is
    trouble        \* history: jobs a call or a worker of which has failed

workerVars == <<alive, step, result, cloud, upload, trouble>>

(***************************************************************************)
(* ImageName is set by the Weldr API only, whose images are uploaded to    *)
(* composer as well.  A manifest may have been made without any packages.  *)
(***************************************************************************)
Targets == {"none", "aws", "aws.s3", "gcp", "azure.image", "azure", "vmware"}

Args == [api : {"v1", "v2", "weldr"}, images : {1, 2}, packages : BOOLEAN, target : Targets,
         name : Names, share : {<<>>} \cup UNION {[1 .. n -> Accounts] : n \in 1 .. 2}]

(***************************************************************************)
(* OSBuildJobResult.  Output is OSBuildOutput and its Success.             *)
(***************************************************************************)
OSBuildResult == [Success : BOOLEAN, Output : {"none", "bad", "good"},
                  TargetErrors : BOOLEAN, TargetResult : BOOLEAN]

NewResult == [Success |-> FALSE, Output |-> "bad", TargetErrors |-> FALSE, TargetResult |-> FALSE]

-----------------------------------------------------------------------------
(***************************************************************************)
(* The clouds, as far as the clients can tell.  A page blob has the MD5    *)
(* its uploader set and pages that are each of some job.  AMIs and images  *)
(* of Compute Engine have unique names; Azure replaces an image.           *)
(***************************************************************************)
NoBlob == [md5 |-> Nil, pages |-> [p \in 1 .. Pages |-> Nil]]

EmptyCloud == [objects   |-> {},
               snapshots |-> [r \in Requests |-> "none"],
               builds    |-> [r \in Requests |-> "none"],
               leftovers |-> {},
               images    |-> {},
               accounts  |-> {},
               account   |-> [r \in Requests |-> Nil],
               blobs     |-> [b \in Requests \X Names |-> NoBlob]]

Image(c, n, r, users) == [cloud |-> c, name |-> n, of |-> r, users |-> users]

Named(c, n) == {i \in cloud.images : i.cloud = c /\ i.name = n}

Put(field, value) == [cloud EXCEPT ![field] = value]

-----------------------------------------------------------------------------
At(r, s) == r \in alive /\ step[r] = s

Goes(r, s) == step' = [step EXCEPT ![r] = s]

Return(r) == Goes(r, "returned")

appendTargetError(r) ==
    /\ result' = [result EXCEPT ![r].TargetErrors = TRUE]
    /\ Return(r)

\* The image is where the target wanted it: Success, and what GetComposeStatus shows.
Uploaded(r, shows) ==
    /\ result' = [result EXCEPT ![r].Success = TRUE, ![r].TargetResult = shows]
    /\ Return(r)

Troubled(r) == trouble' = trouble \cup {r}

Fails(r) == "cloud" \in Faults /\ r \in Mortal /\ Troubled(r)

(***************************************************************************)
(* A call that leaves the clouds as new; after it the job makes the call   *)
(* next.  The client gives up when it fails.                               *)
(***************************************************************************)
Call(r, s, new, next) ==
    /\ At(r, s)
    /\ \/ cloud' = new /\ Goes(r, next) /\ UNCHANGED <<result, trouble>>
       \/ Fails(r) /\ cloud' \in {cloud, new} /\ appendTargetError(r)
    /\ UNCHANGED <<args, alive, upload>>

\* A call that the cloud refuses.
Refused(r, s) ==
    /\ At(r, s)
    /\ appendTargetError(r)
    /\ UNCHANGED <<args, alive, cloud, upload, trouble>>

\* The last call of a target.
Last(r, s, new, shows) ==
    /\ At(r, s)
    /\ \/ cloud' = new /\ Uploaded(r, shows) /\ UNCHANGED trouble
       \/ Fails(r) /\ cloud' \in {cloud, new} /\ appendTargetError(r)
    /\ UNCHANGED <<args, alive, upload>>

-----------------------------------------------------------------------------
(***************************************************************************)
(* OSBuildJobImpl.Run up to the upload: RunOSBuild fails (no OSBuildOutput *)
(* at all), the build fails, or there is an image.  osbuild (external)     *)
(* makes none without packages.                                            *)
(***************************************************************************)
FirstCall(t) ==
    CASE t = "none" -> "none"
      [] t \in {"aws", "aws.s3"} -> "Upload"
      [] t = "gcp" -> "StorageObjectUpload"
      [] t = "azure.image" -> "GetResourceNameByTag"
      [] t = "azure" -> "CreateBlob"
      [] t = "vmware" -> "UploadImage"

RunOSBuild(r) ==
    /\ At(r, "RunOSBuild")
    /\ \E output \in {"none", "bad", "good"} :
          /\ output = "good" => args[r].packages
          /\ result' = [result EXCEPT ![r].Output = output]
          /\ Goes(r, IF output # "good" THEN "returned"
                     ELSE IF args[r].api = "weldr" THEN "UploadArtifact"
                     ELSE FirstCall(args[r].target))
    /\ UNCHANGED <<args, alive, cloud, upload, trouble>>

\* The conversion to a stream optimized vmdk included; its errors are returned as they are.
UploadArtifact(r) ==
    /\ At(r, "UploadArtifact")
    /\ \/ Goes(r, FirstCall(args[r].target)) /\ UNCHANGED trouble
       \/ Fails(r) /\ Return(r)
    /\ UNCHANGED <<args, alive, result, cloud, upload>>

NoTarget(r) ==
    /\ At(r, "none")
    /\ Uploaded(r, FALSE)
    /\ UNCHANGED <<args, alive, cloud, upload, trouble>>

\* govc's import.vmdk; an existing image of the name makes it fail.
vmwareUploadImage(r) ==
    IF Named("vmware", args[r].name) # {} THEN Refused(r, "UploadImage")
    ELSE Last(r, "UploadImage",
              Put("images", cloud.images \cup {Image("vmware", args[r].name, r, {})}), FALSE)

-----------------------------------------------------------------------------
(***************************************************************************)
(* awsupload.  S3 keys are made from uuids, so an object belongs to a job. *)
(***************************************************************************)
Upload(r) ==
    Call(r, "Upload", Put("objects", cloud.objects \cup {r}),
         IF args[r].target = "aws" THEN "ImportSnapshot" ELSE "S3ObjectPresignedURL")

S3ObjectPresignedURL(r) == Last(r, "S3ObjectPresignedURL", cloud, TRUE)

ImportSnapshot(r) ==
    Call(r, "ImportSnapshot", [cloud EXCEPT !.snapshots[r] = "importing"], "WaitUntilImported")

\* EC2 (external): an import ends one way or the other.
SnapshotImported(r) ==
    /\ cloud.snapshots[r] = "importing"
    /\ cloud' \in {[cloud EXCEPT !.snapshots[r] = IF r \in cloud.objects THEN "completed" ELSE "deleted"],
                   [cloud EXCEPT !.snapshots[r] = "deleted"]}
    /\ UNCHANGED <<args, alive, step, result, upload, trouble>>

WaitUntilImportSnapshotTaskCompleted(r) ==
    \/ cloud.snapshots[r] = "completed" /\ Call(r, "WaitUntilImported", cloud, "DeleteObject")
    \/ cloud.snapshots[r] = "deleted" /\ Refused(r, "WaitUntilImported")

DeleteObject(r) ==
    Call(r, "DeleteObject", Put("objects", cloud.objects \ {r}), "DescribeImportSnapshotTasks")

DescribeImportSnapshotTasks(r) == Call(r, "DescribeImportSnapshotTasks", cloud, "ModifySnapshotAttribute")

\* Sharing and tagging the snapshot.
ModifySnapshotAttribute(r) == Call(r, "ModifySnapshotAttribute", cloud, "RegisterImage")

RegisterImage(r) ==
    IF Named("aws", args[r].name) # {} THEN Refused(r, "RegisterImage")
    ELSE Call(r, "RegisterImage", Put("images", cloud.images \cup {Image("aws", args[r].name, r, {})}),
              "ModifyImageAttribute")

(***************************************************************************)
(* The accounts of the request: launchPerms takes the address of the loop  *)
(* variable, which is one variable for the whole loop, so every entry is   *)
(* the account the loop ended with.                                        *)
(***************************************************************************)
launchPerms(share) == IF share = <<>> THEN {} ELSE {share[Len(share)]}

\* Tagging the image comes first, and shares the fate of the call.
ModifyImageAttribute(r) ==
    Last(r, "ModifyImageAttribute",
         Put("images", {IF i.cloud = "aws" /\ i.of = r THEN [i EXCEPT !.users = launchPerms(args[r].share)]
                        ELSE i : i \in cloud.images}), TRUE)

-----------------------------------------------------------------------------
(***************************************************************************)
(* gcp.  The import is a build of Cloud Build, which leaves instances,     *)
(* disks and cache files behind.                                           *)
(***************************************************************************)
StorageObjectUpload(r) ==
    Call(r, "StorageObjectUpload", Put("objects", cloud.objects \cup {r}), "PickZone")

\* With no zone that is up the random choice panics, and the worker with it.
PickZone(r) ==
    /\ At(r, "PickZone")
    /\ \/ Goes(r, "CreateBuild") /\ UNCHANGED <<alive, trouble>>
       \/ Fails(r) /\ Goes(r, "ImportFailed") /\ UNCHANGED alive
       \/ Fails(r) /\ alive' = alive \ {r} /\ UNCHANGED step
    /\ UNCHANGED <<args, result, cloud, upload>>

ImportStarted(r) == [cloud EXCEPT !.builds[r] = "working", !.leftovers = @ \cup {r}]

CreateBuild(r) ==
    /\ At(r, "CreateBuild")
    /\ \/ cloud' = ImportStarted(r) /\ Goes(r, "GetBuild") /\ UNCHANGED trouble
       \/ /\ Fails(r)
          /\ cloud' \in {cloud, ImportStarted(r)}
          /\ Goes(r, "ImportFailed")
         
    /\ UNCHANGED <<args, alive, result, upload>>

\* Cloud Build (external).  The image appears unless its name is taken or the object is gone.
BuildEnds(r) ==
    /\ cloud.builds[r] = "working"
    /\ \/ /\ r \in cloud.objects
          /\ Named("gcp", args[r].name) = {}
          /\ cloud' = [cloud EXCEPT !.builds[r] = "success",
                                    !.images = @ \cup {Image("gcp", args[r].name, r, {})}]
       \/ cloud' = [cloud EXCEPT !.builds[r] = "failure"]
    /\ UNCHANGED <<args, alive, step, result, upload, trouble>>

\* The client polls; after an error of GetBuild there is no build to clean up.
GetBuild(r) ==
    /\ At(r, "GetBuild")
    /\ \/ cloud.builds[r] = "success" /\ Goes(r, "CleanupGood") /\ UNCHANGED trouble
       \/ cloud.builds[r] = "failure" /\ Goes(r, "CleanupBad") /\ UNCHANGED trouble
       \/ Fails(r) /\ Goes(r, "ImportFailed")
    /\ UNCHANGED <<args, alive, result, cloud, upload>>

\* Errors of the two cleanups are logged.
Logged(r, new) ==
    \/ cloud' = new /\ UNCHANGED trouble
    \/ Fails(r) /\ UNCHANGED cloud

\* mutant: only a failed import is cleaned up
CloudbuildBuildCleanup_Bad(r) ==
    /\ At(r, "CleanupGood") \/ At(r, "CleanupBad")
    /\ Logged(r, IF step[r] = "CleanupBad" THEN Put("leftovers", cloud.leftovers \ {r}) ELSE cloud)
    /\ Goes(r, IF step[r] = "CleanupGood" THEN "ImportDone" ELSE "ImportFailed")
    /\ UNCHANGED <<args, alive, result, upload>>

CloudbuildBuildCleanup(r) ==
    /\ At(r, "CleanupGood") \/ At(r, "CleanupBad")
    /\ Logged(r, Put("leftovers", cloud.leftovers \ {r}))
    /\ Goes(r, IF step[r] = "CleanupGood" THEN "ImportDone" ELSE "ImportFailed")
    /\ UNCHANGED <<args, alive, result, upload>>

\* "Cleanup storage before checking for errors."
StorageObjectDelete(r) ==
    /\ Logged(r, Put("objects", cloud.objects \ {r}))
    /\ \/ At(r, "ImportDone") /\ Goes(r, "ComputeImageShare") /\ UNCHANGED result
       \/ At(r, "ImportFailed") /\ appendTargetError(r)
    /\ UNCHANGED <<args, alive, upload>>

\* The policy of the image is replaced by one binding with all the accounts.
Members(share) == {share[k] : k \in DOMAIN share}

ComputeImageShare(r) ==
    IF args[r].share = <<>>
    THEN /\ At(r, "ComputeImageShare")
         /\ Uploaded(r, TRUE)
         /\ UNCHANGED <<args, alive, cloud, upload, trouble>>
    ELSE Last(r, "ComputeImageShare",
              Put("images", {IF i.cloud = "gcp" /\ i.of = r THEN [i EXCEPT !.users = Members(args[r].share)]
                             ELSE i : i \in cloud.images}), TRUE)

-----------------------------------------------------------------------------
(***************************************************************************)
(* azure.  A storage account is looked up by its tag and created when      *)
(* there is none; two jobs may both find none.                             *)
(***************************************************************************)
GetResourceNameByTag(r) ==
    /\ At(r, "GetResourceNameByTag")
    /\ \/ /\ cloud.accounts = {}
          /\ Goes(r, "CreateStorageAccount")
          /\ UNCHANGED <<cloud, result, trouble>>
       \/ /\ \E a \in cloud.accounts : cloud' = [cloud EXCEPT !.account[r] = a]
          /\ Goes(r, "CreateStorageContainer")
          /\ UNCHANGED <<result, trouble>>
       \/ Fails(r) /\ appendTargetError(r) /\ UNCHANGED cloud
    /\ UNCHANGED <<args, alive, upload>>

CreateStorageAccount(r) ==
    Call(r, "CreateStorageAccount",
         [cloud EXCEPT !.accounts = @ \cup {r}, !.account[r] = r], "CreateStorageContainer")

\* The key of the account, and a container in it unless there is one.
CreateStorageContainerIfNotExist(r) == Call(r, "CreateStorageContainer", cloud, "CreateBlob")

\* The target "azure" brings an account of its own.
Blob(r) == <<IF cloud.account[r] = Nil THEN r ELSE cloud.account[r], args[r].name>>

(***************************************************************************)
(* UploadPageBlob: creates an empty blob with the MD5 of the image, reads  *)
(* the image page by page and uploads up to threads pages at a time.  A    *)
(* read error returns at once, with uploads still under way.               *)
(***************************************************************************)
NewUpload == [next |-> 1, sending |-> {}, error |-> FALSE]

CreateBlob(r) ==
    /\ At(r, "CreateBlob")
    /\ \/ /\ cloud' = [cloud EXCEPT !.blobs[Blob(r)] = [NoBlob EXCEPT !.md5 = r]]
          /\ Goes(r, "UploadPages")
          /\ upload' = [upload EXCEPT ![r] = NewUpload]
          /\ UNCHANGED <<result, trouble>>
       \/ /\ Fails(r)
          /\ cloud' \in {cloud, [cloud EXCEPT !.blobs[Blob(r)] = NoBlob]}
          /\ appendTargetError(r)
         
          /\ UNCHANGED upload
    /\ UNCHANGED <<args, alive>>

\* The semaphore.
HasSlot(r) == Cardinality(upload[r].sending) < threads

ReadPage(r) ==
    /\ At(r, "UploadPages")
    /\ upload[r].next <= Pages
    /\ \/ /\ HasSlot(r)
          /\ upload' = [upload EXCEPT ![r].next = @ + 1, ![r].sending = @ \cup {upload[r].next}]
          /\ UNCHANGED <<step, result, trouble>>
       \/ Fails(r) /\ appendTargetError(r) /\ UNCHANGED upload
    /\ UNCHANGED <<args, alive, cloud>>

\* A goroutine ends: its page is in the blob, or the error channel has an error.
UploadPage(r, p) ==
    /\ p \in upload[r].sending
    /\ \/ /\ cloud' = [cloud EXCEPT !.blobs[Blob(r)].pages[p] = r]
          /\ upload' = [upload EXCEPT ![r].sending = @ \ {p}]
          /\ UNCHANGED trouble
       \/ /\ Fails(r)
          /\ upload' = [upload EXCEPT ![r].sending = @ \ {p}, ![r].error = TRUE]
         
          /\ UNCHANGED cloud
    /\ UNCHANGED <<args, alive, step, result>>

\* mutant: the goroutines are not waited for
PagesSent_NoWait(r) == upload[r].next > Pages

\* wg.Wait
PagesSent(r) == upload[r].next > Pages /\ upload[r].sending = {}

\* The MD5 is the one an uploader set, not that of the pages.
CheckBlob(r) ==
    /\ PagesSent(r)
    /\ IF upload[r].error \/ cloud.blobs[Blob(r)].md5 # r THEN Refused(r, "UploadPages")
       ELSE IF args[r].target = "azure" THEN Last(r, "UploadPages", cloud, FALSE)
       ELSE Call(r, "UploadPages", cloud, "CreateOrUpdate")

\* An image of the blob; one of the same name is replaced.
azureRegisterImage(r) ==
    Last(r, "CreateOrUpdate",
         Put("images", (cloud.images \ Named("azure", args[r].name)) \cup
                       {Image("azure", args[r].name, r, {})}), TRUE)

-----------------------------------------------------------------------------
aws(r) == \/ Upload(r) \/ S3ObjectPresignedURL(r) \/ ImportSnapshot(r)
          \/ WaitUntilImportSnapshotTaskCompleted(r) \/ DeleteObject(r)
          \/ DescribeImportSnapshotTasks(r) \/ ModifySnapshotAttribute(r)
          \/ RegisterImage(r) \/ ModifyImageAttribute(r)

gcp(r) == \/ StorageObjectUpload(r) \/ PickZone(r) \/ CreateBuild(r) \/ GetBuild(r)
          \/ CloudbuildBuildCleanup(r) \/ StorageObjectDelete(r) \/ ComputeImageShare(r)

azure(r) == \/ GetResourceNameByTag(r) \/ CreateStorageAccount(r)
            \/ CreateStorageContainerIfNotExist(r) \/ CreateBlob(r) \/ ReadPage(r)
            \/ CheckBlob(r) \/ azureRegisterImage(r)

Run(r) == \/ RunOSBuild(r) \/ UploadArtifact(r) \/ NoTarget(r) \/ vmwareUploadImage(r)
          \/ aws(r) \/ gcp(r) \/ azure(r)

Clouds(r) == SnapshotImported(r) \/ BuildEnds(r)
=============================================================================

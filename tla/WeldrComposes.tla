---------------------------- MODULE WeldrComposes ---------------------------
(***************************************************************************)
(* Composes of the Weldr API (internal/weldr/api.go, compose.go): the      *)
(* records of the store (internal/store), the jobs of the queue and the    *)
(* artifacts of the worker server (internal/worker/server.go) that belong  *)
(* to one image build, which no lock and no transaction holds together.    *)
(* Handlers run concurrently and read or change one of the three at a      *)
(* time.  The queue is an instance of JobQueue; what workers do is seen    *)
(* only through it and through the artifacts they leave.                   *)
(***************************************************************************)
EXTENDS Naturals, FiniteSets

CONSTANTS Composes,   \* compose ids; the job of a compose has the same id
          OldStatus,  \* states of composes in a file from before the job queue
          Host,       \* image types of the host distribution
          Foreign,    \* types only other distributions have
          Unmapped,   \* types without an entry in imageTypeCompatMapping
          Denied,     \* types the denylist of the configuration names
          Handlers,   \* concurrent requests
          Tokens,     \* the tokens of started jobs
          Nil,        \* no job, no token, no result
          Faults      \* subset of {"crash", "write"}: composer stops, the disk fails

ImageTypes == Host \cup Foreign

ASSUME TypesOK ==
    /\ Nil \notin Composes \cup Tokens
    /\ Unmapped \subseteq ImageTypes /\ Denied \subseteq ImageTypes
    /\ Faults \subseteq {"crash", "write"}

VARIABLES jobs,       \* the queue, which survives restarts
          artifacts,  \* job -> "none", an "empty" directory in tmp/, the image in "tmp"
                      \*   or in its "final" place, where that of an old compose is too
          moving,     \* finished jobs whose artifacts are not moved yet
          up,         \* composer is running
          composes,   \* Store.composes
          disk,       \* the composes of the state file
          calls,      \* the handlers at work: what they do next, and to what
          kept,       \* ghost: the types of composes answered and not deleted since
          deleted,    \* ghost: composes whose deletion was answered
          forgotten   \* ghost: composes that a restart did not bring back

vars == <<jobs, artifacts, moving, up, composes, disk, calls, kept, deleted, forgotten>>

-----------------------------------------------------------------------------
(***************************************************************************)
(* OSBuildJobResult as it is told apart here: "null" has no OSBuildOutput  *)
(* (RunOSBuild failed, or the job expired), a "failure" has one but a bad  *)
(* build or a target error, an "unmarked" one has a good build and no      *)
(* target error but not the flag Success (UploadArtifact failed, say), and *)
(* a "success" has the flag.                                               *)
(***************************************************************************)
Results == {"null", "failure", "unmarked", "success"}

Queue == INSTANCE JobQueue WITH Jobs <- Composes, Types <- {"osbuild"}

Without(f, x) == [y \in DOMAIN f \ {x} |-> f[y]]

With(f, x, v) == [y \in DOMAIN f \cup {x} |-> IF y = x THEN v ELSE f[y]]

\* store.Compose: JobID is Nil for test composes and those of old files
Compose == [ImageType : ImageTypes, JobID : Composes \cup {Nil},
            QueueStatus : {"waiting", "running", "finished", "failed"}]

-----------------------------------------------------------------------------
(***************************************************************************)
(* composeStateFromJobStatus and getComposeStatus.  The worker server's    *)
(* JobStatus sets the flag Success of a result that is unmarked.           *)
(***************************************************************************)
JobStatus(result) == IF result = "unmarked" THEN "success" ELSE result

composeStateFromJobStatus(j) ==
    CASE j.status = "canceled" -> "failed"
      [] j.status = "queued" -> "waiting"
      [] j.status = "running" -> "running"
      [] OTHER -> IF JobStatus(j.Result) = "success" THEN "finished" ELSE "failed"

getComposeStatus(c) ==
    IF c.JobID = Nil THEN c.QueueStatus ELSE composeStateFromJobStatus(jobs[c.JobID])

Result(c) ==
    IF c.JobID = Nil THEN "empty"
    ELSE IF jobs[c.JobID].status = "finished" /\ jobs[c.JobID].Result # "null"
         THEN "output" ELSE "nil"

Settled == {"finished", "failed"}

\* getComposeStatus panics for a job that the queue does not know
Readable(c) == c.JobID = Nil \/ c.JobID \in DOMAIN jobs

(***************************************************************************)
(* What a client is answered about compose id, where it depends on the     *)
(* job's result and artifacts.  openImageFile finds an image only in its   *)
(* final place; composeLogsHandler and composeLogHandler, unlike           *)
(* composeResultsHandler, write a result that may be nil, which panics.    *)
(***************************************************************************)
openImageFile(id) ==
    /\ composes[id].JobID # Nil => jobs[id].status = "finished"
    /\ artifacts[id] = "final"

composeImage(id) ==
    IF getComposeStatus(composes[id]) # "finished" THEN "wrong state"
    ELSE IF openImageFile(id) THEN "image" ELSE "error"

composeMetadata(id) ==
    IF getComposeStatus(composes[id]) \in Settled THEN "metadata" ELSE "wrong state"

composeResults(id) ==
    IF getComposeStatus(composes[id]) \notin Settled THEN {}
    ELSE {"metadata"} \cup (IF Result(composes[id]) # "nil" THEN {"logs"} ELSE {})
                      \cup (IF openImageFile(id) THEN {"image"} ELSE {})

composeLogs(id) ==
    IF getComposeStatus(composes[id]) \notin Settled THEN "wrong state"
    ELSE IF Result(composes[id]) = "nil" THEN "panic" ELSE "logs"

composeLog(id) ==
    IF getComposeStatus(composes[id]) \in {"waiting", "running"}
    THEN getComposeStatus(composes[id])
    ELSE IF Result(composes[id]) = "nil" THEN "panic" ELSE "logs"

-----------------------------------------------------------------------------
(***************************************************************************)
(* Loading the file: an image type the host's architecture does not have   *)
(* drops the compose, and builds that were queued or running before the    *)
(* job queue existed have failed.                                          *)
(***************************************************************************)
newImageBuildFromV0(c) ==
    [c EXCEPT !.QueueStatus = IF @ \in {"waiting", "running"} THEN "failed" ELSE @]

newComposesFromV0(v0) ==
    [c \in {x \in DOMAIN v0 : v0[x].ImageType \in Host} |-> newImageBuildFromV0(v0[c])]

isImageTypeAllowed(type) == type \notin Denied

(***************************************************************************)
(* Store.change.  imageTypeToCompatString panics, before the write, if any *)
(* compose has a type without a mapping; a failed write panics too.  The   *)
(* change stays in memory.                                                 *)
(***************************************************************************)
Saves(new) ==
    /\ \A c \in DOMAIN new : new[c].ImageType \notin Unmapped
    /\ disk' = new

Panics(new) ==
    /\ "write" \in Faults \/ \E c \in DOMAIN new : new[c].ImageType \in Unmapped
    /\ disk' = disk

-----------------------------------------------------------------------------
At(h, pc, id) == up /\ h \in DOMAIN calls /\ calls[h].pc = pc /\ calls[h].id = id

Goto(h, pc, id, type) == calls' = With(calls, h, [pc |-> pc, id |-> id, type |-> type])

Return(h) == calls' = Without(calls, h)

\* uuid.New
Fresh(id) ==
    /\ id \notin DOMAIN jobs \cup DOMAIN composes \cup DOMAIN disk
    /\ id \notin DOMAIN kept \cup deleted
    /\ artifacts[id] = "none"
    /\ \A h \in DOMAIN calls : calls[h].id # id

\* wrong: the compose is pushed before its job exists
composeEnqueue_PushFirst(h, id, type) ==
    /\ up
    /\ h \notin DOMAIN calls
    /\ Fresh(id)
    /\ isImageTypeAllowed(type)
    /\ composes' = With(composes, id, [ImageType |-> type, JobID |-> id, QueueStatus |-> "waiting"])
    /\ Saves(composes')
    /\ Goto(h, "push", id, type)
    /\ UNCHANGED <<jobs, artifacts, moving, up, kept, deleted, forgotten>>

(***************************************************************************)
(* composeHandler: the job is enqueued, then the compose is pushed.        *)
(***************************************************************************)
composeEnqueue(h, id, type) ==
    /\ up
    /\ h \notin DOMAIN calls
    /\ Fresh(id)
    /\ isImageTypeAllowed(type)
    /\ Queue!Enqueue(id, "osbuild", {})
    /\ Goto(h, "push", id, type)
    /\ UNCHANGED <<artifacts, moving, up, composes, disk, kept, deleted, forgotten>>

PushCompose(h, id, c) ==
    /\ composes' = With(composes, id, c)
    /\ Return(h)
    /\ \/ Saves(composes') /\ kept' = With(kept, id, c.ImageType)
       \/ Panics(composes') /\ kept' = kept
    /\ UNCHANGED <<jobs, artifacts, moving, up, deleted, forgotten>>

composePush(h, id) ==
    /\ At(h, "push", id)
    /\ PushCompose(h, id, [ImageType |-> calls[h].type, JobID |-> id,
                           QueueStatus |-> "waiting"])

\* the test modes push a compose that has no job
composeTest(h, id, type, state) ==
    /\ up
    /\ h \notin DOMAIN calls
    /\ Fresh(id)
    /\ isImageTypeAllowed(type)
    /\ PushCompose(h, id, [ImageType |-> type, JobID |-> Nil, QueueStatus |-> state])

-----------------------------------------------------------------------------
\* wrong: a compose may be deleted in any state
composeDelete_Any(h, id) ==
    /\ up
    /\ h \notin DOMAIN calls
    /\ id \in DOMAIN composes
    /\ Goto(h, "delete", id, composes[id].JobID)
    /\ UNCHANGED <<jobs, artifacts, moving, up, composes, disk, kept, deleted, forgotten>>

\* wrong: the artifacts go before the compose
composeDelete_ImageFirst(h, id) ==
    /\ up
    /\ h \notin DOMAIN calls
    /\ id \in DOMAIN composes
    /\ getComposeStatus(composes[id]) \in Settled
    /\ artifacts' = [artifacts EXCEPT ![id] = "none"]
    /\ Goto(h, "delete", id, composes[id].JobID)
    /\ UNCHANGED <<jobs, moving, up, composes, disk, kept, deleted, forgotten>>

(***************************************************************************)
(* composeDeleteHandler: the state, the compose, the artifacts.            *)
(***************************************************************************)
composeDelete(h, id) ==
    /\ up
    /\ h \notin DOMAIN calls
    /\ id \in DOMAIN composes
    /\ getComposeStatus(composes[id]) \in Settled
    /\ Goto(h, "delete", id, composes[id].JobID)
    /\ UNCHANGED <<jobs, artifacts, moving, up, composes, disk, kept, deleted, forgotten>>

\* gone: another deletion was first, and the file is written all the same
DeleteCompose(h, id) ==
    /\ At(h, "delete", id)
    /\ composes' = Without(composes, id)
    /\ \/ /\ Saves(composes')
          /\ IF id \in DOMAIN composes THEN Goto(h, "artifacts", id, calls[h].type) ELSE Return(h)
       \/ /\ Panics(composes')
          /\ Return(h)
    /\ kept' = Without(kept, id)
    /\ UNCHANGED <<jobs, artifacts, moving, up, deleted, forgotten>>

\* the worker server's artifacts or, without a job, the old output directory;
\* the error for a job that is canceled is ignored
DeleteArtifacts(h, id) ==
    LET job == calls[h].type
    IN  /\ At(h, "artifacts", id)
        /\ artifacts' = IF artifacts[id] = "final" /\ (job # Nil => jobs[job].status = "finished")
                        THEN [artifacts EXCEPT ![id] = "none"] ELSE artifacts
        /\ deleted' = deleted \cup {id}
        /\ Return(h)
        /\ UNCHANGED <<jobs, moving, up, composes, disk, kept, forgotten>>

-----------------------------------------------------------------------------
(***************************************************************************)
(* composeCancelHandler: the state, then the job.  A compose without a job *)
(* is an error; a job that has ended is left alone.                        *)
(***************************************************************************)
composeCancel(h, id) ==
    /\ up
    /\ h \notin DOMAIN calls
    /\ id \in DOMAIN composes
    /\ getComposeStatus(composes[id]) # "waiting"
    /\ composes[id].JobID # Nil
    /\ Goto(h, "cancel", id, Nil)
    /\ UNCHANGED <<jobs, artifacts, moving, up, composes, disk, kept, deleted, forgotten>>

\* wrong: a job that has finished is canceled too
CancelJob_Finished(h, id) ==
    /\ At(h, "cancel", id)
    /\ jobs' = [jobs EXCEPT ![id].status = "canceled"]
    /\ Return(h)
    /\ UNCHANGED <<artifacts, moving, up, composes, disk, kept, deleted, forgotten>>

CancelJob(h, id) ==
    /\ At(h, "cancel", id)
    /\ \/ Queue!CancelJob(id)
       \/ jobs[id].status \in {"finished", "canceled"} /\ UNCHANGED jobs
    /\ Return(h)
    /\ UNCHANGED <<artifacts, moving, up, composes, disk, kept, deleted, forgotten>>

-----------------------------------------------------------------------------
(***************************************************************************)
(* Workers: a job is started, with a directory in tmp/, its image is       *)
(* uploaded there for as long as there is that directory, and the job is   *)
(* finished in the queue before the directory is moved to its place.       *)
(* WatchHeartbeats finishes a job whose worker is gone in the same way,    *)
(* with a null result.                                                     *)
(***************************************************************************)
RequestJob(id, token) ==
    /\ up
    /\ Queue!Dequeue(id, token)
    /\ artifacts' = [artifacts EXCEPT ![id] = "empty"]
    /\ UNCHANGED <<moving, up, composes, disk, calls, kept, deleted, forgotten>>

UploadJobArtifact(id) ==
    /\ up
    /\ artifacts[id] = "empty"
    /\ artifacts' = [artifacts EXCEPT ![id] = "tmp"]
    /\ UNCHANGED <<jobs, moving, up, composes, disk, calls, kept, deleted, forgotten>>

\* OSBuildJobImpl.Run sets the flag after the upload
FinishJob(id, result) ==
    /\ up
    /\ result = "success" => artifacts[id] = "tmp"
    /\ Queue!FinishJob(id, result)
    /\ moving' = moving \cup {id}
    /\ UNCHANGED <<artifacts, up, composes, disk, calls, kept, deleted, forgotten>>

MoveArtifacts(id) ==
    /\ up
    /\ id \in moving
    /\ moving' = moving \ {id}
    /\ artifacts' = [artifacts EXCEPT ![id] = IF @ \in {"tmp", "final"} THEN "final" ELSE "none"]
    /\ UNCHANGED <<jobs, up, composes, disk, calls, kept, deleted, forgotten>>

\* the job cannot be read back, or the rename fails and is logged
MoveFails(id) ==
    /\ "write" \in Faults
    /\ up
    /\ id \in moving
    /\ moving' = moving \ {id}
    /\ UNCHANGED <<jobs, artifacts, up, composes, disk, calls, kept, deleted, forgotten>>

-----------------------------------------------------------------------------
Crash ==
    /\ "crash" \in Faults
    /\ up
    /\ up' = FALSE
    /\ composes' = [x \in {} |-> x]
    /\ calls' = [x \in {} |-> x]
    /\ moving' = {}
    /\ UNCHANGED <<jobs, artifacts, disk, kept, deleted, forgotten>>

\* store.New; the jobs of composes it does not know go on
New ==
    /\ ~up
    /\ up' = TRUE
    /\ composes' = newComposesFromV0(disk)
    /\ forgotten' = forgotten \cup (DOMAIN jobs \ DOMAIN composes')
    /\ UNCHANGED <<jobs, artifacts, moving, disk, calls, kept, deleted>>

\* The file may be one from before the job queue.
Init ==
    /\ disk \in UNION {[D -> {c \in Compose : /\ c.JobID = Nil
                                              /\ c.ImageType \in ImageTypes \ Unmapped
                                              /\ c.QueueStatus \in OldStatus}] :
                        D \in SUBSET Composes}
    /\ jobs = [x \in {} |-> x]
    /\ artifacts = [c \in Composes |-> IF c \in DOMAIN disk THEN "final" ELSE "none"]
    /\ moving = {}
    /\ up = FALSE
    /\ composes = [x \in {} |-> x]
    /\ calls = [x \in {} |-> x]
    /\ kept = [c \in DOMAIN disk |-> disk[c].ImageType]
    /\ deleted = {}
    /\ forgotten = {}

Next ==
    \/ \E h \in Handlers, id \in Composes, type \in ImageTypes :
        \/ composeEnqueue(h, id, type)
        \/ \E state \in Settled : composeTest(h, id, type, state)
    \/ \E h \in Handlers, id \in Composes : composePush(h, id) \/ CancelJob(h, id)
    \/ \E h \in Handlers, id \in Composes :
        composeDelete(h, id) \/ DeleteCompose(h, id) \/ DeleteArtifacts(h, id)
        \/ composeCancel(h, id)
    \/ \E id \in Composes :
        \/ \E token \in Tokens : RequestJob(id, token)
        \/ \E result \in Results : FinishJob(id, result)
        \/ UploadJobArtifact(id) \/ MoveArtifacts(id) \/ MoveFails(id)
    \/ Crash \/ New

Spec == Init /\ [][Next]_vars

-----------------------------------------------------------------------------
Call == [pc : {"push", "delete", "artifacts", "cancel"}, id : Composes,
         type : ImageTypes \cup Composes \cup {Nil}]

\* The composes clients see, or will see after the restart.
Shown == IF up THEN composes ELSE newComposesFromV0(disk)

\* The types of the store, of the queue and of the handlers.
TypeOK ==
    /\ DOMAIN jobs \subseteq Composes /\ \A id \in DOMAIN jobs : jobs[id] \in Queue!Job
    /\ artifacts \in [Composes -> {"none", "empty", "tmp", "final"}]
    /\ moving \subseteq DOMAIN jobs
    /\ up \in BOOLEAN
    /\ \A s \in {composes, disk} :
        DOMAIN s \subseteq Composes /\ \A c \in DOMAIN s : s[c] \in Compose
    /\ DOMAIN calls \subseteq Handlers /\ \A h \in DOMAIN calls : calls[h] \in Call

\* No list and no status request meets a compose whose job the queue does
\* not know, for which getComposeStatus panics, whatever was lost in crashes
\* and failed writes.
StatusIsReadable == \A c \in DOMAIN Shown : Readable(Shown[c])

\* One compose that imageTypeToCompatString cannot name makes every later
\* change of the store panic before it is written.  Such a compose gets in
\* only if the denylist, which is up to the user, misses its type, and it
\* never gets into the file: the next restart ends it.
StoreIsWritable ==
    /\ \A c \in DOMAIN composes : composes[c].ImageType \notin Unmapped \cap Denied
    /\ \A c \in DOMAIN disk : disk[c].ImageType \notin Unmapped

\* A compose that is shown as finished or failed stays so until it is
\* deleted: no cancellation, expiry or restart changes it.
StatusIsFinal ==
    [][\A c \in DOMAIN Shown \cap DOMAIN Shown' :
        getComposeStatus(Shown[c]) \in Settled =>
            getComposeStatus(Shown[c])' = getComposeStatus(Shown[c])]_vars

\* A compose of the host distribution that was answered is in the store and
\* in its file until a client deletes it.
AcceptedIsKept ==
    \A c \in DOMAIN kept : kept[c] \in Host => c \in DOMAIN Shown /\ c \in DOMAIN disk

\* A job that may still be run belongs to a compose, so that a client can see
\* and cancel it; only a restart can leave one behind.
UnfinishedIsOwned ==
    \A id \in DOMAIN jobs :
        up /\ jobs[id].status \in {"queued", "running"} =>
            \/ id \in DOMAIN composes \cup forgotten
            \/ \E h \in DOMAIN calls : calls[h].pc = "push" /\ calls[h].id = id

\* Of several deletions of a compose one is answered as done, and then the
\* compose does not come back.
DeletedOnce ==
    /\ \A h \in DOMAIN calls : calls[h].pc = "artifacts" =>
        /\ calls[h].id \notin deleted
        /\ \A g \in DOMAIN calls : calls[g].pc = "artifacts" /\ calls[g].id = calls[h].id => g = h
    /\ \A id \in deleted : id \notin DOMAIN composes \cup DOMAIN disk

\* A compose whose worker reported a success has its image, at least among
\* the temporary artifacts: a deletion never takes the image from a compose
\* that clients still see, also if composer stops half way.  (One that is
\* shown as finished because JobStatus set the flag may never have had one.)
FinishedKeepsImage ==
    \A c \in DOMAIN Shown :
        Shown[c].JobID # Nil /\ jobs[c].status = "finished" /\ jobs[c].Result = "success" =>
            artifacts[c] \in {"tmp", "final"}

\* The answers about one compose agree: with its image a client can also get
\* the logs and the archive of everything, which is served for every compose
\* that has ended; the requests for logs fail, by a panic, for the composes
\* shown as failed whose job was canceled or has a result without
\* OSBuildOutput (it expired, or osbuild could not be run), and for no other.
AnswersAgree ==
    \A id \in DOMAIN composes :
        LET ended == jobs[composes[id].JobID]
        IN  /\ composeImage(id) = "image" =>
                composeLogs(id) = "logs" /\ {"image", "logs"} \subseteq composeResults(id)
            /\ composeMetadata(id) = "metadata" <=> "metadata" \in composeResults(id)
            /\ composeLogs(id) = "panic" <=> composeLog(id) = "panic"
            /\ composeLogs(id) = "panic" =>
                /\ getComposeStatus(composes[id]) = "failed" /\ composes[id].JobID # Nil
                /\ ended.status = "canceled" \/ ended.Result = "null"

(***************************************************************************)
(* No compose is lost: one that was answered is kept until a client        *)
(* deletes it, one that its worker reported as a success has its image,    *)
(* and one that was deleted does not come back.                            *)
(***************************************************************************)
ComposesAreKept == AcceptedIsKept /\ FinishedKeepsImage /\ DeletedOnce

(***************************************************************************)
(* Every request about a compose can be answered, whatever went wrong      *)
(* before: the job of a compose is known, the store can be written unless  *)
(* the denylist has a gap, and the answers about one compose agree.        *)
(***************************************************************************)
RequestsAreAnswered == TypeOK /\ StatusIsReadable /\ StoreIsWritable /\ AnswersAgree
=============================================================================

------------------------- MODULE WeldrComposesProofs ------------------------
(***************************************************************************)
(* Proofs about WeldrComposes, for any composes, image types, requests and *)
(* faults.                                                                 *)
(***************************************************************************)
EXTENDS WeldrComposes, TLAPS

\* The composes of the store or of its file: their jobs are in the queue under the same id,
\* and those without a job have no job there.
Sound(s) ==
    \A c \in DOMAIN s :
        /\ s[c].JobID # Nil => s[c].JobID = c
        /\ s[c].JobID # Nil <=> c \in DOMAIN jobs

\* What memory and the file both know, they agree on: up to what loading the file makes of it.
SameOnDisk ==
    \A c \in DOMAIN composes :
        /\ composes[c].JobID = Nil => composes[c].QueueStatus \in Settled
        /\ c \in DOMAIN disk =>
              /\ composes[c].JobID = disk[c].JobID
              /\ composes[c].ImageType = disk[c].ImageType
              /\ composes[c].JobID = Nil =>
                    composes[c].QueueStatus = newImageBuildFromV0(disk[c]).QueueStatus

\* A compose that was answered is on disk and, while composer runs, in memory.
KeptTwice ==
    \A c \in DOMAIN kept : kept[c] \in Host =>
        /\ c \in DOMAIN disk /\ disk[c].ImageType = kept[c]
        /\ up => c \in DOMAIN composes /\ composes[c].ImageType = kept[c]

Stored == DOMAIN composes \cup DOMAIN disk

\* A compose that is about to be pushed has a job, and nobody else knows of it.
PushIsNew ==
    \A h \in DOMAIN calls : calls[h].pc = "push" =>
        /\ calls[h].id \in DOMAIN jobs
        /\ calls[h].type \in ImageTypes \ (Unmapped \cap Denied)
        /\ calls[h].id \notin Stored \cup deleted
        /\ \A g \in DOMAIN calls : calls[g].id = calls[h].id => g = h

\* The job of a compose that is about to be deleted has ended.
DeleteIsOfEnded ==
    \A h \in DOMAIN calls : calls[h].pc = "delete" /\ calls[h].id \in DOMAIN jobs =>
        jobs[calls[h].id].status \in {"finished", "canceled"}

\* The artifacts to be deleted are those of a compose that is gone.
ArtifactsOfGone ==
    \A h \in DOMAIN calls : calls[h].pc = "artifacts" => calls[h].id \notin Stored

HasImage(id) == artifacts[id] \in {"tmp", "final"}

\* A job that succeeded loses its image only when its compose is gone.
ImageOfStored ==
    \A id \in DOMAIN jobs :
        jobs[id].status = "finished" /\ jobs[id].Result = "success" /\ ~HasImage(id) =>
            /\ id \notin Stored
            /\ \A h \in DOMAIN calls : calls[h].pc = "push" => calls[h].id # id

DownIsEmpty == ~up => DOMAIN composes = {} /\ DOMAIN calls = {}

(***************************************************************************)
(* The inductive invariant: the queue, the memory of the store, its file   *)
(* and the artifacts agree, up to what the handlers at work have yet to do.*)
(***************************************************************************)
IInv ==
    /\ TypeOK
    /\ Sound(composes) /\ Sound(disk) /\ StoreIsWritable
    /\ SameOnDisk
    /\ KeptTwice
    /\ PushIsNew
    /\ DeleteIsOfEnded
    /\ ArtifactsOfGone
    /\ DeletedOnce
    /\ ImageOfStored
    /\ DownIsEmpty
    /\ UnfinishedIsOwned

-----------------------------------------------------------------------------
(***************************************************************************)
(* The operations of the queue.                                            *)
(***************************************************************************)
Ended(j) == jobs[j].status \in {"finished", "canceled"}

\* What the queue leaves alone.
Keeps ==
    /\ DOMAIN jobs \subseteq DOMAIN jobs'
    /\ \A j \in DOMAIN jobs : Ended(j) => jobs'[j] = jobs[j]

LEMMA Enqueued ==
    ASSUME TypeOK, NEW j \in Composes, Queue!Enqueue(j, "osbuild", {})
    PROVE  /\ j \notin DOMAIN jobs
           /\ DOMAIN jobs' = DOMAIN jobs \cup {j}
           /\ jobs'[j].status = "queued"
           /\ \A x \in DOMAIN jobs : jobs'[x] = jobs[x]
           /\ \A x \in DOMAIN jobs' : jobs'[x] \in Queue!Job
  BY DEF TypeOK, Queue!Enqueue, Queue!With, Queue!Job

LEMMA Dequeued ==
    ASSUME TypeOK, NEW j \in Composes, NEW token \in Tokens, Queue!Dequeue(j, token)
    PROVE  /\ j \in DOMAIN jobs
           /\ jobs[j].status = "queued"
           /\ DOMAIN jobs' = DOMAIN jobs
           /\ jobs'[j].status = "running"
           /\ \A x \in DOMAIN jobs : x # j => jobs'[x] = jobs[x]
           /\ \A x \in DOMAIN jobs' : jobs'[x] \in Queue!Job
<1>1. /\ j \in DOMAIN jobs /\ jobs[j].status = "queued" /\ jobs[j] \in Queue!Job
      /\ jobs' = [jobs EXCEPT ![j].status = "running", ![j].Token = token]
  BY DEF TypeOK, Queue!Dequeue
<1>2. /\ DOMAIN jobs' = DOMAIN jobs
      /\ jobs'[j] = [jobs[j] EXCEPT !.status = "running", !.Token = token]
      /\ \A x \in DOMAIN jobs : x # j => jobs'[x] = jobs[x]
  BY <1>1
<1>3. jobs'[j].status = "running" /\ jobs'[j] \in Queue!Job
  BY <1>1, <1>2 DEF Queue!Job
<1> QED BY <1>1, <1>2, <1>3 DEF TypeOK

LEMMA Finished ==
    ASSUME TypeOK, NEW j \in Composes, NEW r \in Results, Queue!FinishJob(j, r)
    PROVE  /\ j \in DOMAIN jobs
           /\ jobs[j].status = "running"
           /\ DOMAIN jobs' = DOMAIN jobs
           /\ jobs'[j].status = "finished"
           /\ jobs'[j].Result = r
           /\ \A x \in DOMAIN jobs : x # j => jobs'[x] = jobs[x]
           /\ \A x \in DOMAIN jobs' : jobs'[x] \in Queue!Job
<1>1. /\ j \in DOMAIN jobs /\ jobs[j].status = "running" /\ jobs[j] \in Queue!Job
      /\ jobs' = [jobs EXCEPT ![j].status = "finished", ![j].Result = r]
  BY DEF TypeOK, Queue!FinishJob
<1>2. /\ DOMAIN jobs' = DOMAIN jobs
      /\ jobs'[j] = [jobs[j] EXCEPT !.status = "finished", !.Result = r]
      /\ \A x \in DOMAIN jobs : x # j => jobs'[x] = jobs[x]
  BY <1>1
<1>3. /\ jobs'[j].status = "finished" /\ jobs'[j].Result = r
      /\ jobs'[j] \in Queue!Job
  BY <1>1, <1>2 DEF Queue!Job
<1> QED BY <1>1, <1>2, <1>3 DEF TypeOK

LEMMA Canceled ==
    ASSUME TypeOK, NEW j \in Composes, Queue!CancelJob(j)
    PROVE  /\ j \in DOMAIN jobs
           /\ jobs[j].status \in {"queued", "running"}
           /\ DOMAIN jobs' = DOMAIN jobs
           /\ jobs'[j].status = "canceled"
           /\ \A x \in DOMAIN jobs : x # j => jobs'[x] = jobs[x]
           /\ \A x \in DOMAIN jobs' : jobs'[x] \in Queue!Job
  BY DEF TypeOK, Queue!CancelJob, Queue!Job

LEMMA Initially == Init => IInv
<1> SUFFICES ASSUME Init PROVE IInv
  OBVIOUS
<1>1. /\ DOMAIN jobs = {} /\ DOMAIN composes = {} /\ DOMAIN calls = {} /\ ~up
      /\ deleted = {} /\ moving = {} /\ up \in BOOLEAN
      /\ artifacts \in [Composes -> {"none", "empty", "tmp", "final"}]
  BY DEF Init
<1>2. /\ DOMAIN disk \subseteq Composes
      /\ \A c \in DOMAIN disk : /\ disk[c] \in Compose /\ disk[c].JobID = Nil
                                /\ disk[c].ImageType \notin Unmapped
      /\ DOMAIN kept = DOMAIN disk /\ \A c \in DOMAIN disk : kept[c] = disk[c].ImageType
  BY DEF Init
<1>3. TypeOK
  BY <1>1, <1>2 DEF TypeOK
<1>4. Sound(composes) /\ Sound(disk) /\ StoreIsWritable /\ SameOnDisk /\ KeptTwice
  BY <1>1, <1>2 DEF Sound, StoreIsWritable, SameOnDisk, KeptTwice
<1>5. PushIsNew /\ DeleteIsOfEnded /\ ArtifactsOfGone /\ DeletedOnce /\ ImageOfStored
      /\ DownIsEmpty /\ UnfinishedIsOwned
  BY <1>1 DEF PushIsNew, DeleteIsOfEnded, ArtifactsOfGone, DeletedOnce, ImageOfStored,
              DownIsEmpty, UnfinishedIsOwned
<1> QED BY <1>3, <1>4, <1>5 DEF IInv

-----------------------------------------------------------------------------
(***************************************************************************)
(* A job goes from one status to the next; nothing else changes, or its    *)
(* artifacts do or are still to be moved, or a handler has returned.       *)
(***************************************************************************)
LEMMA JobMoves ==
    ASSUME IInv, NEW j \in DOMAIN jobs, ~Ended(j), jobs'[j].status # "queued",
           DOMAIN jobs' = DOMAIN jobs,
           \A x \in DOMAIN jobs : x # j => jobs'[x] = jobs[x],
           \A x \in DOMAIN jobs' : jobs'[x] \in Queue!Job,
           jobs'[j].status = "finished" /\ jobs'[j].Result = "success" => HasImage(j)',
           artifacts' \in [Composes -> {"none", "empty", "tmp", "final"}],
           \A x \in Composes : x # j => artifacts'[x] = artifacts[x],
           moving' \subseteq DOMAIN jobs,
           DOMAIN calls' \subseteq DOMAIN calls, \A h \in DOMAIN calls' : calls'[h] = calls[h],
           \A h \in DOMAIN calls : calls[h].pc = "push" => h \in DOMAIN calls',
           UNCHANGED <<up, composes, disk, kept, deleted, forgotten>>
    PROVE  IInv'
<1>1. TypeOK'
  BY DEF IInv, TypeOK
<1>2. Sound(composes)' /\ Sound(disk)' /\ StoreIsWritable' /\ SameOnDisk' /\ KeptTwice'
  BY DEF IInv, Sound, StoreIsWritable, SameOnDisk, KeptTwice, newImageBuildFromV0
<1>3. PushIsNew' /\ ArtifactsOfGone' /\ DeletedOnce' /\ DownIsEmpty'
  <2>1. PushIsNew'
    BY DEF IInv, PushIsNew, Stored, ImageTypes
  <2>2. ArtifactsOfGone' /\ DownIsEmpty'
    BY DEF IInv, ArtifactsOfGone, DownIsEmpty, Stored
  <2>3. DeletedOnce'
    BY DEF IInv, DeletedOnce
  <2> QED BY <2>1, <2>2, <2>3
<1>4. DeleteIsOfEnded'
  BY DEF IInv, DeleteIsOfEnded, Ended
<1>5. ImageOfStored'
  BY DEF IInv, TypeOK, ImageOfStored, HasImage, Stored
<1>6. UnfinishedIsOwned'
  <2>1. jobs[j].status \in {"queued", "running"}
    BY DEF IInv, TypeOK, Queue!Job, Ended
  <2> QED BY <2>1 DEF IInv, UnfinishedIsOwned
<1> QED BY <1>1, <1>2, <1>3, <1>4, <1>5, <1>6 DEF IInv

LEMMA RequestKeeps ==
    ASSUME IInv, NEW id \in Composes, NEW token \in Tokens, RequestJob(id, token) PROVE IInv'
<1>1. TypeOK
  BY DEF IInv
<1>2. /\ id \in DOMAIN jobs
      /\ jobs[id].status = "queued"
      /\ DOMAIN jobs' = DOMAIN jobs
      /\ jobs'[id].status = "running"
      /\ \A x \in DOMAIN jobs : x # id => jobs'[x] = jobs[x]
      /\ \A x \in DOMAIN jobs' : jobs'[x] \in Queue!Job
  BY <1>1, Dequeued DEF RequestJob
<1>3. /\ artifacts' \in [Composes -> {"none", "empty", "tmp", "final"}]
      /\ \A x \in Composes : x # id => artifacts'[x] = artifacts[x]
      /\ moving' \subseteq DOMAIN jobs
  BY <1>1 DEF RequestJob, TypeOK
<1> QED BY <1>1, <1>2, <1>3, JobMoves DEF RequestJob, Ended

LEMMA FinishKeeps ==
    ASSUME IInv, NEW id \in Composes, NEW result \in Results, FinishJob(id, result) PROVE IInv'
<1>1. TypeOK
  BY DEF IInv
<1>2. /\ id \in DOMAIN jobs
      /\ jobs[id].status = "running"
      /\ DOMAIN jobs' = DOMAIN jobs
      /\ jobs'[id].status = "finished"
      /\ jobs'[id].Result = result
      /\ \A x \in DOMAIN jobs : x # id => jobs'[x] = jobs[x]
      /\ \A x \in DOMAIN jobs' : jobs'[x] \in Queue!Job
  BY <1>1, Finished DEF FinishJob
<1>3. moving' \subseteq DOMAIN jobs /\ artifacts' = artifacts
      /\ artifacts \in [Composes -> {"none", "empty", "tmp", "final"}]
      /\ (result = "success" => HasImage(id)')
  BY <1>1, <1>2 DEF FinishJob, TypeOK, HasImage
<1> QED BY <1>1, <1>2, <1>3, JobMoves DEF FinishJob, Ended

\* A handler returns, and has done nothing to the queue or the store.
LEMMA ReturnKeeps ==
    ASSUME IInv, NEW h \in DOMAIN calls, calls[h].pc # "push", Return(h),
           UNCHANGED <<jobs, artifacts, moving, up, composes, disk, kept, deleted, forgotten>>
    PROVE  IInv'
<1>1. DOMAIN calls' = DOMAIN calls \ {h} /\ \A g \in DOMAIN calls' : calls'[g] = calls[g]
  BY DEF Return, Without
<1>2. TypeOK'
  BY <1>1 DEF IInv, TypeOK
<1>3. Sound(composes)' /\ Sound(disk)' /\ StoreIsWritable' /\ SameOnDisk' /\ KeptTwice'
  BY DEF IInv, Sound, StoreIsWritable, SameOnDisk, KeptTwice, newImageBuildFromV0
<1>4. PushIsNew' /\ DeleteIsOfEnded' /\ ArtifactsOfGone' /\ DownIsEmpty'
  BY <1>1 DEF IInv, PushIsNew, DeleteIsOfEnded, ArtifactsOfGone, DownIsEmpty, Stored
<1>5. DeletedOnce'
  BY <1>1 DEF IInv, DeletedOnce
<1>6. ImageOfStored' /\ UnfinishedIsOwned'
  BY <1>1 DEF IInv, ImageOfStored, HasImage, Stored, UnfinishedIsOwned
<1> QED BY <1>2, <1>3, <1>4, <1>5, <1>6 DEF IInv

LEMMA CancelJobKeeps ==
    ASSUME IInv, NEW h \in Handlers, NEW id \in Composes, CancelJob(h, id) PROVE IInv'
<1>1. /\ TypeOK /\ h \in DOMAIN calls /\ calls[h].pc = "cancel" /\ Return(h)
      /\ UNCHANGED <<artifacts, moving, up, composes, disk, kept, deleted, forgotten>>
  BY DEF IInv, CancelJob, At
<1>2. CASE UNCHANGED jobs
  BY <1>1, <1>2, ReturnKeeps
<1>3. CASE Queue!CancelJob(id)
  <2>1. /\ id \in DOMAIN jobs
        /\ jobs[id].status \in {"queued", "running"}
        /\ DOMAIN jobs' = DOMAIN jobs
        /\ jobs'[id].status = "canceled"
        /\ \A x \in DOMAIN jobs : x # id => jobs'[x] = jobs[x]
        /\ \A x \in DOMAIN jobs' : jobs'[x] \in Queue!Job
    BY <1>1, <1>3, Canceled
  <2>2. DOMAIN calls' = DOMAIN calls \ {h} /\ \A g \in DOMAIN calls' : calls'[g] = calls[g]
    BY <1>1 DEF Return, Without
  <2> QED BY <1>1, <2>1, <2>2, JobMoves DEF Ended, TypeOK
<1> QED BY <1>2, <1>3 DEF CancelJob

-----------------------------------------------------------------------------
(***************************************************************************)
(* Artifacts come and move.                                                *)
(***************************************************************************)
LEMMA ArtifactsKeep ==
    ASSUME IInv, NEW id \in Composes, UploadJobArtifact(id) \/ MoveArtifacts(id) \/ MoveFails(id)
    PROVE  IInv'
<1>1. /\ TypeOK /\ UNCHANGED <<jobs, up, composes, disk, calls, kept, deleted, forgotten>>
      /\ moving' \subseteq moving
      /\ artifacts' \in [Composes -> {"none", "empty", "tmp", "final"}]
      /\ \A c \in Composes : HasImage(c) => HasImage(c)'
  <2>1. artifacts \in [Composes -> {"none", "empty", "tmp", "final"}]
    BY DEF IInv, TypeOK
  <2>2. CASE UploadJobArtifact(id)
    BY <2>1, <2>2 DEF IInv, UploadJobArtifact, HasImage
  <2>3. CASE MoveArtifacts(id)
    <3>1. artifacts'[id] = IF artifacts[id] \in {"tmp", "final"} THEN "final" ELSE "none"
      BY <2>1, <2>3 DEF MoveArtifacts
    <3> QED BY <2>1, <2>3, <3>1 DEF IInv, MoveArtifacts, HasImage
  <2>4. CASE MoveFails(id)
    BY <2>1, <2>4 DEF IInv, MoveFails, HasImage
  <2> QED BY <2>2, <2>3, <2>4
<1>2. TypeOK'
  BY <1>1 DEF TypeOK
<1>3. Sound(composes)' /\ Sound(disk)' /\ StoreIsWritable' /\ SameOnDisk' /\ KeptTwice'
  BY <1>1 DEF IInv, Sound, StoreIsWritable, SameOnDisk, KeptTwice, newImageBuildFromV0
<1>4. PushIsNew' /\ DeleteIsOfEnded' /\ ArtifactsOfGone' /\ DownIsEmpty' /\ DeletedOnce'
      /\ UnfinishedIsOwned'
  BY <1>1 DEF IInv, PushIsNew, DeleteIsOfEnded, ArtifactsOfGone, DownIsEmpty, Stored,
              DeletedOnce, UnfinishedIsOwned
<1>5. ImageOfStored'
  BY <1>1 DEF IInv, ImageOfStored, HasImage, Stored, TypeOK
<1> QED BY <1>2, <1>3, <1>4, <1>5 DEF IInv

-----------------------------------------------------------------------------
(***************************************************************************)
(* Handlers begin.                                                         *)
(***************************************************************************)
LEMMA EnqueueKeeps ==
    ASSUME IInv, NEW h \in Handlers, NEW id \in Composes, NEW type \in ImageTypes,
           composeEnqueue(h, id, type)
    PROVE  IInv'
<1>1. /\ TypeOK /\ up /\ h \notin DOMAIN calls /\ Fresh(id) /\ type \notin Denied
      /\ UNCHANGED <<artifacts, moving, up, composes, disk, kept, deleted, forgotten>>
  BY DEF IInv, composeEnqueue, isImageTypeAllowed
<1>2. /\ DOMAIN calls' = DOMAIN calls \cup {h}
      /\ calls'[h] = [pc |-> "push", id |-> id, type |-> type]
      /\ \A g \in DOMAIN calls : calls'[g] = calls[g]
  BY <1>1 DEF composeEnqueue, Goto, With
<1>3. /\ id \notin DOMAIN jobs
      /\ DOMAIN jobs' = DOMAIN jobs \cup {id}
      /\ jobs'[id].status = "queued"
      /\ \A x \in DOMAIN jobs : jobs'[x] = jobs[x]
      /\ \A x \in DOMAIN jobs' : jobs'[x] \in Queue!Job
  BY <1>1, Enqueued DEF composeEnqueue
<1>4. id \notin Stored \cup deleted /\ \A g \in DOMAIN calls : calls[g].id # id
  BY <1>1 DEF Fresh, Stored
<1>5. calls'[h].pc = "push" /\ calls'[h].id = id /\ calls'[h].type = type /\ calls'[h] \in Call
  BY <1>2 DEF Call
<1>6. TypeOK'
  BY <1>1, <1>2, <1>3, <1>5 DEF TypeOK
<1>7. Sound(composes)' /\ Sound(disk)'
  BY <1>1, <1>3, <1>4 DEF IInv, Sound, Stored
<1>8. StoreIsWritable' /\ SameOnDisk' /\ KeptTwice'
  BY <1>1 DEF IInv, StoreIsWritable, SameOnDisk, KeptTwice, newImageBuildFromV0
<1>9. PushIsNew'
  BY <1>1, <1>2, <1>3, <1>4, <1>5 DEF IInv, PushIsNew, Stored, ImageTypes
<1>10. DeleteIsOfEnded'
  BY <1>1, <1>2, <1>3, <1>4, <1>5 DEF IInv, DeleteIsOfEnded
<1>11. ArtifactsOfGone' /\ DownIsEmpty'
  BY <1>1, <1>2, <1>5 DEF IInv, ArtifactsOfGone, DownIsEmpty, Stored
<1>12. DeletedOnce'
  BY <1>1, <1>2, <1>5 DEF IInv, DeletedOnce
<1>13. ImageOfStored'
  BY <1>1, <1>2, <1>3, <1>4, <1>5 DEF IInv, ImageOfStored, HasImage, Stored, TypeOK
<1>14. UnfinishedIsOwned'
  BY <1>1, <1>2, <1>3, <1>5 DEF IInv, UnfinishedIsOwned
<1> QED BY <1>6, <1>7, <1>8, <1>9, <1>10, <1>11, <1>12, <1>13, <1>14 DEF IInv

LEMMA EndedStatus ==
    ASSUME IInv, NEW c \in DOMAIN composes, getComposeStatus(composes[c]) \in Settled, c \in DOMAIN jobs
    PROVE  Ended(c)
<1>1. composes[c].JobID = c /\ c # Nil /\ jobs[c] \in Queue!Job
  BY TypesOK DEF IInv, Sound, TypeOK
<1>2. composeStateFromJobStatus(jobs[c]) \in {"finished", "failed"}
  BY <1>1 DEF getComposeStatus, Settled
<1> QED BY <1>1, <1>2 DEF composeStateFromJobStatus, JobStatus, Ended, Queue!Job

\* composeDelete and composeCancel have looked at a compose.
LEMMA BeginKeeps ==
    ASSUME IInv, NEW h \in Handlers, NEW id \in Composes,
           composeDelete(h, id) \/ composeCancel(h, id)
    PROVE  IInv'
<1>1. /\ TypeOK /\ up /\ h \notin DOMAIN calls /\ id \in DOMAIN composes
      /\ UNCHANGED <<jobs, artifacts, moving, up, composes, disk, kept, deleted, forgotten>>
  BY DEF IInv, composeDelete, composeCancel
<1>2. /\ DOMAIN calls' = DOMAIN calls \cup {h}
      /\ calls'[h].id = id /\ calls'[h] \in Call
      /\ calls'[h].pc \in {"delete", "cancel"}
      /\ calls'[h].pc = "delete" /\ id \in DOMAIN jobs => Ended(id)
      /\ \A g \in DOMAIN calls : calls'[g] = calls[g]
  <2>1. CASE composeDelete(h, id)
    <3>1. composes[id].JobID \in Composes \cup {Nil}
      BY <1>1 DEF TypeOK, Compose
    <3>2. id \in DOMAIN jobs => Ended(id)
      BY <1>1, <2>1, EndedStatus DEF composeDelete
    <3> QED BY <1>1, <2>1, <3>1, <3>2 DEF composeDelete, Goto, With, Call
  <2>2. CASE composeCancel(h, id)
    BY <1>1, <2>2 DEF composeCancel, Goto, With, Call
  <2> QED BY <2>1, <2>2
<1>3. TypeOK'
  BY <1>1, <1>2 DEF TypeOK
<1>4. Sound(composes)' /\ Sound(disk)' /\ StoreIsWritable' /\ SameOnDisk' /\ KeptTwice'
  BY <1>1 DEF IInv, Sound, StoreIsWritable, SameOnDisk, KeptTwice, newImageBuildFromV0
<1>5. PushIsNew'
  BY <1>1, <1>2 DEF IInv, PushIsNew, Stored, ImageTypes
<1>6. DeleteIsOfEnded'
  BY <1>1, <1>2 DEF IInv, DeleteIsOfEnded, Ended
<1>7. ArtifactsOfGone' /\ DownIsEmpty'
  BY <1>1, <1>2 DEF IInv, ArtifactsOfGone, DownIsEmpty, Stored
<1>8. DeletedOnce'
  BY <1>1, <1>2 DEF IInv, DeletedOnce
<1>9. ImageOfStored' /\ UnfinishedIsOwned'
  BY <1>1, <1>2 DEF IInv, ImageOfStored, HasImage, Stored, UnfinishedIsOwned
<1> QED BY <1>3, <1>4, <1>5, <1>6, <1>7, <1>8, <1>9 DEF IInv

-----------------------------------------------------------------------------
(***************************************************************************)
(* The store changes, and is written or not.                               *)
(***************************************************************************)
LEMMA PushKeeps ==
    ASSUME IInv, up, NEW h \in Handlers, NEW id \in Composes, NEW c \in Compose,
           PushCompose(h, id, c),
           id \notin Stored \cup deleted,
           c.ImageType \notin Unmapped \cap Denied,
           \/ c.JobID = id /\ id \in DOMAIN jobs /\ h \in DOMAIN calls
           \/ c.JobID = Nil /\ id \notin DOMAIN jobs /\ c.QueueStatus \in Settled,
           \A g \in DOMAIN calls : calls[g].id = id => g = h,
           h \in DOMAIN calls => calls[h].pc = "push" /\ calls[h].id = id
    PROVE  IInv'
<1>1. /\ TypeOK
      /\ DOMAIN composes' = DOMAIN composes \cup {id}
      /\ composes'[id] = c
      /\ \A x \in DOMAIN composes : composes'[x] = composes[x]
      /\ UNCHANGED <<jobs, artifacts, moving, up, deleted, forgotten>>
  BY DEF IInv, PushCompose, With, Stored
<1>2. DOMAIN calls' = DOMAIN calls \ {h} /\ \A g \in DOMAIN calls' : calls'[g] = calls[g]
  BY DEF PushCompose, Return, Without
<1>3. \/ disk' = composes' /\ kept' = With(kept, id, c.ImageType)
      \/ disk' = disk /\ kept' = kept
  BY DEF PushCompose, Saves, Panics
<1>4. TypeOK'
  BY <1>1, <1>2, <1>3 DEF TypeOK
<1>5. Sound(composes)'
  BY <1>1, TypesOK DEF IInv, Sound
<1>6. Sound(disk)' /\ StoreIsWritable'
  <2>1. Sound(disk)'
    BY <1>1, <1>3, <1>5 DEF IInv, Sound
  <2>2. disk' = disk \/ \A x \in DOMAIN disk' : disk'[x].ImageType \notin Unmapped
    BY DEF PushCompose, Saves, Panics
  <2> QED BY <1>1, <2>1, <2>2 DEF IInv, StoreIsWritable
<1>7. SameOnDisk'
  <2>1. \A x \in DOMAIN composes' :
          composes'[x].JobID = Nil => composes'[x].QueueStatus \in Settled
    BY <1>1, TypesOK DEF IInv, SameOnDisk
  <2>2. CASE disk' = composes'
    BY <1>1, <1>4, <2>1, <2>2 DEF SameOnDisk, newImageBuildFromV0, Settled, TypeOK, Compose
  <2>3. CASE disk' = disk
    BY <1>1, <2>1, <2>3 DEF IInv, SameOnDisk, newImageBuildFromV0, Stored
  <2> QED BY <1>3, <2>2, <2>3
<1>8. KeptTwice'
  BY <1>1, <1>3 DEF IInv, KeptTwice, With, Stored
<1>9. PushIsNew'
  BY <1>1, <1>2, <1>3 DEF IInv, PushIsNew, Stored, ImageTypes
<1>10. DeleteIsOfEnded' /\ DownIsEmpty'
  BY <1>1, <1>2 DEF IInv, DeleteIsOfEnded, DownIsEmpty
<1>11. ArtifactsOfGone'
  BY <1>1, <1>2, <1>3 DEF IInv, ArtifactsOfGone, Stored
<1>12. DeletedOnce'
  BY <1>1, <1>2, <1>3 DEF IInv, DeletedOnce, Stored
<1>13. ImageOfStored'
  <2>1. jobs[id].status = "finished" /\ jobs[id].Result = "success" /\ id \in DOMAIN jobs
          => HasImage(id)
    BY DEF IInv, ImageOfStored
  <2> QED BY <1>1, <1>2, <1>3, <2>1 DEF IInv, ImageOfStored, HasImage, Stored
<1>14. UnfinishedIsOwned'
  BY <1>1, <1>2 DEF IInv, UnfinishedIsOwned
<1> QED BY <1>4, <1>5, <1>6, <1>7, <1>8, <1>9, <1>10, <1>11, <1>12, <1>13, <1>14 DEF IInv

LEMMA ComposePushKeeps ==
    ASSUME IInv, NEW h \in Handlers, NEW id \in Composes, composePush(h, id) PROVE IInv'
<1> DEFINE c == [ImageType |-> calls[h].type, JobID |-> id, QueueStatus |-> "waiting"]
<1>1. up /\ h \in DOMAIN calls /\ calls[h].pc = "push" /\ calls[h].id = id /\ PushCompose(h, id, c)
  BY DEF composePush, At
<1>2. /\ id \in DOMAIN jobs /\ calls[h].type \in ImageTypes \ (Unmapped \cap Denied)
      /\ id \notin Stored \cup deleted
      /\ \A g \in DOMAIN calls : calls[g].id = id => g = h
  BY <1>1 DEF IInv, PushIsNew
<1>3. c \in Compose /\ c.ImageType \notin Unmapped \cap Denied /\ c.JobID = id
  BY <1>2 DEF Compose
<1> QED BY <1>1, <1>2, <1>3, PushKeeps

LEMMA ComposeTestKeeps ==
    ASSUME IInv, NEW h \in Handlers, NEW id \in Composes, NEW type \in ImageTypes,
           NEW state \in Settled, composeTest(h, id, type, state)
    PROVE  IInv'
<1> DEFINE c == [ImageType |-> type, JobID |-> Nil, QueueStatus |-> state]
<1>1. up /\ h \notin DOMAIN calls /\ Fresh(id) /\ type \notin Denied /\ PushCompose(h, id, c)
  BY DEF composeTest, isImageTypeAllowed
<1>2. /\ c \in Compose /\ c.ImageType \notin Unmapped \cap Denied /\ c.JobID = Nil
      /\ c.QueueStatus \in Settled
  BY <1>1 DEF Compose, Settled
<1>3. /\ id \notin DOMAIN jobs /\ id \notin Stored \cup deleted
      /\ \A g \in DOMAIN calls : calls[g].id # id
  BY <1>1 DEF Fresh, Stored
<1> QED BY <1>1, <1>2, <1>3, PushKeeps

LEMMA DeleteComposeKeeps ==
    ASSUME IInv, NEW h \in Handlers, NEW id \in Composes, DeleteCompose(h, id)
    PROVE  IInv'
<1>1. /\ TypeOK /\ up /\ h \in DOMAIN calls /\ calls[h].pc = "delete" /\ calls[h].id = id
      /\ DOMAIN composes' = DOMAIN composes \ {id}
      /\ \A x \in DOMAIN composes' : composes'[x] = composes[x]
      /\ DOMAIN kept' = DOMAIN kept \ {id} /\ \A x \in DOMAIN kept' : kept'[x] = kept[x]
      /\ UNCHANGED <<jobs, artifacts, moving, up, deleted, forgotten>>
  BY DEF IInv, DeleteCompose, At, Without
<1>2. /\ \/ DOMAIN calls' = DOMAIN calls \ {h}
         \/ /\ DOMAIN calls' = DOMAIN calls /\ id \in DOMAIN composes /\ disk' = composes'
            /\ calls'[h].pc = "artifacts" /\ calls'[h].id = id /\ calls'[h] \in Call
      /\ \A g \in DOMAIN calls' : g # h => calls'[g] = calls[g]
  <2>1. CASE Return(h)
    BY <2>1 DEF Return, Without
  <2>2. CASE Saves(composes') /\ id \in DOMAIN composes /\ Goto(h, "artifacts", id, calls[h].type)
    <3>1. calls[h].type \in ImageTypes \cup Composes \cup {Nil}
      BY <1>1 DEF TypeOK, Call
    <3>2. [pc |-> "artifacts", id |-> id, type |-> calls[h].type] \in Call
      BY <3>1 DEF Call
    <3> QED BY <1>1, <2>2, <3>2 DEF Goto, With, Saves
  <2> QED BY <2>1, <2>2 DEF DeleteCompose
<1>3. disk' = composes' \/ disk' = disk
  BY DEF DeleteCompose, Saves, Panics
<1>4. TypeOK'
  BY <1>1, <1>2, <1>3 DEF TypeOK
<1>5. Sound(composes)' /\ Sound(disk)' /\ StoreIsWritable'
  <2>1. Sound(composes)' /\ Sound(disk)'
    BY <1>1, <1>3 DEF IInv, Sound
  <2>2. disk' = disk \/ \A x \in DOMAIN disk' : disk'[x].ImageType \notin Unmapped
    BY DEF DeleteCompose, Saves, Panics
  <2> QED BY <1>1, <2>1, <2>2 DEF IInv, StoreIsWritable
<1>6. SameOnDisk'
  <2>1. CASE disk' = composes'
    BY <1>1, <1>4, <2>1 DEF IInv, SameOnDisk, newImageBuildFromV0, Settled, TypeOK, Compose
  <2>2. CASE disk' = disk
    BY <1>1, <2>2 DEF IInv, SameOnDisk, newImageBuildFromV0
  <2> QED BY <1>3, <2>1, <2>2
<1>7. KeptTwice'
  BY <1>1, <1>3 DEF IInv, KeptTwice
<1>8. PushIsNew'
  BY <1>1, <1>2, <1>3 DEF IInv, PushIsNew, Stored, ImageTypes
<1>9. DeleteIsOfEnded' /\ DownIsEmpty'
  BY <1>1, <1>2 DEF IInv, DeleteIsOfEnded, DownIsEmpty
<1>10. ArtifactsOfGone'
  BY <1>1, <1>2, <1>3 DEF IInv, ArtifactsOfGone, Stored
<1>11. DeletedOnce'
  <2>1. id \in DOMAIN composes => /\ id \notin deleted
                                  /\ \A g \in DOMAIN calls : calls[g].pc = "artifacts" => calls[g].id # id
    BY DEF IInv, DeletedOnce, ArtifactsOfGone, Stored
  <2> QED BY <1>1, <1>2, <1>3, <2>1 DEF IInv, DeletedOnce
<1>12. ImageOfStored'
  BY <1>1, <1>2, <1>3 DEF IInv, ImageOfStored, HasImage, Stored
<1>13. UnfinishedIsOwned'
  <2>1. id \in DOMAIN jobs => jobs[id].status \notin {"queued", "running"}
    BY <1>1 DEF IInv, DeleteIsOfEnded
  <2> QED BY <1>1, <1>2, <2>1 DEF IInv, UnfinishedIsOwned
<1> QED BY <1>4, <1>5, <1>6, <1>7, <1>8, <1>9, <1>10, <1>11, <1>12, <1>13 DEF IInv

LEMMA DeleteArtifactsKeeps ==
    ASSUME IInv, NEW h \in Handlers, NEW id \in Composes, DeleteArtifacts(h, id)
    PROVE  IInv'
<1>1. /\ TypeOK /\ up /\ h \in DOMAIN calls /\ calls[h].pc = "artifacts" /\ calls[h].id = id
      /\ artifacts' \in [Composes -> {"none", "empty", "tmp", "final"}]
      /\ \A x \in Composes : x # id => artifacts'[x] = artifacts[x]
      /\ deleted' = deleted \cup {id}
      /\ UNCHANGED <<jobs, moving, up, composes, disk, kept, forgotten>>
  BY DEF IInv, TypeOK, DeleteArtifacts, At
<1>2. DOMAIN calls' = DOMAIN calls \ {h} /\ \A g \in DOMAIN calls' : calls'[g] = calls[g]
  BY DEF DeleteArtifacts, Return, Without
<1>3. id \notin Stored /\ \A g \in DOMAIN calls : calls[g].pc = "push" => calls[g].id # id
  BY <1>1 DEF IInv, ArtifactsOfGone, PushIsNew
<1>4. TypeOK'
  BY <1>1, <1>2 DEF TypeOK
<1>5. Sound(composes)' /\ Sound(disk)' /\ StoreIsWritable' /\ SameOnDisk' /\ KeptTwice'
  BY <1>1 DEF IInv, Sound, StoreIsWritable, SameOnDisk, KeptTwice, newImageBuildFromV0
<1>6. PushIsNew'
  BY <1>1, <1>2, <1>3 DEF IInv, PushIsNew, Stored, ImageTypes
<1>7. DeleteIsOfEnded' /\ ArtifactsOfGone' /\ DownIsEmpty'
  BY <1>1, <1>2 DEF IInv, DeleteIsOfEnded, ArtifactsOfGone, DownIsEmpty, Stored
<1>8. DeletedOnce'
  BY <1>1, <1>2, <1>3 DEF IInv, DeletedOnce, Stored
<1>9. ImageOfStored'
  BY <1>1, <1>2, <1>3 DEF IInv, ImageOfStored, HasImage, Stored, TypeOK
<1>10. UnfinishedIsOwned'
  BY <1>1, <1>2 DEF IInv, UnfinishedIsOwned
<1> QED BY <1>4, <1>5, <1>6, <1>7, <1>8, <1>9, <1>10 DEF IInv

-----------------------------------------------------------------------------
LEMMA CrashKeeps == ASSUME IInv, Crash PROVE IInv'
<1>1. /\ TypeOK /\ ~up' /\ up' \in BOOLEAN
      /\ DOMAIN composes' = {} /\ DOMAIN calls' = {} /\ moving' = {}
      /\ UNCHANGED <<jobs, artifacts, disk, kept, deleted, forgotten>>
  BY DEF IInv, Crash
<1>2. TypeOK'
  BY <1>1 DEF TypeOK
<1>3. Sound(composes)' /\ Sound(disk)' /\ StoreIsWritable' /\ SameOnDisk' /\ KeptTwice'
  BY <1>1 DEF IInv, Sound, StoreIsWritable, SameOnDisk, KeptTwice, newImageBuildFromV0
<1>4. PushIsNew' /\ DeleteIsOfEnded' /\ ArtifactsOfGone' /\ DownIsEmpty' /\ UnfinishedIsOwned'
  BY <1>1 DEF PushIsNew, DeleteIsOfEnded, ArtifactsOfGone, DownIsEmpty, UnfinishedIsOwned
<1>5. DeletedOnce' /\ ImageOfStored'
  BY <1>1 DEF IInv, DeletedOnce, ImageOfStored, HasImage, Stored
<1> QED BY <1>2, <1>3, <1>4, <1>5 DEF IInv

\* What store.New makes of the file.
LEMMA Loaded ==
    ASSUME TypeOK
    PROVE  LET new == newComposesFromV0(disk)
           IN  /\ DOMAIN new = {c \in DOMAIN disk : disk[c].ImageType \in Host}
               /\ \A c \in DOMAIN new :
                     /\ new[c] \in Compose
                     /\ new[c].JobID = disk[c].JobID
                     /\ new[c].ImageType = disk[c].ImageType
                     /\ new[c].QueueStatus = newImageBuildFromV0(disk[c]).QueueStatus
                     /\ new[c].QueueStatus \in Settled
<1>1. \A c \in DOMAIN disk : disk[c] \in Compose
  BY DEF TypeOK
<1>2. \A r \in Compose : /\ newImageBuildFromV0(r) \in Compose
                         /\ newImageBuildFromV0(r).JobID = r.JobID
                         /\ newImageBuildFromV0(r).ImageType = r.ImageType
                         /\ newImageBuildFromV0(r).QueueStatus \in Settled
  BY DEF newImageBuildFromV0, Compose, Settled
<1> QED BY <1>1, <1>2 DEF newComposesFromV0

LEMMA NewKeeps == ASSUME IInv, New PROVE IInv'
<1>1. /\ TypeOK /\ ~up /\ up' /\ up' \in BOOLEAN /\ DOMAIN calls = {}
      /\ composes' = newComposesFromV0(disk)
      /\ forgotten' = forgotten \cup (DOMAIN jobs \ DOMAIN composes')
      /\ UNCHANGED <<jobs, artifacts, moving, disk, calls, kept, deleted>>
  BY DEF IInv, New, DownIsEmpty
<1>2. /\ DOMAIN composes' = {c \in DOMAIN disk : disk[c].ImageType \in Host}
      /\ \A c \in DOMAIN composes' :
            /\ composes'[c] \in Compose
            /\ composes'[c].JobID = disk[c].JobID
            /\ composes'[c].ImageType = disk[c].ImageType
            /\ composes'[c].QueueStatus = newImageBuildFromV0(disk[c]).QueueStatus
            /\ composes'[c].QueueStatus \in Settled
  BY <1>1, Loaded
<1>3. TypeOK'
  BY <1>1, <1>2 DEF TypeOK
<1>4. Sound(composes)' /\ Sound(disk)' /\ StoreIsWritable'
  BY <1>1, <1>2 DEF IInv, Sound, StoreIsWritable
<1>5. SameOnDisk'
  BY <1>1, <1>2 DEF SameOnDisk, newImageBuildFromV0
<1>6. KeptTwice'
  BY <1>1, <1>2 DEF IInv, KeptTwice
<1>7. PushIsNew' /\ DeleteIsOfEnded' /\ ArtifactsOfGone' /\ DownIsEmpty'
  BY <1>1 DEF PushIsNew, DeleteIsOfEnded, ArtifactsOfGone, DownIsEmpty
<1>8. DeletedOnce' /\ ImageOfStored' /\ UnfinishedIsOwned'
  BY <1>1, <1>2 DEF IInv, DeletedOnce, ImageOfStored, HasImage, Stored, UnfinishedIsOwned
<1> QED BY <1>3, <1>4, <1>5, <1>6, <1>7, <1>8 DEF IInv

-----------------------------------------------------------------------------
LEMMA Step == ASSUME IInv, [Next]_vars PROVE IInv'
<1>1. ASSUME NEW h \in Handlers, NEW id \in Composes, NEW type \in ImageTypes,
             composeEnqueue(h, id, type)
      PROVE  IInv'
  BY <1>1, EnqueueKeeps
<1>2. ASSUME NEW h \in Handlers, NEW id \in Composes, NEW type \in ImageTypes,
             NEW state \in Settled, composeTest(h, id, type, state)
      PROVE  IInv'
  BY <1>2, ComposeTestKeeps
<1>3. ASSUME NEW h \in Handlers, NEW id \in Composes, composePush(h, id) \/ CancelJob(h, id)
      PROVE  IInv'
  BY <1>3, ComposePushKeeps, CancelJobKeeps
<1>4. ASSUME NEW h \in Handlers, NEW id \in Composes,
             \/ composeDelete(h, id) \/ DeleteCompose(h, id) \/ DeleteArtifacts(h, id)
             \/ composeCancel(h, id)
      PROVE  IInv'
  BY <1>4, BeginKeeps, DeleteComposeKeeps, DeleteArtifactsKeeps
<1>5. ASSUME NEW id \in Composes, NEW token \in Tokens, RequestJob(id, token) PROVE IInv'
  BY <1>5, RequestKeeps
<1>6. ASSUME NEW id \in Composes, NEW result \in Results, FinishJob(id, result) PROVE IInv'
  BY <1>6, FinishKeeps
<1>7. ASSUME NEW id \in Composes, UploadJobArtifact(id) \/ MoveArtifacts(id) \/ MoveFails(id)
      PROVE  IInv'
  BY <1>7, ArtifactsKeep
<1>8. CASE UNCHANGED vars
  <2>1. TypeOK'
    BY <1>8 DEF IInv, TypeOK, vars
  <2>2. Sound(composes)' /\ Sound(disk)' /\ StoreIsWritable' /\ SameOnDisk' /\ KeptTwice'
    BY <1>8 DEF IInv, Sound, StoreIsWritable, SameOnDisk, KeptTwice, newImageBuildFromV0, vars
  <2>3. PushIsNew' /\ DeleteIsOfEnded' /\ ArtifactsOfGone' /\ DeletedOnce' /\ ImageOfStored'
        /\ DownIsEmpty' /\ UnfinishedIsOwned'
    BY <1>8 DEF IInv, PushIsNew, DeleteIsOfEnded, ArtifactsOfGone, DeletedOnce, ImageOfStored,
                DownIsEmpty, UnfinishedIsOwned, HasImage, Stored, vars
  <2> QED BY <2>1, <2>2, <2>3 DEF IInv
<1> QED BY <1>1, <1>2, <1>3, <1>4, <1>5, <1>6, <1>7, <1>8, CrashKeeps, NewKeeps DEF Next

\* The queue, the store, its file and the artifacts agree in every state of
\* every run of the handlers, of the workers and of restarts.
THEOREM Invariant == Spec => []IInv
  BY Initially, Step, PTL DEF Spec

-----------------------------------------------------------------------------
(***************************************************************************)
(* What the clients see.                                                   *)
(***************************************************************************)

\* What is shown is what memory or, before the restart, the file says.
LEMMA ShownIsSound ==
    ASSUME IInv, NEW c \in DOMAIN Shown
    PROVE  /\ c \in Stored
           /\ Shown[c].JobID # Nil => Shown[c].JobID = c /\ c \in DOMAIN jobs
           /\ Shown[c].JobID = Nil => Shown[c].QueueStatus \in Settled
<1>1. CASE up
  BY <1>1 DEF Shown, IInv, Sound, SameOnDisk, Stored
<1>2. CASE ~up
  <2>1. TypeOK
    BY DEF IInv
  <2>2. /\ c \in DOMAIN disk
        /\ Shown[c].JobID = disk[c].JobID /\ Shown[c].QueueStatus \in Settled
    BY <1>2, <2>1, Loaded DEF Shown
  <2> QED BY <2>2 DEF IInv, Sound, Stored
<1> QED BY <1>1, <1>2

LEMMA ImpliesKept == IInv => ComposesAreKept
<1> SUFFICES ASSUME IInv PROVE ComposesAreKept
  OBVIOUS
<1>1. TypeOK
  BY DEF IInv
<1>2. AcceptedIsKept
  BY <1>1, Loaded DEF IInv, KeptTwice, AcceptedIsKept, Shown
<1>3. FinishedKeepsImage
  <2> SUFFICES ASSUME NEW c \in DOMAIN Shown, Shown[c].JobID # Nil,
                      jobs[c].status = "finished", jobs[c].Result = "success"
               PROVE  artifacts[c] \in {"tmp", "final"}
    BY DEF FinishedKeepsImage
  <2>1. c \in Stored /\ c \in DOMAIN jobs
    BY ShownIsSound
  <2> QED BY <2>1 DEF IInv, ImageOfStored, HasImage
<1> QED BY <1>2, <1>3 DEF IInv, ComposesAreKept

\* No compose is lost, whatever the handlers, the workers, failed writes and
\* restarts do in between: one that was answered stays until a client deletes
\* it, one that its worker reported as a success has its image, at least among
\* the temporary artifacts, and one that was deleted does not come back.
THEOREM Kept == Spec => []ComposesAreKept
  BY Invariant, ImpliesKept, PTL

\* A job that may still be run belongs to a compose that a client can see
\* and cancel, or to a handler that is about to push it, unless a restart
\* left it behind.
THEOREM Owned == Spec => []UnfinishedIsOwned
<1>1. IInv => UnfinishedIsOwned
  BY DEF IInv
<1> QED BY <1>1, Invariant, PTL

\* The states of a compose, and what its job says then.
LEMMA StateOfCompose ==
    ASSUME IInv, NEW c \in DOMAIN composes
    PROVE  LET s == getComposeStatus(composes[c])
           IN  /\ composes[c].JobID = Nil => s \in Settled
               /\ composes[c].JobID # Nil =>
                    /\ composes[c].JobID = c /\ c \in DOMAIN jobs
                    /\ s \in {"waiting", "running", "finished", "failed"}
                    /\ s \in Settled <=> jobs[c].status \in {"finished", "canceled"}
                    /\ s = "finished" => /\ jobs[c].status = "finished"
                                       /\ jobs[c].Result \in {"unmarked", "success"}
<1>1. CASE composes[c].JobID = Nil
  BY <1>1 DEF IInv, SameOnDisk, getComposeStatus
<1>2. CASE composes[c].JobID # Nil
  <2>1. composes[c].JobID = c /\ c \in DOMAIN jobs /\ jobs[c] \in Queue!Job
    BY <1>2 DEF IInv, Sound, TypeOK
  <2>2. jobs[c].status \in {"queued", "running", "finished", "canceled"}
    BY <2>1 DEF Queue!Job
  <2> QED BY <1>2, <2>1, <2>2 DEF getComposeStatus, composeStateFromJobStatus, JobStatus, Settled
<1> QED BY <1>1, <1>2

LEMMA ImpliesAnswered == IInv => RequestsAreAnswered
<1> SUFFICES ASSUME IInv PROVE RequestsAreAnswered
  OBVIOUS
<1>1. TypeOK /\ StoreIsWritable
  BY DEF IInv
<1>2. StatusIsReadable
  BY ShownIsSound DEF StatusIsReadable, Readable
<1>3. AnswersAgree
  <2> SUFFICES ASSUME NEW id \in DOMAIN composes
               PROVE  LET ended == jobs[composes[id].JobID]
                      IN  /\ composeImage(id) = "image" =>
                               composeLogs(id) = "logs" /\ {"image", "logs"} \subseteq composeResults(id)
                          /\ composeMetadata(id) = "metadata" <=> "metadata" \in composeResults(id)
                          /\ composeLogs(id) = "panic" <=> composeLog(id) = "panic"
                          /\ composeLogs(id) = "panic" =>
                               /\ getComposeStatus(composes[id]) = "failed"
                               /\ composes[id].JobID # Nil
                               /\ ended.status = "canceled" \/ ended.Result = "null"
    BY DEF AnswersAgree
  <2> DEFINE s == getComposeStatus(composes[id])
             r == Result(composes[id])
  <2>1. s \in {"waiting", "running", "finished", "failed"}
    BY StateOfCompose DEF Settled
  <2>2. s = "finished" => r # "nil"
    BY StateOfCompose DEF Result
  <2>3. s \in Settled /\ r = "nil" =>
          /\ composes[id].JobID # Nil
          /\ jobs[composes[id].JobID].status = "canceled" \/ jobs[composes[id].JobID].Result = "null"
    BY StateOfCompose DEF Result
  <2> HIDE DEF s, r
  <2>4. composeImage(id) = "image" => s = "finished" /\ openImageFile(id)
    BY DEF composeImage, s
  <2>5. composeLogs(id) = IF s \notin Settled THEN "wrong state"
                          ELSE IF r = "nil" THEN "panic" ELSE "logs"
    BY DEF composeLogs, s, r
  <2>6. composeLog(id) = IF s \in {"waiting", "running"} THEN s
                         ELSE IF r = "nil" THEN "panic" ELSE "logs"
    BY DEF composeLog, s, r
  <2>7. composeMetadata(id) = IF s \in Settled THEN "metadata" ELSE "wrong state"
    BY DEF composeMetadata, s
  <2>8. /\ "metadata" \in composeResults(id) <=> s \in Settled
        /\ s \in Settled /\ r # "nil" => "logs" \in composeResults(id)
        /\ s \in Settled /\ openImageFile(id) => "image" \in composeResults(id)
    BY DEF composeResults, s, r
  <2>9. getComposeStatus(composes[id]) = s
    BY DEF s
  <2> QED BY <2>1, <2>2, <2>3, <2>4, <2>5, <2>6, <2>7, <2>8, <2>9 DEF Settled
<1> QED BY <1>1, <1>2, <1>3 DEF RequestsAreAnswered

\* Every request about a compose can be answered, whatever went wrong before:
\* getComposeStatus knows the job of every compose, a change of the store can
\* be written unless the denylist has let a type without a mapping in, and the
\* answers about one compose agree; the logs of a compose that failed without
\* a result are the exception.
THEOREM Answered == Spec => []RequestsAreAnswered
  BY Invariant, ImpliesAnswered, PTL

-----------------------------------------------------------------------------
(***************************************************************************)
(* What a step may do to the queue and to a compose that stays.            *)
(***************************************************************************)
Same == \A c \in DOMAIN composes \cap DOMAIN composes' : composes'[c] = composes[c]

LEMMA StepKeeps ==
    ASSUME IInv, [Next]_vars
    PROVE  Keeps /\ (Crash \/ New \/ (Same /\ (UNCHANGED vars \/ (up /\ up'))))
<1>0. TypeOK
  BY DEF IInv
<1>1. ASSUME NEW h \in Handlers, NEW id \in Composes, NEW type \in ImageTypes,
             composeEnqueue(h, id, type)
      PROVE  Keeps /\ Same /\ up /\ up'
  <2>1. /\ DOMAIN jobs' = DOMAIN jobs \cup {id} /\ \A x \in DOMAIN jobs : jobs'[x] = jobs[x]
    BY <1>0, <1>1, Enqueued DEF composeEnqueue
  <2> QED BY <1>1, <2>1 DEF composeEnqueue, Keeps, Same
<1>2. ASSUME NEW h \in Handlers, NEW id \in Composes, NEW type \in ImageTypes,
             NEW state \in Settled, composeTest(h, id, type, state)
      PROVE  Keeps /\ Same /\ up /\ up'
  BY <1>2 DEF composeTest, PushCompose, With, Fresh, Keeps, Same
<1>3. ASSUME NEW h \in Handlers, NEW id \in Composes, composePush(h, id)
      PROVE  Keeps /\ Same /\ up /\ up'
  <2>1. id \notin DOMAIN composes
    BY <1>3 DEF composePush, At, IInv, PushIsNew, Stored
  <2> QED BY <1>3, <2>1 DEF composePush, At, PushCompose, With, Keeps, Same
<1>4. ASSUME NEW h \in Handlers, NEW id \in Composes, CancelJob(h, id)
      PROVE  Keeps /\ Same /\ up /\ up'
  BY <1>0, <1>4, Canceled DEF CancelJob, At, Keeps, Same, Ended
<1>5. ASSUME NEW h \in Handlers, NEW id \in Composes,
             \/ composeDelete(h, id) \/ DeleteCompose(h, id) \/ DeleteArtifacts(h, id)
             \/ composeCancel(h, id)
      PROVE  Keeps /\ Same /\ up /\ up'
  BY <1>5 DEF composeDelete, DeleteCompose, DeleteArtifacts, composeCancel, At, Without, Keeps, Same
<1>6. ASSUME NEW id \in Composes, NEW token \in Tokens, RequestJob(id, token)
      PROVE  Keeps /\ Same /\ up /\ up'
  BY <1>0, <1>6, Dequeued DEF RequestJob, Keeps, Same, Ended
<1>7. ASSUME NEW id \in Composes, NEW result \in Results, FinishJob(id, result)
      PROVE  Keeps /\ Same /\ up /\ up'
  BY <1>0, <1>7, Finished DEF FinishJob, Keeps, Same, Ended
<1>8. ASSUME NEW id \in Composes, UploadJobArtifact(id) \/ MoveArtifacts(id) \/ MoveFails(id)
      PROVE  Keeps /\ Same /\ up /\ up'
  BY <1>8 DEF UploadJobArtifact, MoveArtifacts, MoveFails, Keeps, Same
<1>9. CASE Crash \/ New
  BY <1>9 DEF Crash, New, Keeps
<1>10. CASE UNCHANGED vars
  BY <1>10 DEF vars, Keeps, Same
<1> QED BY <1>1, <1>2, <1>3, <1>4, <1>5, <1>6, <1>7, <1>8, <1>9, <1>10 DEF Next

\* A compose that is shown before and after a step has the same job and, without a job,
\* the same state.
LEMMA ShownStays ==
    ASSUME IInv, [Next]_vars, NEW c \in DOMAIN Shown \cap DOMAIN Shown'
    PROVE  /\ Shown'[c].JobID = Shown[c].JobID
           /\ Shown[c].JobID = Nil => Shown'[c].QueueStatus = Shown[c].QueueStatus
<1>0. TypeOK
  BY DEF IInv
<1>1. CASE Crash
  <2>1. up /\ ~up' /\ disk' = disk
    BY <1>1 DEF Crash
  <2>2. /\ Shown = composes /\ Shown' = newComposesFromV0(disk)
    BY <2>1 DEF Shown, newComposesFromV0, newImageBuildFromV0
  <2>3. /\ c \in DOMAIN composes /\ c \in DOMAIN disk
        /\ Shown'[c].JobID = disk[c].JobID
        /\ Shown'[c].QueueStatus = newImageBuildFromV0(disk[c]).QueueStatus
    BY <1>0, <2>2, Loaded
  <2> QED BY <2>2, <2>3 DEF IInv, SameOnDisk
<1>2. CASE New
  <2>1. Shown' = Shown
    BY <1>2 DEF New, Shown
  <2> QED BY <2>1
<1>3. CASE Same /\ up /\ up'
  BY <1>3 DEF Shown, Same
<1>4. CASE UNCHANGED vars
  <2>1. Shown' = Shown
    BY <1>4 DEF vars, Shown, newComposesFromV0, newImageBuildFromV0
  <2> QED BY <2>1
<1> QED BY <1>1, <1>2, <1>3, <1>4, StepKeeps

\* A compose that is shown as finished or failed stays so until it is
\* deleted: no cancellation, expiry, failed write or restart changes it.
THEOREM FinalStatus == Spec => StatusIsFinal
<1>1. ASSUME IInv, [Next]_vars, NEW c \in DOMAIN Shown \cap DOMAIN Shown',
             getComposeStatus(Shown[c]) \in Settled
      PROVE  getComposeStatus(Shown[c])' = getComposeStatus(Shown[c])
  <2>1. /\ Shown'[c].JobID = Shown[c].JobID
        /\ Shown[c].JobID = Nil => Shown'[c].QueueStatus = Shown[c].QueueStatus
    BY <1>1, ShownStays
  <2>2. CASE Shown[c].JobID = Nil
    BY <2>1, <2>2 DEF getComposeStatus
  <2>3. CASE Shown[c].JobID # Nil
    <3>1. Shown[c].JobID = c /\ c \in DOMAIN jobs /\ jobs[c] \in Queue!Job
      BY <1>1, <2>3, ShownIsSound DEF IInv, TypeOK
    <3>2. composeStateFromJobStatus(jobs[c]) \in {"finished", "failed"}
      BY <1>1, <2>3, <3>1 DEF getComposeStatus, Settled
    <3>3. Ended(c)
      BY <3>1, <3>2 DEF composeStateFromJobStatus, JobStatus, Ended, Queue!Job
    <3>4. jobs'[c] = jobs[c]
      BY <1>1, <3>1, <3>3, StepKeeps DEF Keeps
    <3> QED BY <2>1, <2>3, <3>1, <3>4 DEF getComposeStatus
  <2> QED BY <2>2, <2>3
<1>2. IInv /\ [Next]_vars =>
        [\A c \in DOMAIN Shown \cap DOMAIN Shown' :
            getComposeStatus(Shown[c]) \in Settled =>
                getComposeStatus(Shown[c])' = getComposeStatus(Shown[c])]_vars
  BY <1>1
<1> QED BY <1>2, Invariant, PTL DEF Spec, StatusIsFinal

(***************************************************************************)
(* The handlers of the Weldr API, the workers and WatchHeartbeats use the  *)
(* queue as JobQueue says they may, also when the handler that cancels a   *)
(* job comes after it has ended and when a restart has forgotten whose job *)
(* it is: Weldr composes are a behaviour of JobQueue, so they may run on   *)
(* either implementation.                                                  *)
(***************************************************************************)
THEOREM UsesJobQueue == Spec => Queue!Spec
<1>1. Init => Queue!Init
  <2> SUFFICES ASSUME Init PROVE Queue!Init
    OBVIOUS
  <2>1. jobs \in [{} -> {j \in Queue!Job : j.status = "running"}]
    BY DEF Init
  <2> QED BY <2>1 DEF Queue!Init
<1>2. IInv /\ [Next]_vars => [Queue!Next]_jobs
  <2> SUFFICES ASSUME IInv, [Next]_vars PROVE Queue!Next \/ jobs' = jobs
    OBVIOUS
  <2>1. ASSUME NEW h \in Handlers, NEW id \in Composes, NEW type \in ImageTypes,
               composeEnqueue(h, id, type)
        PROVE  Queue!Next
    BY <2>1 DEF composeEnqueue, Queue!Next
  <2>2. ASSUME NEW h \in Handlers, NEW id \in Composes, CancelJob(h, id)
        PROVE  Queue!Next \/ jobs' = jobs
    BY <2>2 DEF CancelJob, Queue!Next
  <2>3. ASSUME NEW id \in Composes, NEW token \in Tokens, RequestJob(id, token) PROVE Queue!Next
    BY <2>3 DEF RequestJob, Queue!Next
  <2>4. ASSUME NEW id \in Composes, NEW result \in Results, FinishJob(id, result) PROVE Queue!Next
    BY <2>4 DEF FinishJob, Queue!Next
  <2>5. \/ \E h \in Handlers, id \in Composes, type \in ImageTypes : composeEnqueue(h, id, type)
        \/ \E h \in Handlers, id \in Composes : CancelJob(h, id)
        \/ \E id \in Composes, token \in Tokens : RequestJob(id, token)
        \/ \E id \in Composes, result \in Results : FinishJob(id, result)
        \/ jobs' = jobs
    BY DEF Next, composeTest, composePush, PushCompose, composeDelete, DeleteCompose, DeleteArtifacts,
           composeCancel, UploadJobArtifact, MoveArtifacts, MoveFails, Crash, New, vars
  <2> QED BY <2>1, <2>2, <2>3, <2>4, <2>5
<1> QED BY <1>1, <1>2, Invariant, PTL DEF Spec, Queue!Spec
=============================================================================

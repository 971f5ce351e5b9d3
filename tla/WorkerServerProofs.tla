------------------------- MODULE WorkerServerProofs -------------------------
(***************************************************************************)
(* Proofs about WorkerServer, for any jobs, slots, processes and faults,   *)
(* either queue and any number of restarts.                                *)
(***************************************************************************)
EXTENDS WorkerServer, TLAPS

Used(token) == \E j \in DOMAIN jobs : jobs[j].Token = token

\* The job with this token has finished.
Over(token) == \E j \in DOMAIN jobs : jobs[j].Token = token /\ jobs[j].status = "finished"

\* Before the image is uploaded.
Early == {"building", "upload", "copying"}

UploadOver(token) == \A s \in Slots : slot[s].token = token => slot[s].st \notin Early

\* A job gets a token, one of its own, when it is handed out.
TokensUnique ==
    /\ \A x, y \in DOMAIN jobs : jobs[x].Token = jobs[y].Token /\ jobs[x].Token # Nil => x = y
    /\ \A x \in DOMAIN jobs : jobs[x].status = "queued" => jobs[x].Token = Nil

\* A token that is known leads to the job that has it.
TokensLeadToJobs ==
    \A t \in Tokens : jobIdByToken[t] # Nil =>
        jobIdByToken[t] \in DOMAIN jobs /\ jobs[jobIdByToken[t]].Token = t

\* A slot works with the token of a job, and with one of its own.
SlotsHoldTokens ==
    /\ \A s \in Slots : slot[s] \notin {Idle, Gone} =>
          /\ slot[s].st \notin {"idle", "gone"}
          /\ slot[s].token \in Tokens
          /\ Used(slot[s].token)
    /\ \A r, s \in Slots : slot[r].token = slot[s].token /\ slot[r].token # Nil => r = s

\* A slot that goes on to the targets, or to report a success, has uploaded the whole image;
\* it is where it was uploaded until the job is finished.
SlotsHaveUploaded ==
    \A s \in Slots :
        /\ slot[s].st \in Early \cup {"targets"} => ~slot[s].result.Success
        /\ slot[s].st = "targets" \/ slot[s].result.Success =>
              tmp[slot[s].token] = "complete" \/ Over(slot[s].token)

\* A call of FinishJob is for the job of its token.
CallsKnowJobs ==
    \A c \in finishing :
        /\ c.id \in DOMAIN jobs
        /\ jobs[c.id].Token = c.token
        /\ c.step = "move" => jobs[c.id].status = "finished"

\* A success is reported when the image has been uploaded.
CallsHaveUploaded ==
    \A c \in finishing : c.result.Success =>
        /\ UploadOver(c.token)
        /\ c.step = "finish" => tmp[c.token] = "complete" \/ jobs[c.id].status = "finished"

\* An open upload is that of a job; a file is elsewhere only if its job has finished.
HandlesOfJobs ==
    \A t \in Tokens :
        /\ handle[t] # "closed" => Used(t)
        /\ handle[t] \in {"final", "deleted"} => Over(t)

\* Nothing but the whole image can be moved for a job that succeeded.
SuccessIsUploaded ==
    \A j \in DOMAIN jobs : jobs[j].status = "finished" /\ jobs[j].Result.Success =>
        /\ jobs[j].Token \in Tokens
        /\ UploadOver(jobs[j].Token)
        /\ tmp[jobs[j].Token] \in {"complete", "none"}

(***************************************************************************)
(* The inductive invariant.  ArtifactsInPlace and SuccessHasArtifact speak *)
(* of finished jobs; what makes them true is known earlier, by the slot    *)
(* that uploads and by the calls of FinishJob between their steps.         *)
(***************************************************************************)
IInv ==
    /\ TypeOK
    /\ TokensUnique
    /\ TokensLeadToJobs
    /\ SlotsHoldTokens
    /\ SlotsHaveUploaded
    /\ CallsKnowJobs
    /\ CallsHaveUploaded
    /\ HandlesOfJobs
    /\ SuccessIsUploaded
    /\ OnlyFinishedHaveArtifacts
    /\ SuccessHasArtifact

-----------------------------------------------------------------------------
(***************************************************************************)
(* The operations of the queue: which jobs there are, and what becomes of  *)
(* their tokens and of those that have finished.                           *)
(***************************************************************************)
LEMMA Enqueued ==
    ASSUME TypeOK, NEW j \in Jobs, Queue!Enqueue(j, "osbuild", {})
    PROVE  /\ j \notin DOMAIN jobs
           /\ DOMAIN jobs' = DOMAIN jobs \cup {j}
           /\ jobs'[j].status = "queued"
           /\ jobs'[j].Token = Nil
           /\ \A x \in DOMAIN jobs : jobs'[x] = jobs[x]
           /\ \A x \in DOMAIN jobs' : jobs'[x] \in Queue!Job
  BY DEF TypeOK, Queue!Enqueue, Queue!With, Queue!Job

LEMMA Dequeued ==
    ASSUME TypeOK, NEW j \in Jobs, NEW token \in Tokens, Queue!Dequeue(j, token)
    PROVE  /\ j \in DOMAIN jobs
           /\ jobs[j].status = "queued"
           /\ \A x \in DOMAIN jobs : jobs[x].Token # token
           /\ DOMAIN jobs' = DOMAIN jobs
           /\ jobs'[j].status = "running"
           /\ jobs'[j].Token = token
           /\ \A x \in DOMAIN jobs : x # j => jobs'[x] = jobs[x]
           /\ \A x \in DOMAIN jobs' : jobs'[x] \in Queue!Job
<1>1. /\ j \in DOMAIN jobs /\ jobs[j].status = "queued" /\ jobs[j] \in Queue!Job
      /\ \A x \in DOMAIN jobs : jobs[x].Token # token
      /\ jobs' = [jobs EXCEPT ![j].status = "running", ![j].Token = token]
  BY DEF TypeOK, Queue!Dequeue
<1>2. /\ DOMAIN jobs' = DOMAIN jobs
      /\ jobs'[j] = [jobs[j] EXCEPT !.status = "running", !.Token = token]
      /\ \A x \in DOMAIN jobs : x # j => jobs'[x] = jobs[x]
  BY <1>1
<1>3. /\ jobs'[j].status = "running" /\ jobs'[j].Token = token
      /\ jobs'[j] \in Queue!Job
  BY <1>1, <1>2 DEF Queue!Job
<1> QED BY <1>1, <1>2, <1>3 DEF TypeOK

LEMMA Finished ==
    ASSUME TypeOK, NEW j \in Jobs, NEW r \in OSBuildJobResult, Queue!FinishJob(j, r)
    PROVE  /\ j \in DOMAIN jobs
           /\ jobs[j].status = "running"
           /\ DOMAIN jobs' = DOMAIN jobs
           /\ jobs'[j].status = "finished"
           /\ jobs'[j].Token = jobs[j].Token
           /\ jobs'[j].Result = r
           /\ \A x \in DOMAIN jobs : x # j => jobs'[x] = jobs[x]
           /\ \A x \in DOMAIN jobs' : jobs'[x] \in Queue!Job
<1>1. /\ j \in DOMAIN jobs /\ jobs[j].status = "running" /\ jobs[j] \in Queue!Job
      /\ jobs' = [jobs EXCEPT ![j].status = "finished", ![j].Result = r]
  BY DEF TypeOK, Queue!FinishJob
<1>2. /\ DOMAIN jobs' = DOMAIN jobs
      /\ jobs'[j] = [jobs[j] EXCEPT !.status = "finished", !.Result = r]
      /\ \A x \in DOMAIN jobs : x # j => jobs'[x] = jobs[x]
  BY <1>1
<1>3. /\ jobs'[j].status = "finished"
      /\ jobs'[j].Token = jobs[j].Token
      /\ jobs'[j].Result = r
      /\ jobs'[j] \in Queue!Job
  BY <1>1, <1>2 DEF Queue!Job
<1> QED BY <1>1, <1>2, <1>3 DEF TypeOK

LEMMA Canceled ==
    ASSUME TypeOK, NEW j \in Jobs, Queue!CancelJob(j)
    PROVE  /\ j \in DOMAIN jobs
           /\ jobs[j].status \in {"queued", "running"}
           /\ DOMAIN jobs' = DOMAIN jobs
           /\ jobs'[j].status = "canceled"
           /\ jobs'[j].Token = jobs[j].Token
           /\ \A x \in DOMAIN jobs : x # j => jobs'[x] = jobs[x]
           /\ \A x \in DOMAIN jobs' : jobs'[x] \in Queue!Job
<1>1. /\ j \in DOMAIN jobs /\ jobs[j].status \in {"queued", "running"} /\ jobs[j] \in Queue!Job
      /\ jobs' = [jobs EXCEPT ![j].status = "canceled"]
  BY DEF TypeOK, Queue!CancelJob
<1>2. /\ DOMAIN jobs' = DOMAIN jobs
      /\ jobs'[j] = [jobs[j] EXCEPT !.status = "canceled"]
      /\ \A x \in DOMAIN jobs : x # j => jobs'[x] = jobs[x]
  BY <1>1
<1>3. /\ jobs'[j].status = "canceled" /\ jobs'[j].Token = jobs[j].Token
      /\ jobs'[j] \in Queue!Job
  BY <1>1, <1>2 DEF Queue!Job
<1> QED BY <1>1, <1>2, <1>3 DEF TypeOK

LEMMA ResultTypes ==
    /\ Null \in OSBuildJobResult /\ ~Null.Success
    /\ Built \in OSBuildJobResult /\ ~Built.Success
    /\ [Null EXCEPT !.Output = "bad"] \in OSBuildJobResult
    /\ ~[Null EXCEPT !.Output = "bad"].Success
    /\ [Built EXCEPT !.Success = TRUE] \in OSBuildJobResult
    /\ [Built EXCEPT !.TargetErrors = TRUE] \in OSBuildJobResult
    /\ Idle.st = "idle" /\ Idle.token = Nil /\ Idle.result = Null
    /\ Gone.st = "gone" /\ Gone.token = Nil /\ Gone.result = Null
  BY DEF OSBuildJobResult, Null, Built, Idle, Gone

LEMMA IdFound ==
    ASSUME IInv, NEW t \in Tokens, IdFromToken(t) # Nil
    PROVE  /\ IdFromToken(t) \in DOMAIN jobs /\ IdFromToken(t) \in Jobs
           /\ jobs[IdFromToken(t)].Token = t
  BY DEF IInv, TypeOK, TokensLeadToJobs, IdFromToken

LEMMA Initially == Init => IInv
<1> SUFFICES ASSUME Init PROVE IInv
  OBVIOUS
<1>1. TypeOK
  BY ResultTypes, WorkerAssumption DEF Init, TypeOK, Idle
<1>2. DOMAIN jobs = {} /\ finishing = {} /\ \A s \in Slots : slot[s] = Idle
  BY DEF Init
<1>3. TokensUnique /\ TokensLeadToJobs /\ CallsKnowJobs /\ CallsHaveUploaded
      /\ SuccessIsUploaded /\ SuccessHasArtifact
  BY <1>2 DEF Init, TokensUnique, TokensLeadToJobs, CallsKnowJobs, CallsHaveUploaded,
              SuccessIsUploaded, SuccessHasArtifact
<1>4. SlotsHoldTokens /\ SlotsHaveUploaded
  BY <1>2, ResultTypes DEF SlotsHoldTokens, SlotsHaveUploaded, Early
<1>5. HandlesOfJobs /\ OnlyFinishedHaveArtifacts
  BY DEF Init, HandlesOfJobs, OnlyFinishedHaveArtifacts
<1> QED BY <1>1, <1>3, <1>4, <1>5 DEF IInv

-----------------------------------------------------------------------------
(***************************************************************************)
(* What a slot does by itself: it goes on, or is idle again; an upload of  *)
(* its own may be cut.                                                     *)
(***************************************************************************)
SlotRecord == [st : {"idle", "gone", "building", "upload", "copying", "targets",
                     "update", "updating"},
               token : Tokens \cup {Nil}, result : OSBuildJobResult]

\* The slot goes on with its job.
GoesOn(s) ==
    /\ slot'[s].token = slot[s].token
    /\ slot[s] \notin {Idle, Gone} /\ slot'[s].st \notin {"idle", "gone"}
    /\ slot'[s].st \in Early => slot[s].st \in Early
    /\ slot'[s].st \in Early \cup {"targets"} => ~slot'[s].result.Success
    /\ slot'[s].st = "targets" \/ slot'[s].result.Success =>
          tmp[slot[s].token] = "complete" \/ Over(slot[s].token)

OthersStay(s) == \A r \in Slots : r # s => slot'[r] = slot[r]

LEMMA SlotTypes == Idle \in SlotRecord /\ Gone \in SlotRecord
  BY ResultTypes DEF Idle, Gone, SlotRecord

LEMMA SlotKeeps ==
    ASSUME IInv, NEW s \in Slots, slot' \in [Slots -> SlotRecord], OthersStay(s),
           slot'[s] = Idle \/ GoesOn(s),
           \A t \in Tokens : handle'[t] = handle[t] \/ handle'[t] = "closed",
           handle' \in [Tokens -> {"closed", "tmp", "final", "deleted"}],
           UNCHANGED <<jobs, jobIdByToken, heartbeats, tmp, final, deleted, stranded, finishing, expired,
                       polls, restarts>>
    PROVE  IInv'
<1>1. /\ TypeOK /\ \A r \in Slots : r # s => slot'[r] = slot[r]
      /\ slot' \in [Slots -> SlotRecord] /\ slot \in [Slots -> SlotRecord]
  BY DEF IInv, TypeOK, SlotRecord, OthersStay
<1>2. TypeOK'
  BY <1>1 DEF TypeOK, SlotRecord
<1>3. TokensUnique' /\ TokensLeadToJobs' /\ CallsKnowJobs' /\ OnlyFinishedHaveArtifacts'
      /\ SuccessHasArtifact'
  BY DEF IInv, TokensUnique, TokensLeadToJobs, CallsKnowJobs, OnlyFinishedHaveArtifacts,
         SuccessHasArtifact, ArtifactReady
<1>4. SlotsHoldTokens'
  <2>1. \A r \in Slots : slot'[r] \notin {Idle, Gone} =>
          /\ slot'[r].st \notin {"idle", "gone"}
          /\ slot'[r].token \in Tokens
          /\ Used(slot'[r].token)
    BY <1>1 DEF IInv, SlotsHoldTokens, GoesOn
  <2>2. \A r \in Slots : slot'[r].token = slot[r].token \/ slot'[r].token = Nil
    BY <1>1, ResultTypes DEF GoesOn
  <2> QED BY <2>1, <2>2 DEF IInv, SlotsHoldTokens, Used
<1>5. SlotsHaveUploaded'
  <2>1. \A r \in Slots :
          /\ slot'[r].st \in Early \cup {"targets"} => ~slot'[r].result.Success
          /\ slot'[r].st = "targets" \/ slot'[r].result.Success =>
                tmp[slot'[r].token] = "complete" \/ Over(slot'[r].token)
    BY <1>1, ResultTypes DEF IInv, SlotsHaveUploaded, GoesOn, Early
  <2> QED BY <2>1 DEF SlotsHaveUploaded, Over
<1>6. \A t : UploadOver(t) => UploadOver(t)'
  BY <1>1, ResultTypes DEF UploadOver, GoesOn, Early
<1>7. CallsHaveUploaded'
  BY <1>6 DEF IInv, CallsHaveUploaded
<1>8. HandlesOfJobs'
  BY DEF IInv, HandlesOfJobs, Used, Over
<1>9. SuccessIsUploaded'
  BY <1>6 DEF IInv, SuccessIsUploaded
<1> QED BY <1>2, <1>3, <1>4, <1>5, <1>7, <1>8, <1>9 DEF IInv

LEMMA Works ==
    ASSUME TypeOK, NEW s \in Slots, NEW from, NEW to \in {"upload", "copying", "targets", "update"},
           NEW r \in OSBuildJobResult, Work(s, from, to, r)
    PROVE  /\ slot[s].st = from
           /\ slot' \in [Slots -> SlotRecord] /\ OthersStay(s)
           /\ slot'[s].st = to /\ slot'[s].token = slot[s].token /\ slot'[s].result = r
<1>1. slot \in [Slots -> SlotRecord]
  BY DEF TypeOK, SlotRecord
<1>2. slot' = [slot EXCEPT ![s].st = to, ![s].result = r] /\ slot[s].st = from
  BY DEF Work
<1>3. /\ slot'[s] = [slot[s] EXCEPT !.st = to, !.result = r]
      /\ OthersStay(s) /\ slot' = [x \in Slots |-> slot'[x]]
  BY <1>1, <1>2 DEF OthersStay
<1>4. /\ slot'[s] \in SlotRecord
      /\ slot'[s].st = to /\ slot'[s].token = slot[s].token /\ slot'[s].result = r
  <2>1. slot[s] \in SlotRecord
    BY <1>1
  <2>2. /\ slot'[s].st = to /\ slot'[s].token = slot[s].token /\ slot'[s].result = r
        /\ slot'[s] = [st |-> to, token |-> slot[s].token, result |-> r]
    BY <1>3, <2>1 DEF SlotRecord
  <2> QED BY <2>1, <2>2 DEF SlotRecord
<1> QED BY <1>1, <1>2, <1>3, <1>4 DEF OthersStay

LEMMA BuildKeeps == ASSUME IInv, NEW s \in Slots, Build(s) PROVE IInv'
<1>1. /\ TypeOK
      /\ UNCHANGED <<jobs, jobIdByToken, heartbeats, tmp, final, handle, deleted, stranded, finishing,
                     expired, polls, restarts>>
  BY DEF IInv, Build, queue, artifacts, handlers
<1>2. /\ slot[s].st = "building"
      /\ slot' \in [Slots -> SlotRecord] /\ OthersStay(s)
      /\ slot'[s].token = slot[s].token
      /\ slot'[s].st \in {"upload", "update"} /\ ~slot'[s].result.Success
  <2>1. Null \in OSBuildJobResult /\ ~Null.Success /\ Built \in OSBuildJobResult /\ ~Built.Success
    BY ResultTypes
  <2>2. CASE Work(s, "building", "update", Null)
    BY <1>1, <2>1, <2>2, Works
  <2>3. CASE Work(s, "building", "update", [Null EXCEPT !.Output = "bad"])
    <3> DEFINE bad == [Null EXCEPT !.Output = "bad"]
    <3>1. bad \in OSBuildJobResult /\ ~bad.Success /\ Work(s, "building", "update", bad)
      BY <2>3, ResultTypes
    <3> HIDE DEF bad
    <3> QED BY <1>1, <3>1, Works
  <2>4. CASE Work(s, "building", "upload", Built)
    BY <1>1, <2>1, <2>4, Works
  <2> QED BY <2>2, <2>3, <2>4 DEF Build
<1>3. GoesOn(s)
  BY <1>2, ResultTypes DEF GoesOn, Early
<1> QED BY <1>1, <1>2, <1>3, SlotKeeps DEF TypeOK

LEMMA TargetKeeps == ASSUME IInv, NEW s \in Slots, Target(s) PROVE IInv'
<1>1. /\ TypeOK
      /\ UNCHANGED <<jobs, jobIdByToken, heartbeats, tmp, final, handle, deleted, stranded, finishing,
                     expired, polls, restarts>>
  BY DEF IInv, Target, queue, artifacts, handlers
<1>2. PICK r \in OSBuildJobResult : Work(s, "targets", "update", r)
  BY ResultTypes DEF Target
<1>3. /\ slot[s].st = "targets"
      /\ slot' \in [Slots -> SlotRecord] /\ OthersStay(s)
      /\ slot'[s].st = "update" /\ slot'[s].token = slot[s].token
  BY <1>1, <1>2, Works
<1>4. GoesOn(s)
  BY <1>3, ResultTypes DEF GoesOn, Early, IInv, SlotsHaveUploaded
<1> QED BY <1>1, <1>3, <1>4, SlotKeeps DEF TypeOK

LEMMA BecomesIdle ==
    ASSUME TypeOK, NEW s \in Slots, slot' = [slot EXCEPT ![s] = Idle]
    PROVE  slot' \in [Slots -> SlotRecord] /\ OthersStay(s) /\ slot'[s] = Idle
  BY SlotTypes DEF TypeOK, SlotRecord, OthersStay

\* The report was answered, or lost, or there was none.
LEMMA IdleKeeps ==
    ASSUME IInv, NEW s \in Slots, Abort(s) \/ UpdateLost(s) \/ Updated(s) PROVE IInv'
<1>1. /\ TypeOK /\ slot' = [slot EXCEPT ![s] = Idle]
      /\ UNCHANGED <<jobs, jobIdByToken, heartbeats, tmp, final, handle, deleted, stranded, finishing,
                     expired, polls, restarts>>
  BY DEF IInv, Abort, UpdateLost, Updated, queue, artifacts, handlers
<1> QED BY <1>1, BecomesIdle, SlotKeeps DEF TypeOK

LEMMA UploadBrokenKeeps == ASSUME IInv, NEW s \in Slots, UploadBroken(s) PROVE IInv'
<1>1. /\ TypeOK /\ slot[s].st \in {"upload", "copying"}
      /\ slot \in [Slots -> SlotRecord]
      /\ slot' = [slot EXCEPT ![s].st = "update"]
      /\ handle' = [handle EXCEPT ![slot[s].token] = "closed"]
      /\ UNCHANGED <<jobs, jobIdByToken, heartbeats, tmp, final, deleted, stranded, finishing,
                     expired, polls, restarts>>
  BY DEF IInv, TypeOK, SlotRecord, UploadBroken, UploadCut, queue, handlers
<1>2. /\ slot' \in [Slots -> SlotRecord] /\ OthersStay(s)
      /\ slot'[s].st = "update" /\ slot'[s].token = slot[s].token
      /\ slot'[s].result = slot[s].result
  BY <1>1 DEF SlotRecord, OthersStay
<1>3. GoesOn(s)
  BY <1>1, <1>2, ResultTypes DEF GoesOn, Early, IInv, SlotsHaveUploaded
<1>4. /\ handle' \in [Tokens -> {"closed", "tmp", "final", "deleted"}]
      /\ \A t \in Tokens : handle'[t] = handle[t] \/ handle'[t] = "closed"
  BY <1>1 DEF TypeOK
<1> QED BY <1>1, <1>2, <1>3, <1>4, SlotKeeps

-----------------------------------------------------------------------------
(***************************************************************************)
(* Handlers that only read the queue, or touch heartbeats.                 *)
(***************************************************************************)
Settled == <<jobs, jobIdByToken, tmp, final, handle, deleted, stranded, finishing, slot, restarts>>

LEMMA ReadKeeps ==
    ASSUME IInv, UNCHANGED Settled,
           heartbeats' \in [Tokens -> {"none", "fresh", "old"}],
           expired' \subseteq Tokens, polls' \subseteq GetJobCall
    PROVE  IInv'
<1> USE DEF Settled
<1>1. TypeOK'
  BY DEF IInv, TypeOK
<1>2. TokensUnique' /\ TokensLeadToJobs' /\ SlotsHoldTokens' /\ SlotsHaveUploaded'
  BY DEF IInv, TokensUnique, TokensLeadToJobs, SlotsHoldTokens, SlotsHaveUploaded, Used, Over
<1>3. CallsKnowJobs' /\ CallsHaveUploaded' /\ HandlesOfJobs' /\ SuccessIsUploaded'
  BY DEF IInv, CallsKnowJobs, CallsHaveUploaded, HandlesOfJobs, SuccessIsUploaded, UploadOver,
         Used, Over
<1>4. OnlyFinishedHaveArtifacts' /\ SuccessHasArtifact'
  BY DEF IInv, OnlyFinishedHaveArtifacts, SuccessHasArtifact, ArtifactReady
<1> QED BY <1>1, <1>2, <1>3, <1>4 DEF IInv

LEMMA GetJobKeeps == ASSUME IInv, NEW s \in Slots, GetJob(s) PROVE IInv'
<1>1. slot[s].token \in Tokens
  BY DEF GetJob, Busy, IInv, SlotsHoldTokens
<1>2. IdFromToken(slot[s].token) \in Jobs
  BY <1>1, IdFound DEF GetJob
<1>3. polls' \subseteq GetJobCall
  BY <1>1, <1>2 DEF GetJob, GetJobCall, IInv, TypeOK
<1> QED BY <1>3, ReadKeeps DEF GetJob, IInv, TypeOK, Settled, queue, artifacts

LEMMA RefreshKeeps ==
    ASSUME IInv, NEW p \in polls, RefreshHeartbeat(p) \/ AnswerOther(p) PROVE IInv'
<1>1. p \in GetJobCall /\ polls \subseteq GetJobCall /\ TypeOK
  BY DEF IInv, TypeOK
<1>2. polls' \subseteq GetJobCall
  BY <1>1 DEF RefreshHeartbeat, AnswerOther, GetJobCall
<1>3. heartbeats' \in [Tokens -> {"none", "fresh", "old"}]
  BY <1>1 DEF RefreshHeartbeat, AnswerOther, GetJobCall, queue, TypeOK
<1> QED BY <1>1, <1>2, <1>3, ReadKeeps
        DEF RefreshHeartbeat, AnswerOther, TypeOK, Settled, queue, artifacts

LEMMA WatchKeeps ==
    ASSUME IInv, WatchHeartbeats \/ \E token \in Tokens : Age(token) PROVE IInv'
<1>1. heartbeats' \in [Tokens -> {"none", "fresh", "old"}] /\ expired' \subseteq Tokens
  BY DEF WatchHeartbeats, Age, IInv, TypeOK, queue, handlers
<1> QED BY <1>1, ReadKeeps DEF WatchHeartbeats, Age, IInv, TypeOK, Settled, queue, artifacts, handlers

-----------------------------------------------------------------------------
(***************************************************************************)
(* What the operations of the queue leave alone: a token that was given    *)
(* out, and a job that has finished.                                       *)
(***************************************************************************)
Keeps ==
    /\ DOMAIN jobs \subseteq DOMAIN jobs'
    /\ \A x \in DOMAIN jobs :
          /\ jobs[x].Token # Nil => jobs'[x].Token = jobs[x].Token
          /\ jobs[x].status = "finished" => jobs'[x] = jobs[x]

LEMMA Persist ==
    ASSUME Keeps PROVE \A t \in Tokens : (Used(t) => Used(t)') /\ (Over(t) => Over(t)')
  BY WorkerAssumption DEF Keeps, Used, Over

(***************************************************************************)
(* The jobs change and the files do not; nothing is said to have finished. *)
(***************************************************************************)
LEMMA JobsKeep ==
    ASSUME IInv, Keeps, TypeOK', TokensUnique', TokensLeadToJobs',
           \A x \in DOMAIN jobs' : jobs'[x].status = "finished" =>
                x \in DOMAIN jobs /\ jobs[x].status = "finished",
           UNCHANGED <<tmp, final, handle, deleted, stranded, finishing, slot, restarts>>
    PROVE  IInv'
<1>1. TypeOK
  BY DEF IInv
<1>2. SlotsHoldTokens'
  BY Persist DEF IInv, SlotsHoldTokens
<1>3. SlotsHaveUploaded'
  <2>1. \A s \in Slots : slot[s].st = "targets" \/ slot[s].result.Success => slot[s].token \in Tokens
    BY ResultTypes DEF IInv, SlotsHoldTokens
  <2> QED BY <2>1, Persist DEF IInv, SlotsHaveUploaded
<1>4. CallsKnowJobs'
  BY <1>1, WorkerAssumption DEF IInv, CallsKnowJobs, Keeps, TypeOK, Call
<1>5. CallsHaveUploaded'
  BY DEF IInv, CallsHaveUploaded, CallsKnowJobs, Keeps, UploadOver
<1>6. HandlesOfJobs'
  BY Persist DEF IInv, HandlesOfJobs
<1>7. SuccessIsUploaded'
  BY DEF IInv, SuccessIsUploaded, UploadOver, Keeps
<1>8. OnlyFinishedHaveArtifacts'
  BY DEF IInv, OnlyFinishedHaveArtifacts, Keeps
<1>9. SuccessHasArtifact'
  BY WorkerAssumption DEF IInv, SuccessHasArtifact, SuccessIsUploaded, ArtifactReady, Keeps
<1> QED BY <1>2, <1>3, <1>4, <1>5, <1>6, <1>7, <1>8, <1>9 DEF IInv

LEMMA EnqueueKeeps == ASSUME IInv, NEW j \in Jobs, Enqueue(j) PROVE IInv'
<1>1. /\ TypeOK
      /\ UNCHANGED <<jobIdByToken, heartbeats, tmp, final, handle, deleted, stranded, finishing, expired,
                     polls, slot, restarts>>
  BY DEF IInv, Enqueue, artifacts, handlers
<1>2. /\ j \notin DOMAIN jobs
      /\ DOMAIN jobs' = DOMAIN jobs \cup {j}
      /\ jobs'[j].status = "queued"
      /\ jobs'[j].Token = Nil
      /\ \A x \in DOMAIN jobs : jobs'[x] = jobs[x]
      /\ \A x \in DOMAIN jobs' : jobs'[x] \in Queue!Job
  BY <1>1, Enqueued DEF Enqueue
<1>3. TypeOK'
  BY <1>1, <1>2 DEF TypeOK
<1>4. TokensUnique' /\ TokensLeadToJobs' /\ Keeps
  BY <1>1, <1>2 DEF IInv, TokensUnique, TokensLeadToJobs, Keeps
<1> QED BY <1>1, <1>2, <1>3, <1>4, JobsKeep

LEMMA CancelKeeps == ASSUME IInv, NEW j \in Jobs, Cancel(j) PROVE IInv'
<1>1. /\ TypeOK /\ heartbeats' \in [Tokens -> {"none", "fresh", "old"}]
      /\ UNCHANGED <<jobIdByToken, tmp, final, handle, deleted, stranded, finishing, expired,
                     polls, slot, restarts>>
  BY DEF IInv, TypeOK, Cancel, ForgetCanceled, artifacts, handlers
<1>2. CASE UNCHANGED jobs
  BY <1>1, <1>2, ReadKeeps DEF TypeOK, Settled
<1>3. CASE Queue!CancelJob(j)
  <2>1. /\ j \in DOMAIN jobs
        /\ jobs[j].status \in {"queued", "running"}
        /\ DOMAIN jobs' = DOMAIN jobs
        /\ jobs'[j].status = "canceled"
        /\ jobs'[j].Token = jobs[j].Token
        /\ \A x \in DOMAIN jobs : x # j => jobs'[x] = jobs[x]
        /\ \A x \in DOMAIN jobs' : jobs'[x] \in Queue!Job
    BY <1>1, <1>3, Canceled
  <2>2. TypeOK'
    BY <1>1, <2>1 DEF TypeOK
  <2>3. TokensUnique' /\ TokensLeadToJobs' /\ Keeps
    BY <1>1, <2>1 DEF IInv, TokensUnique, TokensLeadToJobs, Keeps
  <2> QED BY <1>1, <2>1, <2>2, <2>3, JobsKeep
<1> QED BY <1>2, <1>3 DEF Cancel

(***************************************************************************)
(* RequestJob: the token is new, to the jobs, the slots and the uploads.   *)
(***************************************************************************)
LEMMA HandOutKeeps ==
    ASSUME IInv, NEW j \in Jobs, NEW token \in Tokens, NEW directory \in {"empty", "none"},
           HandOut(j, token, directory),
           NEW s \in Slots, slot[s] = Idle,
           \/ slot' = [slot EXCEPT ![s] = [st |-> "building", token |-> token, result |-> Null]]
           \/ slot' = slot
    PROVE  IInv'
<1>1. /\ TypeOK /\ slot \in [Slots -> SlotRecord]
      /\ jobIdByToken' = [jobIdByToken EXCEPT ![token] = j]
      /\ heartbeats' = [heartbeats EXCEPT ![token] = "fresh"]
      /\ tmp' = [tmp EXCEPT ![token] = directory]
      /\ UNCHANGED <<final, handle, deleted, stranded, finishing, expired, polls, restarts>>
  BY DEF IInv, TypeOK, SlotRecord, HandOut, Track, handlers
<1>2. /\ j \in DOMAIN jobs
      /\ jobs[j].status = "queued"
      /\ \A x \in DOMAIN jobs : jobs[x].Token # token
      /\ DOMAIN jobs' = DOMAIN jobs
      /\ jobs'[j].status = "running"
      /\ jobs'[j].Token = token
      /\ \A x \in DOMAIN jobs : x # j => jobs'[x] = jobs[x]
      /\ \A x \in DOMAIN jobs' : jobs'[x] \in Queue!Job
  BY <1>1, Dequeued DEF HandOut
<1>3. ~Used(token) /\ ~Over(token)
  BY <1>2 DEF Used, Over
<1>4. /\ slot' \in [Slots -> SlotRecord]
      /\ \A r \in Slots : slot'[r] = slot[r]
                            \/ (r = s /\ slot'[s].st = "building" /\ slot'[s].token = token
                                      /\ slot'[s].result = Null)
      /\ \A r \in Slots : slot[r].token # token
  <2>1. \A r \in Slots : slot[r].token # token
    BY <1>3, ResultTypes, WorkerAssumption DEF IInv, SlotsHoldTokens
  <2> QED BY <1>1, <2>1, ResultTypes DEF SlotRecord
<1>5. tmp'[token] = directory /\ \A t \in Tokens : t # token => tmp'[t] = tmp[t]
  BY <1>1 DEF TypeOK
<1>6. handle[token] = "closed"
  BY <1>3 DEF IInv, HandlesOfJobs
<1>7. TypeOK'
  BY <1>1, <1>2, <1>4, <1>5, <1>6 DEF TypeOK, SlotRecord, File
<1>8. TokensUnique'
  BY <1>2 DEF IInv, TokensUnique
<1>9. TokensLeadToJobs'
  <2>1. /\ jobIdByToken'[token] = j
        /\ \A t \in Tokens : t # token => jobIdByToken'[t] = jobIdByToken[t]
    BY <1>1 DEF TypeOK
  <2>2. jobs[j].Token = Nil
    BY <1>2 DEF IInv, TokensUnique
  <2> QED BY <1>2, <2>1, <2>2, WorkerAssumption DEF IInv, TokensLeadToJobs
<1>10. Keeps
  BY <1>2 DEF IInv, TokensUnique, Keeps
<1>11. SlotsHoldTokens'
  <2>1. Used(token)'
    BY <1>2 DEF Used
  <2>2. \A r \in Slots : slot'[r] \notin {Idle, Gone} =>
          slot'[r].st \notin {"idle", "gone"} /\ slot'[r].token \in Tokens
    BY <1>4 DEF IInv, SlotsHoldTokens
  <2>3. \A r \in Slots, t \in Tokens :
          slot'[r] \notin {Idle, Gone} /\ slot'[r].token = t => Used(t)'
    BY <1>4, <1>10, <2>1, Persist DEF IInv, SlotsHoldTokens
  <2> QED BY <1>4, <2>2, <2>3 DEF IInv, SlotsHoldTokens
<1>12. SlotsHaveUploaded'
  <2>1. \A r \in Slots : slot[r].st = "targets" \/ slot[r].result.Success => slot[r].token \in Tokens
    BY ResultTypes DEF IInv, SlotsHoldTokens
  <2> QED BY <1>4, <1>5, <1>10, <2>1, Persist, ResultTypes DEF IInv, SlotsHaveUploaded
<1>13. CallsKnowJobs' /\ \A c \in finishing : c.token # token /\ c.token \in Tokens
  BY <1>1, <1>2, <1>10, WorkerAssumption DEF IInv, CallsKnowJobs, Keeps, TypeOK, Call
<1>14. \A t \in Tokens : t # token /\ UploadOver(t) => UploadOver(t)'
  BY <1>4 DEF UploadOver
<1>15. CallsHaveUploaded'
  BY <1>1, <1>5, <1>10, <1>13, <1>14 DEF IInv, CallsHaveUploaded, CallsKnowJobs, Keeps
<1>16. HandlesOfJobs'
  BY <1>1, <1>10, Persist DEF IInv, HandlesOfJobs
<1>17. SuccessIsUploaded'
  BY <1>2, <1>5, <1>14 DEF IInv, SuccessIsUploaded
<1>18. OnlyFinishedHaveArtifacts'
  BY <1>1, <1>2 DEF IInv, OnlyFinishedHaveArtifacts
<1>19. SuccessHasArtifact'
  BY <1>1, <1>2, <1>5 DEF IInv, SuccessHasArtifact, SuccessIsUploaded, ArtifactReady
<1> QED BY <1>7, <1>8, <1>9, <1>11, <1>12, <1>13, <1>15, <1>16, <1>17, <1>18, <1>19 DEF IInv

(***************************************************************************)
(* UploadJobArtifact and Copied: the slot writes to the file of its token. *)
(***************************************************************************)
LEMMA UploadKeeps == ASSUME IInv, NEW s \in Slots, UploadJobArtifact(s) PROVE IInv'
<1> DEFINE token == slot[s].token
<1>1. /\ TypeOK /\ Work(s, "upload", "copying", Built)
      /\ tmp' = [tmp EXCEPT ![token] = "partial"]
      /\ handle' = [handle EXCEPT ![token] = "tmp"]
      /\ UNCHANGED <<jobs, jobIdByToken, heartbeats, final, deleted, stranded, finishing, expired, polls,
                     restarts>>
  BY DEF IInv, UploadJobArtifact, queue, handlers
<1>2. /\ slot[s].st = "upload"
      /\ slot' \in [Slots -> SlotRecord] /\ \A r \in Slots : r # s => slot'[r] = slot[r]
      /\ slot'[s].st = "copying" /\ slot'[s].token = token /\ slot'[s].result = Built
  BY <1>1, Works, ResultTypes DEF OthersStay
<1>3. /\ slot[s] \notin {Idle, Gone} /\ token \in Tokens /\ Used(token)
      /\ \A r \in Slots : r # s => slot[r].token # token
  BY <1>2, ResultTypes, WorkerAssumption DEF IInv, SlotsHoldTokens
<1> HIDE DEF token
<1>4. /\ tmp'[token] = "partial" /\ \A t \in Tokens : t # token => tmp'[t] = tmp[t]
      /\ handle'[token] = "tmp" /\ \A t \in Tokens : t # token => handle'[t] = handle[t]
  BY <1>1, <1>3 DEF TypeOK
<1>5. ~UploadOver(token)
  BY <1>2 DEF UploadOver, Early, token
<1>6. TypeOK'
  BY <1>1, <1>2, <1>3, <1>4 DEF TypeOK, SlotRecord, File
<1>7. TokensUnique' /\ TokensLeadToJobs' /\ CallsKnowJobs' /\ OnlyFinishedHaveArtifacts'
  BY <1>1 DEF IInv, TokensUnique, TokensLeadToJobs, CallsKnowJobs, OnlyFinishedHaveArtifacts
<1>8. SlotsHoldTokens'
  BY <1>1, <1>2, <1>3 DEF IInv, SlotsHoldTokens, Used
<1>9. SlotsHaveUploaded'
  <2>1. \A r \in Slots : slot[r].st = "targets" \/ slot[r].result.Success => slot[r].token \in Tokens
    BY ResultTypes DEF IInv, SlotsHoldTokens
  <2> QED BY <1>1, <1>2, <1>3, <1>4, <2>1, ResultTypes DEF IInv, SlotsHaveUploaded, Over
<1>10. \A t \in Tokens : UploadOver(t) => t # token /\ UploadOver(t)'
  BY <1>2, <1>5 DEF UploadOver
<1>11. CallsHaveUploaded' /\ \A c \in finishing : c.token \in Tokens
  BY <1>1, <1>4, <1>10 DEF IInv, CallsHaveUploaded, TypeOK, Call
<1>12. HandlesOfJobs'
  BY <1>1, <1>3, <1>4 DEF IInv, HandlesOfJobs, Used, Over
<1>13. SuccessIsUploaded'
  BY <1>1, <1>4, <1>10 DEF IInv, SuccessIsUploaded
<1>14. SuccessHasArtifact'
  <2>1. ASSUME NEW k \in DOMAIN jobs \ deleted, jobs[k].status = "finished",
               jobs[k].Result.Success
        PROVE  ArtifactReady(k)'
    <3>1. jobs[k].Token # token /\ jobs[k].Token \in Tokens /\ ArtifactReady(k)
      BY <1>10, <2>1 DEF IInv, SuccessIsUploaded, SuccessHasArtifact
    <3> QED BY <1>1, <1>4, <3>1 DEF ArtifactReady
  <2> QED BY <1>1, <2>1 DEF SuccessHasArtifact
<1> QED BY <1>6, <1>7, <1>8, <1>9, <1>11, <1>12, <1>13, <1>14 DEF IInv

LEMMA CopiedKeeps == ASSUME IInv, NEW s \in Slots, Copied(s) PROVE IInv'
<1> DEFINE token == slot[s].token
<1>1. /\ TypeOK /\ Work(s, "copying", "targets", Built)
      /\ handle[token] # "closed"
      /\ tmp' = IF handle[token] = "tmp" THEN [tmp EXCEPT ![token] = "complete"] ELSE tmp
      /\ final' = [j \in Jobs |-> IF /\ handle[token] = "final"
                                     /\ j \in DOMAIN jobs
                                     /\ jobs[j].Token = token
                                  THEN "complete" ELSE final[j]]
      /\ handle' = [handle EXCEPT ![token] = "closed"]
      /\ UNCHANGED <<jobs, jobIdByToken, heartbeats, deleted, stranded, finishing, expired, polls, restarts>>
  BY DEF IInv, Copied, queue, handlers
<1>2. /\ slot[s].st = "copying"
      /\ slot' \in [Slots -> SlotRecord] /\ \A r \in Slots : r # s => slot'[r] = slot[r]
      /\ slot'[s].st = "targets" /\ slot'[s].token = token /\ slot'[s].result = Built
  BY <1>1, Works, ResultTypes DEF OthersStay
<1>3. /\ slot[s] \notin {Idle, Gone} /\ token \in Tokens /\ Used(token)
      /\ \A r \in Slots : r # s => slot[r].token # token
  BY <1>2, ResultTypes, WorkerAssumption DEF IInv, SlotsHoldTokens
<1>4. ~UploadOver(token)
  BY <1>2 DEF UploadOver, Early
<1> HIDE DEF token
<1>5. /\ handle[token] = "tmp" => tmp'[token] = "complete"
      /\ handle[token] # "tmp" => Over(token) /\ tmp' = tmp
      /\ \A t \in Tokens : t # token => tmp'[t] = tmp[t]
      /\ handle'[token] = "closed" /\ \A t \in Tokens : t # token => handle'[t] = handle[t]
  BY <1>1, <1>3 DEF TypeOK, IInv, HandlesOfJobs
<1>6. \A j \in Jobs : final'[j] = final[j] \/ (/\ final'[j] = "complete" /\ j \in DOMAIN jobs
                                              /\ jobs[j].Token = token /\ Over(token))
  BY <1>1, <1>3 DEF IInv, HandlesOfJobs
<1>7. TypeOK'
  BY <1>1, <1>2, <1>3, <1>5 DEF TypeOK, SlotRecord, File
<1>8. TokensUnique' /\ TokensLeadToJobs' /\ CallsKnowJobs'
  BY <1>1 DEF IInv, TokensUnique, TokensLeadToJobs, CallsKnowJobs
<1>9. SlotsHoldTokens'
  BY <1>1, <1>2, <1>3 DEF IInv, SlotsHoldTokens, Used
<1>10. SlotsHaveUploaded'
  <2>1. \A r \in Slots : slot[r].st = "targets" \/ slot[r].result.Success => slot[r].token \in Tokens
    BY ResultTypes DEF IInv, SlotsHoldTokens
  <2>2. \A t \in Tokens : Over(t) => Over(t)'
    BY <1>1 DEF Over
  <2> QED BY <1>1, <1>2, <1>3, <1>5, <2>1, <2>2, ResultTypes DEF IInv, SlotsHaveUploaded, Over, Early
<1>11. \A t \in Tokens : UploadOver(t) => t # token /\ UploadOver(t)'
  BY <1>2, <1>4 DEF UploadOver
<1>12. CallsHaveUploaded' /\ \A c \in finishing : c.token \in Tokens
  BY <1>1, <1>5, <1>11 DEF IInv, CallsHaveUploaded, TypeOK, Call
<1>13. HandlesOfJobs'
  BY <1>1, <1>3, <1>5 DEF IInv, HandlesOfJobs, Used, Over
<1>14. SuccessIsUploaded'
  BY <1>1, <1>5, <1>11 DEF IInv, SuccessIsUploaded
<1>15. OnlyFinishedHaveArtifacts'
  <2>1. \A j \in DOMAIN jobs : jobs[j].Token = token /\ Over(token) => jobs[j].status = "finished"
    BY <1>3, WorkerAssumption DEF IInv, TokensUnique, Over
  <2> QED BY <1>1, <1>6, <2>1 DEF IInv, OnlyFinishedHaveArtifacts
<1>16. SuccessHasArtifact'
  <2>1. ASSUME NEW k \in DOMAIN jobs \ deleted, jobs[k].status = "finished",
               jobs[k].Result.Success
        PROVE  ArtifactReady(k)'
    <3>1. jobs[k].Token # token /\ jobs[k].Token \in Tokens /\ ArtifactReady(k) /\ k \in Jobs
      BY <1>1, <1>11, <2>1 DEF IInv, SuccessIsUploaded, SuccessHasArtifact, TypeOK
    <3> QED BY <1>1, <1>5, <1>6, <3>1 DEF ArtifactReady
  <2> QED BY <1>1, <2>1 DEF SuccessHasArtifact
<1> QED BY <1>7, <1>8, <1>9, <1>10, <1>12, <1>13, <1>14, <1>15, <1>16 DEF IInv

-----------------------------------------------------------------------------
(***************************************************************************)
(* Calls of Server.FinishJob.                                              *)
(***************************************************************************)
LEMMA UpdateKeeps == ASSUME IInv, NEW s \in Slots, Update(s) PROVE IInv'
<1> DEFINE token == slot[s].token
           call == [by |-> s, token |-> token, id |-> IdFromToken(token),
                    result |-> slot[s].result, step |-> "finish"]
<1>1. /\ TypeOK /\ slot[s].st = "update" /\ slot \in [Slots -> SlotRecord]
      /\ UNCHANGED <<jobs, jobIdByToken, heartbeats, tmp, final, handle, deleted, stranded, expired, polls,
                     restarts>>
  BY DEF IInv, TypeOK, SlotRecord, Update, queue, artifacts
<1>2. /\ slot[s] \notin {Idle, Gone} /\ token \in Tokens /\ Used(token)
      /\ \A r \in Slots : r # s => slot[r].token # token
  BY <1>1, ResultTypes, WorkerAssumption DEF IInv, SlotsHoldTokens
<1>3. CASE IdFromToken(token) = Nil
  <2>1. slot' = [slot EXCEPT ![s] = Idle] /\ UNCHANGED finishing
    BY <1>3 DEF Update
  <2> QED BY <1>1, <2>1, BecomesIdle, SlotKeeps DEF TypeOK
<1>4. CASE IdFromToken(token) # Nil
  <2>1. slot' = [slot EXCEPT ![s].st = "updating"] /\ finishing' = finishing \cup {call}
    BY <1>4 DEF Update
  <2>2. /\ call.id \in DOMAIN jobs /\ call.id \in Jobs /\ jobs[call.id].Token = token
        /\ call.token = token /\ call.step = "finish" /\ call.result = slot[s].result
        /\ call \in Call
    BY <1>1, <1>2, <1>4, IdFound DEF Call, SlotRecord
  <2>3. /\ slot' \in [Slots -> SlotRecord] /\ \A r \in Slots : r # s => slot'[r] = slot[r]
        /\ slot'[s].st = "updating" /\ slot'[s].token = token
        /\ slot'[s].result = slot[s].result
    BY <1>1, <2>1 DEF SlotRecord
  <2> HIDE DEF call, token
  <2>4. TypeOK'
    BY <1>1, <2>1, <2>2, <2>3 DEF TypeOK, SlotRecord
  <2>5. TokensUnique' /\ TokensLeadToJobs' /\ HandlesOfJobs' /\ OnlyFinishedHaveArtifacts'
    BY <1>1 DEF IInv, TokensUnique, TokensLeadToJobs, HandlesOfJobs, OnlyFinishedHaveArtifacts,
                Used, Over
  <2>6. SlotsHoldTokens'
    BY <1>1, <1>2, <2>3 DEF IInv, SlotsHoldTokens, Used
  <2>7. SlotsHaveUploaded'
    BY <1>1, <2>3 DEF IInv, SlotsHaveUploaded, Over, Early, token
  <2>8. CallsKnowJobs'
    BY <1>1, <2>1, <2>2 DEF IInv, CallsKnowJobs
  <2>9. \A t \in Tokens : UploadOver(t) => UploadOver(t)'
    BY <2>3 DEF UploadOver, Early
  <2>10. CallsHaveUploaded'
    <3>1. \A t \in Tokens : t = token => UploadOver(t)'
      BY <1>2, <2>3 DEF UploadOver, Early
    <3>2. call.result.Success => tmp[token] = "complete" \/ jobs[call.id].status = "finished"
      <4>1. call.result.Success => tmp[token] = "complete" \/ Over(token)
        BY <2>2 DEF IInv, SlotsHaveUploaded, token
      <4>2. Over(token) => jobs[call.id].status = "finished"
        BY <1>2, <2>2, WorkerAssumption DEF IInv, TokensUnique, Over
      <4> QED BY <4>1, <4>2
    <3>3. \A c \in finishing : c.token \in Tokens
      BY <1>1 DEF TypeOK, Call
    <3> QED BY <1>1, <1>2, <2>1, <2>2, <2>9, <3>1, <3>2, <3>3 DEF IInv, CallsHaveUploaded
  <2>11. SuccessIsUploaded'
    BY <1>1, <2>9 DEF IInv, SuccessIsUploaded
  <2>12. SuccessHasArtifact'
    BY <1>1, <2>1 DEF IInv, SuccessHasArtifact, ArtifactReady
  <2> QED BY <2>4, <2>5, <2>6, <2>7, <2>8, <2>10, <2>11, <2>12 DEF IInv
<1> QED BY <1>3, <1>4

LEMMA ExpireKeeps == ASSUME IInv, NEW token \in Tokens, Expire(token) PROVE IInv'
<1> DEFINE call == [by |-> Nil, token |-> token, id |-> IdFromToken(token),
                    result |-> Null, step |-> "finish"]
<1>1. /\ TypeOK /\ expired' \subseteq Tokens
      /\ UNCHANGED <<jobs, jobIdByToken, heartbeats, tmp, final, handle, deleted, stranded, polls, slot,
                     restarts>>
  BY DEF IInv, TypeOK, Expire, queue, artifacts
<1>2. finishing' = finishing \/ (finishing' = finishing \cup {call} /\ IdFromToken(token) # Nil)
  BY DEF Expire
<1>3. IdFromToken(token) # Nil =>
        /\ call.id \in DOMAIN jobs /\ jobs[call.id].Token = token
        /\ call.token = token /\ call.step = "finish" /\ ~call.result.Success /\ call \in Call
  BY IdFound, ResultTypes DEF Call
<1> HIDE DEF call
<1>4. TypeOK'
  BY <1>1, <1>2, <1>3 DEF TypeOK
<1>5. TokensUnique' /\ TokensLeadToJobs' /\ HandlesOfJobs' /\ OnlyFinishedHaveArtifacts'
      /\ SlotsHoldTokens' /\ SlotsHaveUploaded' /\ SuccessIsUploaded'
  BY <1>1 DEF IInv, TokensUnique, TokensLeadToJobs, HandlesOfJobs, OnlyFinishedHaveArtifacts,
              SlotsHoldTokens, SlotsHaveUploaded, SuccessIsUploaded, Used, Over, UploadOver
<1>6. CallsKnowJobs'
  BY <1>1, <1>2, <1>3 DEF IInv, CallsKnowJobs
<1>7. CallsHaveUploaded'
  BY <1>1, <1>2, <1>3 DEF IInv, CallsHaveUploaded, UploadOver
<1>8. SuccessHasArtifact'
  BY <1>1, <1>2 DEF IInv, SuccessHasArtifact, ArtifactReady
<1> QED BY <1>4, <1>5, <1>6, <1>7, <1>8 DEF IInv

LEMMA FinishJobKeeps == ASSUME IInv, NEW c \in finishing, FinishJob(c) PROVE IInv'
<1> DEFINE moving == [c EXCEPT !.step = "move"]
<1>1. /\ TypeOK /\ c \in Call /\ c.step = "finish" /\ jobs[c.id].Token = c.token
      /\ jobIdByToken' = [jobIdByToken EXCEPT ![c.token] = Nil]
      /\ heartbeats' = [heartbeats EXCEPT ![c.token] = "none"]
      /\ finishing' = (finishing \ {c}) \cup {moving}
      /\ UNCHANGED <<tmp, final, handle, deleted, stranded, expired, polls, slot, restarts>>
  BY DEF IInv, TypeOK, CallsKnowJobs, FinishJob, Untrack, artifacts
<1>2. /\ c.token \in Tokens /\ c.id \in Jobs /\ c.result \in OSBuildJobResult
      /\ moving \in Call /\ moving.token = c.token /\ moving.id = c.id
      /\ moving.result = c.result /\ moving.step = "move"
  BY <1>1 DEF Call
<1> HIDE DEF moving
<1>3. /\ c.id \in DOMAIN jobs
      /\ jobs[c.id].status = "running"
      /\ DOMAIN jobs' = DOMAIN jobs
      /\ jobs'[c.id].status = "finished"
      /\ jobs'[c.id].Token = jobs[c.id].Token
      /\ jobs'[c.id].Result = c.result
      /\ \A x \in DOMAIN jobs : x # c.id => jobs'[x] = jobs[x]
      /\ \A x \in DOMAIN jobs' : jobs'[x] \in Queue!Job
  BY <1>1, <1>2, Finished DEF FinishJob
<1>4. TypeOK'
  BY <1>1, <1>2, <1>3 DEF TypeOK
<1>5. Keeps
  BY <1>3 DEF Keeps
<1>6. TokensUnique'
  BY <1>3 DEF IInv, TokensUnique
<1>7. TokensLeadToJobs'
  BY <1>1, <1>2, <1>3 DEF IInv, TypeOK, TokensLeadToJobs
<1>8. SlotsHoldTokens'
  BY <1>1, <1>5, Persist DEF IInv, SlotsHoldTokens
<1>9. SlotsHaveUploaded'
  <2>1. \A s \in Slots : slot[s].st = "targets" \/ slot[s].result.Success => slot[s].token \in Tokens
    BY ResultTypes DEF IInv, SlotsHoldTokens
  <2> QED BY <1>1, <1>5, <2>1, Persist DEF IInv, SlotsHaveUploaded
<1>10. CallsKnowJobs'
  BY <1>1, <1>2, <1>3 DEF IInv, CallsKnowJobs
<1>11. CallsHaveUploaded'
  BY <1>1, <1>2, <1>3 DEF IInv, CallsHaveUploaded, CallsKnowJobs, UploadOver
<1>12. HandlesOfJobs'
  BY <1>1, <1>5, Persist DEF IInv, HandlesOfJobs
<1>13. c.result.Success => UploadOver(c.token) /\ tmp[c.token] = "complete"
  BY <1>1, <1>3 DEF IInv, CallsHaveUploaded
<1>14. SuccessIsUploaded'
  BY <1>1, <1>2, <1>3, <1>13 DEF IInv, SuccessIsUploaded, UploadOver
<1>15. OnlyFinishedHaveArtifacts'
  BY <1>1, <1>3 DEF IInv, OnlyFinishedHaveArtifacts
<1>16. SuccessHasArtifact'
  <2>1. c.result.Success => ArtifactReady(c.id)'
    BY <1>1, <1>2, <1>3, <1>13 DEF ArtifactReady
  <2>2. \A k \in DOMAIN jobs : k # c.id /\ ArtifactReady(k) => ArtifactReady(k)'
    BY <1>1, <1>3 DEF ArtifactReady
  <2> QED BY <1>1, <1>3, <2>1, <2>2 DEF IInv, SuccessHasArtifact
<1> QED BY <1>4, <1>6, <1>7, <1>8, <1>9, <1>10, <1>11, <1>12, <1>14, <1>15, <1>16 DEF IInv

LEMMA FinishRefusedKeeps == ASSUME IInv, NEW c \in finishing, FinishRefused(c) PROVE IInv'
<1>1. /\ TypeOK /\ finishing' = finishing \ {c} /\ c.step = "finish"
      /\ UNCHANGED <<jobs, jobIdByToken, heartbeats, tmp, final, handle, deleted, stranded, expired, polls,
                     slot, restarts>>
  BY DEF IInv, FinishRefused, queue, artifacts
<1>2. TypeOK'
  BY <1>1 DEF TypeOK
<1>3. TokensUnique' /\ TokensLeadToJobs' /\ HandlesOfJobs' /\ OnlyFinishedHaveArtifacts'
      /\ SlotsHoldTokens' /\ SlotsHaveUploaded' /\ SuccessIsUploaded'
  BY <1>1 DEF IInv, TokensUnique, TokensLeadToJobs, HandlesOfJobs, OnlyFinishedHaveArtifacts,
              SlotsHoldTokens, SlotsHaveUploaded, SuccessIsUploaded, Used, Over, UploadOver
<1>4. CallsKnowJobs' /\ CallsHaveUploaded'
  BY <1>1 DEF IInv, CallsKnowJobs, CallsHaveUploaded, UploadOver
<1>5. SuccessHasArtifact'
  BY <1>1 DEF IInv, SuccessHasArtifact, ArtifactReady
<1> QED BY <1>2, <1>3, <1>4, <1>5 DEF IInv

LEMMA MoveKeeps == ASSUME IInv, NEW c \in finishing, MoveArtifacts(c) PROVE IInv'
<1>1. /\ TypeOK /\ c \in Call /\ c.step = "move" /\ finishing' = finishing \ {c}
      /\ UNCHANGED <<jobs, jobIdByToken, heartbeats, deleted, stranded, expired, polls, slot, restarts>>
  BY DEF IInv, TypeOK, MoveArtifacts, queue
<1>2. /\ c.token \in Tokens /\ c.id \in Jobs /\ c.id \in DOMAIN jobs
      /\ jobs[c.id].Token = c.token /\ jobs[c.id].status = "finished"
      /\ Over(c.token) /\ Used(c.token)
  BY <1>1 DEF IInv, CallsKnowJobs, Call, Over, Used
<1>3. /\ \A t \in Tokens : t # c.token => tmp'[t] = tmp[t] /\ handle'[t] = handle[t]
      /\ \A k \in Jobs : k # c.id => final'[k] = final[k]
      /\ tmp'[c.token] = "none"
      /\ final'[c.id] = IF tmp[c.token] = "none" THEN final[c.id] ELSE tmp[c.token]
      /\ handle'[c.token] # "tmp"
      /\ handle'[c.token] # "closed" => handle[c.token] # "closed"
      /\ tmp' \in [Tokens -> File \cup {"none"}] /\ final' \in [Jobs -> File \cup {"none"}]
      /\ handle' \in [Tokens -> {"closed", "tmp", "final", "deleted"}]
  <2>1. CASE tmp[c.token] = "none"
    BY <1>1, <1>2, <2>1 DEF MoveArtifacts, TypeOK
  <2>2. CASE tmp[c.token] # "none"
    BY <1>1, <1>2, <2>2 DEF MoveArtifacts, Moved, TypeOK
  <2> QED BY <2>1, <2>2
<1>4. TypeOK'
  BY <1>1, <1>2, <1>3 DEF TypeOK
<1>5. TokensUnique' /\ TokensLeadToJobs' /\ SlotsHoldTokens'
  BY <1>1 DEF IInv, TokensUnique, TokensLeadToJobs, SlotsHoldTokens, Used
<1>6. SlotsHaveUploaded'
  <2>1. \A s \in Slots : slot[s].st = "targets" \/ slot[s].result.Success => slot[s].token \in Tokens
    BY ResultTypes DEF IInv, SlotsHoldTokens
  <2>2. \A t \in Tokens : Over(t) => Over(t)'
    BY <1>1 DEF Over
  <2> QED BY <1>1, <1>2, <1>3, <2>1, <2>2 DEF IInv, SlotsHaveUploaded
<1>7. CallsKnowJobs' /\ \A d \in finishing : d.token \in Tokens /\ (d.token = c.token => d.id = c.id)
  BY <1>1, <1>2, WorkerAssumption DEF IInv, CallsKnowJobs, TokensUnique, TypeOK, Call
<1>8. CallsHaveUploaded'
  BY <1>1, <1>2, <1>3, <1>7 DEF IInv, CallsHaveUploaded, UploadOver
<1>9. HandlesOfJobs'
  BY <1>1, <1>2, <1>3 DEF IInv, HandlesOfJobs, Used, Over
<1>10. SuccessIsUploaded'
  BY <1>1, <1>3 DEF IInv, SuccessIsUploaded, UploadOver
<1>11. OnlyFinishedHaveArtifacts'
  BY <1>1, <1>2, <1>3 DEF IInv, OnlyFinishedHaveArtifacts
<1>12. SuccessHasArtifact'
  <2>1. ASSUME NEW k \in DOMAIN jobs \ deleted, jobs[k].status = "finished",
               jobs[k].Result.Success
        PROVE  ArtifactReady(k)'
    <3>1. /\ ArtifactReady(k) /\ k \in Jobs /\ jobs[k].Token \in Tokens
          /\ tmp[jobs[k].Token] \in {"complete", "none"}
      BY <1>1, <2>1 DEF IInv, SuccessIsUploaded, SuccessHasArtifact, TypeOK
    <3>2. CASE k = c.id
      <4>1. final'[k] = "complete"
        BY <1>2, <1>3, <3>1, <3>2 DEF ArtifactReady
      <4> QED BY <4>1 DEF ArtifactReady
    <3>3. CASE k # c.id
      <4>1. jobs[k].Token # c.token
        BY <1>2, <2>1, <3>1, <3>3, WorkerAssumption DEF IInv, TokensUnique
      <4> QED BY <1>1, <1>3, <3>1, <3>3, <4>1 DEF ArtifactReady
    <3> QED BY <3>2, <3>3
  <2> QED BY <1>1, <2>1 DEF SuccessHasArtifact
<1> QED BY <1>4, <1>5, <1>6, <1>7, <1>8, <1>9, <1>10, <1>11, <1>12 DEF IInv

LEMMA MoveFailsKeeps == ASSUME IInv, NEW c \in finishing, MoveFails(c) PROVE IInv'
<1>1. /\ TypeOK /\ finishing' = finishing \ {c} /\ c \in Call /\ c.step = "move"
      /\ stranded' = stranded \cup {c.id}
      /\ UNCHANGED <<jobs, jobIdByToken, heartbeats, tmp, final, handle, deleted, expired, polls,
                     slot, restarts>>
  BY DEF IInv, TypeOK, MoveFails, queue
<1>2. TypeOK'
  BY <1>1 DEF TypeOK, Call
<1>3. TokensUnique' /\ TokensLeadToJobs' /\ HandlesOfJobs' /\ OnlyFinishedHaveArtifacts'
      /\ SlotsHoldTokens' /\ SlotsHaveUploaded' /\ SuccessIsUploaded'
  BY <1>1 DEF IInv, TokensUnique, TokensLeadToJobs, HandlesOfJobs, OnlyFinishedHaveArtifacts,
              SlotsHoldTokens, SlotsHaveUploaded, SuccessIsUploaded, Used, Over, UploadOver
<1>4. CallsKnowJobs' /\ CallsHaveUploaded'
  BY <1>1 DEF IInv, CallsKnowJobs, CallsHaveUploaded, UploadOver
<1>5. SuccessHasArtifact'
  BY <1>1 DEF IInv, SuccessHasArtifact, ArtifactReady
<1> QED BY <1>2, <1>3, <1>4, <1>5 DEF IInv

LEMMA DeleteKeeps == ASSUME IInv, NEW j \in Jobs, DeleteArtifacts(j) PROVE IInv'
<1>1. /\ TypeOK /\ j \in DOMAIN jobs /\ jobs[j].status = "finished"
      /\ deleted' = deleted \cup {j}
      /\ final' = [final EXCEPT ![j] = "none"]
      /\ handle' = [t \in Tokens |->
                      IF handle[t] = "final" /\ t = jobs[j].Token THEN "deleted" ELSE handle[t]]
      /\ UNCHANGED <<jobs, jobIdByToken, heartbeats, tmp, stranded, finishing, expired, polls, slot,
                     restarts>>
  BY DEF IInv, DeleteArtifacts, queue, handlers
<1>2. /\ final'[j] = "none" /\ \A k \in Jobs : k # j => final'[k] = final[k]
      /\ \A t \in Tokens : handle'[t] = handle[t] \/ (handle'[t] = "deleted" /\ handle[t] = "final")
  BY <1>1 DEF TypeOK
<1>3. TypeOK'
  BY <1>1, <1>2 DEF TypeOK, File
<1>4. TokensUnique' /\ TokensLeadToJobs' /\ SlotsHoldTokens' /\ SlotsHaveUploaded'
      /\ CallsKnowJobs' /\ CallsHaveUploaded' /\ SuccessIsUploaded'
  BY <1>1 DEF IInv, TokensUnique, TokensLeadToJobs, SlotsHoldTokens, SlotsHaveUploaded,
              CallsKnowJobs, CallsHaveUploaded, SuccessIsUploaded, Used, Over, UploadOver
<1>5. HandlesOfJobs'
  BY <1>1, <1>2 DEF IInv, HandlesOfJobs, Used, Over
<1>6. OnlyFinishedHaveArtifacts'
  BY <1>1, <1>2 DEF IInv, OnlyFinishedHaveArtifacts
<1>7. SuccessHasArtifact'
  <2>1. \A k \in DOMAIN jobs : k # j /\ ArtifactReady(k) => ArtifactReady(k)'
    BY <1>1, <1>2 DEF ArtifactReady, TypeOK
  <2> QED BY <1>1, <2>1 DEF IInv, SuccessHasArtifact
<1> QED BY <1>3, <1>4, <1>5, <1>6, <1>7 DEF IInv

-----------------------------------------------------------------------------
(***************************************************************************)
(* A worker process ends; composer restarts.                               *)
(***************************************************************************)
LEMMA ExitKeeps ==
    ASSUME IInv, NEW process, NEW answered, NEW after \in {Idle, Gone},
           Exit(process, answered, after)
    PROVE  IInv'
<1>1. /\ TypeOK
      /\ slot' \in [Slots -> SlotRecord]
      /\ \A s \in Slots : slot'[s] = slot[s] \/ slot'[s] \in {Idle, Gone}
      /\ handle' \in [Tokens -> {"closed", "tmp", "final", "deleted"}]
      /\ \A t \in Tokens : handle'[t] = handle[t] \/ handle'[t] = "closed"
      /\ UNCHANGED <<jobs, jobIdByToken, heartbeats, tmp, final, deleted, stranded, finishing, expired, restarts>>
  BY SlotTypes DEF IInv, TypeOK, SlotRecord, Exit, queue
<1>2. polls' \subseteq GetJobCall
  BY <1>1 DEF Exit, TypeOK, GetJobCall
<1>3. TypeOK'
  BY <1>1, <1>2 DEF TypeOK, SlotRecord
<1>4. TokensUnique' /\ TokensLeadToJobs' /\ CallsKnowJobs' /\ OnlyFinishedHaveArtifacts'
      /\ SuccessHasArtifact'
  BY <1>1 DEF IInv, TokensUnique, TokensLeadToJobs, CallsKnowJobs, OnlyFinishedHaveArtifacts,
              SuccessHasArtifact, ArtifactReady
<1>5. SlotsHoldTokens'
  BY <1>1, ResultTypes DEF IInv, SlotsHoldTokens, Used
<1>6. SlotsHaveUploaded'
  BY <1>1, ResultTypes DEF IInv, SlotsHaveUploaded, Over, Early
<1>7. \A t \in Tokens : UploadOver(t) => UploadOver(t)'
  BY <1>1, ResultTypes DEF UploadOver, Early
<1>8. CallsHaveUploaded'
  BY <1>1, <1>7 DEF IInv, CallsHaveUploaded, TypeOK, Call
<1>9. HandlesOfJobs'
  BY <1>1 DEF IInv, HandlesOfJobs, Used, Over
<1>10. SuccessIsUploaded'
  BY <1>1, <1>7 DEF IInv, SuccessIsUploaded
<1> QED BY <1>3, <1>4, <1>5, <1>6, <1>8, <1>9, <1>10 DEF IInv

LEMMA RestartKeeps == ASSUME IInv, Restart PROVE IInv'
<1>1. /\ TypeOK
      /\ restarts < MaxRestarts /\ restarts' = restarts + 1 /\ restarts \in 0 .. MaxRestarts
      /\ handle' = [t \in Tokens |-> "closed"]
      /\ finishing' = {} /\ expired' = {} /\ polls' = {}
      /\ stranded' = stranded \cup {c.id : c \in {d \in finishing : d.step = "move"}}
      /\ UNCHANGED <<jobs, tmp, final, deleted, slot>>
  BY DEF IInv, TypeOK, Restart
<1>2. /\ jobIdByToken' \in [Tokens -> Jobs \cup {Nil}]
      /\ heartbeats' \in [Tokens -> {"none", "fresh", "old"}]
      /\ \A t \in Tokens : jobIdByToken'[t] # Nil =>
            jobIdByToken'[t] \in DOMAIN jobs /\ jobs[jobIdByToken'[t]].Token = t
  <2>1. CASE Backend = "fs"
    <3> DEFINE runs(t) == {j \in DOMAIN jobs : jobs[j].status = "running" /\ jobs[j].Token = t}
    <3>1. /\ jobIdByToken' = [t \in Tokens |-> IF runs(t) = {} THEN Nil
                                               ELSE CHOOSE j \in runs(t) : TRUE]
          /\ heartbeats' = [t \in Tokens |-> IF runs(t) = {} THEN "none" ELSE "fresh"]
      BY <2>1 DEF Restart, Retrack
    <3>2. \A t \in Tokens : runs(t) # {} => (CHOOSE j \in runs(t) : TRUE) \in runs(t)
      OBVIOUS
    <3> QED BY <1>1, <3>1, <3>2 DEF TypeOK
  <2>2. CASE Backend # "fs"
    BY <1>1, <2>2 DEF Restart, IInv, TypeOK, TokensLeadToJobs
  <2> QED BY <2>1, <2>2
<1>3. TypeOK'
  <2>1. stranded' \subseteq Jobs
    BY <1>1 DEF TypeOK, Call
  <2> QED BY <1>1, <1>2, <2>1, WorkerAssumption DEF TypeOK
<1>4. TokensUnique' /\ TokensLeadToJobs' /\ OnlyFinishedHaveArtifacts' /\ SlotsHoldTokens'
      /\ SlotsHaveUploaded' /\ SuccessIsUploaded'
  BY <1>1, <1>2 DEF IInv, TokensUnique, TokensLeadToJobs, OnlyFinishedHaveArtifacts,
     SlotsHoldTokens, SlotsHaveUploaded, SuccessIsUploaded, Used, Over, UploadOver
<1>5. CallsKnowJobs' /\ CallsHaveUploaded' /\ HandlesOfJobs'
  BY <1>1 DEF CallsKnowJobs, CallsHaveUploaded, HandlesOfJobs
<1>6. SuccessHasArtifact'
  <2>1. \A k \in DOMAIN jobs : ArtifactReady(k) => ArtifactReady(k)'
    BY <1>1 DEF ArtifactReady
  <2> QED BY <1>1, <2>1 DEF IInv, SuccessHasArtifact
<1> QED BY <1>3, <1>4, <1>5, <1>6 DEF IInv

-----------------------------------------------------------------------------
LEMMA Step == IInv /\ [Next]_vars => IInv'
<1> SUFFICES ASSUME IInv, [Next]_vars PROVE IInv'
  OBVIOUS
<1>1. ASSUME NEW j \in Jobs, Enqueue(j) \/ Cancel(j) \/ DeleteArtifacts(j) PROVE IInv'
  BY <1>1, EnqueueKeeps, CancelKeeps, DeleteKeeps
<1>2. ASSUME NEW s \in Slots, Working(s) PROVE IInv'
  <2>1. ASSUME NEW j \in Jobs, NEW token \in Tokens,
               RequestJob(s, j, token) \/ RequestJobLost(s, j, token)
        PROVE  IInv'
    BY <2>1, HandOutKeeps DEF RequestJob, RequestJobLost
  <2>2. CASE WorkerDies(s)
    BY <2>2, ExitKeeps DEF WorkerDies
  <2> QED BY <1>2, <2>1, <2>2, BuildKeeps, IdleKeeps, UploadKeeps, CopiedKeeps, UploadBrokenKeeps,
             TargetKeeps, UpdateKeeps, GetJobKeeps DEF Working
<1>3. ASSUME NEW p \in polls, Answering(p) PROVE IInv'
  <2>1. CASE AnswerCanceled(p)
    BY <2>1, ExitKeeps DEF AnswerCanceled, AfterExit
  <2> QED BY <1>3, <2>1, RefreshKeeps DEF Answering
<1>4. ASSUME NEW c \in finishing, Finishing(c) PROVE IInv'
  BY <1>4, FinishJobKeeps, FinishRefusedKeeps, MoveKeeps, MoveFailsKeeps DEF Finishing
<1>5. CASE WatchHeartbeats \/ \E token \in Tokens : Age(token)
  BY <1>5, WatchKeeps
<1>6. ASSUME NEW token \in Tokens, Expire(token) PROVE IInv'
  BY <1>6, ExpireKeeps
<1>7. CASE UNCHANGED vars
  BY <1>7, ReadKeeps DEF vars, queue, artifacts, handlers, Settled, IInv, TypeOK
<1> QED BY <1>1, <1>2, <1>3, <1>4, <1>5, <1>6, <1>7, RestartKeeps DEF Next

(***************************************************************************)
(* The queue, the directories of artifacts, the handlers of the worker     *)
(* server that are between two calls and the goroutines of the workers     *)
(* agree in every state, whatever is lost, repeated, expired or restarted. *)
(***************************************************************************)
THEOREM Invariant == Spec => []IInv
  BY Initially, Step, PTL DEF Spec

(***************************************************************************)
(* ArtifactsInPlace: an open upload points at an unfinished file, and only *)
(* finished jobs have files where JobArtifact looks for them, because      *)
(* Server.FinishJob moves the directory only after the queue's FinishJob   *)
(* accepted the result, and an upload that is still open then goes on in   *)
(* the place of that very job.                                             *)
(***************************************************************************)
THEOREM Artifacts == Spec => []ArtifactsInPlace
<1>1. IInv => ArtifactsInPlace
  BY DEF IInv, ArtifactsInPlace
<1> QED BY <1>1, Invariant, PTL

(***************************************************************************)
(* SuccessHasArtifact: a job that OSBuildJobImpl reported as a success has *)
(* its whole image in its artifacts, or in the directory the call of       *)
(* FinishJob is about to move, whatever was lost, repeated or expired.     *)
(* Only a stop of composer before the move, a job that cannot be read back *)
(* and a rename that fails leave the image, whole, in that directory.      *)
(***************************************************************************)
THEOREM SuccessArtifact == Spec => []SuccessHasArtifact
<1>1. IInv => SuccessHasArtifact
  BY DEF IInv
<1> QED BY <1>1, Invariant, PTL

(***************************************************************************)
(* The server uses the queue as JobQueue says it may, and hands every step *)
(* of its own on to one operation of the queue at most: its behaviours are *)
(* behaviours of JobQueue, so a composer may run on either implementation. *)
(***************************************************************************)
THEOREM UsesJobQueue == Spec => Queue!Spec
<1>1. Init => Queue!Init
  <2> SUFFICES ASSUME Init PROVE Queue!Init
    OBVIOUS
  <2>1. jobs \in [{} -> {j \in Queue!Job : j.status = "running"}]
    BY DEF Init
  <2> QED BY <2>1 DEF Queue!Init
<1>2. IInv /\ [Next]_vars => [Queue!Next]_jobs
  <2> SUFFICES ASSUME IInv, [Next]_vars PROVE Queue!Next \/ jobs' = jobs
    OBVIOUS
  <2>1. ASSUME NEW j \in Jobs, Enqueue(j) PROVE Queue!Next
    BY <2>1 DEF Enqueue, Queue!Next
  <2>2. ASSUME NEW j \in Jobs, Cancel(j) PROVE Queue!Next \/ jobs' = jobs
    BY <2>2 DEF Cancel, Queue!Next
  <2>3. ASSUME NEW s \in Slots, NEW j \in Jobs, NEW token \in Tokens,
               RequestJob(s, j, token) \/ RequestJobLost(s, j, token)
        PROVE  Queue!Next
    BY <2>3 DEF RequestJob, RequestJobLost, HandOut, Queue!Next
  <2>4. ASSUME NEW c \in finishing, FinishJob(c) PROVE Queue!Next
    <3>1. c.id \in Jobs /\ c.result \in OSBuildJobResult
      BY DEF IInv, TypeOK, Call
    <3> QED BY <2>4, <3>1 DEF FinishJob, Queue!Next
  <2>5. \/ \E j \in Jobs : Enqueue(j) \/ Cancel(j)
        \/ \E s \in Slots, j \in Jobs, token \in Tokens :
              RequestJob(s, j, token) \/ RequestJobLost(s, j, token)
        \/ \E c \in finishing : FinishJob(c)
        \/ jobs' = jobs
    <3>1. ASSUME NEW s \in Slots, Working(s)
          PROVE  \/ \E j \in Jobs, token \in Tokens :
                       RequestJob(s, j, token) \/ RequestJobLost(s, j, token)
                 \/ jobs' = jobs
      BY <3>1 DEF Working, Build, Abort, UploadJobArtifact, Copied, UploadBroken, UploadCut, Target,
                  Update, UpdateLost, Updated, GetJob, WorkerDies, Exit, queue
    <3>2. ASSUME NEW p \in polls, Answering(p) PROVE jobs' = jobs
      BY <3>2 DEF Answering, RefreshHeartbeat, AnswerCanceled, AnswerOther, Exit, queue
    <3> QED BY <3>1, <3>2 DEF Next, Finishing, FinishRefused, MoveArtifacts, MoveFails,
               DeleteArtifacts, Age,
               Expire, WatchHeartbeats, Restart, vars, queue
  <2> QED BY <2>1, <2>2, <2>3, <2>4, <2>5
<1> QED BY <1>1, <1>2, Invariant, PTL DEF Spec, Queue!Spec
=============================================================================

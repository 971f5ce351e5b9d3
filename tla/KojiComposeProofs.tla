-------------------------- MODULE KojiComposeProofs -------------------------
(***************************************************************************)
(* Proofs about KojiCompose, for any number of builds and any faults.      *)
(***************************************************************************)
EXTENDS KojiCompose, TLAPS

\* The finalize job waits for the init job and for all builds.
FinalizeWaits ==
    finalizeID \in DOMAIN jobs => jobs[finalizeID].Dependencies = FinalizeDependencies

\* A job is dequeued after its dependencies have finished, and these are in the queue.
DependenciesFirst ==
    \A j \in DOMAIN jobs :
        /\ jobs[j].Dependencies \subseteq DOMAIN jobs
        /\ jobs[j].status # "queued" =>
              \A d \in jobs[j].Dependencies : jobs[d].status = "finished"

\* Only a job that was dequeued has a result to report.
OutcomeIsOfStarted ==
    \A j \in Jobs : outcome[j] # Nil => j \in DOMAIN jobs /\ jobs[j].status # "queued"

\* The result of a finished job is what its worker returned, or null when it was given up on.
ResultIsReported ==
    \A j \in DOMAIN jobs :
        /\ jobs[j].status = "finished" /\ j \notin expired =>
              outcome[j] # Nil /\ jobs[j].Result = outcome[j]
        /\ j \in expired => jobs[j].Result = Null

\* A build whose worker saw no error has its image in the Koji directory.
GoodIsUploaded ==
    \A b \in Builds :
        outcome[b] # Nil /\ outcome[b].Output = "good" /\ ~outcome[b].KojiError => b \in uploaded

\* Every job the finalize job looks at is over and good.
AllGood ==
    /\ ~InitFailed
    /\ \A b \in Builds : /\ b \in DOMAIN jobs
                         /\ jobs[b].status = "finished"
                         /\ jobs[b].Result.Output = "good"
                         /\ ~jobs[b].Result.KojiError

SomeFailed ==
    InitFailed \/ \E b \in Builds : jobs[b].Result.Output = "bad" \/ jobs[b].Result.KojiError

\* An imported build had a finalize job, and nothing for it to object to.
ImportedIsGood ==
    koji = "complete" => /\ finalizeID \in DOMAIN jobs
                         /\ jobs[finalizeID].status # "queued"
                         /\ AllGood

\* A finalize job that returned no error has imported the build, or failed it for a reason.
FinalizeDecides ==
    outcome[finalizeID] # Nil /\ ~outcome[finalizeID].KojiError => koji = "complete" \/ SomeFailed

(***************************************************************************)
(* The inductive invariant: what a worker did in Koji, what it returned    *)
(* and what the queue records of it are three things that change at        *)
(* different times; these are the relations between them that last.        *)
(***************************************************************************)
IInv ==
    /\ TypeOK
    /\ FinalizeWaits
    /\ DependenciesFirst
    /\ OutcomeIsOfStarted
    /\ ResultIsReported
    /\ GoodIsUploaded
    /\ ImportedIsGood
    /\ FinalizeDecides

-----------------------------------------------------------------------------
(***************************************************************************)
(* The operations of the queue.                                            *)
(***************************************************************************)
LEMMA Enqueued ==
    ASSUME TypeOK, NEW j \in Jobs, NEW type \in {"koji-init", "osbuild-koji", "koji-finalize"},
           NEW deps \in SUBSET Jobs, Queue!Enqueue(j, type, deps)
    PROVE  /\ j \notin DOMAIN jobs
           /\ deps \subseteq DOMAIN jobs
           /\ DOMAIN jobs' = DOMAIN jobs \cup {j}
           /\ jobs'[j].Dependencies = deps
           /\ jobs'[j].status = "queued"
           /\ \A x \in DOMAIN jobs : jobs'[x] = jobs[x]
           /\ \A x \in DOMAIN jobs' : jobs'[x] \in Queue!Job
  BY DEF TypeOK, Queue!Enqueue, Queue!With, Queue!Job

LEMMA Dequeued ==
    ASSUME TypeOK, NEW j \in Jobs, Queue!Dequeue(j, j)
    PROVE  /\ j \in DOMAIN jobs
           /\ jobs[j].status = "queued"
           /\ \A d \in jobs[j].Dependencies : jobs[d].status = "finished"
           /\ DOMAIN jobs' = DOMAIN jobs
           /\ jobs'[j].status = "running"
           /\ jobs'[j].Dependencies = jobs[j].Dependencies
           /\ jobs'[j].Result = jobs[j].Result
           /\ \A x \in DOMAIN jobs : x # j => jobs'[x] = jobs[x]
           /\ \A x \in DOMAIN jobs' : jobs'[x] \in Queue!Job
  BY DEF TypeOK, Queue!Dequeue, Queue!Job

LEMMA Finished ==
    ASSUME TypeOK, NEW j \in Jobs, NEW r \in Result, Queue!FinishJob(j, r)
    PROVE  /\ j \in DOMAIN jobs
           /\ jobs[j].status = "running"
           /\ DOMAIN jobs' = DOMAIN jobs
           /\ jobs'[j].status = "finished"
           /\ jobs'[j].Dependencies = jobs[j].Dependencies
           /\ jobs'[j].Result = r
           /\ \A x \in DOMAIN jobs : x # j => jobs'[x] = jobs[x]
           /\ \A x \in DOMAIN jobs' : jobs'[x] \in Queue!Job
<1>1. /\ j \in DOMAIN jobs /\ jobs[j].status = "running" /\ jobs[j] \in Queue!Job
      /\ jobs' = [jobs EXCEPT ![j].status = "finished", ![j].Result = r]
  BY DEF TypeOK, Queue!FinishJob
<1>2. /\ DOMAIN jobs' = DOMAIN jobs
      /\ jobs'[j] = [jobs[j] EXCEPT !.status = "finished", !.Result = r]
      /\ \A x \in DOMAIN jobs : x # j => jobs'[x] = jobs[x]
  BY <1>1
<1>3. /\ jobs'[j].status = "finished"
      /\ jobs'[j].Dependencies = jobs[j].Dependencies
      /\ jobs'[j].Result = r
      /\ jobs'[j] \in Queue!Job
  BY <1>1, <1>2 DEF Queue!Job
<1> QED BY <1>1, <1>2, <1>3 DEF TypeOK

(***************************************************************************)
(* What a worker returns.                                                  *)
(***************************************************************************)
LEMMA ResultTypes ==
    /\ Null \in Result /\ Error \in Result
    /\ Null.Output = "none" /\ ~Null.KojiError /\ Error.KojiError
    /\ [Null EXCEPT !.BuildID = TRUE] \in Result
    /\ \A o \in {"none", "good", "bad"} :
          /\ [Null EXCEPT !.Output = o] \in Result
          /\ [Null EXCEPT !.Output = o].Output = o
          /\ [Error EXCEPT !.Output = o] \in Result
          /\ [Error EXCEPT !.Output = o].KojiError
  BY DEF Result, Null, Error

LEMMA AnswerTypes ==
    ASSUME NEW r \in Result, NEW a \in Answers(r)
    PROVE  a \in Result /\ (a = r \/ a.KojiError)
  BY DEF Answers, Result

LEMMA BuildJobs ==
    /\ Builds \subseteq Jobs /\ initID \in Jobs /\ finalizeID \in Jobs
    /\ initID \notin Builds /\ finalizeID \notin Builds /\ initID # finalizeID
    /\ \A i \in 1 .. Len(buildIDs) : buildIDs[i] \in Builds
    /\ \A b \in Builds : \E i \in 1 .. Len(buildIDs) : b = buildIDs[i]
    /\ FinalizeDependencies = {initID} \cup Builds
  BY KojiAssumption DEF Builds, Jobs, FinalizeDependencies

LEMMA Initially == Init => IInv
<1> SUFFICES ASSUME Init PROVE IInv
  OBVIOUS
<1>1. /\ DOMAIN jobs = {} /\ \A j \in Jobs : outcome[j] = Nil
      /\ koji = "none"
  BY DEF Init
<1>2. TypeOK
  BY <1>1 DEF Init, TypeOK
<1> QED BY <1>1, <1>2, BuildJobs DEF IInv, FinalizeWaits, DependenciesFirst, OutcomeIsOfStarted,
           ResultIsReported, GoodIsUploaded, ImportedIsGood, FinalizeDecides

(***************************************************************************)
(* Enqueuing: the new job is nobody's dependency, and has no outcome.      *)
(***************************************************************************)
LEMMA EnqueueKeeps ==
    ASSUME IInv, NEW j \in Jobs, NEW type \in {"koji-init", "osbuild-koji", "koji-finalize"},
           NEW deps \in SUBSET Jobs, Queue!Enqueue(j, type, deps),
           j = finalizeID => deps = FinalizeDependencies,
           handler' \in {"new", "building", "waiting", "created", "refused", "crashed"},
           UNCHANGED <<alive, outcome, koji, uploaded, expired>>
    PROVE  IInv'
<1>0. TypeOK
  BY DEF IInv
<1>1. /\ j \notin DOMAIN jobs
      /\ deps \subseteq DOMAIN jobs
      /\ DOMAIN jobs' = DOMAIN jobs \cup {j}
      /\ jobs'[j].Dependencies = deps
      /\ jobs'[j].status = "queued"
      /\ \A x \in DOMAIN jobs : jobs'[x] = jobs[x]
      /\ \A x \in DOMAIN jobs' : jobs'[x] \in Queue!Job
  BY <1>0, Enqueued
<1>2. TypeOK'
  BY <1>0, <1>1 DEF TypeOK
<1>3. FinalizeWaits'
  BY <1>1 DEF IInv, FinalizeWaits, FinalizeDependencies
<1>4. DependenciesFirst'
  BY <1>1 DEF IInv, DependenciesFirst
<1>5. OutcomeIsOfStarted'
  BY <1>1 DEF IInv, OutcomeIsOfStarted
<1>6. ResultIsReported'
  BY <1>0, <1>1 DEF IInv, ResultIsReported, TypeOK
<1>7. GoodIsUploaded'
  BY DEF IInv, GoodIsUploaded
<1>8. finalizeID \in DOMAIN jobs /\ jobs[finalizeID].status # "queued" =>
        /\ initID \in DOMAIN jobs /\ Builds \subseteq DOMAIN jobs
  BY BuildJobs DEF IInv, DependenciesFirst, FinalizeWaits
<1>9. ImportedIsGood'
  BY <1>1, <1>8 DEF IInv, ImportedIsGood, AllGood, InitFailed
<1>10. FinalizeDecides'
  BY <1>1, <1>8, BuildJobs DEF IInv, FinalizeDecides, SomeFailed, InitFailed, OutcomeIsOfStarted
<1> QED BY <1>2, <1>3, <1>4, <1>5, <1>6, <1>7, <1>9, <1>10 DEF IInv

(***************************************************************************)
(* Once the finalize job is dequeued, what it looks at does not change.    *)
(***************************************************************************)
LEMMA FinalizeSees ==
    ASSUME IInv, finalizeID \in DOMAIN jobs, jobs[finalizeID].status # "queued"
    PROVE  /\ initID \in DOMAIN jobs /\ jobs[initID].status = "finished"
           /\ \A b \in Builds : b \in DOMAIN jobs /\ jobs[b].status = "finished"
  BY BuildJobs DEF IInv, DependenciesFirst, FinalizeWaits

LEMMA StartKeeps == ASSUME IInv, NEW j \in Jobs, Start(j) PROVE IInv'
<1>0. TypeOK /\ UNCHANGED <<handler, outcome, koji, uploaded, expired>> /\ alive' = alive \cup {j}
  BY DEF IInv, Start
<1>1. /\ j \in DOMAIN jobs
      /\ jobs[j].status = "queued"
      /\ \A d \in jobs[j].Dependencies : jobs[d].status = "finished"
      /\ DOMAIN jobs' = DOMAIN jobs
      /\ jobs'[j].status = "running"
      /\ jobs'[j].Dependencies = jobs[j].Dependencies
      /\ jobs'[j].Result = jobs[j].Result
      /\ \A x \in DOMAIN jobs : x # j => jobs'[x] = jobs[x]
      /\ \A x \in DOMAIN jobs' : jobs'[x] \in Queue!Job
  BY <1>0, Dequeued DEF Start
<1>2. TypeOK'
  BY <1>0, <1>1 DEF TypeOK
<1>3. FinalizeWaits'
  BY <1>1 DEF IInv, FinalizeWaits, FinalizeDependencies
<1>4. DependenciesFirst'
  BY <1>1 DEF IInv, DependenciesFirst
<1>5. OutcomeIsOfStarted'
  BY <1>0, <1>1 DEF IInv, OutcomeIsOfStarted
<1>6. ResultIsReported'
  BY <1>0, <1>1 DEF IInv, ResultIsReported, TypeOK
<1>7. GoodIsUploaded'
  BY <1>0 DEF IInv, GoodIsUploaded
<1>8. ImportedIsGood'
  BY <1>0, <1>1, FinalizeSees DEF IInv, ImportedIsGood, AllGood, InitFailed
<1>9. FinalizeDecides'
  BY <1>0, <1>1, FinalizeSees, BuildJobs
     DEF IInv, FinalizeDecides, SomeFailed, InitFailed, OutcomeIsOfStarted
<1> QED BY <1>2, <1>3, <1>4, <1>5, <1>6, <1>7, <1>8, <1>9 DEF IInv

(***************************************************************************)
(* A job that was running finishes: with what its worker returned, or with *)
(* null, and is given up on.                                               *)
(***************************************************************************)
LEMMA FinishKeeps ==
    ASSUME IInv, NEW j \in Jobs, NEW r \in Result, Queue!FinishJob(j, r),
           \/ outcome[j] = r /\ outcome[j] # Nil /\ expired' = expired /\ alive' = alive \ {j}
           \/ r = Null /\ expired' = expired \cup {j} /\ alive' = alive,
           UNCHANGED <<handler, outcome, koji, uploaded>>
    PROVE  IInv'
<1>0. TypeOK
  BY DEF IInv
<1>1. /\ j \in DOMAIN jobs
      /\ jobs[j].status = "running"
      /\ DOMAIN jobs' = DOMAIN jobs
      /\ jobs'[j].status = "finished"
      /\ jobs'[j].Dependencies = jobs[j].Dependencies
      /\ jobs'[j].Result = r
      /\ \A x \in DOMAIN jobs : x # j => jobs'[x] = jobs[x]
      /\ \A x \in DOMAIN jobs' : jobs'[x] \in Queue!Job
  BY <1>0, Finished
<1>2. TypeOK'
  BY <1>0, <1>1 DEF TypeOK
<1>3. FinalizeWaits'
  BY <1>1 DEF IInv, FinalizeWaits, FinalizeDependencies
<1>4. DependenciesFirst'
  BY <1>1 DEF IInv, DependenciesFirst
<1>5. OutcomeIsOfStarted'
  BY <1>1 DEF IInv, OutcomeIsOfStarted
<1>6. ResultIsReported'
  <2>1. j \notin expired
    BY <1>0, <1>1 DEF TypeOK
  <2> QED BY <1>1, <2>1 DEF IInv, ResultIsReported
<1>7. GoodIsUploaded'
  BY DEF IInv, GoodIsUploaded
<1>8. ImportedIsGood'
  BY <1>1, FinalizeSees DEF IInv, ImportedIsGood, AllGood, InitFailed
<1>9. FinalizeDecides'
  BY <1>1, FinalizeSees, BuildJobs
     DEF IInv, FinalizeDecides, SomeFailed, InitFailed, OutcomeIsOfStarted
<1> QED BY <1>2, <1>3, <1>4, <1>5, <1>6, <1>7, <1>8, <1>9 DEF IInv

(***************************************************************************)
(* A worker acts on Koji and has a result to report; the queue stays.      *)
(***************************************************************************)
LEMMA WorkerKeeps ==
    ASSUME IInv, NEW j \in Jobs, NEW r \in Result, Runs(j), Returns(j, r),
           koji' \in {"none", "building", "complete", "failed"},
           koji = "complete" => koji' = "complete",
           koji' = "complete" => koji = "complete" \/ (j = finalizeID /\ AllGood),
           uploaded \subseteq uploaded', uploaded' \subseteq Builds,
           j \in Builds /\ r.Output = "good" /\ ~r.KojiError => j \in uploaded',
           j = finalizeID /\ ~r.KojiError => koji' = "complete" \/ SomeFailed,
           UNCHANGED <<jobs, handler, alive, expired>>
    PROVE  IInv'
<1>1. /\ TypeOK /\ j \in DOMAIN jobs /\ jobs[j].status # "queued" /\ outcome[j] = Nil
      /\ outcome' \in [Jobs -> Result \cup {Nil}]
      /\ outcome'[j] = r /\ \A k \in Jobs : k # j => outcome'[k] = outcome[k]
  BY DEF IInv, TypeOK, Runs, Returns
<1>2. TypeOK'
  BY <1>1 DEF TypeOK
<1>3. FinalizeWaits' /\ DependenciesFirst'
  BY DEF IInv, FinalizeWaits, DependenciesFirst, FinalizeDependencies
<1>4. OutcomeIsOfStarted'
  BY <1>1 DEF IInv, OutcomeIsOfStarted
<1>5. ResultIsReported'
  BY <1>1 DEF IInv, ResultIsReported, TypeOK
<1>6. GoodIsUploaded'
  BY <1>1, BuildJobs DEF IInv, GoodIsUploaded
<1>7. ImportedIsGood'
  BY <1>1 DEF IInv, ImportedIsGood, AllGood, InitFailed
<1>8. FinalizeDecides'
  BY <1>1, BuildJobs DEF IInv, FinalizeDecides, SomeFailed, InitFailed
<1> QED BY <1>2, <1>3, <1>4, <1>5, <1>6, <1>7, <1>8 DEF IInv

LEMMA KojiInitKeeps == ASSUME IInv, KojiInit PROVE IInv'
<1>1. PICK r \in Result : Returns(initID, r)
  BY AnswerTypes, ResultTypes DEF KojiInit
<1>2. /\ koji' = koji \/ (koji = "none" /\ koji' = "building")
      /\ Runs(initID) /\ UNCHANGED <<jobs, handler, alive, uploaded, expired>>
  BY DEF KojiInit, Opened, CallFails
<1>3. koji \in {"none", "building", "complete", "failed"} /\ uploaded \subseteq Builds
  BY DEF IInv, TypeOK
<1> QED BY <1>1, <1>2, <1>3, BuildJobs, WorkerKeeps

LEMMA OSBuildKojiKeeps == ASSUME IInv, NEW b \in Builds, OSBuildKoji(b) PROVE IInv'
<1>1. koji \in {"none", "building", "complete", "failed"} /\ uploaded \subseteq Builds
  BY DEF IInv, TypeOK
<1>2. Runs(b) /\ UNCHANGED <<jobs, handler, alive, koji, expired>>
  BY DEF OSBuildKoji
<1>3. PICK r \in Result : /\ Returns(b, r)
                          /\ uploaded' = uploaded \/ uploaded' = uploaded \cup {b}
                          /\ r.Output = "good" /\ ~r.KojiError => b \in uploaded'
  <2>1. CASE Returns(b, Null) /\ UNCHANGED uploaded
    BY <2>1, ResultTypes
  <2>2. CASE Returns(b, [Null EXCEPT !.Output = "bad"]) /\ UNCHANGED uploaded
    BY <2>2, ResultTypes
  <2>3. CASE /\ \E r \in Answers([Null EXCEPT !.Output = "good"]) : Returns(b, r)
             /\ uploaded' = uploaded \cup {b}
    BY <2>3, ResultTypes, AnswerTypes
  <2>4. CASE Returns(b, [Error EXCEPT !.Output = "good"]) /\ UNCHANGED uploaded
    BY <2>4, ResultTypes
  <2> QED BY <2>1, <2>2, <2>3, <2>4 DEF OSBuildKoji
<1> QED BY <1>1, <1>2, <1>3, BuildJobs, WorkerKeeps

LEMMA FinalizeFailsKeeps == ASSUME IInv, FinalizeFails PROVE IInv'
<1>1. /\ koji \in {"none", "building", "complete", "failed"} /\ uploaded \subseteq Builds
      /\ Runs(finalizeID) /\ UNCHANGED <<jobs, handler, alive, uploaded, expired>>
      /\ koji' = koji \/ (koji = "building" /\ koji' = "failed")
  BY DEF IInv, TypeOK, FinalizeFails, Closed, CallFails
<1>2. PICK r \in Result : Returns(finalizeID, r)
  BY AnswerTypes, ResultTypes DEF FinalizeFails
<1>3. SomeFailed
  <2>1. CASE InitFailed
    BY <2>1 DEF SomeFailed
  <2>2. CASE \E i \in Stops : First(i) /\ build(i).Output # "none"
    <3>1. PICK i \in 1 .. Len(buildIDs) : /\ build(i).Output # "none"
                                          /\ build(i).Output # "good" \/ build(i).KojiError
      BY <2>2 DEF Stops
    <3>2. finalizeID \in DOMAIN jobs /\ jobs[finalizeID].status # "queued"
      BY <1>1 DEF IInv, TypeOK, Runs
    <3>3. buildIDs[i] \in Builds /\ buildIDs[i] \in DOMAIN jobs
          /\ jobs[buildIDs[i]].status = "finished"
      BY <3>2, BuildJobs, FinalizeSees
    <3>4. build(i) \in Result
      BY <3>3, BuildJobs, ResultTypes DEF IInv, TypeOK, ResultIsReported, build
    <3> QED BY <3>1, <3>3, <3>4 DEF SomeFailed, build, Result
  <2> QED BY <2>1, <2>2 DEF FinalizeFails, hasFailedDependency
<1> QED BY <1>1, <1>2, <1>3, BuildJobs, WorkerKeeps

LEMMA FinalizeImportsKeeps == ASSUME IInv, FinalizeImports PROVE IInv'
<1>1. /\ koji \in {"none", "building", "complete", "failed"} /\ uploaded \subseteq Builds
      /\ Runs(finalizeID) /\ UNCHANGED <<jobs, handler, alive, uploaded, expired>>
      /\ koji' = koji \/ (koji = "building" /\ koji' = "complete")
  BY DEF IInv, TypeOK, FinalizeImports, Closed, CallFails
<1>2. PICK r \in Result : Returns(finalizeID, r) /\ (~r.KojiError => koji' = "complete")
  BY AnswerTypes, ResultTypes DEF FinalizeImports, Closed
<1>3. AllGood
  <2>1. finalizeID \in DOMAIN jobs /\ jobs[finalizeID].status # "queued"
    BY <1>1 DEF IInv, TypeOK, Runs
  <2>2. \A i \in 1 .. Len(buildIDs) : build(i).Output = "good" /\ ~build(i).KojiError
    BY DEF FinalizeImports, Stops
  <2>3. ~InitFailed
    BY DEF FinalizeImports
  <2> QED BY <2>1, <2>2, <2>3, BuildJobs, FinalizeSees DEF AllGood, build
<1> QED BY <1>1, <1>2, <1>3, BuildJobs, WorkerKeeps

-----------------------------------------------------------------------------
LEMMA Step == IInv /\ [Next]_vars => IInv'
<1> SUFFICES ASSUME IInv, [Next]_vars PROVE IInv'
  OBVIOUS
<1>1. CASE EnqueueKojiInit
  BY <1>1, BuildJobs, EnqueueKeeps DEF EnqueueKojiInit
<1>2. ASSUME NEW i \in 1 .. Len(buildIDs), EnqueueOSBuildKoji(i) PROVE IInv'
  <2>1. handler' \in {"new", "building", "waiting", "created", "refused", "crashed"}
    BY <1>2 DEF IInv, TypeOK, EnqueueOSBuildKoji
  <2> QED BY <1>2, <2>1, BuildJobs, EnqueueKeeps DEF EnqueueOSBuildKoji
<1>3. CASE EnqueueKojiFinalize
  BY <1>3, BuildJobs, EnqueueKeeps DEF EnqueueKojiFinalize
<1>4. CASE UNCHANGED <<jobs, outcome, koji, uploaded, expired>>
           /\ handler' \in {"new", "building", "waiting", "created", "refused", "crashed"}
           /\ alive' \subseteq alive
  BY <1>4 DEF IInv, TypeOK, FinalizeWaits, DependenciesFirst, OutcomeIsOfStarted, ResultIsReported,
     GoodIsUploaded, ImportedIsGood, FinalizeDecides, AllGood, SomeFailed, InitFailed,
     FinalizeDependencies
<1>5. ASSUME NEW j \in Jobs, Report(j) PROVE IInv'
  <2>1. CASE Queue!FinishJob(j, outcome[j])
    <3>1. outcome[j] \in Result
      BY <1>5 DEF IInv, TypeOK, Report
    <3> QED BY <1>5, <2>1, <3>1, FinishKeeps DEF Report
  <2>2. CASE UNCHANGED jobs
    BY <1>4, <1>5, <2>2 DEF IInv, TypeOK, Report
  <2> QED BY <1>5, <2>1, <2>2 DEF Report
<1>6. ASSUME NEW j \in Jobs, Expire(j) PROVE IInv'
  BY <1>6, ResultTypes, FinishKeeps DEF Expire
<1>7. CASE ReplyCompose \/ Crash \/ FinalizePanics \/ UNCHANGED vars
           \/ \E j \in Jobs : WorkerDies(j)
  BY <1>4, <1>7 DEF IInv, TypeOK, ReplyCompose, Crash, FinalizePanics, WorkerDies, vars
<1> QED BY <1>1, <1>2, <1>3, <1>5, <1>6, <1>7, StartKeeps, KojiInitKeeps, OSBuildKojiKeeps,
           FinalizeFailsKeeps, FinalizeImportsKeeps DEF Next, PostCompose, Run

(***************************************************************************)
(* The jobs of a Koji compose, what their workers did in Koji and what     *)
(* PostCompose has enqueued agree in every state, whichever worker dies,   *)
(* is taken for dead or comes back late, and wherever composer stops.      *)
(***************************************************************************)
THEOREM Invariant == Spec => []IInv
  BY Initially, Step, PTL DEF Spec

(***************************************************************************)
(* ImportIsSound: KojiFinalizeJobImpl calls CGImport only with all images  *)
(* in the Koji directory and all build jobs finished and good, whichever   *)
(* worker was given up on and came back late; what it looked at cannot     *)
(* change any more.                                                        *)
(***************************************************************************)
THEOREM ImportSound == Spec => []ImportIsSound
<1>1. IInv => ImportIsSound
  <2> SUFFICES ASSUME IInv PROVE ImportedIsWhole
    BY DEF IInv, ImportIsSound
  <2> SUFFICES ASSUME koji = "complete"
               PROVE  /\ uploaded = Builds
                      /\ \A i \in 1 .. Len(buildIDs) :
                            jobs[buildIDs[i]].status = "finished" /\ build(i).Output = "good"
    BY DEF ImportedIsWhole
  <2>1. AllGood
    BY DEF IInv, ImportedIsGood
  <2>2. ASSUME NEW b \in Builds PROVE b \in uploaded
    <3>1. /\ b \in DOMAIN jobs /\ jobs[b].status = "finished"
          /\ jobs[b].Result.Output = "good" /\ ~jobs[b].Result.KojiError
      BY <2>1 DEF AllGood
    <3>2. outcome[b] # Nil /\ jobs[b].Result = outcome[b]
      BY <3>1, ResultTypes DEF IInv, ResultIsReported
    <3> QED BY <3>1, <3>2 DEF IInv, GoodIsUploaded
  <2>3. uploaded = Builds
    BY <2>2 DEF IInv, TypeOK
  <2> QED BY <2>1, <2>3, BuildJobs DEF AllGood, build
<1> QED BY <1>1, Invariant, PTL

(***************************************************************************)
(* SuccessUnlessExpired: composeStatusFromJobStatus says success only of a *)
(* compose whose build is complete in Koji and whose images all have the   *)
(* status success, unless WatchHeartbeats gave up on one of its jobs.      *)
(***************************************************************************)
THEOREM SuccessIsImported == Spec => []SuccessUnlessExpired
<1>1. IInv => SuccessUnlessExpired
  <2> SUFFICES ASSUME IInv, ComposeStatus = "success", expired = {} PROVE Success
    BY DEF SuccessUnlessExpired
  <2>1. /\ finalizeID \in DOMAIN jobs /\ jobs[finalizeID].status = "finished"
        /\ ~ComposeFailed
    BY DEF ComposeStatus
  <2>2. outcome[finalizeID] # Nil /\ ~outcome[finalizeID].KojiError
    BY <2>1 DEF IInv, ResultIsReported, ComposeFailed
  <2>3. ~SomeFailed
    BY <2>1, BuildJobs DEF ComposeFailed, SomeFailed, build
  <2>4. koji = "complete" /\ AllGood
    BY <2>2, <2>3 DEF IInv, FinalizeDecides, ImportedIsGood
  <2>5. ASSUME NEW i \in 1 .. Len(buildIDs) PROVE ImageStatus(i) = "success"
    <3>1. /\ jobs[buildIDs[i]].status = "finished" /\ build(i).Output = "good"
          /\ ~build(i).KojiError /\ ~InitFailed
      BY <2>4, BuildJobs DEF AllGood, build
    <3> QED BY <3>1 DEF ImageStatus
  <2> QED BY <2>4, <2>5 DEF Success
<1> QED BY <1>1, Invariant, PTL

(***************************************************************************)
(* The handler, the workers and WatchHeartbeats use the queue as JobQueue  *)
(* says they may, each job being finished with a result or with null: a    *)
(* Koji compose is a behaviour of JobQueue, so it may run on either        *)
(* implementation.                                                         *)
(***************************************************************************)
THEOREM UsesJobQueue == Spec => Queue!Spec
<1>1. Init => Queue!Init
  <2> SUFFICES ASSUME Init PROVE Queue!Init
    OBVIOUS
  <2>1. jobs \in [{} -> {j \in Queue!Job : j.status = "running"}]
    BY DEF Init
  <2> QED BY <2>1 DEF Queue!Init
<1>2. IInv /\ [Next]_vars => [Queue!Next]_jobs
  <2> SUFFICES ASSUME IInv, [Next]_vars PROVE Queue!Next \/ jobs' = jobs
    OBVIOUS
  <2>1. ASSUME EnqueueKojiInit PROVE Queue!Next
    <3>1. initID \in Jobs
      BY DEF Jobs
    <3> QED BY <2>1, <3>1 DEF EnqueueKojiInit, Queue!Next
  <2>2. ASSUME NEW i \in 1 .. Len(buildIDs), EnqueueOSBuildKoji(i) PROVE Queue!Next
    <3>1. buildIDs[i] \in Jobs /\ {initID} \in SUBSET Jobs
      BY DEF Jobs, Builds
    <3> QED BY <2>2, <3>1 DEF EnqueueOSBuildKoji, Queue!Next
  <2>3. ASSUME EnqueueKojiFinalize PROVE Queue!Next
    <3>1. finalizeID \in Jobs /\ FinalizeDependencies \in SUBSET Jobs
      BY DEF Jobs, FinalizeDependencies
    <3> QED BY <2>3, <3>1 DEF EnqueueKojiFinalize, Queue!Next
  <2>4. ASSUME NEW j \in Jobs, Start(j) PROVE Queue!Next
    BY <2>4 DEF Start, Queue!Next
  <2>5. ASSUME NEW j \in Jobs, Report(j) PROVE Queue!Next \/ jobs' = jobs
    <3>1. outcome[j] \in Result
      BY <2>5 DEF Report, IInv, TypeOK
    <3> QED BY <2>5, <3>1 DEF Report, Queue!Next
  <2>6. ASSUME NEW j \in Jobs, Expire(j) PROVE Queue!Next
    <3>1. Null \in Result
      BY DEF Null, Result
    <3> QED BY <2>6, <3>1 DEF Expire, Queue!Next
  <2>7. ASSUME Run \/ ReplyCompose \/ Crash \/ \E j \in Jobs : WorkerDies(j) PROVE jobs' = jobs
    BY <2>7 DEF Run, KojiInit, OSBuildKoji, FinalizeFails, FinalizeImports, FinalizePanics,
                ReplyCompose, Crash, WorkerDies
  <2> QED BY <2>1, <2>2, <2>3, <2>4, <2>5, <2>6, <2>7 DEF Next, PostCompose, vars
<1> QED BY <1>1, <1>2, Invariant, PTL DEF Spec, Queue!Spec
=============================================================================

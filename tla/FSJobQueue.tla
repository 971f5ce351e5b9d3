----------------------------- MODULE FSJobQueue -----------------------------
(***************************************************************************)
(* internal/jobqueue/fsjobqueue: the job queue of osbuild-composer kept in *)
(* a directory of JSON documents.  One document per job survives a crash;  *)
(* the channels of pending jobs, the map of dependants, the tokens and the *)
(* heartbeats are in memory and rebuilt by New().                          *)
(*                                                                         *)
(* Every public operation holds the mutex q.mu, except that Dequeue lets   *)
(* go of it while it selects on its channels.  An operation is one action, *)
(* save for the sends to a channel that end Enqueue and FinishJob: a full  *)
(* channel blocks its sender, which still holds the mutex.  `sending' are  *)
(* the sends the holder has left, so the mutex is free iff it is empty.    *)
(* An operation that returns an error before it changed anything is a      *)
(* stuttering step and has no action.                                      *)
(***************************************************************************)
EXTENDS Naturals, Sequences

CONSTANTS
    Jobs,          \* the ids Enqueue draws from (uuid.New())
    Types,         \* job types
    Tokens,        \* the tokens Dequeue draws from (uuid.New())
    Results,       \* results as stored: JSON values
    Null,          \* the result a job gets from FinishJob(id, nil): JSON null
    Nil,           \* uuid.Nil, and the result of a job without one
    Dequeuers,     \* goroutines that call Dequeue, one per polling worker
    Accepts,       \* the job types each of them asks for
    channelSize,   \* capacity of the channel of a job type
    Legacy,        \* jobs left running, without a token, by older versions
    LegacyType,    \* and their type
    Faults         \* what may go wrong: a subset of FaultKinds

(***************************************************************************)
(* "crash": the process stops between two operations; "torn": it may stop  *)
(* inside the db.Write of one; "disk": reads and writes may fail.          *)
(***************************************************************************)
FaultKinds == {"crash", "torn", "disk"}

ASSUME QueueAssumption ==
    /\ Null \in Results
    /\ Nil \notin Jobs \cup Tokens \cup Results
    /\ Accepts \in [Dequeuers -> (SUBSET Types) \ {{}}]
    /\ channelSize \in Nat \ {0}
    /\ Legacy \subseteq Jobs
    /\ LegacyType \in Types
    /\ Faults \subseteq FaultKinds

VARIABLES
    db,            \* the job documents: id -> document
    litter,        \* a temporary file of an interrupted write is in the directory
    mode,          \* the process is "down", in New() ("starting"), or "up"
    loading,       \* the listed jobs New() has not looked at yet
    pending,       \* type -> contents of its channel
    sending,       \* ids the holder of the mutex has yet to send
    dependants,    \* id -> jobs that wait for it
    jobIdByToken,  \* token -> running job, or Nil
    heartbeats,    \* token -> "none", or its age: "fresh" or "old"
    issued,        \* tokens uuid.New() has returned so far
    want,          \* dequeuer -> the job types of its call, {} when it is in none
    closed,        \* dequeuer -> those of its channels that were closed
    got,           \* dequeuer -> the id it received and has yet to process, or Nil
    faulty         \* a read or write failed since the process started

disk    == <<db, litter>>
memory  == <<pending, sending, dependants, jobIdByToken, heartbeats>>
callers == <<want, closed, got>>
vars    == <<disk, memory, callers, mode, loading, issued, faulty>>

Document == [Type : Types, Dependencies : SUBSET Jobs, Token : Tokens \cup {Nil},
             Result : Results \cup {Nil}, StartedAt : BOOLEAN,
             FinishedAt : BOOLEAN, Canceled : BOOLEAN]

NewDocument(type, deps) ==
    [Type |-> type, Dependencies |-> deps, Token |-> Nil, Result |-> Nil,
     StartedAt |-> FALSE, FinishedAt |-> FALSE, Canceled |-> FALSE]

StartedWith(doc, token) == [doc EXCEPT !.StartedAt = TRUE, !.Token = token]

FinishedWith(doc, result) == [doc EXCEPT !.FinishedAt = TRUE, !.Result = result]

AsCanceled(doc) == [doc EXCEPT !.Canceled = TRUE]

With(f, x, v) == [y \in DOMAIN f \cup {x} |-> IF y = x THEN v ELSE f[y]]

Contents(c) == {c[i] : i \in 1 .. Len(c)}

TypeOK ==
    /\ DOMAIN db \subseteq Jobs
    /\ db \in [DOMAIN db -> Document]
    /\ litter \in BOOLEAN
    /\ mode \in {"down", "starting", "up"}
    /\ loading \subseteq DOMAIN db
    /\ pending \in [Types -> Seq(DOMAIN db)]
    /\ \A t \in Types : Len(pending[t]) <= channelSize
    /\ sending \subseteq DOMAIN db
    /\ dependants \in [Jobs -> SUBSET DOMAIN db]
    /\ jobIdByToken \in [Tokens -> DOMAIN db \cup {Nil}]
    /\ heartbeats \in [Tokens -> {"none", "fresh", "old"}]
    /\ issued \subseteq Tokens
    /\ want \in [Dequeuers -> SUBSET Types]
    /\ closed \in [Dequeuers -> SUBSET Types]
    /\ got \in [Dequeuers -> DOMAIN db \cup {Nil}]
    /\ faulty \in BOOLEAN

Running(j) == db[j].StartedAt /\ ~db[j].FinishedAt /\ ~db[j].Canceled

\* A public operation can lock q.mu.
Unlocked == mode = "up" /\ sending = {}

-----------------------------------------------------------------------------
(***************************************************************************)
(* maybeEnqueue.  A job is put into its channel when it has not started    *)
(* and every dependency has finished; a canceled job too, which Dequeue    *)
(* skips.                                                                  *)
(***************************************************************************)
\* mutant: one finished dependency is enough
DepsFinished_Any(docs, j) ==
    docs[j].Dependencies = {} \/ \E d \in docs[j].Dependencies : docs[d].FinishedAt

DepsFinished(docs, j) == \A d \in docs[j].Dependencies : docs[d].FinishedAt

\* mutant: dependencies are not looked at
Enqueueable_Eager(docs, j) == ~docs[j].StartedAt

Enqueueable(docs, j) == ~docs[j].StartedAt /\ DepsFinished(docs, j)

AddDependant(docs, j) ==
    [d \in Jobs |-> IF d \in docs[j].Dependencies THEN dependants[d] \cup {j}
                                                  ELSE dependants[d]]

\* maybeEnqueue(j, true), for a new job; docs is the database it reads.
MaybeEnqueue(docs, j) ==
    /\ sending' = IF Enqueueable(docs, j) THEN {j} ELSE {}
    /\ dependants' = IF docs[j].StartedAt \/ DepsFinished(docs, j)
                       THEN dependants
                       ELSE AddDependant(docs, j)

\* mutant: one more than the channel holds
HasRoom_OffByOne(type) == Len(pending[type]) <= channelSize

HasRoom(type) == Len(pending[type]) < channelSize

(***************************************************************************)
(* `c <- j.Id', which blocks while the channel is full.                    *)
(***************************************************************************)
Send(j) ==
    /\ j \in sending
    /\ HasRoom(db[j].Type)
    /\ pending' = [pending EXCEPT ![db[j].Type] = Append(@, j)]
    /\ sending' = sending \ {j}
    /\ UNCHANGED <<disk, callers, mode, loading, issued, faulty,
                   dependants, jobIdByToken, heartbeats>>

-----------------------------------------------------------------------------
(***************************************************************************)
(* Enqueue writes the document, then looks at its dependencies.            *)
(***************************************************************************)
Enqueue(j, type, deps) ==
    /\ Unlocked
    /\ j \notin DOMAIN db
    /\ deps \subseteq DOMAIN db
    /\ db' = With(db, j, NewDocument(type, deps))
    /\ MaybeEnqueue(db', j)
    /\ UNCHANGED <<litter, mode, loading, issued, faulty, callers,
                   pending, jobIdByToken, heartbeats>>

-----------------------------------------------------------------------------
(***************************************************************************)
(* Dequeue, first locked section: take the channels of the job types that  *)
(* the caller asks for.                                                    *)
(***************************************************************************)
Dequeue(d) ==
    /\ Unlocked
    /\ want[d] = {}
    /\ want' = [want EXCEPT ![d] = Accepts[d]]
    /\ closed' = [closed EXCEPT ![d] = {}]
    /\ UNCHANGED <<disk, memory, mode, loading, issued, faulty, got>>

Waiting(d) == mode = "up" /\ want[d] # {} /\ got[d] = Nil

(***************************************************************************)
(* selectUUIDChannel returns an id, without the mutex.  A dequeuer does    *)
(* not see a channel made after its own was closed.                        *)
(***************************************************************************)
Receive(d, t) ==
    /\ Waiting(d)
    /\ t \in want[d] \ closed[d]
    /\ pending[t] # <<>>
    /\ got' = [got EXCEPT ![d] = Head(pending[t])]
    /\ pending' = [pending EXCEPT ![t] = Tail(@)]
    /\ UNCHANGED <<disk, mode, loading, issued, faulty, want, closed,
                   sending, dependants, jobIdByToken, heartbeats>>

(***************************************************************************)
(* The second locked section first closes and forgets every empty channel  *)
(* of the caller's job types; all dequeuers that hold one see it closed.   *)
(***************************************************************************)
Emptied(d) == {t \in want[d] : pending[t] = <<>>}

ClosedBy(d) == [e \in Dequeuers |-> closed[e] \cup (want[e] \cap Emptied(d))]

Return(d) ==
    /\ want' = [want EXCEPT ![d] = {}]
    /\ closed' = [ClosedBy(d) EXCEPT ![d] = {}]
    /\ got' = [got EXCEPT ![d] = Nil]

\* mutant: the token is tracked without a heartbeat
Track_TokenOnly(token, j) ==
    /\ jobIdByToken' = [jobIdByToken EXCEPT ![token] = j]
    /\ UNCHANGED heartbeats

Track(token, j) ==
    /\ jobIdByToken' = [jobIdByToken EXCEPT ![token] = j]
    /\ heartbeats' = [heartbeats EXCEPT ![token] = "fresh"]

\* mutant: the received job is not asked whether it was canceled
MayStart_Canceled(d) == got[d] # Nil

MayStart(d) == got[d] # Nil /\ ~db[got[d]].Canceled

\* The job is handed to the caller under a new token.
DequeueStart(d, token) ==
    /\ Unlocked
    /\ MayStart(d)
    /\ token \notin issued
    /\ issued' = issued \cup {token}
    /\ Track(token, got[d])
    /\ db' = [db EXCEPT ![got[d]] = StartedWith(@, token)]
    /\ Return(d)
    /\ UNCHANGED <<litter, mode, loading, faulty, pending, sending, dependants>>

\* A canceled job is dropped and the select repeated on the same channels.
DequeueSkip(d) ==
    /\ Unlocked
    /\ got[d] # Nil
    /\ db[got[d]].Canceled
    /\ got' = [got EXCEPT ![d] = Nil]
    /\ closed' = ClosedBy(d)
    /\ UNCHANGED <<disk, memory, mode, loading, issued, faulty, want>>

(***************************************************************************)
(* The select ends without an id: the context ended, or a channel of the   *)
(* caller was closed.  Both return ErrDequeueTimeout, for errors.As with   *)
(* a target of type *error matches every error.                            *)
(***************************************************************************)
DequeueFails(d) ==
    /\ Unlocked
    /\ Waiting(d)
    /\ Return(d)
    /\ UNCHANGED <<disk, memory, mode, loading, issued, faulty>>

DequeueTimeout(d) == DequeueFails(d)

\* mutant: the select is repeated on the closed channel
DequeueClosed_Retry(d) == closed[d] # {} /\ Unlocked /\ Waiting(d) /\ UNCHANGED vars

DequeueClosed(d) == closed[d] # {} /\ DequeueFails(d)

-----------------------------------------------------------------------------
\* mutant: the token of a finished job stays valid
Untrack_HeartbeatOnly(token) ==
    /\ heartbeats' = [t \in Tokens |-> IF t = token THEN "none" ELSE heartbeats[t]]
    /\ UNCHANGED jobIdByToken

Untrack(token) ==
    /\ heartbeats' = [t \in Tokens |-> IF t = token THEN "none" ELSE heartbeats[t]]
    /\ jobIdByToken' = [t \in Tokens |-> IF t = token THEN Nil ELSE jobIdByToken[t]]

(***************************************************************************)
(* FinishJob, from the document's check to the end: forget the token,      *)
(* write the result, and enqueue the dependants whose last dependency this *)
(* was.                                                                    *)
(***************************************************************************)
Finish(j, result) ==
    /\ Running(j)
    /\ Untrack(db[j].Token)
    /\ db' = [db EXCEPT ![j] = FinishedWith(@, result)]
    /\ sending' = {k \in dependants[j] : Enqueueable(db', k)}
    /\ dependants' = [dependants EXCEPT ![j] = {}]

FinishJob(j, result) ==
    /\ Unlocked
    /\ j \in DOMAIN db
    /\ Finish(j, result)
    /\ UNCHANGED <<litter, mode, loading, issued, faulty, callers, pending>>

MayCancel(j) == j \in DOMAIN db /\ ~db[j].FinishedAt

(***************************************************************************)
(* CancelJob forgets the heartbeat, but keeps the token.                   *)
(***************************************************************************)
CancelJob(j) ==
    /\ Unlocked
    /\ MayCancel(j)
    /\ heartbeats' = [t \in Tokens |-> IF t = db[j].Token THEN "none" ELSE heartbeats[t]]
    /\ db' = [db EXCEPT ![j] = AsCanceled(@)]
    /\ UNCHANGED <<litter, mode, loading, issued, faulty, callers,
                   pending, sending, dependants, jobIdByToken>>

(***************************************************************************)
(* RefreshHeartbeat does not ask whether the token is still in use.        *)
(***************************************************************************)
RefreshHeartbeat(token) ==
    /\ Unlocked
    /\ token \in issued
    /\ heartbeats' = [heartbeats EXCEPT ![token] = "fresh"]
    /\ UNCHANGED <<disk, callers, mode, loading, issued, faulty,
                   pending, sending, dependants, jobIdByToken>>

\* Time passes: Heartbeats(olderThan) will report the token.
Age(token) ==
    /\ mode = "up"
    /\ heartbeats[token] = "fresh"
    /\ heartbeats' = [heartbeats EXCEPT ![token] = "old"]
    /\ UNCHANGED <<disk, callers, mode, loading, issued, faulty,
                   pending, sending, dependants, jobIdByToken>>

Heartbeats == {t \in Tokens : heartbeats[t] = "old"}

IdFromToken(token) == jobIdByToken[token]

-----------------------------------------------------------------------------
(***************************************************************************)
(* New.  The process starts with empty maps and lists the directory; the   *)
(* listing has no order.                                                   *)
(***************************************************************************)
Forget ==
    /\ pending' = [t \in Types |-> <<>>]
    /\ sending' = {}
    /\ dependants' = [j \in Jobs |-> {}]
    /\ jobIdByToken' = [t \in Tokens |-> Nil]
    /\ heartbeats' = [t \in Tokens |-> "none"]
    /\ want' = [d \in Dequeuers |-> {}]
    /\ closed' = [d \in Dequeuers |-> {}]
    /\ got' = [d \in Dequeuers |-> Nil]
    /\ faulty' = FALSE

New ==
    /\ mode = "down"
    /\ mode' = "starting"
    /\ loading' = DOMAIN db
    /\ UNCHANGED <<disk, memory, callers, issued, faulty>>

Loads(j) ==
    /\ mode = "starting"
    /\ sending = {}
    /\ j \in loading
    /\ loading' = loading \ {j}

\* A running job keeps its token and gets a new heartbeat.
LoadRunning(j) ==
    /\ Loads(j)
    /\ Running(j)
    /\ db[j].Token # Nil
    /\ Track(db[j].Token, j)
    /\ MaybeEnqueue(db, j)
    /\ UNCHANGED <<disk, callers, mode, issued, faulty, pending>>

\* A running job without a token is failed; its stale copy is not enqueued again.
LoadTokenless(j) ==
    /\ Loads(j)
    /\ Running(j)
    /\ db[j].Token = Nil
    /\ Finish(j, Null)
    /\ UNCHANGED <<litter, callers, mode, issued, faulty, pending>>

\* mutant: maybeEnqueue(j, false), the dependants are not recorded
LoadOther_NoDependants(j) ==
    /\ Loads(j)
    /\ ~Running(j)
    /\ sending' = IF Enqueueable(db, j) THEN {j} ELSE {}
    /\ UNCHANGED <<disk, callers, mode, issued, faulty, pending, dependants,
                   jobIdByToken, heartbeats>>

\* Any other job is enqueued, waits for its dependencies, or has started.
LoadOther(j) ==
    /\ Loads(j)
    /\ ~Running(j)
    /\ MaybeEnqueue(db, j)
    /\ UNCHANGED <<disk, callers, mode, issued, faulty, pending, jobIdByToken, heartbeats>>

\* A leftover temporary file has no uuid for a name: New fails, composer exits.
LoadLitter ==
    /\ mode = "starting"
    /\ sending = {}
    /\ litter
    /\ mode' = "down"
    /\ loading' = {}
    /\ Forget
    /\ UNCHANGED <<disk, issued>>

Started ==
    /\ mode = "starting"
    /\ sending = {}
    /\ loading = {}
    /\ ~litter
    /\ mode' = "up"
    /\ UNCHANGED <<disk, memory, callers, loading, issued, faulty>>

-----------------------------------------------------------------------------
(***************************************************************************)
(* The process stops.  writeFileAtomically writes to a temporary file that *)
(* it renames at the end, so an operation that is cut off inside db.Write  *)
(* leaves the document alone, and the temporary file behind.  New() writes *)
(* too, to fail a job without a token.                                     *)
(***************************************************************************)
Crash ==
    /\ "crash" \in Faults
    /\ mode # "down"
    /\ mode' = "down"
    /\ loading' = {}
    /\ Forget
    /\ UNCHANGED <<disk, issued>>

TornWrite ==
    /\ "torn" \in Faults
    /\ sending = {}
    /\ mode = "up" \/ \E j \in loading : Running(j) /\ db[j].Token = Nil
    /\ litter' = TRUE
    /\ mode' = "down"
    /\ loading' = {}
    /\ Forget
    /\ UNCHANGED <<db, issued>>

(***************************************************************************)
(* A read or a write fails, and the operation returns where it stands.     *)
(***************************************************************************)
DiskFault ==
    /\ "disk" \in Faults
    /\ Unlocked
    /\ faulty' = TRUE
    /\ UNCHANGED <<litter, mode, loading>>

\* Enqueue: written, but a dependency could not be read.
EnqueueFault(j, type, deps) ==
    /\ DiskFault
    /\ j \notin DOMAIN db
    /\ deps \subseteq DOMAIN db
    /\ deps # {}
    /\ db' = With(db, j, NewDocument(type, deps))
    /\ UNCHANGED <<memory, callers, issued>>

\* Dequeue: the received job could not be read.
DequeueReadFault(d) ==
    /\ DiskFault
    /\ got[d] # Nil
    /\ Return(d)
    /\ UNCHANGED <<db, memory, issued>>

\* Dequeue: the started job could not be written, its token stays.
DequeueWriteFault(d, token) ==
    /\ DiskFault
    /\ MayStart(d)
    /\ token \notin issued
    /\ issued' = issued \cup {token}
    /\ Track(token, got[d])
    /\ Return(d)
    /\ UNCHANGED <<db, pending, sending, dependants>>

\* FinishJob: the token is gone, the document unchanged.
FinishWriteFault(j) ==
    /\ DiskFault
    /\ j \in DOMAIN db
    /\ Running(j)
    /\ Untrack(db[j].Token)
    /\ UNCHANGED <<db, callers, issued, pending, sending, dependants>>

\* FinishJob: a dependant could not be read, the ones before it were enqueued.
FinishReadFault(j, result) ==
    /\ DiskFault
    /\ j \in DOMAIN db
    /\ dependants[j] # {}
    /\ Running(j)
    /\ Untrack(db[j].Token)
    /\ db' = [db EXCEPT ![j] = FinishedWith(@, result)]
    /\ \E before \in SUBSET dependants[j] :
           /\ before # dependants[j]
           /\ sending' = {k \in before : Enqueueable(db', k)}
    /\ UNCHANGED <<callers, issued, pending, dependants>>

\* CancelJob: the heartbeat is gone, the document unchanged.
CancelFault(j) ==
    /\ DiskFault
    /\ MayCancel(j)
    /\ heartbeats' = [t \in Tokens |-> IF t = db[j].Token THEN "none" ELSE heartbeats[t]]
    /\ UNCHANGED <<db, callers, issued, pending, sending, dependants, jobIdByToken>>

-----------------------------------------------------------------------------
Init ==
    /\ db = [j \in Legacy |-> StartedWith(NewDocument(LegacyType, {}), Nil)]
    /\ litter = FALSE
    /\ mode = "down"
    /\ loading = {}
    /\ pending = [t \in Types |-> <<>>]
    /\ sending = {}
    /\ dependants = [j \in Jobs |-> {}]
    /\ jobIdByToken = [t \in Tokens |-> Nil]
    /\ heartbeats = [t \in Tokens |-> "none"]
    /\ issued = {}
    /\ want = [d \in Dequeuers |-> {}]
    /\ closed = [d \in Dequeuers |-> {}]
    /\ got = [d \in Dequeuers |-> Nil]
    /\ faulty = FALSE

\* What the process does by itself to start and to finish its operations.
Startup == New \/ LoadLitter \/ Started
           \/ \E j \in Jobs : LoadRunning(j) \/ LoadTokenless(j) \/ LoadOther(j)

Requests ==
    \/ \E j \in Jobs, type \in Types, deps \in SUBSET Jobs : Enqueue(j, type, deps)
    \/ \E j \in Jobs, result \in Results : FinishJob(j, result)
    \/ \E j \in Jobs : CancelJob(j)
    \/ \E token \in Tokens : RefreshHeartbeat(token) \/ Age(token)

Polling(d) ==
    \/ Dequeue(d)
    \/ \E t \in Types : Receive(d, t)
    \/ \E token \in Tokens : DequeueStart(d, token)
    \/ DequeueSkip(d)
    \/ DequeueTimeout(d)
    \/ DequeueClosed(d)

Faulting ==
    \/ Crash
    \/ TornWrite
    \/ \E j \in Jobs, type \in Types, deps \in SUBSET Jobs : EnqueueFault(j, type, deps)
    \/ \E d \in Dequeuers : DequeueReadFault(d)
    \/ \E d \in Dequeuers, token \in Tokens : DequeueWriteFault(d, token)
    \/ \E j \in Jobs : FinishWriteFault(j) \/ CancelFault(j)
    \/ \E j \in Jobs, result \in Results : FinishReadFault(j, result)

Next ==
    \/ Startup
    \/ Requests
    \/ \E j \in Jobs : Send(j)
    \/ \E d \in Dequeuers : Polling(d)
    \/ Faulting

Spec == Init /\ [][Next]_vars

-----------------------------------------------------------------------------
\* A job is on its way to a worker: being sent, in a channel, or received.
Queued(j) ==
    \/ j \in sending
    \/ \E t \in Types : j \in Contents(pending[t])
    \/ \E d \in Dequeuers : got[d] = j

(***************************************************************************)
(* "The job isn't run until all of them have finished" (jobqueue.go),      *)
(* through restarts, which recompute what is ready in any order.           *)
(***************************************************************************)
StartsAfterDependencies ==
    \A j \in DOMAIN db : db[j].StartedAt =>
        \A d \in db[j].Dependencies : db[d].FinishedAt

(***************************************************************************)
(* A job that could start is on its way to a worker, whatever the order of *)
(* cancellations, finished dependencies and restarts before, unless a read *)
(* or write failed since New().                                            *)
(***************************************************************************)
NoLostJob ==
    mode # "down" /\ ~faulty =>
        \A j \in DOMAIN db \ loading :
            Enqueueable(db, j) /\ ~db[j].Canceled => Queued(j)

(***************************************************************************)
(* No id is twice on its way, also when the dependants of several jobs     *)
(* overlap: a second copy would be handed to a second worker.              *)
(***************************************************************************)
QueuedOnce ==
    /\ \A t \in Types, u \in Types :
          \A m \in 1 .. Len(pending[t]), n \in 1 .. Len(pending[u]) :
             pending[t][m] = pending[u][n] => t = u /\ m = n
    /\ \A t \in Types : Contents(pending[t]) \cap sending = {}
    /\ \A d \in Dequeuers : got[d] # Nil =>
          /\ got[d] \notin sending
          /\ \A t \in Types : got[d] \notin Contents(pending[t])
          /\ \A e \in Dequeuers : got[e] = got[d] => e = d

(***************************************************************************)
(* A job is handed out once: its token never changes, so the results and   *)
(* artifacts of two workers are never mixed up.                            *)
(***************************************************************************)
HandedOutOnce ==
    [][\A j \in DOMAIN db : db[j].StartedAt => db'[j].Token = db[j].Token]_vars

(***************************************************************************)
(* FinishJob and CancelJob in any order: the first one wins for good, on   *)
(* disk as well.                                                           *)
(***************************************************************************)
OutcomeIsFinal ==
    [][\A j \in DOMAIN db :
          /\ db[j].FinishedAt => db'[j] = db[j]
          /\ db[j].Canceled => db'[j].Canceled /\ ~db'[j].FinishedAt]_vars

(***************************************************************************)
(* A running job can be finished by its worker and is watched for a dead   *)
(* one, also after a restart: its token is known and has a heartbeat.      *)
(***************************************************************************)
RunningIsTracked ==
    mode = "up" /\ ~faulty =>
        \A j \in DOMAIN db : Running(j) =>
            /\ db[j].Token # Nil
            /\ jobIdByToken[db[j].Token] = j
            /\ heartbeats[db[j].Token] # "none"

(***************************************************************************)
(* "Workers from an old run cannot report results for jobs composer thinks *)
(* are not running" (the comment on jobIdByToken): a token leads only to   *)
(* the job that was started with it and has not finished.                  *)
(***************************************************************************)
TokenLeadsToItsJob ==
    ~faulty => \A token \in Tokens : jobIdByToken[token] # Nil =>
        LET j == jobIdByToken[token] IN
        db[j].Token = token /\ db[j].StartedAt /\ ~db[j].FinishedAt

(***************************************************************************)
(* fsjobqueue implements what package jobqueue promises.                   *)
(***************************************************************************)
status(doc) ==
    CASE doc.FinishedAt -> "finished"
      [] ~doc.FinishedAt /\ doc.Canceled -> "canceled"
      [] ~doc.FinishedAt /\ ~doc.Canceled /\ doc.StartedAt -> "running"
      [] OTHER -> "queued"

AbstractJob(doc) ==
    [Type |-> doc.Type, Dependencies |-> doc.Dependencies, status |-> status(doc),
     Token |-> doc.Token, Result |-> doc.Result]

AbstractJobs == [j \in DOMAIN db |-> AbstractJob(db[j])]

Abstract == INSTANCE JobQueue WITH jobs <- AbstractJobs

ImplementsJobQueue == Abstract!Spec

-----------------------------------------------------------------------------
(***************************************************************************)
(* Fairness.  Startup and sends are the process's own steps.  A Go mutex   *)
(* is handed to every goroutine that waits for it, and a worker polls      *)
(* again after each answer.  select picks among its ready cases at random, *)
(* so a channel that is ready over and over is picked before the timeout   *)
(* of some call: strong fairness of Receive only.                          *)
(***************************************************************************)
Fairness ==
    /\ WF_vars(Startup)
    /\ \A j \in Jobs : WF_vars(Send(j))
    /\ \A d \in Dequeuers :
          /\ WF_vars(Dequeue(d))
          /\ \A t \in Types : SF_vars(Receive(d, t))
          /\ WF_vars(DequeueSkip(d) \/ \E token \in Tokens : DequeueStart(d, token))
          /\ WF_vars(DequeueClosed(d))

FairSpec == Spec /\ Fairness

(***************************************************************************)
(* A job whose dependencies have finished is started, or canceled first.   *)
(***************************************************************************)
ReadyJobStarts ==
    \A j \in Jobs :
        (mode = "up" /\ j \in DOMAIN db /\ Enqueueable(db, j))
            ~> \/ mode # "up"
               \/ j \in DOMAIN db /\ (db[j].StartedAt \/ db[j].Canceled)

=============================================================================

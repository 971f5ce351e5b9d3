-------------------------- MODULE FSJobQueueProofs --------------------------
(***************************************************************************)
(* Theorems about FSJobQueue, for any sets of jobs, types, tokens and      *)
(* dequeuers, any channel size and any combination of faults.              *)
(***************************************************************************)
EXTENDS FSJobQueue, TLAPS

-----------------------------------------------------------------------------
(***************************************************************************)
(* The inductive invariant.  It says of each piece of memory what it knows *)
(* about the documents, also while New() has read only some of them.       *)
(***************************************************************************)

\* Enqueue verified the dependencies, and documents are never removed.
DependenciesExist == \A j \in DOMAIN db : db[j].Dependencies \subseteq DOMAIN db

\* Outcomes exclude each other, and only a started job finishes.
OutcomesExclude ==
    \A j \in DOMAIN db : db[j].FinishedAt => db[j].StartedAt /\ ~db[j].Canceled

\* Only a process that is in New() has documents left to load.
LoadingWhenStarting == mode # "starting" => loading = {}

\* A process that is down has no memory.
DownIsEmpty ==
    mode = "down" =>
        /\ pending = [t \in Types |-> <<>>]
        /\ sending = {}
        /\ dependants = [j \in Jobs |-> {}]
        /\ jobIdByToken = [t \in Tokens |-> Nil]
        /\ got = [d \in Dequeuers |-> Nil]

\* A job on its way to a worker was loaded and is ready.
QueuedIsReady == \A j \in DOMAIN db : Queued(j) => j \notin loading /\ Enqueueable(db, j)

\* A dependant was loaded and names the job it waits for.
DependantsWait ==
    \A d \in Jobs : \A j \in dependants[d] :
        j \notin loading /\ d \in db[j].Dependencies

\* A job that is not ready is known to each dependency it still waits for.
WaitingIsKnown ==
    mode # "down" /\ ~faulty =>
        \A j \in DOMAIN db \ loading :
            ~db[j].StartedAt /\ ~db[j].Canceled /\ ~DepsFinished(db, j) =>
                \A d \in db[j].Dependencies : ~db[d].FinishedAt => j \in dependants[d]

\* A token was issued for one job.
TokensUnique ==
    \A j \in DOMAIN db : db[j].Token # Nil =>
        /\ db[j].StartedAt
        /\ db[j].Token \in issued
        /\ \A k \in DOMAIN db : db[k].Token = db[j].Token => k = j

\* Only issued tokens lead to a job.
TokensIssued == \A token \in Tokens : jobIdByToken[token] # Nil => token \in issued

\* A running job is tracked once New() has seen it.
TrackedOnceLoaded ==
    mode # "down" /\ ~faulty =>
        \A j \in DOMAIN db \ loading : Running(j) =>
            /\ db[j].Token # Nil
            /\ jobIdByToken[db[j].Token] = j
            /\ heartbeats[db[j].Token] # "none"

IInv ==
    /\ TypeOK
    /\ DependenciesExist
    /\ OutcomesExclude
    /\ LoadingWhenStarting
    /\ DownIsEmpty
    /\ StartsAfterDependencies
    /\ QueuedIsReady
    /\ QueuedOnce
    /\ DependantsWait
    /\ WaitingIsKnown
    /\ NoLostJob
    /\ TokensUnique
    /\ TokensIssued
    /\ TokenLeadsToItsJob
    /\ TrackedOnceLoaded

-----------------------------------------------------------------------------
\* Append keeps the type and adds one element.
LEMMA AppendContents ==
    ASSUME NEW S, NEW q \in Seq(S), NEW x \in S
    PROVE  /\ Append(q, x) \in Seq(S)
           /\ Len(Append(q, x)) = Len(q) + 1
           /\ Contents(Append(q, x)) = Contents(q) \cup {x}
<1>1. /\ Append(q, x) \in Seq(S)
      /\ Len(Append(q, x)) = Len(q) + 1
      /\ Len(q) \in Nat
  OBVIOUS
<1>2. \A i \in 1 .. Len(q) : Append(q, x)[i] = q[i]
  OBVIOUS
<1>3. Append(q, x)[Len(q) + 1] = x
  OBVIOUS
<1>4. Contents(Append(q, x)) = Contents(q) \cup {x}
  BY <1>1, <1>2, <1>3 DEF Contents
<1> QED BY <1>1, <1>4

\* Head and Tail split the contents of a sequence that is not empty.
LEMMA TailContents ==
    ASSUME NEW S, NEW q \in Seq(S), q # <<>>
    PROVE  /\ Tail(q) \in Seq(S)
           /\ Len(Tail(q)) = Len(q) - 1
           /\ Head(q) \in S
           /\ Contents(q) = Contents(Tail(q)) \cup {Head(q)}
<1>1. /\ Tail(q) \in Seq(S)
      /\ Len(Tail(q)) = Len(q) - 1
      /\ Head(q) = q[1]
      /\ Len(q) \in Nat \ {0}
  OBVIOUS
<1>2. \A i \in 1 .. Len(q) - 1 : Tail(q)[i] = q[i + 1]
  OBVIOUS
<1>3. \A i \in 1 .. Len(q) : i = 1 \/ (i - 1 \in 1 .. Len(q) - 1 /\ q[i] = Tail(q)[i - 1])
  BY <1>1, <1>2
<1>4. Contents(q) = Contents(Tail(q)) \cup {Head(q)}
  BY <1>1, <1>2, <1>3 DEF Contents
<1> QED BY <1>1, <1>4

\* A sequence over fewer elements is one over more.
LEMMA SeqGrows ==
    ASSUME NEW S, NEW T, S \subseteq T, NEW q \in Seq(S)
    PROVE  q \in Seq(T)
  OBVIOUS

\* Replacing a document keeps the others.
LEMMA ReplaceDocument ==
    ASSUME NEW S, NEW f, f \in [DOMAIN f -> S], NEW x \in DOMAIN f, NEW v \in S
    PROVE  /\ DOMAIN [f EXCEPT ![x] = v] = DOMAIN f
           /\ [f EXCEPT ![x] = v] \in [DOMAIN f -> S]
           /\ [f EXCEPT ![x] = v][x] = v
           /\ \A y \in DOMAIN f : y # x => [f EXCEPT ![x] = v][y] = f[y]
  OBVIOUS

\* A new document has the type of documents.
LEMMA NewDocumentType ==
    ASSUME NEW type \in Types, NEW deps \in SUBSET Jobs
    PROVE  NewDocument(type, deps) \in Document
  BY DEF NewDocument, Document

\* What the updates of a document leave alone.
LEMMA StartedDocument ==
    ASSUME NEW doc \in Document, NEW token \in Tokens \cup {Nil}
    PROVE  /\ StartedWith(doc, token) \in Document
           /\ StartedWith(doc, token).StartedAt
           /\ StartedWith(doc, token).Token = token
           /\ StartedWith(doc, token).FinishedAt = doc.FinishedAt
           /\ StartedWith(doc, token).Canceled = doc.Canceled
           /\ StartedWith(doc, token).Type = doc.Type
           /\ StartedWith(doc, token).Result = doc.Result
           /\ StartedWith(doc, token).Dependencies = doc.Dependencies
  BY DEF Document, StartedWith

\* Finishing a document leaves its type, token and dependencies alone.
LEMMA FinishedDocument ==
    ASSUME NEW doc \in Document, NEW result \in Results
    PROVE  /\ FinishedWith(doc, result) \in Document
           /\ FinishedWith(doc, result).FinishedAt
           /\ FinishedWith(doc, result).Result = result
           /\ FinishedWith(doc, result).StartedAt = doc.StartedAt
           /\ FinishedWith(doc, result).Token = doc.Token
           /\ FinishedWith(doc, result).Canceled = doc.Canceled
           /\ FinishedWith(doc, result).Type = doc.Type
           /\ FinishedWith(doc, result).Dependencies = doc.Dependencies
  BY DEF Document, FinishedWith

\* Canceling a document changes its flag only.
LEMMA CanceledDocument ==
    ASSUME NEW doc \in Document
    PROVE  /\ AsCanceled(doc) \in Document
           /\ AsCanceled(doc).Canceled
           /\ AsCanceled(doc).FinishedAt = doc.FinishedAt
           /\ AsCanceled(doc).StartedAt = doc.StartedAt
           /\ AsCanceled(doc).Token = doc.Token
           /\ AsCanceled(doc).Type = doc.Type
           /\ AsCanceled(doc).Result = doc.Result
           /\ AsCanceled(doc).Dependencies = doc.Dependencies
  BY DEF Document, AsCanceled

-----------------------------------------------------------------------------
(***************************************************************************)
(* What each kind of write does to the directory.  Keeps(j) says that the  *)
(* documents other than j's stay as they are.                              *)
(***************************************************************************)
Keeps(j) == \A k \in DOMAIN db : k # j => db'[k] = db[k]

\* Enqueue adds one document and keeps every other one.
LEMMA WriteNew ==
    ASSUME TypeOK, NEW j \in Jobs, j \notin DOMAIN db, NEW type \in Types,
           NEW deps \in SUBSET Jobs, db' = With(db, j, NewDocument(type, deps))
    PROVE  /\ DOMAIN db' = DOMAIN db \cup {j}
           /\ db' \in [DOMAIN db' -> Document]
           /\ db'[j] = NewDocument(type, deps)
           /\ db'[j].Dependencies = deps
           /\ db'[j].Token = Nil
           /\ ~db'[j].StartedAt /\ ~db'[j].FinishedAt /\ ~db'[j].Canceled
           /\ Keeps(j)
<1>1. NewDocument(type, deps) \in Document
  BY NewDocumentType
<1> DEFINE doc == NewDocument(type, deps)
<1> HIDE DEF doc
<1>2. /\ db \in [DOMAIN db -> Document]
      /\ doc \in Document
      /\ db' = With(db, j, doc)
  BY <1>1 DEF TypeOK, doc
<1>3. /\ DOMAIN db' = DOMAIN db \cup {j}
      /\ db' \in [DOMAIN db \cup {j} -> Document]
      /\ db'[j] = doc
      /\ \A k \in DOMAIN db : k # j => db'[k] = db[k]
  BY <1>2 DEF With
<1>4. /\ doc.Dependencies = deps
      /\ doc.Token = Nil
      /\ ~doc.StartedAt /\ ~doc.FinishedAt /\ ~doc.Canceled
  BY DEF doc, NewDocument
<1> QED BY <1>3, <1>4 DEF Keeps, doc

\* Dequeue writes the document it starts and no other.
LEMMA WriteStarted ==
    ASSUME TypeOK, NEW j \in DOMAIN db, NEW token \in Tokens,
           db' = [db EXCEPT ![j] = StartedWith(@, token)]
    PROVE  /\ DOMAIN db' = DOMAIN db
           /\ db' \in [DOMAIN db -> Document]
           /\ db'[j] = StartedWith(db[j], token)
           /\ Keeps(j)
<1>1. db[j] \in Document /\ db' = [db EXCEPT ![j] = StartedWith(db[j], token)]
  BY DEF TypeOK
<1>2. StartedWith(db[j], token) \in Document
  BY <1>1, StartedDocument
<1> QED BY <1>1, <1>2, ReplaceDocument DEF TypeOK, Keeps

\* FinishJob writes the document it finishes and no other.
LEMMA WriteFinished ==
    ASSUME TypeOK, NEW j \in DOMAIN db, NEW result \in Results,
           db' = [db EXCEPT ![j] = FinishedWith(@, result)]
    PROVE  /\ DOMAIN db' = DOMAIN db
           /\ db' \in [DOMAIN db -> Document]
           /\ db'[j] = FinishedWith(db[j], result)
           /\ Keeps(j)
<1>1. db[j] \in Document /\ db' = [db EXCEPT ![j] = FinishedWith(db[j], result)]
  BY DEF TypeOK
<1>2. FinishedWith(db[j], result) \in Document
  BY <1>1, FinishedDocument
<1> QED BY <1>1, <1>2, ReplaceDocument DEF TypeOK, Keeps

\* CancelJob writes the document it cancels and no other.
LEMMA WriteCanceled ==
    ASSUME TypeOK, NEW j \in DOMAIN db, db' = [db EXCEPT ![j] = AsCanceled(@)]
    PROVE  /\ DOMAIN db' = DOMAIN db
           /\ db' \in [DOMAIN db -> Document]
           /\ db'[j] = AsCanceled(db[j])
           /\ Keeps(j)
<1>1. db[j] \in Document /\ db' = [db EXCEPT ![j] = AsCanceled(db[j])]
  BY DEF TypeOK
<1>2. AsCanceled(db[j]) \in Document
  BY <1>1, CanceledDocument
<1> QED BY <1>1, <1>2, ReplaceDocument DEF TypeOK, Keeps

-----------------------------------------------------------------------------
(***************************************************************************)
(* The type invariant.                                                     *)
(***************************************************************************)
LEMMA TypeInit == Init => TypeOK
<1> SUFFICES ASSUME Init PROVE TypeOK
  OBVIOUS
<1> USE QueueAssumption DEF Init
<1>1. DOMAIN db \subseteq Jobs /\ db \in [DOMAIN db -> Document]
  BY NewDocumentType, StartedDocument
<1>2. pending \in [Types -> Seq(DOMAIN db)] /\ \A t \in Types : Len(pending[t]) <= channelSize
  OBVIOUS
<1> QED BY <1>1, <1>2 DEF TypeOK

\* Every operation, step of New() and fault keeps the types.
LEMMA TypeStep == TypeOK /\ [Next]_vars => TypeOK'
<1> SUFFICES ASSUME TypeOK, [Next]_vars PROVE TypeOK'
  OBVIOUS
<1> USE QueueAssumption DEF TypeOK, disk, memory, callers
<1>1. ASSUME NEW j \in Jobs, NEW type \in Types, NEW deps \in SUBSET Jobs,
             Enqueue(j, type, deps) \/ EnqueueFault(j, type, deps)
      PROVE  TypeOK'
  <2>1. /\ DOMAIN db' = DOMAIN db \cup {j}
        /\ db' \in [DOMAIN db' -> Document]
    BY <1>1, WriteNew DEF Enqueue, EnqueueFault, DiskFault
  <2>2. CASE Enqueue(j, type, deps)
    <3>1. /\ sending' \subseteq {j}
          /\ dependants' = dependants \/ dependants' = AddDependant(db', j)
      BY <2>2 DEF Enqueue, MaybeEnqueue
    <3>2. dependants' \in [Jobs -> SUBSET DOMAIN db']
      BY <2>1, <3>1 DEF AddDependant
    <3>3. pending' \in [Types -> Seq(DOMAIN db')]
      BY <2>1, <2>2, SeqGrows DEF Enqueue
    <3> QED BY <2>1, <2>2, <3>1, <3>2, <3>3 DEF Enqueue
  <2>3. CASE EnqueueFault(j, type, deps)
    <3>1. pending' \in [Types -> Seq(DOMAIN db')]
      BY <2>1, <2>3, SeqGrows DEF EnqueueFault
    <3> QED BY <2>1, <2>3, <3>1 DEF EnqueueFault, DiskFault
  <2> QED BY <1>1, <2>2, <2>3
<1>2. ASSUME NEW j \in Jobs, NEW result \in Results,
             FinishJob(j, result) \/ FinishReadFault(j, result)
      PROVE  TypeOK'
  <2>1. /\ DOMAIN db' = DOMAIN db
        /\ db' \in [DOMAIN db' -> Document]
    BY <1>2, WriteFinished DEF FinishJob, FinishReadFault, DiskFault, Finish
  <2>2. /\ sending' \subseteq DOMAIN db
        /\ dependants' \in [Jobs -> SUBSET DOMAIN db]
    BY <1>2 DEF FinishJob, FinishReadFault, DiskFault, Finish
  <2>3. /\ jobIdByToken' \in [Tokens -> DOMAIN db \cup {Nil}]
        /\ heartbeats' \in [Tokens -> {"none", "fresh", "old"}]
    BY <1>2 DEF FinishJob, FinishReadFault, DiskFault, Finish, Untrack
  <2> QED BY <1>2, <2>1, <2>2, <2>3 DEF FinishJob, FinishReadFault, DiskFault
<1>3. ASSUME NEW j \in Jobs, CancelJob(j) PROVE TypeOK'
  <2>1. /\ DOMAIN db' = DOMAIN db
        /\ db' \in [DOMAIN db' -> Document]
    BY <1>3, WriteCanceled DEF CancelJob, MayCancel
  <2> QED BY <1>3, <2>1 DEF CancelJob
<1>4. ASSUME NEW token \in Tokens, RefreshHeartbeat(token) \/ Age(token) PROVE TypeOK'
  BY <1>4 DEF RefreshHeartbeat, Age
<1>5. ASSUME NEW j \in Jobs, Send(j) PROVE TypeOK'
  <2> DEFINE t == db[j].Type
  <2>1. t \in Types /\ j \in DOMAIN db
    BY <1>5 DEF Send, Document
  <2>2. /\ Append(pending[t], j) \in Seq(DOMAIN db)
        /\ Len(Append(pending[t], j)) = Len(pending[t]) + 1
    BY <2>1, AppendContents
  <2>3. Len(pending[t]) < channelSize
    BY <1>5 DEF Send, HasRoom
  <2>4. Len(pending[t]) \in Nat
    BY <2>1
  <2>5. /\ pending' \in [Types -> Seq(DOMAIN db)]
        /\ \A u \in Types : Len(pending'[u]) <= channelSize
    BY <1>5, <2>1, <2>2, <2>3, <2>4 DEF Send
  <2> QED BY <1>5, <2>5 DEF Send
<1>6. ASSUME NEW d \in Dequeuers, Dequeue(d) PROVE TypeOK'
  BY <1>6 DEF Dequeue
<1>7. ASSUME NEW d \in Dequeuers, NEW t \in Types, Receive(d, t) PROVE TypeOK'
  <2>1. /\ Tail(pending[t]) \in Seq(DOMAIN db)
        /\ Len(Tail(pending[t])) = Len(pending[t]) - 1
        /\ Head(pending[t]) \in DOMAIN db
    BY <1>7, TailContents DEF Receive
  <2>2. Len(pending[t]) \in Nat
    OBVIOUS
  <2>3. /\ pending' \in [Types -> Seq(DOMAIN db)]
        /\ \A u \in Types : Len(pending'[u]) <= channelSize
    BY <1>7, <2>1, <2>2 DEF Receive
  <2> QED BY <1>7, <2>1, <2>3 DEF Receive
<1>8. ASSUME NEW d \in Dequeuers, Return(d)
      PROVE  /\ want' \in [Dequeuers -> SUBSET Types]
             /\ closed' \in [Dequeuers -> SUBSET Types]
             /\ got' \in [Dequeuers -> DOMAIN db \cup {Nil}]
  BY <1>8 DEF Return, ClosedBy, Emptied
<1>9. ASSUME NEW d \in Dequeuers, NEW token \in Tokens,
             DequeueStart(d, token) \/ DequeueWriteFault(d, token)
      PROVE  TypeOK'
  <2>1. got[d] \in DOMAIN db
    BY <1>9 DEF DequeueStart, DequeueWriteFault, MayStart
  <2>2. /\ DOMAIN db' = DOMAIN db
        /\ db' \in [DOMAIN db' -> Document]
    BY <1>9, <2>1, WriteStarted DEF DequeueStart, DequeueWriteFault, DiskFault
  <2>3. /\ jobIdByToken' \in [Tokens -> DOMAIN db \cup {Nil}]
        /\ heartbeats' \in [Tokens -> {"none", "fresh", "old"}]
    BY <1>9, <2>1 DEF DequeueStart, DequeueWriteFault, Track
  <2> QED BY <1>8, <1>9, <2>2, <2>3 DEF DequeueStart, DequeueWriteFault, DiskFault
<1>10. ASSUME NEW d \in Dequeuers, DequeueSkip(d) PROVE TypeOK'
  BY <1>10 DEF DequeueSkip, ClosedBy, Emptied
<1>11. ASSUME NEW d \in Dequeuers,
              DequeueTimeout(d) \/ DequeueClosed(d) \/ DequeueReadFault(d)
       PROVE  TypeOK'
  BY <1>8, <1>11 DEF DequeueTimeout, DequeueClosed, DequeueFails, DequeueReadFault, DiskFault
<1>12. ASSUME New \/ Started PROVE TypeOK'
  BY <1>12 DEF New, Started
<1>13. ASSUME NEW j \in Jobs, LoadRunning(j) PROVE TypeOK'
  <2>1. j \in DOMAIN db /\ db[j].Token \in Tokens
    BY <1>13 DEF LoadRunning, Loads, Document
  <2> QED BY <1>13, <2>1 DEF LoadRunning, Loads, Track, MaybeEnqueue, AddDependant
<1>14. ASSUME NEW j \in Jobs, LoadTokenless(j) PROVE TypeOK'
  <2>1. /\ DOMAIN db' = DOMAIN db
        /\ db' \in [DOMAIN db' -> Document]
    BY <1>14, WriteFinished DEF LoadTokenless, Loads, Finish
  <2> QED BY <1>14, <2>1 DEF LoadTokenless, Loads, Finish, Untrack
<1>15. ASSUME NEW j \in Jobs, LoadOther(j) PROVE TypeOK'
  BY <1>15 DEF LoadOther, Loads, MaybeEnqueue, AddDependant
<1>16. ASSUME LoadLitter \/ Crash \/ TornWrite PROVE TypeOK'
  <2>1. /\ pending' \in [Types -> Seq(DOMAIN db)]
        /\ \A u \in Types : Len(pending'[u]) <= channelSize
    <3>1. pending' = [t \in Types |-> <<>>]
      BY <1>16 DEF LoadLitter, Crash, TornWrite, Forget
    <3> QED BY <3>1
  <2> QED BY <1>16, <2>1 DEF LoadLitter, Crash, TornWrite, Forget
<1>17. ASSUME NEW j \in Jobs, FinishWriteFault(j) \/ CancelFault(j) PROVE TypeOK'
  BY <1>17 DEF FinishWriteFault, CancelFault, DiskFault, Untrack
<1>18. CASE UNCHANGED vars
  BY <1>18 DEF vars
<1> QED
  BY <1>1, <1>2, <1>3, <1>4, <1>5, <1>6, <1>7, <1>9, <1>10, <1>11, <1>12, <1>13, <1>14,
     <1>15, <1>16, <1>17, <1>18
  DEF Next, Startup, Requests, Polling, Faulting

(***************************************************************************)
(* fsJobQueue keeps its documents, channels and maps well typed, and no    *)
(* channel ever holds more than channelSize ids, for every set of faults.  *)
(***************************************************************************)
THEOREM TypeCorrect == Spec => []TypeOK
  BY TypeInit, TypeStep, PTL DEF Spec

-----------------------------------------------------------------------------
(***************************************************************************)
(* The documents.  A step writes at most one of them.                      *)
(***************************************************************************)
Creates(j, type, deps) ==
    /\ j \notin DOMAIN db
    /\ deps \subseteq DOMAIN db
    /\ db' = With(db, j, NewDocument(type, deps))
    /\ issued' = issued

Starts(d, token) ==
    /\ got[d] \in DOMAIN db
    /\ ~db[got[d]].Canceled
    /\ token \notin issued
    /\ db' = [db EXCEPT ![got[d]] = StartedWith(@, token)]
    /\ issued' = issued \cup {token}
    /\ got' = [got EXCEPT ![d] = Nil]
    /\ pending' = pending
    /\ sending' = sending

Finishes(j, result) ==
    /\ j \in DOMAIN db
    /\ Running(j)
    /\ db' = [db EXCEPT ![j] = FinishedWith(@, result)]
    /\ issued' = issued
    /\ faulty' \/ sending' = {k \in dependants[j] : Enqueueable(db', k)}

Cancels(j) ==
    /\ j \in DOMAIN db
    /\ ~db[j].FinishedAt
    /\ db' = [db EXCEPT ![j] = AsCanceled(@)]
    /\ issued' = issued

\* Whatever happens, the directory gains a document, or one is started, finished or canceled, or it stays.
LEMMA DocumentSteps ==
    ASSUME TypeOK, [Next]_vars
    PROVE  \/ db' = db /\ issued \subseteq issued'
           \/ \E j \in Jobs, type \in Types, deps \in SUBSET Jobs : Creates(j, type, deps)
           \/ \E d \in Dequeuers, token \in Tokens : Starts(d, token)
           \/ \E j \in Jobs, result \in Results : Finishes(j, result)
           \/ \E j \in Jobs : Cancels(j)
<1> DEFINE Goal == \/ db' = db /\ issued \subseteq issued'
                   \/ \E j \in Jobs, type \in Types, deps \in SUBSET Jobs : Creates(j, type, deps)
                   \/ \E d \in Dequeuers, token \in Tokens : Starts(d, token)
                   \/ \E j \in Jobs, result \in Results : Finishes(j, result)
                   \/ \E j \in Jobs : Cancels(j)
<1>1. ASSUME NEW j \in Jobs, NEW type \in Types, NEW deps \in SUBSET Jobs,
             Enqueue(j, type, deps) \/ EnqueueFault(j, type, deps)
      PROVE  Goal
  BY <1>1 DEF Enqueue, EnqueueFault, Creates
<1>2. ASSUME NEW j \in Jobs, NEW result \in Results,
             FinishJob(j, result) \/ FinishReadFault(j, result)
      PROVE  Goal
  BY <1>2 DEF FinishJob, FinishReadFault, DiskFault, Finish, Finishes
<1>3. ASSUME NEW j \in Jobs, LoadTokenless(j) PROVE Goal
  BY <1>3, QueueAssumption DEF LoadTokenless, Loads, Finish, Finishes, TypeOK
<1>4. ASSUME NEW j \in Jobs, CancelJob(j) PROVE Goal
  BY <1>4 DEF CancelJob, MayCancel, Cancels
<1>5. ASSUME NEW d \in Dequeuers, NEW token \in Tokens, DequeueStart(d, token)
      PROVE  Goal
  BY <1>5 DEF DequeueStart, MayStart, Return, Starts, TypeOK
<1>6. ASSUME NEW j \in Jobs,
             Send(j) \/ LoadRunning(j) \/ LoadOther(j) \/ FinishWriteFault(j) \/ CancelFault(j)
      PROVE  Goal
  BY <1>6 DEF Send, LoadRunning, LoadOther, FinishWriteFault, CancelFault, disk
<1>7. ASSUME NEW token \in Tokens, RefreshHeartbeat(token) \/ Age(token) PROVE Goal
  BY <1>7 DEF RefreshHeartbeat, Age, disk
<1>8. ASSUME NEW d \in Dequeuers, NEW t \in Types, Receive(d, t) PROVE Goal
  BY <1>8 DEF Receive, disk
<1>9. ASSUME NEW d \in Dequeuers,
             \/ Dequeue(d) \/ DequeueSkip(d) \/ DequeueTimeout(d) \/ DequeueClosed(d)
             \/ DequeueReadFault(d)
      PROVE  Goal
  BY <1>9 DEF Dequeue, DequeueSkip, DequeueTimeout, DequeueClosed, DequeueFails,
              DequeueReadFault, disk
<1>10. ASSUME NEW d \in Dequeuers, NEW token \in Tokens, DequeueWriteFault(d, token) PROVE Goal
  BY <1>10 DEF DequeueWriteFault
<1>11. ASSUME New \/ Started \/ LoadLitter \/ Crash \/ TornWrite PROVE Goal
  BY <1>11 DEF New, Started, LoadLitter, Crash, TornWrite, disk
<1>12. ASSUME UNCHANGED vars PROVE Goal
  BY <1>12 DEF vars, disk
<1> HIDE DEF Goal
<1>13. Goal
  BY <1>1, <1>2, <1>3, <1>4, <1>5, <1>6, <1>7, <1>8, <1>9, <1>10, <1>11, <1>12
  DEF Next, Startup, Requests, Polling, Faulting
<1> QED BY <1>13 DEF Goal

(***************************************************************************)
(* What every step keeps of the documents.                                 *)
(***************************************************************************)
LEMMA DocumentsGrow ==
    ASSUME TypeOK, [Next]_vars
    PROVE  /\ DOMAIN db \subseteq DOMAIN db'
           /\ issued \subseteq issued'
           /\ \A j \in DOMAIN db :
                 /\ db'[j].Dependencies = db[j].Dependencies
                 /\ db'[j].Type = db[j].Type
                 /\ db[j].StartedAt => db'[j].StartedAt
                 /\ db[j].FinishedAt => db'[j].FinishedAt
                 /\ db[j].Canceled => db'[j].Canceled
<1> DEFINE Goal == /\ DOMAIN db \subseteq DOMAIN db'
                   /\ issued \subseteq issued'
                   /\ \A j \in DOMAIN db :
                         /\ db'[j].Dependencies = db[j].Dependencies
                         /\ db'[j].Type = db[j].Type
                         /\ db[j].StartedAt => db'[j].StartedAt
                         /\ db[j].FinishedAt => db'[j].FinishedAt
                         /\ db[j].Canceled => db'[j].Canceled
<1>0. \A j \in DOMAIN db : db[j] \in Document
  BY DEF TypeOK
<1>1. ASSUME NEW j \in Jobs, NEW type \in Types, NEW deps \in SUBSET Jobs, Creates(j, type, deps)
      PROVE  Goal
  BY <1>1, WriteNew DEF Creates, Keeps
<1>2. ASSUME NEW d \in Dequeuers, NEW token \in Tokens, Starts(d, token) PROVE Goal
  <2>1. /\ DOMAIN db' = DOMAIN db
        /\ db'[got[d]] = StartedWith(db[got[d]], token)
        /\ Keeps(got[d])
    BY <1>2, WriteStarted DEF Starts
  <2>2. got[d] \in DOMAIN db /\ issued \subseteq issued'
    BY <1>2 DEF Starts
  <2> QED BY <1>0, <2>1, <2>2, StartedDocument DEF Keeps
<1>3. ASSUME NEW j \in Jobs, NEW result \in Results, Finishes(j, result) PROVE Goal
  BY <1>0, <1>3, WriteFinished, FinishedDocument DEF Finishes, Keeps
<1>4. ASSUME NEW j \in Jobs, Cancels(j) PROVE Goal
  BY <1>0, <1>4, WriteCanceled, CanceledDocument DEF Cancels, Keeps
<1>5. ASSUME db' = db, issued \subseteq issued' PROVE Goal
  BY <1>5
<1>6. Goal
  <2> HIDE DEF Goal
  <2> QED BY <1>1, <1>2, <1>3, <1>4, <1>5, DocumentSteps
<1> QED BY <1>6

\* Dependencies are verified by Enqueue and never change.
LEMMA DependenciesStep ==
    ASSUME TypeOK, DependenciesExist, [Next]_vars
    PROVE  DependenciesExist'
<1>1. ASSUME NEW j \in Jobs, NEW type \in Types, NEW deps \in SUBSET Jobs, Creates(j, type, deps)
      PROVE  DependenciesExist'
  <2>1. /\ DOMAIN db' = DOMAIN db \cup {j}
        /\ db'[j].Dependencies = deps
        /\ Keeps(j)
    BY <1>1, WriteNew DEF Creates
  <2> QED BY <1>1, <2>1 DEF Creates, Keeps, DependenciesExist
<1>2. ASSUME DOMAIN db' = DOMAIN db PROVE DependenciesExist'
  BY <1>2, DocumentsGrow DEF DependenciesExist
<1>3. ASSUME NEW d \in Dequeuers, NEW token \in Tokens, Starts(d, token)
      PROVE  DOMAIN db' = DOMAIN db
  BY <1>3, WriteStarted DEF Starts
<1>4. ASSUME NEW j \in Jobs, NEW result \in Results, Finishes(j, result)
      PROVE  DOMAIN db' = DOMAIN db
  BY <1>4, WriteFinished DEF Finishes
<1>5. ASSUME NEW j \in Jobs, Cancels(j) PROVE DOMAIN db' = DOMAIN db
  BY <1>5, WriteCanceled DEF Cancels
<1> QED BY <1>1, <1>2, <1>3, <1>4, <1>5, DocumentSteps

\* FinishJob and CancelJob exclude each other.
LEMMA OutcomesStep ==
    ASSUME TypeOK, OutcomesExclude, [Next]_vars
    PROVE  OutcomesExclude'
<1>0. \A j \in DOMAIN db : db[j] \in Document
  BY DEF TypeOK
<1>1. ASSUME NEW j \in Jobs, NEW type \in Types, NEW deps \in SUBSET Jobs, Creates(j, type, deps)
      PROVE  OutcomesExclude'
  <2>1. /\ DOMAIN db' = DOMAIN db \cup {j}
        /\ ~db'[j].FinishedAt
        /\ Keeps(j)
    BY <1>1, WriteNew DEF Creates
  <2> QED BY <2>1 DEF Keeps, OutcomesExclude
<1>2. ASSUME NEW d \in Dequeuers, NEW token \in Tokens, Starts(d, token) PROVE OutcomesExclude'
  <2>1. /\ DOMAIN db' = DOMAIN db
        /\ db'[got[d]] = StartedWith(db[got[d]], token)
        /\ Keeps(got[d])
        /\ got[d] \in DOMAIN db
    BY <1>2, WriteStarted DEF Starts
  <2> QED BY <1>0, <2>1, StartedDocument DEF Keeps, OutcomesExclude
<1>3. ASSUME NEW j \in Jobs, NEW result \in Results, Finishes(j, result) PROVE OutcomesExclude'
  <2>1. /\ DOMAIN db' = DOMAIN db
        /\ db'[j] = FinishedWith(db[j], result)
        /\ Keeps(j)
        /\ j \in DOMAIN db /\ Running(j)
    BY <1>3, WriteFinished DEF Finishes
  <2> QED BY <1>0, <2>1, FinishedDocument DEF Keeps, OutcomesExclude, Running
<1>4. ASSUME NEW j \in Jobs, Cancels(j) PROVE OutcomesExclude'
  <2>1. /\ DOMAIN db' = DOMAIN db
        /\ db'[j] = AsCanceled(db[j])
        /\ Keeps(j)
        /\ j \in DOMAIN db /\ ~db[j].FinishedAt
    BY <1>4, WriteCanceled DEF Cancels
  <2> QED BY <1>0, <2>1, CanceledDocument DEF Keeps, OutcomesExclude
<1>5. ASSUME db' = db PROVE OutcomesExclude'
  BY <1>5 DEF OutcomesExclude
<1> QED BY <1>1, <1>2, <1>3, <1>4, <1>5, DocumentSteps

\* A received job is ready, so that starting it respects its dependencies.
LEMMA StartsAfterStep ==
    ASSUME TypeOK, DependenciesExist, StartsAfterDependencies, QueuedIsReady, [Next]_vars
    PROVE  StartsAfterDependencies'
<1> SUFFICES ASSUME NEW k \in DOMAIN db', db'[k].StartedAt,
                    NEW x \in db'[k].Dependencies
             PROVE  db'[x].FinishedAt
  BY DEF StartsAfterDependencies, DepsFinished
<1>0. \A j \in DOMAIN db : db[j] \in Document
  BY DEF TypeOK
<1>1. ASSUME k \in DOMAIN db, DepsFinished(db, k) PROVE db'[x].FinishedAt
  BY <1>1, DocumentsGrow DEF DepsFinished, DependenciesExist
<1>2. ASSUME k \in DOMAIN db, db[k].StartedAt PROVE db'[x].FinishedAt
  BY <1>1, <1>2 DEF StartsAfterDependencies, DepsFinished
<1>3. ASSUME NEW j \in Jobs, NEW type \in Types, NEW deps \in SUBSET Jobs, Creates(j, type, deps)
      PROVE  db'[x].FinishedAt
  <2>1. /\ DOMAIN db' = DOMAIN db \cup {j}
        /\ ~db'[j].StartedAt
        /\ Keeps(j)
    BY <1>3, WriteNew DEF Creates
  <2>2. k \in DOMAIN db /\ k # j
    BY <1>3, <2>1 DEF Creates
  <2> QED BY <1>2, <2>1, <2>2 DEF Keeps
<1>4. ASSUME NEW d \in Dequeuers, NEW token \in Tokens, Starts(d, token) PROVE db'[x].FinishedAt
  <2>1. /\ DOMAIN db' = DOMAIN db
        /\ Keeps(got[d])
        /\ got[d] \in DOMAIN db
    BY <1>4, WriteStarted DEF Starts
  <2>2. DepsFinished(db, got[d])
    BY <2>1 DEF QueuedIsReady, Queued, Enqueueable
  <2> QED BY <1>1, <1>2, <2>1, <2>2 DEF Keeps
<1>5. ASSUME NEW j \in Jobs, NEW result \in Results, Finishes(j, result) PROVE db'[x].FinishedAt
  <2>1. /\ DOMAIN db' = DOMAIN db
        /\ db'[j] = FinishedWith(db[j], result)
        /\ Keeps(j)
        /\ j \in DOMAIN db
    BY <1>5, WriteFinished DEF Finishes
  <2> QED BY <1>0, <1>2, <2>1, FinishedDocument DEF Keeps
<1>6. ASSUME NEW j \in Jobs, Cancels(j) PROVE db'[x].FinishedAt
  <2>1. /\ DOMAIN db' = DOMAIN db
        /\ db'[j] = AsCanceled(db[j])
        /\ Keeps(j)
        /\ j \in DOMAIN db
    BY <1>6, WriteCanceled DEF Cancels
  <2> QED BY <1>0, <1>2, <2>1, CanceledDocument DEF Keeps
<1>7. ASSUME db' = db PROVE db'[x].FinishedAt
  BY <1>2, <1>7
<1> QED BY <1>3, <1>4, <1>5, <1>6, <1>7, DocumentSteps

\* Dequeue draws a token nobody has.
LEMMA TokensUniqueStep ==
    ASSUME TypeOK, TokensUnique, [Next]_vars
    PROVE  TokensUnique'
<1>0. \A j \in DOMAIN db : db[j] \in Document
  BY DEF TypeOK
<1>1. ASSUME NEW j \in Jobs, NEW type \in Types, NEW deps \in SUBSET Jobs, Creates(j, type, deps)
      PROVE  TokensUnique'
  <2>1. /\ DOMAIN db' = DOMAIN db \cup {j}
        /\ db'[j].Token = Nil
        /\ Keeps(j)
    BY <1>1, WriteNew DEF Creates
  <2> QED BY <1>1, <2>1 DEF Keeps, Creates, TokensUnique
<1>2. ASSUME NEW d \in Dequeuers, NEW token \in Tokens, Starts(d, token) PROVE TokensUnique'
  <2>1. /\ DOMAIN db' = DOMAIN db
        /\ db'[got[d]] = StartedWith(db[got[d]], token)
        /\ Keeps(got[d])
        /\ got[d] \in DOMAIN db
    BY <1>2, WriteStarted DEF Starts
  <2>2. db'[got[d]].Token = token /\ db'[got[d]].StartedAt
    BY <1>0, <2>1, StartedDocument
  <2>3. \A k \in DOMAIN db : db[k].Token # token
    BY <1>2, QueueAssumption DEF TokensUnique, Starts
  <2> QED BY <1>2, <2>1, <2>2, <2>3 DEF Keeps, Starts, TokensUnique
<1>3. ASSUME DOMAIN db' = DOMAIN db, \A k \in DOMAIN db : db'[k].Token = db[k].Token
      PROVE  TokensUnique'
  BY <1>3, DocumentsGrow DEF TokensUnique
<1>4. ASSUME NEW j \in Jobs, NEW result \in Results, Finishes(j, result) PROVE TokensUnique'
  <2>1. /\ DOMAIN db' = DOMAIN db
        /\ db'[j] = FinishedWith(db[j], result)
        /\ Keeps(j)
        /\ j \in DOMAIN db
    BY <1>4, WriteFinished DEF Finishes
  <2> QED BY <1>0, <1>3, <2>1, FinishedDocument DEF Keeps
<1>5. ASSUME NEW j \in Jobs, Cancels(j) PROVE TokensUnique'
  <2>1. /\ DOMAIN db' = DOMAIN db
        /\ db'[j] = AsCanceled(db[j])
        /\ Keeps(j)
        /\ j \in DOMAIN db
    BY <1>5, WriteCanceled DEF Cancels
  <2> QED BY <1>0, <1>3, <2>1, CanceledDocument DEF Keeps
<1>6. ASSUME db' = db PROVE TokensUnique'
  BY <1>3, <1>6
<1> QED BY <1>1, <1>2, <1>4, <1>5, <1>6, DocumentSteps

-----------------------------------------------------------------------------
(***************************************************************************)
(* The life of the process: it stops and forgets, or starts, or works.     *)
(***************************************************************************)
Stops ==
    /\ mode' = "down"
    /\ loading' = {}
    /\ db' = db
    /\ Forget

Works ==
    /\ mode # "down"
    /\ mode' = mode
    /\ loading' \subseteq loading
    /\ faulty => faulty'

\* The process stops and forgets, or goes on with what it has loaded.
LEMMA ModeSteps ==
    ASSUME TypeOK, DownIsEmpty, [Next]_vars
    PROVE  Stops \/ New \/ Started \/ Works \/ UNCHANGED vars
<1> DEFINE Goal == Stops \/ New \/ Started \/ Works \/ UNCHANGED vars
<1> USE DEF Unlocked, TypeOK
<1>1. ASSUME NEW j \in Jobs, NEW type \in Types, NEW deps \in SUBSET Jobs,
             Enqueue(j, type, deps) \/ EnqueueFault(j, type, deps)
      PROVE  Works
  BY <1>1 DEF Enqueue, EnqueueFault, DiskFault, Works
<1>2. ASSUME NEW j \in Jobs, NEW result \in Results,
             FinishJob(j, result) \/ FinishReadFault(j, result)
      PROVE  Works
  BY <1>2 DEF FinishJob, FinishReadFault, DiskFault, Works
<1>3. ASSUME NEW j \in Jobs, LoadRunning(j) \/ LoadTokenless(j) \/ LoadOther(j) PROVE Works
  BY <1>3 DEF LoadRunning, LoadTokenless, LoadOther, Loads, Works
<1>4. ASSUME NEW j \in Jobs, CancelJob(j) \/ FinishWriteFault(j) \/ CancelFault(j) PROVE Works
  BY <1>4 DEF CancelJob, FinishWriteFault, CancelFault, DiskFault, Works
<1>5. ASSUME NEW d \in Dequeuers, NEW token \in Tokens,
             DequeueStart(d, token) \/ DequeueWriteFault(d, token)
      PROVE  Works
  BY <1>5 DEF DequeueStart, DequeueWriteFault, DiskFault, Works
<1>6. ASSUME NEW j \in Jobs, Send(j) PROVE Works
  BY <1>6 DEF Send, DownIsEmpty, Works
<1>7. ASSUME NEW token \in Tokens, RefreshHeartbeat(token) \/ Age(token) PROVE Works
  BY <1>7 DEF RefreshHeartbeat, Age, Works
<1>8. ASSUME NEW d \in Dequeuers, NEW t \in Types, Receive(d, t) PROVE Works
  BY <1>8 DEF Receive, Waiting, Works
<1>9. ASSUME NEW d \in Dequeuers,
             \/ Dequeue(d) \/ DequeueSkip(d) \/ DequeueTimeout(d) \/ DequeueClosed(d)
             \/ DequeueReadFault(d)
      PROVE  Works
  BY <1>9 DEF Dequeue, DequeueSkip, DequeueTimeout, DequeueClosed, DequeueFails,
              DequeueReadFault, DiskFault, Works
<1>10. ASSUME LoadLitter \/ Crash \/ TornWrite PROVE Stops
  BY <1>10 DEF LoadLitter, Crash, TornWrite, disk, Stops
<1>11. ASSUME Stops \/ New \/ Started \/ Works \/ UNCHANGED vars PROVE Goal
  BY <1>11
<1>12. Goal
  <2> HIDE DEF Goal
  <2> QED
    BY <1>1, <1>2, <1>3, <1>4, <1>5, <1>6, <1>7, <1>8, <1>9, <1>10, <1>11
    DEF Next, Startup, Requests, Polling, Faulting
<1> QED BY <1>12

\* Only New() has documents left to load.
LEMMA LoadingStep ==
    ASSUME TypeOK, DownIsEmpty, LoadingWhenStarting, [Next]_vars
    PROVE  LoadingWhenStarting'
<1>1. CASE Stops
  BY <1>1 DEF Stops, LoadingWhenStarting
<1>2. CASE New \/ Started
  BY <1>2 DEF New, Started, LoadingWhenStarting
<1>3. CASE Works
  BY <1>3 DEF Works, LoadingWhenStarting
<1>4. CASE UNCHANGED vars
  BY <1>4 DEF vars, LoadingWhenStarting
<1> QED BY <1>1, <1>2, <1>3, <1>4, ModeSteps

\* A process that stops keeps nothing in memory.
LEMMA DownStep ==
    ASSUME TypeOK, DownIsEmpty, [Next]_vars
    PROVE  DownIsEmpty'
<1>1. CASE Stops
  BY <1>1 DEF Stops, Forget, DownIsEmpty
<1>2. CASE New \/ Started
  BY <1>2 DEF New, Started, DownIsEmpty
<1>3. CASE Works
  BY <1>3 DEF Works, DownIsEmpty
<1>4. CASE UNCHANGED vars
  BY <1>4 DEF vars, memory, callers, DownIsEmpty
<1> QED BY <1>1, <1>2, <1>3, <1>4, ModeSteps

-----------------------------------------------------------------------------
(***************************************************************************)
(* The way of a job to a worker: the mutex holder's list, the channel, the *)
(* dequeuer that received it.                                              *)
(***************************************************************************)
Fills ==
    /\ sending = {}
    /\ pending' = pending
    /\ got' = got
    /\ \A k \in sending' :
          k \in DOMAIN db' \ loading' /\ ~Queued(k) /\ Enqueueable(db', k)

Drops(d) ==
    /\ got[d] # Nil
    /\ got' = [got EXCEPT ![d] = Nil]
    /\ pending' = pending
    /\ sending' = sending
    /\ db'[got[d]].StartedAt \/ db'[got[d]].Canceled \/ faulty'

Rests == sending' = sending /\ pending' = pending /\ got' = got

\* Only ids of documents are on their way.
LEMMA QueuedIds ==
    ASSUME TypeOK, NEW k \in Jobs, Queued(k)
    PROVE  k \in DOMAIN db
<1>1. \A t \in Types : Contents(pending[t]) \subseteq DOMAIN db
  BY DEF TypeOK, Contents
<1> QED BY <1>1, QueueAssumption DEF Queued, TypeOK

\* maybeEnqueue sends at most the job it is called for.
LEMMA MaybeEnqueueSends ==
    ASSUME NEW docs, NEW j, MaybeEnqueue(docs, j), NEW k \in sending'
    PROVE  k = j /\ Enqueueable(docs, j)
  BY DEF MaybeEnqueue

\* A dependant of an unfinished job is not on its way yet.
LEMMA DependantsNotQueued ==
    ASSUME TypeOK, QueuedIsReady, DependantsWait, NEW j \in DOMAIN db, ~db[j].FinishedAt,
           NEW k \in dependants[j]
    PROVE  k \in DOMAIN db \ loading /\ ~Queued(k)
<1>1. j \in Jobs /\ k \in DOMAIN db
  BY DEF TypeOK
<1>2. k \notin loading /\ j \in db[k].Dependencies
  BY <1>1 DEF DependantsWait
<1> QED BY <1>1, <1>2 DEF QueuedIsReady, Enqueueable, DepsFinished

\* How ids move: into the sender's list, into a channel, to a dequeuer, and out.
LEMMA QueueSteps ==
    ASSUME TypeOK, DownIsEmpty, LoadingWhenStarting, QueuedIsReady, DependantsWait, [Next]_vars
    PROVE  \/ Rests \/ Fills \/ Stops
           \/ \E j \in Jobs : Send(j)
           \/ \E d \in Dequeuers, t \in Types : Receive(d, t)
           \/ \E d \in Dequeuers : Drops(d)
<1> DEFINE Goal == \/ Rests \/ Fills \/ Stops
                   \/ \E j \in Jobs : Send(j)
                   \/ \E d \in Dequeuers, t \in Types : Receive(d, t)
                   \/ \E d \in Dequeuers : Drops(d)
<1>0. \A j \in DOMAIN db : db[j] \in Document /\ j \in Jobs
  BY DEF TypeOK
<1>1. ASSUME NEW j \in Jobs, NEW type \in Types, NEW deps \in SUBSET Jobs, Enqueue(j, type, deps)
      PROVE  Fills
  <2>1. /\ sending = {} /\ loading' = {} /\ pending' = pending /\ got' = got
    BY <1>1 DEF Enqueue, Unlocked, LoadingWhenStarting, callers
  <2>2. DOMAIN db' = DOMAIN db \cup {j}
    BY <1>1, WriteNew DEF Enqueue
  <2>3. ~Queued(j)
    BY <1>1, QueuedIds DEF Enqueue
  <2>4. MaybeEnqueue(db', j)
    BY <1>1 DEF Enqueue
  <2> QED BY <2>1, <2>2, <2>3, <2>4, MaybeEnqueueSends DEF Fills
<1>2. ASSUME NEW j \in Jobs, NEW result \in Results,
             \/ FinishJob(j, result) \/ FinishReadFault(j, result)
             \/ LoadTokenless(j) /\ result = Null
      PROVE  Fills
  <2>1. /\ sending = {} /\ loading' \subseteq loading /\ pending' = pending /\ got' = got
    BY <1>2 DEF FinishJob, FinishReadFault, LoadTokenless, Loads, DiskFault, Unlocked, callers
  <2>2. /\ j \in DOMAIN db /\ ~db[j].FinishedAt
        /\ db' = [db EXCEPT ![j] = FinishedWith(@, result)]
    BY <1>2 DEF FinishJob, FinishReadFault, LoadTokenless, Loads, Finish, Running, TypeOK
  <2>3. DOMAIN db' = DOMAIN db
    BY <2>2, WriteFinished
  <2>4. \A k \in sending' : k \in dependants[j] /\ Enqueueable(db', k)
    BY <1>2 DEF FinishJob, FinishReadFault, LoadTokenless, Finish
  <2>5. \A k \in sending' : k \in DOMAIN db \ loading /\ ~Queued(k)
    BY <2>2, <2>4, DependantsNotQueued
  <2> QED BY <2>1, <2>3, <2>4, <2>5 DEF Fills
<1>3. ASSUME NEW j \in Jobs, LoadRunning(j) \/ LoadOther(j) PROVE Fills
  <2>1. /\ sending = {} /\ loading' = loading \ {j} /\ pending' = pending /\ got' = got
        /\ j \in loading /\ j \in DOMAIN db /\ db' = db
        /\ MaybeEnqueue(db, j)
    BY <1>3 DEF LoadRunning, LoadOther, Loads, callers, disk, TypeOK
  <2>2. ~Queued(j)
    BY <2>1 DEF QueuedIsReady
  <2> QED BY <2>1, <2>2, MaybeEnqueueSends DEF Fills
<1>4. ASSUME NEW d \in Dequeuers, NEW token \in Tokens, DequeueStart(d, token) PROVE Drops(d)
  <2>1. /\ got[d] \in DOMAIN db /\ got[d] # Nil
        /\ db' = [db EXCEPT ![got[d]] = StartedWith(@, token)]
    BY <1>4 DEF DequeueStart, MayStart, TypeOK
  <2>2. db'[got[d]] = StartedWith(db[got[d]], token)
    BY <2>1, WriteStarted
  <2>3. db'[got[d]].StartedAt
    BY <1>0, <2>1, <2>2, StartedDocument
  <2> QED BY <1>4, <2>1, <2>3 DEF DequeueStart, Return, Drops
<1>5. ASSUME NEW d \in Dequeuers, NEW token \in Tokens, DequeueWriteFault(d, token) PROVE Drops(d)
  BY <1>5 DEF DequeueWriteFault, MayStart, Return, DiskFault, Drops
<1>6. ASSUME NEW d \in Dequeuers, DequeueSkip(d) \/ DequeueReadFault(d) PROVE Drops(d)
  BY <1>6 DEF DequeueSkip, DequeueReadFault, Return, DiskFault, Drops, memory, disk
<1>7. ASSUME NEW d \in Dequeuers, DequeueTimeout(d) \/ DequeueClosed(d) PROVE Rests
  BY <1>7 DEF DequeueTimeout, DequeueClosed, DequeueFails, Waiting, Return, memory, Rests, TypeOK
<1>8. ASSUME NEW d \in Dequeuers, Dequeue(d) PROVE Rests
  BY <1>8 DEF Dequeue, memory, Rests
<1>9. ASSUME NEW j \in Jobs, NEW type \in Types, NEW deps \in SUBSET Jobs,
             EnqueueFault(j, type, deps)
      PROVE  Rests
  BY <1>9 DEF EnqueueFault, memory, callers, Rests
<1>10. ASSUME NEW j \in Jobs, CancelJob(j) \/ FinishWriteFault(j) \/ CancelFault(j) PROVE Rests
  BY <1>10 DEF CancelJob, FinishWriteFault, CancelFault, callers, Rests
<1>11. ASSUME NEW token \in Tokens, RefreshHeartbeat(token) \/ Age(token) PROVE Rests
  BY <1>11 DEF RefreshHeartbeat, Age, callers, Rests
<1>12. ASSUME New \/ Started \/ UNCHANGED vars PROVE Rests
  BY <1>12 DEF New, Started, vars, memory, callers, Rests
<1>13. ASSUME LoadLitter \/ Crash \/ TornWrite PROVE Stops
  BY <1>13 DEF LoadLitter, Crash, TornWrite, disk, Stops
<1>14. ASSUME Rests \/ Fills \/ Stops PROVE Goal
  BY <1>14
<1>15. ASSUME NEW j \in Jobs, Send(j) PROVE Goal
  BY <1>15
<1>16. ASSUME NEW d \in Dequeuers, NEW t \in Types, Receive(d, t) PROVE Goal
  BY <1>16
<1>17. ASSUME NEW d \in Dequeuers, Drops(d) PROVE Goal
  BY <1>17
<1>18. Goal
  <2> HIDE DEF Goal
  <2> QED
    BY <1>1, <1>2, <1>3, <1>4, <1>5, <1>6, <1>7, <1>8, <1>9, <1>10, <1>11, <1>12, <1>13, <1>14,
       <1>15, <1>16, <1>17, QueueAssumption
    DEF Next, Startup, Requests, Polling, Faulting
<1> QED BY <1>18

\* The parts of QueuedOnce.
ChannelsApart ==
    \A t \in Types, u \in Types :
        \A m \in 1 .. Len(pending[t]), n \in 1 .. Len(pending[u]) :
            pending[t][m] = pending[u][n] => t = u /\ m = n

SendingApart == \A t \in Types : Contents(pending[t]) \cap sending = {}

ReceivedApart ==
    \A d \in Dequeuers : got[d] # Nil =>
        /\ got[d] \notin sending
        /\ \A t \in Types : got[d] \notin Contents(pending[t])
        /\ \A e \in Dequeuers : got[e] = got[d] => e = d

\* QueuedOnce in three parts, one for each place an id can be.
LEMMA QueuedOnceParts == QueuedOnce <=> ChannelsApart /\ SendingApart /\ ReceivedApart
  BY DEF QueuedOnce, ChannelsApart, SendingApart, ReceivedApart

\* Sending an id to its channel makes no second copy.
LEMMA SendOnce ==
    ASSUME TypeOK, ChannelsApart, SendingApart, ReceivedApart, NEW j \in Jobs, Send(j)
    PROVE  ChannelsApart' /\ SendingApart' /\ ReceivedApart'
<1> DEFINE c == db[j].Type
<1>1. /\ c \in Types /\ j \in DOMAIN db /\ j \in sending
      /\ pending \in [Types -> Seq(DOMAIN db)]
      /\ pending' = [pending EXCEPT ![c] = Append(pending[c], j)]
      /\ sending' = sending \ {j} /\ got' = got
  BY DEF Send, TypeOK, Document, callers
<1> HIDE DEF c
<1>2. \A t \in Types : pending'[t] = IF t = c THEN Append(pending[c], j) ELSE pending[t]
  BY <1>1
<1>3. Contents(pending'[c]) = Contents(pending[c]) \cup {j}
  BY <1>1, <1>2, AppendContents
<1>4. \A t \in Types : j \notin Contents(pending[t])
  BY <1>1 DEF SendingApart
<1>5. SendingApart'
  BY <1>1, <1>2, <1>3 DEF SendingApart
<1>6. ReceivedApart'
  BY <1>1, <1>2, <1>3 DEF ReceivedApart
<1>7. /\ Len(pending[c]) \in Nat
      /\ Len(pending'[c]) = Len(pending[c]) + 1
      /\ pending'[c][Len(pending[c]) + 1] = j
      /\ \A m \in 1 .. Len(pending[c]) : pending'[c][m] = pending[c][m]
  BY <1>1, <1>2
<1>8. \A t \in Types : \A m \in 1 .. Len(pending'[t]) :
         \/ m \in 1 .. Len(pending[t]) /\ pending'[t][m] = pending[t][m] /\ pending'[t][m] # j
         \/ t = c /\ m = Len(pending[c]) + 1 /\ pending'[t][m] = j
  BY <1>2, <1>4, <1>7 DEF Contents
<1>9. ChannelsApart'
  BY <1>8 DEF ChannelsApart
<1> QED BY <1>5, <1>6, <1>9

\* Receiving an id takes the only copy from its channel.
LEMMA ReceiveOnce ==
    ASSUME TypeOK, ChannelsApart, SendingApart, ReceivedApart,
           NEW d \in Dequeuers, NEW c \in Types, Receive(d, c)
    PROVE  ChannelsApart' /\ SendingApart' /\ ReceivedApart'
<1>1. /\ pending \in [Types -> Seq(DOMAIN db)] /\ pending[c] # <<>>
      /\ pending' = [pending EXCEPT ![c] = Tail(pending[c])]
      /\ got \in [Dequeuers -> DOMAIN db \cup {Nil}]
      /\ got' = [got EXCEPT ![d] = Head(pending[c])]
      /\ got[d] = Nil /\ sending' = sending
  BY DEF Receive, Waiting, TypeOK
<1>2. \A t \in Types : pending'[t] = IF t = c THEN Tail(pending[c]) ELSE pending[t]
  BY <1>1
<1>3. Contents(pending[c]) = Contents(pending'[c]) \cup {Head(pending[c])}
  BY <1>1, <1>2, TailContents
<1>4. /\ Len(pending[c]) \in Nat \ {0}
      /\ Len(pending'[c]) = Len(pending[c]) - 1
      /\ Head(pending[c]) = pending[c][1]
      /\ \A m \in 1 .. Len(pending[c]) - 1 : pending'[c][m] = pending[c][m + 1]
  BY <1>1, <1>2
<1>5. \A t \in Types : \A m \in 1 .. Len(pending'[t]) :
         /\ t # c => m \in 1 .. Len(pending[t]) /\ pending'[t][m] = pending[t][m]
         /\ t = c => m + 1 \in 1 .. Len(pending[c]) /\ pending'[t][m] = pending[c][m + 1]
                    /\ m \in Nat
  BY <1>2, <1>4
<1>6. ChannelsApart'
  <2> SUFFICES ASSUME NEW t \in Types, NEW u \in Types,
                      NEW m \in 1 .. Len(pending'[t]), NEW n \in 1 .. Len(pending'[u]),
                      pending'[t][m] = pending'[u][n]
               PROVE  t = u /\ m = n
    BY DEF ChannelsApart
  <2>1. CASE t # c /\ u # c
    BY <1>5, <2>1 DEF ChannelsApart
  <2>2. CASE t = c /\ u = c
    <3>1. m + 1 = n + 1 /\ m \in Nat /\ n \in Nat
      BY <1>5, <2>2 DEF ChannelsApart
    <3> QED BY <2>2, <3>1
  <2>3. CASE t = c /\ u # c
    BY <1>5, <2>3 DEF ChannelsApart
  <2>4. CASE t # c /\ u = c
    BY <1>5, <2>4 DEF ChannelsApart
  <2> QED BY <2>1, <2>2, <2>3, <2>4
<1>7. SendingApart'
  BY <1>1, <1>2, <1>3 DEF SendingApart
<1>8. \A t \in Types : Head(pending[c]) \notin Contents(pending'[t])
  <2> SUFFICES ASSUME NEW t \in Types, NEW m \in 1 .. Len(pending'[t]),
                      pending'[t][m] = pending[c][1]
               PROVE  FALSE
    BY <1>4 DEF Contents
  <2>1. 1 \in 1 .. Len(pending[c])
    BY <1>4
  <2>2. CASE t # c
    BY <1>5, <2>1, <2>2 DEF ChannelsApart
  <2>3. CASE t = c
    <3>1. m + 1 = 1 /\ m \in Nat
      BY <1>5, <2>1, <2>3 DEF ChannelsApart
    <3>2. m >= 1
      OBVIOUS
    <3> QED BY <3>1, <3>2
  <2> QED BY <2>2, <2>3
<1>9. \A t \in Types : Contents(pending'[t]) \subseteq Contents(pending[t])
  BY <1>2, <1>3
<1>10. ReceivedApart'
  <2>1. Head(pending[c]) \in Contents(pending[c]) /\ Head(pending[c]) \notin sending
    BY <1>3 DEF SendingApart
  <2>2. \A e \in Dequeuers : e # d => got'[e] = got[e] /\ got[e] # Head(pending[c])
    <3> SUFFICES ASSUME NEW e \in Dequeuers, e # d, got[e] = Head(pending[c]) PROVE FALSE
      BY <1>1
    <3>1. got[e] # Nil
      BY <1>1, TailContents, QueueAssumption DEF TypeOK
    <3> QED BY <2>1, <3>1 DEF ReceivedApart
  <2>3. got'[d] = Head(pending[c])
    BY <1>1
  <2> QED BY <1>1, <1>8, <1>9, <2>1, <2>2, <2>3 DEF ReceivedApart
<1> QED BY <1>6, <1>7, <1>10

\* No step makes a second copy of an id.
LEMMA QueuedOnceStep ==
    ASSUME TypeOK, DownIsEmpty, LoadingWhenStarting, QueuedIsReady, DependantsWait, QueuedOnce,
           [Next]_vars
    PROVE  QueuedOnce'
<1>0. ChannelsApart /\ SendingApart /\ ReceivedApart
  BY QueuedOnceParts
<1> SUFFICES ChannelsApart' /\ SendingApart' /\ ReceivedApart'
  BY DEF QueuedOnce, ChannelsApart, SendingApart, ReceivedApart
<1>1. CASE Rests
  BY <1>0, <1>1 DEF Rests, ChannelsApart, SendingApart, ReceivedApart
<1>2. CASE Fills
  BY <1>0, <1>2 DEF Fills, Queued, ChannelsApart, SendingApart, ReceivedApart
<1>3. CASE Stops
  <2>1. \A t \in Types : pending'[t] = <<>>
    BY <1>3 DEF Stops, Forget
  <2>2. /\ \A d \in Dequeuers : got'[d] = Nil
        /\ sending' = {}
    BY <1>3 DEF Stops, Forget
  <2> QED BY <2>1, <2>2 DEF ChannelsApart, SendingApart, ReceivedApart
<1>4. ASSUME NEW j \in Jobs, Send(j) PROVE ChannelsApart' /\ SendingApart' /\ ReceivedApart'
  BY <1>0, <1>4, SendOnce
<1>5. ASSUME NEW d \in Dequeuers, NEW t \in Types, Receive(d, t)
      PROVE  ChannelsApart' /\ SendingApart' /\ ReceivedApart'
  BY <1>0, <1>5, ReceiveOnce
<1>6. ASSUME NEW d \in Dequeuers, Drops(d) PROVE ChannelsApart' /\ SendingApart' /\ ReceivedApart'
  <2>1. \A e \in Dequeuers : got'[e] # Nil => e # d /\ got'[e] = got[e]
    BY <1>6 DEF Drops, TypeOK
  <2> QED BY <1>0, <1>6, <2>1 DEF Drops, ChannelsApart, SendingApart, ReceivedApart
<1> QED BY <1>1, <1>2, <1>3, <1>4, <1>5, <1>6, QueueSteps

\* Nothing gets on its way but through the mutex holder's list.
LEMMA QueuedFrom ==
    ASSUME TypeOK, DownIsEmpty, LoadingWhenStarting, QueuedIsReady, DependantsWait, [Next]_vars,
           NEW k \in Jobs, Queued(k)'
    PROVE  Queued(k) \/ (Fills /\ k \in sending')
<1>1. CASE Rests
  BY <1>1 DEF Rests, Queued
<1>2. CASE Fills
  BY <1>2 DEF Fills, Queued
<1>3. CASE Stops
  <2>1. /\ \A t \in Types : Contents(pending'[t]) = {}
        /\ \A d \in Dequeuers : got'[d] = Nil
        /\ sending' = {}
    BY <1>3 DEF Stops, Forget, Contents
  <2> QED BY <2>1, QueueAssumption DEF Queued
<1>4. ASSUME NEW j \in Jobs, Send(j) PROVE Queued(k)
  <2> DEFINE c == db[j].Type
  <2>1. /\ c \in Types /\ j \in sending /\ j \in DOMAIN db
        /\ pending' = [pending EXCEPT ![c] = Append(pending[c], j)]
        /\ sending' = sending \ {j} /\ got' = got
        /\ pending \in [Types -> Seq(DOMAIN db)]
    BY <1>4 DEF Send, TypeOK, Document, callers
  <2> HIDE DEF c
  <2>2. \A t \in Types : Contents(pending'[t]) \subseteq Contents(pending[t]) \cup {j}
    BY <2>1, AppendContents
  <2> QED BY <2>1, <2>2 DEF Queued
<1>5. ASSUME NEW d \in Dequeuers, NEW c \in Types, Receive(d, c) PROVE Queued(k)
  <2>1. /\ pending \in [Types -> Seq(DOMAIN db)] /\ pending[c] # <<>>
        /\ pending' = [pending EXCEPT ![c] = Tail(pending[c])]
        /\ got \in [Dequeuers -> DOMAIN db \cup {Nil}]
        /\ got' = [got EXCEPT ![d] = Head(pending[c])]
        /\ sending' = sending
    BY <1>5 DEF Receive, TypeOK
  <2>2. /\ \A t \in Types : Contents(pending'[t]) \subseteq Contents(pending[t])
        /\ Head(pending[c]) \in Contents(pending[c])
    BY <2>1, TailContents
  <2> QED BY <2>1, <2>2 DEF Queued
<1>6. ASSUME NEW d \in Dequeuers, Drops(d) PROVE Queued(k)
  BY <1>6, QueueAssumption DEF Drops, Queued, TypeOK
<1> QED BY <1>1, <1>2, <1>3, <1>4, <1>5, <1>6, QueueSteps

\* Only Dequeue marks a job as started, and the job leaves its way then.
LEMMA NewlyStarted ==
    ASSUME TypeOK, QueuedOnce, [Next]_vars, NEW k \in DOMAIN db,
           ~db[k].StartedAt, db'[k].StartedAt
    PROVE  ~Queued(k)'
<1>0. \A j \in DOMAIN db : db[j] \in Document
  BY DEF TypeOK
<1>1. ASSUME NEW j \in Jobs, NEW type \in Types, NEW deps \in SUBSET Jobs, Creates(j, type, deps)
      PROVE  FALSE
  <2>1. Keeps(j) /\ k # j
    BY <1>1, WriteNew DEF Creates
  <2> QED BY <2>1 DEF Keeps
<1>2. ASSUME NEW d \in Dequeuers, NEW token \in Tokens, Starts(d, token) PROVE ~Queued(k)'
  <2>1. Keeps(got[d])
    BY <1>2, WriteStarted DEF Starts
  <2>2. got[d] = k /\ k # Nil
    BY <2>1, QueueAssumption DEF Keeps, TypeOK
  <2>3. /\ k \notin sending
        /\ \A t \in Types : k \notin Contents(pending[t])
        /\ \A e \in Dequeuers : got[e] = k => e = d
    BY <2>2 DEF QueuedOnce
  <2>4. /\ sending' = sending /\ pending' = pending
        /\ \A e \in Dequeuers : got'[e] = IF e = d THEN Nil ELSE got[e]
    BY <1>2 DEF Starts, TypeOK
  <2> QED BY <2>2, <2>3, <2>4 DEF Queued
<1>3. ASSUME NEW j \in Jobs, NEW result \in Results, Finishes(j, result) PROVE FALSE
  <2>1. /\ db'[j] = FinishedWith(db[j], result)
        /\ Keeps(j)
        /\ j \in DOMAIN db
    BY <1>3, WriteFinished DEF Finishes
  <2> QED BY <1>0, <2>1, FinishedDocument DEF Keeps
<1>4. ASSUME NEW j \in Jobs, Cancels(j) PROVE FALSE
  <2>1. /\ db'[j] = AsCanceled(db[j])
        /\ Keeps(j)
        /\ j \in DOMAIN db
    BY <1>4, WriteCanceled DEF Cancels
  <2> QED BY <1>0, <2>1, CanceledDocument DEF Keeps
<1>5. db' # db
  OBVIOUS
<1> QED BY <1>1, <1>2, <1>3, <1>4, <1>5, DocumentSteps

\* What is on its way stays ready until it is handed out.
LEMMA QueuedIsReadyStep ==
    ASSUME TypeOK, DownIsEmpty, LoadingWhenStarting, DependenciesExist, QueuedIsReady,
           DependantsWait, QueuedOnce, [Next]_vars
    PROVE  QueuedIsReady'
<1> SUFFICES ASSUME NEW k \in DOMAIN db', Queued(k)'
             PROVE  k \notin loading' /\ Enqueueable(db', k)
  BY DEF QueuedIsReady, Enqueueable, DepsFinished
<1>1. k \in Jobs
  BY TypeStep DEF TypeOK
<1>2. CASE Fills /\ k \in sending'
  BY <1>2 DEF Fills
<1>3. CASE Queued(k)
  <2>1. k \in DOMAIN db /\ k \notin loading /\ Enqueueable(db, k)
    BY <1>1, <1>3, QueuedIds DEF QueuedIsReady
  <2>2. ~db'[k].StartedAt
    BY <2>1, NewlyStarted DEF Enqueueable
  <2>3. DepsFinished(db', k)
    BY <2>1, DocumentsGrow DEF Enqueueable, DepsFinished, DependenciesExist
  <2>4. ~New
    <3> SUFFICES ASSUME New PROVE FALSE
      OBVIOUS
    <3>1. /\ \A t \in Types : Contents(pending[t]) = {}
          /\ \A d \in Dequeuers : got[d] = Nil
          /\ sending = {}
      BY DEF New, DownIsEmpty, Contents
    <3> QED BY <1>1, <1>3, <3>1, QueueAssumption DEF Queued
  <2>5. k \notin loading'
    BY <2>1, <2>4, ModeSteps DEF Stops, Started, Works, vars
  <2> QED BY <2>2, <2>3, <2>5 DEF Enqueueable
<1> QED BY <1>1, <1>2, <1>3, QueuedFrom

-----------------------------------------------------------------------------
(***************************************************************************)
(* The jobs the process knows of, and the map of dependants.               *)
(***************************************************************************)
Known == DOMAIN db \ loading

Learns(j) ==
    /\ j \in Known'
    /\ Known' \subseteq Known \cup {j}
    /\ MaybeEnqueue(db', j)

\* How the map of dependants changes with the set of loaded documents.
LEMMA KnownSteps ==
    ASSUME TypeOK, DownIsEmpty, LoadingWhenStarting, [Next]_vars
    PROVE  \/ Known' \subseteq Known /\ dependants' = dependants
           \/ Stops
           \/ \E j \in Jobs : Learns(j)
           \/ \E j \in Jobs : /\ j \in DOMAIN db /\ db'[j].FinishedAt /\ db'[j].StartedAt
                              /\ Known' \subseteq Known \cup {j}
                              /\ dependants' = [dependants EXCEPT ![j] = {}]
           \/ faulty' /\ dependants' = dependants /\ mode' # "starting"
<1> DEFINE Same == Known' \subseteq Known /\ dependants' = dependants
           Done(j) == /\ j \in DOMAIN db /\ db'[j].FinishedAt /\ db'[j].StartedAt
                      /\ Known' \subseteq Known \cup {j}
                      /\ dependants' = [dependants EXCEPT ![j] = {}]
           Spoilt == faulty' /\ dependants' = dependants /\ mode' # "starting"
           Goal == Same \/ Stops \/ (\E j \in Jobs : Learns(j)) \/ (\E j \in Jobs : Done(j)) \/ Spoilt
<1>0. \A j \in DOMAIN db : db[j] \in Document /\ j \in Jobs
  BY DEF TypeOK
<1>1. ASSUME NEW j \in Jobs, NEW type \in Types, NEW deps \in SUBSET Jobs, Enqueue(j, type, deps)
      PROVE  Learns(j)
  <2>1. DOMAIN db' = DOMAIN db \cup {j}
    BY <1>1, WriteNew DEF Enqueue
  <2>2. loading' = loading /\ loading = {} /\ MaybeEnqueue(db', j)
    BY <1>1 DEF Enqueue, Unlocked, LoadingWhenStarting
  <2> QED BY <2>1, <2>2 DEF Learns, Known
<1>2. ASSUME NEW j \in Jobs, LoadRunning(j) \/ LoadOther(j) PROVE Learns(j)
  <2>1. db' = db /\ j \in DOMAIN db /\ loading' = loading \ {j} /\ MaybeEnqueue(db, j)
    BY <1>2 DEF LoadRunning, LoadOther, Loads, disk, TypeOK
  <2>2. MaybeEnqueue(db', j)
    BY <2>1
  <2> QED BY <2>1, <2>2 DEF Learns, Known
<1>3. ASSUME NEW j \in Jobs, NEW result \in Results,
             FinishJob(j, result) \/ (LoadTokenless(j) /\ result = Null)
      PROVE  Goal
  <2>1. /\ j \in DOMAIN db /\ Running(j)
        /\ db' = [db EXCEPT ![j] = FinishedWith(@, result)]
        /\ loading \subseteq loading' \cup {j}
        /\ dependants' = [dependants EXCEPT ![j] = {}]
    BY <1>3 DEF FinishJob, LoadTokenless, Loads, Finish, TypeOK
  <2>2. DOMAIN db' = DOMAIN db /\ db'[j] = FinishedWith(db[j], result)
    BY <2>1, WriteFinished
  <2>3. db'[j].FinishedAt /\ db'[j].StartedAt
    BY <1>0, <2>1, <2>2, FinishedDocument DEF Running
  <2>4. Known' \subseteq Known \cup {j}
    BY <2>1, <2>2 DEF Known
  <2> QED BY <2>1, <2>3, <2>4
<1>4. ASSUME NEW j \in Jobs, NEW result \in Results, FinishReadFault(j, result) PROVE Spoilt
  BY <1>4 DEF FinishReadFault, DiskFault, Unlocked
<1>5. ASSUME NEW j \in Jobs, NEW type \in Types, NEW deps \in SUBSET Jobs,
             EnqueueFault(j, type, deps)
      PROVE  Spoilt
  BY <1>5 DEF EnqueueFault, DiskFault, Unlocked, memory
<1>6. ASSUME NEW j \in Jobs, CancelJob(j) PROVE Same
  <2>1. DOMAIN db' = DOMAIN db
    BY <1>6, WriteCanceled DEF CancelJob, MayCancel
  <2> QED BY <1>6, <2>1 DEF CancelJob, Known
<1>7. ASSUME NEW d \in Dequeuers, NEW token \in Tokens, DequeueStart(d, token) PROVE Same
  <2>1. DOMAIN db' = DOMAIN db
    BY <1>7, WriteStarted DEF DequeueStart, MayStart, TypeOK
  <2> QED BY <1>7, <2>1 DEF DequeueStart, Known
<1>8. ASSUME NEW d \in Dequeuers, NEW token \in Tokens, DequeueWriteFault(d, token) PROVE Same
  BY <1>8 DEF DequeueWriteFault, DiskFault, Known
<1>9. ASSUME NEW j \in Jobs, Send(j) \/ FinishWriteFault(j) \/ CancelFault(j) PROVE Same
  BY <1>9 DEF Send, FinishWriteFault, CancelFault, DiskFault, Known, disk
<1>10. ASSUME NEW token \in Tokens, RefreshHeartbeat(token) \/ Age(token) PROVE Same
  BY <1>10 DEF RefreshHeartbeat, Age, Known, disk
<1>11. ASSUME NEW d \in Dequeuers, NEW t \in Types, Receive(d, t) PROVE Same
  BY <1>11 DEF Receive, Known, disk
<1>12. ASSUME NEW d \in Dequeuers,
              \/ Dequeue(d) \/ DequeueSkip(d) \/ DequeueTimeout(d) \/ DequeueClosed(d)
              \/ DequeueReadFault(d)
       PROVE  Same
  BY <1>12 DEF Dequeue, DequeueSkip, DequeueTimeout, DequeueClosed, DequeueFails,
               DequeueReadFault, DiskFault, Known, disk, memory
<1>13. ASSUME New \/ Started \/ UNCHANGED vars PROVE Same
  BY <1>13 DEF New, Started, vars, Known, disk, memory
<1>14. ASSUME LoadLitter \/ Crash \/ TornWrite PROVE Stops
  BY <1>14 DEF LoadLitter, Crash, TornWrite, disk, Stops
<1>15. ASSUME Same \/ Stops \/ Spoilt PROVE Goal
  BY <1>15
<1>16. ASSUME NEW j \in Jobs, Learns(j) PROVE Goal
  BY <1>16
<1>17. Goal
  <2> HIDE DEF Goal, Same, Spoilt
  <2>1. ASSUME NEW j \in Jobs, NEW result \in Results, FinishJob(j, result) PROVE Goal
    BY <1>3, <2>1
  <2>2. ASSUME NEW j \in Jobs, LoadTokenless(j) PROVE Goal
    BY <1>3, <2>2, QueueAssumption
  <2> QED
    BY <1>1, <1>2, <2>1, <2>2, <1>4, <1>5, <1>6, <1>7, <1>8, <1>9, <1>10, <1>11, <1>12, <1>13, <1>14,
       <1>15, <1>16
    DEF Next, Startup, Requests, Polling, Faulting
<1> QED BY <1>17

\* The map of dependants names only jobs that wait.
LEMMA DependantsWaitStep ==
    ASSUME TypeOK, DownIsEmpty, LoadingWhenStarting, DependantsWait, [Next]_vars
    PROVE  DependantsWait'
<1> SUFFICES ASSUME NEW d \in Jobs, NEW k \in dependants'[d]
             PROVE  k \notin loading' /\ d \in db'[k].Dependencies
  BY DEF DependantsWait
<1>1. ASSUME k \in dependants[d] PROVE k \notin loading' /\ d \in db'[k].Dependencies
  <2>1. /\ k \in DOMAIN db
        /\ k \notin loading /\ d \in db[k].Dependencies
    BY <1>1 DEF DependantsWait, TypeOK
  <2>2. ~New
    BY <1>1 DEF New, DownIsEmpty
  <2>3. k \notin loading'
    BY <2>1, <2>2, ModeSteps DEF Stops, Started, Works, vars
  <2> QED BY <2>1, <2>3, DocumentsGrow
<1>2. ASSUME NEW j \in Jobs, Learns(j), k \notin dependants[d]
      PROVE  k \notin loading' /\ d \in db'[k].Dependencies
  BY <1>2 DEF Learns, MaybeEnqueue, AddDependant, Known
<1>3. ASSUME Stops PROVE FALSE
  BY <1>3 DEF Stops, Forget
<1>4. ASSUME NEW j \in Jobs, dependants' = [dependants EXCEPT ![j] = {}] PROVE k \in dependants[d]
  BY <1>4 DEF TypeOK
<1> QED BY <1>1, <1>2, <1>3, <1>4, KnownSteps

\* A waiting job stays known to every dependency it waits for.
LEMMA WaitingIsKnownStep ==
    ASSUME TypeOK, DownIsEmpty, LoadingWhenStarting, DependenciesExist, WaitingIsKnown,
           [Next]_vars
    PROVE  WaitingIsKnown'
<1> SUFFICES ASSUME mode' # "down", ~faulty', NEW j \in DOMAIN db' \ loading',
                    ~db'[j].StartedAt, ~db'[j].Canceled, ~DepsFinished(db', j),
                    NEW d \in db'[j].Dependencies, ~db'[d].FinishedAt
             PROVE  j \in dependants'[d]
  BY DEF WaitingIsKnown, DepsFinished
<1>0. /\ TypeOK'
      /\ d \in Jobs
  BY TypeStep DEF TypeOK, Document
<1>1. ASSUME j \in Known PROVE j \in dependants[d]
  <2>1. j \in DOMAIN db \ loading
    BY <1>1 DEF Known
  <2>2. ~db[j].StartedAt /\ ~db[j].Canceled /\ d \in db[j].Dependencies /\ d \in DOMAIN db
    BY <2>1, DocumentsGrow DEF DependenciesExist
  <2>3. ~db[d].FinishedAt
    BY <2>2, DocumentsGrow
  <2>4. ~DepsFinished(db, j)
    BY <2>2, <2>3 DEF DepsFinished
  <2>5. mode # "down" /\ ~faulty
    <3>1. ~New
      BY DEF New, disk
    <3>2. CASE Works
      BY <3>2 DEF Works
    <3>3. CASE Started
      BY <3>3 DEF Started
    <3>4. CASE UNCHANGED vars
      BY <3>4 DEF vars
    <3> QED BY <3>1, <3>2, <3>3, <3>4, ModeSteps DEF Stops
  <2> QED BY <2>1, <2>2, <2>3, <2>4, <2>5 DEF WaitingIsKnown
<1>2. CASE Known' \subseteq Known /\ dependants' = dependants
  BY <1>1, <1>2 DEF Known
<1>3. ASSUME NEW x \in Jobs, Learns(x) PROVE j \in dependants'[d]
  <2>1. j \in Known \/ j = x
    BY <1>3 DEF Learns, Known
  <2>2. /\ \A y \in Jobs : dependants[y] \subseteq dependants'[y]
        /\ j = x => dependants' = AddDependant(db', j)
    BY <1>3 DEF Learns, MaybeEnqueue, AddDependant
  <2>3. CASE j = x
    BY <1>0, <2>2, <2>3 DEF AddDependant
  <2> QED BY <1>0, <1>1, <2>1, <2>2, <2>3
<1>4. ASSUME NEW x \in Jobs, x \in DOMAIN db, db'[x].FinishedAt, db'[x].StartedAt,
             Known' \subseteq Known \cup {x}, dependants' = [dependants EXCEPT ![x] = {}]
      PROVE  j \in dependants'[d]
  <2>1. d # x /\ j # x
    BY <1>4
  <2>2. j \in Known
    BY <1>4, <2>1 DEF Known
  <2> QED BY <1>0, <1>1, <1>4, <2>1, <2>2 DEF TypeOK
<1>5. ~Stops
  BY DEF Stops
<1> QED BY <1>2, <1>3, <1>4, <1>5, KnownSteps

\* A queued job stays on its way until it is started, canceled or lost to a fault.
LEMMA QueuedStays ==
    ASSUME TypeOK, DownIsEmpty, LoadingWhenStarting, QueuedIsReady, DependantsWait, [Next]_vars,
           mode' # "down", ~faulty', NEW k \in DOMAIN db, Queued(k),
           ~db'[k].StartedAt, ~db'[k].Canceled
    PROVE  Queued(k)'
<1>1. CASE Rests
  BY <1>1 DEF Rests, Queued
<1>2. CASE Fills
  BY <1>2 DEF Fills, Queued
<1>3. ~Stops
  BY DEF Stops
<1>4. ASSUME NEW j \in Jobs, Send(j) PROVE Queued(k)'
  <2> DEFINE c == db[j].Type
  <2>1. /\ c \in Types /\ j \in sending /\ j \in DOMAIN db
        /\ pending' = [pending EXCEPT ![c] = Append(pending[c], j)]
        /\ sending' = sending \ {j} /\ got' = got
        /\ pending \in [Types -> Seq(DOMAIN db)]
    BY <1>4 DEF Send, TypeOK, Document, callers
  <2> HIDE DEF c
  <2>2. /\ \A t \in Types : Contents(pending[t]) \subseteq Contents(pending'[t])
        /\ j \in Contents(pending'[c])
    BY <2>1, AppendContents
  <2> QED BY <2>1, <2>2 DEF Queued
<1>5. ASSUME NEW d \in Dequeuers, NEW c \in Types, Receive(d, c) PROVE Queued(k)'
  <2>1. /\ pending \in [Types -> Seq(DOMAIN db)] /\ pending[c] # <<>>
        /\ pending' = [pending EXCEPT ![c] = Tail(pending[c])]
        /\ got \in [Dequeuers -> DOMAIN db \cup {Nil}]
        /\ got' = [got EXCEPT ![d] = Head(pending[c])]
        /\ got[d] = Nil /\ sending' = sending
    BY <1>5 DEF Receive, Waiting, TypeOK
  <2>2. /\ \A t \in Types : t # c => pending'[t] = pending[t]
        /\ Contents(pending[c]) = Contents(pending'[c]) \cup {Head(pending[c])}
    BY <2>1, TailContents
  <2>3. /\ got'[d] = Head(pending[c])
        /\ \A e \in Dequeuers : e # d => got'[e] = got[e]
        /\ k # Nil
    BY <2>1, QueueAssumption DEF TypeOK
  <2> QED BY <2>1, <2>2, <2>3 DEF Queued
<1>6. ASSUME NEW d \in Dequeuers, Drops(d) PROVE Queued(k)'
  <2>1. got[d] # k
    BY <1>6 DEF Drops
  <2>2. \A e \in Dequeuers : e # d => got'[e] = got[e]
    BY <1>6 DEF Drops, TypeOK
  <2> QED BY <1>6, <2>1, <2>2 DEF Drops, Queued
<1> QED BY <1>1, <1>2, <1>3, <1>4, <1>5, <1>6, QueueSteps

\* Only FinishJob finishes a job; it sends the dependants that became ready.
LEMMA NewlyFinished ==
    ASSUME TypeOK, [Next]_vars, ~faulty', NEW d \in DOMAIN db,
           ~db[d].FinishedAt, db'[d].FinishedAt
    PROVE  sending' = {k \in dependants[d] : Enqueueable(db', k)}
<1>0. \A j \in DOMAIN db : db[j] \in Document
  BY DEF TypeOK
<1>1. ASSUME NEW j \in Jobs, NEW type \in Types, NEW deps \in SUBSET Jobs, Creates(j, type, deps)
      PROVE  FALSE
  <2>1. Keeps(j) /\ d # j
    BY <1>1, WriteNew DEF Creates
  <2> QED BY <2>1 DEF Keeps
<1>2. ASSUME NEW e \in Dequeuers, NEW token \in Tokens, Starts(e, token) PROVE FALSE
  <2>1. /\ db'[got[e]] = StartedWith(db[got[e]], token)
        /\ Keeps(got[e])
        /\ got[e] \in DOMAIN db
    BY <1>2, WriteStarted DEF Starts
  <2> QED BY <1>0, <2>1, StartedDocument DEF Keeps
<1>3. ASSUME NEW j \in Jobs, NEW result \in Results, Finishes(j, result)
      PROVE  sending' = {k \in dependants[d] : Enqueueable(db', k)}
  <2>1. Keeps(j) /\ j \in DOMAIN db
    BY <1>3, WriteFinished DEF Finishes
  <2>2. j = d
    BY <2>1 DEF Keeps
  <2> QED BY <1>3, <2>2 DEF Finishes
<1>4. ASSUME NEW j \in Jobs, Cancels(j) PROVE FALSE
  <2>1. /\ db'[j] = AsCanceled(db[j])
        /\ Keeps(j)
        /\ j \in DOMAIN db
    BY <1>4, WriteCanceled DEF Cancels
  <2> QED BY <1>0, <2>1, CanceledDocument DEF Keeps
<1>5. db' # db
  OBVIOUS
<1> QED BY <1>1, <1>2, <1>3, <1>4, <1>5, DocumentSteps

\* A job that becomes ready is sent in the same step.
LEMMA NoLostJobStep ==
    ASSUME TypeOK, DownIsEmpty, LoadingWhenStarting, DependenciesExist, QueuedIsReady,
           DependantsWait, WaitingIsKnown, NoLostJob, [Next]_vars
    PROVE  NoLostJob'
<1> SUFFICES ASSUME mode' # "down", ~faulty', NEW j \in DOMAIN db' \ loading',
                    Enqueueable(db', j), ~db'[j].Canceled
             PROVE  Queued(j)'
  BY DEF NoLostJob, Enqueueable, DepsFinished
<1>1. ASSUME j \in Known PROVE Queued(j)'
  <2>1. j \in DOMAIN db \ loading /\ ~db'[j].StartedAt
    BY <1>1 DEF Known, Enqueueable
  <2>2. mode # "down" /\ ~faulty
    <3>1. CASE New
      BY <2>1, <3>1 DEF New, disk
    <3>2. CASE Works
      BY <3>2 DEF Works
    <3>3. CASE Started
      BY <3>3 DEF Started
    <3>4. CASE UNCHANGED vars
      BY <3>4 DEF vars
    <3> QED BY <3>1, <3>2, <3>3, <3>4, ModeSteps DEF Stops
  <2>3. ~db[j].StartedAt /\ ~db[j].Canceled /\ db'[j].Dependencies = db[j].Dependencies
    BY <2>1, DocumentsGrow
  <2>4. CASE DepsFinished(db, j)
    <3>1. Queued(j)
      BY <2>1, <2>2, <2>3, <2>4 DEF NoLostJob, Enqueueable
    <3> QED BY <2>1, <3>1, QueuedStays
  <2>5. CASE ~DepsFinished(db, j)
    <3>1. PICK d \in db[j].Dependencies : ~db[d].FinishedAt
      BY <2>5 DEF DepsFinished
    <3>2. d \in DOMAIN db /\ db'[d].FinishedAt
      BY <2>1, <2>3, <3>1 DEF DependenciesExist, Enqueueable, DepsFinished
    <3>3. j \in dependants[d]
      BY <2>1, <2>2, <2>3, <2>5, <3>1 DEF WaitingIsKnown
    <3>4. j \in sending'
      BY <3>1, <3>2, <3>3, NewlyFinished
    <3> QED BY <3>4 DEF Queued
  <2> QED BY <2>4, <2>5
<1>2. ASSUME NEW x \in Jobs, Learns(x) PROVE Queued(j)'
  <2>1. j \in Known \/ j = x
    BY <1>2 DEF Learns, Known
  <2>2. j = x => j \in sending'
    BY <1>2 DEF Learns, MaybeEnqueue
  <2> QED BY <1>1, <2>1, <2>2 DEF Queued
<1>3. ASSUME NEW x \in Jobs, db'[x].StartedAt, Known' \subseteq Known \cup {x} PROVE Queued(j)'
  <2>1. j \in Known
    BY <1>3 DEF Known, Enqueueable
  <2> QED BY <1>1, <2>1
<1>4. ASSUME Known' \subseteq Known PROVE Queued(j)'
  BY <1>1, <1>4 DEF Known
<1>5. ~Stops
  BY DEF Stops
<1> QED BY <1>2, <1>3, <1>4, <1>5, KnownSteps

-----------------------------------------------------------------------------
(***************************************************************************)
(* The tokens.  A step issues, forgets, or restores at most one.           *)
(***************************************************************************)
TokenInv == TokensIssued /\ TokenLeadsToItsJob /\ TrackedOnceLoaded

\* Steps that leave the token map and every running job alone.
Undisturbed ==
    /\ jobIdByToken' = jobIdByToken
    /\ issued' = issued
    /\ faulty => faulty'
    /\ \A t \in Tokens : heartbeats[t] # "none" => heartbeats'[t] # "none"
    /\ \A j \in DOMAIN db : j \in DOMAIN db' /\ db'[j] = db[j]
    /\ \A j \in Known' : (j \in DOMAIN db /\ Running(j)) => j \in Known
    /\ \A j \in DOMAIN db' \ DOMAIN db : ~db'[j].StartedAt
    /\ mode = "down" => mode' = "down" \/ Known' = {}

\* Steps that leave tokens and running jobs alone keep what is known about them.
LEMMA UndisturbedTokens ==
    ASSUME TypeOK, TokenInv, Undisturbed
    PROVE  TokenInv'
<1>1. TokensIssued'
  BY DEF TokenInv, TokensIssued, Undisturbed
<1>2. TokenLeadsToItsJob'
  <2> SUFFICES ASSUME ~faulty', NEW token \in Tokens, jobIdByToken'[token] # Nil,
                      NEW j, j = jobIdByToken'[token]
               PROVE  db'[j].Token = token /\ db'[j].StartedAt /\ ~db'[j].FinishedAt
    BY DEF TokenLeadsToItsJob
  <2>1. j = jobIdByToken[token] /\ j \in DOMAIN db /\ ~faulty
    BY DEF Undisturbed, TypeOK
  <2> QED BY <2>1 DEF TokenInv, TokenLeadsToItsJob, Undisturbed
<1>3. TrackedOnceLoaded'
  <2> SUFFICES ASSUME mode' # "down", ~faulty', NEW j \in DOMAIN db' \ loading', Running(j)'
               PROVE  /\ db'[j].Token # Nil
                      /\ jobIdByToken'[db'[j].Token] = j
                      /\ heartbeats'[db'[j].Token] # "none"
    BY DEF TrackedOnceLoaded
  <2>1. j \in DOMAIN db /\ db'[j] = db[j] /\ Running(j) /\ ~faulty
    BY DEF Undisturbed, Running
  <2>2. j \in Known /\ mode # "down"
    BY <2>1 DEF Undisturbed, Known
  <2>3. /\ db[j].Token # Nil
        /\ jobIdByToken[db[j].Token] = j
        /\ heartbeats[db[j].Token] # "none"
    BY <2>1, <2>2 DEF TokenInv, TrackedOnceLoaded, Known
  <2>4. db[j].Token \in Tokens
    BY <2>1, <2>3 DEF TypeOK, Document
  <2> QED BY <2>1, <2>3, <2>4 DEF Undisturbed
<1> QED BY <1>1, <1>2, <1>3 DEF TokenInv

\* A job starts under a token that was not issued before.
LEMMA StartTokens ==
    ASSUME TypeOK, TokensUnique, TokenInv, QueuedIsReady, OutcomesExclude,
           NEW d \in Dequeuers, NEW token \in Tokens, DequeueStart(d, token)
    PROVE  TokenInv'
<1> DEFINE k == got[d]
<1>1. /\ k \in DOMAIN db /\ ~db[k].Canceled /\ token \notin issued
      /\ issued' = issued \cup {token}
      /\ jobIdByToken' = [jobIdByToken EXCEPT ![token] = k]
      /\ heartbeats' = [heartbeats EXCEPT ![token] = "fresh"]
      /\ faulty' = faulty /\ mode' = mode /\ loading' = loading
      /\ db' = [db EXCEPT ![k] = StartedWith(@, token)]
  BY DEF DequeueStart, MayStart, Track, TypeOK
<1>2. ~db[k].StartedAt /\ ~db[k].FinishedAt /\ db[k] \in Document
  BY <1>1 DEF QueuedIsReady, Queued, Enqueueable, OutcomesExclude, TypeOK
<1> HIDE DEF k
<1>3. /\ DOMAIN db' = DOMAIN db
      /\ db'[k] = StartedWith(db[k], token)
      /\ Keeps(k)
  BY <1>1, WriteStarted
<1>4. /\ db'[k].Token = token /\ db'[k].StartedAt /\ ~db'[k].FinishedAt
  BY <1>2, <1>3, StartedDocument
<1>5. /\ jobIdByToken'[token] = k /\ heartbeats'[token] = "fresh"
      /\ \A t \in Tokens : t # token => /\ jobIdByToken'[t] = jobIdByToken[t]
                                        /\ heartbeats'[t] = heartbeats[t]
  BY <1>1 DEF TypeOK
<1>6. TokensIssued'
  BY <1>1, <1>5 DEF TokenInv, TokensIssued
<1>7. TokenLeadsToItsJob'
  <2> SUFFICES ASSUME ~faulty', NEW t \in Tokens, jobIdByToken'[t] # Nil,
                      NEW j, j = jobIdByToken'[t]
               PROVE  db'[j].Token = t /\ db'[j].StartedAt /\ ~db'[j].FinishedAt
    BY DEF TokenLeadsToItsJob
  <2>1. CASE t = token
    BY <1>4, <1>5, <2>1
  <2>2. CASE t # token
    <3>1. j = jobIdByToken[t] /\ j \in DOMAIN db /\ ~faulty
      BY <1>1, <1>5, <2>2 DEF TypeOK
    <3>2. db[j].Token = t /\ db[j].StartedAt /\ ~db[j].FinishedAt
      BY <3>1 DEF TokenInv, TokenLeadsToItsJob
    <3>3. j # k
      BY <1>2, <3>2
    <3> QED BY <1>3, <3>1, <3>2, <3>3 DEF Keeps
  <2> QED BY <2>1, <2>2
<1>8. TrackedOnceLoaded'
  <2> SUFFICES ASSUME mode' # "down", ~faulty', NEW j \in DOMAIN db' \ loading', Running(j)'
               PROVE  /\ db'[j].Token # Nil
                      /\ jobIdByToken'[db'[j].Token] = j
                      /\ heartbeats'[db'[j].Token] # "none"
    BY DEF TrackedOnceLoaded
  <2>1. CASE j = k
    BY <1>4, <1>5, <2>1, QueueAssumption
  <2>2. CASE j # k
    <3>1. j \in DOMAIN db /\ db'[j] = db[j] /\ Running(j)
      BY <1>3, <2>2 DEF Keeps, Running
    <3>2. /\ db[j].Token # Nil
          /\ jobIdByToken[db[j].Token] = j
          /\ heartbeats[db[j].Token] # "none"
      BY <1>1, <3>1 DEF TokenInv, TrackedOnceLoaded
    <3>3. db[j].Token \in Tokens /\ db[j].Token # token
      BY <1>1, <3>1, <3>2 DEF TypeOK, Document, TokensUnique
    <3> QED BY <1>5, <3>1, <3>2, <3>3
  <2> QED BY <2>1, <2>2
<1> QED BY <1>6, <1>7, <1>8 DEF TokenInv

\* The job whose token is forgotten is not running any more.
LEMMA EndTokens ==
    ASSUME TypeOK, TokensUnique, TokenInv, NEW k \in DOMAIN db,
           DOMAIN db' = DOMAIN db, Keeps(k), db'[k].FinishedAt \/ db'[k].Canceled,
           db'[k].FinishedAt => jobIdByToken' = [t \in Tokens |-> IF t = db[k].Token THEN Nil
                                                                  ELSE jobIdByToken[t]],
           ~db'[k].FinishedAt => /\ jobIdByToken' = jobIdByToken
                                 /\ db'[k].Token = db[k].Token /\ db'[k].StartedAt,
           heartbeats' = [t \in Tokens |-> IF t = db[k].Token THEN "none" ELSE heartbeats[t]],
           issued' = issued, faulty => faulty', mode' = mode, loading \subseteq loading' \cup {k}
    PROVE  TokenInv'
<1>1. TokensIssued'
  BY DEF TokenInv, TokensIssued
<1>2. TokenLeadsToItsJob'
  <2> SUFFICES ASSUME ~faulty', NEW t \in Tokens, jobIdByToken'[t] # Nil,
                      NEW j, j = jobIdByToken'[t]
               PROVE  db'[j].Token = t /\ db'[j].StartedAt /\ ~db'[j].FinishedAt
    BY DEF TokenLeadsToItsJob
  <2>1. j = jobIdByToken[t] /\ j \in DOMAIN db
    BY DEF TypeOK
  <2>2. db[j].Token = t /\ db[j].StartedAt /\ ~db[j].FinishedAt
    BY <2>1 DEF TokenInv, TokenLeadsToItsJob
  <2>3. CASE j = k
    BY <2>2, <2>3
  <2>4. CASE j # k
    BY <2>1, <2>2, <2>4 DEF Keeps
  <2> QED BY <2>3, <2>4
<1>3. TrackedOnceLoaded'
  <2> SUFFICES ASSUME mode' # "down", ~faulty', NEW j \in DOMAIN db' \ loading', Running(j)'
               PROVE  /\ db'[j].Token # Nil
                      /\ jobIdByToken'[db'[j].Token] = j
                      /\ heartbeats'[db'[j].Token] # "none"
    BY DEF TrackedOnceLoaded
  <2>1. j # k
    BY DEF Running
  <2>2. j \in DOMAIN db \ loading /\ db'[j] = db[j] /\ Running(j)
    BY <2>1 DEF Keeps, Running
  <2>3. /\ db[j].Token # Nil
        /\ jobIdByToken[db[j].Token] = j
        /\ heartbeats[db[j].Token] # "none"
    BY <2>2 DEF TokenInv, TrackedOnceLoaded
  <2>4. db[j].Token \in Tokens /\ db[j].Token # db[k].Token
    BY <2>1, <2>2, <2>3 DEF TypeOK, Document, TokensUnique
  <2> QED BY <2>2, <2>3, <2>4
<1> QED BY <1>1, <1>2, <1>3 DEF TokenInv

\* New() restores the token of a running job.
LEMMA RestoreTokens ==
    ASSUME TypeOK, TokensUnique, TokenInv, NEW k \in Jobs, LoadRunning(k)
    PROVE  TokenInv'
<1> DEFINE token == db[k].Token
<1>1. /\ k \in DOMAIN db /\ Running(k) /\ token \in Tokens /\ token # Nil
      /\ jobIdByToken' = [jobIdByToken EXCEPT ![token] = k]
      /\ heartbeats' = [heartbeats EXCEPT ![token] = "fresh"]
      /\ db' = db /\ issued' = issued /\ faulty' = faulty
      /\ mode' = mode /\ loading' = loading \ {k}
  BY DEF LoadRunning, Loads, Track, disk, TypeOK, Document
<1>2. /\ jobIdByToken'[token] = k /\ heartbeats'[token] = "fresh"
      /\ \A t \in Tokens : t # token => /\ jobIdByToken'[t] = jobIdByToken[t]
                                        /\ heartbeats'[t] = heartbeats[t]
  BY <1>1 DEF TypeOK
<1>3. token \in issued
  BY <1>1 DEF TokensUnique
<1>4. db[k].StartedAt /\ ~db[k].FinishedAt
  BY <1>1 DEF Running
<1>5. TokensIssued'
  <2> HIDE DEF token
  <2> QED BY <1>1, <1>2, <1>3 DEF TokenInv, TokensIssued
<1>6. TokenLeadsToItsJob'
  BY <1>1, <1>2, <1>4 DEF TokenInv, TokenLeadsToItsJob
<1>7. TrackedOnceLoaded'
  <2> SUFFICES ASSUME mode' # "down", ~faulty', NEW j \in DOMAIN db' \ loading', Running(j)'
               PROVE  /\ db'[j].Token # Nil
                      /\ jobIdByToken'[db'[j].Token] = j
                      /\ heartbeats'[db'[j].Token] # "none"
    BY DEF TrackedOnceLoaded
  <2>1. CASE j = k
    BY <1>1, <1>2, <2>1
  <2>2. CASE j # k
    <3>1. j \in DOMAIN db \ loading /\ Running(j)
      BY <1>1, <2>2 DEF Running
    <3>2. /\ db[j].Token # Nil
          /\ jobIdByToken[db[j].Token] = j
          /\ heartbeats[db[j].Token] # "none"
      BY <1>1, <3>1 DEF TokenInv, TrackedOnceLoaded
    <3>3. db[j].Token \in Tokens /\ db[j].Token # token
      BY <1>1, <2>2, <3>1, <3>2 DEF TypeOK, Document, TokensUnique
    <3> QED BY <1>1, <1>2, <3>2, <3>3
  <2> QED BY <2>1, <2>2
<1> QED BY <1>5, <1>6, <1>7 DEF TokenInv

\* Tokens lead to running jobs after every step.
LEMMA TokenStep ==
    ASSUME TypeOK, DownIsEmpty, LoadingWhenStarting, OutcomesExclude, QueuedIsReady, TokensUnique,
           TokenInv, [Next]_vars
    PROVE  TokenInv'
<1> USE DEF disk, memory
<1>1. ASSUME NEW j \in Jobs, NEW type \in Types, NEW deps \in SUBSET Jobs,
             Enqueue(j, type, deps) \/ EnqueueFault(j, type, deps)
      PROVE  Undisturbed
  <2>1. /\ DOMAIN db' = DOMAIN db \cup {j} /\ j \notin DOMAIN db
        /\ ~db'[j].StartedAt
        /\ Keeps(j)
    BY <1>1, WriteNew DEF Enqueue, EnqueueFault, DiskFault
  <2>2. /\ jobIdByToken' = jobIdByToken /\ heartbeats' = heartbeats /\ issued' = issued
        /\ loading' = loading /\ mode' = mode /\ (faulty => faulty')
    BY <1>1 DEF Enqueue, EnqueueFault, DiskFault
  <2> QED BY <2>1, <2>2 DEF Undisturbed, Keeps, Known
<1>2. ASSUME NEW j \in Jobs, NEW result \in Results,
             \/ FinishJob(j, result) \/ FinishReadFault(j, result)
             \/ LoadTokenless(j) /\ result = Null
      PROVE  TokenInv'
  <2>1. /\ j \in DOMAIN db
        /\ db' = [db EXCEPT ![j] = FinishedWith(@, result)]
        /\ Untrack(db[j].Token)
        /\ issued' = issued /\ mode' = mode
        /\ faulty => faulty'
        /\ loading \subseteq loading' \cup {j}
    BY <1>2 DEF FinishJob, FinishReadFault, LoadTokenless, Loads, Finish, DiskFault, TypeOK
  <2>2. /\ DOMAIN db' = DOMAIN db
        /\ db'[j] = FinishedWith(db[j], result)
        /\ Keeps(j)
    BY <2>1, WriteFinished
  <2>3. db'[j].FinishedAt
    BY <2>1, <2>2, FinishedDocument DEF TypeOK
  <2> QED BY <2>1, <2>2, <2>3, EndTokens DEF Untrack
<1>3. ASSUME NEW j \in Jobs, CancelJob(j) PROVE TokenInv'
  <2>1. /\ j \in DOMAIN db /\ db[j] \in Document /\ ~db[j].FinishedAt
        /\ db' = [db EXCEPT ![j] = AsCanceled(@)]
        /\ heartbeats' = [t \in Tokens |-> IF t = db[j].Token THEN "none" ELSE heartbeats[t]]
        /\ jobIdByToken' = jobIdByToken /\ issued' = issued /\ mode' = mode /\ faulty' = faulty
        /\ loading' = loading
    BY <1>3 DEF CancelJob, MayCancel, TypeOK
  <2>2. /\ DOMAIN db' = DOMAIN db
        /\ db'[j] = AsCanceled(db[j])
        /\ Keeps(j)
    BY <2>1, WriteCanceled
  <2>3. /\ db'[j].Canceled /\ ~db'[j].FinishedAt
        /\ db'[j].Token = db[j].Token /\ db'[j].StartedAt = db[j].StartedAt
    BY <2>1, <2>2, CanceledDocument
  <2>4. CASE db[j].StartedAt
    BY <2>1, <2>2, <2>3, <2>4, EndTokens
  <2>5. CASE ~db[j].StartedAt
    <3>1. db[j].Token = Nil
      BY <2>1, <2>5 DEF TokensUnique
    <3>2. heartbeats' = heartbeats
      BY <2>1, <3>1, QueueAssumption DEF TypeOK
    <3>3. TokensIssued'
      BY <2>1 DEF TokenInv, TokensIssued
    <3>4. TokenLeadsToItsJob'
      BY <2>1, <2>2, <2>5 DEF TokenInv, TokenLeadsToItsJob, Keeps, TypeOK
    <3>5. TrackedOnceLoaded'
      BY <2>1, <2>2, <2>3, <3>2 DEF TokenInv, TrackedOnceLoaded, Keeps, Running
    <3> QED BY <3>3, <3>4, <3>5 DEF TokenInv
  <2> QED BY <2>4, <2>5
<1>4. ASSUME NEW token \in Tokens, RefreshHeartbeat(token) \/ Age(token) PROVE Undisturbed
  BY <1>4 DEF RefreshHeartbeat, Age, Undisturbed, Known, TypeOK
<1>5. ASSUME NEW j \in Jobs, Send(j) PROVE Undisturbed
  BY <1>5 DEF Send, Undisturbed, Known
<1>6. ASSUME NEW d \in Dequeuers, NEW t \in Types, Receive(d, t) PROVE Undisturbed
  BY <1>6 DEF Receive, Undisturbed, Known
<1>7. ASSUME NEW d \in Dequeuers,
             \/ Dequeue(d) \/ DequeueSkip(d) \/ DequeueTimeout(d) \/ DequeueClosed(d)
             \/ DequeueReadFault(d)
      PROVE  Undisturbed
  BY <1>7 DEF Dequeue, DequeueSkip, DequeueTimeout, DequeueClosed, DequeueFails,
              DequeueReadFault, DiskFault, Undisturbed, Known
<1>8. ASSUME NEW j \in Jobs, LoadOther(j) PROVE Undisturbed
  BY <1>8 DEF LoadOther, Loads, Undisturbed, Known
<1>9. ASSUME New \/ Started \/ UNCHANGED vars PROVE Undisturbed
  BY <1>9 DEF New, Started, vars, Undisturbed, Known
<1>10. ASSUME NEW j \in Jobs, FinishWriteFault(j) \/ CancelFault(j) PROVE TokenInv'
  <2>1. /\ faulty' /\ issued' = issued
        /\ \A t \in Tokens : jobIdByToken'[t] # Nil => jobIdByToken[t] # Nil
    BY <1>10 DEF FinishWriteFault, CancelFault, DiskFault, Untrack
  <2> QED BY <2>1 DEF TokenInv, TokensIssued, TokenLeadsToItsJob, TrackedOnceLoaded
<1>11. ASSUME NEW d \in Dequeuers, NEW token \in Tokens, DequeueWriteFault(d, token)
       PROVE  TokenInv'
  <2>1. /\ faulty' /\ issued' = issued \cup {token}
        /\ \A t \in Tokens : t # token => jobIdByToken'[t] = jobIdByToken[t]
    BY <1>11 DEF DequeueWriteFault, DiskFault, Track, TypeOK
  <2> QED BY <2>1 DEF TokenInv, TokensIssued, TokenLeadsToItsJob, TrackedOnceLoaded
<1>12. ASSUME LoadLitter \/ Crash \/ TornWrite PROVE TokenInv'
  <2>1. mode' = "down" /\ \A t \in Tokens : jobIdByToken'[t] = Nil
    BY <1>12 DEF LoadLitter, Crash, TornWrite, Forget
  <2> QED BY <2>1 DEF TokenInv, TokensIssued, TokenLeadsToItsJob, TrackedOnceLoaded
<1>13. ASSUME Undisturbed PROVE TokenInv'
  BY <1>13, UndisturbedTokens
<1>14. ASSUME NEW j \in Jobs, LoadRunning(j) PROVE TokenInv'
  BY <1>14, RestoreTokens
<1>15. ASSUME NEW d \in Dequeuers, NEW token \in Tokens, DequeueStart(d, token) PROVE TokenInv'
  BY <1>15, StartTokens
<1>16. ASSUME NEW j \in Jobs, LoadTokenless(j) PROVE TokenInv'
  BY <1>2, <1>16, QueueAssumption
<1> QED
  BY <1>1, <1>2, <1>3, <1>4, <1>5, <1>6, <1>7, <1>8, <1>9, <1>10, <1>11, <1>12, <1>13, <1>14,
     <1>15, <1>16
  DEF Next, Startup, Requests, Polling, Faulting

-----------------------------------------------------------------------------
\* The invariant holds of the directory an older version left, before New().
LEMMA InvInit == Init => IInv
<1> SUFFICES ASSUME Init PROVE IInv
  OBVIOUS
<1>1. TypeOK
  BY TypeInit
<1>2. \A j \in DOMAIN db : db[j] = StartedWith(NewDocument(LegacyType, {}), Nil)
  BY DEF Init
<1>3. NewDocument(LegacyType, {}) \in Document
  BY NewDocumentType, QueueAssumption
<1>4. \A j \in DOMAIN db : /\ db[j].Dependencies = {} /\ db[j].StartedAt /\ ~db[j].FinishedAt
                          /\ db[j].Token = Nil
  <2>1. /\ NewDocument(LegacyType, {}).Dependencies = {}
        /\ ~NewDocument(LegacyType, {}).FinishedAt
    BY DEF NewDocument
  <2> HIDE DEF NewDocument
  <2> QED BY <1>2, <1>3, <2>1, StartedDocument
<1>5. /\ \A t \in Types : pending[t] = <<>> /\ Contents(pending[t]) = {}
      /\ sending = {} /\ loading = {} /\ mode = "down"
      /\ \A d \in Dequeuers : got[d] = Nil
      /\ \A j \in Jobs : dependants[j] = {}
      /\ \A t \in Tokens : jobIdByToken[t] = Nil
  BY DEF Init, Contents
<1>6. DependenciesExist /\ OutcomesExclude /\ StartsAfterDependencies /\ TokensUnique
  BY <1>4 DEF DependenciesExist, OutcomesExclude, StartsAfterDependencies, TokensUnique
<1>7. LoadingWhenStarting /\ DownIsEmpty
  BY DEF Init, LoadingWhenStarting, DownIsEmpty
<1>8. QueuedIsReady
  BY <1>1, <1>5, QueueAssumption DEF QueuedIsReady, Queued, TypeOK
<1>9. QueuedOnce
  BY <1>5 DEF QueuedOnce
<1>10. DependantsWait /\ WaitingIsKnown /\ NoLostJob
  BY <1>5 DEF DependantsWait, WaitingIsKnown, NoLostJob
<1>11. TokensIssued /\ TokenLeadsToItsJob /\ TrackedOnceLoaded
  BY <1>5 DEF TokensIssued, TokenLeadsToItsJob, TrackedOnceLoaded
<1> QED BY <1>1, <1>6, <1>7, <1>8, <1>9, <1>10, <1>11 DEF IInv

\* Every operation, every step of New() and every fault keeps the invariant.
LEMMA InvStep == IInv /\ [Next]_vars => IInv'
<1> SUFFICES ASSUME IInv, [Next]_vars PROVE IInv'
  OBVIOUS
<1>1. TypeOK'
  BY TypeStep DEF IInv
<1>2. DependenciesExist' /\ OutcomesExclude' /\ TokensUnique'
  BY DependenciesStep, OutcomesStep, TokensUniqueStep DEF IInv
<1>3. LoadingWhenStarting' /\ DownIsEmpty'
  BY LoadingStep, DownStep DEF IInv
<1>4. StartsAfterDependencies'
  BY StartsAfterStep DEF IInv
<1>5. QueuedIsReady' /\ QueuedOnce'
  BY QueuedIsReadyStep, QueuedOnceStep DEF IInv
<1>6. DependantsWait' /\ WaitingIsKnown' /\ NoLostJob'
  BY DependantsWaitStep, WaitingIsKnownStep, NoLostJobStep DEF IInv
<1>7. TokenInv'
  BY TokenStep DEF IInv, TokenInv
<1> QED BY <1>1, <1>2, <1>3, <1>4, <1>5, <1>6, <1>7 DEF IInv, TokenInv

\* The invariant holds in every reachable state.
LEMMA Invariant == Spec => []IInv
  BY InvInit, InvStep, PTL DEF Spec

(***************************************************************************)
(* A job starts only after all its dependencies, for any graph of them and *)
(* any number of restarts.                                                 *)
(***************************************************************************)
THEOREM Dependencies == Spec => []StartsAfterDependencies
<1>1. IInv => StartsAfterDependencies
  BY DEF IInv
<1> QED BY <1>1, Invariant, PTL

(***************************************************************************)
(* No job gets lost on its way to a worker, unless the disk failed since   *)
(* the process started; whatever a fault lost, the next start repairs.     *)
(***************************************************************************)
THEOREM NothingLost == Spec => []NoLostJob
<1>1. IInv => NoLostJob
  BY DEF IInv
<1> QED BY <1>1, Invariant, PTL

(***************************************************************************)
(* No job is on its way to two workers.                                    *)
(***************************************************************************)
THEOREM NothingTwice == Spec => []QueuedOnce
<1>1. IInv => QueuedOnce
  BY DEF IInv
<1> QED BY <1>1, Invariant, PTL

(***************************************************************************)
(* A running job is known by its token and watched by a heartbeat.         *)
(***************************************************************************)
THEOREM Tracked == Spec => []RunningIsTracked
<1>1. IInv => RunningIsTracked
  BY DEF IInv, TrackedOnceLoaded, LoadingWhenStarting, RunningIsTracked
<1> QED BY <1>1, Invariant, PTL

(***************************************************************************)
(* A token leads to the job it was issued for, and only until that ends.   *)
(***************************************************************************)
THEOREM TokensLead == Spec => []TokenLeadsToItsJob
<1>1. IInv => TokenLeadsToItsJob
  BY DEF IInv
<1> QED BY <1>1, Invariant, PTL

-----------------------------------------------------------------------------
(***************************************************************************)
(* Action properties.                                                      *)
(***************************************************************************)
\* A started job keeps its token, and a finished or canceled one its outcome, through every step.
LEMMA FinalStep ==
    ASSUME IInv, [Next]_vars, NEW j \in DOMAIN db
    PROVE  /\ db[j].StartedAt => db'[j].Token = db[j].Token
           /\ db[j].FinishedAt => db'[j] = db[j]
           /\ db[j].Canceled => db'[j].Canceled /\ ~db'[j].FinishedAt
<1> DEFINE Goal == /\ db[j].StartedAt => db'[j].Token = db[j].Token
                   /\ db[j].FinishedAt => db'[j] = db[j]
                   /\ db[j].Canceled => db'[j].Canceled /\ ~db'[j].FinishedAt
<1>0. /\ TypeOK
      /\ \A k \in DOMAIN db : /\ db[k] \in Document
                              /\ db[k].FinishedAt => db[k].StartedAt /\ ~db[k].Canceled
  BY DEF IInv, TypeOK, OutcomesExclude
<1>1. ASSUME db'[j] = db[j] PROVE Goal
  BY <1>0, <1>1
<1>2. ASSUME NEW k \in Jobs, NEW type \in Types, NEW deps \in SUBSET Jobs, Creates(k, type, deps)
      PROVE  Goal
  <2>1. Keeps(k) /\ k # j
    BY <1>0, <1>2, WriteNew DEF Creates
  <2> QED BY <1>1, <2>1 DEF Keeps
<1>3. ASSUME NEW d \in Dequeuers, NEW token \in Tokens, Starts(d, token) PROVE Goal
  <2>1. Keeps(got[d]) /\ got[d] \in DOMAIN db /\ ~db[got[d]].Canceled
    BY <1>0, <1>3, WriteStarted DEF Starts
  <2>2. ~db[got[d]].StartedAt
    BY <2>1 DEF IInv, QueuedIsReady, Queued, Enqueueable
  <2>3. CASE j = got[d]
    BY <1>0, <2>1, <2>2, <2>3
  <2>4. CASE j # got[d]
    BY <1>1, <2>1, <2>4 DEF Keeps
  <2> QED BY <2>3, <2>4
<1>4. ASSUME NEW k \in Jobs, NEW result \in Results, Finishes(k, result) PROVE Goal
  <2>1. /\ db'[k] = FinishedWith(db[k], result) /\ Keeps(k) /\ k \in DOMAIN db /\ Running(k)
    BY <1>0, <1>4, WriteFinished DEF Finishes
  <2>2. CASE j = k
    BY <1>0, <2>1, <2>2, FinishedDocument DEF Running
  <2>3. CASE j # k
    BY <1>1, <2>1, <2>3 DEF Keeps
  <2> QED BY <2>2, <2>3
<1>5. ASSUME NEW k \in Jobs, Cancels(k) PROVE Goal
  <2>1. /\ db'[k] = AsCanceled(db[k]) /\ Keeps(k) /\ k \in DOMAIN db /\ ~db[k].FinishedAt
    BY <1>0, <1>5, WriteCanceled DEF Cancels
  <2>2. CASE j = k
    BY <1>0, <2>1, <2>2, CanceledDocument
  <2>3. CASE j # k
    BY <1>1, <2>1, <2>3 DEF Keeps
  <2> QED BY <2>2, <2>3
<1>6. Goal
  <2> HIDE DEF Goal
  <2> QED BY <1>0, <1>1, <1>2, <1>3, <1>4, <1>5, DocumentSteps
<1> QED BY <1>6

(***************************************************************************)
(* Dequeue hands a job out once in its life.                               *)
(***************************************************************************)
THEOREM HandsOutOnce == Spec => HandedOutOnce
<1>1. IInv /\ [Next]_vars =>
        [\A j \in DOMAIN db : db[j].StartedAt => db'[j].Token = db[j].Token]_vars
  BY FinalStep
<1> QED BY <1>1, Invariant, PTL DEF Spec, HandedOutOnce

(***************************************************************************)
(* What FinishJob or CancelJob decided stays decided.                      *)
(***************************************************************************)
THEOREM OutcomesFinal == Spec => OutcomeIsFinal
<1>1. IInv /\ [Next]_vars =>
        [\A j \in DOMAIN db :
            /\ db[j].FinishedAt => db'[j] = db[j]
            /\ db[j].Canceled => db'[j].Canceled /\ ~db'[j].FinishedAt]_vars
  BY FinalStep
<1> QED BY <1>1, Invariant, PTL DEF Spec, OutcomeIsFinal

-----------------------------------------------------------------------------
(***************************************************************************)
(* Refinement.                                                             *)
(***************************************************************************)
\* Jobs an older version left running are running jobs of the abstract queue.
LEMMA AbstractInit == Init => Abstract!Init
<1> SUFFICES ASSUME Init PROVE Abstract!Init
  OBVIOUS
<1>1. NewDocument(LegacyType, {}) \in Document
  BY NewDocumentType, QueueAssumption
<1>2. \A j \in DOMAIN db : /\ db[j] = StartedWith(NewDocument(LegacyType, {}), Nil)
                          /\ db[j] \in Document
  BY <1>1, StartedDocument DEF Init
<1>3. \A j \in DOMAIN db : db[j].StartedAt /\ ~db[j].FinishedAt /\ ~db[j].Canceled
  <2>1. ~NewDocument(LegacyType, {}).FinishedAt /\ ~NewDocument(LegacyType, {}).Canceled
    BY DEF NewDocument
  <2> QED BY <1>1, <1>2, <2>1, StartedDocument
<1>4. \A j \in DOMAIN db : status(db[j]) = "running"
  BY <1>3 DEF status
<1>5. \A j \in DOMAIN db : AbstractJob(db[j]) \in {a \in Abstract!Job : a.status = "running"}
  BY <1>2, <1>4 DEF AbstractJob, Abstract!Job, Document
<1>6. AbstractJobs \in [DOMAIN db -> {a \in Abstract!Job : a.status = "running"}]
  BY <1>5 DEF AbstractJobs
<1>7. DOMAIN db \in SUBSET Jobs
  BY QueueAssumption DEF Init
<1> QED BY <1>6, <1>7 DEF Abstract!Init

\* Every step is one of the abstract queue's operations, or none.
LEMMA AbstractStep == IInv /\ [Next]_vars => [Abstract!Next]_AbstractJobs
<1> SUFFICES ASSUME IInv, [Next]_vars PROVE Abstract!Next \/ AbstractJobs' = AbstractJobs
  OBVIOUS
<1>0. /\ TypeOK
      /\ \A k \in DOMAIN db : db[k] \in Document
  BY DEF IInv, TypeOK
<1>1. /\ DOMAIN AbstractJobs = DOMAIN db
      /\ \A k \in DOMAIN db : AbstractJobs[k] = AbstractJob(db[k])
      /\ AbstractJobs' = [k \in DOMAIN db' |-> AbstractJob(db'[k])]
  BY DEF AbstractJobs
<1>2. \A doc : /\ AbstractJob(doc).status = status(doc)
              /\ AbstractJob(doc).Token = doc.Token
              /\ AbstractJob(doc).Dependencies = doc.Dependencies
  BY DEF AbstractJob
<1>3. ASSUME NEW j \in Jobs, NEW type \in Types, NEW deps \in SUBSET Jobs, Creates(j, type, deps)
      PROVE  Abstract!Next
  <2>1. /\ DOMAIN db' = DOMAIN db \cup {j}
        /\ db'[j] = NewDocument(type, deps)
        /\ Keeps(j)
        /\ j \notin DOMAIN db /\ deps \subseteq DOMAIN db
    BY <1>0, <1>3, WriteNew DEF Creates
  <2>2. AbstractJob(db'[j]) = [Type |-> type, Dependencies |-> deps, status |-> "queued",
                               Token |-> Nil, Result |-> Nil]
    BY <2>1 DEF AbstractJob, NewDocument, status
  <2>3. AbstractJobs' = [x \in DOMAIN AbstractJobs \cup {j} |->
                           IF x = j THEN AbstractJob(db'[j]) ELSE AbstractJobs[x]]
    BY <1>1, <2>1 DEF Keeps
  <2>4. Abstract!Enqueue(j, type, deps)
    BY <1>1, <2>1, <2>2, <2>3 DEF Abstract!Enqueue, Abstract!With
  <2> QED BY <2>4 DEF Abstract!Next
<1>4. ASSUME NEW d \in Dequeuers, NEW token \in Tokens, Starts(d, token) PROVE Abstract!Next
  <2> DEFINE k == got[d]
  <2>1. /\ DOMAIN db' = DOMAIN db
        /\ db'[k] = StartedWith(db[k], token)
        /\ Keeps(k)
        /\ k \in DOMAIN db /\ ~db[k].Canceled /\ token \notin issued
    BY <1>0, <1>4, WriteStarted DEF Starts
  <2>2. Enqueueable(db, k)
    BY <2>1 DEF IInv, QueuedIsReady, Queued
  <2> HIDE DEF k
  <2>3. /\ ~db[k].StartedAt /\ ~db[k].FinishedAt /\ DepsFinished(db, k) /\ k \in Jobs
        /\ db[k].Dependencies \subseteq DOMAIN db
    BY <2>1, <2>2 DEF Enqueueable, IInv, OutcomesExclude, TypeOK, DependenciesExist
  <2>4. /\ status(db[k]) = "queued"
        /\ \A x \in db[k].Dependencies : status(db[x]) = "finished"
    BY <2>1, <2>3 DEF status, DepsFinished
  <2>5. status(db'[k]) = "running"
    BY <1>0, <2>1, <2>3, StartedDocument DEF status
  <2>6. AbstractJob(db'[k]) = [AbstractJob(db[k]) EXCEPT !.status = "running", !.Token = token]
    <3>1. /\ db'[k].Type = db[k].Type /\ db'[k].Dependencies = db[k].Dependencies
          /\ db'[k].Token = token /\ db'[k].Result = db[k].Result
      BY <1>0, <2>1, StartedDocument
    <3>2. AbstractJob(db'[k]) = [Type |-> db[k].Type, Dependencies |-> db[k].Dependencies,
                                 status |-> "running", Token |-> token,
                                 Result |-> db[k].Result]
      BY <2>5, <3>1 DEF AbstractJob
    <3>3. [AbstractJob(db[k]) EXCEPT !.status = "running"]
            = [Type |-> db[k].Type, Dependencies |-> db[k].Dependencies,
               status |-> "running", Token |-> db[k].Token, Result |-> db[k].Result]
      BY DEF AbstractJob
    <3>4. [[Type |-> db[k].Type, Dependencies |-> db[k].Dependencies,
            status |-> "running", Token |-> db[k].Token, Result |-> db[k].Result]
              EXCEPT !.Token = token]
            = [Type |-> db[k].Type, Dependencies |-> db[k].Dependencies,
               status |-> "running", Token |-> token, Result |-> db[k].Result]
      OBVIOUS
    <3>5. [AbstractJob(db[k]) EXCEPT !.status = "running", !.Token = token]
            = [[AbstractJob(db[k]) EXCEPT !.status = "running"] EXCEPT !.Token = token]
      OBVIOUS
    <3> QED BY <3>2, <3>3, <3>4, <3>5, Zenon
  <2>7. AbstractJobs' = [AbstractJobs EXCEPT ![k].status = "running", ![k].Token = token]
    <3>1. AbstractJobs' = [AbstractJobs EXCEPT ![k] = AbstractJob(db'[k])]
      BY <1>1, <2>1 DEF Keeps, AbstractJobs
    <3> QED BY <1>1, <2>1, <2>6, <3>1
  <2>8. \A x \in DOMAIN AbstractJobs : AbstractJobs[x].Token # token
    BY <1>1, <1>2, <2>1, QueueAssumption DEF IInv, TokensUnique
  <2>9. Abstract!Dequeue(k, token)
    <3>1. k \in DOMAIN AbstractJobs /\ AbstractJobs[k].status = "queued"
      BY <1>1, <1>2, <2>1, <2>4
    <3>2. \A x \in AbstractJobs[k].Dependencies : AbstractJobs[x].status = "finished"
      BY <1>1, <1>2, <2>1, <2>3, <2>4
    <3> QED BY <2>7, <2>8, <3>1, <3>2 DEF Abstract!Dequeue
  <2> QED BY <2>3, <2>9 DEF Abstract!Next
<1>5. ASSUME NEW j \in Jobs, NEW result \in Results, Finishes(j, result) PROVE Abstract!Next
  <2>1. /\ DOMAIN db' = DOMAIN db
        /\ db'[j] = FinishedWith(db[j], result)
        /\ Keeps(j)
        /\ j \in DOMAIN db /\ Running(j)
    BY <1>0, <1>5, WriteFinished DEF Finishes
  <2>2. status(db[j]) = "running"
    BY <2>1 DEF status, Running
  <2>3. status(db'[j]) = "finished"
    BY <1>0, <2>1, FinishedDocument DEF status
  <2>4. AbstractJob(db'[j]) = [AbstractJob(db[j]) EXCEPT !.status = "finished", !.Result = result]
    <3>1. /\ db'[j].Type = db[j].Type /\ db'[j].Dependencies = db[j].Dependencies
          /\ db'[j].Token = db[j].Token /\ db'[j].Result = result
      BY <1>0, <2>1, FinishedDocument
    <3>2. AbstractJob(db'[j]) = [Type |-> db[j].Type, Dependencies |-> db[j].Dependencies,
                                 status |-> "finished", Token |-> db[j].Token,
                                 Result |-> result]
      BY <2>3, <3>1 DEF AbstractJob
    <3>3. [AbstractJob(db[j]) EXCEPT !.status = "finished"]
            = [Type |-> db[j].Type, Dependencies |-> db[j].Dependencies,
               status |-> "finished", Token |-> db[j].Token, Result |-> db[j].Result]
      BY DEF AbstractJob
    <3>4. [[Type |-> db[j].Type, Dependencies |-> db[j].Dependencies,
            status |-> "finished", Token |-> db[j].Token, Result |-> db[j].Result]
              EXCEPT !.Result = result]
            = [Type |-> db[j].Type, Dependencies |-> db[j].Dependencies,
               status |-> "finished", Token |-> db[j].Token, Result |-> result]
      OBVIOUS
    <3>5. [AbstractJob(db[j]) EXCEPT !.status = "finished", !.Result = result]
            = [[AbstractJob(db[j]) EXCEPT !.status = "finished"] EXCEPT !.Result = result]
      OBVIOUS
    <3> QED BY <3>2, <3>3, <3>4, <3>5, Zenon
  <2>5. AbstractJobs' = [AbstractJobs EXCEPT ![j].status = "finished", ![j].Result = result]
    <3>1. AbstractJobs' = [AbstractJobs EXCEPT ![j] = AbstractJob(db'[j])]
      BY <1>1, <2>1 DEF Keeps, AbstractJobs
    <3> QED BY <1>1, <2>1, <2>4, <3>1
  <2>6. Abstract!FinishJob(j, result)
    BY <1>1, <1>2, <2>1, <2>2, <2>5 DEF Abstract!FinishJob
  <2> QED BY <2>6 DEF Abstract!Next
<1>6. ASSUME NEW j \in Jobs, Cancels(j) PROVE Abstract!Next \/ AbstractJobs' = AbstractJobs
  <2>1. /\ DOMAIN db' = DOMAIN db
        /\ db'[j] = AsCanceled(db[j])
        /\ Keeps(j)
        /\ j \in DOMAIN db /\ ~db[j].FinishedAt
    BY <1>0, <1>6, WriteCanceled DEF Cancels
  <2>2. status(db'[j]) = "canceled"
    BY <1>0, <2>1, CanceledDocument DEF status
  <2>3. AbstractJob(db'[j]) = [AbstractJob(db[j]) EXCEPT !.status = "canceled"]
    BY <1>0, <2>1, <2>2, CanceledDocument DEF AbstractJob
  <2>4. AbstractJobs' = [AbstractJobs EXCEPT ![j].status = "canceled"]
    <3>1. AbstractJobs' = [AbstractJobs EXCEPT ![j] = AbstractJob(db'[j])]
      BY <1>1, <2>1 DEF Keeps, AbstractJobs
    <3> QED BY <1>1, <2>1, <2>3, <3>1
  <2>5. CASE db[j].Canceled
    <3>1. AbstractJob(db'[j]) = AbstractJob(db[j])
      <4>1. status(db[j]) = "canceled"
        BY <2>1, <2>5 DEF status
      <4> QED BY <1>0, <2>1, <2>2, <4>1, CanceledDocument DEF AbstractJob
    <3> QED BY <1>1, <2>1, <3>1 DEF Keeps, AbstractJobs
  <2>6. CASE ~db[j].Canceled
    <3>1. status(db[j]) \in {"queued", "running"}
      BY <2>1, <2>6 DEF status
    <3>2. Abstract!CancelJob(j)
      BY <1>1, <1>2, <2>1, <2>4, <3>1 DEF Abstract!CancelJob
    <3> QED BY <3>2 DEF Abstract!Next
  <2> QED BY <2>5, <2>6
<1>7. ASSUME db' = db PROVE AbstractJobs' = AbstractJobs
  BY <1>7 DEF AbstractJobs
<1> QED BY <1>0, <1>3, <1>4, <1>5, <1>6, <1>7, DocumentSteps

(***************************************************************************)
(* fsJobQueue, with its crashes and faults, implements the interface       *)
(* JobQueue: every step is an operation of the interface or changes        *)
(* nothing that it shows.                                                  *)
(***************************************************************************)
THEOREM Refinement == Spec => ImplementsJobQueue
  BY AbstractInit, AbstractStep, Invariant, PTL DEF Spec, ImplementsJobQueue, Abstract!Spec
=============================================================================

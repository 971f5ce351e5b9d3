# osbuild-composer: specifications, model checks and proofs

This directory holds TLA+ specifications of osbuild-composer: how a request for
an image is accepted, turned into jobs and a manifest, built, uploaded and
reported.  There are modules for the job queues, the worker server with the
worker processes behind it, the Koji and cloud APIs, the targets an image is
uploaded to, the state store and the Weldr API on top of it, the partition
tables and the manifests of the distributions.  They are checked with TLC on
small instances, and the safety of both queues, of the worker server, of Koji,
cloud and Weldr composes, of the store and of the partition tables is proved with
TLAPS for instances of any size.

Paths are relative to the root of the repository (`src/` in `PROJECT.json`).

## 1. The system and its parts

A client asks one of three APIs (Weldr, cloud, Koji) for a compose.  The API
turns the request into one or several *jobs* with dependencies between them and
enqueues them through the *worker server*.  *Workers*, other processes and
often other machines, poll the worker server for jobs, run them, say every 15
seconds that they are alive, upload what they built and report a result.  The
APIs derive the status of a compose from the state and the results of its jobs.

| part | state it keeps | operations | talks to |
|---|---|---|---|
| job queue interface `internal/jobqueue/jobqueue.go` | (interface) | Enqueue, Dequeue, FinishJob, CancelJob, JobStatus, IdFromToken, Heartbeats, RefreshHeartbeat | |
| fsjobqueue, jsondb `internal/jobqueue/fsjobqueue`, `internal/jsondb` | one JSON document per job in a directory; in memory, behind one mutex: a channel of pending ids per job type, dependants, tokens, heartbeats | the same, and New(), which rebuilds the memory from the directory | the file system |
| dbjobqueue `internal/jobqueue/dbjobqueue` | the tables jobs, job_dependencies, heartbeats; a pool of connections | the same | PostgreSQL: transactions, row locks, LISTEN/NOTIFY |
| worker server `internal/worker/server.go` | artifacts/tmp/$TOKEN and artifacts/$JOB | Enqueue*, Cancel, RequestJob, GetJob, UpdateJob, UploadJobArtifact, FinishJob, DeleteArtifacts, JobArtifact, JobStatus, WatchHeartbeats | the queue; workers, over HTTP |
| worker `cmd/osbuild-worker`, `internal/worker/client.go` | the job of each of its goroutines | RequestAndRunJob, WatchJob, one Run per job type | the worker server; osbuild; clouds; Koji; systemd |
| Koji API and jobs `internal/kojiapi`, `jobimpl-koji-*.go`, `jobimpl-osbuild-koji.go` | none of its own | PostCompose, status; koji-init, osbuild-koji, koji-finalize | the worker server; the Koji hub |
| cloud API `internal/cloudapi/v1`, `v2` | none of its own | PostCompose (depsolve, then osbuild), status, metadata | the worker server |
| upload targets `internal/upload`, `internal/cloud/gcp` | none of their own; what they leave in a cloud | the calls of one upload, in order, and their clean-up | AWS, Google, Azure, vSphere |
| store `internal/store` | blueprints, workspace, commits and tags, composes, sources, in one JSON file | Push/Delete/Tag..., change() | jsondb |
| Weldr API `internal/weldr` | none of its own | blueprint, source and compose handlers | store, worker server, rpmmd |
| partition tables `internal/disk` | one base table per image type and architecture, global variables | CreatePartitionTable, the stage options read from a table | |
| distributions, blueprints, osbuild2 `internal/distro`, `internal/blueprint`, `internal/osbuild2` | tables | package sets, checks of a request, Manifest | dnf and osbuild, which run what they generate |
| daemon, rpmmd, registries, authentication, metrics | tables, or none | start-up, calls of other programs, filters | |

What is hard in it:

* **Concurrency.**  A Dequeue of fsjobqueue lets go of the mutex while it waits
  and comes back to channels others may have closed; a Dequeue of dbjobqueue
  skips locked rows and sleeps.  Handlers of the worker server make several
  calls of the queue, and heartbeats, cancellations, reports and expiry of the
  same job meet between them.
* **Failure.**  Composer stops and restarts while workers go on; workers die, or
  are only taken for dead; requests and answers get lost; writes fail half way.
* **Results that mean two things.**  A job that composer gives up on is
  *finished* with JSON null, and every reader decodes that to a zero value.
* **Three places for one thing.**  A Weldr compose is a record in the store, a job
  in the queue and a directory of artifacts, changed one after another.
* **Shared tables.**  Requests that run at the same time fill in the same global
  partition table, in unsigned arithmetic.
* **Other programs.**  A manifest is only right if osbuild, later and elsewhere,
  finds everything its stages ask for, and if the image boots; a cloud may have
  done what it never answered.
* **Waiting for each other.**  Full channels, a pool of connections, handlers
  that poll for a job inside a request.

What makes each part correct is stated as properties in sections 3 and 4;
`PROJECT.json` lists every hazard at its line with the properties aimed at it.

## 2. Plan

| | module | what | status |
|---|---|---|---|
| 1 | `JobQueue` | abstract specification of the interface | done |
| 2 | `FSJobQueue`, `MCFSJobQueue`, `FSJobQueueProofs` | the file-system queue, refines 1; all its safety properties proved | done |
| 3 | `WorkerServer`, `MCWorkerServer` | worker server and workers over 1 | done |
| 4 | `KojiCompose`, `MCKojiCompose` | Koji API and jobs over 1 | done |
| 5 | `DBJobQueue`, `MCDBJobQueue` | the PostgreSQL queue, refines 1 | done |
| 6 | `UploadTargets`, `CloudCompose`, `MCCloudCompose` | the osbuild job with its targets; cloud API v1/v2 over 1 | done |
| 7 | `WeldrStore`, `MCWeldrStore` | blueprints, workspace, commits, tags, sources, and what survives a restart | done |
| 8 | `WeldrComposes`, `MCWeldrComposes` | composes of the Weldr API over the store, 1 and the artifacts | done |
| 9 | `PartitionTables`, `MCPartitionTables` | partition tables under concurrent requests | done |
| 10 | `Osbuild`, `OsbuildBuild`, `Customizations`, `RHEL86`, `RHEL85`, `RHEL90Beta`, `Manifests`, `MCManifests` | manifests of four distributions, and what becomes of them | done |
| 11 | `DBJobQueueProofs`, `WorkerServerProofs`, `KojiComposeProofs`, `CloudComposeProofs`, `WeldrStoreProofs`, `WeldrComposesProofs` | every safety property that the runs check of these modules | done |
| 12 | `PartitionTablesProofs` | `FilesystemsAgree` and `LayoutIsSound` | done |

Composition: `FSJobQueue` and `DBJobQueue` are each shown to implement
`JobQueue`; `WorkerServer`, `KojiCompose`, `CloudCompose` and `WeldrComposes`
instantiate `JobQueue` and use its actions as atomic steps; that their behaviours are
behaviours of `JobQueue` is proved (`UsesJobQueue` of each).  What they show holds
of both queues as far as jobs, tokens and results go; the heartbeats and the
tokens of canceled jobs, in which the queues differ, are in `WorkerServer` itself
(constant `Backend`).  `CloudCompose` extends `UploadTargets`.  `Manifests` extends
`OsbuildBuild`, which says what dnf and osbuild do with an `Osbuild` manifest, and
instantiates the distributions; `RHEL85` and `RHEL90Beta` take from `RHEL86` what
they have in common with it line by line.

## 3. The modules

### JobQueue

`jobs` maps an id to its type, dependencies, token, result and one of *queued,
running, finished, canceled*.  Enqueue needs existing dependencies; Dequeue
takes a queued job whose dependencies have all finished, and a new token;
FinishJob a running job; CancelJob one that is queued or running.  An initial
state may hold running jobs (what an older version left behind).

### FSJobQueue

`db` is the directory (a function from ids to documents); `pending`, `sending`,
`dependants`, `jobIdByToken` and `heartbeats` are the memory; `want`, `closed`
and `got` are the calls of Dequeue.  Each locked section is one action:

| action | code |
|---|---|
| `Enqueue`, `MaybeEnqueue`, `Send` | Enqueue and maybeEnqueue.  The send to the channel is an action of its own because it blocks on a full channel *with the mutex held*: `sending` is what the holder still has to send and the mutex is free iff it is empty |
| `Dequeue` / `Receive` / `DequeueStart`, `DequeueSkip`, `DequeueTimeout`, `DequeueClosed` | first locked section / the select, without the mutex / second locked section, by what was received.  It begins by closing the empty channels of the caller's types (`ClosedBy`), under every other dequeuer that holds them |
| `FinishJob`, `CancelJob`, `RefreshHeartbeat` | the same |
| `Age` | time: the heartbeat becomes older than Heartbeats(olderThan) |
| `New`, `LoadRunning`, `LoadTokenless`, `LoadOther`, `LoadLitter`, `Started` | New(): the listing, then document by document in any order |
| `Crash`, `TornWrite` | the process stops anywhere, or inside writeFileAtomically, whose temporary file stays in the directory (`litter`) |
| `EnqueueFault`, `DequeueReadFault`, `DequeueWriteFault`, `FinishWriteFault`, `FinishReadFault`, `CancelFault` | a read or write of the directory fails and the operation returns where it stands; `faulty` remembers this until the next start |

Left out: the arguments of jobs, times (only their order to an age limit), JSON.
A result is a value; the result of `FinishJob(id, nil)` is `Null`.

Properties: `StartsAfterDependencies`, `NoLostJob` (a job that could start is on
its way to a worker), `QueuedOnce`, `HandedOutOnce` (the token of a started job
never changes), `OutcomeIsFinal`, `RunningIsTracked`, `TokenLeadsToItsJob`,
`ImplementsJobQueue`, `ReadyJobStarts`.  `HandedOutOnce` and `OutcomeIsFinal` are
proved, and in the runs they are implied by `ImplementsJobQueue`.

### DBJobQueue

`table` (jobs with their dependencies), `heartbeats`, the open transactions of
Enqueue (`enqueuing`), where each Dequeue is (`call`) and who has a notification
to receive (`notified`).  Enqueue is `EnqueueBegin` and `EnqueueCommit` or
`EnqueueRollback`: in between its foreign keys lock the rows of the dependencies
and `Available` (FOR UPDATE SKIP LOCKED) passes over them.  Dequeue is
`Dequeue` (connection, LISTEN), `DequeueStart` or `DequeueNone`,
`WaitForNotification`, `InsertHeartbeat`, with `DequeueTimeout` and
`DequeueLost`.  `DequeueFails` is a query that fails on a live connection:
errors.As(err, &pgx.ErrNoRows) (dbjobqueue.go:184) is true of every error, so the
call goes on to wait with a job ready ("misled").  FinishJob and CancelJob are one transaction each.  A call needs
a connection (`Acquires`).

`FinishJob` checks canceled and finished jobs with a Scan of four columns into
five variables, which always fails and whose error is ignored for these two; what
refuses such a job in the model, as in the code, is the missing heartbeat, the
WHERE clause of the update or a constraint of the table (`Finishable`).

Two history variables tell apart what the code does not repair: `cutOff`, the
tokens whose Dequeue ended between its two transactions, and `rolledBack`, that an
Enqueue with dependencies was rolled back.

### WorkerServer

The queue is `jobs` with its tokens and heartbeats.  `tmp`, `final` and `handle`
are the image in artifacts/tmp/$TOKEN, in artifacts/$JOB, and the open file of
an upload, which follows the directory when it is renamed.  Handlers that make
several calls are in the middle of them in `finishing` (Server.FinishJob: look
up the token, finish in the queue, rename), `polls` (GetJob: look up, refresh,
read the status) and `expired` (WatchHeartbeats).  Server.FinishJob may end before
the rename, because it cannot read the job back (server.go:276) or because the
rename fails and is only logged (server.go:290); `MoveFails` is both, and the
history variable `stranded` has the jobs whose image then stays in tmp/$TOKEN.  `slot` is what each goroutine
of a worker process does: building, uploading, targets, reporting.

Faults: requests and answers get lost ("lost"), worker processes die ("worker"),
the disk of the artifacts fails ("disk": a directory is not made, an image not
moved; failing writes of the queue are in FSJobQueue), and composer restarts up to `MaxRestarts` times, in the middle of any handler.
`Exit` ends a process with all its goroutines; `AfterExit` is what systemd does.

### KojiCompose

One Koji compose: `handler` is where PostCompose is; `alive` and `outcome` are
the workers, which first act on Koji and then report; `koji` is the build in the
Koji hub (external); `uploaded` the images in its directory; `expired` is a
history variable, the jobs that WatchHeartbeats finished with null.

### UploadTargets and CloudCompose

`args` is what each request asks for.  UploadTargets is
OSBuildJobImpl.Run after osbuild has run: `step` is the call of a cloud that the
job makes next, `cloud` the objects, imports, images and page blobs that exist
(external), and every call may fail, with or without having had its effect.  The
goroutines that upload pages to Azure are steps of their own (`Pages`,
`threads`).  Targets are none, AWS (AMI), S3, Google, Azure images, Azure page
blobs and vSphere.

CloudCompose adds the queue: `handler` is where PostCompose (v2) or Compose (v1)
is, which for v2 includes the poll for the depsolve job inside the request;
workers start, depsolve, build, report, die, or are only taken for dead
(`expired`).  `GetComposeStatus`, `ComposeStatus`, `GetComposeMetadata` and
`ComposeMetadataV1` are what the APIs answer.  Weldr requests are there for the
targets only it has; the rest of their life is WeldrComposes.

### WeldrStore

`store` is the store in memory, `disk` its file, `calls` the handlers that
call the store more than once and are between two calls (undo, and the deletion
of a source of the v0 API), `asked` counts changes up to `MaxChanges`.  `pushed`
and `acked` are history: the packages a commit pushed, and what was answered OK.

| action | code |
|---|---|
| `blueprintsNew`, `blueprintsWorkspace`, `blueprintDelete`, `blueprintDeleteWorkspace`, `blueprintsTag` | the handlers, with PushBlueprint, PushBlueprintToWorkspace, ... TagBlueprint |
| `undoRead`, `undoPush` | blueprintUndoHandler: read the old change, push it |
| `sourceNew`, `sourceLookup`, `sourceDelete` | the source handlers of both API versions |
| `crash`, `New` | composer stops; store.New reads the file, also one without commit order (`Legacy`) |

Each change ends with the write of the whole file.  If it fails, change() panics,
the HTTP server recovers, and the memory keeps what the file lacks.  `Diff`,
`Freeze`, `Page` and `sourceInfoV0/V1` are the handlers that compute an answer.

No handler refuses a list that has a package twice, in a blueprint or in the answer
of the solver.  `Diff` therefore goes by position: the map of old packages keeps
the last one of a name, and the first new one of that name takes it out; the diff is
exact for lists that name no package twice (`NamedOnce`).  sort.Slice is not stable,
so `SortByName` is the set of all orders it may leave, and `Freeze` the set of
blueprints that binary searches (`Search`) in those orders give.

### WeldrComposes

`composes` and `disk` are the composes in the store and in its file, `jobs` the
queue, `artifacts` what there is of the image (nothing, an empty directory, an
image in tmp/$TOKEN, one in its place), `moving` the jobs between the queue's
FinishJob and the rename.  `calls` holds
the handlers in the middle of their calls: `composeEnqueue` then `composePush`;
`composeDelete` (reads the state), `DeleteCompose`, `DeleteArtifacts`;
`composeCancel`, `CancelJob`.  `composeTest` are the two test modes.  `RequestJob`,
`UploadJobArtifact`, `FinishJob`, `MoveArtifacts` and `MoveFails` are the worker
server; `Crash` and `New` a restart, which drops composes of image types the host does
not have.  The first file may have composes of an older version in it.  History:
`kept`, `deleted`, `forgotten`.

A result is one of four: `null` (osbuild did not run, or composer gave up on the
job), a failure, `unmarked` (osbuild succeeded, but the worker reports no success,
as when UploadArtifact failed) and a success.  `JobStatus` turns the third into the
fourth, as worker/server.go:126-132 does, and getComposeStatus reads the outcome.
`Denied` is the image type denylist, which the user may configure
(docs/news/31/weldr-image-type-denylist.md), and `Unmapped` are the types that
imageTypeToCompatString (json.go:342-369) has no name for.  The default list
(config.go:96-105) has all of the latter; nothing here assumes that a list does.

### PartitionTables

`shared` is the base table of an image type, a global variable of the code, and
`literal` what the source says; `req` is how far each request has come in
CreatePartitionTable and in the functions that read stage options from its
result, one action for each part that touches the shared table.  A request works
on `shared` until the first mountpoint is appended, then on a copy whose
filesystems are still shared by pointer.  Sizes wrap at `Word`; the loops that add
sizes or append partitions are recursive functions (`Totals`, `Appended`).  History:
`together` (ran while another request did), `misfit` (a request since the last start
did not fit its image), `largest` (the size of the largest image since then) and
`disturbed` (ran after or along with a misfit or a far larger image).

### Manifests and the distributions

`Osbuild` has pipelines, stages and the constructors of stages; a stage keeps the
options something depends on: packages, units, kernels, files, disks, inputs.
`Customizations` are the getters of internal/blueprint.  `RHEL86` (RHEL 8.6 and
CentOS Stream 8), `RHEL85` and `RHEL90Beta` have the package sets, checkOptions and
pipelines of every image type on every architecture.  `OsbuildBuild` is external:
how dnf resolves a set, which tools each stage calls in the build root, what it
must find, and what it leaves in the tree.  Kernels in a tree are known by their
version, which is all that kernelVerStr gives the boot loader, and ostree.preptree
takes a tree with exactly one (`Admits`).

`Manifests` runs a request: `Depsolve(name)` for each package set in any order,
with `RepositoryUpdate` (a new kernel is published) in between, `Manifest`, then
`RunPipeline` pipeline by pipeline, and `Export`.

## 4. The runs

| run | instance | distinct states | what holds |
|---|---|---|---|
| `queue_faults` | 2 workers, 3 jobs (1 without a token), channels of 1, all faults | 225 000 | the safety properties of fsjobqueue and `ImplementsJobQueue` |
| `queue_liveness` | 2 workers with different types, 2 jobs, channels of 2 | 20 000 | `ReadyJobStarts` |
| `db_faults` | 2 workers, 2 jobs, 3 connections, all faults | 60 000 | `RunningIsWatched`, `ImplementsJobQueue`, `ReadyJobStarts`, `StaysAvailable` |
| `worker_faults` | 1 job, 1 worker, lost messages, dying workers, a failing disk, 1 restart | 11 700 | `ArtifactsInPlace`, `SuccessHasArtifact`, `AbandonedJobEnds`, `CanceledWorkerStops` |
| `worker_taken` | 2 jobs, 1 worker | 311 000 | `QueuedJobIsTaken` |
| `koji_faults` | 2 builds, all faults | 60 000 | `ImportIsSound`, `SuccessUnlessExpired`, `ComposeSettles`, `KojiBuildIsClosed` |
| `cloud_faults` | 2 requests, 9 pairs of targets, calls of the first may fail, all faults | 191 000 | `SuccessIsDelivered`, `NothingLeftBehind`, `BuildIsOfDepsolve`, `RequestSettles` |
| `store_faults` | 1 blueprint name, 2 contents, 2 sources, 4 changes, an old or a new file, crashes, failed writes | 554 000 | `AcknowledgedIsDurable`, `HistoryIsSound`, `QueriesAreExact`, `HistoryOnlyGrows` |
| `store_tag` | the same without faults | | `ChangeIsOfItsCommit` **violated** |
| `compose_faults` | 2 composes, new or of an old file, 2 handlers, 4 image types, a denylist with a gap, crashes, failed writes | 1 175 000 | `ComposesAreKept`, `UnfinishedIsOwned`, `RequestsAreAnswered`, `StatusIsFinal` |
| `disk_layout` | 3 base tables, 10 asks, 2 requests, 1 restart | 165 000 | `LayoutIsSound`, `FilesystemsAgree` |
| `manifests` | 3 336 requests: 4 distributions, their architectures and image types, 12 blueprints, the options | 97 500 | `Buildable`, `Boots`, `InstallerFindsMedia`, `UsersHaveTheirKeys` |

`TypeOK` of each module is checked by its fault run, in several of them as a part
of the first property.  What the properties of the newer modules say:

* `SuccessIsDelivered`: a compose the cloud APIs report as a success has a complete
  image or object of its own, shared with exactly the accounts of the request (an
  AMI for several accounts with one of them, and nobody else), and its metadata can
  be read.  `NothingLeftBehind`: what an upload needs only for the
  import is gone afterwards, unless a call failed or the worker was lost.
  `BuildIsOfDepsolve`: an osbuild job is made from its own depsolve job.
  `RequestSettles`: every request is answered, every accepted compose ends.
* `AcknowledgedIsDurable`: what was answered OK is in the file, whatever follows.
  `HistoryIsSound`: the committed blueprint is the one of the last commit, and
  revisions grow.  `HistoryOnlyGrows`: nothing, not even a restart from an old
  file, reorders a history.  `QueriesAreExact`: a diff turns the old packages into
  the new ones and has one entry per name; a frozen package has a version the solver
  gave for its name, and is missed only if there is none, in whatever order the sort
  leaves the answer; consecutive pages tile the list; no source is left out.
* `ComposesAreKept`: an answered compose is in the store and its file until a
  client deletes it, one that its worker reported as a success has an image (in its
  place, or in tmp/$TOKEN if the rename failed or was cut off), a deleted one does
  not come back.  `UnfinishedIsOwned`: a job that may still run belongs to a compose.
  `RequestsAreAnswered`: no later request can meet a compose whose job is missing;
  the store stays writable unless the denylist misses a type without a name; and the
  answers about one compose agree: what is listed can be fetched, and the log
  handlers panic only for a failed compose whose job was canceled or has a null
  result.  `StatusIsFinal`: an end is final.
* `LayoutIsSound`: partitions have the size asked for and do not overlap, whatever
  else runs, and the root partition fills the disk of a request that is not
  `disturbed` and ran alone or has mountpoints of its own.  `FilesystemsAgree`: mkfs, fstab and the boot loader
  name the same UUIDs, and no image has those of another.
* `Buildable`: osbuild can build the manifest of a sensible request, but for a commit
  that got two kernels, which fails where rpm-ostree counts them and nowhere else.
  `Boots`: the boot loader finds the version of the kernel that was asked for, the
  partitions it is made for and every filesystem that has a device name of its own.  `InstallerFindsMedia`: labels, kickstart and payload of an
  installer fit each other.  `UsersHaveTheirKeys`: so do users and ssh keys.

**The violation.**  `store_tag`: TagBlueprint (store.go:273-307) walks the history
with a loop variable and then stores that variable under the latest commit.  After
two pushes and a tag, the latest commit's entry is a copy of the older commit,
blueprint included, and undo to it restores the wrong one.

**Behaviour the models have that the passing properties exclude by name.**  Most
can be seen by changing a constant of a cfg or dropping the exception; what is
hazardous is in `PROJECT.json`.

Queues and workers:

* The 101st pending job of a type blocks its sender, which holds the mutex that
  every dequeuer needs before it can receive.  With `channelSize = 1`
  `queue_liveness` violates `ReadyJobStarts`.
* The temporary file of an interrupted write has no uuid for a name, so New()
  fails, at every later start too (`litter`).
* A Dequeue of fsjobqueue may return early with ErrDequeueTimeout because another
  one closed an empty channel under it; `ReadyJobStarts` holds because it asks again.
* dbjobqueue's Dequeue may end (the worker hangs up) between starting a job and
  inserting its heartbeat; the job then runs for ever, unwatched (`cutOff`).  After a
  rollback a dequeuer that skipped a locked row is not woken (`rolledBack`).  One
  whose query failed sleeps until the next notification with a job ready; without the
  exception for the case that all who accept the job do (`AllMisled`)
  `ReadyJobStarts` fails.
* `StaysAvailable` needs fewer polling goroutines than connections.  Without
  that (`MaxConns = 2`) and without request_job_timeout every connection is held
  by a Dequeue that waits for a job nobody has a connection to enqueue.
* dbjobqueue's IdFromToken leaves out canceled jobs: GetJob answers 404, WatchJob
  ignores errors, the worker builds on.  With `Backend = "db"` `CanceledWorkerStops`
  fails.  With fsjobqueue it stops at a restart, which restores no token of a
  canceled job.
* `QueuedJobIsTaken` is about local workers.  With `Remote = {w1}` it fails: the
  service of a remote worker has Restart=on-failure, and WatchJob exits with 0.
  A cancellation ends the whole worker process, and a late answer one that is
  already at its next job; the jobs killed that way expire.
* `SuccessHasArtifact` says that the image of a success is whole, in its place or
  still in tmp/$TOKEN: if composer stops between the queue's FinishJob and the
  rename, cannot read the job back or fails to rename (`stranded`), nothing moves it
  later, and JobArtifact fails.  It looks at the worker's own success flag; JobStatus
  overrides that flag when osbuild succeeded and there are no target errors, so an
  image whose upload to composer failed (jobimpl-osbuild.go:168-171) is reported a
  success.
* Artifacts may appear after `DeleteArtifacts`, if it comes between the queue's
  FinishJob and the rename.

Koji and clouds:

* A Koji build whose worker died has a null result; koji-finalize panics on it,
  is finished with null as well, and the compose is a "success" with nothing
  imported (kojiapi/server.go:256).  `KojiBuildIsClosed` excepts jobs that were
  given up on, a finalize that Koji refused (after a lost answer of koji-init nobody
  knows the build's token), and a composer that stopped before the finalize job
  was enqueued.
* An expired depsolve job has no Error: v2 goes on to an osbuild job without any
  packages (v2.go:228).  The poll has no timeout of its own; a crash leaves the
  depsolve job behind.  v1's metadata handler panics on a result without osbuild
  output.
* AWS shares an AMI for several accounts, which v2_test.go:427 asks for, with one of
  them only (address of a loop variable, awsupload.go:205 and 283).
  `SuccessIsDelivered` excepts it by name (`OneOfSeveral`).  A failed import leaves its S3 object; a failing
  GetBuild skips Google's clean-up; Azure uploads under one name replace each
  other, and two jobs may both create the storage account.

Store and Weldr:

* Versionless pushes alternate between 0.0.0 and 0.0.1; undo to a change whose
  blueprint the restart did not bring back pushes the zero blueprint; the v0 API
  looks a source up by id and deletes it by name.
* Composes of image types only another distribution has are dropped by the next
  restart.  composeLog and composeLogs panic (api.go:3001 and 3063) for jobs that
  were canceled or have expired, and for those whose osbuild could not be run, which
  report no output (jobimpl-osbuild.go:106-110).  A compose may be FINISHED and have
  no image, by JobStatus' override; `ComposesAreKept` asks for one only where the
  worker reported a success.  A compose of an image type without a name that the
  denylist misses makes every later change of the store panic, and is gone with the
  next restart.  A stop between EnqueueOSBuild and PushCompose leaves a job without a
  compose (`forgotten`); artifacts of a canceled compose are never deleted.

Disks and manifests:

* Sectors are compared with bytes, so an image is practically never grown for its
  mountpoints, and the size of the root partition then wraps around
  (`disturbed`).  A request for an image too small for its table leaves wrong
  values in the global table until a restart.  So does one for a far larger image:
  the root partition it leaves behind, in sectors, may be more than a later image
  has bytes, and CreatePartitionTable (customizations.go:47) then grows that image
  although nobody asked for it (`Dwarfed`; the proof of `RootFillsDisk` showed it,
  and the ask of size 120 is in the run because of it).  Requests that run at the same time
  exchange UUIDs and sizes (`together`).
* A kernel published between two depsolves is installed next to the one the boot
  loader starts, and makes an ostree commit fail, which may have only one
  (docs/news/28/kernel-customizations-name.md; `TwoKernels`).  Customizations whose package is not in the image, and edge
  installers without a URL, make manifests osbuild cannot build (`Sensible`);
  filesystems whose mountpoints end alike get one device name (stage_options.go:454-458)
  and both are mounted from the partition of one of them while the tree is copied:
  "/data" and "/srv/data", but also "/srv/root", "/var/boot" and "/data/efi" with those of the base table
  (`DistinctDevices`; the blueprints of the run have all of these).  With several
  sshkey entries every user gets the last key (customizations.go:173).  A
  subscription on image types without subscription-manager fails at first boot,
  which is outside of the model.

**Bounds.**  Three jobs are the fewest in which one depends on two others, and in
which two jobs wait for one; two workers the fewest that close channels under, or
race for a job with, each other.  A channel of one id makes a full channel
reachable; liveness is checked with channels that hold all jobs, since a full one
blocks for good.  Three connections let an Enqueue be open while both workers
poll; two jobs let one wait for the other in dbjobqueue.  Koji: two builds, so that
finalize sees a good and a bad one in either order.  One restart per run of
`worker_faults` puts it anywhere in the life of a job; a second one would start
from a state with the same memory.  A job is dequeued once, so there are as many
tokens as jobs.  Cloud: two requests, the fewest that meet under one image name;
every target is in some pair, two of which are the same target under the same
name; calls fail for one of them (`Mortal`), so that the other is the bystander;
two pages and one thread make the semaphore full.  Store: four changes are two
pushes, a tag and an undo, one name because the code keeps names apart, two
contents of which one adds and one changes a package.  Composes: two of them under
two handlers race for every pair of requests; more handlers repeat a pair; of the
image types one is ordinary, one is of another distribution, one has no name and is
denied, one has no name and is not.  Disk: a
word of 128 and sectors of 4 bytes keep one table, its growth, its underflow and an
image that dwarfs another within reach, and the three base tables are those with, without, and with only a
root partition.  Manifests: every image type is there on every architecture; a
blueprint has nothing, each customization by itself, or all of them, and a kernel
comes in between only where the request is about nothing or the kernel, since
nothing else has a version.  Tokens, jobs, handlers and requests are symmetric
where nothing tells them apart and no liveness property is checked.

**Deadlock** is checked in `queue_faults` and `queue_liveness`: a stopped process
can always start, and a dequeuer can always poll or give up.  The other runs end
when every job, request or bounded change has ended and no client calls again, so
they say CHECK_DEADLOCK FALSE.

**Fairness.**  Clients owe nothing: Enqueue, Cancel, FinishJob and deletions are
never fair.  Assumed is only what the code's own goroutines do:

* FSJobQueue: start-up and sends go on; a goroutine that waits for the mutex gets
  it; a worker polls again after each answer.  Receive is strongly fair: Go's
  select picks at random among its ready cases, so a channel that is ready over
  and over is picked before some timeout.  Timeouts are not fair.
* DBJobQueue: a begun transaction commits, Dequeue goes on and is called again.
  Without request_job_timeout no deadline wakes a Dequeue, so timeouts are not
  fair.  `ReadyJobStarts` is about behaviours in which crashes and lost connections
  come to an end (`Calm`).
* WorkerServer: handlers and the 30-second watcher go on; time passes; WatchJob
  asks every 15 seconds, and of its answers not all are lost (strong fairness).
  Builds, uploads and reports may hang for ever, except in `worker_taken`
  (`BusySpec`), which is about workers that are not stuck.
* KojiCompose: handler and workers go on, and WatchHeartbeats finds the jobs
  without a worker.  That a live worker is taken for dead is possible, never fair.
* CloudCompose: for each request, something that can go on does (`Progress`): its
  handler, a worker that polls or works, its cloud, or WatchHeartbeats for a job
  without a worker.  Crashes, failures and false alarms are not fair.

WeldrStore, WeldrComposes, PartitionTables and Manifests have safety properties
only: their handlers run through or stop with composer.

Every property has a mutant in `PROJECT.json`: a change of a mapped definition
such as a plausible bug would make, under which TLC finds the property violated.

## 5. The proofs

Each component has its proofs in a module of its own, which extends it.  All of
them hold for sets of any size, any bounds and any combination of faults, from the
assumptions the modules state of their constants: `QueueAssumption` and its like
say that the special values (no token, null, no name) are not among the ordinary
ones, `AsksAssumption` that requests have arguments, and `ConstantsOK` of the store
that commit ids do not repeat and that versions are numbers; `PackagesOK` says that
contents and answers are sequences of packages.  Of partition tables,
`ScaleAssumption` says that a sector has at least two bytes and that sizes are
natural numbers, `TablesAssumption` that the base tables in the source have
filesystems for `/`, `/boot` and `/boot/efi` only, one of them the root and none of
them twice, and `AsksAssumption` that sizes fit an integer and that no mountpoint of
a base table but the root is in the list of allowed ones.

| module | theorem | property |
|---|---|---|
| `FSJobQueueProofs` | `TypeCorrect` | `TypeOK` |
| | `Dependencies` | `StartsAfterDependencies` |
| | `NothingLost` | `NoLostJob` |
| | `NothingTwice` | `QueuedOnce` |
| | `Tracked` | `RunningIsTracked` |
| | `TokensLead` | `TokenLeadsToItsJob` |
| | `HandsOutOnce` | `HandedOutOnce` |
| | `OutcomesFinal` | `OutcomeIsFinal` |
| | `Refinement` | `ImplementsJobQueue` |
| `DBJobQueueProofs` | `TypeCorrect` | `TypeOK` |
| | `Watched` | `RunningIsWatched` |
| | `Refinement` | `ImplementsJobQueue` |
| `WorkerServerProofs` | `Artifacts` | `ArtifactsInPlace` |
| | `SuccessArtifact` | `SuccessHasArtifact` |
| | `UsesJobQueue` | the specification implies that of `JobQueue` |
| `KojiComposeProofs` | `ImportSound` | `ImportIsSound` |
| | `SuccessIsImported` | `SuccessUnlessExpired` |
| | `UsesJobQueue` | as above |
| `CloudComposeProofs` | `OfDepsolve` | `BuildIsOfDepsolve` |
| | `LeftBehind` | `NothingLeftBehind` |
| | `Delivery` | `SuccessIsDelivered` |
| | `UsesJobQueue` | as above |
| `WeldrStoreProofs` | `Durable` | `AcknowledgedIsDurable` |
| | `History` | `HistoryIsSound` |
| | `Growth` | `HistoryOnlyGrows` |
| | `Queries` | `QueriesAreExact` |
| `WeldrComposesProofs` | `Kept` | `ComposesAreKept` |
| | `Owned` | `UnfinishedIsOwned` |
| | `Answered` | `RequestsAreAnswered` |
| | `FinalStatus` | `StatusIsFinal` |
| | `UsesJobQueue` | as above |
| `PartitionTablesProofs` | `Agreement` | `FilesystemsAgree` |
| | `Layouts` | `LayoutIsSound` |

Hardly any of the properties is inductive by itself.  Every module has an
inductive invariant `IInv`, which TLC checked on the instance of the module's fault
run before it was proved, lemmas on what the operations of the queue or the store
change, one lemma per action or group of actions, `Initially`, `Step` or `EveryStep`, and theorems
that follow from `IInv`.

**FSJobQueueProofs.**  `IInv` relates each piece of memory to the directory, also
while New() has read only a part of it:

* `DependenciesExist`, `OutcomesExclude`: documents are never removed, and a
  finished one was started and is not canceled.
* `LoadingWhenStarting`, `DownIsEmpty`: New() begins with empty maps.
* `QueuedIsReady`: an id on its way was loaded, has not started and has all its
  dependencies finished.  Without it Dequeue could start an id twice (it does not
  look at StartedAt) or too early; with it `QueuedOnce` gives `HandedOutOnce` and
  `StartsAfterDependencies`.
* `DependantsWait`, `WaitingIsKnown`: the map of dependants holds loaded jobs
  under jobs they depend on, and a job that is not ready is in the list of every
  dependency it still waits for.  So when the last of them finishes the job is
  found: this is what `NoLostJob` needs, and where a crash, a failed read
  (`faulty`) or a cancellation could break it.
* `TokensUnique`, `TokensIssued`: uuid.New() does not repeat itself and a token
  was issued for one document, which makes `TokenLeadsToItsJob` inductive.
* `TrackedOnceLoaded`: `RunningIsTracked` for what New() has loaded so far.

The proof has one lemma per conjunct, over lemmas that sort the actions by what
they do to the documents (`DocumentSteps`), to the mode (`ModeSteps`), to the
queue (`QueueSteps`) and to the dependants (`KnownSteps`), so that no lemma has to
go through all actions twice.  `HandsOutOnce` and `OutcomesFinal` follow from
`FinalStep` under `IInv`; `Refinement` from `AbstractInit` and `AbstractStep`,
which maps every step to one of JobQueue's or to a stutter.

**DBJobQueueProofs.**  An Enqueue inserts the row of a new id over rows that exist
(`InsertsAreNew`, which holds because rows are never deleted), a call of Dequeue has
a token exactly between its two transactions (`StartedHasToken`), and tokens are in
one row.  With that, `Finishable`, the WHERE clause, the heartbeat and the
constraints of the table are together the guard of JobQueue's FinishJob, which is
the step of the refinement that is not evident from the code.  The bound on the
pool needs that the sets of calls and transactions are finite (`PoolIsFinite`).

**WorkerServerProofs.**  The property is about finished jobs, but what makes it true
is known earlier.  `SlotsHaveUploaded` and `CallsHaveUploaded` carry "the whole image
is in tmp/$TOKEN" from the goroutine that uploaded it through its report to the
call of FinishJob; `SuccessIsUploaded` says that no other upload of the same token
can be open then and that what is in tmp/$TOKEN is whole, which is where the image
stays if the job is `stranded`; `TokensUnique`, `TokensLeadToJobs`, `CallsKnowJobs` and
`HandlesOfJobs` say that tokens, calls and open files are of one job, so that the
rename cannot move the image of another.  `UsesJobQueue`, here and for the three
kinds of composes, discharges what section 2 says of composition: only steps that
JobQueue allows are made, with ids, tokens and results of its types.

**KojiComposeProofs.**  What a worker did in Koji, what it returned and what the
queue has recorded change at different times.  `OutcomeIsOfStarted`,
`ResultIsReported` and `GoodIsUploaded` link them; with `DependenciesFirst` all of it
is settled when koji-finalize looks, hence `ImportedIsGood` and `FinalizeDecides`.

**CloudComposeProofs.**  For each request: what the queue has of its jobs
(`QueueInv`), which call of which target is next and what the result then says
(`WorkerInv`), and what is in the clouds at each of those calls (`CloudInv`: objects
that are still in use, images made with whom they are shared, storage accounts,
pages sent by the threads).  `Local` says what a step of one job may do to the
things of another: nothing, but for Azure images and blobs of the same name.

**WeldrStoreProofs.**  `Good` says of a store in memory that its maps of changes and
orders of commits list the same commits (`Ordered`, `Complete`), that a committed
blueprint is the one of its last commit (`LatestIsCommitted`) and that revisions grow.
`IInv` has it of the memory and of *every* store that New may read from the file: a
file without the order of commits can be read in more than one way.  `Extends` and
`Holds` say that the file is a prefix of the memory, history by history, and that
both have what was promised; they make a failed write harmless.  Two commits of an
old file that fall in one second may be read in either order, and a tag may then
copy one change over the other: the exception in `HistoryIsSound` is inductive only
because such a history has at most these two commits until the next push.  That a
tag finds the newest revision needs the maximum of a set of positions, which `Least`
derives from the well-foundedness of the naturals.

`Queries` is about functions over sequences, and rests on facts about them that need
induction.  The library's theorem of induction has an operator for a parameter, so
`Induction` is stated of a *set* of numbers that has 0 and is closed under + 1, and
each use defines its set.

* Binary search: `HalveEncloses` says that a round keeps the position that is looked
  for within its bounds and brings these closer, `RoundsExist` that the recursive function
  of the rounds is one, and `SearchIs` that the result is the first position whose
  name is not smaller.
* Sorting: `SortedIs` takes any order `SortByName` allows; that there is one
  (`Sorts`), so that `Freeze` is not empty, is shown by a selection sort, one `Swapped`
  pair of positions at a time.
* Diffs: `DiffIs` says which pairs of positions the loop makes entries of,
  `EntriesDiffer` that no two have a name in common, `Patches` that they give the new
  list.
* Pages: `PageIs` and `Tiling` for any list; that the blueprints are a list needs
  that they are finitely many, a small invariant of its own (`FInv`, theorem
  `FinitelyMany`), since every step adds one name at most.

**WeldrComposesProofs.**  `Sound` and `SameOnDisk` relate store, file and queue,
`KeptTwice` is `ComposesAreKept` for both copies, and the handlers between two calls
are covered by what they will do next: `PushIsNew` (no one else knows the id yet),
`DeleteIsOfEnded`, `ArtifactsOfGone`, `DeletedOnce`, `ImageOfStored`.  Of the image
types only that `Unmapped` and `Denied` are sets of them is assumed.

**PartitionTablesProofs.**  Requests write to one array and one set of filesystems
without a lock, so what holds of a request that runs alone must not depend on how
the ones before it left them.  `TableIsKept` and `HeapIsOfTable` are what no request
changes: the mountpoints, which partition has a filesystem, and the literal UUID of
`/boot/efi`.  `Holds` says that an array with mountpoints of its own points to no
other shared filesystems.  `Alone` carries the UUIDs that a request has set, and
what its stages have written so far, to the last stage; `TogetherIsKnown` makes
`StepOfRunning` possible: any other request that runs is in `together`, and a step
has to be looked at for its own request only.

`LayoutIsSound` has a second inductive invariant on top of the first, `LInv`.  `IsFor`
says of an array what holds from the time the mountpoints are appended: it is the base
table but for the size of its root, then one partition of the right size per
mountpoint, and the sizes of all but the root add up to what `Needed` counts.  `Placed`
says where its partitions start, modulo `Word`; sums that only grow make partitions
that follow one another disjoint where nothing wraps.  `Leftover` is what makes the root
partition right for a request that comes later: the one in the shared table is that of
the source, or small enough for the largest image since the start, so a request that is
not dwarfed is not grown by it; `Fills` then says that the root ends where the disk does,
and neither holds after a misfit.  Facts about sums (`Totals`) are proved with the same
`Induction` as in the store.

Only model-checked:

* every liveness property: fairness and ENABLED are outside of the prover's reach;
* the four properties of `Manifests`: they are about tables and sequences of stages of
  particular distributions, for which a theorem would enumerate what TLC enumerates;
* the violation of `store_tag`.

## 6. Not modelled

* The distributions rhel8, rhel84 and fedora33, and osbuild1: they generate
  manifests the way the modelled ones do, in large part in the older format, which
  would need a second model of osbuild for the same questions.
* Content of configuration files, sizes and versions of packages other than
  kernels, the results that osbuild writes, and JSON everywhere.
* The handlers for modules and projects, rpmmd and dnf-json: they run a subprocess
  and show what it answers; where a modelled part depsolves, it succeeds with some
  answer or fails.
* The daemon's wiring and configuration: no state of its own; what it decides is
  a constant here (`Backend`, whether Dequeue has a deadline).
* PostgreSQL, Koji, the clouds, dnf and osbuild are external: they are modelled by
  what the code asks of them.
* Registries and RHSM (tables read once), password hashing, authentication, TLS,
  HTTP routing, metrics, logging, generated and vendored code, test programs.
* Real time: the 15-second, 30-second and two-minute periods are an order of
  events (a heartbeat is fresh or old), never durations.
